---------------------------- MODULE MCHostSystem ----------------------------
(* Values for TLC: every pair of different things on two ports, and files   *)
(* that end inside a sector and at the end of one.                          *)
EXTENDS HostSystem

CONSTANTS portA, portB

MCAttached == {[x \in Ports |-> IF x = portA THEN k[1] ELSE k[2]] :
                 k \in {<<"app", "ota">>, <<"ota", "nameless">>,
                        <<"ota", "none">>}}
MCLengths == {2, 3}
=============================================================================
