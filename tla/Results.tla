------------------------------ MODULE Results ------------------------------
(***************************************************************************)
(* A pure algorithm as a behaviour: an input is picked initially, one step *)
(* stores what the algorithm makes of it, the properties compare the two.  *)
(***************************************************************************)

VARIABLES input, output, done

mapVars == <<input, output, done>>

Computed(kind) == done /\ input.kind = kind
=============================================================================
