---------------------------- MODULE MCSeqClient ----------------------------
(* Values for TLC: clients with and without a port or one of two names, and *)
(* streams of three events, whose data is padded by the kernel as           *)
(* recv expects (0, 3 or 4 bytes) or not (1 or 2).                          *)
EXTENDS SeqClient

MCEntries == {[names |-> {1}, ports |-> {0}], [names |-> {2}, ports |-> {0, 1}],
              [names |-> {2}, ports |-> {}], [names |-> {}, ports |-> {0, 1}]}

MCEvents == {[sysex |-> FALSE, var |-> FALSE, len |-> 0],
             [sysex |-> FALSE, var |-> TRUE, len |-> 1]}
            \cup [sysex : {TRUE}, var : {TRUE}, len : 0 .. 4]
MCStreams == MCEvents \X MCEvents \X MCEvents

MCStrays == {<<>>, <<<<<<0, 0>>>>>>}
=============================================================================
