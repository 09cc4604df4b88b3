---------------------------- MODULE MCOtaLoader ----------------------------
(* Values for TLC: an image of three blocks, replies of up to two blocks,   *)
(* fatal and other statuses, one read in each stage that checks, any number *)
(* of gates.                                                                *)
EXTENDS OtaLoader
=============================================================================
