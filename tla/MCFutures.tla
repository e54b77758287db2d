----------------------------- MODULE MCFutures -----------------------------
(* Instances of the futures for TLC.                                       *)
EXTENDS Futures

CONSTANTS t1, t2

=============================================================================
