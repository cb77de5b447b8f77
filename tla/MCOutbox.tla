------------------------------ MODULE MCOutbox ------------------------------
EXTENDS Outbox, TLC

CONSTANTS p1, p2

(***************************************************************************)
(* Row 1 is of a type this release does not know; rows 2 and 3 are written *)
(* by one reasoning run, and only the first of them goes to Kafka.         *)
(***************************************************************************)
MCEvent == 1 .. 3
MCTypeOf == <<"FutureEvent", "ReasoningCompleted", "ReasoningStarted">>
MCTxn == {{1}, {2, 3}}
=============================================================================
