--------------------------- MODULE Investigation ---------------------------
(***************************************************************************)
(* Operator investigations: requests of POST /assets/{id}/investigation    *)
(* that append transitions to investigation_transitions.  A request reads  *)
(* the latest transition of its recommendation, checks that the new status *)
(* ranks higher, and inserts its row in the same READ COMMITTED            *)
(* transaction, with no lock and no constraint in between.                 *)
(***************************************************************************)
EXTENDS Naturals

CONSTANTS
    Request,            \* HTTP requests, each served once
    Recommendation,     \* the recommendations an asset has in turn
    NoRec               \* not a recommendation: a request that has not arrived

ASSUME InvestigationAssumption == NoRec \notin Recommendation /\ Recommendation # {}

VARIABLES
    current,        \* the asset's current recommendation
    transitions,    \* committed rows of investigation_transitions
    req,            \* req[p]: the recommendation and the status the request names
    stamp,          \* stamp[p]: its occurred_at
    pc,             \* pc[p]: where the request is
    clock,          \* the API's clock
    overlapped      \* history: recommendations two requests of which overlapped

vars == <<current, transitions, req, stamp, pc, clock, overlapped>>

(* ACKNOWLEDGED, INVESTIGATING, RESOLVED; 0 is the implicit NEW. *)
Rank == 1 .. 3

TypeOK ==
    /\ current \in Recommendation
    /\ clock \in Nat
    /\ transitions \subseteq [id : Request, rec : Recommendation, status : Rank, at : 1 .. clock]
    /\ req \in [Request -> [rec : Recommendation \cup {NoRec}, status : {0} \cup Rank]]
    /\ stamp \in [Request -> 0 .. clock]
    /\ pc \in [Request -> {"new", "checked", "accepted", "flushed", "recorded",
                           "rejected", "not found", "failed"}]
    /\ overlapped \subseteq Recommendation

Init ==
    /\ current \in Recommendation
    /\ transitions = {}
    /\ req = [p \in Request |-> [rec |-> NoRec, status |-> 0]]
    /\ stamp = [p \in Request |-> 0]
    /\ pc = [p \in Request |-> "new"]
    /\ clock = 0
    /\ overlapped = {}

----------------------------------------------------------------------------
(* A reasoning run gives the asset another recommendation. *)
Supersede ==
    /\ \E r \in Recommendation \ {current} : current' = r
    /\ UNCHANGED <<transitions, req, stamp, pc, clock, overlapped>>

(* The route looks up the asset and its current recommendation. *)
Receive(p) ==
    /\ pc[p] = "new"
    /\ \E r \in Recommendation, s \in Rank :
         /\ req' = [req EXCEPT ![p] = [rec |-> r, status |-> s]]
         /\ pc' = [pc EXCEPT ![p] = IF r = current THEN "checked" ELSE "not found"]
    /\ UNCHANGED <<current, transitions, stamp, clock, overlapped>>

RowsOf(r) == {t \in transitions : t.rec = r}

(* get_latest_for_recommendation, by occurred_at; k = 0 without a row. *)
IsLatestRank(r, k) ==
    \/ RowsOf(r) = {} /\ k = 0
    \/ \E t \in RowsOf(r) : t.status = k /\ \A u \in RowsOf(r) : u.at <= t.at

(* Mutant: a transition may repeat the current status. *)
ForwardOrSame(status, latest) == status >= latest

(* The rank check. *)
Forward(status, latest) == status > latest

(* Between its read and the end of its transaction. *)
InFlight(p) == pc[p] \in {"accepted", "flushed"}

(* record_transition reads and decides. *)
Decide(p) ==
    /\ pc[p] = "checked"
    /\ \E k \in {0} \cup Rank :
         /\ IsLatestRank(req[p].rec, k)
         /\ pc' = [pc EXCEPT ![p] = IF Forward(req[p].status, k) THEN "accepted" ELSE "rejected"]
    /\ overlapped' = overlapped \cup {req[q].rec : q \in {x \in Request :
                                        InFlight(x) /\ req[x].rec = req[p].rec}}
    /\ UNCHANGED <<current, transitions, req, stamp, clock>>

(* occurred_at is taken and the row is flushed, for this transaction only. *)
Save(p) ==
    /\ pc[p] = "accepted"
    /\ clock' = clock + 1
    /\ stamp' = [stamp EXCEPT ![p] = clock + 1]
    /\ pc' = [pc EXCEPT ![p] = "flushed"]
    /\ UNCHANGED <<current, transitions, req, overlapped>>

(* uow.commit(), the outbox row included; the dispatch that follows does   *)
(* not touch the table.                                                    *)
Commit(p) ==
    /\ pc[p] = "flushed"
    /\ transitions' = transitions \cup {[id |-> p, rec |-> req[p].rec,
                                         status |-> req[p].status, at |-> stamp[p]]}
    /\ pc' = [pc EXCEPT ![p] = "recorded"]
    /\ UNCHANGED <<current, req, stamp, clock, overlapped>>

(* An exception rolls the transaction back. *)
Fail(p) ==
    /\ InFlight(p)
    /\ pc' = [pc EXCEPT ![p] = "failed"]
    /\ UNCHANGED <<current, transitions, req, stamp, clock, overlapped>>

Next ==
    \/ Supersede
    \/ \E p \in Request : Receive(p) \/ Decide(p) \/ Save(p) \/ Commit(p) \/ Fail(p)

Spec == Init /\ [][Next]_vars

----------------------------------------------------------------------------
(***************************************************************************)
(* As long as no two requests for a recommendation overlap, its history    *)
(* moves forward: a later row has a higher status, whatever requests for   *)
(* other recommendations do and however requests fail.                     *)
(***************************************************************************)
SerialHistoriesAdvance ==
    \A t, u \in transitions :
        (t.rec = u.rec /\ t.rec \notin overlapped /\ t.at < u.at) => t.status < u.status
============================================================================
