---------------------------- MODULE OutboxProofs ----------------------------
(***************************************************************************)
(* Proofs about Outbox for any rows, transactions and processes.  A row    *)
(* that no pass failed over and no two passes shared is clean; the         *)
(* inductive invariant follows a clean row through its one holder.         *)
(***************************************************************************)
EXTENDS Outbox, TLAPS

Clean(e) == e \notin failed \cup overlapped

(* p's pass is behind leg l of its current row. *)
Past(p, l) ==
    \/ pc[p] = "recording" /\ l = "redis"
    \/ pc[p] = "sending" /\ l \in {"redis", "timeline"}

RestingInv ==
    \A p \in Proc : pc[p] \in {"idle", "selecting"} => batch[p] = {} /\ marked[p] = {}

DisjointInv == \A p \in Proc : batch[p] \cap marked[p] = {}

(* What a pass has marked, and what it is about to mark, is delivered. *)
MarkedInv ==
    \A p \in Proc : \A e \in marked[p] :
        \A l \in LegsOf(e) \ {"redis"} : delivered[l][e] > 0

RecordedInv ==
    \A p \in Proc, e \in Event :
        (pc[p] = "sending" /\ IsCurrent(p, e) /\ "timeline" \in LegsOf(e))
           => delivered["timeline"][e] > 0

(* A clean row has at most one holder and is pending while it has one; *)
HolderInv ==
    \A e \in Event : Clean(e) =>
        /\ \A p \in Proc : e \in Held(p) => outbox[e] = "pending"
        /\ \A p, q \in Proc : e \in Held(p) /\ e \in Held(q) => p = q

(* what has been delivered of it is behind its holder, or it is finished. *)
DeliveredInv ==
    \A e \in Event, l \in Leg : (Clean(e) /\ delivered[l][e] > 0) =>
        \/ outbox[e] = "dispatched"
        \/ \E p \in Proc : e \in marked[p]
        \/ \E p \in Proc : IsCurrent(p, e) /\ Past(p, l)

IndInv ==
    TypeOK /\ RestingInv /\ DisjointInv /\ MarkedInv /\ RecordedInv /\ HolderInv
      /\ DeliveredInv /\ DispatchedIsDelivered /\ DuplicateHasCause

----------------------------------------------------------------------------
(***************************************************************************)
(* What Deliver does: one counter goes up, to at least 1, and only reaches *)
(* 2 if it was not 0.                                                      *)
(***************************************************************************)
LEMMA DeliverEffect ==
    ASSUME TypeOK, NEW l \in Leg, NEW e \in Event
    PROVE  /\ Deliver(l, e) \in [Leg -> [Event -> 0 .. 2]]
           /\ \A k \in Leg, f \in Event :
                (k # l \/ f # e) => Deliver(l, e)[k][f] = delivered[k][f]
           /\ delivered[l][e] > 0 => Deliver(l, e)[l][e] > 0
           /\ l \in LegsOf(e) => Deliver(l, e)[l][e] > 0
           /\ Deliver(l, e)[l][e] > 1 => delivered[l][e] > 0
<1>1. delivered \in [Leg -> [Event -> 0 .. 2]] /\ delivered[l] \in [Event -> 0 .. 2]
  BY DEF TypeOK
<1>2. CASE l \notin LegsOf(e)
  BY <1>1, <1>2 DEF Deliver
<1>3. CASE l \in LegsOf(e)
  <2> DEFINE n == IF delivered[l][e] = 0 THEN 1 ELSE 2
             row == [delivered[l] EXCEPT ![e] = n]
  <2>1. n \in 0 .. 2 /\ row \in [Event -> 0 .. 2]
    BY <1>1
  <2>2. Deliver(l, e) = [delivered EXCEPT ![l] = row]
    BY <1>1, <1>3 DEF Deliver
  <2>3. row[e] = n /\ \A f \in Event : f # e => row[f] = delivered[l][f]
    BY <1>1
  <2>4. n > 0 /\ (n > 1 => delivered[l][e] > 0)
    BY <1>1
  <2> HIDE DEF row, n
  <2> QED
    BY <1>1, <2>1, <2>2, <2>3, <2>4
<1> QED
  BY <1>2, <1>3

(* The loop is at one row at a time. *)
LEMMA CurrentUnique ==
    ASSUME TypeOK, NEW p \in Proc, NEW e \in Event, NEW f \in Event,
           IsCurrent(p, e), IsCurrent(p, f)
    PROVE  e = f
BY EventAssumption DEF IsCurrent

(* The holder of a clean row has not been past the leg it is at before. *)
LEMMA NotYetDelivered ==
    ASSUME IndInv, NEW p \in Proc, NEW e \in Event, NEW l \in Leg,
           IsCurrent(p, e), Clean(e), ~Past(p, l)
    PROVE  ~(delivered[l][e] > 0)
<1> SUFFICES ASSUME delivered[l][e] > 0 PROVE FALSE
  OBVIOUS
<1>1. e \in Held(p) /\ e \notin marked[p]
  BY DEF IndInv, DisjointInv, IsCurrent, Held
<1>2. outbox[e] = "pending" /\ \A q \in Proc : e \in Held(q) => q = p
  BY <1>1 DEF IndInv, HolderInv
<1>3. PICK q \in Proc : e \in marked[q] \/ (IsCurrent(q, e) /\ Past(q, l))
  BY <1>2 DEF IndInv, DeliveredInv
<1>4. q = p
  BY <1>2, <1>3 DEF Held, IsCurrent
<1> QED
  BY <1>1, <1>3, <1>4

----------------------------------------------------------------------------
(* The initial states satisfy the invariant. *)
LEMMA InitIndInv == Init => IndInv
<1> SUFFICES ASSUME Init PROVE IndInv
  OBVIOUS
<1>1. TypeOK
  BY EventAssumption DEF Init, TypeOK
<1>2. RestingInv /\ DisjointInv /\ MarkedInv /\ RecordedInv /\ HolderInv
  BY DEF Init, RestingInv, DisjointInv, MarkedInv, RecordedInv, HolderInv, Held
<1>3. \A l \in Leg, e \in Event : delivered[l][e] = 0
  BY DEF Init
<1>4. DeliveredInv /\ DuplicateHasCause /\ DispatchedIsDelivered
  BY <1>3 DEF Init, DeliveredInv, DuplicateHasCause, DispatchedIsDelivered
<1> QED
  BY <1>1, <1>2, <1>4 DEF IndInv

(* Starting a transaction: rows appear, dispatch() is about to be called. *)
LEMMA BeginStep ==
    ASSUME IndInv, NEW p \in Proc, Begin(p)
    PROVE  IndInv'
<1>1. /\ pc[p] = "idle" /\ pc' = [pc EXCEPT ![p] = "selecting"]
      /\ UNCHANGED <<batch, marked, delivered, failed, overlapped, faults>>
      /\ outbox' \in [Event -> {"absent", "pending", "dispatched"}]
      /\ \A e \in Event : outbox[e] \in {"pending", "dispatched"} => outbox'[e] = outbox[e]
      /\ \A e \in Event : outbox'[e] = "dispatched" => outbox[e] = "dispatched"
  <2>1. CASE OtherTraffic(p)
    BY <2>1 DEF OtherTraffic, Goto, IndInv, TypeOK
  <2>2. ASSUME NEW T \in Txn, AddEvents(p, T)
        PROVE  /\ pc[p] = "idle" /\ pc' = [pc EXCEPT ![p] = "selecting"]
               /\ UNCHANGED <<batch, marked, delivered, failed, overlapped, faults>>
               /\ outbox' \in [Event -> {"absent", "pending", "dispatched"}]
               /\ \A e \in Event : outbox[e] \in {"pending", "dispatched"} => outbox'[e] = outbox[e]
               /\ \A e \in Event : outbox'[e] = "dispatched" => outbox[e] = "dispatched"
    BY <2>2, EventAssumption DEF AddEvents, Goto, IndInv, TypeOK
  <2> QED
    BY <2>1, <2>2 DEF Begin
<1>2. TypeOK'
  BY <1>1 DEF IndInv, TypeOK
<1>3. \A q \in Proc : pc'[q] = IF q = p THEN "selecting" ELSE pc[q]
  BY <1>1 DEF IndInv, TypeOK
<1>4. RestingInv' /\ DisjointInv' /\ MarkedInv'
  BY <1>1, <1>3 DEF IndInv, RestingInv, DisjointInv, MarkedInv, LegsOf
<1>5. RecordedInv'
  BY <1>1, <1>3 DEF IndInv, RecordedInv, IsCurrent, LegsOf
<1>6. HolderInv'
  BY <1>1 DEF IndInv, HolderInv, Held, Clean
<1>7. DeliveredInv'
  <2> SUFFICES ASSUME NEW e \in Event, NEW l \in Leg, Clean(e)', delivered'[l][e] > 0
               PROVE  \/ outbox'[e] = "dispatched"
                      \/ \E q \in Proc : e \in marked'[q]
                      \/ \E q \in Proc : IsCurrent(q, e)' /\ Past(q, l)'
    BY DEF DeliveredInv
  <2>1. \/ outbox[e] = "dispatched"
        \/ \E q \in Proc : e \in marked[q]
        \/ \E q \in Proc : IsCurrent(q, e) /\ Past(q, l)
    BY <1>1 DEF IndInv, DeliveredInv, Clean
  <2>2. \A q \in Proc : IsCurrent(q, e) /\ Past(q, l) => IsCurrent(q, e)' /\ Past(q, l)'
    BY <1>1, <1>3 DEF IsCurrent, Past
  <2> QED
    BY <1>1, <2>1, <2>2
<1>8. DispatchedIsDelivered' /\ DuplicateHasCause'
  BY <1>1 DEF IndInv, DispatchedIsDelivered, DuplicateHasCause, LegsOf
<1> QED
  BY <1>2, <1>4, <1>5, <1>6, <1>7, <1>8 DEF IndInv

(* Reading the undispatched rows: a row somebody else holds is overlapped. *)
LEMMA SelectStep ==
    ASSUME IndInv, NEW p \in Proc, Select(p)
    PROVE  IndInv'
<1>1. /\ pc[p] = "selecting" /\ pc' = [pc EXCEPT ![p] = "loop"]
      /\ batch' = [batch EXCEPT ![p] = Pending]
      /\ overlapped' = overlapped \cup (Pending \cap UNION {Held(q) : q \in Proc})
      /\ UNCHANGED <<outbox, marked, delivered, failed, faults>>
  BY DEF Select, Goto
<1>2. /\ \A q \in Proc : pc'[q] = IF q = p THEN "loop" ELSE pc[q]
      /\ \A q \in Proc : batch'[q] = IF q = p THEN Pending ELSE batch[q]
      /\ batch[p] = {} /\ marked[p] = {}
  BY <1>1 DEF IndInv, TypeOK, RestingInv
<1>3. TypeOK'
  <2>1. Pending \subseteq Event
    BY DEF Pending
  <2> QED
    BY <1>1, <2>1 DEF IndInv, TypeOK
<1>4. RestingInv' /\ DisjointInv' /\ MarkedInv'
  BY <1>1, <1>2 DEF IndInv, RestingInv, DisjointInv, MarkedInv, LegsOf
<1>5. \A q \in Proc, e \in Event : q # p => (IsCurrent(q, e)' <=> IsCurrent(q, e))
  BY <1>2 DEF IsCurrent
<1>6. RecordedInv'
  BY <1>1, <1>2, <1>5 DEF IndInv, RecordedInv, LegsOf
<1>7. \A e \in Event : Clean(e)' =>
         Clean(e) /\ (e \in Pending => \A q \in Proc : e \notin Held(q))
  BY <1>1 DEF Clean
<1>8. HolderInv'
  <2> SUFFICES ASSUME NEW e \in Event, Clean(e)'
               PROVE  /\ \A q \in Proc : e \in Held(q)' => outbox'[e] = "pending"
                      /\ \A q, r \in Proc : e \in Held(q)' /\ e \in Held(r)' => q = r
    BY DEF HolderInv
  <2>1. \A q \in Proc : e \in Held(q)' => e \in Held(q) \/ (q = p /\ e \in Pending)
    BY <1>1, <1>2 DEF Held
  <2>2. p \in Proc /\ e \notin Held(p)
    BY <1>2 DEF Held
  <2> QED
    BY <1>1, <1>7, <2>1, <2>2 DEF IndInv, HolderInv, Pending
<1>9. DeliveredInv'
  <2> SUFFICES ASSUME NEW e \in Event, NEW l \in Leg, Clean(e)', delivered'[l][e] > 0
               PROVE  \/ outbox'[e] = "dispatched"
                      \/ \E q \in Proc : e \in marked'[q]
                      \/ \E q \in Proc : IsCurrent(q, e)' /\ Past(q, l)'
    BY DEF DeliveredInv
  <2>1. \/ outbox[e] = "dispatched"
        \/ \E q \in Proc : e \in marked[q]
        \/ \E q \in Proc : IsCurrent(q, e) /\ Past(q, l)
    BY <1>1, <1>7 DEF IndInv, DeliveredInv
  <2>2. \A q \in Proc : IsCurrent(q, e) /\ Past(q, l) => IsCurrent(q, e)' /\ Past(q, l)'
    BY <1>1, <1>2, <1>5 DEF Past
  <2> QED
    BY <1>1, <2>1, <2>2
<1>10. DispatchedIsDelivered' /\ DuplicateHasCause'
  BY <1>1 DEF IndInv, DispatchedIsDelivered, DuplicateHasCause, LegsOf
<1> QED
  BY <1>3, <1>4, <1>6, <1>8, <1>9, <1>10 DEF IndInv

(***************************************************************************)
(* A delivery by the holder of e on a leg it is not past yet: the counters *)
(* only grow, and a clean row is not delivered twice.                      *)
(***************************************************************************)
LEMMA DeliveryKeepsDuplicates ==
    ASSUME IndInv, NEW p \in Proc, NEW e \in Event, NEW l \in Leg,
           IsCurrent(p, e), ~Past(p, l), delivered' \in {delivered, Deliver(l, e)},
           failed \subseteq failed', UNCHANGED overlapped
    PROVE  /\ DuplicateHasCause'
           /\ \A k \in Leg, f \in Event : delivered[k][f] > 0 => delivered'[k][f] > 0
           /\ \A k \in Leg, f \in Event :
                (k # l \/ f # e) => delivered'[k][f] = delivered[k][f]
           /\ delivered' \in [Leg -> [Event -> 0 .. 2]]
<1>0. TypeOK
  BY DEF IndInv
<1>1. delivered \in [Leg -> [Event -> 0 .. 2]]
  BY <1>0 DEF TypeOK
<1>2. /\ \A k \in Leg, f \in Event :
           (k # l \/ f # e) => delivered'[k][f] = delivered[k][f]
      /\ delivered[l][e] > 0 => delivered'[l][e] > 0
      /\ (delivered' # delivered /\ delivered'[l][e] > 1) => delivered[l][e] > 0
      /\ delivered' \in [Leg -> [Event -> 0 .. 2]]
  BY <1>0, <1>1, DeliverEffect
<1>3. Clean(e) => ~(delivered[l][e] > 0)
  BY NotYetDelivered
<1>4. DuplicateHasCause'
  <2> SUFFICES ASSUME NEW k \in Leg, NEW f \in Event, delivered'[k][f] > 1
               PROVE  f \in failed' \cup overlapped'
    BY DEF DuplicateHasCause
  <2>1. CASE delivered[k][f] > 1
    BY <2>1 DEF IndInv, DuplicateHasCause
  <2>2. CASE ~(delivered[k][f] > 1)
    <3>1. k = l /\ f = e /\ delivered' # delivered
      BY <1>2, <2>2
    <3> QED
      BY <1>2, <1>3, <3>1 DEF Clean
  <2> QED
    BY <2>1, <2>2
<1> QED
  BY <1>2, <1>4

(* An unknown row is dropped from the batch. *)
LEMMA SkipStep ==
    ASSUME IndInv, NEW p \in Proc, NEW e \in Event, SkipUnknown(p, e)
    PROVE  IndInv'
<1>1. /\ pc[p] = "loop" /\ IsCurrent(p, e)
      /\ batch' = [batch EXCEPT ![p] = batch[p] \ {e}]
      /\ UNCHANGED <<outbox, pc, marked, delivered, failed, overlapped, faults>>
  BY DEF SkipUnknown
<1>2. \A q \in Proc : batch'[q] = IF q = p THEN batch[p] \ {e} ELSE batch[q]
  BY <1>1 DEF IndInv, TypeOK
<1>3. TypeOK'
  BY <1>1 DEF IndInv, TypeOK
<1>4. RestingInv' /\ DisjointInv' /\ MarkedInv'
  BY <1>1, <1>2 DEF IndInv, RestingInv, DisjointInv, MarkedInv, LegsOf
<1>5. \A q \in Proc, f \in Event : pc[q] # "loop" => (IsCurrent(q, f)' <=> IsCurrent(q, f))
  BY <1>1, <1>2 DEF IsCurrent
<1>6. RecordedInv'
  BY <1>1, <1>5 DEF IndInv, RecordedInv, LegsOf
<1>7. HolderInv'
  <2>1. \A q \in Proc : Held(q)' \subseteq Held(q)
    BY <1>1, <1>2 DEF Held
  <2> QED
    BY <1>1, <2>1 DEF IndInv, HolderInv, Clean
<1>8. DeliveredInv'
  <2>1. \A q \in Proc, f \in Event, l \in Leg :
          IsCurrent(q, f) /\ Past(q, l) => IsCurrent(q, f)' /\ Past(q, l)'
    BY <1>1, <1>5 DEF Past
  <2> QED
    BY <1>1, <2>1 DEF IndInv, DeliveredInv, Clean
<1>9. DispatchedIsDelivered' /\ DuplicateHasCause'
  BY <1>1 DEF IndInv, DispatchedIsDelivered, DuplicateHasCause, LegsOf
<1> QED
  BY <1>3, <1>4, <1>6, <1>7, <1>8, <1>9 DEF IndInv

(* The Redis and the timeline handlers: p moves on to the next leg of e. *)
LEMMA LegStep ==
    ASSUME IndInv, NEW p \in Proc, NEW e \in Event, Notify(p, e) \/ Record(p, e)
    PROVE  IndInv'
<1> DEFINE l == IF pc[p] = "loop" THEN "redis" ELSE "timeline"
           next == IF pc[p] = "loop" THEN "recording" ELSE "sending"
<1>1. /\ pc[p] \in {"loop", "recording"} /\ IsCurrent(p, e)
      /\ pc' = [pc EXCEPT ![p] = next]
      /\ delivered' \in {delivered, Deliver(l, e)}
      /\ pc[p] = "recording" => delivered' = Deliver(l, e)
      /\ faults' \in 0 .. MaxFaults
      /\ UNCHANGED <<outbox, batch, marked, failed, overlapped>>
  BY EventAssumption DEF Notify, Record, Goto, Fault, IndInv, TypeOK
<1>2. l \in Leg /\ ~Past(p, l)
  BY <1>1 DEF Leg, Past
<1>3. /\ DuplicateHasCause'
      /\ \A k \in Leg, f \in Event : delivered[k][f] > 0 => delivered'[k][f] > 0
      /\ \A k \in Leg, f \in Event : (k # l \/ f # e) => delivered'[k][f] = delivered[k][f]
      /\ delivered' \in [Leg -> [Event -> 0 .. 2]]
  <2> HIDE DEF l, next
  <2> QED
    BY <1>1, <1>2, DeliveryKeepsDuplicates
<1>4. \A q \in Proc : pc'[q] = IF q = p THEN next ELSE pc[q]
  BY <1>1 DEF IndInv, TypeOK
<1>5. TypeOK'
  BY <1>1, <1>3 DEF IndInv, TypeOK
<1>6. RestingInv' /\ DisjointInv'
  BY <1>1, <1>4 DEF IndInv, RestingInv, DisjointInv
<1>7. MarkedInv' /\ DispatchedIsDelivered'
  <2>1. \A f \in Event : LegsOf(f) \subseteq Leg /\ LegsOf(f)' = LegsOf(f)
    BY DEF LegsOf
  <2>2. \A q \in Proc : marked[q] \subseteq Event
    BY DEF IndInv, TypeOK
  <2> QED
    BY <1>1, <1>3, <2>1, <2>2 DEF IndInv, MarkedInv, DispatchedIsDelivered
<1>8. \A q \in Proc, f \in Event : IsCurrent(q, f)' <=> IsCurrent(q, f)
  BY <1>1 DEF IsCurrent
<1>9. RecordedInv'
  <2> SUFFICES ASSUME NEW q \in Proc, NEW f \in Event, pc'[q] = "sending",
                      IsCurrent(q, f), "timeline" \in LegsOf(f)
               PROVE  delivered'["timeline"][f] > 0
    BY <1>8 DEF RecordedInv, LegsOf
  <2>1. CASE q = p
    <3>1. pc[p] = "recording" /\ f = e
      BY <1>1, <1>4, <2>1, CurrentUnique DEF IndInv
    <3> QED
      BY <1>1, <3>1, DeliverEffect DEF IndInv, Leg
  <2>2. CASE q # p
    BY <1>3, <1>4, <2>2 DEF IndInv, RecordedInv, Leg
  <2> QED
    BY <2>1, <2>2
<1>10. HolderInv'
  BY <1>1 DEF IndInv, HolderInv, Held, Clean
<1>11. DeliveredInv'
  <2> SUFFICES ASSUME NEW f \in Event, NEW k \in Leg, Clean(f), delivered'[k][f] > 0
               PROVE  \/ outbox[f] = "dispatched"
                      \/ \E q \in Proc : f \in marked[q]
                      \/ \E q \in Proc : IsCurrent(q, f) /\ Past(q, k)'
    BY <1>1, <1>8 DEF DeliveredInv, Clean
  <2>1. \A q \in Proc : Past(q, k) => Past(q, k)'
    BY <1>1, <1>4 DEF Past
  <2>2. CASE k = l /\ f = e
    BY <1>1, <1>4, <2>2 DEF Past
  <2>3. CASE ~(k = l /\ f = e)
    BY <1>3, <2>1, <2>3 DEF IndInv, DeliveredInv
  <2> QED
    BY <2>2, <2>3
<1> QED
  BY <1>3, <1>5, <1>6, <1>7, <1>9, <1>10, <1>11 DEF IndInv

(* The Kafka leg: e leaves the batch, marked or failed. *)
LEMMA SendStep ==
    ASSUME IndInv, NEW p \in Proc, NEW e \in Event, Send(p, e) \/ SendFails(p, e)
    PROVE  IndInv'
<1>1. /\ pc[p] = "sending" /\ IsCurrent(p, e)
      /\ pc' = [pc EXCEPT ![p] = "loop"]
      /\ batch' = [batch EXCEPT ![p] = batch[p] \ {e}]
      /\ delivered' \in {delivered, Deliver("kafka", e)}
      /\ \/ marked' = [marked EXCEPT ![p] = marked[p] \cup {e}]
              /\ delivered' = Deliver("kafka", e) /\ failed' = failed
         \/ marked' = marked /\ failed' = failed \cup {e}
      /\ faults' \in 0 .. MaxFaults
      /\ UNCHANGED <<outbox, overlapped>>
  BY EventAssumption DEF Send, SendFails, Goto, Fault, IndInv, TypeOK
<1>2. "kafka" \in Leg /\ ~Past(p, "kafka")
  BY DEF Leg, Past
<1>3. /\ DuplicateHasCause'
      /\ \A k \in Leg, f \in Event : delivered[k][f] > 0 => delivered'[k][f] > 0
      /\ \A k \in Leg, f \in Event : (k # "kafka" \/ f # e) => delivered'[k][f] = delivered[k][f]
      /\ delivered' \in [Leg -> [Event -> 0 .. 2]]
  BY <1>1, <1>2, DeliveryKeepsDuplicates
<1>4. /\ \A q \in Proc : pc'[q] = IF q = p THEN "loop" ELSE pc[q]
      /\ \A q \in Proc : batch'[q] = IF q = p THEN batch[p] \ {e} ELSE batch[q]
      /\ \A q \in Proc : marked'[q] = marked[q] \/ (q = p /\ marked'[q] = marked[q] \cup {e}
                                                    /\ delivered' = Deliver("kafka", e))
      /\ marked'[p] = marked[p] \cup {e} \/ e \in failed'
  BY <1>1 DEF IndInv, TypeOK
<1>5. TypeOK'
  BY <1>1, <1>3 DEF IndInv, TypeOK
<1>6. RestingInv' /\ DisjointInv'
  BY <1>1, <1>4 DEF IndInv, RestingInv, DisjointInv
<1>7. \A f \in Event : LegsOf(f) \subseteq Leg /\ LegsOf(f)' = LegsOf(f)
  BY DEF LegsOf
<1>8. MarkedInv'
  <2> SUFFICES ASSUME NEW q \in Proc, NEW f \in marked'[q], NEW k \in LegsOf(f) \ {"redis"}
               PROVE  delivered'[k][f] > 0
    BY <1>7 DEF MarkedInv, LegsOf
  <2>1. CASE f \in marked[q]
    <3>1. f \in Event
      BY <2>1 DEF IndInv, TypeOK
    <3> QED
      BY <1>3, <1>7, <2>1, <3>1 DEF IndInv, MarkedInv
  <2>2. CASE f \notin marked[q]
    <3>1. f = e /\ delivered' = Deliver("kafka", e)
      BY <1>4, <2>2
    <3>2. CASE k = "kafka"
      BY <3>1, <3>2, <1>2, DeliverEffect DEF IndInv
    <3>3. CASE k = "timeline"
      BY <1>1, <1>3, <3>1, <3>3 DEF IndInv, RecordedInv, Leg
    <3> QED
      BY <1>7, <3>1, <3>2, <3>3 DEF Leg
  <2> QED
    BY <2>1, <2>2
<1>9. DispatchedIsDelivered'
  BY <1>1, <1>3, <1>7 DEF IndInv, DispatchedIsDelivered
<1>10. \A q \in Proc, f \in Event : q # p => (IsCurrent(q, f)' <=> IsCurrent(q, f))
  BY <1>4 DEF IsCurrent
<1>11. RecordedInv'
  BY <1>3, <1>4, <1>10 DEF IndInv, RecordedInv, LegsOf, Leg
<1>12. HolderInv'
  <2>1. \A q \in Proc : Held(q)' \subseteq Held(q)
    BY <1>1, <1>4 DEF Held, IsCurrent
  <2>2. \A f \in Event : Clean(f)' => Clean(f)
    BY <1>1 DEF Clean
  <2> QED
    BY <1>1, <2>1, <2>2 DEF IndInv, HolderInv
<1>13. DeliveredInv'
  <2> SUFFICES ASSUME NEW f \in Event, NEW k \in Leg, Clean(f)', delivered'[k][f] > 0
               PROVE  \/ outbox[f] = "dispatched"
                      \/ \E q \in Proc : f \in marked'[q]
                      \/ \E q \in Proc : IsCurrent(q, f)' /\ Past(q, k)'
    BY <1>1 DEF DeliveredInv
  <2>1. CASE f = e
    BY <1>4, <2>1 DEF Clean
  <2>2. CASE f # e
    <3>1. \/ outbox[f] = "dispatched"
          \/ \E q \in Proc : f \in marked[q]
          \/ \E q \in Proc : IsCurrent(q, f) /\ Past(q, k)
      BY <1>1, <1>3, <2>2 DEF IndInv, DeliveredInv, Clean
    <3>2. ~IsCurrent(p, f)
      BY <1>1, <2>2, CurrentUnique DEF IndInv
    <3>3. \A q \in Proc : q # p /\ Past(q, k) => Past(q, k)'
      BY <1>4 DEF Past
    <3> QED
      BY <1>4, <1>10, <3>1, <3>2, <3>3
  <2> QED
    BY <2>1, <2>2
<1> QED
  BY <1>3, <1>5, <1>6, <1>8, <1>9, <1>11, <1>12, <1>13 DEF IndInv

(* A pass is abandoned: what it held, or left unread, has failed. *)
LEMMA AbandonStep ==
    ASSUME IndInv, NEW p \in Proc, Abandon(p)
    PROVE  IndInv'
<1>1. /\ pc' = [pc EXCEPT ![p] = "idle"]
      /\ batch' = [batch EXCEPT ![p] = {}]
      /\ marked' = [marked EXCEPT ![p] = {}]
      /\ failed' = failed \cup (IF pc[p] = "selecting" THEN Pending ELSE Held(p))
      /\ faults' \in 0 .. MaxFaults
      /\ UNCHANGED <<outbox, delivered, overlapped>>
  BY EventAssumption DEF Abandon, Goto, Fault, IndInv, TypeOK
<1>2. /\ \A q \in Proc : pc'[q] = IF q = p THEN "idle" ELSE pc[q]
      /\ \A q \in Proc : batch'[q] = IF q = p THEN {} ELSE batch[q]
      /\ \A q \in Proc : marked'[q] = IF q = p THEN {} ELSE marked[q]
  BY <1>1 DEF IndInv, TypeOK
<1>3. TypeOK'
  <2>1. Pending \subseteq Event /\ Held(p) \subseteq Event
    BY DEF Pending, Held, IndInv, TypeOK
  <2> QED
    BY <1>1, <2>1 DEF IndInv, TypeOK
<1>4. RestingInv' /\ DisjointInv' /\ MarkedInv'
  BY <1>1, <1>2 DEF IndInv, RestingInv, DisjointInv, MarkedInv, LegsOf
<1>5. \A q \in Proc, f \in Event : q # p => (IsCurrent(q, f)' <=> IsCurrent(q, f))
  BY <1>2 DEF IsCurrent
<1>6. RecordedInv'
  BY <1>1, <1>2, <1>5 DEF IndInv, RecordedInv, LegsOf
<1>7. \A f \in Event : Clean(f)' => Clean(f) /\ f \notin Held(p)
  BY <1>1 DEF Clean, IndInv, RestingInv, Held
<1>8. HolderInv'
  <2>1. \A q \in Proc : Held(q)' \subseteq Held(q)
    BY <1>2 DEF Held
  <2> QED
    BY <1>1, <1>7, <2>1 DEF IndInv, HolderInv
<1>9. DeliveredInv'
  <2> SUFFICES ASSUME NEW f \in Event, NEW k \in Leg, Clean(f)', delivered[k][f] > 0
               PROVE  \/ outbox[f] = "dispatched"
                      \/ \E q \in Proc : f \in marked'[q]
                      \/ \E q \in Proc : IsCurrent(q, f)' /\ Past(q, k)'
    BY <1>1 DEF DeliveredInv
  <2>1. \/ outbox[f] = "dispatched"
        \/ \E q \in Proc : f \in marked[q]
        \/ \E q \in Proc : IsCurrent(q, f) /\ Past(q, k)
    BY <1>7 DEF IndInv, DeliveredInv
  <2>2. f \notin marked[p] /\ ~IsCurrent(p, f)
    BY <1>7 DEF Held, IsCurrent
  <2>3. \A q \in Proc : q # p /\ Past(q, k) => Past(q, k)'
    BY <1>2 DEF Past
  <2> QED
    BY <1>2, <1>5, <2>1, <2>2, <2>3
<1>10. DispatchedIsDelivered' /\ DuplicateHasCause'
  BY <1>1 DEF IndInv, DispatchedIsDelivered, DuplicateHasCause, LegsOf
<1> QED
  BY <1>3, <1>4, <1>6, <1>8, <1>9, <1>10 DEF IndInv

(* The commit at the end of the loop: what is marked becomes dispatched. *)
LEMMA CommitStep ==
    ASSUME IndInv, NEW p \in Proc, Commit(p)
    PROVE  IndInv'
<1>1. /\ pc[p] = "loop" /\ batch[p] = {}
      /\ pc' = [pc EXCEPT ![p] = "idle"]
      /\ marked' = [marked EXCEPT ![p] = {}]
      /\ outbox' = [e \in Event |-> IF e \in marked[p] THEN "dispatched" ELSE outbox[e]]
      /\ UNCHANGED <<batch, delivered, failed, overlapped, faults>>
  BY DEF Commit, Goto
<1>2. /\ \A q \in Proc : pc'[q] = IF q = p THEN "idle" ELSE pc[q]
      /\ \A q \in Proc : marked'[q] = IF q = p THEN {} ELSE marked[q]
      /\ \A e \in Event : outbox'[e] = IF e \in marked[p] THEN "dispatched" ELSE outbox[e]
  BY <1>1 DEF IndInv, TypeOK
<1>3. TypeOK'
  BY <1>1 DEF IndInv, TypeOK
<1>4. RestingInv' /\ DisjointInv' /\ MarkedInv'
  BY <1>1, <1>2 DEF IndInv, RestingInv, DisjointInv, MarkedInv, LegsOf
<1>5. \A q \in Proc, f \in Event : IsCurrent(q, f)' <=> IsCurrent(q, f)
  BY <1>1 DEF IsCurrent
<1>6. RecordedInv'
  BY <1>1, <1>2, <1>5 DEF IndInv, RecordedInv, LegsOf
<1>7. HolderInv'
  <2> SUFFICES ASSUME NEW f \in Event, Clean(f)
               PROVE  /\ \A q \in Proc : f \in Held(q)' => outbox'[f] = "pending"
                      /\ \A q, r \in Proc : f \in Held(q)' /\ f \in Held(r)' => q = r
    BY <1>1 DEF HolderInv, Clean
  <2>1. \A q \in Proc : f \in Held(q)' => f \in Held(q) /\ q # p
    BY <1>1, <1>2 DEF Held
  <2>2. \A q \in Proc : f \in Held(q)' => f \notin marked[p]
    BY <2>1 DEF IndInv, HolderInv, Held
  <2> QED
    BY <1>2, <2>1, <2>2 DEF IndInv, HolderInv
<1>8. DeliveredInv'
  <2>1. \A q \in Proc, k \in Leg : Past(q, k) => Past(q, k)'
    BY <1>1, <1>2 DEF Past
  <2> QED
    BY <1>1, <1>2, <1>5, <2>1 DEF IndInv, DeliveredInv, Clean
<1>9. DispatchedIsDelivered'
  BY <1>1, <1>2 DEF IndInv, DispatchedIsDelivered, MarkedInv, LegsOf
<1>10. DuplicateHasCause'
  BY <1>1 DEF IndInv, DuplicateHasCause
<1> QED
  BY <1>3, <1>4, <1>6, <1>7, <1>8, <1>9, <1>10 DEF IndInv

----------------------------------------------------------------------------
(***************************************************************************)
(* The invariant that carries every safety property of the outbox, for any *)
(* number of rows, transactions, processes and faults.                     *)
(***************************************************************************)
THEOREM IndInvHolds == Safety => []IndInv
<1>1. IndInv /\ [Next]_vars => IndInv'
  <2> SUFFICES ASSUME IndInv, [Next]_vars PROVE IndInv'
    OBVIOUS
  <2>1. ASSUME NEW p \in Proc, Begin(p) PROVE IndInv'
    BY <2>1, BeginStep
  <2>2. ASSUME NEW p \in Proc, Pass(p) PROVE IndInv'
    BY <2>2, SelectStep, CommitStep, SkipStep, LegStep, SendStep DEF Pass
  <2>3. ASSUME NEW p \in Proc, Failure(p) PROVE IndInv'
    BY <2>3, AbandonStep, SendStep DEF Failure, Crash, RecordRaises
  <2>4. CASE UNCHANGED vars
    BY <2>4 DEF vars, IndInv, TypeOK, RestingInv, DisjointInv, MarkedInv, RecordedInv,
       HolderInv, DeliveredInv, DispatchedIsDelivered, DuplicateHasCause, Clean, Past,
       Held, IsCurrent, LegsOf
  <2> QED
    BY <2>1, <2>2, <2>3, <2>4 DEF Next
<1> QED
  BY InitIndInv, <1>1, PTL DEF Safety

(* The outbox, the passes and the delivery counters keep their types. *)
THEOREM TypeCorrect == Safety => []TypeOK
<1>1. IndInv => TypeOK
  BY DEF IndInv
<1> QED
  BY <1>1, IndInvHolds, PTL

(* dispatch() never marks a row that has not reached its durable legs. *)
THEOREM DispatchedIsDeliveredHolds == Safety => []DispatchedIsDelivered
<1>1. IndInv => DispatchedIsDelivered
  BY DEF IndInv
<1> QED
  BY <1>1, IndInvHolds, PTL

(* A second delivery follows a failed pass or an overlap of two passes. *)
THEOREM DuplicateHasCauseHolds == Safety => []DuplicateHasCause
<1>1. IndInv => DuplicateHasCause
  BY DEF IndInv
<1> QED
  BY <1>1, IndInvHolds, PTL
=============================================================================
