----------------------- MODULE ReasoningBridgeProofs -----------------------
(***************************************************************************)
(* Proofs about ReasoningBridge for any assets, batch sizes and numbers of *)
(* messages and faults.  The lifecycle rests on one fact, Key:             *)
(* a transition that may still be handed out and is not recorded is newer  *)
(* than everything recorded of its asset.                                  *)
(***************************************************************************)
EXTENDS ReasoningBridge, TLAPS

Valid(i) == log[i].type # "rejected"

(* An asset's transitions are in the order of their timestamps. *)
OrderInv ==
    /\ \A a \in Asset : sent[a] <= Len(log)
    /\ \A i \in 1 .. Len(log) : Valid(i) => log[i].at <= sent[log[i].asset]
    /\ \A i, j \in 1 .. Len(log) :
         (Valid(i) /\ Valid(j) /\ i <= j /\ log[i].asset = log[j].asset)
            => log[i].at <= log[j].at

BatchInv ==
    /\ pc = "polling" => cur = position + 1
    /\ pc \in {"handling", "dispatching", "publishing", "committing"} => cur <= position

(* What the evidence table holds, whatever happened. *)
TableInv ==
    /\ \A r \in evidence : r.at <= sent[r.asset]
    /\ \A r \in evidence : r.inv[1] = r.asset
    /\ ReplayIsANoOp

Finished(i) == Valid(i) => Recorded(log[i])

(* Message i may still be handled. *)
Ahead(i) ==
    \/ i > committed
    \/ pc \in {"handling", "dispatching", "publishing", "committing"} /\ i >= cur

Key ==
    /\ \A i \in 1 .. Len(log) : (Ahead(i) /\ Valid(i) /\ ~Recorded(log[i])) =>
         \A r \in evidence : r.asset = log[i].asset => r.at < log[i].at
    /\ pc # "down" => \A i \in committed + 1 .. cur - 1 : Finished(i)
    /\ pc \in {"dispatching", "publishing", "committing"} => Finished(cur)

(* Nothing joins a cleared investigation, and an open row that is the last *)
(* of its investigation is the last of its asset.                          *)
CaseInv ==
    /\ \A r \in evidence : r.inv[2] <= r.at
    /\ \A r, s \in evidence : (r.status = "CLEARED" /\ s.inv = r.inv) => s.at <= r.at
    /\ \A r \in evidence :
         (r.status = "OPEN" /\ \A t \in evidence : t.inv = r.inv => t.at <= r.at)
            => \A s \in evidence : s.asset = r.asset => s.at <= r.at

IndInv ==
    TypeOK /\ OrderInv /\ BatchInv /\ TableInv /\ (~skipped => Key /\ CaseInv)

----------------------------------------------------------------------------
(* The log. *)

(* Upstream only appends. *)
Grows(m) == log' = Append(log, m)

(* What the worker handles and what it can still be handed stays as it is  *)
(* when the partition grows.                                               *)
LEMMA AppendFacts ==
    ASSUME TypeOK, NEW m \in Message, Grows(m)
    PROVE  /\ Len(log') = Len(log) + 1
           /\ log' \in Seq(Message)
           /\ \A i \in 1 .. Len(log) : log'[i] = log[i]
           /\ log'[Len(log) + 1] = m
  BY DEF TypeOK, Grows

LEMMA MessageFacts ==
    ASSUME TypeOK, NEW i \in 1 .. Len(log)
    PROVE  log[i] \in Message /\ log[i].asset \in Asset /\ log[i].at \in 0 .. MaxLog
  <1>1. log[i] \in Message
    BY DEF TypeOK
  <1> QED
    BY <1>1 DEF Message

(* Every step of the partition's writers appends a message of the asset's  *)
(* next or last timestamp, or an invalid one, or nothing.                  *)
LEMMA UpstreamFacts ==
    ASSUME TypeOK, OrderInv, BridgeAssumption, Upstream
    PROVE  /\ UNCHANGED <<consumer, pc, evidence, results, skipped, faults>>
           /\ sent' \in [Asset -> 0 .. MaxLog]
           /\ \A a \in Asset : sent[a] <= sent'[a]
           /\ \/ log' = log /\ sent' = sent
              \/ /\ Len(log) < MaxLog
                 /\ \E m \in Message :
                      /\ Grows(m)
                      /\ \A a \in Asset : sent'[a] <= Len(log) + 1
                      /\ m.type # "rejected" => m.at = sent'[m.asset]
                      /\ sent' = sent \/ m.at > sent[m.asset]
  <1> PICK a \in Asset : (\E type \in TransitionType : Emit(a, type)) \/ Resend(a)
    BY DEF Upstream
  <1>1. ASSUME NEW type \in TransitionType, Emit(a, type)
        PROVE  /\ UNCHANGED <<consumer, pc, evidence, results, skipped, faults>>
               /\ sent' \in [Asset -> 0 .. MaxLog]
               /\ \A b \in Asset : sent[b] <= sent'[b]
               /\ Len(log) < MaxLog
               /\ \E m \in Message :
                      /\ Grows(m)
                      /\ \A b \in Asset : sent'[b] <= Len(log) + 1
                      /\ m.type # "rejected" => m.at = sent'[m.asset]
                      /\ sent' = sent \/ m.at > sent[m.asset]
    <2> DEFINE m == [asset |-> a, at |-> sent[a] + 1, type |-> type]
    <2>0. /\ Len(log) < MaxLog /\ log' = Append(log, m)
          /\ sent' = [sent EXCEPT ![a] = @ + 1]
          /\ UNCHANGED <<consumer, pc, evidence, results, skipped, faults>>
      BY <1>1 DEF Emit
    <2>1. sent[a] \in 0 .. MaxLog /\ sent[a] + 1 \in 0 .. MaxLog
      BY <2>0, BridgeAssumption DEF TypeOK, OrderInv
    <2>2. m \in Message
      BY <2>1 DEF Message
    <2>3. sent' \in [Asset -> 0 .. MaxLog] /\ \A b \in Asset : sent[b] <= sent'[b]
      BY <2>0, <2>1 DEF TypeOK
    <2>4. \A b \in Asset : sent'[b] <= Len(log) + 1
      BY <2>0, <2>1 DEF TypeOK, OrderInv
    <2>5. m.at = sent'[m.asset] /\ m.at > sent[m.asset]
      BY <2>0, <2>1 DEF TypeOK
    <2>6. Grows(m)
      BY <2>0 DEF Grows
    <2> QED
      BY <2>0, <2>2, <2>3, <2>4, <2>5, <2>6
  <1>2. CASE Resend(a)
    <2>1. PICK i \in 1 .. Len(log) :
            /\ log[i].asset = a /\ log[i].at = sent[a]
            /\ log' \in {Append(log, log[i]), Append(log, Refused(log[i]))}
      BY <1>2 DEF Resend
    <2>2. /\ Len(log) < MaxLog
          /\ UNCHANGED <<sent, consumer, pc, evidence, results, skipped, faults>>
      BY <1>2 DEF Resend
    <2>3. log[i] \in Message
      BY DEF TypeOK
    <2>4. Refused(log[i]) \in Message /\ Refused(log[i]).type = "rejected"
      BY <2>3, BridgeAssumption DEF Message, Refused
    <2>5. CASE log' = Append(log, log[i])
      BY <2>1, <2>2, <2>3, <2>5 DEF TypeOK, OrderInv, Grows
    <2>6. CASE log' = Append(log, Refused(log[i]))
      BY <2>2, <2>4, <2>6 DEF TypeOK, OrderInv, Grows
    <2> QED
      BY <2>1, <2>5, <2>6
  <1> QED
    BY <1>1, <1>2

----------------------------------------------------------------------------
(* The types, the order of the log and the batch. *)

(* What a handled message can become in the evidence table. *)
LEMMA EvidenceFacts ==
    ASSUME TypeOK, TableInv, NEW i \in 1 .. Len(log)
    PROVE  /\ Evidence(log[i]) \in EvidenceRow
           /\ Evidence(log[i]).asset = log[i].asset
           /\ Evidence(log[i]).at = log[i].at
           /\ \/ /\ Active(log[i].asset) = {}
                 /\ Evidence(log[i]).inv = <<log[i].asset, log[i].at>>
              \/ \E q \in evidence : /\ IsLatest(q, log[i].asset) /\ q.status = "OPEN"
                                     /\ Evidence(log[i]).inv = q.inv
           /\ Evidence(log[i]).inv[1] = log[i].asset
  <1> DEFINE m == log[i]
             e == Evidence(m)
  <1>1. m \in Message
    BY DEF TypeOK
  <1>2. CASE Active(m.asset) = {}
    <2>1. e = [asset |-> m.asset, at |-> m.at, inv |-> <<m.asset, m.at>>,
               status |-> IF m.type = "cleared" THEN "CLEARED" ELSE "OPEN"]
      BY <1>2 DEF Evidence, Id
    <2> HIDE DEF e, m
    <2>2. e \in EvidenceRow /\ e.asset = m.asset /\ e.at = m.at /\ e.inv = <<m.asset, m.at>>
      BY <2>1, <1>1 DEF EvidenceRow, Message
    <2>3. e.inv[1] = m.asset
      BY <2>2
    <2> QED
      BY <1>2, <2>2, <2>3 DEF e, m
  <1>3. CASE Active(m.asset) # {}
    <2> DEFINE q == CHOOSE r \in Active(m.asset) : TRUE
    <2>1. q \in Active(m.asset)
      BY <1>3
    <2>2. e = [asset |-> m.asset, at |-> m.at, inv |-> q.inv,
               status |-> IF m.type = "cleared" THEN "CLEARED" ELSE "OPEN"]
      BY <1>3 DEF Evidence
    <2> HIDE DEF e, m, q
    <2>3. q \in evidence /\ IsLatest(q, m.asset) /\ q.status = "OPEN"
      BY <2>1 DEF Active
    <2>4. q.asset = m.asset /\ q \in EvidenceRow
      BY <2>3 DEF IsLatest, TypeOK
    <2>5. e \in EvidenceRow /\ e.asset = m.asset /\ e.at = m.at /\ e.inv = q.inv
      BY <2>2, <2>4, <1>1 DEF EvidenceRow, Message
    <2>6. e.inv[1] = m.asset
      BY <2>3, <2>4, <2>5 DEF TableInv
    <2> QED
      BY <2>3, <2>5, <2>6 DEF e, m
  <1> QED
    BY <1>2, <1>3

(* The result of a message is the one its evidence row stands for. *)
LEMMA ResultFacts ==
    ASSUME TypeOK, TableInv, NEW i \in 1 .. Len(log), NEW x \in ResultOf(log[i])
    PROVE  \E r \in evidence : x = <<<<r.asset, r.at>>, r.inv>>
  BY DEF ResultOf

(* A step of the worker leaves the partition alone. *)
LEMMA WorkerFacts ==
    ASSUME Work \/ Failure
    PROVE  UNCHANGED <<log, sent>>
  BY DEF Work, Failure, Poll, PollNothing, Reject, IgnoreDuplicate, Persist,
         DispatchReturns, Publish, CommitOffset, Restart, PersistFails, DispatchRaises,
         PublishFails, Crash, upstream, vars

LEMMA TypeStep ==
    ASSUME TypeOK, OrderInv, BatchInv, TableInv, BridgeAssumption, Next
    PROVE  TypeOK'
  <1>1. CASE Upstream
    <2>1. CASE log' = log
      BY <1>1, <2>1, UpstreamFacts DEF TypeOK, consumer
    <2>2. CASE \E m \in Message : Grows(m)
      <3>1. PICK m \in Message : Grows(m)
        BY <2>2
      <3>2. Len(log) < MaxLog \/ log' = log
        BY <1>1, UpstreamFacts
      <3>3. Len(log') = Len(log) + 1 /\ log' \in Seq(Message)
        BY <3>1, AppendFacts
      <3>4. /\ UNCHANGED <<committed, position, cur, pc, evidence, results, skipped, faults>>
            /\ sent' \in [Asset -> 0 .. MaxLog]
        BY <1>1, UpstreamFacts DEF consumer
      <3>5. CASE Len(log) < MaxLog
        <4>1. Len(log) \in Nat /\ Len(log') <= MaxLog
          BY <3>3, <3>5, BridgeAssumption DEF TypeOK
        <4>2. committed' \in 0 .. Len(log') /\ position' \in committed' .. Len(log')
              /\ cur' \in 1 .. Len(log') + 1
          BY <3>3, <3>4, <4>1 DEF TypeOK
        <4> QED
          BY <3>3, <3>4, <4>1, <4>2 DEF TypeOK
      <3> QED
        BY <2>1, <3>2, <3>5
    <2> QED
      BY <1>1, <2>1, <2>2, UpstreamFacts
  <1> USE BridgeAssumption DEF TypeOK, consumer, upstream
  <1>2. CASE Poll
    BY <1>2 DEF Poll
  <1>3. CASE PollNothing \/ Reject \/ IgnoreDuplicate \/ DispatchReturns
    BY <1>3 DEF PollNothing, Reject, IgnoreDuplicate, DispatchReturns, vars
  <1>4. CASE Persist
    <2>1. cur \in 1 .. Len(log)
      BY <1>4 DEF Persist, BatchInv
    <2>2. Evidence(log[cur]) \in EvidenceRow
      BY <2>1, EvidenceFacts
    <2> QED
      BY <1>4, <2>2 DEF Persist
  <1>5. ASSUME pc = "publishing"
        PROVE  ResultOf(log[cur]) \subseteq (Asset \X (0 .. MaxLog)) \X (Asset \X (0 .. MaxLog))
    BY DEF ResultOf, EvidenceRow
  <1>6. CASE Publish
    BY <1>5, <1>6 DEF Publish
  <1>7. CASE CommitOffset
    BY <1>7 DEF CommitOffset, BatchInv
  <1>8. CASE Restart
    BY <1>8 DEF Restart
  <1>9. ASSUME GiveUp PROVE cur' \in 1 .. Len(log) + 1 /\ skipped' \in BOOLEAN
                            /\ pc' = "polling" /\ faults' \in 0 .. MaxFaults
    <2>1. skipped' \in BOOLEAN
      BY <1>9, Zenon DEF GiveUp
    <2> QED
      BY <1>9, <2>1 DEF GiveUp, Fault
  <1>10. CASE PersistFails \/ DispatchRaises
    BY <1>9, <1>10 DEF PersistFails, DispatchRaises
  <1>11. CASE PublishFails
    BY <1>5, <1>9, <1>11 DEF PublishFails
  <1>12. CASE Crash
    BY <1>12 DEF Crash, Fault
  <1> QED
    BY <1>1, <1>2, <1>3, <1>4, <1>6, <1>7, <1>8, <1>10, <1>11, <1>12 DEF Next, Work, Failure

LEMMA OrderStep ==
    ASSUME TypeOK, OrderInv, BridgeAssumption, Next
    PROVE  OrderInv'
  <1>1. CASE Work \/ Failure
    BY <1>1, WorkerFacts DEF OrderInv, Valid
  <1>2. CASE Upstream
    <2>1. CASE log' = log /\ sent' = sent
      BY <2>1 DEF OrderInv, Valid
    <2>2. CASE ~(log' = log /\ sent' = sent)
      <3>1. PICK m \in Message :
                      /\ Grows(m)
                      /\ \A a \in Asset : sent'[a] <= Len(log) + 1
                      /\ m.type # "rejected" => m.at = sent'[m.asset]
        BY <1>2, <2>2, UpstreamFacts
      <3>2. /\ Len(log') = Len(log) + 1
            /\ \A i \in 1 .. Len(log) : log'[i] = log[i]
            /\ log'[Len(log) + 1] = m
        BY <3>1, AppendFacts
      <3>3. \A i \in 1 .. Len(log) : /\ log[i] \in Message
                                     /\ log[i].asset \in Asset /\ log[i].at \in 0 .. MaxLog
        BY MessageFacts
      <3>4. m.asset \in Asset /\ m.at \in 0 .. MaxLog
        BY DEF Message
      <3>5. \A a \in Asset : sent[a] <= sent'[a] /\ sent[a] \in 0 .. MaxLog /\ sent'[a] \in 0 .. MaxLog
        BY <1>2, UpstreamFacts DEF TypeOK
      <3>6. \A i \in 1 .. Len(log) : Valid(i) => log[i].at <= sent'[log[i].asset]
        BY <3>3, <3>5, BridgeAssumption DEF OrderInv
      <3>7. \A i \in 1 .. Len(log') : i \in 1 .. Len(log) \/ i = Len(log) + 1
        BY <3>2 DEF TypeOK
      <3>8. \A i \in 1 .. Len(log') : (log'[i].type # "rejected") => log'[i].at <= sent'[log'[i].asset]
        BY <3>1, <3>2, <3>4, <3>5, <3>6, <3>7 DEF Valid
      <3>9. ASSUME NEW i \in 1 .. Len(log'), NEW j \in 1 .. Len(log'),
                   log'[i].type # "rejected", log'[j].type # "rejected", i <= j,
                   log'[i].asset = log'[j].asset
            PROVE  log'[i].at <= log'[j].at
        <4>1. CASE j = Len(log) + 1
          BY <3>1, <3>2, <3>8, <3>9, <4>1
        <4>2. CASE j \in 1 .. Len(log)
          <5>1. i \in 1 .. Len(log)
            BY <3>9, <4>2 DEF TypeOK
          <5> QED
            BY <3>2, <3>9, <4>2, <5>1 DEF OrderInv, Valid
        <4> QED
          BY <3>7, <4>1, <4>2
      <3> QED
        BY <3>1, <3>2, <3>8, <3>9 DEF OrderInv, Valid
    <2> QED
      BY <2>1, <2>2
  <1> QED
    BY <1>1, <1>2 DEF Next

LEMMA BatchStep ==
    ASSUME TypeOK, OrderInv, BatchInv, BridgeAssumption, Next
    PROVE  BatchInv'
  <1> USE DEF BatchInv, consumer, TypeOK
  <1>1. CASE Upstream
    BY <1>1, UpstreamFacts
  <1>2. CASE Poll \/ PollNothing \/ Reject \/ IgnoreDuplicate \/ Persist \/ DispatchReturns
    BY <1>2, BridgeAssumption DEF Poll, PollNothing, Reject, IgnoreDuplicate, Persist, DispatchReturns, vars
  <1>3. CASE Publish \/ CommitOffset \/ Restart \/ Crash
    BY <1>3 DEF Publish, CommitOffset, Restart, Crash
  <1>4. CASE PersistFails \/ DispatchRaises \/ PublishFails
    BY <1>4 DEF PersistFails, DispatchRaises, PublishFails, GiveUp
  <1> QED
    BY <1>1, <1>2, <1>3, <1>4 DEF Next, Work, Failure

----------------------------------------------------------------------------
(* The evidence table. *)

(* What a step does to the table and the output topic. *)
LEMMA TableEffects ==
    ASSUME TypeOK, OrderInv, BridgeAssumption, Next
    PROVE  /\ evidence' = evidence \/ Persist
           /\ \/ results' = results
              \/ /\ pc = "publishing" /\ evidence' = evidence
                 /\ results' = results \cup ResultOf(log[cur])
           /\ \A a \in Asset : sent[a] <= sent'[a]
  <1>1. CASE Upstream
    BY <1>1, UpstreamFacts
  <1>2. CASE Work \/ Failure
    <2>1. \A a \in Asset : sent[a] <= sent'[a]
      BY <1>2, WorkerFacts DEF TypeOK
    <2>2. CASE Poll \/ PollNothing \/ Reject \/ IgnoreDuplicate \/ DispatchReturns
      BY <2>1, <2>2 DEF Poll, PollNothing, Reject, IgnoreDuplicate, DispatchReturns, vars
    <2>3. CASE Persist \/ CommitOffset \/ Restart \/ Crash
      BY <2>1, <2>3 DEF Persist, CommitOffset, Restart, Crash
    <2>4. CASE PersistFails \/ DispatchRaises \/ PublishFails \/ Publish
      BY <2>1, <2>4 DEF PersistFails, DispatchRaises, PublishFails, Publish
    <2> QED
      BY <1>2, <2>2, <2>3, <2>4 DEF Work, Failure
  <1> QED
    BY <1>1, <1>2 DEF Next

LEMMA TableStep ==
    ASSUME TypeOK, OrderInv, BatchInv, TableInv, BridgeAssumption, Next
    PROVE  TableInv'
  <1>1. \A r \in evidence : r.asset \in Asset /\ r.at \in 0 .. MaxLog
    BY DEF TypeOK, EvidenceRow
  <1>2. \A a \in Asset : sent[a] \in 0 .. MaxLog /\ sent'[a] \in 0 .. MaxLog
    BY TypeStep DEF TypeOK
  <1>3. \A r \in evidence : r.at <= sent'[r.asset]
    BY <1>1, <1>2, TableEffects, BridgeAssumption DEF TableInv
  <1>4. CASE Persist
    <2> DEFINE e == Evidence(log[cur])
    <2>1. cur \in 1 .. Len(log) /\ log[cur].type # "rejected" /\ ~Recorded(log[cur])
          /\ evidence' = evidence \cup {e} /\ results' = results /\ sent' = sent
      BY <1>4 DEF Persist, BatchInv, TypeOK, upstream
    <2>2. e.asset = log[cur].asset /\ e.at = log[cur].at /\ e.inv[1] = log[cur].asset
      BY <2>1, EvidenceFacts
    <2>3. e.at <= sent'[e.asset]
      BY <2>1, <2>2 DEF OrderInv, Valid
    <2>4. \A r \in evidence : ~(r.asset = e.asset /\ r.at = e.at)
      BY <2>1, <2>2 DEF Recorded, Id
    <2> HIDE DEF e
    <2>5. ReplayIsANoOp'
      BY <2>1, <2>4 DEF ReplayIsANoOp, TableInv
    <2> QED
      BY <1>3, <2>1, <2>2, <2>3, <2>5 DEF TableInv
  <1>5. CASE evidence' = evidence /\ results' = results
    BY <1>3, <1>5 DEF TableInv, ReplayIsANoOp
  <1>6. CASE /\ pc = "publishing" /\ evidence' = evidence
             /\ results' = results \cup ResultOf(log[cur])
    <2>1. cur \in 1 .. Len(log)
      BY <1>6 DEF BatchInv, TypeOK
    <2>2. \A x \in results' : \E r \in evidence : x = <<<<r.asset, r.at>>, r.inv>>
      BY <1>6, <2>1, ResultFacts DEF TableInv, ReplayIsANoOp
    <2>3. ASSUME NEW x \in results', NEW y \in results', x[1] = y[1] PROVE x = y
      <3>1. PICK r \in evidence : x = <<<<r.asset, r.at>>, r.inv>>
        BY <2>2
      <3>2. PICK t \in evidence : y = <<<<t.asset, t.at>>, t.inv>>
        BY <2>2
      <3>3. <<r.asset, r.at>> = <<t.asset, t.at>>
        BY <2>3, <3>1, <3>2
      <3>4. r = t
        BY <3>3 DEF TableInv, ReplayIsANoOp
      <3> QED
        BY <3>1, <3>2, <3>4
    <2> QED
      BY <1>3, <1>6, <2>2, <2>3 DEF TableInv, ReplayIsANoOp
  <1>7. results' = results \/ (/\ pc = "publishing" /\ evidence' = evidence
                               /\ results' = results \cup ResultOf(log[cur]))
    BY TableEffects
  <1> QED
    BY <1>4, <1>5, <1>6, <1>7, TableEffects

----------------------------------------------------------------------------
(* Unrecorded transitions are newer than the table. *)

(* The three parts of Key, for a step that does not change the table and   *)
(* after which nothing is ahead that was not.                              *)
LEMMA KeyUnchanged ==
    ASSUME TypeOK, Key, evidence' = evidence, log' = log,
           \A i \in 1 .. Len(log) : Ahead(i)' => Ahead(i),
           pc' # "down" => \A i \in committed' + 1 .. cur' - 1 : Finished(i),
           pc' \in {"dispatching", "publishing", "committing"} => Finished(cur')
    PROVE  Key'
  <1>1. Len(log') = Len(log) /\ \A i : Finished(i)' = Finished(i)
    BY DEF Finished, Recorded, Valid
  <1>2. \A i \in 1 .. Len(log) : Valid(i)' = Valid(i) /\ Recorded(log[i])' = Recorded(log[i])
    BY DEF Valid, Recorded
  <1>3. \A i \in 1 .. Len(log') : (Ahead(i)' /\ Valid(i)' /\ ~Recorded(log[i])') =>
         \A r \in evidence' : r.asset = log'[i].asset => r.at < log'[i].at
    BY <1>1, <1>2 DEF Key
  <1>4. pc' # "down" => \A i \in committed' + 1 .. cur' - 1 : Finished(i)'
    BY <1>1
  <1>5. pc' \in {"dispatching", "publishing", "committing"} => Finished(cur)'
    BY DEF Finished, Recorded, Valid
  <1> QED
    BY <1>3, <1>4, <1>5 DEF Key

(* A message that is appended is newer than the table, or recorded. *)
LEMMA KeyUpstream ==
    ASSUME TypeOK, OrderInv, BatchInv, TableInv, Key, BridgeAssumption, Upstream
    PROVE  Key'
  <1>1. /\ UNCHANGED <<committed, position, cur, pc, evidence>>
        /\ sent' \in [Asset -> 0 .. MaxLog]
    BY UpstreamFacts DEF consumer
  <1>2. CASE log' = log
    <2>1. \A i \in 1 .. Len(log) : Ahead(i)' => Ahead(i)
      BY <1>1 DEF Ahead
    <2> QED
      BY <1>1, <1>2, <2>1, KeyUnchanged DEF Key
  <1>3. CASE log' # log
    <2>1. PICK m \in Message :
            /\ Grows(m)
            /\ m.type # "rejected" => m.at = sent'[m.asset]
            /\ sent' = sent \/ m.at > sent[m.asset]
      BY <1>3, UpstreamFacts
    <2>2. /\ Len(log') = Len(log) + 1
          /\ \A i \in 1 .. Len(log) : log'[i] = log[i]
          /\ log'[Len(log) + 1] = m
      BY <2>1, AppendFacts
    <2>3. m.asset \in Asset /\ m.at \in 0 .. MaxLog
      BY DEF Message
    <2>4. \A i \in 1 .. Len(log) : /\ Ahead(i)' = Ahead(i) /\ Valid(i)' = Valid(i)
                                   /\ Recorded(log[i])' = Recorded(log[i])
                                   /\ Finished(i)' = Finished(i)
      BY <1>1, <2>2 DEF Ahead, Valid, Recorded, Finished
    <2>5. \A r \in evidence : /\ r.asset \in Asset /\ r.at \in 0 .. MaxLog
                              /\ sent[r.asset] \in 0 .. MaxLog /\ r.at <= sent[r.asset]
      BY DEF TypeOK, EvidenceRow, TableInv
    <2>6. ASSUME m.type # "rejected", ~Recorded(m), NEW r \in evidence, r.asset = m.asset
          PROVE  r.at < m.at
      <3>1. r.at # m.at
        BY <2>6 DEF Recorded, Id
      <3>2. r.at <= m.at
        BY <2>1, <2>3, <2>5, <2>6, BridgeAssumption
      <3> QED
        BY <2>3, <2>5, <3>1, <3>2, BridgeAssumption
    <2>7. \A i \in 1 .. Len(log') : i \in 1 .. Len(log) \/ i = Len(log) + 1
      BY <2>2 DEF TypeOK
    <2>8. ASSUME NEW i \in 1 .. Len(log'), Ahead(i)', Valid(i)', ~Recorded(log[i])'
          PROVE  \A r \in evidence' : r.asset = log'[i].asset => r.at < log'[i].at
      <3>1. CASE i \in 1 .. Len(log)
        BY <1>1, <2>2, <2>4, <2>8, <3>1 DEF Key
      <3>2. CASE i = Len(log) + 1
        <4>1. m.type # "rejected" /\ ~Recorded(m)
          BY <1>1, <2>2, <2>8, <3>2 DEF Valid, Recorded
        <4> QED
          BY <1>1, <2>2, <2>6, <3>2, <4>1
      <3> QED
        BY <2>7, <3>1, <3>2
    <2>9. pc' # "down" => \A i \in committed' + 1 .. cur' - 1 : Finished(i)'
      <3>1. \A i \in committed + 1 .. cur - 1 : i \in 1 .. Len(log)
        BY DEF TypeOK
      <3> QED
        BY <1>1, <2>4, <3>1 DEF Key
    <2>10. pc' \in {"dispatching", "publishing", "committing"} => Finished(cur)'
      <3>1. pc \in {"dispatching", "publishing", "committing"} => cur \in 1 .. Len(log)
        BY DEF BatchInv, TypeOK
      <3>2. \A i \in 1 .. Len(log) : Finished(i)' = Finished(i)
        BY <2>4
      <3>3. pc \in {"dispatching", "publishing", "committing"} => Finished(cur)' = Finished(cur)
        BY <1>1, <2>2, <3>1 DEF Finished, Valid, Recorded
      <3> QED
        BY <1>1, <3>3 DEF Key
    <2> QED
      BY <2>8, <2>9, <2>10 DEF Key
  <1> QED
    BY <1>2, <1>3

(* The recorded message is older than every other that is still ahead. *)
LEMMA KeyPersist ==
    ASSUME TypeOK, OrderInv, BatchInv, TableInv, Key, Persist
    PROVE  Key'
  <1> DEFINE e == Evidence(log[cur])
  <1>1. /\ pc = "handling" /\ pc' = "dispatching" /\ cur \in 1 .. Len(log) /\ Valid(cur)
        /\ ~Recorded(log[cur]) /\ evidence' = evidence \cup {e}
        /\ log' = log /\ committed' = committed /\ cur' = cur
    BY DEF Persist, BatchInv, TypeOK, upstream, consumer, Valid
  <1>2. e.asset = log[cur].asset /\ e.at = log[cur].at
    BY <1>1, EvidenceFacts
  <1> HIDE DEF e
  <1>3. \A i \in 1 .. Len(log) : /\ Ahead(i)' = Ahead(i) /\ Valid(i)' = Valid(i)
                                 /\ (Recorded(log[i]) => Recorded(log[i])')
    BY <1>1 DEF Ahead, Valid, Recorded
  <1>4. Recorded(log[cur])'
    BY <1>1, <1>2 DEF Recorded, Id
  <1>5. ASSUME NEW i \in 1 .. Len(log), Ahead(i), Valid(i), ~Recorded(log[i])'
        PROVE  \A r \in evidence' : r.asset = log'[i].asset => r.at < log'[i].at
    <2>1. ~Recorded(log[i]) /\ \A r \in evidence : r.asset = log[i].asset => r.at < log[i].at
      BY <1>3, <1>5 DEF Key
    <2>2. ~(e.asset = log[i].asset /\ e.at = log[i].at)
      BY <1>1, <1>5 DEF Recorded, Id
    <2>3. i >= cur
      <3>1. SUFFICES ASSUME i < cur PROVE FALSE
        BY <1>1
      <3>2. i \in committed + 1 .. cur - 1
        BY <1>1, <1>5, <3>1 DEF Ahead, TypeOK
      <3> QED
        BY <1>1, <1>5, <2>1, <3>2 DEF Key, Finished
    <2>4. e.asset = log[i].asset => e.at <= log[i].at
      BY <1>1, <1>2, <1>5, <2>3 DEF OrderInv
    <2>5. e.at \in 0 .. MaxLog /\ log[i].at \in 0 .. MaxLog
      BY <1>1, <1>2, MessageFacts
    <2>6. e.asset = log[i].asset => e.at < log[i].at
      BY <2>2, <2>4, <2>5
    <2> QED
      BY <1>1, <2>1, <2>6
  <1>6. \A i \in committed + 1 .. cur - 1 : Finished(i)'
    BY <1>1 DEF Key, Finished, Valid, Recorded
  <1>7. Finished(cur)'
    BY <1>1, <1>4 DEF Finished
  <1> QED
    BY <1>1, <1>3, <1>5, <1>6, <1>7 DEF Key

LEMMA KeyStep ==
    ASSUME TypeOK, OrderInv, BatchInv, TableInv, BridgeAssumption, ~skipped => Key, Next, ~skipped'
    PROVE  ~skipped /\ Key'
  <1>0. ~skipped
    <2>1. CASE Upstream
      BY <2>1, UpstreamFacts
    <2>2. CASE Poll \/ PollNothing \/ Reject \/ IgnoreDuplicate \/ Persist \/ DispatchReturns
      BY <2>2 DEF Poll, PollNothing, Reject, IgnoreDuplicate, Persist, DispatchReturns, vars
    <2>3. CASE Publish \/ CommitOffset \/ Restart \/ Crash
      BY <2>3 DEF Publish, CommitOffset, Restart, Crash
    <2>4. CASE PersistFails \/ DispatchRaises \/ PublishFails
      BY <2>4 DEF PersistFails, DispatchRaises, PublishFails, GiveUp
    <2> QED
      BY <2>1, <2>2, <2>3, <2>4 DEF Next, Work, Failure
  <1> USE <1>0 DEF consumer, upstream
  <1>1. CASE Upstream
    BY <1>1, KeyUpstream
  <1>2. CASE Persist
    BY <1>2, KeyPersist
  <1>3. CASE Poll
    <2>1. \A i \in 1 .. Len(log) : Ahead(i)' => Ahead(i)
      BY <1>3 DEF Poll, Ahead, BatchInv, TypeOK
    <2>2. cur' = cur /\ committed' = committed /\ evidence' = evidence /\ log' = log
          /\ pc = "polling" /\ pc' = "handling"
      BY <1>3 DEF Poll, BatchInv
    <2> QED
      BY <2>1, <2>2, KeyUnchanged DEF Key
  <1>4. CASE PollNothing
    BY <1>4, KeyUnchanged DEF PollNothing, vars, Key, Ahead
  <1>5. CASE Reject \/ IgnoreDuplicate \/ DispatchReturns \/ Publish
    <2>1. \A i \in 1 .. Len(log) : Ahead(i)' => Ahead(i)
      BY <1>5 DEF Reject, IgnoreDuplicate, DispatchReturns, Publish, Ahead
    <2>2. /\ cur' = cur /\ committed' = committed /\ evidence' = evidence /\ log' = log
          /\ pc # "down" /\ Finished(cur)
      BY <1>5 DEF Reject, IgnoreDuplicate, DispatchReturns, Publish, Finished, Valid, Key
    <2> QED
      BY <2>1, <2>2, KeyUnchanged DEF Key
  <1>6. CASE CommitOffset
    <2>1. \A i \in 1 .. Len(log) : Ahead(i)' => Ahead(i)
      BY <1>6 DEF CommitOffset, Ahead, BatchInv, TypeOK
    <2>2. \A i \in committed' + 1 .. cur' - 1 : FALSE
      BY <1>6 DEF CommitOffset, BatchInv, TypeOK
    <2>3. evidence' = evidence /\ log' = log /\ pc' \in {"handling", "polling"}
      BY <1>6 DEF CommitOffset
    <2> QED
      BY <2>1, <2>2, <2>3, KeyUnchanged
  <1>7. CASE Crash
    <2>1. \A i \in 1 .. Len(log) : Ahead(i)' => Ahead(i)
      BY <1>7 DEF Crash, Ahead
    <2> QED
      BY <1>7, <2>1, KeyUnchanged DEF Crash
  <1>8. CASE Restart
    <2>1. \A i \in 1 .. Len(log) : Ahead(i)' => Ahead(i)
      BY <1>8 DEF Restart, Ahead
    <2>2. \A i \in committed' + 1 .. cur' - 1 : FALSE
      BY <1>8 DEF Restart, TypeOK
    <2>3. evidence' = evidence /\ log' = log /\ pc' = "polling"
      BY <1>8 DEF Restart
    <2> QED
      BY <2>1, <2>2, <2>3, KeyUnchanged
  <1>9. CASE PersistFails \/ DispatchRaises \/ PublishFails
    <2>1. /\ GiveUp /\ evidence' = evidence /\ log' = log /\ committed' = committed
          /\ pc \in {"handling", "dispatching", "publishing"}
      BY <1>9 DEF PersistFails, DispatchRaises, PublishFails
    <2>2. pc' = "polling" /\ cur' = position + 1
      BY <2>1 DEF GiveUp
    <2>3. \A i \in cur .. position : Finished(i)
      BY <2>1 DEF GiveUp, Finished, Valid
    <2>4. \A i \in committed' + 1 .. cur' - 1 :
             i \in committed + 1 .. cur - 1 \/ i \in cur .. position
      BY <2>1, <2>2 DEF TypeOK
    <2>5. \A i \in 1 .. Len(log) : Ahead(i)' => Ahead(i)
      BY <2>1, <2>2 DEF Ahead
    <2> QED
      BY <2>1, <2>2, <2>3, <2>4, <2>5, KeyUnchanged DEF Key
  <1> QED
    BY <1>1, <1>2, <1>3, <1>4, <1>5, <1>6, <1>7, <1>8, <1>9 DEF Next, Work, Failure

----------------------------------------------------------------------------
(* The lifecycle. *)

(* A row that is the newest of its asset extends the open investigation or *)
(* starts a new one.                                                       *)
LEMMA CasePersist ==
    ASSUME TypeOK, BatchInv, TableInv, Key, CaseInv, Persist
    PROVE  CaseInv'
  <1> DEFINE m == log[cur]
             e == Evidence(m)
  <1>1. /\ pc = "handling" /\ cur \in 1 .. Len(log) /\ Valid(cur) /\ ~Recorded(m)
        /\ evidence' = evidence \cup {e}
    BY DEF Persist, BatchInv, TypeOK, Valid
  <1>2. /\ e.asset = m.asset /\ e.at = m.at /\ e.inv[1] = m.asset
        /\ \/ Active(m.asset) = {} /\ e.inv = <<m.asset, m.at>>
           \/ \E q \in evidence : IsLatest(q, m.asset) /\ q.status = "OPEN" /\ e.inv = q.inv
    BY <1>1, EvidenceFacts
  <1>3. m.at \in 0 .. MaxLog /\ \A r \in evidence : r.at \in 0 .. MaxLog /\ r.inv[2] \in 0 .. MaxLog
    BY <1>1, MessageFacts DEF TypeOK, EvidenceRow
  <1>4. \A r \in evidence : r.asset = m.asset => r.at < m.at
    BY <1>1 DEF Key, Ahead, TypeOK
  <1>5. \A r, s \in evidence : (r.asset = s.asset /\ r.at = s.at) => r = s
    BY DEF TableInv, ReplayIsANoOp
  <1>6. \A r \in evidence : r.inv[1] = r.asset /\ r.inv[2] <= r.at
    BY DEF TableInv, CaseInv
  <1> HIDE DEF m, e
  <1>7. \A r \in evidence' : r.inv[2] <= r.at
    <2>1. e.inv[2] <= e.at
      <3>1. CASE e.inv = <<m.asset, m.at>>
        BY <1>2, <1>3, <3>1
      <3>2. CASE \E q \in evidence : IsLatest(q, m.asset) /\ q.status = "OPEN" /\ e.inv = q.inv
        BY <1>2, <1>3, <1>4, <1>6, <3>2 DEF IsLatest
      <3> QED
        BY <1>2, <3>1, <3>2
    <2> QED
      BY <1>1, <1>6, <2>1
  <1>8. ASSUME NEW r \in evidence', NEW s \in evidence', r.status = "CLEARED", s.inv = r.inv
        PROVE  s.at <= r.at
    <2>1. CASE r \in evidence /\ s \in evidence
      BY <1>8, <2>1 DEF CaseInv
    <2>2. CASE r = e /\ s = e
      BY <1>2, <1>3, <2>2
    <2>3. CASE r = e /\ s \in evidence
      BY <1>2, <1>3, <1>4, <1>6, <1>8, <2>3
    <2>4. CASE r \in evidence /\ s = e
      <3>0. r.asset = m.asset /\ r.at < m.at
        BY <1>2, <1>4, <1>6, <1>8, <2>4
      <3>1. CASE e.inv = <<m.asset, m.at>>
        BY <1>3, <1>6, <1>8, <2>4, <3>0, <3>1
      <3>2. CASE \E q \in evidence : IsLatest(q, m.asset) /\ q.status = "OPEN" /\ e.inv = q.inv
        <4>1. PICK q \in evidence : IsLatest(q, m.asset) /\ q.status = "OPEN" /\ e.inv = q.inv
          BY <3>2
        <4>2. q.at <= r.at
          BY <1>8, <2>4, <4>1 DEF CaseInv
        <4>3. r.at <= q.at /\ q.asset = r.asset
          BY <2>4, <3>0, <4>1 DEF IsLatest
        <4>4. q = r
          BY <1>3, <1>5, <2>4, <4>2, <4>3
        <4> QED
          BY <1>8, <4>1, <4>4
      <3> QED
        BY <1>2, <3>1, <3>2
    <2> QED
      BY <1>1, <2>1, <2>2, <2>3, <2>4
  <1>9. ASSUME NEW r \in evidence', r.status = "OPEN",
               \A t \in evidence' : t.inv = r.inv => t.at <= r.at,
               NEW s \in evidence', s.asset = r.asset
        PROVE  s.at <= r.at
    <2>1. CASE r = e
      BY <1>1, <1>2, <1>3, <1>4, <1>9, <2>1
    <2>2. CASE r \in evidence
      <3>1. \A t \in evidence : t.asset = r.asset => t.at <= r.at
        BY <1>1, <1>9, <2>2 DEF CaseInv
      <3>2. CASE s \in evidence
        BY <1>9, <3>1, <3>2
      <3>3. CASE s = e
        <4>1. r.asset = m.asset /\ r.at < m.at
          BY <1>2, <1>4, <1>9, <2>2, <3>3
        <4>2. r \in Active(m.asset)
          BY <1>9, <2>2, <3>1, <4>1 DEF Active, IsLatest
        <4>3. PICK q \in evidence : IsLatest(q, m.asset) /\ e.inv = q.inv
          BY <1>2, <4>2
        <4>4. q = r
          <5>1. q.asset = r.asset /\ q.at <= r.at /\ r.at <= q.at
            BY <2>2, <3>1, <4>1, <4>3 DEF IsLatest
          <5> QED
            BY <1>3, <1>5, <2>2, <5>1
        <4>5. e.at <= r.at
          BY <1>1, <1>9, <4>3, <4>4
        <4> QED
          BY <3>3, <4>5
      <3> QED
        BY <1>1, <3>2, <3>3
    <2> QED
      BY <1>1, <2>1, <2>2
  <1> QED
    BY <1>7, <1>8, <1>9 DEF CaseInv

(* IndInv holds initially. *)
LEMMA InitInd ==
    ASSUME Init, BridgeAssumption
    PROVE  IndInv
  <1>1. Len(log) = 0 /\ log \in Seq(Message)
    BY DEF Init
  <1>2. TypeOK
    <2>1. sent \in [Asset -> 0 .. MaxLog]
      BY BridgeAssumption DEF Init
    <2>2. /\ committed = 0 /\ position = 0 /\ cur = 1 /\ pc = "polling" /\ evidence = {}
          /\ results = {} /\ skipped = FALSE /\ faults = 0
      BY DEF Init
    <2>3. /\ committed \in 0 .. Len(log) /\ position \in committed .. Len(log)
          /\ cur \in 1 .. Len(log) + 1 /\ faults \in 0 .. MaxFaults /\ Len(log) <= MaxLog
      BY <1>1, <2>2, BridgeAssumption
    <2> QED
      BY <1>1, <2>1, <2>2, <2>3 DEF TypeOK
  <1>3. OrderInv /\ BatchInv /\ TableInv
    BY <1>1, BridgeAssumption DEF Init, OrderInv, BatchInv, TableInv, ReplayIsANoOp
  <1>4. Key /\ CaseInv
    BY <1>1 DEF Init, Key, CaseInv
  <1> QED
    BY <1>2, <1>3, <1>4 DEF IndInv

(* And every step keeps it. *)
LEMMA NextInd ==
    ASSUME IndInv, BridgeAssumption, Next
    PROVE  IndInv'
  <1> USE DEF IndInv
  <1>1. TypeOK'
    BY TypeStep
  <1>2. OrderInv' /\ BatchInv' /\ TableInv'
    BY OrderStep, BatchStep, TableStep
  <1>3. ASSUME ~skipped' PROVE Key' /\ CaseInv'
    <2>1. ~skipped /\ Key' /\ Key /\ CaseInv
      BY <1>3, KeyStep
    <2>2. CASE Persist
      BY <2>1, <2>2, CasePersist
    <2>3. CASE evidence' = evidence
      BY <2>1, <2>3 DEF CaseInv
    <2> QED
      BY <2>1, <2>2, <2>3, TableEffects
  <1> QED
    BY <1>1, <1>2, <1>3

(* IndInv is an invariant of the bridge. *)
THEOREM IndInvHolds == Safety => []IndInv
  <1>1. Init => IndInv
    BY InitInd, BridgeAssumption
  <1>2. IndInv /\ [Next]_vars => IndInv'
    <2>1. ASSUME IndInv, UNCHANGED vars PROVE IndInv'
      BY <2>1 DEF vars, IndInv, TypeOK, OrderInv, BatchInv, TableInv, ReplayIsANoOp, Key,
                  Ahead, Finished, Valid, Recorded, CaseInv
    <2> QED
      BY <2>1, NextInd, BridgeAssumption
  <1> QED
    BY <1>1, <1>2, PTL DEF Safety

(* The partition, consumer, table and output topic keep their types. *)
THEOREM TypeCorrect == Safety => []TypeOK
  <1>1. IndInv => TypeOK
    BY DEF IndInv
  <1> QED
    BY <1>1, IndInvHolds, PTL

(* process_alert_transition is idempotent in the event id: for any log,    *)
(* duplicates, crashes and failures, one evidence row per transition and   *)
(* one logical result of it.                                               *)
THEOREM ReplayIsANoOpHolds == Safety => []ReplayIsANoOp
  <1>1. IndInv => ReplayIsANoOp
    BY DEF IndInv, TableInv
  <1> QED
    BY <1>1, IndInvHolds, PTL

(* decide_investigation keeps at most one open investigation per asset and *)
(* never reopens a cleared one, for any log, as long as no message is      *)
(* given up before it was recorded.                                        *)
THEOREM LifecycleInOrderHolds == Safety => []LifecycleInOrder
  <1>1. IndInv => LifecycleInOrder
    <2> SUFFICES ASSUME IndInv, ~skipped PROVE LifecycleInOrder
      BY DEF LifecycleInOrder
    <2>1. TypeOK /\ TableInv /\ CaseInv
      BY DEF IndInv
    <2>2. \A r \in evidence : r.at \in 0 .. MaxLog /\ r.inv[1] = r.asset
      BY <2>1 DEF TypeOK, EvidenceRow, TableInv
    <2>3. ASSUME NEW r \in evidence, NEW s \in evidence, IsOpen(r.inv), IsOpen(s.inv),
                 s.asset = r.asset
          PROVE  s.inv = r.inv
      <3>1. PICK p \in evidence : /\ p.inv = r.inv /\ p.status = "OPEN"
                                  /\ \A t \in evidence : t.inv = r.inv => t.at <= p.at
        BY <2>3 DEF IsOpen
      <3>2. PICK q \in evidence : /\ q.inv = s.inv /\ q.status = "OPEN"
                                  /\ \A t \in evidence : t.inv = s.inv => t.at <= q.at
        BY <2>3 DEF IsOpen
      <3>3. p.asset = q.asset
        BY <2>2, <2>3, <3>1, <3>2
      <3>4. q.at <= p.at /\ p.at <= q.at
        BY <2>1, <3>1, <3>2, <3>3 DEF CaseInv
      <3>5. p = q
        BY <2>1, <2>2, <3>3, <3>4 DEF TableInv, ReplayIsANoOp
      <3> QED
        BY <3>1, <3>2, <3>5
    <2> QED
      BY <2>1, <2>3 DEF LifecycleInOrder, CaseInv
  <1> QED
    BY <1>1, IndInvHolds, PTL
=============================================================================
