--------------------------- MODULE InferenceWorker ---------------------------
(***************************************************************************)
(* FaultInferenceStreamingWorker: one sequential process that polls the    *)
(* telemetry topic, assembles samples, feeds each complete one to its      *)
(* asset's inference session, publishes what came of it and commits.       *)
(*                                                                         *)
(* The assembler, the sessions and the consumer's position are memory of   *)
(* the process; the log and the committed offset outlive it. commit() is   *)
(* called without offsets: it commits the position, which poll() has moved *)
(* behind the whole batch.                                                 *)
(***************************************************************************)
EXTENDS SampleAssembly, FiniteSets

CONSTANTS
    Asset,          \* the assets that send telemetry
    Telemetry,      \* the messages of the topic: valid events, and Malformed
    Malformed,      \* what json.loads or validate_telemetry_event refuses
    MaxPoll,        \* bound: messages of one poll()
    MaxFaults       \* bound: failed publishes and crashes

ASSUME WorkerAssumption ==
    /\ Malformed \in Telemetry
    /\ \A e \in Telemetry \ {Malformed} : e.asset \in Asset /\ e.at \in Nat \ {Never}
    /\ MaxPoll \in Nat \ {0} /\ MaxFaults \in Nat

VARIABLES
    queue,          \* the partition, from the committed offset on
    fetched,        \* the consumer's position: messages of it that poll() gave out
    batch,          \* what is left of the last poll's records, the current one first
    pc,             \* where the worker is
    buffers,        \* the assembler
    session,        \* session[a]: last timestamp FaultInferenceSession took in
    outcomes,       \* outcomes of the last call into the assembler
    attempted,      \* how many of them the worker got to
    faults,         \* failed publishes and crashes so far
    open,           \* history: messages poll() gave out that were not handled
    evicted,        \* history: assets whose buffer this process evicted
    clean           \* history: no publish of this process failed

consumer == <<queue, fetched, batch>>
history == <<open, evicted, clean>>
vars == <<consumer, pc, buffers, session, outcomes, attempted, faults, history>>

OutcomeType ==
    [status : {"pending", "complete", "rejected"}, asset : Asset, at : Nat,
     reason : {"none", "late", "conflicting_duplicate", "incomplete_timeout"}]

TypeOK ==
    /\ queue \in Seq(Telemetry)
    /\ batch \in Seq(Telemetry) /\ Len(batch) <= MaxPoll
    /\ fetched \in 0 .. Len(queue)
    /\ pc \in {"polling", "handling", "committing", "sweeping", "down", "raised"}
    /\ \A i \in 1 .. Len(buffers) :
         /\ buffers[i].asset \in Asset
         /\ buffers[i].latest \in Nat
         /\ \A j \in 1 .. Len(buffers[i].pending) :
              buffers[i].pending[j].age \in 0 .. Timeout
    /\ session \in [Asset -> Nat]
    /\ outcomes \in Seq(OutcomeType)
    /\ attempted \in 0 .. Len(outcomes)
    /\ open \in Nat
    /\ evicted \subseteq Asset
    /\ clean \in BOOLEAN
    /\ faults \in 0 .. MaxFaults

(* A process starts cold: every asset re-enters warm-up. *)
Cold ==
    /\ batch' = <<>>
    /\ fetched' = 0
    /\ buffers' = <<>>
    /\ session' = [a \in Asset |-> Never]
    /\ outcomes' = <<>> /\ attempted' = 0
    /\ open' = 0 /\ evicted' = {} /\ clean' = TRUE

Init ==
    /\ queue = <<>> /\ fetched = 0 /\ batch = <<>>
    /\ pc = "polling"
    /\ buffers = <<>>
    /\ session = [a \in Asset |-> Never]
    /\ outcomes = <<>> /\ attempted = 0
    /\ faults = 0
    /\ open = 0 /\ evicted = {} /\ clean = TRUE

----------------------------------------------------------------------------
(***************************************************************************)
(* The plant publishes one more measurement, in any order, perhaps again.  *)
(* When it does so matters to poll() alone.                                *)
(***************************************************************************)
Send(m) ==
    /\ pc = "polling"
    /\ Len(queue) - fetched < MaxPoll
    /\ queue' = Append(queue, m)
    /\ UNCHANGED <<fetched, batch, pc, buffers, session, outcomes, attempted, faults, history>>

(* consumer.poll: no records, or a batch, whose end becomes the position. *)
Poll ==
    /\ pc = "polling"
    /\ \E n \in 0 .. MaxPoll :
         /\ fetched + n <= Len(queue)
         /\ fetched' = fetched + n
         /\ batch' = SubSeq(queue, fetched + 1, fetched + n)
         /\ open' = open + n
         /\ pc' = IF n = 0 THEN "sweeping" ELSE "handling"
    /\ outcomes' = <<>> /\ attempted' = 0
    /\ UNCHANGED <<queue, buffers, session, faults, evicted, clean>>

(***************************************************************************)
(* publish_with_retry gives up on the outcome that was being handled: the  *)
(* ones behind it are not looked at, poll_once returns without a commit    *)
(* and without a sweep, and the position stays where poll() has moved it.  *)
(***************************************************************************)
GiveUp ==
    /\ faults < MaxFaults
    /\ faults' = faults + 1
    /\ clean' = FALSE
    /\ batch' = <<>>
    /\ pc' = "polling"
    /\ UNCHANGED open

(* Every publish the message asked for has succeeded. *)
Succeed ==
    /\ pc' = "committing"
    /\ open' = open - 1
    /\ UNCHANGED <<batch, faults, clean>>

(* Mutant: a session that only warms up does not note the timestamp. *)
ForgetfulIngest(a, at) == session

(* FaultInferenceSession.ingest, as the worker sees it: it notes the         *)
(* timestamp before it classifies, whatever the status of the result is.    *)
SessionIngest(a, at) == [session EXCEPT ![a] = at]

(* The session raises NonMonotonicTimestampError, which nobody catches. *)
NonMonotonic(o) == o.status = "complete" /\ o.at <= session[o.asset]

(***************************************************************************)
(* _handle_message on a valid event: the assembler's outcomes are handled  *)
(* in order until one cannot be published. Only the last can be complete.  *)
(***************************************************************************)
HandleOutcomes(done) ==
    LET final == Last(done.outcomes)
    IN /\ buffers' = done.buffers
       /\ outcomes' = done.outcomes
       /\ evicted' = evicted \cup
             ({buffers[i].asset : i \in 1 .. Len(buffers)}
                \ {done.buffers[i].asset : i \in 1 .. Len(done.buffers)})
       /\ \/ \* every outcome is handled
             /\ ~ NonMonotonic(final)
             /\ attempted' = Len(done.outcomes)
             /\ session' = IF final.status = "complete"
                           THEN SessionIngest(final.asset, final.at) ELSE session
             /\ Succeed
          \/ \* the publish for one of them fails
             \E k \in 1 .. Len(done.outcomes) :
               /\ done.outcomes[k].status # "pending"
               /\ ~ NonMonotonic(done.outcomes[k])
               /\ attempted' = k
               /\ session' = IF done.outcomes[k].status = "complete"
                             THEN SessionIngest(final.asset, final.at) ELSE session
               /\ GiveUp
          \/ \* the session refuses the sample and the process dies
             /\ NonMonotonic(final)
             /\ attempted' = Len(done.outcomes)
             /\ pc' = "raised"
             /\ UNCHANGED <<batch, session, faults, open, clean>>

HandleEvent ==
    /\ pc = "handling" /\ Head(batch) # Malformed
    /\ HandleOutcomes(Ingest(buffers, Head(batch)))
    /\ UNCHANGED <<queue, fetched>>

(* _publish_data_quality, whose outcome is that of the message. *)
PublishDataQuality == Succeed \/ GiveUp

(* _handle_message on what is no valid event: only a report is published. *)
HandleMalformed ==
    /\ pc = "handling" /\ Head(batch) = Malformed
    /\ outcomes' = <<>> /\ attempted' = 0
    /\ PublishDataQuality
    /\ UNCHANGED <<queue, fetched, buffers, session, evicted>>

(* consumer.commit(), after each message: everything poll() gave out. *)
Commit ==
    /\ pc = "committing"
    /\ queue' = SubSeq(queue, fetched + 1, Len(queue))
    /\ fetched' = 0
    /\ batch' = Tail(batch)
    /\ pc' = IF batch' = <<>> THEN "sweeping" ELSE "handling"
    /\ outcomes' = <<>> /\ attempted' = 0
    /\ UNCHANGED <<buffers, session, faults, history>>

(* _sweep_timeouts at the end of a poll; a failed report is let go. *)
Sweep ==
    /\ pc = "sweeping"
    /\ LET done == SweepTimeouts(buffers)
       IN /\ buffers' = done.buffers
          /\ outcomes' = done.outcomes
          /\ attempted' = Len(done.outcomes)
    /\ pc' = "polling"
    /\ UNCHANGED <<consumer, session, faults, history>>

(* The clock: time passes while a pending sample of a living process grows older. *)
Tick ==
    /\ pc \notin {"down", "raised"}
    /\ Aged(buffers) # buffers
    /\ buffers' = Aged(buffers)
    /\ outcomes' = <<>> /\ attempted' = 0
    /\ UNCHANGED <<consumer, pc, session, faults, history>>

(* The process dies; what it held in memory is gone. *)
Crash ==
    /\ pc \notin {"down", "raised"}
    /\ faults < MaxFaults
    /\ faults' = faults + 1
    /\ pc' = "down"
    /\ Cold
    /\ UNCHANGED queue

(* main(): a new process starts from the committed offset. *)
Restart ==
    /\ pc \in {"down", "raised"}
    /\ pc' = "polling"
    /\ Cold
    /\ UNCHANGED <<queue, faults>>

WorkerStep == Poll \/ HandleEvent \/ HandleMalformed \/ Commit \/ Sweep \/ Restart

Next == (\E m \in Telemetry : Send(m)) \/ WorkerStep \/ Tick \/ Crash

(***************************************************************************)
(* run() calls poll_once in a loop, the supervisor restarts a dead process *)
(* and the monotonic clock advances. Handling is enabled whenever the      *)
(* worker is there, so that to be fair to it is to leave that place.       *)
(***************************************************************************)
Fairness ==
    /\ WF_vars(Poll \/ Commit \/ Sweep \/ Restart)
    /\ WF_vars(Tick)
    /\ []<>(pc # "handling")

Spec == Init /\ [][Next]_vars /\ Fairness

----------------------------------------------------------------------------
(***************************************************************************)
(* The assembler's memory stays within its two limits, no asset has two    *)
(* buffers, no timestamp two pending samples, and nothing that could be    *)
(* completed is left waiting (assembly.py, _buffer_for and _make_room).    *)
(***************************************************************************)
BoundedState ==
    /\ Len(buffers) <= MaxAssets
    /\ \A i, j \in 1 .. Len(buffers) : buffers[i].asset = buffers[j].asset => i = j
    /\ \A i \in 1 .. Len(buffers) :
         LET pending == buffers[i].pending
         IN /\ Len(pending) <= MaxBuffered
            /\ \A j, k \in 1 .. Len(pending) : pending[j].at = pending[k].at => j = k
            /\ \A j \in 1 .. Len(pending) : ~ Required \subseteq DOMAIN pending[j].values

(***************************************************************************)
(* The assembler and the sessions agree on how far an asset has come, as   *)
(* long as its buffer was never evicted: the session is not ahead of the   *)
(* last completed sample, and is behind it only after a publish has        *)
(* failed, for a sample that was never handed over (worker.py:108).        *)
(***************************************************************************)
SessionFollowsAssembler ==
    \A i \in 1 .. Len(buffers) :
      LET b == buffers[i]
      IN b.latest # Never /\ b.asset \notin evicted =>
           /\ session[b.asset] <= b.latest
           /\ clean => session[b.asset] = b.latest

(***************************************************************************)
(* A session refuses a sample, and the worker dies of it, only for an      *)
(* asset whose buffer was evicted before: the late check of the assembler  *)
(* covers the session's strict order as long as the buffer is tracked.     *)
(***************************************************************************)
RaisesOnlyAfterEviction ==
    pc = "raised" => Last(outcomes).asset \in evicted

(***************************************************************************)
(* The worker's two memories, the assembler and the sessions, stay bounded *)
(* and agree, whatever is evicted, fails or arrives late.                  *)
(***************************************************************************)
MemoriesAgree ==
    TypeOK /\ BoundedState /\ SessionFollowsAssembler /\ RaisesOnlyAfterEviction

(***************************************************************************)
(* A pending sample that leaves the assembler of a living process is       *)
(* completed or rejected, and the worker acts on it, unless the publish    *)
(* for an outcome before it has just failed (assembly.py:22-26).           *)
(***************************************************************************)
DropsAreReported ==
    [][pc' # "down" /\ pc \notin {"down", "raised"} =>
         \A w \in Waiting(buffers) \ Waiting(buffers') :
           \E k \in 1 .. Len(outcomes') :
             /\ <<outcomes'[k].asset, outcomes'[k].at>> = w
             /\ outcomes'[k].status # "pending"
             /\ k <= attempted' \/ faults' > faults]_vars

(***************************************************************************)
(* A sample does not wait for ever: it is completed, rejected or timed out *)
(* (or its process dies), though a poll that fails sweeps nothing.         *)
(***************************************************************************)
PendingResolved ==
    \A a \in Asset : \A at \in {e.at : e \in Telemetry \ {Malformed}} :
      <<a, at>> \in Waiting(buffers) ~> <<a, at>> \notin Waiting(buffers)
=============================================================================
