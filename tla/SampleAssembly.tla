--------------------------- MODULE SampleAssembly ---------------------------
(***************************************************************************)
(* SampleAssembler of the fault-inference worker: one measurement per      *)
(* message is gathered into one complete sample per asset and timestamp.   *)
(* The assembler is a value, a sequence of asset buffers from the least to *)
(* the most recently active one, and each call returns the next value with *)
(* the outcomes it hands to the worker, in the order it hands them.        *)
(***************************************************************************)
EXTENDS Integers, Sequences, SequencesExt

CONSTANTS
    Required,       \* REQUIRED_MEASUREMENTS
    MaxBuffered,    \* max_buffered_timestamps_per_asset
    MaxAssets,      \* max_tracked_assets
    Timeout         \* assembly_timeout_seconds, in ticks of the clock

ASSUME AssemblyAssumption ==
    /\ Required # {}
    /\ MaxBuffered \in Nat \ {0}
    /\ MaxAssets \in Nat \ {0}
    /\ Timeout \in Nat \ {0}

(* No timestamp: latest_processed_timestamp is None. *)
Never == 0

(* _PendingSample: the values gathered so far, and how long ago it was made. *)
PendingSample(at) == [at |-> at, values |-> <<>>, age |-> 0]

(* _AssetBuffer: pending samples in the order they were first seen. *)
AssetBuffer(a) == [asset |-> a, latest |-> Never, pending |-> <<>>]

Outcome(status, a, at, reason) ==
    [status |-> status, asset |-> a, at |-> at, reason |-> reason]

Complete(a, at) == Outcome("complete", a, at, "none")
Buffered(a, at) == Outcome("pending", a, at, "none")
Rejected(a, at, reason) == Outcome("rejected", a, at, reason)

(* The place of an asset's buffer, and of a timestamp's sample in it, or 0. *)
AssetPlace(buffers, a) == SelectInSeq(buffers, LAMBDA b : b.asset = a)
PendingPlace(buffer, at) == SelectInSeq(buffer.pending, LAMBDA p : p.at = at)

(* Every pending sample of a buffer that is dropped is reported. *)
ReportIncomplete(buffer) ==
    [i \in 1 .. Len(buffer.pending) |->
       Rejected(buffer.asset, buffer.pending[i].at, "incomplete_timeout")]

----------------------------------------------------------------------------
(* Mutant: the asset that makes room is dropped without a report. *)
SilentBufferFor(buffers, a) ==
    [buffers |-> Append(IF Len(buffers) >= MaxAssets THEN Tail(buffers) ELSE buffers,
                        AssetBuffer(a)),
     outcomes |-> <<>>]

(***************************************************************************)
(* _buffer_for: the asset's buffer becomes the most recently active one.   *)
(* An asset met for the first time evicts, at the limit, the least         *)
(* recently active one, latest_processed_timestamp and all.                *)
(***************************************************************************)
NewBufferFor(buffers, a) ==
    LET full == Len(buffers) >= MaxAssets
    IN [buffers |-> Append(IF full THEN Tail(buffers) ELSE buffers, AssetBuffer(a)),
        outcomes |-> IF full THEN ReportIncomplete(Head(buffers)) ELSE <<>>]

BufferFor(buffers, a) ==
    LET i == AssetPlace(buffers, a)
    IN IF i = 0 THEN NewBufferFor(buffers, a)
       ELSE [buffers |-> Append(RemoveAt(buffers, i), buffers[i]), outcomes |-> <<>>]

(* _make_room: the pending sample first seen longest ago gives way. *)
MakeRoom(buffer) ==
    IF Len(buffer.pending) < MaxBuffered
    THEN [buffer |-> buffer, outcomes |-> <<>>]
    ELSE [buffer |-> [buffer EXCEPT !.pending = Tail(@)],
          outcomes |-> <<Rejected(buffer.asset, Head(buffer.pending).at,
                                  "incomplete_timeout")>>]

Late(buffer, at) == buffer.latest # Never /\ at <= buffer.latest

(***************************************************************************)
(* The rest of ingest, once the timestamp has a pending sample: a          *)
(* duplicate changes nothing, a conflicting one discards the sample, and   *)
(* the last required measurement takes the complete sample out.            *)
(***************************************************************************)
AddMeasurement(buffer, e) ==
    LET i == PendingPlace(buffer, e.at)
        p == buffer.pending[i]
        values == [m \in DOMAIN p.values \cup {e.measurement} |->
                     IF m = e.measurement THEN e.value ELSE p.values[m]]
        without == [buffer EXCEPT !.pending = RemoveAt(@, i)]
    IN CASE e.measurement \in DOMAIN p.values /\ p.values[e.measurement] = e.value ->
              [buffer |-> buffer, outcome |-> Buffered(e.asset, e.at)]
         [] e.measurement \in DOMAIN p.values /\ p.values[e.measurement] # e.value ->
              [buffer |-> without,
               outcome |-> Rejected(e.asset, e.at, "conflicting_duplicate")]
         [] e.measurement \notin DOMAIN p.values /\ ~ Required \subseteq DOMAIN values ->
              [buffer |-> [buffer EXCEPT !.pending[i].values = values],
               outcome |-> Buffered(e.asset, e.at)]
         [] e.measurement \notin DOMAIN p.values /\ Required \subseteq DOMAIN values ->
              [buffer |-> [without EXCEPT !.latest = e.at],
               outcome |-> Complete(e.asset, e.at)]

(* The timestamp's pending sample is there, or one is made, with room for it. *)
SampleFor(buffer, at) ==
    IF PendingPlace(buffer, at) # 0 THEN [buffer |-> buffer, outcomes |-> <<>>]
    ELSE LET made == MakeRoom(buffer)
         IN [made EXCEPT !.buffer.pending = Append(@, PendingSample(at))]

(* ingest, on the asset's own buffer, the last one. *)
IngestInto(buffer, e) ==
    IF Late(buffer, e.at)
    THEN [buffer |-> buffer, outcomes |-> <<Rejected(e.asset, e.at, "late")>>]
    ELSE LET found == SampleFor(buffer, e.at)
             added == AddMeasurement(found.buffer, e)
         IN [buffer |-> added.buffer,
             outcomes |-> Append(found.outcomes, added.outcome)]

Ingest(buffers, e) ==
    LET found == BufferFor(buffers, e.asset)
        done == IngestInto(Last(found.buffers), e)
    IN [buffers |-> Append(Front(found.buffers), done.buffer),
        outcomes |-> found.outcomes \o done.outcomes]

----------------------------------------------------------------------------
(* Mutant: a sample times out after the timeout, not at it. *)
ExpiredAfter(p) == p.age > Timeout

Expired(p) == p.age >= Timeout

(* The samples of a buffer that pass a test, in order, one by one. *)
Only(pending, Test(_)) ==
    FlattenSeq([i \in 1 .. Len(pending) |->
                  IF Test(pending[i]) THEN <<pending[i]>> ELSE <<>>])

Kept(p) == ~ Expired(p)

(* sweep_timeouts: every expired pending sample is dropped and reported. *)
SweepTimeouts(buffers) ==
    [buffers |-> [i \in 1 .. Len(buffers) |->
                    [buffers[i] EXCEPT !.pending = Only(@, Kept)]],
     outcomes |-> FlattenSeq(
        [i \in 1 .. Len(buffers) |->
           ReportIncomplete([buffers[i] EXCEPT !.pending = Only(@, Expired)])])]

(* The clock advances one tick; ages beyond the timeout are all alike. *)
Older(p) == [p EXCEPT !.age = IF @ < Timeout THEN @ + 1 ELSE @]

Aged(buffers) ==
    [i \in 1 .. Len(buffers) |->
       [buffers[i] EXCEPT !.pending = [j \in 1 .. Len(@) |-> Older(@[j])]]]

(* The samples a state of the assembler still waits for. *)
Waiting(buffers) ==
    UNION {{<<buffers[i].asset, buffers[i].pending[j].at>> :
              j \in 1 .. Len(buffers[i].pending)} : i \in 1 .. Len(buffers)}
=============================================================================
