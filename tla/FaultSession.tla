---------------------------- MODULE FaultSession ----------------------------
(***************************************************************************)
(* FaultInferenceSession: one asset's warm-up, its alert state machine and *)
(* the evidence its results carry. A sample is a row of probabilities, or  *)
(* a row the feature pipeline finds insufficient.                          *)
(***************************************************************************)
EXTENDS AlertMachine

CONSTANTS
    EntryProbability, EntryPersistence,         \* the bundle's StateMachineConfig
    ExitProbability, ExitPersistence,
    Window,             \* LONGEST_WINDOW_SAMPLES
    Predictions         \* bound: the distributions the classifier may yield

ASSUME SessionAssumption ==
    /\ EntryProbability \in 1 .. Scale /\ ExitProbability \in 1 .. Scale
    /\ EntryPersistence \in Nat \ {0} /\ ExitPersistence \in Nat \ {0}
    /\ Window \in Nat \ {0}
    /\ Predictions \subseteq Proba

Config == StateMachineConfig(EntryProbability, EntryPersistence,
                             ExitProbability, ExitPersistence)

----------------------------------------------------------------------------
(* build_evidence: what a result says of the row and of the machine.       *)

(* The classes, most probable first; among equals by name. *)
Before(row, i, j) ==
    row[i] > row[j] \/ (row[i] = row[j] /\ Classes[i] < Classes[j])

First(row, S) == CHOOSE i \in S : \A j \in S \ {i} : Before(row, i, j)

(* _alert_progress_evidence: the streak that is under way, of its target. *)
Progress(m) ==
    CASE m.confirmed = None /\ m.pending = None -> <<>>
      [] m.confirmed = None /\ m.pending # None -> <<m.pendingStreak, EntryPersistence>>
      [] m.confirmed # None -> <<m.exitStreak, ExitPersistence>>

Evidence(row, m) ==
    LET top == First(row, DOMAIN row)
        rest == DOMAIN row \ {top}
    IN [top |-> Classes[top],
        runnerUp |-> IF rest = {} THEN None ELSE Classes[First(row, rest)],
        progress |-> Progress(m)]

NoEvidence == [top |-> None, runnerUp |-> None, progress |-> <<>>]

----------------------------------------------------------------------------
VARIABLES
    samples,        \* length of the history, which keeps the longest window
    machine,        \* AlertMachineState
    status,         \* status of the last result
    event,          \* its alert event
    evidence,       \* its evidence
    rows,           \* history: the last rows the state machine has seen
    good            \* history: the last valid ones

vars == <<samples, machine, status, event, evidence, rows, good>>

Depth == IF EntryPersistence > ExitPersistence THEN EntryPersistence ELSE ExitPersistence

(* The last Depth elements of s with x appended. *)
Recent(s, x) ==
    IF Len(s) < Depth THEN Append(s, x) ELSE Append(Tail(s), x)

TypeOK ==
    /\ samples \in 0 .. Window
    /\ machine \in [confirmed : Class \cup {None}, pending : Class \cup {None},
                    pendingStreak : Nat, exitStreak : Nat,
                    switch : Class \cup {None}, switchStreak : Nat]
    /\ status \in {"none", "warming_up", "valid_prediction", "insufficient_data"}
    /\ event \in [type : {"none", "new_alert", "class_change", "cleared"},
                  class : Class \cup {None}]
    /\ Len(rows) <= Depth /\ Len(good) <= Depth

(* _reset_state: a cold start. *)
Init ==
    /\ samples = 0
    /\ machine = FreshMachine
    /\ status = "none" /\ event = NoEvent /\ evidence = NoEvidence
    /\ rows = <<>> /\ good = <<>>

(* The history after one more sample: the oldest beyond the window goes. *)
Trimmed(n) == IF n < Window THEN n + 1 ELSE Window

(* ingest, before the longest window is full. *)
WarmUp ==
    /\ Trimmed(samples) < Window
    /\ samples' = Trimmed(samples)
    /\ status' = "warming_up"
    /\ event' = NoEvent /\ evidence' = NoEvidence
    /\ UNCHANGED <<machine, rows, good>>

(* ingest of a row that compute_feature_row cannot vouch for. *)
IngestInsufficient ==
    /\ Trimmed(samples) >= Window
    /\ samples' = Trimmed(samples)
    /\ status' = "insufficient_data"
    /\ machine' = StepStateMachine(Config, machine, Insufficient).machine
    /\ event' = NoEvent /\ evidence' = NoEvidence
    /\ rows' = Recent(rows, Insufficient)
    /\ UNCHANGED good

(* ingest of a row with a prediction. *)
IngestRow(row) ==
    /\ Trimmed(samples) >= Window
    /\ samples' = Trimmed(samples)
    /\ rows' = Recent(rows, row)
    /\ good' = Recent(good, row)
    /\ status' = "valid_prediction"
    /\ \E step \in {StepStateMachine(Config, machine, row)} :
          /\ machine' = step.machine
          /\ event' = step.event
          /\ evidence' = Evidence(row, step.machine)

(* reset, of the session or of every session of the manager. *)
Reset ==
    /\ samples # 0
    /\ samples' = 0
    /\ machine' = FreshMachine
    /\ status' = "none" /\ event' = NoEvent /\ evidence' = NoEvidence
    /\ rows' = <<>> /\ good' = <<>>

Ingest == WarmUp \/ IngestInsufficient \/ \E row \in Predictions : IngestRow(row)

Next == Ingest \/ Reset

(* Samples keep coming. *)
Spec == Init /\ [][Next]_vars /\ WF_vars(Ingest)

----------------------------------------------------------------------------
(* The last n elements of s all satisfy P, and there are n of them. *)
Streak(s, n, P(_)) ==
    /\ Len(s) >= n
    /\ \A i \in Len(s) - n + 1 .. Len(s) : P(s[i])

(* A valid row whose first largest probability, at the threshold or above, *)
(* is that of class c.                                                     *)
SpeaksFor(row, c) ==
    /\ Valid(row)
    /\ \E i \in DOMAIN row :
         /\ Classes[i] = c
         /\ row[i] >= EntryProbability
         /\ \A j \in DOMAIN row : row[j] < row[i] \/ (row[j] = row[i] /\ i <= j)

(* A valid row whose probability of a healthy asset suffices for the exit. *)
SpeaksForHealth(row) ==
    /\ Valid(row)
    /\ \E i \in DOMAIN row : Classes[i] = Healthy /\ row[i] >= ExitProbability

(***************************************************************************)
(* A new alert is raised exactly by an unbroken streak of rows for its     *)
(* class: never with a row missing, insufficient or of another class in    *)
(* between (state_machine.py, Entry and insufficient_data rows).           *)
(***************************************************************************)
NewAlertNeedsStreak ==
    event.type = "new_alert" =>
      Streak(rows, EntryPersistence, LAMBDA r : SpeaksFor(r, event.class))

(***************************************************************************)
(* A fault that persists is not missed: after enough consecutive rows for  *)
(* one class it is the confirmed one, whatever was confirmed before,       *)
(* unless one of the rows counted towards the exit as well.                *)
(***************************************************************************)
StreakConfirms ==
    \A c \in Class \ {Healthy} :
      Streak(rows, EntryPersistence,
             LAMBDA r : SpeaksFor(r, c) /\ ~ SpeaksForHealth(r)) =>
        machine.confirmed = c

(***************************************************************************)
(* An alert is cleared only by ExitPersistence valid rows in a row that    *)
(* show a healthy asset; insufficient rows neither count nor interrupt.    *)
(***************************************************************************)
ClearNeedsHealthyRows ==
    event.type = "cleared" => Streak(good, ExitPersistence, SpeaksForHealth)

(***************************************************************************)
(* An alert goes over to another class only on EntryPersistence valid rows *)
(* in a row for that class; insufficient rows neither count nor interrupt. *)
(***************************************************************************)
SwitchNeedsStreak ==
    event.type = "class_change" =>
      Streak(good, EntryPersistence, LAMBDA r : SpeaksFor(r, event.class))

(***************************************************************************)
(* The counters belong to the state: a healthy machine has no exit and no  *)
(* switch streak, a confirmed one no pending streak, and no stored streak  *)
(* has reached its target, so that the progress that build_evidence        *)
(* reports is below one.                                                   *)
(***************************************************************************)
CountersMatchState ==
    /\ machine.confirmed = None => machine.exitStreak = 0 /\ machine.switch = None
    /\ machine.confirmed # None => machine.pending = None /\ machine.pendingStreak = 0
    /\ machine.pendingStreak < EntryPersistence
    /\ machine.switchStreak < EntryPersistence
    /\ machine.exitStreak < ExitPersistence
    /\ machine.pending = None <=> machine.pendingStreak = 0
    /\ machine.switch = None <=> machine.switchStreak = 0

(* The evidence ranks the diagnosed class first, ties included. *)
EvidenceNamesDiagnosis ==
    status = "valid_prediction" => evidence.top = Diagnosis(Last(good))
=============================================================================
