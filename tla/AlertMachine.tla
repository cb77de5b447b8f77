---------------------------- MODULE AlertMachine ----------------------------
(***************************************************************************)
(* The alert state machine: rows of class probabilities, in parts of       *)
(* Scale, in, alert events out. The inference session steps it online, the *)
(* studies replay it over recorded runs. Classes are named by their rank   *)
(* in the alphabet, and class_order lists them as the classifier does.     *)
(***************************************************************************)
EXTENDS Integers, Sequences, SequencesExt, FiniteSetsExt

CONSTANTS
    Classes,            \* class_order
    Healthy,            \* HEALTHY_STATE, one of them
    Scale,              \* probabilities are 0 .. Scale
    None                \* no class

Class == Range(Classes)

ASSUME MachineAssumption ==
    /\ Classes \in Seq(Nat) /\ Healthy \in Class
    /\ \A i, j \in 1 .. Len(Classes) : i < j => Classes[i] < Classes[j]
    /\ Scale \in Nat \ {0}
    /\ None \notin Class

(* StateMachineConfig. *)
StateMachineConfig(entry, entryRows, exit, exitRows) ==
    [entryProbability |-> entry, entryPersistence |-> entryRows,
     exitProbability |-> exit, exitPersistence |-> exitRows]

(* predict_proba: a distribution over class_order. *)
Proba == {p \in [1 .. Len(Classes) -> 0 .. Scale] :
            FoldFunction(+, 0, p) = Scale}

(* The row of an insufficient sample; its zeros are never read, and are no *)
(* distribution.                                                           *)
Insufficient == [i \in 1 .. Len(Classes) |-> 0]

ASSUME InsufficientAssumption == Insufficient \notin Proba

Row == Proba \cup {Insufficient}

Valid(row) == row # Insufficient

(* np.argmax: the first of the largest. *)
Argmax(row) == Min({i \in DOMAIN row : \A j \in DOMAIN row : row[j] <= row[i]})

Diagnosis(row) == Classes[Argmax(row)]

HealthyProbability(row) ==
    row[CHOOSE i \in DOMAIN row : Classes[i] = Healthy]

Qualifies(cfg, row) ==
    Diagnosis(row) # Healthy /\ row[Argmax(row)] >= cfg.entryProbability

HealthyEvidence(cfg, row) == HealthyProbability(row) >= cfg.exitProbability

----------------------------------------------------------------------------
(***************************************************************************)
(* AlertMachineState. confirmed is None exactly in the state "healthy";    *)
(* the state's name, confirmed_<class>, adds nothing to it.                *)
(***************************************************************************)
FreshMachine ==
    [confirmed |-> None, pending |-> None, pendingStreak |-> 0,
     exitStreak |-> 0, switch |-> None, switchStreak |-> 0]

Confirmed(c) == [FreshMachine EXCEPT !.confirmed = c]

NoEvent == [type |-> "none", class |-> None]
AlertEvent(type, c) == [type |-> type, class |-> c]

(* One more row of a streak for class c, or the first of a new one. *)
Extend(c, class, streak) == IF c = class THEN streak + 1 ELSE 1

(* Mutant: a row that is not valid starts the exit anew. *)
StepInvalidResetting(m) ==
    [machine |-> [m EXCEPT !.pending = None, !.pendingStreak = 0, !.exitStreak = 0],
     event |-> NoEvent]

(* step_state_machine on a row that is not valid. *)
StepInvalid(m) ==
    [machine |-> IF m.confirmed = None
                 THEN [m EXCEPT !.pending = None, !.pendingStreak = 0] ELSE m,
     event |-> NoEvent]

(* step_state_machine on a valid row, in the state healthy. *)
StepHealthy(cfg, m, row) ==
    LET pending == IF Qualifies(cfg, row) THEN Diagnosis(row) ELSE None
        streak == IF pending = None THEN 0 ELSE Extend(pending, m.pending, m.pendingStreak)
    IN IF pending # None /\ streak >= cfg.entryPersistence
       THEN [machine |-> Confirmed(pending), event |-> AlertEvent("new_alert", pending)]
       ELSE [machine |-> [m EXCEPT !.pending = pending, !.pendingStreak = streak],
             event |-> NoEvent]

(* Mutant: a row without healthy evidence does not end the exit streak. *)
StickyExit(cfg, m, row) == IF HealthyEvidence(cfg, row) THEN m.exitStreak + 1 ELSE m.exitStreak

ExitStreak(cfg, m, row) == IF HealthyEvidence(cfg, row) THEN m.exitStreak + 1 ELSE 0

Cleared(cfg, m, row) == ExitStreak(cfg, m, row) >= cfg.exitPersistence

(***************************************************************************)
(* step_state_machine on a valid row, in a confirmed state: the exit is    *)
(* looked at before the switch to another class.                           *)
(***************************************************************************)
StepConfirmed(cfg, m, row) ==
    LET candidate == Diagnosis(row) # m.confirmed /\ Qualifies(cfg, row)
        switch == IF candidate THEN Diagnosis(row) ELSE None
        streak == IF candidate THEN Extend(switch, m.switch, m.switchStreak) ELSE 0
    IN CASE Cleared(cfg, m, row) ->
              [machine |-> FreshMachine, event |-> AlertEvent("cleared", m.confirmed)]
         [] ~ Cleared(cfg, m, row) /\ switch # None /\ streak >= cfg.entryPersistence ->
              [machine |-> Confirmed(switch), event |-> AlertEvent("class_change", switch)]
         [] OTHER ->
              [machine |-> [m EXCEPT !.exitStreak = ExitStreak(cfg, m, row),
                                     !.switch = switch, !.switchStreak = streak],
               event |-> NoEvent]

StepStateMachine(cfg, m, row) ==
    CASE ~ Valid(row) -> StepInvalid(m)
      [] Valid(row) /\ m.confirmed = None -> StepHealthy(cfg, m, row)
      [] Valid(row) /\ m.confirmed # None -> StepConfirmed(cfg, m, row)
=============================================================================
