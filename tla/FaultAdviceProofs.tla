------------------------- MODULE FaultAdviceProofs -------------------------
(***************************************************************************)
(* AlertsAreJustified and AdviceIsCoherent hold for every set of classes,  *)
(* every thresholds and persistences, every window and any series of       *)
(* readings. What fairness adds is not used.                               *)
(*                                                                         *)
(* The properties look back over rows; the machine keeps counters. So the  *)
(* invariant says what each counter counts, in both directions: a stored   *)
(* streak is at the end of the rows (nothing is raised or cleared early),  *)
(* and a streak at the end of the rows is stored (nothing is missed).      *)
(*                                                                         *)
(* The second part is about the studies the models go through before they  *)
(* serve, module PromotionStudy: StudyIsSound and PromotionIsMonotone; the *)
(* third about the searches for an alert policy, module AlertEvaluation:   *)
(* SearchIsSound.                                                          *)
(***************************************************************************)
EXTENDS FaultAdvice, AlertEvaluation, PromotionStudy, SequenceTheorems,
        FiniteSetTheorems, WellFoundedInduction, TLAPS

MaybeClass == Class \cup {None}
Machine ==
    [confirmed : MaybeClass, pending : MaybeClass, pendingStreak : Nat, exitStreak : Nat,
     switch : MaybeClass, switchStreak : Nat]
Event == [type : {"none", "new_alert", "class_change", "cleared"}, class : MaybeClass]

Faulty == Class \ {Healthy}

Typed ==
    /\ samples \in 0 .. Window /\ machine \in Machine /\ event \in Event
    /\ status \in {"none", "warming_up", "valid_prediction", "insufficient_data"}
    /\ rows \in Seq(Row) /\ Len(rows) <= Depth
    /\ good \in Seq(Row) /\ Len(good) <= Depth

----------------------------------------------------------------------------
(* Streaks, as sets of rows.                                               *)

LastIn(s, n, S) == Len(s) >= n /\ \A i \in Len(s) - n + 1 .. Len(s) : s[i] \in S

For(c) == {r \in Row : SpeaksFor(r, c)}
OnlyFor(c) == {r \in Row : SpeaksFor(r, c) /\ ~ SpeaksForHealth(r)}
Healthful == {r \in Row : SpeaksForHealth(r)}

(* What is counted is there. *)
PendingIsStreak ==
    machine.pending # None =>
      machine.pending # Healthy /\ LastIn(rows, machine.pendingStreak, For(machine.pending))
SwitchIsStreak ==
    machine.switch # None => LastIn(good, machine.switchStreak, For(machine.switch))
ExitIsStreak == LastIn(good, machine.exitStreak, Healthful)
NeverHealthy == machine.confirmed # Healthy /\ machine.switch # Healthy

(* What is there is counted: k rows for c have confirmed it, or are in the *)
(* streak of the state the machine is in.                                  *)
Counted(m, c, k) ==
    \/ m.confirmed = c
    \/ m.confirmed = None /\ m.pending = c /\ m.pendingStreak >= k
    \/ m.confirmed # None /\ m.switch = c /\ m.switchStreak >= k

StreakIsCounted ==
    \A c \in Faulty : \A k \in 1 .. EntryPersistence :
      LastIn(rows, k, OnlyFor(c)) => Counted(machine, c, k)

SessionInv ==
    /\ Typed /\ CountersMatchState /\ PendingIsStreak /\ SwitchIsStreak /\ ExitIsStreak
    /\ NeverHealthy /\ StreakIsCounted
    /\ NewAlertNeedsStreak /\ SwitchNeedsStreak /\ ClearNeedsHealthyRows
    /\ EvidenceNamesDiagnosis

----------------------------------------------------------------------------
(* The investigations.                                                     *)

Message == [type : {"confirmed", "class_changed", "cleared"}, class : Class]

InboxTyped ==
    /\ inbox \in Seq(Message) /\ Len(inbox) <= MaxInbox
    /\ \A i \in DOMAIN inbox : inbox[i].type # "cleared" => inbox[i].class # Healthy
    /\ lost \in 0 .. MaxInbox + 1

Result == {"corroborated", "partially_corroborated", "not_corroborated",
           "insufficient_evidence"}
Advice == {NoRecommendation} \cup {Recommendation(r) : r \in Result}
Entry == {"alert_received", "alert_cleared", "corroboration_completed",
          "recommendation_recorded", "investigation_opened", "investigation_updated"}
Investigation ==
    [class : Class, previous : MaybeClass, status : {"OPEN", "CLEARED"},
     result : Result \cup {"not_applicable"}, recommendation : Advice,
     timeline : SUBSET Entry]

(* One investigation, as its latest row tells it. *)
RowIsCoherent(row) ==
    /\ row.status = "OPEN" <=> row.recommendation.urgency # "none"
    /\ row.status = "CLEARED" <=> "alert_cleared" \in row.timeline
    /\ "corroboration_completed" \in row.timeline <=> "investigation_opened" \in row.timeline
    /\ row.status = "OPEN" => /\ row.previous # row.class
                              /\ "investigation_opened" \in row.timeline
    /\ row.status = "CLEARED" /\ row.previous = None
         => "investigation_opened" \notin row.timeline

HistoryIsCoherent ==
    /\ history \in Seq(Investigation) /\ Len(history) <= HistoryLimit
    /\ \A i \in 1 .. Len(history) :
         /\ RowIsCoherent(history[i])
         /\ history[i].status = "OPEN" => i = Len(history)

(* The class under investigation once a transition has been filed. *)
ClassAfter(t) == IF t.type = "cleared" THEN {} ELSE {t.class}

(* Once all that is under way has arrived, the advice is about the alert. *)
AdviceWillFollow ==
    lost <= Len(inbox) =>
      {machine.confirmed} \ {None} =
        IF inbox = <<>> THEN {row.class : row \in ActiveResponse}
        ELSE ClassAfter(Last(inbox))

AdviceInv == SessionInv /\ InboxTyped /\ HistoryIsCoherent /\ AdviceWillFollow

----------------------------------------------------------------------------
(* Rows: what the machine computes is what the properties say of a row.    *)

LEMMA ClassFacts ==
    /\ Len(Classes) \in Nat \ {0} /\ DOMAIN Classes = 1 .. Len(Classes)
    /\ \A i \in 1 .. Len(Classes) : Classes[i] \in Class /\ Classes[i] \in Nat
    /\ \E i \in 1 .. Len(Classes) : Classes[i] = Healthy
    /\ \A i, j \in 1 .. Len(Classes) : Classes[i] = Classes[j] => i = j
<1>1. Classes \in Seq(Nat)  BY MachineAssumption
<1>2. Len(Classes) \in Nat /\ DOMAIN Classes = 1 .. Len(Classes)
      /\ \A i \in 1 .. Len(Classes) : Classes[i] \in Nat
  BY <1>1
<1>3. \A i \in 1 .. Len(Classes) : Classes[i] \in Class  BY <1>2 DEF Class, Range
<1>4. PICK i \in 1 .. Len(Classes) : Classes[i] = Healthy
  BY <1>2, MachineAssumption DEF Class, Range
<1>5. Len(Classes) # 0  BY <1>2, <1>4
<1>6. ASSUME NEW j \in 1 .. Len(Classes), NEW k \in 1 .. Len(Classes), Classes[j] = Classes[k]
      PROVE  j = k
  <2>1. ~ (j < k)  BY <1>2, <1>6, MachineAssumption
  <2>2. ~ (k < j)  BY <1>2, <1>6, MachineAssumption
  <2>3. QED  BY <1>2, <2>1, <2>2
<1>7. QED  BY <1>2, <1>3, <1>4, <1>5, <1>6

LEMMA RowFacts ==
    ASSUME NEW row \in Row
    PROVE  /\ DOMAIN row = 1 .. Len(Classes)
           /\ \A i \in 1 .. Len(Classes) : row[i] \in 0 .. Scale /\ row[i] \in Nat
<1>1. row \in [1 .. Len(Classes) -> 0 .. Scale]
  <2>1. Proba \subseteq [1 .. Len(Classes) -> 0 .. Scale]  BY Zenon DEF Proba
  <2>2. 0 \in 0 .. Scale  BY MachineAssumption
  <2>3. Insufficient \in [1 .. Len(Classes) -> 0 .. Scale]  BY <2>2 DEF Insufficient
  <2>4. QED  BY <2>1, <2>3 DEF Row
<1>2. Scale \in Nat  BY MachineAssumption
<1>3. QED  BY <1>1, <1>2

(* Min of a nonempty set of naturals is its least element. *)
LEMMA LeastOf ==
    ASSUME NEW S, S \subseteq Nat, S # {}
    PROVE  Min(S) \in S /\ \A y \in S : Min(S) <= y
<1> DEFINE R == {ss \in Nat \X Nat : ss[1] < ss[2]}
<1>1. IsWellFoundedOn(R, Nat)  BY NatLessThanWellFounded, Zenon DEF OpToRel
<1> HIDE DEF R
<1>2. PICK x \in S : \A y \in S : <<y, x>> \notin R  BY <1>1, WFMin
<1>3. ASSUME NEW y \in S PROVE x <= y
  <2>1. x \in Nat /\ y \in Nat /\ <<y, x>> \in Nat \X Nat  OBVIOUS
  <2>2. ~ (y < x)  BY <1>2, <2>1 DEF R
  <2>3. QED  BY <2>1, <2>2
<1>4. QED  BY <1>3 DEF Min

(* np.argmax picks the first of the largest probabilities. *)
LEMMA ArgmaxIsFirst ==
    ASSUME NEW row \in Row
    PROVE  /\ Argmax(row) \in DOMAIN row
           /\ \A j \in DOMAIN row : row[j] < row[Argmax(row)]
                                   \/ (row[j] = row[Argmax(row)] /\ Argmax(row) <= j)
<1> DEFINE n == Len(Classes)
           M == {i \in DOMAIN row : \A j \in DOMAIN row : row[j] <= row[i]}
           D == {Scale - row[i] : i \in DOMAIN row}
<1>1. n \in Nat \ {0}  BY ClassFacts
<1>2. DOMAIN row = 1 .. n /\ \A i \in 1 .. n : row[i] \in 0 .. Scale /\ row[i] \in Nat
  BY RowFacts
<1>3. Scale \in Nat  BY MachineAssumption
<1> HIDE DEF n
<1>4. D \subseteq Nat /\ D # {}
  <2>1. 1 \in DOMAIN row  BY <1>1, <1>2
  <2>2. QED  BY <1>2, <1>3, <2>1
<1>5. Min(D) \in D /\ \A y \in D : Min(D) <= y
  <2> HIDE DEF D
  <2>1. QED  BY <1>4, LeastOf
<1>6. PICK i \in DOMAIN row : Min(D) = Scale - row[i]  BY <1>5
<1>7. i \in M
  <2>1. ASSUME NEW j \in DOMAIN row PROVE row[j] <= row[i]
    <3>1. Scale - row[j] \in D  OBVIOUS
    <3>2. Scale - row[i] <= Scale - row[j]  BY <1>5, <1>6, <3>1
    <3>3. QED  BY <1>2, <1>3, <3>2
  <2>2. QED  BY <2>1
<1>8. M \subseteq Nat  BY <1>2
<1>9. Min(M) \in M /\ \A y \in M : Min(M) <= y
  <2> HIDE DEF M
  <2>1. QED  BY <1>7, <1>8, LeastOf
<1>10. Argmax(row) = Min(M)  BY DEF Argmax
<1> HIDE DEF D
<1>11. ASSUME NEW j \in DOMAIN row
       PROVE  row[j] < row[Min(M)] \/ (row[j] = row[Min(M)] /\ Min(M) <= j)
  <2> DEFINE a == Min(M)
  <2>1. a \in DOMAIN row /\ (\A k \in DOMAIN row : row[k] <= row[a])
        /\ (j \in M => a <= j)
    BY <1>9
  <2> HIDE DEF a
  <2>2. row[j] = row[a] => j \in M  BY <2>1
  <2>3. row[j] \in Nat /\ row[a] \in Nat  BY <1>2, <2>1
  <2>4. row[j] < row[a] \/ (row[j] = row[a] /\ a <= j)  BY <2>1, <2>2, <2>3
  <2>5. QED  BY <2>4 DEF a
<1>12. QED  BY <1>9, <1>10, <1>11

LEMMA FirstOfLargest ==
    ASSUME NEW row \in Row, NEW i \in DOMAIN row,
           \A j \in DOMAIN row : row[j] < row[i] \/ (row[j] = row[i] /\ i <= j)
    PROVE  i = Argmax(row)
<1> DEFINE a == Argmax(row)
<1>1. a \in DOMAIN row /\ \A j \in DOMAIN row : row[j] < row[a] \/ (row[j] = row[a] /\ a <= j)
  BY ArgmaxIsFirst
<1> HIDE DEF a
<1>2. row[a] < row[i] \/ (row[a] = row[i] /\ i <= a)  BY <1>1
<1>3. row[i] < row[a] \/ (row[i] = row[a] /\ a <= i)  BY <1>1
<1>4. a \in Nat /\ i \in Nat /\ row[a] \in Nat /\ row[i] \in Nat
  BY <1>1, RowFacts, ClassFacts
<1>5. i = a  BY <1>2, <1>3, <1>4
<1>6. QED  BY <1>5 DEF a

LEMMA SpeaksForMeans ==
    ASSUME NEW row \in Row, Valid(row), NEW c
    PROVE  SpeaksFor(row, c) <=>
             Diagnosis(row) = c /\ row[Argmax(row)] >= EntryProbability
<1>1. ASSUME SpeaksFor(row, c)
      PROVE  Diagnosis(row) = c /\ row[Argmax(row)] >= EntryProbability
  <2>1. PICK i \in DOMAIN row :
          /\ Classes[i] = c /\ row[i] >= EntryProbability
          /\ \A j \in DOMAIN row : row[j] < row[i] \/ (row[j] = row[i] /\ i <= j)
    BY <1>1 DEF SpeaksFor
  <2>2. i = Argmax(row)  BY <2>1, FirstOfLargest
  <2>3. QED  BY <2>1, <2>2 DEF Diagnosis
<1>2. ASSUME Diagnosis(row) = c, row[Argmax(row)] >= EntryProbability
      PROVE  SpeaksFor(row, c)
  BY <1>2, ArgmaxIsFirst DEF SpeaksFor, Diagnosis
<1>3. QED  BY <1>1, <1>2

LEMMA HealthMeans ==
    ASSUME NEW row \in Row, Valid(row)
    PROVE  SpeaksForHealth(row) <=> HealthyEvidence(Config, row)
<1> DEFINE h == CHOOSE i \in DOMAIN row : Classes[i] = Healthy
<1>1. DOMAIN row = 1 .. Len(Classes)  BY RowFacts
<1>2. h \in DOMAIN row /\ Classes[h] = Healthy  BY <1>1, ClassFacts
<1>3. \A i \in DOMAIN row : Classes[i] = Healthy => i = h  BY <1>1, <1>2, ClassFacts
<1>4. HealthyEvidence(Config, row) <=> row[h] >= ExitProbability
  BY DEF HealthyEvidence, HealthyProbability, Config, StateMachineConfig
<1> HIDE DEF h
<1>5. QED  BY <1>2, <1>3, <1>4 DEF SpeaksForHealth

LEMMA EvidenceTop ==
    ASSUME NEW row \in Row, NEW m
    PROVE  Evidence(row, m).top = Diagnosis(row)
<1> DEFINE a == Argmax(row)
           S == DOMAIN row
<1>1. S = 1 .. Len(Classes) /\ Len(Classes) \in Nat  BY RowFacts, ClassFacts
<1>2. a \in S /\ \A j \in S : row[j] < row[a] \/ (row[j] = row[a] /\ a <= j)
  BY ArgmaxIsFirst
<1> HIDE DEF a
<1>3. \A i \in S : row[i] \in Nat /\ Classes[i] \in Nat  BY <1>1, RowFacts, ClassFacts
<1>4. \A j \in S \ {a} : Before(row, a, j)
  <2> TAKE j \in S \ {a}
  <2>1. a \in Nat /\ j \in Nat /\ row[a] \in Nat /\ row[j] \in Nat  BY <1>1, <1>2, <1>3
  <2>2. a < j => Classes[a] < Classes[j]  BY <1>1, <1>2, MachineAssumption
  <2>3. QED  BY <1>2, <2>1, <2>2 DEF Before
<1>5. ASSUME NEW i \in S, \A j \in S \ {i} : Before(row, i, j)
      PROVE  i = a
  <2>1. i # a => Before(row, i, a) /\ Before(row, a, i)  BY <1>2, <1>4, <1>5
  <2>2. row[a] \in Nat /\ row[i] \in Nat /\ Classes[i] \in Nat /\ Classes[a] \in Nat
    BY <1>2, <1>3
  <2>3. QED  BY <2>1, <2>2 DEF Before
<1>6. First(row, S) = a  BY <1>2, <1>4, <1>5 DEF First
<1>7. Evidence(row, m).top = Classes[First(row, S)]  BY DEF Evidence
<1>8. QED  BY <1>6, <1>7 DEF Diagnosis, a

----------------------------------------------------------------------------
(* The remembered rows.                                                    *)

LEMMA DepthFacts ==
    /\ EntryPersistence \in Nat \ {0} /\ ExitPersistence \in Nat \ {0}
    /\ Depth \in Nat \ {0} /\ EntryPersistence <= Depth /\ ExitPersistence <= Depth
BY SessionAssumption DEF Depth

(* One more row: the streaks at the end are those of before, and it. *)
LEMMA RecentFacts ==
    ASSUME NEW S, NEW s \in Seq(S), Len(s) <= Depth, NEW x \in S
    PROVE  /\ Recent(s, x) \in Seq(S) /\ Len(Recent(s, x)) <= Depth
           /\ Len(Recent(s, x)) >= 1 /\ Recent(s, x)[Len(Recent(s, x))] = x
           /\ \A T : \A k \in 0 .. Depth - 1 :
                LastIn(Recent(s, x), k + 1, T) <=> x \in T /\ LastIn(s, k, T)
<1> DEFINE t == Recent(s, x)
           n == Len(s)
           N == Len(t)
<1>1. Depth \in Nat \ {0} /\ n \in Nat /\ n <= Depth  BY DepthFacts
<1>2. /\ t \in Seq(S) /\ N \in Nat /\ N <= Depth /\ N >= 1 /\ t[N] = x
      /\ \A i \in 1 .. N - 1 : t[i] = s[i + (n + 1 - N)]
      /\ N = n + 1 \/ (N = n /\ n = Depth)
  <2>1. CASE n < Depth
    <3>1. t = Append(s, x)  BY <2>1 DEF Recent
    <3>2. t \in Seq(S) /\ N = n + 1 /\ t[N] = x /\ \A i \in 1 .. n : t[i] = s[i]
      BY <3>1
    <3>3. \A i \in 1 .. N - 1 : t[i] = s[i + (n + 1 - N)]  BY <1>1, <3>2
    <3>4. QED  BY <1>1, <2>1, <3>2, <3>3
  <2>2. CASE ~ (n < Depth)
    <3>1. t = Append(Tail(s), x)  BY <2>2 DEF Recent
    <3>2. n = Depth  BY <1>1, <2>2
    <3>3. Tail(s) \in Seq(S) /\ Len(Tail(s)) = n - 1
          /\ \A i \in 1 .. n - 1 : Tail(s)[i] = s[i + 1]
      BY <1>1, <3>2
    <3>4. t \in Seq(S) /\ N = n /\ t[N] = x /\ \A i \in 1 .. n - 1 : t[i] = s[i + 1]
      BY <1>1, <3>1, <3>2, <3>3
    <3>5. \A i \in 1 .. N - 1 : t[i] = s[i + (n + 1 - N)]  BY <1>1, <3>4
    <3>6. QED  BY <1>1, <3>2, <3>4, <3>5
  <2>3. QED  BY <2>1, <2>2
<1> HIDE DEF t, N, n
<1>3. ASSUME NEW T, NEW k \in 0 .. Depth - 1
      PROVE  (N >= k + 1 /\ \A i \in N - (k + 1) + 1 .. N : t[i] \in T)
               <=> x \in T /\ (n >= k /\ \A i \in n - k + 1 .. n : s[i] \in T)
  <2>1. k \in Nat /\ k + 1 <= Depth  BY <1>1
  <2>2. N >= k + 1 <=> n >= k  BY <1>1, <1>2, <2>1
  <2>3. ASSUME n >= k, \A i \in N - (k + 1) + 1 .. N : t[i] \in T
        PROVE  x \in T /\ \A i \in n - k + 1 .. n : s[i] \in T
    <3>1. x \in T
      <4>1. N \in N - (k + 1) + 1 .. N  BY <1>2, <2>1
      <4>2. QED  BY <1>2, <2>3, <4>1
    <3>2. ASSUME NEW i \in n - k + 1 .. n PROVE s[i] \in T
      <4> DEFINE j == i - (n + 1 - N)
      <4>1. j \in 1 .. N - 1 /\ j \in N - (k + 1) + 1 .. N /\ j + (n + 1 - N) = i
        BY <1>1, <1>2, <2>1, <2>2, <2>3
      <4> HIDE DEF j
      <4>2. QED  BY <1>2, <2>3, <4>1
    <3>3. QED  BY <3>1, <3>2
  <2>4. ASSUME n >= k, x \in T, \A i \in n - k + 1 .. n : s[i] \in T
        PROVE  \A i \in N - (k + 1) + 1 .. N : t[i] \in T
    <3> TAKE i \in N - (k + 1) + 1 .. N
    <3>1. CASE i = N  BY <1>2, <2>4, <3>1
    <3>2. CASE i # N
      <4> DEFINE j == i + (n + 1 - N)
      <4>1. i \in 1 .. N - 1 /\ j \in n - k + 1 .. n
        BY <1>1, <1>2, <2>1, <2>2, <2>4, <3>2
      <4>2. t[i] = s[j]  BY <1>2, <4>1
      <4> HIDE DEF j
      <4>3. QED  BY <2>4, <4>1, <4>2
    <3>3. QED  BY <3>1, <3>2
  <2>5. QED  BY <2>2, <2>3, <2>4
<1>4. QED  BY <1>2, <1>3 DEF LastIn, N, n, t

(* A streak of zero rows is always there. *)
LEMMA NoStreak ==
    ASSUME NEW S, NEW s \in Seq(S), NEW T
    PROVE  LastIn(s, 0, T)
BY DEF LastIn

(* The streaks of the properties are streaks in the sets of rows. *)
LEMMA StreaksAreSets ==
    ASSUME NEW s \in Seq(Row), NEW n \in Nat, NEW c
    PROVE  /\ Streak(s, n, LAMBDA r : SpeaksFor(r, c)) <=> LastIn(s, n, For(c))
           /\ Streak(s, n, LAMBDA r : SpeaksFor(r, c) /\ ~ SpeaksForHealth(r))
                <=> LastIn(s, n, OnlyFor(c))
           /\ Streak(s, n, SpeaksForHealth) <=> LastIn(s, n, Healthful)
<1>1. Len(s) >= n => \A i \in Len(s) - n + 1 .. Len(s) : s[i] \in Row
  <2> SUFFICES ASSUME Len(s) >= n, NEW i \in Len(s) - n + 1 .. Len(s) PROVE s[i] \in Row
    OBVIOUS
  <2>1. i \in 1 .. Len(s)  OBVIOUS
  <2>2. QED  BY <2>1
<1>2. Streak(s, n, LAMBDA r : SpeaksFor(r, c)) <=> LastIn(s, n, For(c))
  BY <1>1 DEF Streak, LastIn, For
<1>3. Streak(s, n, LAMBDA r : SpeaksFor(r, c) /\ ~ SpeaksForHealth(r))
        <=> LastIn(s, n, OnlyFor(c))
  BY <1>1 DEF Streak, LastIn, OnlyFor
<1>4. Streak(s, n, SpeaksForHealth) <=> LastIn(s, n, Healthful)
  BY <1>1 DEF Streak, LastIn, Healthful
<1>5. QED  BY <1>2, <1>3, <1>4

----------------------------------------------------------------------------
(* One step of the alert state machine.                                    *)

(* CountersMatchState, of any machine. *)
Counters(m) ==
    /\ m.confirmed = None => m.exitStreak = 0 /\ m.switch = None
    /\ m.confirmed # None => m.pending = None /\ m.pendingStreak = 0
    /\ m.pendingStreak < EntryPersistence
    /\ m.switchStreak < EntryPersistence
    /\ m.exitStreak < ExitPersistence
    /\ m.pending = None <=> m.pendingStreak = 0
    /\ m.switch = None <=> m.switchStreak = 0

Sane(m) ==
    /\ m \in Machine /\ Counters(m)
    /\ m.confirmed # Healthy /\ m.pending # Healthy /\ m.switch # Healthy

(* What a stored streak has grown from. *)
PendingGrows(m, row, n) ==
    n.pending # None =>
      /\ row \in For(n.pending)
      /\ \/ n.pendingStreak = 1
         \/ n.pending = m.pending /\ n.pendingStreak = m.pendingStreak + 1
SwitchGrows(m, row, n) ==
    n.switch # None =>
      /\ row \in For(n.switch)
      /\ \/ n.switchStreak = 1
         \/ n.switch = m.switch /\ n.switchStreak = m.switchStreak + 1
ExitGrows(m, row, n) ==
    \/ n.exitStreak = 0
    \/ n.exitStreak = m.exitStreak + 1 /\ row \in Healthful

(* What an event takes. *)
RaisedByStreak(m, row, e) ==
    e.type = "new_alert" =>
      /\ row \in For(e.class)
      /\ \/ EntryPersistence = 1
         \/ m.pending = e.class /\ EntryPersistence = m.pendingStreak + 1
SwitchedByStreak(m, row, e) ==
    e.type = "class_change" =>
      /\ row \in For(e.class)
      /\ \/ EntryPersistence = 1
         \/ m.switch = e.class /\ EntryPersistence = m.switchStreak + 1
ClearedByStreak(m, row, e) ==
    e.type = "cleared" => row \in Healthful /\ ExitPersistence = m.exitStreak + 1

(* A row for one class only is counted. *)
CountsOn(m, row, n) ==
    \A c \in Faulty : \A k \in 0 .. EntryPersistence - 1 :
      row \in OnlyFor(c) /\ (k = 0 \/ Counted(m, c, k)) => Counted(n, c, k + 1)

(* The event says where the machine goes. *)
Moves(m, n, e) ==
    /\ e = NoEvent => n.confirmed = m.confirmed
    /\ e # NoEvent => e.type # "none" /\ e.class \in Class
    /\ e.type \in {"new_alert", "class_change"} => e.class \in Faulty /\ n.confirmed = e.class
    /\ e.type = "cleared" => n.confirmed = None

GoodStep(m, row, n, e) ==
    /\ Sane(n) /\ e \in Event
    /\ PendingGrows(m, row, n) /\ SwitchGrows(m, row, n) /\ ExitGrows(m, row, n)
    /\ RaisedByStreak(m, row, e) /\ SwitchedByStreak(m, row, e)
    /\ ClearedByStreak(m, row, e)
    /\ CountsOn(m, row, n) /\ Moves(m, n, e)

LEMMA RowMeans ==
    ASSUME NEW row \in Row, Valid(row)
    PROVE  /\ Diagnosis(row) \in Class
           /\ Qualifies(Config, row) => Diagnosis(row) \in Faulty /\ row \in For(Diagnosis(row))
           /\ \A c \in Faulty : row \in OnlyFor(c) =>
                /\ Qualifies(Config, row) /\ Diagnosis(row) = c
                /\ ~ HealthyEvidence(Config, row)
           /\ HealthyEvidence(Config, row) => row \in Healthful
<1>1. Diagnosis(row) \in Class
  BY ArgmaxIsFirst, RowFacts, ClassFacts DEF Diagnosis
<1>2. Config.entryProbability = EntryProbability  BY DEF Config, StateMachineConfig
<1>3. Qualifies(Config, row) => Diagnosis(row) \in Faulty /\ row \in For(Diagnosis(row))
  BY <1>1, <1>2, SpeaksForMeans DEF Qualifies, Faulty, For
<1>4. ASSUME NEW c \in Faulty, row \in OnlyFor(c)
      PROVE  Qualifies(Config, row) /\ Diagnosis(row) = c /\ ~ HealthyEvidence(Config, row)
  BY <1>2, <1>4, SpeaksForMeans, HealthMeans DEF Qualifies, Faulty, OnlyFor
<1>5. QED  BY <1>1, <1>3, <1>4, HealthMeans DEF Healthful

LEMMA FreshFacts ==
    /\ Sane(FreshMachine)
    /\ FreshMachine.confirmed = None /\ FreshMachine.pending = None
    /\ FreshMachine.exitStreak = 0 /\ FreshMachine.switch = None
    /\ FreshMachine.pendingStreak = 0 /\ FreshMachine.switchStreak = 0
<1>1. None # Healthy  BY MachineAssumption
<1>2. FreshMachine \in Machine  BY DEF FreshMachine, Machine, MaybeClass
<1>3. QED  BY <1>1, <1>2, DepthFacts DEF FreshMachine, Sane, Counters

LEMMA ConfirmedFacts ==
    ASSUME NEW c \in Faulty
    PROVE  /\ Sane(Confirmed(c))
           /\ Confirmed(c).confirmed = c /\ Confirmed(c).pending = None
           /\ Confirmed(c).exitStreak = 0 /\ Confirmed(c).switch = None
<1>1. None # Healthy /\ c # None /\ c # Healthy /\ c \in MaybeClass
  BY MachineAssumption DEF Faulty, MaybeClass
<1>2. Confirmed(c) = [confirmed |-> c, pending |-> None, pendingStreak |-> 0,
                      exitStreak |-> 0, switch |-> None, switchStreak |-> 0]
  BY DEF Confirmed, FreshMachine
<1>3. Confirmed(c) \in Machine  BY <1>1, <1>2 DEF Machine, MaybeClass
<1>4. QED  BY <1>1, <1>2, <1>3, DepthFacts DEF Sane, Counters

LEMMA EventFacts ==
    ASSUME NEW type \in {"new_alert", "class_change", "cleared"}, NEW c \in Class
    PROVE  /\ AlertEvent(type, c) \in Event
           /\ AlertEvent(type, c).type = type /\ AlertEvent(type, c).class = c
           /\ AlertEvent(type, c) # NoEvent
           /\ NoEvent \in Event /\ NoEvent.type = "none"
<1>1. AlertEvent(type, c) \in Event  BY DEF AlertEvent, Event, MaybeClass
<1>2. NoEvent \in Event /\ NoEvent.type = "none"  BY DEF NoEvent, Event, MaybeClass
<1>3. AlertEvent(type, c).type = type /\ AlertEvent(type, c).class = c  BY DEF AlertEvent
<1>4. QED  BY <1>1, <1>2, <1>3

(* The streak of a pending or a switched class, one row later. *)
LEMMA ExtendFacts ==
    ASSUME NEW c, NEW class, NEW streak \in Nat
    PROVE  /\ Extend(c, class, streak) \in Nat \ {0}
           /\ Extend(c, class, streak) = 1 \/ (c = class /\ Extend(c, class, streak) = streak + 1)
           /\ c = class => Extend(c, class, streak) = streak + 1
BY DEF Extend

LEMMA StepFromHealthy ==
    ASSUME NEW m, Sane(m), m.confirmed = None, NEW row \in Row, Valid(row)
    PROVE  GoodStep(m, row, StepHealthy(Config, m, row).machine,
                    StepHealthy(Config, m, row).event)
<1> DEFINE d == Diagnosis(row)
           q == Qualifies(Config, row)
           x == Extend(d, m.pending, m.pendingStreak)
           s == StepHealthy(Config, m, row)
<1>1. m \in Machine /\ Counters(m) /\ m.pending # Healthy /\ m.switch # Healthy
  BY DEF Sane
<1>2. m.pendingStreak \in Nat /\ m.exitStreak \in Nat  BY <1>1 DEF Machine
<1>3. x \in Nat \ {0} /\ (x = 1 \/ (d = m.pending /\ x = m.pendingStreak + 1))
      /\ (d = m.pending => x = m.pendingStreak + 1)
  BY <1>2, ExtendFacts
<1>4. d \in Class /\ (q => d \in Faulty /\ row \in For(d))
      /\ \A c \in Faulty : row \in OnlyFor(c) => q /\ d = c
  BY RowMeans
<1>5. d # None /\ None # Healthy /\ (q => d # Healthy)  BY <1>4, MachineAssumption DEF Faulty
<1>6. EntryPersistence \in Nat \ {0} /\ Config.entryPersistence = EntryPersistence
  BY DepthFacts DEF Config, StateMachineConfig
<1>7. m.exitStreak = 0 /\ m.switch = None /\ m.switchStreak = 0
      /\ m.pendingStreak < EntryPersistence
  BY <1>1, <1>2 DEF Counters
<1>8. CASE ~ q
  <2> DEFINE n == [m EXCEPT !.pending = None, !.pendingStreak = 0]
  <2>1. s.machine = n /\ s.event = NoEvent
    BY <1>6, <1>8 DEF StepHealthy
  <2>2. n \in Machine /\ n.confirmed = None /\ n.pending = None /\ n.pendingStreak = 0
        /\ n.exitStreak = 0 /\ n.switch = None /\ n.switchStreak = 0
    BY <1>1, <1>7 DEF Machine, MaybeClass
  <2> HIDE DEF n, s, d, q, x
  <2>3. Sane(n)  BY <1>5, <2>2, DepthFacts DEF Sane, Counters
  <2>4. NoEvent \in Event /\ NoEvent.type = "none"  BY DEF NoEvent, Event, MaybeClass
  <2>5. PendingGrows(m, row, n) /\ SwitchGrows(m, row, n) /\ ExitGrows(m, row, n)
    BY <2>2 DEF PendingGrows, SwitchGrows, ExitGrows
  <2>6. CountsOn(m, row, n)  BY <1>4, <1>8 DEF CountsOn
  <2>7. Moves(m, n, NoEvent)  BY <2>2, <2>4 DEF Moves
  <2>8. QED
    BY <2>1, <2>3, <2>4, <2>5, <2>6, <2>7
    DEF s, GoodStep, RaisedByStreak, SwitchedByStreak, ClearedByStreak
<1>9. CASE q /\ x >= EntryPersistence
  <2> DEFINE n == Confirmed(d)
             e == AlertEvent("new_alert", d)
  <2>1. s.machine = n /\ s.event = e
    BY <1>5, <1>6, <1>9 DEF StepHealthy
  <2>2. Sane(n) /\ n.confirmed = d /\ n.pending = None /\ n.exitStreak = 0
        /\ n.switch = None
    BY <1>4, <1>9, ConfirmedFacts
  <2>3. e \in Event /\ e.type = "new_alert" /\ e.class = d /\ e # NoEvent
    BY <1>4, EventFacts
  <2> HIDE DEF n, e, s, d, q
  <2>4. PendingGrows(m, row, n) /\ SwitchGrows(m, row, n) /\ ExitGrows(m, row, n)
    BY <2>2 DEF PendingGrows, SwitchGrows, ExitGrows
  <2>5. RaisedByStreak(m, row, e)
    <3> HIDE DEF x
    <3>1. EntryPersistence = 1 \/ (m.pending = d /\ EntryPersistence = m.pendingStreak + 1)
      BY <1>2, <1>3, <1>6, <1>7, <1>9
    <3>2. QED  BY <1>4, <1>9, <2>3, <3>1 DEF RaisedByStreak
  <2>6. CountsOn(m, row, n)  BY <1>4, <2>2 DEF CountsOn, Counted
  <2>7. Moves(m, n, e)  BY <1>4, <1>9, <2>2, <2>3 DEF Moves
  <2>8. QED  BY <2>1, <2>2, <2>3, <2>4, <2>5, <2>6, <2>7
    DEF s, GoodStep, SwitchedByStreak, ClearedByStreak
<1>10. CASE q /\ ~ (x >= EntryPersistence)
  <2> DEFINE n == [m EXCEPT !.pending = d, !.pendingStreak = x]
  <2>1. s.machine = n /\ s.event = NoEvent
    BY <1>5, <1>6, <1>10 DEF StepHealthy
  <2> HIDE DEF s, d, q, x
  <2>2. n \in Machine /\ n.confirmed = None /\ n.pending = d /\ n.pendingStreak = x
        /\ n.exitStreak = 0 /\ n.switch = None /\ n.switchStreak = 0
    BY <1>1, <1>3, <1>4, <1>7 DEF Machine, MaybeClass
  <2> HIDE DEF n
  <2>3. Sane(n)
    <3>1. x < EntryPersistence /\ x # 0  BY <1>3, <1>6, <1>10
    <3>2. QED  BY <1>5, <1>10, <2>2, <3>1, DepthFacts DEF Sane, Counters
  <2>4. NoEvent \in Event /\ NoEvent.type = "none"  BY DEF NoEvent, Event, MaybeClass
  <2>5. PendingGrows(m, row, n)  BY <1>3, <1>4, <1>10, <2>2 DEF PendingGrows
  <2>6. SwitchGrows(m, row, n) /\ ExitGrows(m, row, n)  BY <2>2 DEF SwitchGrows, ExitGrows
  <2>7. CountsOn(m, row, n)
    <3> SUFFICES ASSUME NEW c \in Faulty, NEW k \in 0 .. EntryPersistence - 1,
                        row \in OnlyFor(c), k = 0 \/ Counted(m, c, k)
                 PROVE  Counted(n, c, k + 1)
      BY DEF CountsOn
    <3>1. d = c /\ c # None  BY <1>4, <1>5
    <3>2. x >= k + 1
      <4>1. CASE k = 0  BY <1>3, <4>1
      <4>2. CASE Counted(m, c, k)
        <5>1. m.pending = c /\ m.pendingStreak >= k  BY <3>1, <4>2 DEF Counted
        <5>2. QED  BY <1>2, <1>3, <1>6, <3>1, <5>1
      <4>3. QED  BY <4>1, <4>2
    <3>3. QED  BY <2>2, <3>1, <3>2 DEF Counted
  <2>8. Moves(m, n, NoEvent)  BY <2>2, <2>4 DEF Moves
  <2>9. QED
    BY <2>1, <2>3, <2>4, <2>5, <2>6, <2>7, <2>8
    DEF s, GoodStep, RaisedByStreak, SwitchedByStreak, ClearedByStreak
<1>11. QED  BY <1>8, <1>9, <1>10

LEMMA StepFromConfirmed ==
    ASSUME NEW m, Sane(m), m.confirmed # None, NEW row \in Row, Valid(row)
    PROVE  GoodStep(m, row, StepConfirmed(Config, m, row).machine,
                    StepConfirmed(Config, m, row).event)
<1> DEFINE d == Diagnosis(row)
           q == Qualifies(Config, row)
           cand == d # m.confirmed /\ q
           x == Extend(d, m.switch, m.switchStreak)
           y == ExitStreak(Config, m, row)
           s == StepConfirmed(Config, m, row)
<1>1. m \in Machine /\ Counters(m) /\ m.confirmed # Healthy /\ m.switch # Healthy
  BY DEF Sane
<1>2. m.switchStreak \in Nat /\ m.exitStreak \in Nat /\ m.confirmed \in Class
  BY <1>1 DEF Machine, MaybeClass
<1>3. x \in Nat \ {0} /\ (x = 1 \/ (d = m.switch /\ x = m.switchStreak + 1))
      /\ (d = m.switch => x = m.switchStreak + 1)
  BY <1>2, ExtendFacts
<1>4. d \in Class /\ (q => d \in Faulty /\ row \in For(d))
      /\ \A c \in Faulty : row \in OnlyFor(c) => q /\ d = c /\ ~ HealthyEvidence(Config, row)
  BY RowMeans
<1>5. d # None /\ None # Healthy /\ (q => d # Healthy)  BY <1>4, MachineAssumption DEF Faulty
<1>6. /\ EntryPersistence \in Nat \ {0} /\ Config.entryPersistence = EntryPersistence
      /\ ExitPersistence \in Nat \ {0} /\ Config.exitPersistence = ExitPersistence
  BY DepthFacts DEF Config, StateMachineConfig
<1>7. m.exitStreak < ExitPersistence /\ m.pending = None /\ m.pendingStreak = 0
      /\ m.switchStreak < EntryPersistence
  BY <1>1 DEF Counters
<1>8. /\ y \in Nat
      /\ y = 0 \/ (y = m.exitStreak + 1 /\ row \in Healthful)
      /\ \A c \in Faulty : row \in OnlyFor(c) => y = 0
  <2>1. HealthyEvidence(Config, row) => row \in Healthful  BY RowMeans
  <2>2. QED  BY <1>2, <1>4, <2>1 DEF ExitStreak
<1>9. Cleared(Config, m, row) <=> y >= ExitPersistence  BY <1>6 DEF Cleared
<1>10. CASE y >= ExitPersistence
  <2> DEFINE n == FreshMachine
             e == AlertEvent("cleared", m.confirmed)
  <2>1. s.machine = n /\ s.event = e  BY <1>9, <1>10 DEF StepConfirmed
  <2>2. Sane(n) /\ n.confirmed = None /\ n.pending = None /\ n.exitStreak = 0
        /\ n.switch = None
    BY FreshFacts
  <2>3. e \in Event /\ e.type = "cleared" /\ e.class = m.confirmed /\ e # NoEvent
    BY <1>2, EventFacts
  <2> HIDE DEF n, e, s, d, q, x, y
  <2>4. PendingGrows(m, row, n) /\ SwitchGrows(m, row, n) /\ ExitGrows(m, row, n)
    BY <2>2 DEF PendingGrows, SwitchGrows, ExitGrows
  <2>5. row \in Healthful /\ ExitPersistence = m.exitStreak + 1
    BY <1>2, <1>6, <1>7, <1>8, <1>10
  <2>6. CountsOn(m, row, n)
    <3>1. \A c \in Faulty : row \notin OnlyFor(c)  BY <1>6, <1>8, <1>10
    <3>2. QED  BY <3>1 DEF CountsOn
  <2>7. Moves(m, n, e)  BY <1>2, <2>2, <2>3 DEF Moves
  <2>8. QED
    BY <2>1, <2>2, <2>3, <2>4, <2>5, <2>6, <2>7
    DEF s, GoodStep, RaisedByStreak, SwitchedByStreak, ClearedByStreak
<1>11. CASE ~ (y >= ExitPersistence) /\ cand /\ x >= EntryPersistence
  <2> DEFINE n == Confirmed(d)
             e == AlertEvent("class_change", d)
  <2>1. s.machine = n /\ s.event = e
    BY <1>5, <1>6, <1>9, <1>11 DEF StepConfirmed
  <2>2. Sane(n) /\ n.confirmed = d /\ n.pending = None /\ n.exitStreak = 0
        /\ n.switch = None
    BY <1>4, <1>11, ConfirmedFacts
  <2>3. e \in Event /\ e.type = "class_change" /\ e.class = d /\ e # NoEvent
    BY <1>4, EventFacts
  <2> HIDE DEF n, e, s, d, q, x, y
  <2>4. PendingGrows(m, row, n) /\ SwitchGrows(m, row, n) /\ ExitGrows(m, row, n)
    BY <2>2 DEF PendingGrows, SwitchGrows, ExitGrows
  <2>5. CountsOn(m, row, n)  BY <1>4, <2>2 DEF CountsOn, Counted
  <2>6. Moves(m, n, e)  BY <1>4, <1>11, <2>2, <2>3 DEF Moves
  <2>7. SwitchedByStreak(m, row, e)
    <3>1. row \in For(d)  BY <1>4, <1>11
    <3> HIDE DEF cand
    <3>2. EntryPersistence = 1 \/ (m.switch = d /\ EntryPersistence = m.switchStreak + 1)
      BY <1>2, <1>3, <1>6, <1>7, <1>11
    <3>3. QED  BY <2>3, <3>1, <3>2 DEF SwitchedByStreak
  <2>8. QED
    BY <2>1, <2>2, <2>3, <2>4, <2>5, <2>6, <2>7 DEF s, GoodStep, RaisedByStreak, ClearedByStreak
<1>12. CASE ~ (y >= ExitPersistence) /\ ~ (cand /\ x >= EntryPersistence)
  <2> DEFINE sw == IF cand THEN d ELSE None
             st == IF cand THEN x ELSE 0
             n == [m EXCEPT !.exitStreak = y, !.switch = sw, !.switchStreak = st]
  <2>1. s.machine = n /\ s.event = NoEvent
    <3>1. ~ Cleared(Config, m, row)  BY <1>9, <1>12
    <3>2. CASE cand  BY <1>5, <1>6, <1>12, <3>1, <3>2 DEF StepConfirmed
    <3>3. CASE ~ cand  BY <1>5, <1>6, <1>12, <3>1, <3>3 DEF StepConfirmed
    <3>4. QED  BY <3>2, <3>3
  <2>2. /\ sw \in MaybeClass /\ sw # Healthy /\ st \in Nat /\ st < EntryPersistence
        /\ sw = None <=> st = 0
        /\ y < ExitPersistence
    <3> HIDE DEF x, y, d, q
    <3>1. y < ExitPersistence  BY <1>6, <1>8, <1>12
    <3>2. CASE cand
      <4>1. x < EntryPersistence /\ x # 0  BY <1>3, <1>6, <1>12, <3>2
      <4>2. QED  BY <1>3, <1>4, <1>5, <3>1, <3>2, <4>1 DEF MaybeClass
    <3>3. CASE ~ cand  BY <1>5, <1>6, <3>1, <3>3 DEF MaybeClass
    <3>4. QED  BY <3>2, <3>3
  <2> HIDE DEF sw, st, s, x, y, d, q
  <2>3. n \in Machine /\ n.confirmed = m.confirmed /\ n.pending = None /\ n.pendingStreak = 0
        /\ n.exitStreak = y /\ n.switch = sw /\ n.switchStreak = st
    BY <1>1, <1>7, <1>8, <2>2 DEF Machine
  <2> HIDE DEF n
  <2>4. Sane(n)  BY <1>1, <1>5, <1>6, <2>2, <2>3 DEF Sane, Counters
  <2>5. NoEvent \in Event /\ NoEvent.type = "none"  BY DEF NoEvent, Event, MaybeClass
  <2>6. PendingGrows(m, row, n) /\ SwitchGrows(m, row, n) /\ ExitGrows(m, row, n)
    <3>1. SwitchGrows(m, row, n)
      <4>1. CASE cand  BY <1>3, <1>4, <2>3, <4>1 DEF SwitchGrows, sw, st
      <4>2. CASE ~ cand  BY <2>3, <4>2 DEF SwitchGrows, sw
      <4>3. QED  BY <4>1, <4>2
    <3>2. QED  BY <1>8, <2>3, <3>1 DEF PendingGrows, ExitGrows
  <2>7. CountsOn(m, row, n)
    <3> SUFFICES ASSUME NEW c \in Faulty, NEW k \in 0 .. EntryPersistence - 1,
                        row \in OnlyFor(c), k = 0 \/ Counted(m, c, k), m.confirmed # c
                 PROVE  Counted(n, c, k + 1)
      BY <2>3 DEF CountsOn, Counted
    <3>1. d = c /\ cand /\ sw = c /\ st = x  BY <1>4 DEF sw, st
    <3>2. x >= k + 1
      <4>1. CASE k = 0  BY <1>3, <4>1
      <4>2. CASE Counted(m, c, k)
        <5>1. m.switch = c /\ m.switchStreak >= k  BY <4>2 DEF Counted
        <5>2. QED  BY <1>2, <1>3, <1>6, <3>1, <5>1
      <4>3. QED  BY <4>1, <4>2
    <3>3. QED  BY <2>3, <3>1, <3>2 DEF Counted
  <2>8. Moves(m, n, NoEvent)  BY <2>3, <2>5 DEF Moves
  <2>9. QED
    BY <2>1, <2>4, <2>5, <2>6, <2>7, <2>8 DEF s, GoodStep, RaisedByStreak, SwitchedByStreak, ClearedByStreak
<1>13. QED  BY <1>10, <1>11, <1>12

LEMMA EveryRowIsAGoodStep ==
    ASSUME NEW m, Sane(m), NEW row \in Row, Valid(row)
    PROVE  GoodStep(m, row, StepStateMachine(Config, m, row).machine,
                    StepStateMachine(Config, m, row).event)
<1>1. CASE m.confirmed = None  BY <1>1, StepFromHealthy DEF StepStateMachine
<1>2. CASE m.confirmed # None  BY <1>2, StepFromConfirmed DEF StepStateMachine
<1>3. QED  BY <1>1, <1>2

(* A row that is not valid ends a pending streak and changes nothing else. *)
LEMMA InsufficientStep ==
    ASSUME NEW m, Sane(m)
    PROVE  LET n == StepStateMachine(Config, m, Insufficient).machine
           IN /\ Sane(n) /\ n.confirmed = m.confirmed /\ n.exitStreak = m.exitStreak
              /\ n.pending = None /\ n.switch = m.switch /\ n.switchStreak = m.switchStreak
<1> DEFINE n == StepStateMachine(Config, m, Insufficient).machine
<1>1. n = StepInvalid(m).machine  BY DEF StepStateMachine, Valid
<1>2. m \in Machine  BY DEF Sane
<1>3. None # Healthy  BY MachineAssumption
<1>4. CASE m.confirmed = None
  <2> DEFINE k == [m EXCEPT !.pending = None, !.pendingStreak = 0]
  <2>1. n = k  BY <1>1, <1>4 DEF StepInvalid
  <2>2. k \in Machine /\ k.confirmed = None /\ k.exitStreak = m.exitStreak
        /\ k.pending = None /\ k.pendingStreak = 0
        /\ k.switch = m.switch /\ k.switchStreak = m.switchStreak
    BY <1>2, <1>4 DEF Machine, MaybeClass
  <2> HIDE DEF k, n
  <2>3. Sane(k)  BY <1>3, <1>4, <2>2, DepthFacts DEF Sane, Counters
  <2>4. QED  BY <1>4, <2>1, <2>2, <2>3 DEF n
<1>5. CASE m.confirmed # None
  <2>1. n = m  BY <1>1, <1>5 DEF StepInvalid
  <2>2. m.pending = None  BY <1>5 DEF Sane, Counters
  <2>3. QED  BY <2>1, <2>2
<1>6. QED  BY <1>4, <1>5

----------------------------------------------------------------------------
(* The session.                                                            *)

LEMMA SessionIsSane ==
    ASSUME SessionInv
    PROVE  Sane(machine)
<1>1. machine \in Machine /\ Counters(machine)
  BY DEF SessionInv, Typed, CountersMatchState, Counters
<1>2. None # Healthy  BY MachineAssumption
<1>3. QED  BY <1>1, <1>2 DEF SessionInv, PendingIsStreak, NeverHealthy, Sane

LEMMA SaneNext ==
    ASSUME Sane(machine')
    PROVE  machine' \in Machine /\ CountersMatchState' /\ NeverHealthy'
BY DEF Sane, Counters, CountersMatchState, NeverHealthy

LEMMA TrimmedFacts ==
    ASSUME samples \in 0 .. Window
    PROVE  Trimmed(samples) \in 0 .. Window
BY SessionAssumption DEF Trimmed

LEMMA SessionInit ==
    ASSUME Init
    PROVE  SessionInv
<1>1. machine = FreshMachine /\ rows = <<>> /\ good = <<>> /\ event = NoEvent
      /\ status = "none" /\ samples = 0
  BY DEF Init
<1>2. Sane(machine) /\ machine.pending = None /\ machine.exitStreak = 0
      /\ machine.switch = None
  BY <1>1, FreshFacts
<1>3. NoEvent \in Event /\ NoEvent.type = "none"  BY DEF NoEvent, Event, MaybeClass
<1>4. rows \in Seq(Row) /\ good \in Seq(Row) /\ Len(rows) = 0 /\ Len(good) = 0  BY <1>1
<1>5. Typed
  BY <1>1, <1>2, <1>3, <1>4, DepthFacts, SessionAssumption DEF Typed, Sane
<1>6. CountersMatchState /\ NeverHealthy
  BY <1>2 DEF Sane, Counters, CountersMatchState, NeverHealthy
<1>7. PendingIsStreak /\ SwitchIsStreak /\ ExitIsStreak
  BY <1>2, <1>4, NoStreak DEF PendingIsStreak, SwitchIsStreak, ExitIsStreak
<1>8. StreakIsCounted  BY <1>4, DepthFacts DEF StreakIsCounted, LastIn
<1>9. NewAlertNeedsStreak /\ SwitchNeedsStreak /\ ClearNeedsHealthyRows
      /\ EvidenceNamesDiagnosis
  BY <1>1, <1>3
  DEF NewAlertNeedsStreak, SwitchNeedsStreak, ClearNeedsHealthyRows, EvidenceNamesDiagnosis
<1>10. QED  BY <1>5, <1>6, <1>7, <1>8, <1>9 DEF SessionInv

LEMMA SessionReset ==
    ASSUME SessionInv, Reset
    PROVE  SessionInv'
<1>1. machine' = FreshMachine /\ rows' = <<>> /\ good' = <<>> /\ event' = NoEvent
      /\ status' = "none" /\ samples' = 0
  BY DEF Reset
<1>2. Sane(machine') /\ machine'.pending = None /\ machine'.exitStreak = 0
      /\ machine'.switch = None
  BY <1>1, FreshFacts
<1>3. NoEvent \in Event /\ NoEvent.type = "none"  BY DEF NoEvent, Event, MaybeClass
<1>4. rows' \in Seq(Row) /\ good' \in Seq(Row) /\ Len(rows') = 0 /\ Len(good') = 0  BY <1>1
<1>5. Typed'
  BY <1>1, <1>2, <1>3, <1>4, DepthFacts, SessionAssumption DEF Typed, Sane
<1>6. CountersMatchState' /\ NeverHealthy'  BY <1>2, SaneNext
<1>7. PendingIsStreak' /\ SwitchIsStreak' /\ ExitIsStreak'
  BY <1>2, <1>4, NoStreak DEF PendingIsStreak, SwitchIsStreak, ExitIsStreak
<1>8. StreakIsCounted'  BY <1>4, DepthFacts DEF StreakIsCounted, LastIn
<1>9. NewAlertNeedsStreak' /\ SwitchNeedsStreak' /\ ClearNeedsHealthyRows'
      /\ EvidenceNamesDiagnosis'
  BY <1>1, <1>3
  DEF NewAlertNeedsStreak, SwitchNeedsStreak, ClearNeedsHealthyRows, EvidenceNamesDiagnosis
<1>10. QED  BY <1>5, <1>6, <1>7, <1>8, <1>9 DEF SessionInv

LEMMA SessionWarmUp ==
    ASSUME SessionInv, WarmUp
    PROVE  SessionInv'
<1>1. machine' = machine /\ rows' = rows /\ good' = good /\ event' = NoEvent
      /\ status' = "warming_up" /\ samples' = Trimmed(samples)
  BY DEF WarmUp
<1>2. NoEvent \in Event /\ NoEvent.type = "none"  BY DEF NoEvent, Event, MaybeClass
<1>3. samples' \in 0 .. Window  BY <1>1, TrimmedFacts DEF SessionInv, Typed
<1>4. Typed'  BY <1>1, <1>2, <1>3 DEF SessionInv, Typed
<1>5. /\ CountersMatchState' /\ NeverHealthy' /\ PendingIsStreak' /\ SwitchIsStreak'
      /\ ExitIsStreak' /\ StreakIsCounted'
  BY <1>1
  DEF SessionInv, CountersMatchState, NeverHealthy, PendingIsStreak, SwitchIsStreak,
      ExitIsStreak, StreakIsCounted
<1>6. NewAlertNeedsStreak' /\ SwitchNeedsStreak' /\ ClearNeedsHealthyRows'
      /\ EvidenceNamesDiagnosis'
  BY <1>1, <1>2
  DEF NewAlertNeedsStreak, SwitchNeedsStreak, ClearNeedsHealthyRows, EvidenceNamesDiagnosis
<1>7. QED  BY <1>4, <1>5, <1>6 DEF SessionInv

LEMMA SessionInsufficient ==
    ASSUME SessionInv, IngestInsufficient
    PROVE  SessionInv' /\ machine'.confirmed = machine.confirmed
<1>1. /\ machine' = StepStateMachine(Config, machine, Insufficient).machine
      /\ rows' = Recent(rows, Insufficient) /\ good' = good /\ event' = NoEvent
      /\ status' = "insufficient_data" /\ samples' = Trimmed(samples)
  BY DEF IngestInsufficient
<1>2. /\ Sane(machine') /\ machine'.confirmed = machine.confirmed
      /\ machine'.exitStreak = machine.exitStreak /\ machine'.pending = None
      /\ machine'.switch = machine.switch /\ machine'.switchStreak = machine.switchStreak
  BY <1>1, SessionIsSane, InsufficientStep
<1>3. NoEvent \in Event /\ NoEvent.type = "none"  BY DEF NoEvent, Event, MaybeClass
<1>4. samples' \in 0 .. Window  BY <1>1, TrimmedFacts DEF SessionInv, Typed
<1>5. Insufficient \in Row /\ \A c : Insufficient \notin OnlyFor(c)
  BY DEF Row, OnlyFor, SpeaksFor, Valid
<1>6. /\ rows' \in Seq(Row) /\ Len(rows') <= Depth
      /\ \A T : \A k \in 0 .. Depth - 1 :
           LastIn(rows', k + 1, T) <=> Insufficient \in T /\ LastIn(rows, k, T)
  BY <1>1, <1>5, RecentFacts DEF SessionInv, Typed
<1>7. Typed'  BY <1>1, <1>2, <1>3, <1>4, <1>6 DEF SessionInv, Typed, Sane
<1>8. CountersMatchState' /\ NeverHealthy'  BY <1>2, SaneNext
<1>9. PendingIsStreak' /\ SwitchIsStreak' /\ ExitIsStreak'
  BY <1>1, <1>2 DEF SessionInv, PendingIsStreak, SwitchIsStreak, ExitIsStreak
<1>10. StreakIsCounted'
  <2> SUFFICES ASSUME NEW c \in Faulty, NEW k \in 1 .. EntryPersistence,
                      LastIn(rows', k, OnlyFor(c))
               PROVE  FALSE
    BY DEF StreakIsCounted
  <2>1. k - 1 \in 0 .. Depth - 1 /\ (k - 1) + 1 = k  BY DepthFacts
  <2>2. LastIn(rows', (k - 1) + 1, OnlyFor(c))  BY <2>1
  <2>3. QED  BY <1>5, <1>6, <2>1, <2>2
<1>11. NewAlertNeedsStreak' /\ SwitchNeedsStreak' /\ ClearNeedsHealthyRows'
      /\ EvidenceNamesDiagnosis'
  BY <1>1, <1>3
  DEF NewAlertNeedsStreak, SwitchNeedsStreak, ClearNeedsHealthyRows, EvidenceNamesDiagnosis
<1>12. QED  BY <1>2, <1>7, <1>8, <1>9, <1>10, <1>11 DEF SessionInv

LEMMA SessionRow ==
    ASSUME SessionInv, NEW row \in Predictions, IngestRow(row)
    PROVE  SessionInv' /\ Moves(machine, machine', event')
<1>1. /\ machine' = StepStateMachine(Config, machine, row).machine
      /\ event' = StepStateMachine(Config, machine, row).event
      /\ evidence' = Evidence(row, machine')
      /\ rows' = Recent(rows, row) /\ good' = Recent(good, row)
      /\ status' = "valid_prediction" /\ samples' = Trimmed(samples)
  BY DEF IngestRow
<1>2. row \in Row /\ Valid(row)
  BY SessionAssumption, InsufficientAssumption DEF Row, Valid
<1>3. GoodStep(machine, row, machine', event')
  BY <1>1, <1>2, SessionIsSane, EveryRowIsAGoodStep
<1>4. /\ Sane(machine') /\ event' \in Event
      /\ PendingGrows(machine, row, machine') /\ SwitchGrows(machine, row, machine')
      /\ ExitGrows(machine, row, machine')
      /\ RaisedByStreak(machine, row, event') /\ SwitchedByStreak(machine, row, event')
      /\ ClearedByStreak(machine, row, event')
      /\ CountsOn(machine, row, machine') /\ Moves(machine, machine', event')
  BY <1>3 DEF GoodStep
<1>5. /\ machine.pendingStreak \in Nat /\ machine.pendingStreak < EntryPersistence
      /\ machine.exitStreak \in Nat /\ machine.exitStreak < ExitPersistence
      /\ machine.switchStreak \in Nat /\ machine.switchStreak < EntryPersistence
  BY DEF SessionInv, Typed, Machine, CountersMatchState
<1>6. /\ rows \in Seq(Row) /\ rows' \in Seq(Row) /\ Len(rows') <= Depth
      /\ \A T : \A k \in 0 .. Depth - 1 :
           LastIn(rows', k + 1, T) <=> row \in T /\ LastIn(rows, k, T)
  BY <1>1, <1>2, RecentFacts DEF SessionInv, Typed
<1>7. /\ good \in Seq(Row) /\ good' \in Seq(Row) /\ Len(good') <= Depth
      /\ good'[Len(good')] = row
      /\ \A T : \A k \in 0 .. Depth - 1 :
           LastIn(good', k + 1, T) <=> row \in T /\ LastIn(good, k, T)
  <2>1. good \in Seq(Row) /\ Len(good) <= Depth  BY DEF SessionInv, Typed
  <2> DEFINE t == Recent(good, row)
  <2>2. /\ t \in Seq(Row) /\ Len(t) <= Depth /\ t[Len(t)] = row
        /\ \A T : \A k \in 0 .. Depth - 1 :
             LastIn(t, k + 1, T) <=> row \in T /\ LastIn(good, k, T)
    BY <1>2, <2>1, RecentFacts
  <2> HIDE DEF t
  <2>3. good' = t  BY <1>1 DEF t
  <2>4. QED  BY <2>1, <2>2, <2>3
<1>8. \A T : /\ row \in T => LastIn(rows', 1, T) /\ LastIn(good', 1, T)
             /\ LastIn(good', 0, T) /\ LastIn(good, 0, T)
  <2> TAKE T
  <2>1. 0 \in 0 .. Depth - 1 /\ 0 + 1 = 1  BY DepthFacts
  <2>2. LastIn(rows, 0, T) /\ LastIn(good', 0, T) /\ LastIn(good, 0, T)
    BY <1>6, <1>7, NoStreak
  <2>3. row \in T => LastIn(rows', 1, T)  BY <1>6, <2>1, <2>2
  <2>4. row \in T => LastIn(good', 1, T)  BY <1>7, <2>1, <2>2
  <2>5. QED  BY <2>2, <2>3, <2>4
<1>9. /\ machine.pendingStreak \in 0 .. Depth - 1 /\ machine.exitStreak \in 0 .. Depth - 1
      /\ machine.switchStreak \in 0 .. Depth - 1
  BY <1>5, DepthFacts
<1>10. Typed'
  <2>1. samples' \in 0 .. Window  BY <1>1, TrimmedFacts DEF SessionInv, Typed
  <2>2. QED  BY <1>1, <1>4, <1>6, <1>7, <2>1 DEF Typed, Sane
<1>11. CountersMatchState' /\ NeverHealthy'  BY <1>4, SaneNext
<1>12. PendingIsStreak'
  <2> SUFFICES ASSUME machine'.pending # None
               PROVE  /\ machine'.pending # Healthy
                      /\ LastIn(rows', machine'.pendingStreak, For(machine'.pending))
    BY DEF PendingIsStreak
  <2>1. machine'.pending # Healthy  BY <1>4 DEF Sane
  <2>2. row \in For(machine'.pending)  BY <1>4 DEF PendingGrows
  <2>3. CASE machine'.pendingStreak = 1  BY <1>8, <2>1, <2>2, <2>3
  <2>4. CASE machine'.pending = machine.pending
             /\ machine'.pendingStreak = machine.pendingStreak + 1
    <3>1. LastIn(rows, machine.pendingStreak, For(machine'.pending))
      BY <2>4 DEF SessionInv, PendingIsStreak
    <3>2. QED  BY <1>6, <1>9, <2>1, <2>2, <2>4, <3>1
  <2>5. QED  BY <1>4, <2>3, <2>4 DEF PendingGrows
<1>13. ExitIsStreak'
  <2>1. CASE machine'.exitStreak = 0  BY <1>8, <2>1 DEF ExitIsStreak
  <2>2. CASE machine'.exitStreak = machine.exitStreak + 1 /\ row \in Healthful
    <3>1. LastIn(good, machine.exitStreak, Healthful)  BY DEF SessionInv, ExitIsStreak
    <3>2. QED  BY <1>7, <1>9, <2>2, <3>1 DEF ExitIsStreak
  <2>3. QED  BY <1>4, <2>1, <2>2 DEF ExitGrows
<1>14. StreakIsCounted'
  <2> SUFFICES ASSUME NEW c \in Faulty, NEW k \in 1 .. EntryPersistence,
                      LastIn(rows', k, OnlyFor(c))
               PROVE  Counted(machine', c, k)
    BY DEF StreakIsCounted
  <2> DEFINE j == k - 1
  <2>1. /\ j \in 0 .. Depth - 1 /\ j \in 0 .. EntryPersistence - 1 /\ j + 1 = k
        /\ j = 0 \/ j \in 1 .. EntryPersistence
    BY DepthFacts
  <2> HIDE DEF j
  <2>2. row \in OnlyFor(c) /\ LastIn(rows, j, OnlyFor(c))  BY <1>6, <2>1
  <2>3. j = 0 \/ Counted(machine, c, j)  BY <2>1, <2>2 DEF SessionInv, StreakIsCounted
  <2>4. Counted(machine', c, j + 1)  BY <1>4, <2>1, <2>2, <2>3 DEF CountsOn
  <2>5. QED  BY <2>1, <2>4
<1>15. NewAlertNeedsStreak'
  <2> SUFFICES ASSUME event'.type = "new_alert"
               PROVE  LastIn(rows', EntryPersistence, For(event'.class))
    BY DEF NewAlertNeedsStreak, Streak, LastIn, For
  <2>1. row \in For(event'.class)  BY <1>4 DEF RaisedByStreak
  <2>2. CASE EntryPersistence = 1  BY <1>8, <2>1, <2>2
  <2>3. CASE machine.pending = event'.class /\ EntryPersistence = machine.pendingStreak + 1
    <3>1. machine.pendingStreak # 0
          => LastIn(rows, machine.pendingStreak, For(event'.class))
      BY <2>3 DEF SessionInv, PendingIsStreak, CountersMatchState
    <3>2. LastIn(rows, machine.pendingStreak, For(event'.class))
      BY <1>6, <3>1, NoStreak
    <3>3. QED  BY <1>6, <1>9, <2>1, <2>3, <3>2
  <2>4. QED  BY <1>4, <2>2, <2>3 DEF RaisedByStreak
<1>16. ClearNeedsHealthyRows'
  <2> SUFFICES ASSUME event'.type = "cleared"
               PROVE  LastIn(good', ExitPersistence, Healthful)
    BY DEF ClearNeedsHealthyRows, Streak, LastIn, Healthful
  <2>1. row \in Healthful /\ ExitPersistence = machine.exitStreak + 1
    BY <1>4 DEF ClearedByStreak
  <2>2. LastIn(good, machine.exitStreak, Healthful)  BY DEF SessionInv, ExitIsStreak
  <2>3. QED  BY <1>7, <1>9, <2>1, <2>2
<1>17. EvidenceNamesDiagnosis'
  <2>1. evidence'.top = Diagnosis(row)  BY <1>1, <1>2, EvidenceTop
  <2>2. QED  BY <1>7, <2>1 DEF EvidenceNamesDiagnosis, Last
<1>18. SwitchIsStreak'
  <2> SUFFICES ASSUME machine'.switch # None
               PROVE  LastIn(good', machine'.switchStreak, For(machine'.switch))
    BY DEF SwitchIsStreak
  <2>1. row \in For(machine'.switch)  BY <1>4 DEF SwitchGrows
  <2>2. CASE machine'.switchStreak = 1  BY <1>8, <2>1, <2>2
  <2>3. CASE machine'.switch = machine.switch
             /\ machine'.switchStreak = machine.switchStreak + 1
    <3>1. LastIn(good, machine.switchStreak, For(machine'.switch))
      BY <2>3 DEF SessionInv, SwitchIsStreak
    <3>2. QED  BY <1>7, <1>9, <2>1, <2>3, <3>1
  <2>4. QED  BY <1>4, <2>2, <2>3 DEF SwitchGrows
<1>19. SwitchNeedsStreak'
  <2> SUFFICES ASSUME event'.type = "class_change"
               PROVE  LastIn(good', EntryPersistence, For(event'.class))
    BY DEF SwitchNeedsStreak, Streak, LastIn, For
  <2>1. row \in For(event'.class)  BY <1>4 DEF SwitchedByStreak
  <2>2. CASE EntryPersistence = 1  BY <1>8, <2>1, <2>2
  <2>3. CASE machine.switch = event'.class /\ EntryPersistence = machine.switchStreak + 1
    <3>1. machine.switchStreak # 0
          => LastIn(good, machine.switchStreak, For(event'.class))
      BY <2>3 DEF SessionInv, SwitchIsStreak, CountersMatchState
    <3>2. LastIn(good, machine.switchStreak, For(event'.class))  BY <1>8, <3>1
    <3>3. QED  BY <1>7, <1>9, <2>1, <2>3, <3>2
  <2>4. QED  BY <1>4, <2>2, <2>3 DEF SwitchedByStreak
<1>20. QED
  BY <1>4, <1>10, <1>11, <1>12, <1>13, <1>14, <1>15, <1>16, <1>17, <1>18, <1>19
  DEF SessionInv

(* A streak of its rows leaves no counter that could hold it back. *)
LEMMA SessionJustifies ==
    ASSUME SessionInv
    PROVE  StreakConfirms
<1> SUFFICES ASSUME NEW c \in Class \ {Healthy},
                    Streak(rows, EntryPersistence,
                           LAMBDA r : SpeaksFor(r, c) /\ ~ SpeaksForHealth(r))
             PROVE  machine.confirmed = c
  BY DEF StreakConfirms
<1>1. EntryPersistence \in Nat \ {0} /\ EntryPersistence \in 1 .. EntryPersistence
  BY DepthFacts
<1>2. rows \in Seq(Row)  BY DEF SessionInv, Typed
<1>3. LastIn(rows, EntryPersistence, OnlyFor(c))  BY <1>1, <1>2, StreaksAreSets
<1>4. Counted(machine, c, EntryPersistence)
  BY <1>1, <1>3 DEF SessionInv, StreakIsCounted, Faulty
<1>5. /\ machine.pendingStreak \in Nat /\ machine.pendingStreak < EntryPersistence
      /\ machine.switchStreak \in Nat /\ machine.switchStreak < EntryPersistence
  BY DEF SessionInv, Typed, Machine, CountersMatchState
<1>6. ~ (machine.pendingStreak >= EntryPersistence)
      /\ ~ (machine.switchStreak >= EntryPersistence)
  BY <1>1, <1>5
<1>7. QED  BY <1>4, <1>6 DEF Counted

LEMMA SessionStutter ==
    ASSUME SessionInv, UNCHANGED vars
    PROVE  SessionInv'
<1>1. /\ samples' = samples /\ machine' = machine /\ status' = status /\ event' = event
      /\ evidence' = evidence /\ rows' = rows /\ good' = good
  BY DEF vars
<1>2. /\ Typed' /\ CountersMatchState' /\ PendingIsStreak' /\ SwitchIsStreak'
      /\ ExitIsStreak' /\ NeverHealthy' /\ StreakIsCounted'
  BY <1>1
  DEF SessionInv, Typed, CountersMatchState, PendingIsStreak, SwitchIsStreak, ExitIsStreak,
      NeverHealthy, StreakIsCounted
<1>3. NewAlertNeedsStreak'  BY <1>1 DEF SessionInv, NewAlertNeedsStreak, Streak
<1>4. ClearNeedsHealthyRows' /\ SwitchNeedsStreak'
  BY <1>1 DEF SessionInv, ClearNeedsHealthyRows, SwitchNeedsStreak, Streak
<1>5. EvidenceNamesDiagnosis'  BY <1>1 DEF SessionInv, EvidenceNamesDiagnosis, Last
<1>6. QED  BY <1>2, <1>3, <1>4, <1>5 DEF SessionInv

(* Whatever a sample does, its event says what becomes of the alert. *)
LEMMA SessionIngest ==
    ASSUME SessionInv, Ingest
    PROVE  SessionInv' /\ Moves(machine, machine', event')
<1>1. CASE WarmUp
  <2>1. machine' = machine /\ event' = NoEvent  BY <1>1 DEF WarmUp
  <2>2. NoEvent.type = "none"  BY DEF NoEvent
  <2>3. QED  BY <1>1, <2>1, <2>2, SessionWarmUp DEF Moves
<1>2. CASE IngestInsufficient
  <2>1. event' = NoEvent  BY <1>2 DEF IngestInsufficient
  <2>2. NoEvent.type = "none"  BY DEF NoEvent
  <2>3. QED  BY <1>2, <2>1, <2>2, SessionInsufficient DEF Moves
<1>3. ASSUME NEW row \in Predictions, IngestRow(row)
      PROVE  SessionInv' /\ Moves(machine, machine', event')
  BY <1>3, SessionRow
<1>4. QED  BY <1>1, <1>2, <1>3 DEF Ingest

----------------------------------------------------------------------------
(* The advice.                                                             *)

LEMMA MaxOfTwo ==
    ASSUME NEW a \in Int, NEW b \in Int
    PROVE  Max({a, b}) \in {a, b} /\ Max({a, b}) >= a /\ Max({a, b}) >= b
<1>1. \E x \in {a, b} : \A y \in {a, b} : x >= y
  <2>1. CASE a >= b  BY <2>1
  <2>2. CASE b >= a  BY <2>2
  <2>3. QED  BY <2>1, <2>2
<1>2. QED  BY <1>1 DEF Max

LEMMA ReplaceLast ==
    ASSUME NEW S, NEW s \in Seq(S), s # <<>>, NEW x \in S
    PROVE  LET t == [s EXCEPT ![Len(s)] = x]
           IN /\ t \in Seq(S) /\ Len(t) = Len(s) /\ Len(s) >= 1 /\ t # <<>>
              /\ t[Len(s)] = x /\ \A i \in 1 .. Len(s) : i # Len(s) => t[i] = s[i]
OBVIOUS

LEMMA AppendAfter ==
    ASSUME NEW S, NEW s \in Seq(S), NEW x \in S, NEW n \in Nat \ {0}, Len(s) <= n,
           NEW t, t = Append(IF Len(s) = n THEN Tail(s) ELSE s, x)
    PROVE  /\ t \in Seq(S) /\ Len(t) <= n /\ Len(t) >= 1 /\ t # <<>> /\ t[Len(t)] = x
           /\ \A i \in 1 .. Len(t) : i # Len(t) => \E j \in 1 .. Len(s) : t[i] = s[j]
<1>1. CASE Len(s) = n
  <2>1. t = Append(Tail(s), x)  BY <1>1
  <2>2. s # <<>> /\ Tail(s) \in Seq(S) /\ Len(Tail(s)) = n - 1
        /\ \A i \in 1 .. n - 1 : Tail(s)[i] = s[i + 1] /\ i + 1 \in 1 .. Len(s)
    BY <1>1
  <2>3. t \in Seq(S) /\ Len(t) = n /\ t[n] = x /\ t # <<>>
        /\ \A i \in 1 .. n - 1 : t[i] = s[i + 1]
    BY <2>1, <2>2
  <2>4. ASSUME NEW i \in 1 .. Len(t), i # Len(t) PROVE \E j \in 1 .. Len(s) : t[i] = s[j]
    <3>1. i \in 1 .. n - 1  BY <2>3, <2>4
    <3>2. QED  BY <2>2, <2>3, <3>1
  <2>5. QED  BY <2>3, <2>4
<1>2. CASE Len(s) # n
  <2>1. t = Append(s, x)  BY <1>2
  <2>2. t \in Seq(S) /\ Len(t) = Len(s) + 1 /\ t[Len(t)] = x /\ t # <<>>
        /\ \A i \in 1 .. Len(s) : t[i] = s[i]
    BY <2>1
  <2>3. Len(t) <= n /\ Len(t) >= 1  BY <1>2, <2>2
  <2>4. ASSUME NEW i \in 1 .. Len(t), i # Len(t) PROVE \E j \in 1 .. Len(s) : t[i] = s[j]
    <3>1. i \in 1 .. Len(s)  BY <2>2, <2>4
    <3>2. QED  BY <2>2, <3>1
  <2>5. QED  BY <2>2, <2>3, <2>4
<1>3. QED  BY <1>1, <1>2

(* What corroboration may find. *)
LEMMA TrendFacts ==
    ASSUME NEW v
    PROVE  Trend(v) \in {"unknown", "stable", "increasing", "decreasing"}
<1>1. ASSUME NEW w PROVE Detect(w) \in {"stable", "increasing", "decreasing"}
  BY DEF Detect
<1>2. QED  BY <1>1 DEF Trend

LEMMA OutcomeFacts ==
    ASSUME NEW c \in Faulty, NEW r \in Outcomes[c]
    PROVE  r \in Result
<1>1. c \in DOMAIN FaultName  BY AdviceAssumption DEF Faulty
<1> DEFINE name == FaultName[c]
           T == {"unknown", "stable", "increasing", "decreasing"}
<1>2. name \in {"cooling_degradation", "hydrogen_supply_issue", "sensor_anomaly"}
  BY <1>1, AdviceAssumption DEF Range
<1>3. PICK w \in [Relevant(name) -> Series] : r = Corroborate(name, w)
  BY <1>1 DEF Outcomes
<1> HIDE DEF name
<1>4. CASE name = "cooling_degradation"
  <2>1. Relevant(name) = {"stack_temperature", "coolant_flow"}  BY <1>4 DEF Relevant
  <2>2. r = CorroborateCooling(Trend(w["stack_temperature"]), Trend(w["coolant_flow"]))
    BY <1>3, <1>4, <2>1 DEF Corroborate
  <2>3. ASSUME NEW x \in T, NEW y \in T PROVE CorroborateCooling(x, y) \in Result
    BY DEF CorroborateCooling, Result
  <2>4. QED  BY <2>2, <2>3, TrendFacts
<1>5. CASE name = "hydrogen_supply_issue"
  <2>1. Relevant(name) = {"fuel_flow", "voltage"}  BY <1>5 DEF Relevant
  <2>2. r = CorroborateHydrogen(Trend(w["fuel_flow"]), Trend(w["voltage"]))
    BY <1>3, <1>5, <2>1 DEF Corroborate
  <2>3. ASSUME NEW x \in T, NEW y \in T PROVE CorroborateHydrogen(x, y) \in Result
    BY DEF CorroborateHydrogen, Result
  <2>4. QED  BY <2>2, <2>3, TrendFacts
<1>6. CASE name = "sensor_anomaly"
  <2>1. Relevant(name) = {"stack_temperature", "current", "voltage", "fuel_flow"}
    BY <1>6 DEF Relevant
  <2>2. PICK related : r = CorroborateSensor(Trend(w["stack_temperature"]), related)
    BY <1>3, <1>6, <2>1 DEF Corroborate
  <2>3. ASSUME NEW x \in T PROVE CorroborateSensor(x, related) \in Result
    BY DEF CorroborateSensor, Result
  <2>4. QED  BY <2>2, <2>3, TrendFacts
<1>7. QED  BY <1>2, <1>4, <1>5, <1>6

(* Advice is shown for every result. *)
LEMMA AdviceFacts ==
    /\ NoRecommendation.urgency = "none"
    /\ \A r \in Result : Recommendation(r).urgency # "none"
BY DEF NoRecommendation, Recommendation, Result

(* The message of an event, and the class that is under investigation once *)
(* it has been filed.                                                      *)
LEMMA TransitionFacts ==
    ASSUME NEW m, NEW n, NEW e \in Event, e # NoEvent, Moves(m, n, e)
    PROVE  /\ Transition(e) \in Message
           /\ Transition(e).type # "cleared" => Transition(e).class # Healthy
           /\ {n.confirmed} \ {None} = ClassAfter(Transition(e))
<1> DEFINE t == Transition(e)
<1>1. e.type \in {"new_alert", "class_change", "cleared"} /\ e.class \in Class
  BY DEF Event, Moves
<1>2. None \notin Class  BY MachineAssumption
<1>3. t = [type |-> TransitionType[e.type], class |-> e.class]  BY DEF Transition
<1>4. /\ e.type = "cleared" => TransitionType[e.type] = "cleared"
      /\ e.type = "new_alert" => TransitionType[e.type] = "confirmed"
      /\ e.type = "class_change" => TransitionType[e.type] = "class_changed"
  BY DEF TransitionType
<1>5. t \in Message /\ t.class = e.class /\ (t.type = "cleared" <=> e.type = "cleared")
  BY <1>1, <1>3, <1>4 DEF Message
<1> HIDE DEF t
<1>6. t.type # "cleared" => e.class \in Faulty /\ n.confirmed = e.class
  BY <1>1, <1>5 DEF Moves
<1>7. t.type = "cleared" => n.confirmed = None  BY <1>5 DEF Moves
<1>8. t.type # "cleared" => t.class # Healthy  BY <1>5, <1>6 DEF Faulty
<1>9. {n.confirmed} \ {None} = ClassAfter(t)
  <2>1. CASE t.type = "cleared"  BY <1>7, <2>1 DEF ClassAfter
  <2>2. CASE t.type # "cleared"  BY <1>1, <1>2, <1>5, <1>6, <2>2 DEF ClassAfter
  <2>3. QED  BY <2>1, <2>2
<1>10. QED  BY <1>5, <1>8, <1>9 DEF t

(* The dashboard's active investigation is the last one, if it is open. *)
LEMMA ActiveClasses ==
    {row.class : row \in ActiveResponse} =
      IF HasOpen THEN {Last(history).class} ELSE {}
<1>1. ASSUME NEW row PROVE Summary(row).class = row.class  BY DEF Summary
<1>2. CASE HasOpen
  <2>1. ActiveForAsset = {Last(history)}  BY <1>2 DEF ActiveForAsset
  <2>2. ActiveResponse = {Summary(Last(history))}  BY <2>1 DEF ActiveResponse
  <2>3. QED  BY <1>1, <1>2, <2>2
<1>3. CASE ~ HasOpen  BY <1>3 DEF ActiveForAsset, ActiveResponse
<1>4. QED  BY <1>2, <1>3

(* What is filed for a transition, whatever corroboration found. *)
LEMMA EvidenceFacts ==
    ASSUME HistoryIsCoherent, NEW t \in Message, NEW result,
           t.type # "cleared" => result \in Result,
           t.type = "cleared" => result = "not_applicable"
    PROVE  LET row == EvidenceOf(t, result)
               kept == [row EXCEPT !.timeline = @ \cup Last(history).timeline]
           IN /\ HasOpen => /\ kept \in Investigation /\ RowIsCoherent(kept)
                            /\ kept.class = t.class
                            /\ kept.status = "OPEN" <=> t.type # "cleared"
              /\ ~ HasOpen => /\ row \in Investigation /\ RowIsCoherent(row)
                              /\ row.class = t.class
                              /\ row.status = "OPEN" <=> t.type # "cleared"
<1> DEFINE row == EvidenceOf(t, result)
           old == Last(history)
           kept == [row EXCEPT !.timeline = @ \cup old.timeline]
           advice == IF t.type = "cleared" THEN NoRecommendation ELSE Recommendation(result)
           outcome == IF t.type = "cleared" THEN "CLEARED" ELSE "OPEN"
           entries == TimelineEntries(t.type, ~ HasOpen)
           before == PreviousClass(t)
<1>1. t.class \in Class /\ None \notin Class  BY MachineAssumption DEF Message
<1>2. advice \in Advice /\ (t.type = "cleared" <=> advice.urgency = "none")
  <2>1. CASE t.type = "cleared"  BY <2>1, AdviceFacts DEF Advice
  <2>2. CASE t.type # "cleared"
    <3>1. advice = Recommendation(result) /\ result \in Result  BY <2>2
    <3>2. QED  BY <2>2, <3>1, AdviceFacts DEF Advice
  <2>3. QED  BY <2>1, <2>2
<1>3. result \in Result \cup {"not_applicable"}  OBVIOUS
<1>4. row = [class |-> t.class, previous |-> before, status |-> outcome, result |-> result,
             recommendation |-> advice, timeline |-> entries]
  BY DEF EvidenceOf
<1>5. entries \in SUBSET Entry
      /\ (t.type = "cleared" => entries = {"alert_received", "alert_cleared"})
      /\ (t.type # "cleared" =>
            entries = {"alert_received", "corroboration_completed", "recommendation_recorded",
                       IF ~ HasOpen THEN "investigation_opened" ELSE "investigation_updated"})
  BY DEF TimelineEntries, Entry
<1>6. HasOpen => /\ old \in Investigation /\ RowIsCoherent(old) /\ old.status = "OPEN"
                 /\ old.class \in Class /\ old.timeline \in SUBSET Entry
  <2> SUFFICES ASSUME HasOpen
               PROVE  /\ old \in Investigation /\ RowIsCoherent(old) /\ old.status = "OPEN"
                      /\ old.class \in Class /\ old.timeline \in SUBSET Entry
    OBVIOUS
  <2>1. history \in Seq(Investigation) /\ history # <<>>  BY DEF HistoryIsCoherent, HasOpen
  <2>2. old = history[Len(history)] /\ Len(history) \in 1 .. Len(history)
    BY <2>1 DEF Last
  <2>3. old \in Investigation  BY <2>1, <2>2
  <2>4. RowIsCoherent(old)  BY <2>2 DEF HistoryIsCoherent
  <2>5. old.class \in Class /\ old.timeline \in SUBSET Entry  BY <2>3 DEF Investigation
  <2>6. QED  BY <2>3, <2>4, <2>5 DEF HasOpen
<1>7. /\ HasOpen => /\ before \in MaybeClass
                    /\ before # t.class \/ t.type = "cleared"
                    /\ t.type = "cleared" => before # None
      /\ ~ HasOpen => before = None
  BY <1>1, <1>6 DEF PreviousClass, MaybeClass
<1>8. before \in MaybeClass  BY <1>6, <1>7 DEF PreviousClass, MaybeClass
<1>9. outcome \in {"OPEN", "CLEARED"}  OBVIOUS
<1> HIDE DEF advice, entries, before
<1>10. ASSUME HasOpen
       PROVE  /\ kept \in Investigation /\ RowIsCoherent(kept) /\ kept.class = t.class
              /\ kept.status = "OPEN" <=> t.type # "cleared"
  <2> DEFINE all == entries \cup old.timeline
  <2>1. all \in SUBSET Entry  BY <1>5, <1>6, <1>10
  <2>2. kept = [class |-> t.class, previous |-> before, status |-> outcome, result |-> result,
                recommendation |-> advice, timeline |-> all]
    <3>1. ASSUME NEW c, NEW p, NEW st, NEW r, NEW a, NEW e, NEW o
          PROVE  [[class |-> c, previous |-> p, status |-> st, result |-> r,
                   recommendation |-> a, timeline |-> e] EXCEPT !.timeline = @ \cup o]
                 = [class |-> c, previous |-> p, status |-> st, result |-> r,
                    recommendation |-> a, timeline |-> e \cup o]
      OBVIOUS
    <3> HIDE DEF outcome, old, row
    <3>2. QED  BY <1>4, <3>1
  <2>3. /\ "investigation_opened" \in old.timeline /\ "corroboration_completed" \in old.timeline
        /\ "alert_cleared" \notin old.timeline
    BY <1>6, <1>10 DEF RowIsCoherent
  <2>4. /\ "investigation_opened" \in all /\ "corroboration_completed" \in all
        /\ "alert_cleared" \in all <=> t.type = "cleared"
    BY <1>5, <1>10, <2>3
  <2> HIDE DEF all, kept, row, old
  <2>5. kept \in Investigation
    BY <1>1, <1>2, <1>3, <1>8, <1>9, <2>1, <2>2 DEF Investigation
  <2>6. /\ kept.class = t.class /\ kept.previous = before /\ kept.status = outcome
        /\ kept.recommendation = advice /\ kept.timeline = all
    BY <2>2
  <2>7. QED  BY <1>2, <1>7, <1>10, <2>4, <2>5, <2>6 DEF RowIsCoherent
<1>11. ASSUME ~ HasOpen
       PROVE  /\ row \in Investigation /\ RowIsCoherent(row) /\ row.class = t.class
              /\ row.status = "OPEN" <=> t.type # "cleared"
  <2> HIDE DEF row, kept, old
  <2>1. row \in Investigation
    BY <1>1, <1>2, <1>3, <1>4, <1>5, <1>8, <1>9 DEF Investigation
  <2>2. /\ row.class = t.class /\ row.previous = before /\ row.status = outcome
        /\ row.recommendation = advice /\ row.timeline = entries
    BY <1>4
  <2>3. /\ "investigation_opened" \in entries <=> t.type # "cleared"
        /\ "corroboration_completed" \in entries <=> t.type # "cleared"
        /\ "alert_cleared" \in entries <=> t.type = "cleared"
    BY <1>5, <1>11
  <2>4. before = None /\ None # t.class  BY <1>1, <1>7, <1>11
  <2>5. QED  BY <1>2, <2>1, <2>2, <2>3, <2>4 DEF RowIsCoherent
<1>12. QED  BY <1>10, <1>11

(* Filing keeps the list coherent and leaves the transition's class open,  *)
(* or nothing.                                                             *)
LEMMA FileFacts ==
    ASSUME HistoryIsCoherent, NEW t \in Message, NEW result,
           t.type # "cleared" => result \in Result,
           t.type = "cleared" => result = "not_applicable",
           history' = File(EvidenceOf(t, result))
    PROVE  /\ HistoryIsCoherent'
           /\ history' # <<>> /\ Last(history)'.class = t.class
           /\ Last(history)'.status = "OPEN" <=> t.type # "cleared"
<1> DEFINE row == EvidenceOf(t, result)
           kept == [row EXCEPT !.timeline = @ \cup Last(history).timeline]
<1>1. /\ history \in Seq(Investigation) /\ Len(history) <= HistoryLimit
      /\ \A i \in 1 .. Len(history) :
           RowIsCoherent(history[i]) /\ (history[i].status = "OPEN" => i = Len(history))
  BY DEF HistoryIsCoherent
<1>2. HistoryLimit \in Nat \ {0}  BY AdviceAssumption
<1>3. CASE HasOpen
  <2>1. /\ kept \in Investigation /\ RowIsCoherent(kept) /\ kept.class = t.class
        /\ kept.status = "OPEN" <=> t.type # "cleared"
    BY <1>3, EvidenceFacts
  <2>2. history' = [history EXCEPT ![Len(history)] = kept]  BY <1>3 DEF File
  <2> HIDE DEF kept, row
  <2>3. history # <<>>  BY <1>3 DEF HasOpen
  <2>4. /\ history' \in Seq(Investigation) /\ Len(history') = Len(history)
        /\ history' # <<>> /\ history'[Len(history)] = kept
        /\ \A i \in 1 .. Len(history) : i # Len(history) => history'[i] = history[i]
    BY <1>1, <2>1, <2>2, <2>3, ReplaceLast
  <2>5. HistoryIsCoherent'
    <3>1. ASSUME NEW i \in 1 .. Len(history)
          PROVE  RowIsCoherent(history'[i]) /\ (history'[i].status = "OPEN" => i = Len(history))
      <4>1. CASE i = Len(history)  BY <2>1, <2>4, <4>1
      <4>2. CASE i # Len(history)  BY <1>1, <2>4, <4>2
      <4>3. QED  BY <4>1, <4>2
    <3>2. QED  BY <1>1, <2>4, <3>1 DEF HistoryIsCoherent
  <2>6. QED  BY <2>1, <2>4, <2>5 DEF Last
<1>4. CASE ~ HasOpen
  <2>1. /\ row \in Investigation /\ RowIsCoherent(row) /\ row.class = t.class
        /\ row.status = "OPEN" <=> t.type # "cleared"
    BY <1>4, EvidenceFacts
  <2>2. history' = Append(IF Len(history) = HistoryLimit THEN Tail(history) ELSE history, row)
    BY <1>4 DEF File
  <2> HIDE DEF kept, row
  <2>3. /\ history' \in Seq(Investigation) /\ Len(history') <= HistoryLimit
        /\ history' # <<>> /\ history'[Len(history')] = row
        /\ \A i \in 1 .. Len(history') :
             i # Len(history') => \E j \in 1 .. Len(history) : history'[i] = history[j]
    BY <1>1, <1>2, <2>1, <2>2, AppendAfter
  <2>4. \A j \in 1 .. Len(history) : history[j].status # "OPEN"
    <3> SUFFICES ASSUME NEW j \in 1 .. Len(history), history[j].status = "OPEN"
                 PROVE  FALSE
      OBVIOUS
    <3>1. j = Len(history) /\ history # <<>>  BY <1>1
    <3>2. QED  BY <1>4, <3>1 DEF HasOpen, Last
  <2>5. HistoryIsCoherent'
    <3>1. ASSUME NEW i \in 1 .. Len(history')
          PROVE  RowIsCoherent(history'[i])
                 /\ (history'[i].status = "OPEN" => i = Len(history'))
      <4>1. CASE i = Len(history')  BY <2>1, <2>3, <4>1
      <4>2. CASE i # Len(history')  BY <1>1, <2>3, <2>4, <4>2
      <4>3. QED  BY <4>1, <4>2
    <3>2. QED  BY <2>3, <3>1 DEF HistoryIsCoherent
  <2>6. QED  BY <2>1, <2>3, <2>5 DEF Last
<1>5. QED  BY <1>3, <1>4

LEMMA AdviceInitially ==
    ASSUME AdviceInit
    PROVE  AdviceInv
<1>1. Init /\ inbox = <<>> /\ history = <<>> /\ lost = 0  BY DEF AdviceInit
<1>2. SessionInv  BY <1>1, SessionInit
<1>3. MaxInbox \in Nat /\ HistoryLimit \in Nat  BY AdviceAssumption
<1>4. InboxTyped  BY <1>1, <1>3 DEF InboxTyped
<1>5. HistoryIsCoherent  BY <1>1, <1>3 DEF HistoryIsCoherent
<1>6. ~ HasOpen  BY <1>1 DEF HasOpen
<1>7. machine.confirmed = None  BY <1>1, FreshFacts DEF Init
<1>8. AdviceWillFollow  BY <1>1, <1>6, <1>7, ActiveClasses DEF AdviceWillFollow
<1>9. QED  BY <1>2, <1>4, <1>5, <1>8 DEF AdviceInv

(* The class that a list of investigations shows as active. *)
ActiveIn(h) == IF h # <<>> /\ h[Len(h)].status = "OPEN" THEN {h[Len(h)].class} ELSE {}

LEMMA WillFollowMeans ==
    /\ AdviceWillFollow <=>
         (lost <= Len(inbox) =>
            {machine.confirmed} \ {None} =
              IF inbox = <<>> THEN ActiveIn(history) ELSE ClassAfter(inbox[Len(inbox)]))
    /\ AdviceWillFollow' <=>
         (lost' <= Len(inbox') =>
            {machine'.confirmed} \ {None} =
              IF inbox' = <<>> THEN ActiveIn(history') ELSE ClassAfter(inbox'[Len(inbox')]))
<1>1. {row.class : row \in ActiveResponse} = ActiveIn(history)
  BY ActiveClasses DEF HasOpen, ActiveIn, Last
<1>2. {row.class : row \in ActiveResponse}' = ActiveIn(history')
  <2>1. ASSUME NEW row PROVE Summary(row).class = row.class  BY DEF Summary
  <2>2. HasOpen' <=> history' # <<>> /\ history'[Len(history')].status = "OPEN"
    BY DEF HasOpen, Last
  <2>3. CASE HasOpen'
    <3>1. ActiveForAsset' = {history'[Len(history')]}  BY <2>3 DEF ActiveForAsset, Last
    <3>2. ActiveResponse' = {Summary(history'[Len(history')])}  BY <3>1 DEF ActiveResponse
    <3>3. QED  BY <2>1, <2>2, <2>3, <3>2 DEF ActiveIn
  <2>4. CASE ~ HasOpen'
    <3>1. ActiveResponse' = {}  BY <2>4 DEF ActiveForAsset, ActiveResponse
    <3>2. QED  BY <2>2, <2>4, <3>1 DEF ActiveIn
  <2>5. QED  BY <2>3, <2>4
<1>3. QED  BY <1>1, <1>2 DEF AdviceWillFollow, Last

LEMMA SampleKeeps ==
    ASSUME AdviceInv, Sample
    PROVE  AdviceInv'
<1>1. SessionInv' /\ Moves(machine, machine', event')
  BY SessionIngest DEF AdviceInv, Sample
<1>2. event' \in Event  BY <1>1 DEF SessionInv, Typed
<1>3. history' = history /\ lost' = lost  BY DEF Sample
<1>4. HistoryIsCoherent'  BY <1>3 DEF AdviceInv, HistoryIsCoherent
<1>5. /\ inbox \in Seq(Message) /\ Len(inbox) <= MaxInbox /\ lost \in 0 .. MaxInbox + 1
      /\ \A i \in DOMAIN inbox : inbox[i].type # "cleared" => inbox[i].class # Healthy
  BY DEF AdviceInv, InboxTyped
<1>6. CASE event' = NoEvent
  <2>1. inbox' = inbox  BY <1>6 DEF Sample
  <2>2. machine'.confirmed = machine.confirmed  BY <1>1, <1>6 DEF Moves
  <2>3. InboxTyped'  BY <1>3, <1>5, <2>1 DEF InboxTyped
  <2>4. AdviceWillFollow'  BY <1>3, <2>1, <2>2, WillFollowMeans DEF AdviceInv
  <2>5. QED  BY <1>1, <1>4, <2>3, <2>4 DEF AdviceInv
<1>7. CASE event' # NoEvent
  <2> DEFINE t == Transition(event')
  <2>1. inbox' = Append(inbox, t) /\ Len(inbox) < MaxInbox  BY <1>7 DEF Sample
  <2>2. /\ t \in Message /\ (t.type # "cleared" => t.class # Healthy)
        /\ {machine'.confirmed} \ {None} = ClassAfter(t)
    BY <1>1, <1>2, <1>7, TransitionFacts
  <2> HIDE DEF t
  <2>3. /\ inbox' \in Seq(Message) /\ Len(inbox') = Len(inbox) + 1 /\ inbox' # <<>>
        /\ inbox'[Len(inbox')] = t /\ \A i \in 1 .. Len(inbox) : inbox'[i] = inbox[i]
    BY <1>5, <2>1, <2>2
  <2>4. Len(inbox') <= MaxInbox  BY <1>5, <2>1, <2>3, AdviceAssumption
  <2>5. ASSUME NEW i \in DOMAIN inbox', inbox'[i].type # "cleared"
        PROVE  inbox'[i].class # Healthy
    <3>1. CASE i = Len(inbox')  BY <2>2, <2>3, <2>5, <3>1
    <3>2. CASE i # Len(inbox')
      <4>1. i \in 1 .. Len(inbox)  BY <1>5, <2>3, <3>2
      <4>2. QED  BY <1>5, <2>3, <2>5, <4>1
    <3>3. QED  BY <3>1, <3>2
  <2>6. InboxTyped'  BY <1>3, <1>5, <2>3, <2>4, <2>5 DEF InboxTyped
  <2>7. AdviceWillFollow'  BY <2>2, <2>3, WillFollowMeans
  <2>8. QED  BY <1>1, <1>4, <2>6, <2>7 DEF AdviceInv
<1>8. QED  BY <1>6, <1>7

LEMMA ColdStartKeeps ==
    ASSUME AdviceInv, ColdStart
    PROVE  AdviceInv'
<1>1. Reset /\ inbox' = inbox /\ history' = history
      /\ lost' = IF machine.confirmed = None THEN lost ELSE Len(inbox) + 1
  BY DEF ColdStart
<1>2. SessionInv'  BY <1>1, SessionReset DEF AdviceInv
<1>3. HistoryIsCoherent'  BY <1>1 DEF AdviceInv, HistoryIsCoherent
<1>4. machine'.confirmed = None  BY <1>1, FreshFacts DEF Reset
<1>5. inbox \in Seq(Message) /\ Len(inbox) <= MaxInbox /\ lost \in 0 .. MaxInbox + 1
  BY DEF AdviceInv, InboxTyped
<1>6. MaxInbox \in Nat  BY AdviceAssumption
<1>7. lost' \in 0 .. MaxInbox + 1  BY <1>1, <1>5, <1>6
<1>8. InboxTyped'  BY <1>1, <1>7 DEF AdviceInv, InboxTyped
<1>9. AdviceWillFollow'
  <2>1. CASE machine.confirmed = None
    BY <1>1, <1>4, <2>1, WillFollowMeans DEF AdviceInv
  <2>2. CASE machine.confirmed # None
    <3>1. ~ (lost' <= Len(inbox'))  BY <1>1, <1>5, <2>2
    <3>2. QED  BY <3>1, WillFollowMeans
  <2>3. QED  BY <2>1, <2>2
<1>10. QED  BY <1>2, <1>3, <1>8, <1>9 DEF AdviceInv

(* The inbox without its first message. *)
LEMMA TailFacts ==
    ASSUME NEW S, NEW s \in Seq(S), s # <<>>, NEW t, t = Tail(s)
    PROVE  /\ t \in Seq(S) /\ Len(t) = Len(s) - 1 /\ Len(s) \in Nat \ {0}
           /\ Head(s) = s[1] /\ Head(s) \in S /\ 1 \in DOMAIN s
           /\ t = <<>> <=> Len(s) = 1
           /\ t # <<>> => t[Len(t)] = s[Len(s)]
           /\ \A i \in DOMAIN t : i + 1 \in DOMAIN s /\ t[i] = s[i + 1]
<1>1. Len(s) \in Nat \ {0} /\ Head(s) = s[1] /\ 1 \in DOMAIN s /\ Head(s) \in S  OBVIOUS
<1>2. t \in Seq(S) /\ Len(t) = Len(s) - 1
      /\ \A i \in 1 .. Len(s) - 1 : t[i] = s[i + 1] /\ i + 1 \in DOMAIN s
  OBVIOUS
<1>3. t = <<>> <=> Len(t) = 0
  <2>1. t \in Seq(S)  BY <1>2
  <2>2. QED  BY <2>1, EmptySeq
<1>4. t # <<>> => t[Len(t)] = s[Len(s)]
  <2> SUFFICES ASSUME t # <<>> PROVE t[Len(t)] = s[Len(s)]  OBVIOUS
  <2>1. Len(t) \in 1 .. Len(s) - 1 /\ Len(t) + 1 = Len(s)  BY <1>1, <1>2, <1>3
  <2>2. QED  BY <1>2, <2>1
<1>5. DOMAIN t = 1 .. Len(s) - 1  BY <1>2
<1>6. QED  BY <1>1, <1>2, <1>3, <1>4, <1>5

LEMMA InboxShrinks ==
    ASSUME AdviceInv, inbox # <<>>, inbox' = Tail(inbox), lost' \in 0 .. MaxInbox + 1
    PROVE  InboxTyped'
<1>1. /\ inbox \in Seq(Message) /\ Len(inbox) <= MaxInbox
      /\ \A i \in DOMAIN inbox : inbox[i].type # "cleared" => inbox[i].class # Healthy
  BY DEF AdviceInv, InboxTyped
<1>2. /\ inbox' \in Seq(Message) /\ Len(inbox') = Len(inbox) - 1 /\ Len(inbox) \in Nat \ {0}
      /\ \A i \in DOMAIN inbox' : i + 1 \in DOMAIN inbox /\ inbox'[i] = inbox[i + 1]
  BY <1>1, TailFacts
<1>3. Len(inbox') <= MaxInbox  BY <1>1, <1>2, AdviceAssumption
<1>4. QED  BY <1>1, <1>2, <1>3 DEF InboxTyped

LEMMA DeliverKeeps ==
    ASSUME AdviceInv, Deliver
    PROVE  AdviceInv'
<1> DEFINE t == Head(inbox)
<1>1. /\ inbox # <<>> /\ inbox' = Tail(inbox) /\ lost' = Max({lost - 1, 0})
      /\ UNCHANGED vars
  BY DEF Deliver
<1>2. PICK result \in IF t.type = "cleared" THEN {"not_applicable"} ELSE Outcomes[t.class] :
        history' = File(EvidenceOf(t, result))
  BY DEF Deliver
<1>3. /\ inbox \in Seq(Message) /\ Len(inbox) <= MaxInbox /\ lost \in 0 .. MaxInbox + 1
      /\ \A i \in DOMAIN inbox : inbox[i].type # "cleared" => inbox[i].class # Healthy
  BY DEF AdviceInv, InboxTyped
<1>4. /\ inbox' \in Seq(Message) /\ Len(inbox') = Len(inbox) - 1 /\ Len(inbox) \in Nat \ {0}
      /\ t = inbox[1] /\ t \in Message /\ 1 \in DOMAIN inbox
      /\ inbox' = <<>> <=> Len(inbox) = 1
      /\ inbox' # <<>> => inbox'[Len(inbox')] = inbox[Len(inbox)]
  BY <1>1, <1>3, TailFacts
<1> HIDE DEF t
<1>5. t.type # "cleared" => t.class \in Faulty  BY <1>3, <1>4 DEF Message, Faulty
<1>6. (t.type # "cleared" => result \in Result)
      /\ (t.type = "cleared" => result = "not_applicable")
  BY <1>2, <1>5, OutcomeFacts
<1>7. /\ HistoryIsCoherent' /\ history' # <<>> /\ Last(history)'.class = t.class
      /\ Last(history)'.status = "OPEN" <=> t.type # "cleared"
  BY <1>2, <1>4, <1>6, FileFacts DEF AdviceInv
<1>8. ActiveIn(history') = ClassAfter(t)  BY <1>7 DEF ActiveIn, ClassAfter, Last
<1>9. lost' \in 0 .. MaxInbox + 1 /\ lost' >= lost - 1
  <2>1. Max({lost - 1, 0}) \in {lost - 1, 0} /\ Max({lost - 1, 0}) >= lost - 1
        /\ Max({lost - 1, 0}) >= 0
    <3>1. lost - 1 \in Int /\ 0 \in Int  BY <1>3, AdviceAssumption
    <3>2. QED  BY <3>1, MaxOfTwo
  <2>2. QED  BY <1>1, <1>3, <2>1, AdviceAssumption
<1>10. InboxTyped'  BY <1>1, <1>9, InboxShrinks
<1>11. SessionInv'  BY <1>1, SessionStutter DEF AdviceInv
<1>12. AdviceWillFollow'
  <2> SUFFICES ASSUME lost' <= Len(inbox')
               PROVE  {machine'.confirmed} \ {None} =
                        IF inbox' = <<>> THEN ActiveIn(history')
                        ELSE ClassAfter(inbox'[Len(inbox')])
    BY WillFollowMeans
  <2>1. lost <= Len(inbox)  BY <1>3, <1>4, <1>9, AdviceAssumption
  <2>2. {machine.confirmed} \ {None} = ClassAfter(inbox[Len(inbox)])
    BY <1>1, <2>1, WillFollowMeans DEF AdviceInv
  <2>3. machine' = machine  BY <1>1 DEF vars
  <2>4. CASE inbox' = <<>>  BY <1>4, <1>8, <2>2, <2>3, <2>4
  <2>5. CASE inbox' # <<>>  BY <1>4, <2>2, <2>3, <2>5
  <2>6. QED  BY <2>4, <2>5
<1>13. QED  BY <1>7, <1>10, <1>11, <1>12 DEF AdviceInv

LEMMA LoseKeeps ==
    ASSUME AdviceInv, Lose
    PROVE  AdviceInv'
<1>1. /\ inbox # <<>> /\ inbox' = Tail(inbox) /\ lost' = Max({lost - 1, 1})
      /\ UNCHANGED vars /\ history' = history
  BY DEF Lose
<1>2. inbox \in Seq(Message) /\ Len(inbox) <= MaxInbox /\ lost \in 0 .. MaxInbox + 1
  BY DEF AdviceInv, InboxTyped
<1>3. /\ Len(inbox') = Len(inbox) - 1 /\ Len(inbox) \in Nat \ {0}
      /\ inbox' = <<>> <=> Len(inbox) = 1
      /\ inbox' # <<>> => inbox'[Len(inbox')] = inbox[Len(inbox)]
  BY <1>1, <1>2, TailFacts
<1>4. lost' \in 0 .. MaxInbox + 1 /\ lost' >= lost - 1 /\ lost' >= 1
  <2>1. Max({lost - 1, 1}) \in {lost - 1, 1} /\ Max({lost - 1, 1}) >= lost - 1
        /\ Max({lost - 1, 1}) >= 1
    <3>1. lost - 1 \in Int /\ 1 \in Int  BY <1>2, AdviceAssumption
    <3>2. QED  BY <3>1, MaxOfTwo
  <2>2. QED  BY <1>1, <1>2, <2>1, AdviceAssumption
<1>5. InboxTyped'  BY <1>1, <1>4, InboxShrinks
<1>6. SessionInv' /\ HistoryIsCoherent'
  BY <1>1, SessionStutter DEF AdviceInv, HistoryIsCoherent
<1>7. AdviceWillFollow'
  <2> SUFFICES ASSUME lost' <= Len(inbox')
               PROVE  {machine'.confirmed} \ {None} =
                        IF inbox' = <<>> THEN ActiveIn(history')
                        ELSE ClassAfter(inbox'[Len(inbox')])
    BY WillFollowMeans
  <2>1. lost <= Len(inbox) /\ inbox' # <<>>  BY <1>2, <1>3, <1>4, AdviceAssumption
  <2>2. {machine.confirmed} \ {None} = ClassAfter(inbox[Len(inbox)])
    BY <1>1, <2>1, WillFollowMeans DEF AdviceInv
  <2>3. machine' = machine  BY <1>1 DEF vars
  <2>4. QED  BY <1>3, <2>1, <2>2, <2>3
<1>8. QED  BY <1>5, <1>6, <1>7 DEF AdviceInv

(***************************************************************************)
(* The theorems.                                                           *)
(***************************************************************************)

(* The streaks of the session, the transitions under way and the filed     *)
(* investigations keep their meaning through every sample, cold start,     *)
(* delivery and loss.                                                      *)
THEOREM AdviceInvariant == AdviceSpec => []AdviceInv
<1>1. AdviceInit => AdviceInv  BY AdviceInitially
<1>2. AdviceInv /\ [AdviceNext]_allVars => AdviceInv'
  <2> SUFFICES ASSUME AdviceInv, [AdviceNext]_allVars PROVE AdviceInv'  OBVIOUS
  <2>1. CASE Sample  BY <2>1, SampleKeeps
  <2>2. CASE ColdStart  BY <2>2, ColdStartKeeps
  <2>3. CASE Deliver  BY <2>3, DeliverKeeps
  <2>4. CASE Lose  BY <2>4, LoseKeeps
  <2>5. CASE UNCHANGED allVars
    <3>1. UNCHANGED vars /\ inbox' = inbox /\ history' = history /\ lost' = lost
      BY <2>5 DEF allVars, adviceVars
    <3>2. SessionInv' /\ machine' = machine  BY <3>1, SessionStutter DEF AdviceInv, vars
    <3>3. InboxTyped' /\ HistoryIsCoherent'
      BY <3>1 DEF AdviceInv, InboxTyped, HistoryIsCoherent
    <3>4. AdviceWillFollow'  BY <3>1, <3>2, WillFollowMeans DEF AdviceInv
    <3>5. QED  BY <3>2, <3>3, <3>4 DEF AdviceInv
  <2>6. QED  BY <2>1, <2>2, <2>3, <2>4, <2>5 DEF AdviceNext
<1>3. QED  BY <1>1, <1>2, PTL DEF AdviceSpec

(* A new alert and a switched one have their unbroken streak, a persisting *)
(* fault is confirmed, a cleared alert has its healthy rows, every counter *)
(* belongs to its state and the evidence names the diagnosis               *)
(* (state_machine.py, evidence.py).                                        *)
THEOREM AlertsStayJustified == AdviceSpec => []AlertsAreJustified
<1>1. AdviceInv => AlertsAreJustified
  <2> SUFFICES ASSUME AdviceInv PROVE AlertsAreJustified  OBVIOUS
  <2>1. SessionInv  BY DEF AdviceInv
  <2>2. TypeOK  BY <2>1 DEF SessionInv, Typed, TypeOK, Machine, Event, MaybeClass
  <2>3. AdviceTypeOK
    BY <2>2 DEF AdviceInv, AdviceTypeOK, InboxTyped, HistoryIsCoherent
  <2>4. StreakConfirms  BY <2>1, SessionJustifies
  <2>5. QED  BY <2>1, <2>3, <2>4 DEF SessionInv, AlertsAreJustified
<1>2. QED  BY <1>1, AdviceInvariant, PTL

(* The active investigation is about the alert that is up once nothing is  *)
(* under way, and the list, the active view and the timeline agree.        *)
THEOREM AdviceStaysCoherent == AdviceSpec => []AdviceIsCoherent
<1>1. AdviceInv => AdviceIsCoherent
  <2> SUFFICES ASSUME AdviceInv PROVE AdviceIsCoherent  OBVIOUS
  <2>1. AdviceFollowsAlert
    <3> SUFFICES ASSUME inbox = <<>>, lost = 0
                 PROVE  {row.class : row \in ActiveResponse} = {machine.confirmed} \ {None}
      BY DEF AdviceFollowsAlert
    <3>1. lost <= Len(inbox)  OBVIOUS
    <3>2. QED  BY <3>1 DEF AdviceInv, AdviceWillFollow
  <2>2. /\ history \in Seq(Investigation)
        /\ \A i \in 1 .. Len(history) :
             RowIsCoherent(history[i]) /\ (history[i].status = "OPEN" => i = Len(history))
    BY DEF AdviceInv, HistoryIsCoherent
  <2>3. DOMAIN history = 1 .. Len(history) /\ Len(history) \in Nat  BY <2>2
  <2> DEFINE n == Len(history)
             listed == [i \in DOMAIN history |-> Summary(history[i])]
  <2>4. Len(listed) = n /\ \A i \in 1 .. n : listed[i] = Summary(history[i])  BY <2>3
  <2> HIDE DEF listed
  <2>5. DOMAIN HistoryResponse = 1 .. n
        /\ \A i \in 1 .. n : HistoryResponse[i] = listed[(n - i) + 1]
    BY <2>4 DEF HistoryResponse, Reverse, listed
  <2>6. ASSUME NEW i \in DOMAIN HistoryResponse
        PROVE  /\ HistoryResponse[i].status = "OPEN" =>
                    i = 1 /\ ActiveResponse = {HistoryResponse[i]}
               /\ HistoryResponse[i].status = "OPEN" <=> HistoryResponse[i].urgency # "none"
    <3> DEFINE j == (n - i) + 1
    <3>1. j \in 1 .. n /\ i \in 1 .. n /\ (j = n <=> i = 1)  BY <2>3, <2>5, <2>6
    <3>2. HistoryResponse[i] = Summary(history[j])  BY <2>4, <2>5, <3>1
    <3> HIDE DEF j
    <3>3. /\ HistoryResponse[i].status = history[j].status
          /\ HistoryResponse[i].urgency = history[j].recommendation.urgency
      BY <3>2 DEF Summary
    <3>4. history[j].status = "OPEN" <=> history[j].recommendation.urgency # "none"
      BY <2>2, <3>1 DEF RowIsCoherent
    <3>5. ASSUME history[j].status = "OPEN"
          PROVE  i = 1 /\ ActiveResponse = {HistoryResponse[i]}
      <4>1. j = n /\ i = 1  BY <2>2, <3>1, <3>5
      <4>2. HasOpen /\ Last(history) = history[j]
        BY <2>2, <3>1, <3>5, <4>1 DEF HasOpen, Last
      <4>3. ActiveForAsset = {history[j]}  BY <4>2 DEF ActiveForAsset
      <4>4. ActiveResponse = {Summary(history[j])}  BY <4>3 DEF ActiveResponse
      <4>5. QED  BY <3>2, <4>1, <4>4
    <3>6. QED  BY <3>3, <3>4, <3>5
  <2>7. ASSUME NEW i \in DOMAIN history
        PROVE  /\ history[i].status = "CLEARED" <=> "alert_cleared" \in history[i].timeline
               /\ "corroboration_completed" \in history[i].timeline
                    <=> "investigation_opened" \in history[i].timeline
               /\ history[i].status = "OPEN" => history[i].previous # history[i].class
               /\ history[i].status = "CLEARED" /\ history[i].previous = None
                    => "investigation_opened" \notin history[i].timeline
    BY <2>2, <2>3 DEF RowIsCoherent
  <2>8. ReadModelIsCoherent  BY <2>6, <2>7 DEF ReadModelIsCoherent
  <2>9. QED  BY <2>1, <2>8 DEF AdviceIsCoherent
<1>2. QED  BY <1>1, AdviceInvariant, PTL

----------------------------------------------------------------------------
(***************************************************************************)
(* The shift studies and the promotion decisions, module PromotionStudy.   *)
(***************************************************************************)

(* Sums over a finite set, which the fold takes one element after another. *)
Taken(s) == CHOOSE x \in s : TRUE

SumsOver(g, fun, T) ==
    g = [s \in T |-> IF s = {} THEN 0 ELSE fun[Taken(s)] + g[s \ {Taken(s)}]]

UpTo(S, n) == {s \in SUBSET S : Cardinality(s) <= n}

LEMMA TakenFacts ==
    ASSUME NEW S, IsFiniteSet(S), NEW s \in SUBSET S, s # {}
    PROVE  /\ Taken(s) \in s /\ Taken(s) \in S /\ s \ {Taken(s)} \in SUBSET S
           /\ Cardinality(s) \in Nat /\ Cardinality(s \ {Taken(s)}) = Cardinality(s) - 1
<1>1. Taken(s) \in s  BY DEF Taken
<1>2. IsFiniteSet(s)  BY FS_Subset
<1>3. Cardinality(s) \in Nat  BY <1>2, FS_CardinalityType
<1>4. Cardinality(s \ {Taken(s)}) = Cardinality(s) - 1  BY <1>1, <1>2, FS_RemoveElement
<1>5. QED  BY <1>1, <1>3, <1>4

(* There is a function that sums: no least size of the subsets has none.   *)
LEMMA SumUnfolds ==
    ASSUME NEW fun, IsFiniteSet(DOMAIN fun)
    PROVE  \E g : SumsOver(g, fun, SUBSET (DOMAIN fun)) /\ SumFunction(fun) = g[DOMAIN fun]
<1> DEFINE S == DOMAIN fun
           N == Cardinality(S)
           Bad == {n \in 0 .. N : ~ \E g : SumsOver(g, fun, UpTo(S, n))}
<1>1. N \in Nat  BY FS_CardinalityType
<1>2. Bad = {}
  <2> SUFFICES ASSUME Bad # {} PROVE FALSE  OBVIOUS
  <2>1. PICK n \in Bad : \A m \in Bad : n <= m
    <3>1. Bad \subseteq Nat  BY <1>1
    <3>2. QED  BY <3>1, LeastOf
  <2>2. n \in 0 .. N /\ n \in Nat  BY <1>1, <2>1
  <2>3. CASE n = 0
    <3> DEFINE g == [s \in UpTo(S, 0) |-> 0]
    <3>1. \A s \in UpTo(S, 0) : s = {}
      <4> TAKE s \in UpTo(S, 0)
      <4>1. s \in SUBSET S /\ Cardinality(s) <= 0  BY DEF UpTo
      <4>2. IsFiniteSet(s)  BY <4>1, FS_Subset
      <4>3. Cardinality(s) = 0  BY <4>1, <4>2, FS_CardinalityType
      <4>4. QED  BY <4>2, <4>3, FS_EmptySet
    <3>2. SumsOver(g, fun, UpTo(S, 0))  BY <3>1 DEF SumsOver
    <3>3. QED  BY <2>1, <2>3, <3>2
  <2>4. CASE n # 0
    <3>1. n - 1 \in 0 .. N /\ n - 1 \notin Bad
      <4>1. n - 1 \in 0 .. N /\ ~ (n <= n - 1)  BY <1>1, <2>2, <2>4
      <4> HIDE DEF Bad
      <4>2. QED  BY <2>1, <4>1
    <3>2. PICK f : SumsOver(f, fun, UpTo(S, n - 1))  BY <3>1
    <3> DEFINE T == UpTo(S, n)
               next(s) == fun[Taken(s)] + f[s \ {Taken(s)}]
               g == [s \in T |-> IF s = {} THEN 0 ELSE next(s)]
    <3>3. ASSUME NEW s \in UpTo(S, n - 1) PROVE s \in T /\ f[s] = g[s]
      <4>1. s \in SUBSET S /\ Cardinality(s) <= n - 1  BY DEF UpTo
      <4>2. Cardinality(s) \in Nat
        <5>1. IsFiniteSet(s)  BY <4>1, FS_Subset
        <5>2. QED  BY <5>1, FS_CardinalityType
      <4>3. s \in T  BY <2>2, <4>1, <4>2 DEF UpTo
      <4>4. f[s] = IF s = {} THEN 0 ELSE next(s)  BY <3>2, Zenon DEF SumsOver
      <4>5. g[s] = IF s = {} THEN 0 ELSE next(s)  BY <4>3, Zenon
      <4> HIDE DEF g, next, T
      <4>6. QED  BY <4>3, <4>4, <4>5
    <3>4. ASSUME NEW s \in T, s # {} PROVE s \ {Taken(s)} \in UpTo(S, n - 1)
      <4>1. s \in SUBSET S /\ Cardinality(s) <= n  BY <3>4 DEF UpTo
      <4>2. /\ s \ {Taken(s)} \in SUBSET S /\ Cardinality(s) \in Nat
            /\ Cardinality(s \ {Taken(s)}) = Cardinality(s) - 1
        BY <3>4, <4>1, TakenFacts
      <4>3. QED  BY <2>2, <4>1, <4>2 DEF UpTo
    <3>5. ASSUME NEW s \in T
          PROVE  g[s] = IF s = {} THEN 0 ELSE fun[Taken(s)] + g[s \ {Taken(s)}]
      <4>1. g[s] = IF s = {} THEN 0 ELSE next(s)  BY Zenon
      <4>2. s # {} => f[s \ {Taken(s)}] = g[s \ {Taken(s)}]
        <5> HIDE DEF g, T
        <5>1. QED  BY <3>3, <3>4
      <4> HIDE DEF g, T
      <4>3. QED  BY <4>1, <4>2
    <3>6. SumsOver(g, fun, T)
      <4>1. g = [s \in T |-> g[s]]  BY Zenon
      <4>2. [s \in T |-> g[s]]
              = [s \in T |-> IF s = {} THEN 0 ELSE fun[Taken(s)] + g[s \ {Taken(s)}]]
        <5> HIDE DEF g, T
        <5>1. QED  BY <3>5, Zenon
      <4> HIDE DEF g, T
      <4>3. QED  BY <4>1, <4>2, Zenon DEF SumsOver
    <3>7. QED  BY <2>1, <3>6
  <2>5. QED  BY <2>3, <2>4
<1>3. N \in 0 .. N  BY <1>1
<1>4. \E g : SumsOver(g, fun, UpTo(S, N))  BY <1>2, <1>3
<1>5. UpTo(S, N) = SUBSET S
  <2>1. \A s \in SUBSET S : Cardinality(s) <= N  BY FS_Subset
  <2>2. QED  BY <2>1 DEF UpTo
<1> DEFINE h == CHOOSE g : SumsOver(g, fun, SUBSET S)
<1>6. SumsOver(h, fun, SUBSET S)
  <2>1. \E g : SumsOver(g, fun, SUBSET S)  BY <1>4, <1>5
  <2>2. QED  BY <2>1
<1>7. SumFunction(fun) = h[S]
  BY DEF SumFunction, SumFunctionOnSet, FoldFunctionOnSet, MapThenFoldSet, SumsOver, Taken
<1>8. QED  BY <1>6, <1>7

(* A sum is a number, and sums of more are more.                           *)
LEMMA SumIsMonotone ==
    ASSUME NEW S, IsFiniteSet(S), NEW a \in [S -> Int], NEW b \in [S -> Int],
           \A x \in S : a[x] <= b[x]
    PROVE  /\ SumFunction(a) \in Int /\ SumFunction(b) \in Int
           /\ SumFunction(a) <= SumFunction(b)
<1>1. DOMAIN a = S /\ DOMAIN b = S  OBVIOUS
<1>2. PICK f : SumsOver(f, a, SUBSET S) /\ SumFunction(a) = f[S]  BY <1>1, SumUnfolds
<1>3. PICK g : SumsOver(g, b, SUBSET S) /\ SumFunction(b) = g[S]  BY <1>1, SumUnfolds
<1> DEFINE Good(s) == f[s] \in Int /\ g[s] \in Int /\ f[s] <= g[s]
           Bad == {n \in Nat : \E s \in SUBSET S : Cardinality(s) = n /\ ~ Good(s)}
<1>4. ASSUME NEW s \in SUBSET S
      PROVE  /\ f[s] = IF s = {} THEN 0 ELSE a[Taken(s)] + f[s \ {Taken(s)}]
             /\ g[s] = IF s = {} THEN 0 ELSE b[Taken(s)] + g[s \ {Taken(s)}]
  BY <1>2, <1>3, Zenon DEF SumsOver
<1>5. Bad = {}
  <2> SUFFICES ASSUME Bad # {} PROVE FALSE  OBVIOUS
  <2>1. PICK n \in Bad : \A m \in Bad : n <= m
    <3>1. Bad \subseteq Nat  OBVIOUS
    <3>2. QED  BY <3>1, LeastOf
  <2>2. n \in Nat  BY <2>1
  <2>3. PICK s \in SUBSET S : Cardinality(s) = n /\ ~ Good(s)  BY <2>1
  <2> DEFINE t == s \ {Taken(s)}
  <2>4. CASE s = {}
    <3>1. f[s] = 0 /\ g[s] = 0  BY <1>4, <2>4
    <3>2. QED  BY <2>3, <3>1
  <2>5. CASE s # {}
    <3>1. /\ Taken(s) \in S /\ t \in SUBSET S /\ Cardinality(t) = n - 1 /\ Cardinality(s) \in Nat
      BY <2>3, <2>5, TakenFacts
    <3>2. n # 0
      <4>1. IsFiniteSet(s)  BY FS_Subset
      <4>2. QED  BY <2>3, <2>5, <4>1, FS_EmptySet
    <3>3. Good(t)
      <4>1. n - 1 \in Nat /\ ~ (n <= n - 1)  BY <2>2, <3>2
      <4>2. n - 1 \notin Bad
        <5> HIDE DEF Bad
        <5>1. QED  BY <2>1, <4>1
      <4> HIDE DEF Good, t
      <4>3. QED  BY <3>1, <4>1, <4>2
    <3>4. a[Taken(s)] \in Int /\ b[Taken(s)] \in Int /\ a[Taken(s)] <= b[Taken(s)]  BY <3>1
    <3>5. f[s] = a[Taken(s)] + f[t] /\ g[s] = b[Taken(s)] + g[t]  BY <1>4, <2>5
    <3>6. QED
      <4> HIDE DEF t
      <4>1. Good(s)  BY <3>3, <3>4, <3>5
      <4>2. QED  BY <2>3, <4>1
  <2>6. QED  BY <2>4, <2>5
<1>6. Cardinality(S) \in Nat /\ S \in SUBSET S  BY FS_CardinalityType
<1>7. Good(S)
  <2> HIDE DEF Good
  <2>1. QED  BY <1>5, <1>6
<1>8. QED  BY <1>2, <1>3, <1>7

(* What is evaluated.                                                      *)
LEMMA EvaluationFacts ==
    ASSUME NEW e \in Evaluation
    PROVE  /\ e.accuracy \in 0 .. 100 /\ e.accuracy \in Int /\ e.rate \in Nat
           /\ e.recall \in [Fault -> 0 .. 100] /\ e.missed \in [Fault -> Nat]
           /\ e.wrong \in [Fault -> Nat]
BY DEF Evaluation

LEMMA EvaluatedFacts ==
    ASSUME NEW d, d \in RowResult \/ d \in Evaluation, NEW a \in AlertResult
    PROVE  /\ Evaluated(d, a) \in Evaluation
           /\ Evaluated(d, a).recall = d.recall /\ Evaluated(d, a).accuracy = d.accuracy
<1>1. d.accuracy \in 0 .. 100 /\ d.recall \in [Fault -> 0 .. 100] /\ d.rejected \in Nat
  BY DEF RowResult, Evaluation
<1>2. /\ a.rate \in Nat /\ a.missed \in [Fault -> Nat] /\ a.wrong \in [Fault -> Nat]
      /\ a.latency \in Nat \cup {NoValue}
  BY DEF AlertResult
<1>3. Evaluated(d, a) \in Evaluation  BY <1>1, <1>2 DEF Evaluated, Evaluation
<1>4. QED  BY <1>3 DEF Evaluated

LEMMA DeltaFacts ==
    ASSUME NEW x \in Int, NEW y \in Int
    PROVE  /\ Delta(x, y).before = x /\ Delta(x, y).after = y
           /\ Delta(x, y).absolute_change = y - x
<1>1. NoValue # x /\ NoValue # y  BY StudyAssumption
<1>2. QED  BY <1>1 DEF Delta

LEMMA LeastRecall ==
    ASSUME NEW e \in Evaluation, NEW k \in Nat
    PROVE  Min(Range(e.recall)) <= k <=> \E f \in Fault : e.recall[f] <= k
<1> DEFINE r == e.recall
           R == Range(r)
<1>1. r \in [Fault -> 0 .. 100]  BY EvaluationFacts
<1> HIDE DEF r
<1>2. R = {r[f] : f \in Fault}  BY <1>1 DEF Range
<1>3. R \subseteq Nat /\ R # {}
  <2>1. PICK f \in Fault : TRUE  BY StudyAssumption
  <2>2. r[f] \in R  BY <1>2
  <2>3. \A g \in Fault : r[g] \in Nat  BY <1>1
  <2> HIDE DEF R
  <2>4. QED  BY <1>2, <2>2, <2>3
<1>4. Min(R) \in R /\ \A y \in R : Min(R) <= y  BY <1>3, LeastOf
<1>5. Min(R) \in Nat  BY <1>3, <1>4
<1>6. ASSUME NEW f \in Fault, r[f] <= k PROVE Min(R) <= k
  <2>1. r[f] \in R /\ r[f] \in Nat  BY <1>1, <1>2
  <2>2. Min(R) <= r[f]  BY <1>4, <2>1
  <2> HIDE DEF R
  <2>3. QED  BY <1>5, <1>6, <2>1, <2>2
<1>7. ASSUME Min(R) <= k PROVE \E f \in Fault : r[f] <= k
  <2>1. PICK f \in Fault : r[f] = Min(R)  BY <1>2, <1>4
  <2>2. QED  BY <1>7, <2>1
<1>8. QED  BY <1>6, <1>7 DEF r

(* The two judgements in the same words.                                   *)
Collapses(e) ==
    \/ \E f \in Fault : e.recall[f] <= 20
    \/ \E f \in Fault : MissedOver(e, f, 50)
    \/ e.rate > 50
    \/ e.accuracy <= 40

Drop(id, e) == id.accuracy - e.accuracy

LEMMA VerdictMeans ==
    ASSUME NEW id \in Evaluation, NEW e \in Evaluation
    PROVE  LET v == DetermineOodVerdict(e, CompareIdVsOod(id, e))
           IN  /\ v = "does not generalize" <=> Collapses(e)
               /\ v = "acceptable" <=> /\ ~ Collapses(e) /\ Drop(id, e) <= 10 /\ e.rate <= 10
                                       /\ \A f \in Fault : ~ MissedOver(e, f, 25)
<1> DEFINE d == CompareIdVsOod(id, e).accuracy.absolute_change
           ok == /\ d # NoValue /\ -d <= 10 /\ e.rate <= 10
                 /\ \A f \in Fault : ~ MissedOver(e, f, 25)
           v == DetermineOodVerdict(e, CompareIdVsOod(id, e))
<1>1. id.accuracy \in Int /\ e.accuracy \in Int  BY EvaluationFacts
<1>2. d = e.accuracy - id.accuracy  BY <1>1, DeltaFacts DEF CompareIdVsOod, Compare
<1>3. d \in Int /\ d # NoValue /\ -d = Drop(id, e)  BY <1>1, <1>2, StudyAssumption DEF Drop
<1>4. v = CASE Collapses(e) -> "does not generalize"
            [] ~ Collapses(e) /\ ok -> "acceptable"
            [] OTHER -> "material degradation"
  BY DEF DetermineOodVerdict, Collapses, OodConfig
<1>5. ok <=> /\ Drop(id, e) <= 10 /\ e.rate <= 10
             /\ \A f \in Fault : ~ MissedOver(e, f, 25)
  <2> HIDE DEF d
  <2>1. QED  BY <1>3
<1> HIDE DEF ok, v
<1>6. /\ v = "does not generalize" <=> Collapses(e)
      /\ v = "acceptable" <=> ~ Collapses(e) /\ ok
  BY <1>4
<1>7. QED  BY <1>5, <1>6 DEF v

Tiers == {"minor", "moderate", "major", "catastrophic"}

LEMMA TierMeans ==
    ASSUME NEW id \in Evaluation, NEW e \in Evaluation
    PROVE  LET x == ComputeShiftDamage(id, e)
           IN  /\ x.drop = Drop(id, e) /\ x.drop \in -100 .. 100 /\ x.tier \in Tiers
               /\ x.tier = "catastrophic" <=> Collapses(e)
               /\ x.tier = "major" => \/ x.drop > 15 \/ e.rate > 10
                                      \/ \E f \in Fault : MissedOver(e, f, 25)
               /\ x.tier = "minor" => /\ ~ Collapses(e) /\ x.drop <= 5 /\ e.rate <= 5
                                      /\ \A f \in Fault : e.missed[f] = 0
<1> DEFINE x == ComputeShiftDamage(id, e)
           d == Drop(id, e)
<1>1. /\ id.accuracy \in Int /\ e.accuracy \in Int
      /\ id.accuracy \in 0 .. 100 /\ e.accuracy \in 0 .. 100
  BY EvaluationFacts
<1>2. CompareIdVsOod(id, e).accuracy.absolute_change = e.accuracy - id.accuracy
  BY <1>1, DeltaFacts DEF CompareIdVsOod, Compare
<1>3. -(e.accuracy - id.accuracy) = d  BY <1>1 DEF Drop
<1>4. x.drop = d /\ x.tier = ClassifyShift(d, e)  BY <1>2, <1>3 DEF ComputeShiftDamage
<1>5. d \in -100 .. 100
  <2>1. ASSUME NEW p \in 0 .. 100, NEW q \in 0 .. 100 PROVE p - q \in -100 .. 100  OBVIOUS
  <2>2. QED  BY <1>1, <2>1 DEF Drop
<1> HIDE DEF d, x
<1>6. Min(Range(e.recall)) <= 20 <=> \E f \in Fault : e.recall[f] <= 20  BY LeastRecall
<1>7. ClassifyShift(d, e) =
        IF Collapses(e) THEN "catastrophic"
        ELSE IF d > 15 \/ e.rate > 10 \/ \E f \in Fault : MissedOver(e, f, 25) THEN "major"
        ELSE IF d <= 5 /\ e.rate <= 5 /\ \A f \in Fault : e.missed[f] = 0 THEN "minor"
        ELSE "moderate"
  BY <1>6 DEF ClassifyShift, Collapses, ShiftConfig, OodConfig
<1>8. QED  BY <1>4, <1>5, <1>7 DEF Tiers, x, d

Judgement(id, e) ==
    [verdict |-> DetermineOodVerdict(e, CompareIdVsOod(id, e)),
     damage |-> ComputeShiftDamage(id, e)]

(* The verdict of one package and the tier of the other fit.               *)
Fits(v) ==
    /\ (v.verdict = "does not generalize") <=> (v.damage.tier = "catastrophic")
    /\ v.verdict = "acceptable" => v.damage.tier \in {"minor", "moderate"}
    /\ v.damage.tier = "minor" => v.verdict = "acceptable"

LEMMA JudgementsFit ==
    ASSUME NEW id \in Evaluation, NEW e \in Evaluation
    PROVE  Fits(Judgement(id, e))
<1> DEFINE v == DetermineOodVerdict(e, CompareIdVsOod(id, e))
           x == ComputeShiftDamage(id, e)
<1>1. /\ v = "does not generalize" <=> Collapses(e)
      /\ v = "acceptable" <=> /\ ~ Collapses(e) /\ Drop(id, e) <= 10 /\ e.rate <= 10
                              /\ \A f \in Fault : ~ MissedOver(e, f, 25)
  BY VerdictMeans
<1>2. /\ x.drop = Drop(id, e) /\ x.drop \in -100 .. 100 /\ x.tier \in Tiers
      /\ x.tier = "catastrophic" <=> Collapses(e)
      /\ x.tier = "major" => \/ x.drop > 15 \/ e.rate > 10
                             \/ \E f \in Fault : MissedOver(e, f, 25)
      /\ x.tier = "minor" => /\ ~ Collapses(e) /\ x.drop <= 5 /\ e.rate <= 5
                             /\ \A f \in Fault : e.missed[f] = 0
  BY TierMeans
<1>3. e.rate \in Nat /\ e.missed \in [Fault -> Nat]  BY EvaluationFacts
<1>4. ASSUME NEW f \in Fault, e.missed[f] = 0 PROVE ~ MissedOver(e, f, 25)
  BY <1>4, StudyAssumption DEF MissedOver
<1> HIDE DEF v, x
<1>5. v = "acceptable" => x.tier \in {"minor", "moderate"}
  <2>1. v = "acceptable" => x.tier # "catastrophic" /\ x.tier # "major"
    BY <1>1, <1>2, <1>3
  <2>2. QED  BY <1>2, <2>1 DEF Tiers
<1>6. x.tier = "minor" => v = "acceptable"
  <2>1. x.drop <= 5 => x.drop <= 10  BY <1>2
  <2>2. e.rate <= 5 => e.rate <= 10  BY <1>3
  <2>3. QED  BY <1>1, <1>2, <1>4, <2>1, <2>2
<1>7. Judgement(id, e).verdict = v /\ Judgement(id, e).damage = x  BY DEF Judgement, v, x
<1>8. QED  BY <1>1, <1>2, <1>5, <1>6, <1>7 DEF Fits

(* Rankings.                                                               *)
LEMMA ShiftFacts ==
    /\ Len(Shift) \in Nat \ {0} /\ IsFiniteSet(Shifts) /\ Cardinality(Shifts) = Len(Shift)
    /\ \A n \in Shifts : PlaceOf(n) \in 1 .. Len(Shift) /\ Shift[PlaceOf(n)] = n
<1> DEFINE N == Len(Shift)
<1>1. N \in Nat /\ Shift \in [1 .. N -> Shifts] /\ DOMAIN Shift = 1 .. N  BY StudyAssumption
<1>2. \A n \in Shifts : \E i \in 1 .. N : Shift[i] = n  BY <1>1 DEF Shifts, Range
<1>3. \A i, j \in 1 .. N : Shift[i] = Shift[j] => i = j  BY StudyAssumption
<1> HIDE DEF N
<1>4. Shift \in Bijection(1 .. N, Shifts)
  <2>1. Shift \in Injection(1 .. N, Shifts)  BY <1>1, <1>3 DEF Injection, IsInjective
  <2>2. Shift \in Surjection(1 .. N, Shifts)  BY <1>1, <1>2 DEF Surjection
  <2>3. QED  BY <2>1, <2>2 DEF Bijection
<1>5. ExistsBijection(1 .. N, Shifts)  BY <1>4 DEF ExistsBijection
<1>6. IsFiniteSet(Shifts) /\ Cardinality(Shifts) = N
  BY <1>1, <1>5, FS_NatBijection, FS_CountingElements
<1>7. N # 0
  <2>1. PICK i \in 1 .. N : Shift[i] = HighNoise  BY <1>2, StudyAssumption
  <2>2. QED  BY <1>1, <2>1
<1>8. ASSUME NEW n \in Shifts PROVE PlaceOf(n) \in 1 .. N /\ Shift[PlaceOf(n)] = n
  BY <1>1, <1>2 DEF PlaceOf
<1>9. QED  BY <1>1, <1>6, <1>7, <1>8 DEF N

Above(key, n) == {m \in Shifts : Outranks(key, m, n)}

LEMMA OutranksIsAnOrder ==
    ASSUME NEW key \in [Shifts -> Int]
    PROVE  /\ \A n \in Shifts : ~ Outranks(key, n, n)
           /\ \A l, m, n \in Shifts :
                 Outranks(key, l, m) /\ Outranks(key, m, n) => Outranks(key, l, n)
           /\ \A m, n \in Shifts : m = n \/ Outranks(key, m, n) \/ Outranks(key, n, m)
<1>1. ASSUME NEW n \in Shifts PROVE key[n] \in Int /\ PlaceOf(n) \in Nat /\ Shift[PlaceOf(n)] = n
  BY ShiftFacts
<1>2. ASSUME NEW n \in Shifts PROVE ~ Outranks(key, n, n)  BY <1>1 DEF Outranks
<1>3. ASSUME NEW l \in Shifts, NEW m \in Shifts, NEW n \in Shifts,
             Outranks(key, l, m), Outranks(key, m, n)
      PROVE  Outranks(key, l, n)
  <2>1. /\ key[l] \in Int /\ key[m] \in Int /\ key[n] \in Int
        /\ PlaceOf(l) \in Nat /\ PlaceOf(m) \in Nat /\ PlaceOf(n) \in Nat
    BY <1>1
  <2>2. QED  BY <1>3, <2>1 DEF Outranks
<1>4. ASSUME NEW m \in Shifts, NEW n \in Shifts, m # n
      PROVE  Outranks(key, m, n) \/ Outranks(key, n, m)
  <2>1. /\ key[m] \in Int /\ key[n] \in Int /\ PlaceOf(m) \in Nat /\ PlaceOf(n) \in Nat
        /\ PlaceOf(m) # PlaceOf(n)
    BY <1>1, <1>4
  <2>2. QED  BY <2>1 DEF Outranks
<1>5. QED  BY <1>2, <1>3, <1>4

LEMMA RankFacts ==
    ASSUME NEW key \in [Shifts -> Int]
    PROVE  /\ \A n \in Shifts : /\ IsFiniteSet(Above(key, n))
                                /\ Cardinality(Above(key, n)) \in 0 .. Len(Shift) - 1
           /\ \A m, n \in Shifts :
                Outranks(key, m, n) => Cardinality(Above(key, m)) < Cardinality(Above(key, n))
<1> DEFINE N == Len(Shift)
<1>1. N \in Nat \ {0} /\ IsFiniteSet(Shifts) /\ Cardinality(Shifts) = N  BY ShiftFacts
<1> HIDE DEF N
<1>2. ASSUME NEW n \in Shifts
      PROVE  /\ IsFiniteSet(Above(key, n)) /\ Cardinality(Above(key, n)) \in Nat
             /\ Cardinality(Above(key, n)) \in 0 .. N - 1
  <2> DEFINE A == Above(key, n)
  <2>1. A \in SUBSET (Shifts \ {n})  BY OutranksIsAnOrder DEF Above
  <2>2. IsFiniteSet(Shifts \ {n}) /\ Cardinality(Shifts \ {n}) = N - 1  BY <1>1, FS_RemoveElement
  <2>3. IsFiniteSet(A) /\ Cardinality(A) <= N - 1  BY <2>1, <2>2, FS_Subset
  <2>4. Cardinality(A) \in Nat  BY <2>3, FS_CardinalityType
  <2> HIDE DEF A
  <2>5. Cardinality(A) \in 0 .. N - 1  BY <1>1, <2>3, <2>4
  <2>6. QED  BY <2>3, <2>4, <2>5 DEF A
<1>3. ASSUME NEW m \in Shifts, NEW n \in Shifts, Outranks(key, m, n)
      PROVE  Cardinality(Above(key, m)) < Cardinality(Above(key, n))
  <2> DEFINE A == Above(key, m)
             B == Above(key, n)
  <2>1. A \in SUBSET B  BY <1>3, OutranksIsAnOrder DEF Above
  <2>2. m \in B /\ m \notin A  BY <1>3, OutranksIsAnOrder DEF Above
  <2>3. IsFiniteSet(B) /\ Cardinality(A) \in Nat /\ Cardinality(B) \in Nat  BY <1>2
  <2> HIDE DEF A, B
  <2>4. Cardinality(A) <= Cardinality(B) /\ (Cardinality(B) = Cardinality(A) => B = A)
    BY <2>1, <2>3, FS_Subset
  <2>5. Cardinality(A) < Cardinality(B)  BY <2>2, <2>3, <2>4
  <2>6. QED  BY <2>5 DEF A, B
<1>4. QED  BY <1>2, <1>3 DEF N

(* The ranking holds every shift, and nothing is worse than its first.     *)
Ranks(q, key) ==
    /\ q \in [1 .. Len(Shift) -> Shifts] /\ q \in Seq(Shifts) /\ Len(q) = Len(Shift)
    /\ \A n \in Shifts : \E k \in 1 .. Len(Shift) : q[k] = n
    /\ \A n \in Shifts : key[n] <= key[q[1]]

LEMMA SortedFacts ==
    ASSUME NEW key \in [Shifts -> Int]
    PROVE  Ranks(SortedBy(key), key)
<1> DEFINE N == Len(Shift)
           q == SortedBy(key)
           rank == [n \in Shifts |-> Cardinality(Above(key, n))]
<1>1. N \in Nat \ {0} /\ IsFiniteSet(Shifts) /\ Cardinality(Shifts) = N  BY ShiftFacts
<1>2. /\ rank \in [Shifts -> 0 .. N - 1]
      /\ \A m, n \in Shifts : Outranks(key, m, n) => rank[m] < rank[n]
  BY RankFacts
<1> HIDE DEF N
<1>3. \A n \in Shifts : rank[n] \in Nat  BY <1>1, <1>2
<1>4. ASSUME NEW m \in Shifts, NEW n \in Shifts, rank[m] = rank[n] PROVE m = n
  <2>1. ~ (rank[m] < rank[n]) /\ ~ (rank[n] < rank[m])
    <3> HIDE DEF rank
    <3>1. QED  BY <1>3, <1>4
  <2> HIDE DEF rank
  <2>2. QED  BY <1>2, <2>1, OutranksIsAnOrder
<1>5. \A k \in 0 .. N - 1 : \E n \in Shifts : rank[n] = k
  <2> HIDE DEF rank
  <2>1. rank \in Injection(Shifts, 0 .. N - 1)  BY <1>2, <1>4 DEF Injection, IsInjective
  <2>2. IsFiniteSet(0 .. N - 1) /\ Cardinality(0 .. N - 1) = N
    <3>1. 0 \in Int /\ N - 1 \in Int  BY <1>1
    <3>2. /\ IsFiniteSet(0 .. N - 1)
          /\ Cardinality(0 .. N - 1) = IF 0 > N - 1 THEN 0 ELSE N - 1 - 0 + 1
      BY <3>1, FS_Interval
    <3>3. QED  BY <1>1, <3>2
  <2>3. rank \in Surjection(Shifts, 0 .. N - 1)  BY <1>1, <2>1, <2>2, FS_Injection
  <2>4. QED  BY <2>3 DEF Surjection
<1> DEFINE nth(k) == CHOOSE n \in Shifts :
                      Cardinality({m \in Shifts : Outranks(key, m, n)}) = k - 1
<1>a. q = [k \in 1 .. N |-> nth(k)]  BY DEF SortedBy, N
<1>6. ASSUME NEW k \in 1 .. N PROVE q[k] \in Shifts /\ rank[q[k]] = k - 1
  <2>1. k - 1 \in 0 .. N - 1  BY <1>1
  <2>2. \E n \in Shifts : Cardinality({m \in Shifts : Outranks(key, m, n)}) = k - 1
    BY <1>5, <2>1 DEF Above
  <2>a. nth(k) \in Shifts /\ Cardinality({m \in Shifts : Outranks(key, m, nth(k))}) = k - 1
    BY <2>2
  <2> HIDE DEF nth, q
  <2>3. q[k] = nth(k)  BY <1>a
  <2>4. q[k] \in Shifts /\ Cardinality({m \in Shifts : Outranks(key, m, q[k])}) = k - 1
    BY <2>a, <2>3
  <2>5. QED  BY <2>4 DEF Above
<1>7. q \in [1 .. N -> Shifts]
  <2> HIDE DEF q, nth
  <2>1. q = [k \in 1 .. N |-> q[k]]  BY <1>a
  <2>2. QED  BY <1>6, <2>1
<1> HIDE DEF q, nth
<1>8. q \in Seq(Shifts) /\ Len(q) = N  BY <1>1, <1>7
<1>9. ASSUME NEW n \in Shifts PROVE \E k \in 1 .. N : q[k] = n
  <2> HIDE DEF rank
  <2>1. PICK k \in 1 .. N : k = rank[n] + 1
    <3>1. rank[n] + 1 \in 1 .. N  BY <1>1, <1>2
    <3>2. QED  BY <3>1
  <2>2. q[k] \in Shifts /\ rank[q[k]] = k - 1  BY <1>6
  <2>3. rank[q[k]] = rank[n]  BY <1>3, <2>1, <2>2
  <2>4. q[k] = n  BY <1>4, <2>2, <2>3
  <2>5. QED  BY <2>4
<1>10. ASSUME NEW n \in Shifts PROVE key[n] <= key[q[1]]
  <2>1. 1 \in 1 .. N  BY <1>1
  <2>2. q[1] \in Shifts /\ rank[q[1]] = 0
    <3> HIDE DEF rank
    <3>1. QED  BY <1>6, <2>1
  <2>3. ~ Outranks(key, n, q[1])
    <3> HIDE DEF rank
    <3>1. ~ (rank[n] < 0)  BY <1>3
    <3>2. QED  BY <1>2, <2>2, <3>1
  <2>4. key[n] \in Int /\ key[q[1]] \in Int  BY <2>2
  <2>5. QED  BY <2>3, <2>4 DEF Outranks
<1>11. QED  BY <1>7, <1>8, <1>9, <1>10 DEF Ranks, N, q

(* The study.                                                              *)
LEMMA TierRanks ==
    /\ TierRank("minor") = 1 /\ TierRank("moderate") = 2
    /\ TierRank("major") = 3 /\ TierRank("catastrophic") = 4
<1>1. DOMAIN TierOrder = {1, 2, 3, 4}  BY DEF TierOrder
<1>2. /\ TierOrder[1] = "minor" /\ TierOrder[2] = "moderate"
      /\ TierOrder[3] = "major" /\ TierOrder[4] = "catastrophic"
  BY DEF TierOrder
<1>3. QED  BY <1>1, <1>2 DEF TierRank

LEMMA LargestOf ==
    ASSUME NEW S, S # {}, \A x \in S : x \in -100 .. 100
    PROVE  Max(S) \in S /\ Max(S) \in Int /\ \A y \in S : y <= Max(S)
<1> DEFINE T == {100 - x : x \in S}
<1>1. T \subseteq Nat /\ T # {}  OBVIOUS
<1>2. Min(T) \in T /\ \A y \in T : Min(T) <= y  BY <1>1, LeastOf
<1>3. PICK x \in S : Min(T) = 100 - x  BY <1>2
<1>4. \A y \in S : y <= x
  <2> TAKE y \in S
  <2>1. 100 - y \in T /\ y \in Int /\ x \in Int  OBVIOUS
  <2>2. 100 - x <= 100 - y
    <3> HIDE DEF T
    <3>1. QED  BY <1>2, <1>3, <2>1
  <2>3. QED  BY <2>1, <2>2
<1>5. \E z \in S : \A y \in S : z >= y  BY <1>4
<1>6. Max(S) \in S /\ \A y \in S : Max(S) >= y  BY <1>5 DEF Max
<1>7. QED  BY <1>6

(* What is left of a list from a place on.                                 *)
LEMMA RestOf ==
    ASSUME NEW T, NEW q \in Seq(T), NEW i \in Nat \ {0}, i <= Len(q) + 1
    PROVE  Range(SubSeq(q, i, Len(q))) = {q[k] : k \in i .. Len(q)}
<1> DEFINE r == SubSeq(q, i, Len(q))
           n == Len(q)
<1>1. n \in Nat  OBVIOUS
<1>2. /\ Len(r) = n - i + 1 /\ DOMAIN r = 1 .. n - i + 1
      /\ \A k \in 1 .. n - i + 1 : r[k] = q[i + k - 1]
  OBVIOUS
<1> HIDE DEF r, n
<1>3. ASSUME NEW k \in 1 .. n - i + 1 PROVE r[k] \in {q[j] : j \in i .. n}
  <2>1. i + k - 1 \in i .. n  BY <1>1
  <2>2. QED  BY <1>2, <2>1
<1>4. ASSUME NEW j \in i .. n PROVE q[j] \in {r[k] : k \in 1 .. n - i + 1}
  <2>1. j - i + 1 \in 1 .. n - i + 1 /\ i + (j - i + 1) - 1 = j  BY <1>1
  <2>2. r[j - i + 1] = q[j]  BY <1>2, <2>1
  <2>3. QED  BY <2>1, <2>2
<1>5. Range(r) = {r[k] : k \in 1 .. n - i + 1}  BY <1>2 DEF Range
<1>6. Range(r) = {q[j] : j \in i .. n}  BY <1>3, <1>4, <1>5
<1>7. QED  BY <1>6 DEF r, n

Damages(d) == \A n \in Shifts : d[n].tier \in Tiers /\ d[n].drop \in -100 .. 100

Tier(d, n) == TierRank(d[n].tier)

LEMMA TierFacts ==
    ASSUME NEW d, Damages(d), NEW n \in Shifts
    PROVE  Tier(d, n) \in 1 .. 4 /\ Tier(d, n) \in Int /\ d[n].drop \in Int
BY TierRanks DEF Damages, Tiers, Tier

(* The first failure is the worst, and no shift is lost.                   *)
LEMMA AttributionFacts ==
    ASSUME NEW d, Damages(d), NEW q, q = RankedByTier(d),
           NEW second, second = SecondaryFailure(d, q)
    PROVE  /\ q[1] \in Shifts /\ \A n \in Shifts : Tier(d, n) <= Tier(d, q[1])
           /\ second # NoValue => second \in Shifts /\ Tier(d, second) >= 2
           /\ Shifts = Range(SubSeq(q, IF second = NoValue THEN 2 ELSE 3, Len(q)))
                         \cup ({q[1], second} \ {NoValue})
<1> DEFINE key == [n \in Shifts |-> 1000 * Tier(d, n) + d[n].drop]
           N == Len(Shift)
           i == IF second = NoValue THEN 2 ELSE 3
<1>1. key \in [Shifts -> Int]  BY TierFacts
<1>2. q = SortedBy(key)  BY DEF RankedByTier, Tier
<1>3. Ranks(q, key)
  <2> HIDE DEF key
  <2>1. QED  BY <1>1, <1>2, SortedFacts
<1>4. N \in Nat \ {0}  BY ShiftFacts
<1>5. /\ q \in [1 .. N -> Shifts] /\ q \in Seq(Shifts) /\ Len(q) = N
      /\ \A n \in Shifts : \E k \in 1 .. N : q[k] = n
      /\ \A n \in Shifts : key[n] <= key[q[1]]
  <2> HIDE DEF key
  <2>1. QED  BY <1>3 DEF Ranks
<1>6. q[1] \in Shifts  BY <1>4, <1>5
<1>7. ASSUME NEW n \in Shifts PROVE Tier(d, n) <= Tier(d, q[1])
  <2> DEFINE p == q[1]
  <2>1. key[n] = 1000 * Tier(d, n) + d[n].drop /\ key[p] = 1000 * Tier(d, p) + d[p].drop
    <3> HIDE DEF p
    <3>1. p \in Shifts  BY <1>6 DEF p
    <3>2. QED  BY <3>1
  <2>2. /\ Tier(d, n) \in 1 .. 4 /\ Tier(d, p) \in 1 .. 4
        /\ d[n].drop \in -100 .. 100 /\ d[p].drop \in -100 .. 100
    BY <1>6, TierFacts DEF Damages
  <2> HIDE DEF key
  <2>3. key[n] <= key[p]  BY <1>5
  <2> HIDE DEF p
  <2>4. Tier(d, n) <= Tier(d, p)
    <3> DEFINE s == Tier(d, n)
               t == Tier(d, p)
               x == d[n].drop
               y == d[p].drop
    <3>1. /\ s \in 1 .. 4 /\ t \in 1 .. 4 /\ x \in -100 .. 100 /\ y \in -100 .. 100
          /\ 1000 * s + x <= 1000 * t + y
      BY <2>1, <2>2, <2>3
    <3> HIDE DEF s, t, x, y
    <3>2. s <= t  BY <3>1
    <3>3. QED  BY <3>2 DEF s, t
  <2>5. QED  BY <2>4 DEF p
<1> HIDE DEF N
<1>8. second # NoValue => N > 1 /\ second = q[2] /\ Tier(d, q[2]) >= 2
  BY <1>5, TierRanks DEF SecondaryFailure, Tier
<1>9. second # NoValue => second \in Shifts
  <2>1. N > 1 => 2 \in 1 .. N  BY <1>4
  <2>2. QED  BY <1>5, <1>8, <2>1
<1>10. Range(SubSeq(q, i, Len(q))) = {q[k] : k \in i .. N}
  <2>1. i \in Nat \ {0} /\ i <= Len(q) + 1  BY <1>4, <1>5, <1>8
  <2> HIDE DEF i
  <2>2. QED  BY <1>5, <2>1, RestOf
<1>11. {q[k] : k \in i .. N} \cup ({q[1], second} \ {NoValue}) \subseteq Shifts
  <2>1. \A k \in i .. N : k \in 1 .. N  BY <1>4
  <2>2. \A k \in i .. N : q[k] \in Shifts
    <3> HIDE DEF i
    <3>1. QED  BY <1>5, <2>1
  <2> HIDE DEF i
  <2>3. QED  BY <1>6, <1>9, <2>2
<1>12. ASSUME NEW n \in Shifts
       PROVE  n \in {q[k] : k \in i .. N} \cup ({q[1], second} \ {NoValue})
  <2>1. PICK k \in 1 .. N : q[k] = n  BY <1>5
  <2>2. n # NoValue  BY StudyAssumption
  <2>3. k \in i .. N \/ k = 1 \/ (k = 2 /\ second # NoValue)  BY <1>4
  <2> HIDE DEF i
  <2>4. QED  BY <1>8, <2>1, <2>2, <2>3
<1>13. Shifts = Range(SubSeq(q, i, Len(q))) \cup ({q[1], second} \ {NoValue})
  <2> HIDE DEF i
  <2>1. QED  BY <1>10, <1>11, <1>12
<1>14. QED  BY <1>6, <1>7, <1>8, <1>9, <1>13

(* Combined damage that goes beyond the shifts' is worse than each.        *)
LEMMA InteractionFacts ==
    ASSUME NEW d, Damages(d), NEW x, x = NoValue \/ x.drop \in Int,
           InteractionLikelihood(x, d) = "yes"
    PROVE  x # NoValue /\ \A n \in Shifts : x.drop >= d[n].drop
<1> DEFINE S == {d[n].drop : n \in Shifts}
           m == Max(S)
<1>1. S # {} /\ \A y \in S : y \in -100 .. 100
  <2>1. d[HighNoise].drop \in S  BY StudyAssumption
  <2>2. QED  BY <2>1 DEF Damages
<1>2. m \in Int /\ \A y \in S : y <= m
  <2> HIDE DEF S
  <2>1. QED  BY <1>1, LargestOf
<1>3. x # NoValue /\ ~ (m <= 0) /\ ~ (x.drop * 100 <= m * 115)
  BY DEF InteractionLikelihood, ShiftConfig
<1>4. ASSUME NEW n \in Shifts PROVE x.drop >= d[n].drop
  <2>1. d[n].drop \in S  OBVIOUS
  <2>2. d[n].drop <= m /\ d[n].drop \in Int
    <3>1. d[n].drop \in Int  BY <1>1, <2>1
    <3> HIDE DEF S, m
    <3>2. QED  BY <1>2, <2>1, <3>1
  <2> HIDE DEF m
  <2>3. x.drop \in Int  BY <1>3
  <2>4. QED  BY <1>2, <1>3, <2>2, <2>3
<1>5. QED  BY <1>3, <1>4

LEMMA AdviceNamesThePrimary ==
    ASSUME NEW d, Damages(d), NEW x, DetermineRecommendation(d, x) = "B",
           NEW p \in Shifts, \A n \in Shifts : Tier(d, n) <= Tier(d, p)
    PROVE  p = HighLoad
<1>1. MajorOrWorse(d) = {HighLoad}  BY DEF DetermineRecommendation
<1>2. MajorOrWorse(d) = {n \in Shifts : Tier(d, n) >= 3}  BY TierRanks DEF MajorOrWorse, Tier
<1>3. HighLoad \in Shifts /\ Tier(d, HighLoad) >= 3  BY <1>1, <1>2
<1>4. Tier(d, HighLoad) \in Int /\ Tier(d, p) \in Int  BY <1>3, TierFacts
<1>5. Tier(d, p) >= 3  BY <1>3, <1>4
<1>6. QED  BY <1>1, <1>2, <1>5

(* What a study says of the damages it was made of.                        *)
Tells(s, d) ==
    /\ s.primary \in Shifts /\ \A n \in Shifts : Tier(d, n) <= Tier(d, s.primary)
    /\ s.secondary # NoValue => s.secondary \in Shifts /\ Tier(d, s.secondary) >= 2
    /\ Shifts = Range(s.minor) \cup ({s.primary, s.secondary} \ {NoValue})
    /\ s.recommendation = "B" => s.primary = HighLoad

LEMMA StudyTells ==
    ASSUME NEW d, Damages(d), NEW x, x = NoValue \/ x.drop \in Int
    PROVE  LET s == DetermineStudyVerdict(d, x)
           IN  /\ Tells(s, d)
               /\ s.interaction = "yes" => x # NoValue /\ \A n \in Shifts : x.drop >= d[n].drop
<1> DEFINE q == RankedByTier(d)
           second == SecondaryFailure(d, q)
           rest == SubSeq(q, IF second = NoValue THEN 2 ELSE 3, Len(q))
           s == DetermineStudyVerdict(d, x)
<1>1. /\ s.primary = q[1] /\ s.secondary = second /\ s.minor = rest
      /\ s.interaction = InteractionLikelihood(x, d)
      /\ s.recommendation = DetermineRecommendation(d, x)
  BY DEF DetermineStudyVerdict
<1>2. /\ q[1] \in Shifts /\ \A n \in Shifts : Tier(d, n) <= Tier(d, q[1])
      /\ second # NoValue => second \in Shifts /\ Tier(d, second) >= 2
      /\ Shifts = Range(rest) \cup ({q[1], second} \ {NoValue})
  BY AttributionFacts
<1> HIDE DEF q, second, rest, s
<1>3. s.recommendation = "B" => s.primary = HighLoad  BY <1>1, <1>2, AdviceNamesThePrimary
<1>4. s.interaction = "yes" => x # NoValue /\ \A n \in Shifts : x.drop >= d[n].drop
  BY <1>1, InteractionFacts
<1>5. QED  BY <1>1, <1>2, <1>3, <1>4 DEF Tells, s

(***************************************************************************)
(* What the studies have said follows from what was evaluated: a verdict   *)
(* is the judgement of the cohort's evaluation, and is there exactly when  *)
(* that is.  A study is made of verdicts that do not change any more; the  *)
(* combined cohort may be evaluated after it, but then the study has not   *)
(* called its damage more than the shifts explain.                         *)
(***************************************************************************)
VerdictsInv ==
    /\ original \in [Cohort -> Evaluation \cup {NoValue}]
    /\ original[Pilot] = Baseline[Pilot]
    /\ verdict[Pilot] = NoValue /\ DOMAIN verdict = Cohort
    /\ \A c \in Cohort \ {Pilot} :
          verdict[c] = IF original[c] = NoValue THEN NoValue
                       ELSE Judgement(Baseline[Pilot], original[c])

StudyInv ==
    study # NoValue =>
        /\ \A n \in Shifts : original[n] # NoValue
        /\ Tells(study, [n \in Shifts |-> verdict[n].damage])
        /\ study.interaction = "yes" =>
              /\ original[Combined] # NoValue
              /\ \A n \in Shifts : verdict[Combined].damage.drop >= verdict[n].damage.drop

LEMMA CohortFacts ==
    /\ Pilot \in Cohort /\ Combined \in Cohort \ {Pilot} /\ Shifts \subseteq Cohort \ {Pilot}
    /\ HighNoise \in Shifts /\ Combined \notin Shifts
    /\ Baseline[Pilot] \in Evaluation
<1>1. Pilot \in Compared  BY DEF Compared
<1>2. QED  BY <1>1, StudyAssumption, ResultsAssumption DEF Cohort

LEMMA DamageFacts ==
    ASSUME VerdictsInv, NEW c \in Cohort \ {Pilot}, original[c] # NoValue
    PROVE  /\ verdict[c] = Judgement(Baseline[Pilot], original[c])
           /\ original[c] \in Evaluation
           /\ verdict[c].damage.tier \in Tiers /\ verdict[c].damage.drop \in -100 .. 100
           /\ Fits(verdict[c])
<1> DEFINE b == Baseline[Pilot]
           e == original[c]
<1>1. e \in Evaluation /\ verdict[c] = Judgement(b, e)  BY DEF VerdictsInv
<1>2. b \in Evaluation  BY CohortFacts
<1> HIDE DEF b, e
<1>3. ComputeShiftDamage(b, e).tier \in Tiers /\ ComputeShiftDamage(b, e).drop \in -100 .. 100
  BY <1>1, <1>2, TierMeans
<1>4. Judgement(b, e).damage = ComputeShiftDamage(b, e)  BY DEF Judgement
<1>5. Fits(Judgement(b, e))  BY <1>1, <1>2, JudgementsFit
<1>6. QED  BY <1>1, <1>3, <1>4, <1>5 DEF b, e

LEMMA StudiesInit ==
    ASSUME PromotionInit
    PROVE  VerdictsInv /\ StudyInv
<1>1. /\ original = [c \in Cohort |-> IF c = Pilot THEN Baseline[Pilot] ELSE NoValue]
      /\ verdict = [c \in Cohort |-> NoValue] /\ study = NoValue
  BY DEF PromotionInit
<1>2. VerdictsInv  BY <1>1, CohortFacts DEF VerdictsInv
<1>3. QED  BY <1>1, <1>2 DEF StudyInv

LEMMA StudiesRunOod ==
    ASSUME VerdictsInv, StudyInv,
           NEW c \in Shifts \cup {Combined}, NEW e \in ShiftResults[c], RunOod(c, e)
    PROVE  VerdictsInv' /\ StudyInv'
<1>1. /\ original[c] = NoValue /\ original' = [original EXCEPT ![c] = e]
      /\ verdict' = [verdict EXCEPT ![c] = Judgement(original[Pilot], e)]
      /\ study' = study
  BY DEF RunOod, Judgement
<1>2. c \in Cohort /\ c # Pilot  BY CohortFacts
<1>3. e \in Evaluation /\ e # NoValue  BY ResultsAssumption
<1>4. original[Pilot] = Baseline[Pilot] /\ DOMAIN original = Cohort /\ DOMAIN verdict = Cohort
  BY DEF VerdictsInv
<1>5. /\ original'[c] = e /\ \A d \in Cohort : d # c => original'[d] = original[d]
      /\ verdict'[c] = Judgement(Baseline[Pilot], e)
      /\ \A d \in Cohort : d # c => verdict'[d] = verdict[d]
      /\ DOMAIN verdict' = Cohort
  BY <1>1, <1>2, <1>4
<1>6. VerdictsInv'
  <2>1. original' \in [Cohort -> Evaluation \cup {NoValue}]  BY <1>1, <1>3 DEF VerdictsInv
  <2>2. original'[Pilot] = Baseline[Pilot] /\ verdict'[Pilot] = NoValue
    BY <1>2, <1>5, CohortFacts DEF VerdictsInv
  <2>3. ASSUME NEW d \in Cohort \ {Pilot}
        PROVE  verdict'[d] = IF original'[d] = NoValue THEN NoValue
                             ELSE Judgement(Baseline[Pilot], original'[d])
    <3>1. CASE d = c  BY <1>3, <1>5, <3>1
    <3>2. CASE d # c
      <4>1. verdict'[d] = verdict[d] /\ original'[d] = original[d]  BY <1>5, <3>2
      <4>2. QED  BY <4>1 DEF VerdictsInv
    <3>3. QED  BY <3>1, <3>2
  <2>4. QED  BY <1>5, <2>1, <2>2, <2>3 DEF VerdictsInv
<1>7. StudyInv'
  <2> SUFFICES ASSUME study # NoValue
               PROVE  /\ \A n \in Shifts : original'[n] # NoValue
                      /\ Tells(study, [n \in Shifts |-> verdict'[n].damage])
                      /\ study.interaction = "yes" =>
                            /\ original'[Combined] # NoValue
                            /\ \A n \in Shifts : verdict'[Combined].damage.drop
                                                   >= verdict'[n].damage.drop
    BY <1>1 DEF StudyInv
  <2>1. /\ \A n \in Shifts : original[n] # NoValue
        /\ Tells(study, [n \in Shifts |-> verdict[n].damage])
        /\ study.interaction = "yes" =>
              /\ original[Combined] # NoValue
              /\ \A n \in Shifts : verdict[Combined].damage.drop >= verdict[n].damage.drop
    BY DEF StudyInv
  <2>2. \A n \in Shifts : n # c /\ n \in Cohort  BY <1>1, <2>1, CohortFacts
  <2>3. \A n \in Shifts : original'[n] = original[n] /\ verdict'[n] = verdict[n]  BY <1>5, <2>2
  <2>4. [n \in Shifts |-> verdict'[n].damage] = [n \in Shifts |-> verdict[n].damage]  BY <2>3
  <2>5. study.interaction = "yes" => /\ original'[Combined] = original[Combined]
                                     /\ verdict'[Combined] = verdict[Combined]
    BY <1>1, <1>5, <2>1, CohortFacts
  <2>6. QED  BY <2>1, <2>3, <2>4, <2>5
<1>8. QED  BY <1>6, <1>7

LEMMA StudiesRunStudy ==
    ASSUME VerdictsInv, StudyInv, RunStudy
    PROVE  VerdictsInv' /\ StudyInv'
<1> DEFINE d == [n \in Shifts |-> verdict[n].damage]
           x == IF verdict[Combined] = NoValue THEN NoValue ELSE verdict[Combined].damage
<1>1. /\ \A n \in Shifts : original[n] # NoValue
      /\ study' = DetermineStudyVerdict(d, x)
      /\ original' = original /\ verdict' = verdict
  BY DEF RunStudy
<1>2. VerdictsInv'  BY <1>1 DEF VerdictsInv
<1>3. ASSUME NEW n \in Shifts PROVE d[n].tier \in Tiers /\ d[n].drop \in -100 .. 100
  <2>1. n \in Cohort \ {Pilot}  BY CohortFacts
  <2>2. QED  BY <1>1, <2>1, DamageFacts
<1>4. Damages(d)
  <2> HIDE DEF d
  <2>1. QED  BY <1>3 DEF Damages
<1>5. x # NoValue => /\ original[Combined] # NoValue /\ x = verdict[Combined].damage
                     /\ x.drop \in -100 .. 100
  <2>1. verdict[Combined] # NoValue => original[Combined] # NoValue
    BY CohortFacts DEF VerdictsInv
  <2>2. QED  BY <2>1, CohortFacts, DamageFacts
<1>6. x = NoValue \/ x.drop \in Int
  <2> HIDE DEF x
  <2>1. QED  BY <1>5
<1>7. /\ Tells(study', d)
      /\ study'.interaction = "yes" => x # NoValue /\ \A n \in Shifts : x.drop >= d[n].drop
  <2> HIDE DEF d, x
  <2>1. QED  BY <1>1, <1>4, <1>6, StudyTells
<1>8. ASSUME study'.interaction = "yes"
      PROVE  /\ original[Combined] # NoValue
             /\ \A n \in Shifts : verdict[Combined].damage.drop >= verdict[n].damage.drop
  <2>1. x # NoValue /\ \A n \in Shifts : x.drop >= d[n].drop  BY <1>7, <1>8
  <2>2. original[Combined] # NoValue /\ x = verdict[Combined].damage
    <3> HIDE DEF x
    <3>1. QED  BY <1>5, <2>1
  <2> HIDE DEF x
  <2>3. \A n \in Shifts : d[n] = verdict[n].damage  OBVIOUS
  <2> HIDE DEF d
  <2>4. QED  BY <2>1, <2>2, <2>3
<1>9. StudyInv'
  <2>1. [n \in Shifts |-> verdict'[n].damage] = d  BY <1>1
  <2> HIDE DEF d
  <2>2. QED  BY <1>1, <1>7, <1>8, <2>1 DEF StudyInv
<1>10. QED  BY <1>2, <1>9

LEMMA StudiesRest ==
    ASSUME VerdictsInv, StudyInv, UNCHANGED studyVars
    PROVE  VerdictsInv' /\ StudyInv'
<1>1. original' = original /\ verdict' = verdict /\ study' = study  BY DEF studyVars
<1>2. VerdictsInv'  BY <1>1 DEF VerdictsInv
<1>3. StudyInv'  BY <1>1 DEF StudyInv
<1>4. QED  BY <1>2, <1>3

LEMMA StudiesStep ==
    ASSUME VerdictsInv, StudyInv, [PromotionNext]_promotionVars
    PROVE  VerdictsInv' /\ StudyInv'
<1>1. CASE \E c \in Shifts \cup {Combined} : \E e \in ShiftResults[c] : RunOod(c, e)
  BY <1>1, StudiesRunOod
<1>2. CASE RunStudy  BY <1>2, StudiesRunStudy
<1>3. CASE UNCHANGED studyVars  BY <1>3, StudiesRest
<1>4. PromotionNext \/ UNCHANGED promotionVars =>
        \/ \E c \in Shifts \cup {Combined} : \E e \in ShiftResults[c] : RunOod(c, e)
        \/ RunStudy \/ UNCHANGED studyVars
  <2>1. UNCHANGED promotionVars => UNCHANGED studyVars  BY DEF promotionVars
  <2>2. FirstCandidate => UNCHANGED studyVars  BY DEF FirstCandidate, RunRobustness
  <2>3. \A c, d, a : Retrain(c, d, a) => UNCHANGED studyVars  BY DEF Retrain, RunRobustness
  <2>4. \A c, a : SelectPolicy(c, a) => UNCHANGED studyVars  BY DEF SelectPolicy, studyVars
  <2>5. NoPolicySurvives => UNCHANGED studyVars  BY DEF NoPolicySurvives, studyVars
  <2>6. QED  BY <2>1, <2>2, <2>3, <2>4, <2>5 DEF PromotionNext
<1>5. QED  BY <1>1, <1>2, <1>3, <1>4

LEMMA StudiesAreSound ==
    ASSUME VerdictsInv, StudyInv
    PROVE  StudyIsSound
<1>1. VerdictsAgree
  <2> SUFFICES ASSUME NEW c \in Cohort, verdict[c] # NoValue
               PROVE  Fits(verdict[c])
    BY DEF VerdictsAgree, Fits
  <2>1. c # Pilot /\ original[c] # NoValue  BY DEF VerdictsInv
  <2>2. QED  BY <2>1, DamageFacts
<1>2. StudyIsConsistent
  <2> SUFFICES ASSUME study # NoValue
               PROVE  LET tier(n) == TierRank(verdict[n].damage.tier)
                      IN  /\ \A n \in Shifts : tier(n) <= tier(study.primary)
                          /\ study.secondary # NoValue => tier(study.secondary) >= 2
                          /\ Shifts = Range(study.minor)
                                 \cup ({study.primary, study.secondary} \ {NoValue})
                          /\ study.recommendation = "B" => study.primary = HighLoad
                          /\ study.interaction = "yes" =>
                                 \A n \in Shifts : verdict[Combined].damage.drop
                                                      >= verdict[n].damage.drop
    BY DEF StudyIsConsistent
  <2> DEFINE d == [n \in Shifts |-> verdict[n].damage]
  <2>1. Tells(study, d)  BY DEF StudyInv
  <2>2. \A n \in Shifts : Tier(d, n) = TierRank(verdict[n].damage.tier)  BY DEF Tier
  <2>3. study.interaction = "yes" =>
          \A n \in Shifts : verdict[Combined].damage.drop >= verdict[n].damage.drop
    BY DEF StudyInv
  <2> HIDE DEF d
  <2>4. QED  BY <2>1, <2>2, <2>3 DEF Tells
<1>3. QED  BY <1>1, <1>2 DEF StudyIsSound

(***************************************************************************)
(* The studies of the frozen model are sound, for any cohorts, fault       *)
(* classes and results: the verdict of ood/verdict.py and the tier of      *)
(* shift_study/rankings.py never contradict each other, the primary        *)
(* failure is the worst shift, no shift is lost from the attribution, and  *)
(* advice and interaction fit it.                                          *)
(***************************************************************************)
THEOREM StudiesStaySound == PromotionSpec => []StudyIsSound
<1>1. PromotionInit => VerdictsInv /\ StudyInv  BY StudiesInit
<1>2. VerdictsInv /\ StudyInv /\ [PromotionNext]_promotionVars => VerdictsInv' /\ StudyInv'
  BY StudiesStep
<1>3. VerdictsInv /\ StudyInv => StudyIsSound  BY StudiesAreSound
<1>4. QED  BY <1>1, <1>2, <1>3, PTL DEF PromotionSpec

(***************************************************************************)
(* The promotion decisions.  What a candidate must meet to be promoted, in *)
(* one list: every check of decide_promotion and of                        *)
(* decide_policy_promotion, whatever their order.                          *)
(***************************************************************************)
Meets(a) ==
    /\ Baseline[Pilot].accuracy - a[Pilot].accuracy <= 3
    /\ a[Pilot].rate <= 10
    /\ \A c \in Compared, f \in Fault : a[c].recall[f] > 20
    /\ a[HighNoise].accuracy - Baseline[HighNoise].accuracy >= 2
    /\ a[Combined].accuracy - Baseline[Combined].accuracy >= 2
    /\ a[HighNoise].rate <= 10
    /\ \A c \in Compared :
          SumFunction(a[c].wrong) - SumFunction(Baseline[c].wrong) <= 1

Evaluations == [Compared -> Evaluation]

LEMMA ComparisonFacts ==
    ASSUME NEW a \in Evaluations, NEW c \in Compared
    PROVE  LET x == CompareAll(a)[c]
           IN  /\ a[c] \in Evaluation /\ Baseline[c] \in Evaluation
               /\ a[c].accuracy \in Int /\ Baseline[c].accuracy \in Int /\ a[c].rate \in Nat
               /\ x.accuracy.absolute_change = a[c].accuracy - Baseline[c].accuracy
               /\ x.rate.after = a[c].rate
               /\ \A f \in Fault : x.recall[f].after = a[c].recall[f] /\ a[c].recall[f] \in Int
               /\ x.wrong.before = SumFunction(Baseline[c].wrong)
               /\ x.wrong.after = SumFunction(a[c].wrong)
<1> DEFINE e == a[c]
           b == Baseline[c]
<1>1. e \in Evaluation /\ b \in Evaluation  BY ResultsAssumption DEF Evaluations
<1>2. CompareAll(a)[c] = Compare(b, e)  BY DEF CompareAll, Evaluations
<1> HIDE DEF e, b
<1>3. /\ e.accuracy \in Int /\ b.accuracy \in Int /\ e.rate \in Nat /\ b.rate \in Nat
      /\ e.recall \in [Fault -> 0 .. 100] /\ b.recall \in [Fault -> 0 .. 100]
  BY <1>1, EvaluationFacts
<1>4. \A f \in Fault : e.recall[f] \in Int /\ b.recall[f] \in Int  BY <1>3
<1>5. Compare(b, e).accuracy.absolute_change = e.accuracy - b.accuracy
  BY <1>3, DeltaFacts DEF Compare
<1>6. Compare(b, e).rate.after = e.rate  BY DEF Compare, Delta
<1>7. \A f \in Fault : Compare(b, e).recall[f].after = e.recall[f]  BY DEF Compare, Delta
<1>8. /\ Compare(b, e).wrong.before = SumFunction(b.wrong)
      /\ Compare(b, e).wrong.after = SumFunction(e.wrong)
  BY DEF Compare, Delta
<1>9. QED  BY <1>1, <1>2, <1>3, <1>4, <1>5, <1>6, <1>7, <1>8 DEF e, b

LEMMA SumsAreNumbers ==
    ASSUME NEW e \in Evaluation
    PROVE  SumFunction(e.wrong) \in Int
<1>1. e.wrong \in [Fault -> Nat]  BY EvaluationFacts
<1>2. e.wrong \in [Fault -> Int] /\ \A f \in Fault : e.wrong[f] <= e.wrong[f]  BY <1>1
<1>3. IsFiniteSet(Fault)  BY StudyAssumption
<1>4. QED  BY <1>2, <1>3, SumIsMonotone

LEMMA ComparedFacts == Pilot \in Compared /\ HighNoise \in Compared /\ Combined \in Compared
BY DEF Compared

LEMMA ChecksMean ==
    ASSUME NEW a \in Evaluations
    PROVE  LET x == CompareAll(a)
           IN  /\ ClassCollapse(x) <=> \E c \in Compared, f \in Fault : a[c].recall[f] <= 20
               /\ Meets(a) <=> ~ IdRegression(x) /\ ~ ClassCollapse(x) /\ ~ InsufficientGain(x)
<1> DEFINE x == CompareAll(a)
<1>1. DOMAIN x = Compared  BY DEF CompareAll, Evaluations
<1>2. ASSUME NEW n \in Int PROVE OrZero(n) = n  BY StudyAssumption DEF OrZero
<1>3. ASSUME NEW c \in Compared
      PROVE  /\ a[c].accuracy \in Int /\ Baseline[c].accuracy \in Int /\ a[c].rate \in Nat
             /\ OrZero(x[c].accuracy.absolute_change) = a[c].accuracy - Baseline[c].accuracy
             /\ OrZero(x[c].rate.after) = a[c].rate
  <2>1. /\ a[c].accuracy \in Int /\ Baseline[c].accuracy \in Int /\ a[c].rate \in Nat
        /\ x[c].accuracy.absolute_change = a[c].accuracy - Baseline[c].accuracy
        /\ x[c].rate.after = a[c].rate
    BY ComparisonFacts
  <2>2. a[c].accuracy - Baseline[c].accuracy \in Int /\ a[c].rate \in Int  BY <2>1
  <2> HIDE DEF x
  <2>3. QED  BY <1>2, <2>1, <2>2
<1>4. ASSUME NEW c \in Compared, NEW f \in Fault
      PROVE  x[c].recall[f].after = a[c].recall[f] /\ a[c].recall[f] \in Int
  BY ComparisonFacts
<1>5. ASSUME NEW c \in Compared
      PROVE  /\ x[c].wrong.after - x[c].wrong.before
                  = SumFunction(a[c].wrong) - SumFunction(Baseline[c].wrong)
             /\ SumFunction(a[c].wrong) \in Int /\ SumFunction(Baseline[c].wrong) \in Int
  <2>1. a[c] \in Evaluation /\ Baseline[c] \in Evaluation  BY ComparisonFacts
  <2>2. /\ x[c].wrong.before = SumFunction(Baseline[c].wrong)
        /\ x[c].wrong.after = SumFunction(a[c].wrong)
    BY ComparisonFacts
  <2>3. SumFunction(a[c].wrong) \in Int /\ SumFunction(Baseline[c].wrong) \in Int
    BY <2>1, SumsAreNumbers
  <2> HIDE DEF x
  <2>4. QED  BY <2>2, <2>3
<1> HIDE DEF x
<1>6. ClassCollapse(x) <=> \E c \in Compared, f \in Fault : a[c].recall[f] <= 20
  BY <1>1, <1>4 DEF ClassCollapse, PromotionThresholds
<1>7. ~ ClassCollapse(x) <=> \A c \in Compared, f \in Fault : a[c].recall[f] > 20
  BY <1>4, <1>6
<1>8. IdRegression(x) <=> \/ -(a[Pilot].accuracy - Baseline[Pilot].accuracy) > 3
                          \/ a[Pilot].rate > 10
  BY <1>3, ComparedFacts DEF IdRegression, PromotionThresholds
<1>9. ~ IdRegression(x) <=> /\ Baseline[Pilot].accuracy - a[Pilot].accuracy <= 3
                            /\ a[Pilot].rate <= 10
  <2>1. a[Pilot].accuracy \in Int /\ Baseline[Pilot].accuracy \in Int /\ a[Pilot].rate \in Nat
    BY <1>3, ComparedFacts
  <2>2. QED  BY <1>8, <2>1
<1>10. MissedRunRegression(x) <=>
         \E c \in Compared : SumFunction(a[c].wrong) - SumFunction(Baseline[c].wrong) > 1
  BY <1>1, <1>5 DEF MissedRunRegression, PromotionThresholds
<1>11. ~ MissedRunRegression(x) <=>
         \A c \in Compared : SumFunction(a[c].wrong) - SumFunction(Baseline[c].wrong) <= 1
  BY <1>5, <1>10
<1>12. InsufficientGain(x) <=>
         \/ a[HighNoise].accuracy - Baseline[HighNoise].accuracy < 2
         \/ a[Combined].accuracy - Baseline[Combined].accuracy < 2
         \/ a[HighNoise].rate > 10
         \/ MissedRunRegression(x)
  BY <1>3, ComparedFacts DEF InsufficientGain, PromotionThresholds
<1>13. ~ InsufficientGain(x) <=>
         /\ a[HighNoise].accuracy - Baseline[HighNoise].accuracy >= 2
         /\ a[Combined].accuracy - Baseline[Combined].accuracy >= 2
         /\ a[HighNoise].rate <= 10
         /\ ~ MissedRunRegression(x)
  <2>1. /\ a[HighNoise].accuracy \in Int /\ Baseline[HighNoise].accuracy \in Int
        /\ a[HighNoise].rate \in Nat
        /\ a[Combined].accuracy \in Int /\ Baseline[Combined].accuracy \in Int
    BY <1>3, ComparedFacts
  <2>2. QED  BY <1>12, <2>1
<1>14. Meets(a) <=> ~ IdRegression(x) /\ ~ ClassCollapse(x) /\ ~ InsufficientGain(x)
  BY <1>7, <1>9, <1>11, <1>13 DEF Meets
<1>15. QED  BY <1>6, <1>14 DEF x

LEMMA DecisionsMean ==
    ASSUME NEW a \in Evaluations
    PROVE  /\ DecidePromotion(CompareAll(a)) = "promote" <=> Meets(a)
           /\ DecidePolicyPromotion(CompareAll(a)) = "promote" <=> Meets(a)
           /\ DecidePromotion(CompareAll(a)) = "no model ready" =>
                \E c \in Compared, f \in Fault : a[c].recall[f] <= 20
<1> DEFINE x == CompareAll(a)
<1>1. /\ ClassCollapse(x) <=> \E c \in Compared, f \in Fault : a[c].recall[f] <= 20
      /\ Meets(a) <=> ~ IdRegression(x) /\ ~ ClassCollapse(x) /\ ~ InsufficientGain(x)
  BY ChecksMean
<1> HIDE DEF x
<1>2. /\ DecidePromotion(x) = "promote"
           <=> ~ IdRegression(x) /\ ~ ClassCollapse(x) /\ ~ InsufficientGain(x)
      /\ DecidePromotion(x) = "no model ready" => ClassCollapse(x)
  BY DEF DecidePromotion
<1>3. DecidePolicyPromotion(x) = "promote"
        <=> ~ IdRegression(x) /\ ~ ClassCollapse(x) /\ ~ InsufficientGain(x)
  BY DEF DecidePolicyPromotion, NoPolicySelected
<1>4. QED  BY <1>1, <1>2, <1>3 DEF x

(* What a candidate meets, one at least as good meets.                     *)
LEMMA BetterMeets ==
    ASSUME NEW a \in Evaluations, NEW b \in Evaluations, Dominates(b, a), Meets(a)
    PROVE  Meets(b)
<1>1. ASSUME NEW c \in Compared
      PROVE  /\ a[c] \in Evaluation /\ b[c] \in Evaluation /\ Baseline[c] \in Evaluation
             /\ b[c].accuracy >= a[c].accuracy /\ b[c].rate <= a[c].rate
             /\ \A f \in Fault : /\ b[c].recall[f] >= a[c].recall[f]
                                 /\ b[c].wrong[f] <= a[c].wrong[f]
  BY ResultsAssumption DEF Dominates, Evaluations
<1>2. ASSUME NEW c \in Compared
      PROVE  /\ a[c].accuracy \in Int /\ b[c].accuracy \in Int /\ Baseline[c].accuracy \in Int
             /\ a[c].rate \in Nat /\ b[c].rate \in Nat
             /\ a[c].wrong \in [Fault -> Nat] /\ b[c].wrong \in [Fault -> Nat]
  BY <1>1, EvaluationFacts
<1>3. /\ Baseline[Pilot].accuracy - b[Pilot].accuracy <= 3 /\ b[Pilot].rate <= 10
  <2>1. Pilot \in Compared  BY ComparedFacts
  <2>2. Baseline[Pilot].accuracy - a[Pilot].accuracy <= 3 /\ a[Pilot].rate <= 10  BY DEF Meets
  <2>3. QED  BY <1>1, <1>2, <2>1, <2>2
<1>4. /\ b[HighNoise].accuracy - Baseline[HighNoise].accuracy >= 2 /\ b[HighNoise].rate <= 10
  <2>1. HighNoise \in Compared  BY ComparedFacts
  <2>2. a[HighNoise].accuracy - Baseline[HighNoise].accuracy >= 2 /\ a[HighNoise].rate <= 10
    BY DEF Meets
  <2>3. QED  BY <1>1, <1>2, <2>1, <2>2
<1>5. b[Combined].accuracy - Baseline[Combined].accuracy >= 2
  <2>1. Combined \in Compared  BY ComparedFacts
  <2>2. a[Combined].accuracy - Baseline[Combined].accuracy >= 2  BY DEF Meets
  <2>3. QED  BY <1>1, <1>2, <2>1, <2>2
<1>6. ASSUME NEW c \in Compared, NEW f \in Fault PROVE b[c].recall[f] > 20
  <2>1. a[c].recall[f] > 20  BY DEF Meets
  <2>2. b[c].recall[f] >= a[c].recall[f]  BY <1>1
  <2>3. a[c].recall[f] \in Int /\ b[c].recall[f] \in Int  BY ComparisonFacts
  <2>4. QED  BY <2>1, <2>2, <2>3
<1>7. ASSUME NEW c \in Compared
      PROVE  SumFunction(b[c].wrong) - SumFunction(Baseline[c].wrong) <= 1
  <2>1. SumFunction(a[c].wrong) - SumFunction(Baseline[c].wrong) <= 1  BY DEF Meets
  <2>2. SumFunction(Baseline[c].wrong) \in Int  BY <1>1, SumsAreNumbers
  <2>3. /\ a[c].wrong \in [Fault -> Int] /\ b[c].wrong \in [Fault -> Int]
        /\ \A f \in Fault : b[c].wrong[f] <= a[c].wrong[f]
    BY <1>1, <1>2
  <2>4. /\ SumFunction(b[c].wrong) \in Int /\ SumFunction(a[c].wrong) \in Int
        /\ SumFunction(b[c].wrong) <= SumFunction(a[c].wrong)
    BY <2>3, SumIsMonotone, StudyAssumption
  <2>5. QED  BY <2>1, <2>2, <2>4
<1>8. QED  BY <1>3, <1>4, <1>5, <1>6, <1>7 DEF Meets

(***************************************************************************)
(* The decision on record is the one on the evaluations on record, and a   *)
(* policy is selected for the candidate there is: it has its rows.  This   *)
(* is where a retrained candidate drops the policy of its predecessor.     *)
(***************************************************************************)
SameRows(e, f) == e.recall = f.recall /\ e.accuracy = f.accuracy

Decided(r, d, p, pd) ==
    /\ r = <<>> \/ r \in Evaluations
    /\ r = <<>> => d # "promote" /\ p = <<>>
    /\ r # <<>> => d = DecidePromotion(CompareAll(r))
    /\ p = <<>> \/ p \in Evaluations
    /\ p = <<>> => pd # "promote"
    /\ p # <<>> => /\ pd = DecidePolicyPromotion(CompareAll(p))
                   /\ \A c \in Compared : SameRows(p[c], r[c])

DecisionInv == Decided(robust, decision, policy, policyDecision)

LEMMA NotEmpty ==
    ASSUME NEW a \in Evaluations
    PROVE  a # <<>>
<1>1. DOMAIN a = Compared /\ Pilot \in Compared  BY ComparedFacts DEF Evaluations
<1>2. DOMAIN <<>> = {}  OBVIOUS
<1>3. QED  BY <1>1, <1>2

LEMMA DecisionsInit ==
    ASSUME PromotionInit
    PROVE  DecisionInv
BY StudyAssumption DEF PromotionInit, DecisionInv, Decided

(* What the decisions of one moment say of each other.                     *)
LEMMA DecisionsFit ==
    ASSUME NEW r, NEW d, NEW p, NEW pd, Decided(r, d, p, pd)
    PROVE  /\ pd = "promote" => RowsPass(r)
           /\ p # <<>> /\ p = r => ((pd = "promote") <=> (d = "promote"))
<1>1. ASSUME pd = "promote" PROVE RowsPass(r)
  <2>1. p # <<>> /\ p \in Evaluations /\ r # <<>> /\ r \in Evaluations  BY <1>1 DEF Decided
  <2>2. Meets(p)  BY <1>1, <2>1, DecisionsMean DEF Decided
  <2>3. \A c \in Compared : p[c].recall = r[c].recall /\ p[c].accuracy = r[c].accuracy
    BY <2>1 DEF Decided, SameRows
  <2>4. DOMAIN r = Compared  BY <2>1 DEF Evaluations
  <2>5. \A c \in Compared, f \in Fault : r[c].recall[f] > 20  BY <2>2, <2>3 DEF Meets
  <2>6. /\ Baseline[Pilot].accuracy - r[Pilot].accuracy <= 3
        /\ r[HighNoise].accuracy - Baseline[HighNoise].accuracy >= 2
        /\ r[Combined].accuracy - Baseline[Combined].accuracy >= 2
    BY <2>2, <2>3, ComparedFacts DEF Meets
  <2>7. r[Pilot].accuracy \in Int /\ Baseline[Pilot].accuracy \in Int
    BY <2>1, ComparisonFacts, ComparedFacts
  <2>8. r[Pilot].accuracy - Baseline[Pilot].accuracy >= -3  BY <2>6, <2>7
  <2>9. QED  BY <2>4, <2>5, <2>6, <2>8 DEF RowsPass, PromotionThresholds
<1>2. ASSUME p # <<>>, p = r PROVE (pd = "promote") <=> (d = "promote")
  <2>1. p \in Evaluations /\ r # <<>>  BY <1>2 DEF Decided
  <2>2. pd = DecidePolicyPromotion(CompareAll(p)) /\ d = DecidePromotion(CompareAll(p))
    BY <1>2, <2>1 DEF Decided
  <2>3. QED  BY <2>1, <2>2, DecisionsMean
<1>3. QED  BY <1>1, <1>2

(* What a step does to the decisions of the candidate.                     *)
Improves ==
    /\ (decision = "promote" /\ Dominates(robust', robust)) => decision' = "promote"
    /\ (policyDecision = "promote" /\ policy' # <<>> /\ Dominates(policy', policy))
          => policyDecision' = "promote"

LEMMA RobustnessStep ==
    ASSUME DecisionInv, NEW a \in Evaluations, robust # <<>> \/ decision # "promote",
           RunRobustness(a)
    PROVE  DecisionInv' /\ Improves
<1>1. /\ robust' = a /\ decision' = DecidePromotion(CompareAll(a))
      /\ policy' = <<>> /\ policyDecision' = NoValue
  BY DEF RunRobustness
<1>2. a # <<>>  BY NotEmpty
<1>3. DecisionInv'  BY <1>1, <1>2, StudyAssumption DEF DecisionInv, Decided
<1>4. ASSUME decision = "promote", Dominates(a, robust) PROVE decision' = "promote"
  <2>1. robust \in Evaluations /\ decision = DecidePromotion(CompareAll(robust))
    BY <1>4 DEF DecisionInv, Decided
  <2>2. Meets(robust)  BY <1>4, <2>1, DecisionsMean
  <2>3. Meets(a)  BY <1>4, <2>1, <2>2, BetterMeets
  <2>4. QED  BY <1>1, <2>3, DecisionsMean
<1>5. QED  BY <1>1, <1>3, <1>4 DEF Improves

LEMMA FirstCandidateStep ==
    ASSUME DecisionInv, FirstCandidate
    PROVE  DecisionInv' /\ Improves
<1>1. robust = <<>> /\ RunRobustness(Baseline)  BY DEF FirstCandidate
<1>2. decision # "promote"  BY <1>1 DEF DecisionInv, Decided
<1>3. Baseline \in Evaluations  BY ResultsAssumption DEF Evaluations
<1>4. QED  BY <1>1, <1>2, <1>3, RobustnessStep

LEMMA RetrainStep ==
    ASSUME DecisionInv, NEW c \in Compared, NEW d \in Candidate[c], NEW a \in CandidateAlerts[c],
           Retrain(c, d, a)
    PROVE  DecisionInv' /\ Improves
<1> DEFINE e == Evaluated(d, a)
           next == [robust EXCEPT ![c] = e]
<1>1. robust # <<>> /\ RunRobustness(next)  BY DEF Retrain
<1>2. robust \in Evaluations  BY <1>1 DEF DecisionInv, Decided
<1>3. e \in Evaluation
  <2>1. d \in RowResult /\ a \in AlertResult  BY ResultsAssumption
  <2>2. QED  BY <2>1, EvaluatedFacts
<1> HIDE DEF e
<1>4. next \in Evaluations  BY <1>2, <1>3 DEF Evaluations
<1> HIDE DEF next
<1>5. QED  BY <1>1, <1>4, RobustnessStep

LEMMA SelectPolicyStep ==
    ASSUME DecisionInv, NEW c \in Compared, NEW a \in CandidateAlerts[c], SelectPolicy(c, a)
    PROVE  DecisionInv' /\ Improves
<1> DEFINE before == IF policy = <<>> THEN robust ELSE policy
           e == Evaluated(robust[c], a)
           next == [before EXCEPT ![c] = e]
<1>1. /\ robust # <<>> /\ policy' = next
      /\ policyDecision' = DecidePolicyPromotion(CompareAll(next))
      /\ robust' = robust /\ decision' = decision
  BY DEF SelectPolicy, robustVars
<1>2. /\ robust \in Evaluations /\ decision = DecidePromotion(CompareAll(robust))
      /\ policy # <<>> => /\ policy \in Evaluations
                          /\ \A k \in Compared : SameRows(policy[k], robust[k])
                          /\ policyDecision = DecidePolicyPromotion(CompareAll(policy))
  BY <1>1 DEF DecisionInv, Decided
<1>3. before \in Evaluations /\ \A k \in Compared : SameRows(before[k], robust[k])
  BY <1>2 DEF SameRows
<1>4. e \in Evaluation /\ SameRows(e, robust[c])
  <2>1. robust[c] \in Evaluation /\ a \in AlertResult
    BY <1>2, ResultsAssumption DEF Evaluations
  <2>2. QED  BY <2>1, EvaluatedFacts DEF SameRows
<1> HIDE DEF e, before
<1>5. next \in Evaluations /\ next[c] = e /\ \A k \in Compared : k # c => next[k] = before[k]
  BY <1>3, <1>4 DEF Evaluations
<1> HIDE DEF next
<1>6. \A k \in Compared : SameRows(next[k], robust[k])
  <2> TAKE k \in Compared
  <2>1. CASE k = c  BY <1>4, <1>5, <2>1
  <2>2. CASE k # c  BY <1>3, <1>5, <2>2
  <2>3. QED  BY <2>1, <2>2
<1>7. next # <<>>  BY <1>5, NotEmpty
<1>8. DecisionInv'  BY <1>1, <1>2, <1>5, <1>6, <1>7 DEF DecisionInv, Decided
<1>9. ASSUME policyDecision = "promote", Dominates(next, policy)
      PROVE  policyDecision' = "promote"
  <2>1. policy # <<>>  BY <1>9 DEF DecisionInv, Decided
  <2>2. Meets(policy)  BY <1>2, <1>9, <2>1, DecisionsMean
  <2>3. Meets(next)  BY <1>2, <1>5, <1>9, <2>1, <2>2, BetterMeets
  <2>4. QED  BY <1>1, <1>5, <2>3, DecisionsMean
<1>10. QED  BY <1>1, <1>8, <1>9 DEF Improves

LEMMA NoPolicyStep ==
    ASSUME DecisionInv, NoPolicySurvives
    PROVE  DecisionInv' /\ Improves
<1>1. /\ robust # <<>> /\ policy' = <<>> /\ policyDecision' = "keep: policy insufficient"
      /\ robust' = robust /\ decision' = decision
  BY DEF NoPolicySurvives, NoPolicySelected, robustVars
<1>2. DecisionInv'  BY <1>1 DEF DecisionInv, Decided
<1>3. QED  BY <1>1, <1>2 DEF Improves

LEMMA DecisionsRest ==
    ASSUME DecisionInv, UNCHANGED <<robustVars, policyVars>>
    PROVE  DecisionInv' /\ Improves
<1>1. /\ robust' = robust /\ decision' = decision
      /\ policy' = policy /\ policyDecision' = policyDecision
  BY DEF robustVars, policyVars
<1>2. DecisionInv'  BY <1>1 DEF DecisionInv
<1>3. QED  BY <1>1, <1>2 DEF Improves

LEMMA DecisionsStep ==
    ASSUME DecisionInv, [PromotionNext]_promotionVars
    PROVE  DecisionInv' /\ Improves
<1>1. CASE UNCHANGED <<robustVars, policyVars>>  BY <1>1, DecisionsRest
<1>2. CASE FirstCandidate  BY <1>2, FirstCandidateStep
<1>3. CASE \E c \in Compared : \E d \in Candidate[c], a \in CandidateAlerts[c] : Retrain(c, d, a)
  BY <1>3, RetrainStep
<1>4. CASE \E c \in Compared : \E a \in CandidateAlerts[c] : SelectPolicy(c, a)
  BY <1>4, SelectPolicyStep
<1>5. CASE NoPolicySurvives  BY <1>5, NoPolicyStep
<1>6. \A c, e : RunOod(c, e) => UNCHANGED <<robustVars, policyVars>>  BY DEF RunOod
<1>7. RunStudy => UNCHANGED <<robustVars, policyVars>>  BY DEF RunStudy
<1>8. UNCHANGED promotionVars => UNCHANGED <<robustVars, policyVars>>  BY DEF promotionVars
<1>9. QED  BY <1>1, <1>2, <1>3, <1>4, <1>5, <1>6, <1>7, <1>8 DEF PromotionNext

MonotoneStep ==
    /\ (decision = "promote" /\ Dominates(robust', robust)) => decision' = "promote"
    /\ (policyDecision = "promote" /\ policy' # <<>> /\ Dominates(policy', policy))
          => policyDecision' = "promote"
    /\ policyDecision' = "promote" => RowsPass(robust')
    /\ policy' # <<>> /\ policy' = robust' =>
          ((policyDecision' = "promote") <=> (decision' = "promote"))

(***************************************************************************)
(* Promotion is monotone, for any candidates, alerts and fault classes     *)
(* (promotion.py, policy_promotion.py): a promoted candidate or policy     *)
(* stays promoted when it becomes at least as good on every metric of      *)
(* every cohort, whatever the order of the checks; a policy is promoted    *)
(* only for a candidate whose rows pass, and on the same alerts exactly    *)
(* when the candidate is.                                                  *)
(***************************************************************************)
THEOREM PromotionStaysMonotone == PromotionSpec => PromotionIsMonotone
<1>1. PromotionInit => DecisionInv  BY DecisionsInit
<1>2. DecisionInv /\ [PromotionNext]_promotionVars => DecisionInv'  BY DecisionsStep
<1>3. DecisionInv /\ [PromotionNext]_promotionVars => [MonotoneStep]_promotionVars
  <2> SUFFICES ASSUME DecisionInv, [PromotionNext]_promotionVars PROVE MonotoneStep
    OBVIOUS
  <2>1. DecisionInv' /\ Improves  BY DecisionsStep
  <2>2. Decided(robust', decision', policy', policyDecision')  BY <2>1 DEF DecisionInv
  <2>3. QED  BY <2>1, <2>2, DecisionsFit DEF Improves, MonotoneStep
<1>4. QED  BY <1>1, <1>2, <1>3, PTL DEF PromotionSpec, PromotionIsMonotone, MonotoneStep

----------------------------------------------------------------------------
(***************************************************************************)
(* The searches of alert policies, module AlertEvaluation.                 *)
(***************************************************************************)

(* Induction up to a bound, on the set of what has the property.           *)
LEMMA UpToBound ==
    ASSUME NEW N \in Nat, NEW P, 0 \in P, \A n \in 1 .. N : n - 1 \in P => n \in P
    PROVE  0 .. N \subseteq P
<1> DEFINE Bad == {n \in 0 .. N : n \notin P}
<1> SUFFICES ASSUME Bad # {} PROVE FALSE  OBVIOUS
<1>1. PICK n \in Bad : \A m \in Bad : n <= m
  <2>1. Bad \subseteq Nat  OBVIOUS
  <2>2. QED  BY <2>1, LeastOf
<1>2. n \in 1 .. N /\ n - 1 \in 0 .. N /\ ~ (n <= n - 1)
  <2>1. n # 0  BY <1>1
  <2>2. QED  BY <1>1, <2>1
<1>3. n - 1 \notin Bad
  <2> HIDE DEF Bad
  <2>1. QED  BY <1>1, <1>2
<1>4. QED  BY <1>1, <1>2, <1>3

(* A fold over places 1 .. N has values, and the type its steps keep.      *)
Steps(f, base, step, N) == f[0] = base /\ \A n \in 1 .. N : f[n] = step[<<n, f[n - 1]>>]

LEMMA FoldExists ==
    ASSUME NEW N \in Nat, NEW T, NEW base \in T, NEW step \in [(1 .. N) \X T -> T]
    PROVE  \E f \in [0 .. N -> T] : Steps(f, base, step, N)
<1> DEFINE P == {m \in 0 .. N : \E f \in [0 .. m -> T] : Steps(f, base, step, m)}
<1>1. 0 \in P
  <2> DEFINE g == [n \in 0 .. 0 |-> base]
  <2>1. g \in [0 .. 0 -> T] /\ Steps(g, base, step, 0)  BY DEF Steps
  <2>2. QED  BY <2>1
<1>2. ASSUME NEW m \in 1 .. N, m - 1 \in P PROVE m \in P
  <2>1. PICK f \in [0 .. m - 1 -> T] : Steps(f, base, step, m - 1)  BY <1>2
  <2>2. m - 1 \in 0 .. m - 1 /\ m \in 1 .. N /\ m \in Nat  OBVIOUS
  <2>3. f[m - 1] \in T /\ step[<<m, f[m - 1]>>] \in T  BY <2>2
  <2> DEFINE g == [n \in 0 .. m |-> IF n = m THEN step[<<m, f[m - 1]>>] ELSE f[n]]
  <2>4. ASSUME NEW n \in 0 .. m PROVE g[n] \in T
    <3>1. n # m => n \in 0 .. m - 1  BY <2>2
    <3>2. QED  BY <2>3, <3>1
  <2>5. g \in [0 .. m -> T]  BY <2>4
  <2>6. g[0] = base
    <3>1. 0 \in 0 .. m /\ 0 # m  BY <2>2
    <3>2. QED  BY <2>1, <3>1 DEF Steps
  <2>7. ASSUME NEW n \in 1 .. m PROVE g[n] = step[<<n, g[n - 1]>>]
    <3>1. n - 1 \in 0 .. m /\ n - 1 # m /\ n \in 0 .. m  BY <2>2
    <3>2. g[n - 1] = f[n - 1]  BY <3>1
    <3>3. CASE n = m  BY <3>1, <3>2, <3>3
    <3>4. CASE n # m
      <4>1. n \in 1 .. m - 1  BY <2>2, <3>4
      <4>2. f[n] = step[<<n, f[n - 1]>>]  BY <2>1, <4>1 DEF Steps
      <4>3. QED  BY <3>1, <3>2, <3>4, <4>2
    <3>5. QED  BY <3>3, <3>4
  <2>8. Steps(g, base, step, m)
    <3> HIDE DEF g
    <3>1. QED  BY <2>6, <2>7 DEF Steps
  <2>9. m \in 0 .. N  BY <2>2
  <2>10. QED  BY <2>5, <2>8, <2>9
<1>3. N \in P
  <2> HIDE DEF P
  <2>1. 0 .. N \subseteq P  BY <1>1, <1>2, UpToBound
  <2>2. QED  BY <2>1
<1>4. QED  BY <1>3

LEMMA FoldsAgree ==
    ASSUME NEW N \in Nat, NEW f, NEW g, f[0] = g[0],
           \A n \in 1 .. N : f[n - 1] = g[n - 1] => f[n] = g[n]
    PROVE  f[N] = g[N]
<1> DEFINE P == {n \in 0 .. N : f[n] = g[n]}
<1>1. 0 \in P  OBVIOUS
<1>2. \A n \in 1 .. N : n - 1 \in P => n \in P
  <2> TAKE n \in 1 .. N
  <2>1. n \in 0 .. N  OBVIOUS
  <2>2. QED  BY <2>1
<1>3. 0 .. N \subseteq P
  <2> HIDE DEF P
  <2>1. QED  BY <1>1, <1>2, UpToBound
<1>4. N \in 0 .. N  OBVIOUS
<1>5. QED  BY <1>3, <1>4

(* What is kept of a sequence.                                             *)
Keeps(f, s, S) ==
    f = [n \in 0 .. Len(s) |->
           IF n = 0 THEN <<>> ELSE IF n \in S THEN Append(f[n - 1], s[n]) ELSE f[n - 1]]

LEMMA KeptUnfolds ==
    ASSUME NEW T, NEW s \in Seq(T), NEW S
    PROVE  \E f \in [0 .. Len(s) -> Seq(T)] : Keeps(f, s, S) /\ Kept(s, S) = f[Len(s)]
<1> DEFINE N == Len(s)
           step == [x \in (1 .. N) \X Seq(T) |->
                      IF x[1] \in S THEN Append(x[2], s[x[1]]) ELSE x[2]]
           h == CHOOSE g : Keeps(g, s, S)
<1>1. N \in Nat  OBVIOUS
<1>2. step \in [(1 .. N) \X Seq(T) -> Seq(T)]
  <2>1. ASSUME NEW x \in (1 .. N) \X Seq(T) PROVE step[x] \in Seq(T)
    <3>1. x[1] \in 1 .. N /\ x[2] \in Seq(T)  OBVIOUS
    <3>2. s[x[1]] \in T  BY <3>1
    <3>3. QED  BY <3>1, <3>2
  <2>2. QED  BY <2>1
<1>3. PICK f \in [0 .. N -> Seq(T)] : Steps(f, <<>>, step, N)
  <2> HIDE DEF N, step
  <2>1. <<>> \in Seq(T)  OBVIOUS
  <2>2. QED  BY <1>1, <1>2, <2>1, FoldExists
<1>4. ASSUME NEW n \in 1 .. N
      PROVE  f[n] = IF n \in S THEN Append(f[n - 1], s[n]) ELSE f[n - 1]
  <2>1. n - 1 \in 0 .. N  BY <1>1
  <2>2. <<n, f[n - 1]>> \in (1 .. N) \X Seq(T)  BY <2>1
  <2>3. f[n] = step[<<n, f[n - 1]>>]  BY <1>3 DEF Steps
  <2>4. QED  BY <2>2, <2>3
<1>5. f[0] = <<>>  BY <1>3 DEF Steps
<1>6. Keeps(f, s, S)
  <2>1. ASSUME NEW n \in 0 .. N, n # 0 PROVE n \in 1 .. N  BY <1>1, <2>1
  <2>2. QED  BY <1>4, <1>5, <2>1 DEF Keeps
<1>7. Keeps(h, s, S)  BY <1>6
<1>8. Kept(s, S) = h[N]  BY DEF Kept, Keeps
<1> HIDE DEF h, step
<1>9. h[0] = f[0]
  <2>1. 0 \in 0 .. Len(s)  BY <1>1
  <2>2. QED  BY <1>5, <1>7, <2>1 DEF Keeps
<1>10. ASSUME NEW n \in 1 .. N, h[n - 1] = f[n - 1] PROVE h[n] = f[n]
  <2>1. n \in 0 .. Len(s) /\ n # 0  BY <1>1
  <2>2. h[n] = IF n \in S THEN Append(h[n - 1], s[n]) ELSE h[n - 1]
    BY <1>7, <2>1, Zenon DEF Keeps
  <2>3. QED  BY <1>4, <1>10, <2>2
<1>11. h[N] = f[N]  BY <1>1, <1>9, <1>10, FoldsAgree
<1>12. QED  BY <1>6, <1>8, <1>11

LEMMA KeptFacts ==
    ASSUME NEW T, NEW s \in Seq(T), NEW S
    PROVE  /\ Kept(s, S) \in Seq(T)
           /\ \A i \in 1 .. Len(s) : i \in S => s[i] \in Range(Kept(s, S))
<1>1. PICK f \in [0 .. Len(s) -> Seq(T)] : Keeps(f, s, S) /\ Kept(s, S) = f[Len(s)]
  BY KeptUnfolds
<1> DEFINE N == Len(s)
           P == {n \in 0 .. N : \A i \in 1 .. n : i \in S => s[i] \in Range(f[n])}
<1>2. N \in Nat /\ N \in 0 .. N  OBVIOUS
<1>3. 0 \in P  OBVIOUS
<1>4. ASSUME NEW n \in 1 .. N, n - 1 \in P PROVE n \in P
  <2>1. n \in 0 .. Len(s) /\ n # 0 /\ n - 1 \in 0 .. N  BY <1>2
  <2>2. f[n] = IF n \in S THEN Append(f[n - 1], s[n]) ELSE f[n - 1]
    BY <1>1, <2>1, Zenon DEF Keeps
  <2>3. f[n - 1] \in Seq(T) /\ s[n] \in T  BY <2>1
  <2>4. \A i \in 1 .. n - 1 : i \in S => s[i] \in Range(f[n - 1])  BY <1>4
  <2> DEFINE q == f[n - 1]
  <2>5. /\ Range(q) \subseteq Range(Append(q, s[n])) /\ s[n] \in Range(Append(q, s[n]))
    <3>1. Len(q) \in Nat /\ q \in Seq(T)  BY <2>3
    <3> HIDE DEF q
    <3>2. /\ DOMAIN Append(q, s[n]) = 1 .. Len(q) + 1
          /\ \A i \in 1 .. Len(q) : Append(q, s[n])[i] = q[i]
          /\ Append(q, s[n])[Len(q) + 1] = s[n]
      BY <2>3, <3>1
    <3>3. Len(q) + 1 \in 1 .. Len(q) + 1 /\ DOMAIN q = 1 .. Len(q)
          /\ \A i \in 1 .. Len(q) : i \in 1 .. Len(q) + 1
      BY <3>1
    <3>4. QED  BY <3>2, <3>3 DEF Range
  <2>6. ASSUME NEW i \in 1 .. n, i \in S PROVE s[i] \in Range(f[n])
    <3> HIDE DEF q
    <3>1. CASE i = n  BY <2>2, <2>5, <2>6, <3>1 DEF q
    <3>2. CASE i # n
      <4>1. i \in 1 .. n - 1  BY <1>2, <3>2
      <4>2. s[i] \in Range(q)  BY <2>4, <2>6, <4>1 DEF q
      <4>3. QED  BY <2>2, <2>5, <4>2 DEF q
    <3>3. QED  BY <3>1, <3>2
  <2>7. QED  BY <2>1, <2>6
<1>5. N \in P
  <2> HIDE DEF P, N
  <2>1. 0 .. N \subseteq P  BY <1>2, <1>3, <1>4, UpToBound
  <2>2. QED  BY <1>2, <2>1
<1>6. QED  BY <1>1, <1>2, <1>5

(* Rows with their time, and what the searches are given of a run.         *)
TimedRow == [at : Nat, row : Row]

LEMMA TimedFacts ==
    ASSUME NEW s \in Seq(Row)
    PROVE  /\ Timed(s) \in Seq(TimedRow) /\ Len(Timed(s)) = Len(s)
           /\ \A i \in 1 .. Len(s) : Timed(s)[i] = [at |-> i, row |-> s[i]]
<1>1. Len(s) \in Nat /\ \A i \in 1 .. Len(s) : s[i] \in Row  OBVIOUS
<1>2. \A i \in 1 .. Len(s) : [at |-> i, row |-> s[i]] \in TimedRow  BY <1>1 DEF TimedRow
<1>3. QED  BY <1>1, <1>2 DEF Timed

LEMMA FeaturesFit ==
    ASSUME NEW s \in Seq(Row)
    PROVE  FeaturesOf(s) \in Seq(TimedRow) /\ RejectionsOf(s) \in Seq(TimedRow)
BY TimedFacts, KeptFacts DEF FeaturesOf, RejectionsOf

LEMMA GappedFit ==
    ASSUME NEW s \in Seq(Row)
    PROVE  GappedOf(s) \in Seq(TimedRow)
<1> DEFINE t == Timed(s)
           F == Range(FeaturesOf(s))
           R == Range(RejectionsOf(s))
           V == ValidPlaces(s)
<1>1. t \in Seq(TimedRow) /\ Len(t) = Len(s) /\ Len(s) \in Nat
      /\ \A i \in 1 .. Len(s) : t[i] = [at |-> i, row |-> s[i]]
  BY TimedFacts
<1>2. F \subseteq TimedRow /\ R \subseteq TimedRow
  BY FeaturesFit DEF Range
<1>3. \A i \in 1 .. Len(s) : i \in V => t[i] \in F
  BY <1>1, KeptFacts DEF FeaturesOf
<1>4. \A i \in 1 .. Len(s) : i \in (1 .. Len(s)) \ V => t[i] \in R
  BY <1>1, KeptFacts DEF RejectionsOf
<1> HIDE DEF t, F, R, V
<1> DEFINE pick(k) == CHOOSE x \in F \cup R : x.at = k
<1>5. ASSUME NEW i \in 1 .. Len(s) PROVE pick(i) \in TimedRow
  <2>1. t[i] \in F \cup R  BY <1>3, <1>4
  <2>2. t[i].at = i
    <3>1. t[i] = [at |-> i, row |-> s[i]]  BY <1>1
    <3>2. QED  BY <3>1
  <2>3. pick(i) \in F \cup R  BY <2>1, <2>2
  <2>4. QED  BY <1>2, <2>3
<1>6. GappedOf(s) = [i \in 1 .. Len(s) |-> pick(i)]  BY DEF GappedOf, Merged, F, R
<1> HIDE DEF pick
<1>7. QED  BY <1>1, <1>5, <1>6

LEMMA SegmentFit ==
    ASSUME NEW q \in Seq(TimedRow), NEW r
    PROVE  HealthySegment(r, q) \in Seq(TimedRow)
BY KeptFacts DEF HealthySegment

(* The machine of any configuration keeps its type.                        *)
LEMMA MachineParts ==
    ASSUME NEW c \in MaybeClass, NEW type \in {"none", "new_alert", "class_change", "cleared"}
    PROVE  /\ FreshMachine \in Machine /\ Confirmed(c) \in Machine
           /\ NoEvent \in Event /\ AlertEvent(type, c) \in Event
<1>1. FreshMachine \in Machine  BY DEF FreshMachine, Machine, MaybeClass
<1>2. Confirmed(c) = [confirmed |-> c, pending |-> None, pendingStreak |-> 0,
                      exitStreak |-> 0, switch |-> None, switchStreak |-> 0]
  BY DEF Confirmed, FreshMachine
<1>3. Confirmed(c) \in Machine  BY <1>2 DEF Machine, MaybeClass
<1>4. NoEvent \in Event  BY DEF NoEvent, Event, MaybeClass
<1>5. AlertEvent(type, c) \in Event  BY DEF AlertEvent, Event
<1>6. QED  BY <1>1, <1>3, <1>4, <1>5

StepFits(out) == out.machine \in Machine /\ out.event \in Event

LEMMA InvalidFits ==
    ASSUME NEW m \in Machine
    PROVE  StepFits(StepInvalid(m))
<1>1. [m EXCEPT !.pending = None, !.pendingStreak = 0] \in Machine  BY DEF Machine, MaybeClass
<1>2. NoEvent \in Event  BY DEF NoEvent, Event, MaybeClass
<1>3. QED  BY <1>1, <1>2 DEF StepInvalid, StepFits

LEMMA HealthyFits ==
    ASSUME NEW cfg, NEW m \in Machine, NEW row \in Row
    PROVE  StepFits(StepHealthy(cfg, m, row))
<1> DEFINE pending == IF Qualifies(cfg, row) THEN Diagnosis(row) ELSE None
           streak == IF pending = None THEN 0 ELSE Extend(pending, m.pending, m.pendingStreak)
           raised == [machine |-> Confirmed(pending), event |-> AlertEvent("new_alert", pending)]
           waits == [machine |-> [m EXCEPT !.pending = pending, !.pendingStreak = streak],
                     event |-> NoEvent]
<1>1. Diagnosis(row) \in Class  BY ArgmaxIsFirst, RowFacts, ClassFacts DEF Diagnosis
<1>2. pending \in MaybeClass  BY <1>1 DEF MaybeClass
<1>3. m.pendingStreak \in Nat  BY DEF Machine
<1>4. streak \in Nat
  <2>1. Extend(pending, m.pending, m.pendingStreak) \in Nat  BY <1>3, ExtendFacts
  <2> HIDE DEF pending
  <2>2. QED  BY <2>1
<1>5. StepHealthy(cfg, m, row) =
        IF pending # None /\ streak >= cfg.entryPersistence THEN raised ELSE waits
  BY DEF StepHealthy
<1> HIDE DEF pending, streak
<1>6. [m EXCEPT !.pending = pending, !.pendingStreak = streak] \in Machine
  BY <1>2, <1>4 DEF Machine
<1>7. StepFits(raised) /\ StepFits(waits)  BY <1>2, <1>6, MachineParts DEF StepFits
<1> HIDE DEF raised, waits
<1>8. QED  BY <1>5, <1>7

LEMMA ConfirmedFits ==
    ASSUME NEW cfg, NEW m \in Machine, NEW row \in Row
    PROVE  StepFits(StepConfirmed(cfg, m, row))
<1> DEFINE candidate == Diagnosis(row) # m.confirmed /\ Qualifies(cfg, row)
           switch == IF candidate THEN Diagnosis(row) ELSE None
           streak == IF candidate THEN Extend(switch, m.switch, m.switchStreak) ELSE 0
           exit == ExitStreak(cfg, m, row)
           cleared == [machine |-> FreshMachine, event |-> AlertEvent("cleared", m.confirmed)]
           changed == [machine |-> Confirmed(switch), event |-> AlertEvent("class_change", switch)]
           stays == [machine |-> [m EXCEPT !.exitStreak = exit, !.switch = switch,
                                           !.switchStreak = streak],
                     event |-> NoEvent]
<1>1. Diagnosis(row) \in Class  BY ArgmaxIsFirst, RowFacts, ClassFacts DEF Diagnosis
<1>2. switch \in MaybeClass  BY <1>1 DEF MaybeClass
<1>3. m.switchStreak \in Nat /\ m.exitStreak \in Nat /\ m.confirmed \in MaybeClass  BY DEF Machine
<1>4. exit \in Nat  BY <1>3 DEF ExitStreak
<1>5. streak \in Nat
  <2>1. Extend(switch, m.switch, m.switchStreak) \in Nat  BY <1>3, ExtendFacts
  <2> HIDE DEF switch
  <2>2. QED  BY <2>1
<1>6. StepConfirmed(cfg, m, row) =
        CASE Cleared(cfg, m, row) -> cleared
          [] ~ Cleared(cfg, m, row) /\ switch # None /\ streak >= cfg.entryPersistence -> changed
          [] OTHER -> stays
  BY DEF StepConfirmed
<1> HIDE DEF candidate, switch, streak, exit
<1>7. [m EXCEPT !.exitStreak = exit, !.switch = switch, !.switchStreak = streak] \in Machine
  BY <1>2, <1>4, <1>5 DEF Machine
<1>8. StepFits(cleared) /\ StepFits(changed) /\ StepFits(stays)
  BY <1>2, <1>3, <1>7, MachineParts DEF StepFits
<1> HIDE DEF cleared, changed, stays
<1>9. QED  BY <1>6, <1>8

LEMMA StepFitsAlways ==
    ASSUME NEW cfg, NEW m \in Machine, NEW row \in Row
    PROVE  StepFits(StepStateMachine(cfg, m, row))
<1>1. CASE ~ Valid(row)
  <2>1. StepStateMachine(cfg, m, row) = StepInvalid(m)  BY <1>1 DEF StepStateMachine
  <2>2. QED  BY <2>1, InvalidFits
<1>2. CASE Valid(row) /\ m.confirmed = None
  <2>1. StepStateMachine(cfg, m, row) = StepHealthy(cfg, m, row)  BY <1>2 DEF StepStateMachine
  <2>2. QED  BY <2>1, HealthyFits
<1>3. CASE Valid(row) /\ m.confirmed # None
  <2>1. StepStateMachine(cfg, m, row) = StepConfirmed(cfg, m, row)
    BY <1>3 DEF StepStateMachine
  <2>2. QED  BY <2>1, ConfirmedFits
<1>4. QED  BY <1>1, <1>2, <1>3

(* What a replay yields.                                                   *)
AtEvent == [type : {"none", "new_alert", "class_change", "cleared"}, class : MaybeClass, at : Nat]
StateName == {"insufficient_data", "confirmed", "pending", "healthy"}
Replay == [machine : Machine, states : Seq(StateName), events : Seq(AtEvent)]
NoReplay == [machine |-> FreshMachine, states |-> <<>>, events |-> <<>>]
ReplayStep(cfg, acc, x) == Replayed(acc, x, StepStateMachine(cfg, acc.machine, x.row))

LEMMA ReplayFits ==
    ASSUME NEW cfg, NEW acc \in Replay, NEW x \in TimedRow
    PROVE  ReplayStep(cfg, acc, x) \in Replay
<1> DEFINE out == StepStateMachine(cfg, acc.machine, x.row)
           state == RowState(out.machine, x.row)
           e == [type |-> out.event.type, class |-> out.event.class, at |-> x.at]
           evs == IF out.event = NoEvent THEN acc.events ELSE Append(acc.events, e)
<1>1. acc.machine \in Machine /\ acc.states \in Seq(StateName) /\ acc.events \in Seq(AtEvent)
  BY DEF Replay
<1>2. x.at \in Nat /\ x.row \in Row  BY DEF TimedRow
<1>3. out.machine \in Machine /\ out.event \in Event  BY <1>1, <1>2, StepFitsAlways DEF StepFits
<1>4. ReplayStep(cfg, acc, x) =
        [machine |-> out.machine, states |-> Append(acc.states, state), events |-> evs]
  BY DEF ReplayStep, Replayed
<1> HIDE DEF out
<1>5. state \in StateName  BY DEF RowState, StateName
<1>6. e \in AtEvent  BY <1>2, <1>3 DEF Event, AtEvent
<1> HIDE DEF state, e
<1>7. evs \in Seq(AtEvent)  BY <1>1, <1>6
<1>8. Append(acc.states, state) \in Seq(StateName)  BY <1>1, <1>5
<1> HIDE DEF evs
<1>9. QED  BY <1>3, <1>4, <1>7, <1>8 DEF Replay

Replays(f, cfg, s) ==
    f = [n \in 0 .. Len(s) |-> IF n = 0 THEN NoReplay ELSE ReplayStep(cfg, f[n - 1], s[n])]

LEMMA RunIsReplay ==
    ASSUME NEW cfg, NEW s \in Seq(TimedRow)
    PROVE  \E h : /\ Replays(h, cfg, s) /\ h[Len(s)] \in Replay
                  /\ RunStateMachine(cfg, s) = h[Len(s)]
<1> DEFINE N == Len(s)
           step == [x \in (1 .. N) \X Replay |-> ReplayStep(cfg, x[2], s[x[1]])]
           h == CHOOSE g : Replays(g, cfg, s)
<1>1. N \in Nat  OBVIOUS
<1>2. step \in [(1 .. N) \X Replay -> Replay]
  <2>1. ASSUME NEW x \in (1 .. N) \X Replay PROVE step[x] \in Replay
    <3>1. x[1] \in 1 .. N /\ x[2] \in Replay  OBVIOUS
    <3>2. s[x[1]] \in TimedRow  BY <3>1
    <3>3. QED  BY <3>1, <3>2, ReplayFits
  <2>2. QED  BY <2>1
<1>3. PICK f \in [0 .. N -> Replay] : Steps(f, NoReplay, step, N)
  <2> HIDE DEF N, step
  <2>1. NoReplay \in Replay
    <3>1. FreshMachine \in Machine  BY DEF FreshMachine, Machine, MaybeClass
    <3>2. QED  BY <3>1 DEF NoReplay, Replay
  <2>2. QED  BY <1>1, <1>2, <2>1, FoldExists
<1>4. ASSUME NEW n \in 1 .. N PROVE f[n] = ReplayStep(cfg, f[n - 1], s[n])
  <2>1. n - 1 \in 0 .. N  BY <1>1
  <2>2. <<n, f[n - 1]>> \in (1 .. N) \X Replay  BY <2>1
  <2>3. f[n] = step[<<n, f[n - 1]>>]  BY <1>3 DEF Steps
  <2>4. QED  BY <2>2, <2>3
<1>5. f[0] = NoReplay  BY <1>3 DEF Steps
<1>6. Replays(f, cfg, s)
  <2>1. ASSUME NEW n \in 0 .. N, n # 0 PROVE n \in 1 .. N  BY <1>1, <2>1
  <2>2. QED  BY <1>4, <1>5, <2>1 DEF Replays
<1>7. Replays(h, cfg, s)  BY <1>6
<1>8. RunStateMachine(cfg, s) = h[N]  BY DEF RunStateMachine, Replays, ReplayStep, NoReplay
<1> HIDE DEF h, step
<1>9. h[0] = f[0]
  <2>1. 0 \in 0 .. Len(s)  BY <1>1
  <2>2. QED  BY <1>5, <1>7, <2>1 DEF Replays
<1>10. ASSUME NEW n \in 1 .. N, h[n - 1] = f[n - 1] PROVE h[n] = f[n]
  <2>1. n \in 0 .. Len(s) /\ n # 0  BY <1>1
  <2>2. h[n] = ReplayStep(cfg, h[n - 1], s[n])  BY <1>7, <2>1, Zenon DEF Replays
  <2>3. QED  BY <1>4, <1>10, <2>2
<1>11. h[N] = f[N]  BY <1>1, <1>9, <1>10, FoldsAgree
<1>12. h[N] \in Replay  BY <1>1, <1>11
<1>13. QED  BY <1>7, <1>8, <1>12

LEMMA RunFits ==
    ASSUME NEW cfg, NEW s \in Seq(TimedRow)
    PROVE  RunStateMachine(cfg, s) \in Replay
BY RunIsReplay

(* The episodes of a replay.                                               *)
Episode == [from : Int, to : Int]
Open == [open : Int, closed : Seq(Episode)]
NoEpisode == [open |-> Absent, closed |-> <<>>]

LEMMA EpisodeFits ==
    ASSUME NEW acc \in Open, NEW e \in AtEvent
    PROVE  NextEpisode(acc, e) \in Open
<1>1. acc.open \in Int /\ acc.closed \in Seq(Episode)  BY DEF Open
<1>2. e.at \in Int /\ Absent \in Int  BY DEF AtEvent, Absent
<1>3. [from |-> acc.open, to |-> e.at] \in Episode  BY <1>1, <1>2 DEF Episode
<1>4. Append(acc.closed, [from |-> acc.open, to |-> e.at]) \in Seq(Episode)  BY <1>1, <1>3
<1> DEFINE longer == Append(acc.closed, [from |-> acc.open, to |-> e.at])
<1> HIDE DEF longer
<1>5. [open |-> e.at, closed |-> acc.closed] \in Open  BY <1>1, <1>2 DEF Open
<1>6. /\ [open |-> Absent, closed |-> longer] \in Open
      /\ [open |-> e.at, closed |-> longer] \in Open
  BY <1>2, <1>4 DEF Open, longer
<1>7. NextEpisode(acc, e) \in
        {[open |-> e.at, closed |-> acc.closed], [open |-> Absent, closed |-> longer],
         [open |-> e.at, closed |-> longer], acc}
  BY DEF NextEpisode, longer
<1>8. QED  BY <1>5, <1>6, <1>7

Opens(f, es) ==
    f = [n \in 0 .. Len(es) |-> IF n = 0 THEN NoEpisode ELSE NextEpisode(f[n - 1], es[n])]

(* The episodes so far, and the one that is open.                          *)
Unfinished(es) ==
    LET after[n \in 0 .. Len(es)] ==
          IF n = 0 THEN NoEpisode ELSE NextEpisode(after[n - 1], es[n])
    IN after[Len(es)]

LEMMA UnfinishedIsOpen ==
    ASSUME NEW es \in Seq(AtEvent)
    PROVE  \E h : Opens(h, es) /\ Unfinished(es) = h[Len(es)] /\ h[Len(es)] \in Open
<1> DEFINE N == Len(es)
           step == [x \in (1 .. N) \X Open |-> NextEpisode(x[2], es[x[1]])]
           h == CHOOSE g : Opens(g, es)
<1>1. N \in Nat  OBVIOUS
<1>2. step \in [(1 .. N) \X Open -> Open]
  <2>1. ASSUME NEW x \in (1 .. N) \X Open PROVE step[x] \in Open
    <3>1. x[1] \in 1 .. N /\ x[2] \in Open  OBVIOUS
    <3>2. es[x[1]] \in AtEvent  BY <3>1
    <3>3. QED  BY <3>1, <3>2, EpisodeFits
  <2>2. QED  BY <2>1
<1>3. PICK f \in [0 .. N -> Open] : Steps(f, NoEpisode, step, N)
  <2> HIDE DEF N, step
  <2>1. NoEpisode \in Open  BY DEF NoEpisode, Open, Absent
  <2>2. QED  BY <1>1, <1>2, <2>1, FoldExists
<1>4. ASSUME NEW n \in 1 .. N PROVE f[n] = NextEpisode(f[n - 1], es[n])
  <2>1. n - 1 \in 0 .. N  BY <1>1
  <2>2. <<n, f[n - 1]>> \in (1 .. N) \X Open  BY <2>1
  <2>3. f[n] = step[<<n, f[n - 1]>>]  BY <1>3 DEF Steps
  <2>4. QED  BY <2>2, <2>3
<1>5. f[0] = NoEpisode  BY <1>3 DEF Steps
<1>6. Opens(f, es)
  <2>1. ASSUME NEW n \in 0 .. N, n # 0 PROVE n \in 1 .. N  BY <1>1, <2>1
  <2>2. QED  BY <1>4, <1>5, <2>1 DEF Opens
<1>7. Opens(h, es)  BY <1>6
<1>8. Unfinished(es) = h[N]  BY DEF Unfinished, Opens
<1> HIDE DEF h, step
<1>9. h[0] = f[0]
  <2>1. 0 \in 0 .. Len(es)  BY <1>1
  <2>2. QED  BY <1>5, <1>7, <2>1 DEF Opens
<1>10. ASSUME NEW n \in 1 .. N, h[n - 1] = f[n - 1] PROVE h[n] = f[n]
  <2>1. n \in 0 .. Len(es) /\ n # 0  BY <1>1
  <2>2. h[n] = NextEpisode(h[n - 1], es[n])  BY <1>7, <2>1, Zenon DEF Opens
  <2>3. QED  BY <1>4, <1>10, <2>2
<1>11. h[N] = f[N]  BY <1>1, <1>9, <1>10, FoldsAgree
<1>12. h[N] \in Open  BY <1>1, <1>11
<1>13. QED  BY <1>7, <1>8, <1>12

LEMMA EpisodesAre ==
    ASSUME NEW es \in Seq(AtEvent), NEW end
    PROVE  EpisodesFromEvents(es, end) =
             IF Unfinished(es).open = Absent THEN Unfinished(es).closed
             ELSE Append(Unfinished(es).closed, [from |-> Unfinished(es).open, to |-> end])
BY DEF EpisodesFromEvents, Unfinished, NoEpisode

LEMMA EpisodesFit ==
    ASSUME NEW es \in Seq(AtEvent), NEW end \in Int
    PROVE  EpisodesFromEvents(es, end) \in Seq(Episode)
<1> DEFINE u == Unfinished(es)
<1>1. u \in Open  BY UnfinishedIsOpen
<1>2. u.open \in Int /\ u.closed \in Seq(Episode)  BY <1>1 DEF Open
<1>3. EpisodesFromEvents(es, end) =
        IF u.open = Absent THEN u.closed ELSE Append(u.closed, [from |-> u.open, to |-> end])
  BY EpisodesAre
<1> HIDE DEF u
<1>4. [from |-> u.open, to |-> end] \in Episode  BY <1>2 DEF Episode
<1>5. QED  BY <1>2, <1>3, <1>4

(* The persistence rule: its false alarms are counted, its first hit is    *)
(* the time of a row.                                                      *)
Counting(S) == [current : S, streak : Nat, count : Nat]
NoCount == [current |-> None, streak |-> 0, count |-> 0]

LEMMA AlarmFits ==
    ASSUME NEW S, NEW acc \in Counting(S), NEW x \in S, NEW k
    PROVE  NextAlarm(acc, x, k) \in Counting(S)
<1>1. acc.streak \in Nat /\ acc.count \in Nat  BY DEF Counting
<1> DEFINE streak == IF x = acc.current THEN acc.streak + 1 ELSE 1
           count == IF streak = k /\ x \notin {Healthy, Uncertain} THEN acc.count + 1 ELSE acc.count
<1>2. streak \in Nat  BY <1>1
<1>3. NextAlarm(acc, x, k) = [current |-> x, streak |-> streak, count |-> count]
  BY DEF NextAlarm
<1> HIDE DEF streak
<1>4. count \in Nat  BY <1>1
<1> HIDE DEF count
<1>5. QED  BY <1>2, <1>3, <1>4 DEF Counting

Counts(f, ls, k) ==
    f = [n \in 0 .. Len(ls) |-> IF n = 0 THEN NoCount ELSE NextAlarm(f[n - 1], ls[n], k)]

LEMMA AlarmsFit ==
    ASSUME NEW L, NEW ls \in Seq(L), NEW k
    PROVE  CountFalseAlarmEvents(ls, k) \in Nat
<1> DEFINE N == Len(ls)
           T == Counting(L \cup {None})
           step == [x \in (1 .. N) \X T |-> NextAlarm(x[2], ls[x[1]], k)]
           h == CHOOSE g : Counts(g, ls, k)
<1>1. N \in Nat  OBVIOUS
<1>2. step \in [(1 .. N) \X T -> T]
  <2>1. ASSUME NEW x \in (1 .. N) \X T PROVE step[x] \in T
    <3>1. x[1] \in 1 .. N /\ x[2] \in T  OBVIOUS
    <3>2. ls[x[1]] \in L \cup {None}  BY <3>1
    <3>3. QED  BY <3>1, <3>2, AlarmFits
  <2>2. QED  BY <2>1
<1>3. PICK f \in [0 .. N -> T] : Steps(f, NoCount, step, N)
  <2>1. NoCount \in T  BY DEF NoCount, Counting
  <2> HIDE DEF N, step, T
  <2>2. QED  BY <1>1, <1>2, <2>1, FoldExists
<1>4. ASSUME NEW n \in 1 .. N PROVE f[n] = NextAlarm(f[n - 1], ls[n], k)
  <2> HIDE DEF T
  <2>1. n - 1 \in 0 .. N  BY <1>1
  <2>2. <<n, f[n - 1]>> \in (1 .. N) \X T  BY <2>1
  <2>3. f[n] = step[<<n, f[n - 1]>>]  BY <1>3 DEF Steps
  <2>4. QED  BY <2>2, <2>3
<1>5. f[0] = NoCount  BY <1>3 DEF Steps
<1>6. Counts(f, ls, k)
  <2>1. ASSUME NEW n \in 0 .. N, n # 0 PROVE n \in 1 .. N  BY <1>1, <2>1
  <2>2. QED  BY <1>4, <1>5, <2>1 DEF Counts
<1>7. Counts(h, ls, k)  BY <1>6
<1>8. CountFalseAlarmEvents(ls, k) = h[N].count  BY DEF CountFalseAlarmEvents, Counts, NoCount
<1> HIDE DEF h, step
<1>9. h[0] = f[0]
  <2>1. 0 \in 0 .. Len(ls)  BY <1>1
  <2>2. QED  BY <1>5, <1>7, <2>1 DEF Counts
<1>10. ASSUME NEW n \in 1 .. N, h[n - 1] = f[n - 1] PROVE h[n] = f[n]
  <2>1. n \in 0 .. Len(ls) /\ n # 0  BY <1>1
  <2>2. h[n] = NextAlarm(h[n - 1], ls[n], k)  BY <1>7, <2>1, Zenon DEF Counts
  <2>3. QED  BY <1>4, <1>10, <2>2
<1>11. h[N] = f[N]  BY <1>1, <1>9, <1>10, FoldsAgree
<1>12. h[N] \in T  BY <1>1, <1>11
<1>13. h[N].count \in Nat  BY <1>12 DEF Counting
<1>14. QED  BY <1>8, <1>13

Hitting == [streak : Nat, first : Int]
NoHit == [streak |-> 0, first |-> Absent]

LEMMA HitFits ==
    ASSUME NEW acc \in Hitting, NEW at \in Nat, NEW hit, NEW k
    PROVE  NextHit(acc, at, hit, k) \in Hitting
<1>1. acc.streak \in Nat /\ acc.first \in Int  BY DEF Hitting
<1> DEFINE streak == IF hit THEN acc.streak + 1 ELSE 0
           first == IF acc.first = Absent /\ streak >= k THEN at ELSE acc.first
<1>2. streak \in Nat  BY <1>1
<1>3. NextHit(acc, at, hit, k) = [streak |-> streak, first |-> first]  BY DEF NextHit
<1> HIDE DEF streak
<1>4. first \in Int  BY <1>1
<1> HIDE DEF first
<1>5. QED  BY <1>2, <1>3, <1>4 DEF Hitting

IsHit(x, threshold, target, onset) == x.at >= onset /\ Diagnose(x.row, threshold) = target

Hits(f, s, threshold, target, onset, k) ==
    f = [n \in 0 .. Len(s) |->
           IF n = 0 THEN NoHit
           ELSE NextHit(f[n - 1], s[n].at, IsHit(s[n], threshold, target, onset), k)]

LEMMA FirstHitFits ==
    ASSUME NEW s \in Seq(TimedRow), NEW threshold, NEW target, NEW onset, NEW k
    PROVE  FindFirstQualifyingDetection(s, threshold, target, onset, k) \in Int
<1> DEFINE N == Len(s)
           hit(n) == IsHit(s[n], threshold, target, onset)
           step == [x \in (1 .. N) \X Hitting |-> NextHit(x[2], s[x[1]].at, hit(x[1]), k)]
           h == CHOOSE g : Hits(g, s, threshold, target, onset, k)
<1>1. N \in Nat  OBVIOUS
<1>2. step \in [(1 .. N) \X Hitting -> Hitting]
  <2>1. ASSUME NEW x \in (1 .. N) \X Hitting PROVE step[x] \in Hitting
    <3>1. x[1] \in 1 .. N /\ x[2] \in Hitting  OBVIOUS
    <3>2. s[x[1]] \in TimedRow  BY <3>1
    <3>3. s[x[1]].at \in Nat  BY <3>2 DEF TimedRow
    <3> HIDE DEF hit
    <3>4. QED  BY <3>1, <3>3, HitFits
  <2>2. QED  BY <2>1
<1>3. PICK f \in [0 .. N -> Hitting] : Steps(f, NoHit, step, N)
  <2> HIDE DEF N, step
  <2>1. NoHit \in Hitting  BY DEF NoHit, Hitting, Absent
  <2>2. QED  BY <1>1, <1>2, <2>1, FoldExists
<1>4. ASSUME NEW n \in 1 .. N PROVE f[n] = NextHit(f[n - 1], s[n].at, hit(n), k)
  <2>1. n - 1 \in 0 .. N  BY <1>1
  <2>2. <<n, f[n - 1]>> \in (1 .. N) \X Hitting  BY <2>1
  <2>3. f[n] = step[<<n, f[n - 1]>>]  BY <1>3 DEF Steps
  <2> HIDE DEF hit
  <2>4. QED  BY <2>2, <2>3
<1>5. f[0] = NoHit  BY <1>3 DEF Steps
<1>6. Hits(f, s, threshold, target, onset, k)
  <2>1. ASSUME NEW n \in 0 .. N, n # 0 PROVE n \in 1 .. N  BY <1>1, <2>1
  <2>2. QED  BY <1>4, <1>5, <2>1 DEF Hits
<1>7. Hits(h, s, threshold, target, onset, k)  BY <1>6
<1>8. FindFirstQualifyingDetection(s, threshold, target, onset, k) = h[N].first
  BY DEF FindFirstQualifyingDetection, Hits, NoHit, IsHit
<1> HIDE DEF h, step
<1>9. h[0] = f[0]
  <2>1. 0 \in 0 .. Len(s)  BY <1>1
  <2>2. QED  BY <1>5, <1>7, <2>1 DEF Hits
<1>10. ASSUME NEW n \in 1 .. N, h[n - 1] = f[n - 1] PROVE h[n] = f[n]
  <2>1. n \in 0 .. Len(s) /\ n # 0  BY <1>1
  <2>2. h[n] = NextHit(h[n - 1], s[n].at, hit(n), k)  BY <1>7, <2>1, Zenon DEF Hits
  <2> HIDE DEF hit
  <2>3. QED  BY <1>4, <1>10, <2>2
<1>11. h[N] = f[N]  BY <1>1, <1>9, <1>10, FoldsAgree
<1>12. h[N] \in Hitting  BY <1>1, <1>11
<1>13. h[N].first \in Int  BY <1>12 DEF Hitting
<1>14. QED  BY <1>8, <1>13

LEMMA LabelsFit ==
    ASSUME NEW s \in Seq(TimedRow), NEW threshold
    PROVE  \E L : Labels(s, threshold) \in Seq(L)
<1> DEFINE L == {Diagnose(s[i].row, threshold) : i \in 1 .. Len(s)}
<1>1. Len(s) \in Nat  OBVIOUS
<1>2. Labels(s, threshold) \in Seq(L)  BY <1>1 DEF Labels
<1>3. QED  BY <1>2

LEMMA RuleFits ==
    ASSUME NEW r \in Run, NEW s \in Seq(TimedRow), NEW threshold, NEW k
    PROVE  RuleLatency(r, s, threshold, k) \in Int /\ RuleAlarms(r, s, threshold, k) \in Int
<1>1. Info[r].onset \in Int  BY EvaluationAssumption
<1> DEFINE first == FindFirstQualifyingDetection(s, threshold, Info[r].fault, Info[r].onset, k)
<1>2. first \in Int  BY FirstHitFits
<1>3. RuleLatency(r, s, threshold, k) = IF first = Absent THEN Absent ELSE first - Info[r].onset
  BY DEF RuleLatency
<1> HIDE DEF first
<1>4. RuleLatency(r, s, threshold, k) \in Int  BY <1>1, <1>2, <1>3 DEF Absent
<1>5. HealthySegment(r, s) \in Seq(TimedRow)  BY SegmentFit
<1>6. RuleAlarms(r, s, threshold, k) \in Nat  BY <1>5, LabelsFit, AlarmsFit DEF RuleAlarms
<1>7. QED  BY <1>4, <1>6

----------------------------------------------------------------------------
(* Sums, medians and summaries are numbers.                                *)

LEMMA SumFits ==
    ASSUME NEW S, IsFiniteSet(S), NEW fun \in [S -> Int]
    PROVE  SumFunction(fun) \in Int
<1>1. \A x \in S : fun[x] <= fun[x]  OBVIOUS
<1>2. QED  BY <1>1, SumIsMonotone

LEMMA StrictlyFewer ==
    ASSUME NEW S, IsFiniteSet(S), NEW T \in SUBSET S, NEW x \in S, x \notin T
    PROVE  Cardinality(T) \in Nat /\ Cardinality(S) \in Nat /\ Cardinality(T) < Cardinality(S)
<1>1. /\ IsFiniteSet(T) /\ Cardinality(T) <= Cardinality(S)
      /\ Cardinality(S) = Cardinality(T) => S = T
  BY FS_Subset
<1>2. Cardinality(T) \in Nat /\ Cardinality(S) \in Nat  BY <1>1, FS_CardinalityType
<1>3. S # T  OBVIOUS
<1>4. QED  BY <1>1, <1>2, <1>3

(* The pairs with at most, and with less than, a latency.                  *)
AtMost(S, x) == {p \in S : p[2] <= x}
Less(S, x) == {p \in S : p[2] < x}
Latencies(S) == IsFiniteSet(S) /\ \A p \in S : p[2] \in Int

LEMMA GreatestPair ==
    ASSUME NEW S, Latencies(S), S # {}
    PROVE  \E q \in S : \A p \in S : p[2] <= q[2]
<1> DEFINE above(p) == {q \in S : ~ (q[2] <= p[2])}
           C == {Cardinality(above(p)) : p \in S}
<1>1. \A p \in S : IsFiniteSet(above(p)) /\ Cardinality(above(p)) \in Nat
  <2> TAKE p \in S
  <2>1. above(p) \in SUBSET S  OBVIOUS
  <2>2. IsFiniteSet(above(p))
    <3> HIDE DEF above
    <3>1. QED  BY <2>1, FS_Subset DEF Latencies
  <2>3. QED  BY <2>2, FS_CardinalityType
<1>2. PICK p \in S : \A q \in S : Cardinality(above(p)) <= Cardinality(above(q))
  <2> HIDE DEF above
  <2>1. C \subseteq Nat /\ C # {}  BY <1>1
  <2>2. Min(C) \in C /\ \A y \in C : Min(C) <= y
    <3> HIDE DEF C
    <3>1. QED  BY <2>1, LeastOf
  <2>3. PICK p \in S : Min(C) = Cardinality(above(p))  BY <2>2
  <2>4. \A q \in S : Cardinality(above(q)) \in C  OBVIOUS
  <2>5. \A q \in S : Cardinality(above(p)) <= Cardinality(above(q))
    <3> HIDE DEF C
    <3>1. QED  BY <2>2, <2>3, <2>4
  <2>6. QED  BY <2>5
<1>3. ASSUME NEW q \in S PROVE q[2] <= p[2]
  <2> SUFFICES ASSUME ~ (q[2] <= p[2]) PROVE FALSE  OBVIOUS
  <2>1. q \in above(p) /\ q \notin above(q)
    <3>1. q[2] \in Int  BY DEF Latencies
    <3>2. QED  BY <3>1
  <2>2. above(q) \in SUBSET above(p)
    <3>1. ASSUME NEW t \in S, ~ (t[2] <= q[2]) PROVE ~ (t[2] <= p[2])
      <4>1. t[2] \in Int /\ q[2] \in Int /\ p[2] \in Int  BY DEF Latencies
      <4>2. QED  BY <3>1, <4>1
    <3>2. QED  BY <3>1
  <2> HIDE DEF above
  <2>3. Cardinality(above(q)) \in Nat /\ Cardinality(above(p)) \in Nat
        /\ Cardinality(above(q)) < Cardinality(above(p))
    BY <1>1, <2>1, <2>2, StrictlyFewer
  <2>4. QED  BY <1>2, <2>3
<1>4. QED  BY <1>3

LEMMA KthFits ==
    ASSUME NEW S, Latencies(S), NEW k \in 1 .. Cardinality(S)
    PROVE  KthLeast(S, k) \in Int
<1> DEFINE G == {q \in S : k <= Cardinality(AtMost(S, q[2]))}
           C == {Cardinality(AtMost(S, q[2])) : q \in G}
<1>1. Cardinality(S) \in Nat /\ S # {}
  <2>1. Cardinality(S) \in Nat  BY FS_CardinalityType DEF Latencies
  <2>2. S # {}  BY <2>1, FS_EmptySet
  <2>3. QED  BY <2>1, <2>2
<1>2. ASSUME NEW x
      PROVE  /\ AtMost(S, x) \in SUBSET S /\ Less(S, x) \in SUBSET S
             /\ IsFiniteSet(AtMost(S, x)) /\ IsFiniteSet(Less(S, x))
             /\ Cardinality(AtMost(S, x)) \in Nat /\ Cardinality(Less(S, x)) \in Nat
  <2>1. AtMost(S, x) \in SUBSET S /\ Less(S, x) \in SUBSET S  BY DEF AtMost, Less
  <2>2. IsFiniteSet(AtMost(S, x)) /\ IsFiniteSet(Less(S, x))  BY <2>1, FS_Subset DEF Latencies
  <2>3. QED  BY <2>1, <2>2, FS_CardinalityType
<1>3. G # {}
  <2>1. PICK q \in S : \A p \in S : p[2] <= q[2]  BY <1>1, GreatestPair
  <2>2. AtMost(S, q[2]) = S  BY <2>1 DEF AtMost
  <2>3. k <= Cardinality(AtMost(S, q[2]))  BY <1>1, <2>2
  <2>4. QED  BY <2>3
<1>4. PICK q \in G : \A p \in G : Cardinality(AtMost(S, q[2])) <= Cardinality(AtMost(S, p[2]))
  <2>1. C \subseteq Nat /\ C # {}  BY <1>2, <1>3
  <2>2. Min(C) \in C /\ \A y \in C : Min(C) <= y
    <3> HIDE DEF C
    <3>1. QED  BY <2>1, LeastOf
  <2> HIDE DEF G
  <2>3. PICK q \in G : Min(C) = Cardinality(AtMost(S, q[2]))  BY <2>2
  <2>4. \A p \in G : Cardinality(AtMost(S, p[2])) \in C  OBVIOUS
  <2>5. \A p \in G : Cardinality(AtMost(S, q[2])) <= Cardinality(AtMost(S, p[2]))
    <3> HIDE DEF C
    <3>1. QED  BY <2>2, <2>3, <2>4
  <2>6. QED  BY <2>5
<1>5. q \in S /\ q[2] \in Int /\ k <= Cardinality(AtMost(S, q[2])) /\ k \in Nat
  BY <1>1, <1>4 DEF Latencies
<1>6. Cardinality(Less(S, q[2])) < k
  <2> SUFFICES ASSUME ~ (Cardinality(Less(S, q[2])) < k) PROVE FALSE  OBVIOUS
  <2> DEFINE B == Less(S, q[2])
  <2>1. B \in SUBSET S /\ IsFiniteSet(B) /\ Cardinality(B) \in Nat  BY <1>2
  <2>2. B # {}  BY <1>1, <1>5, <2>1, FS_EmptySet
  <2>3. Latencies(B)  BY <2>1 DEF Latencies
  <2>4. PICK y \in B : \A p \in B : p[2] <= y[2]
    <3> HIDE DEF B
    <3>1. QED  BY <2>2, <2>3, GreatestPair
  <2>5. y \in S /\ y[2] \in Int /\ y[2] < q[2]  BY <2>1, <2>4 DEF Less, Latencies
  <2>6. B \in SUBSET AtMost(S, y[2])  BY <2>1, <2>4 DEF AtMost
  <2>7. Cardinality(B) <= Cardinality(AtMost(S, y[2]))  BY <1>2, <2>6, FS_Subset
  <2>8. y \in G  BY <1>2, <1>5, <2>1, <2>5, <2>7
  <2>9. /\ AtMost(S, y[2]) \in SUBSET AtMost(S, q[2])
        /\ q \in AtMost(S, q[2]) /\ q \notin AtMost(S, y[2])
    <3>1. ASSUME NEW p \in S, p[2] <= y[2] PROVE p[2] <= q[2]
      <4>1. p[2] \in Int  BY DEF Latencies
      <4>2. QED  BY <1>5, <2>5, <3>1, <4>1
    <3>2. q[2] <= q[2] /\ ~ (q[2] <= y[2])  BY <1>5, <2>5
    <3>3. QED  BY <1>5, <3>1, <3>2 DEF AtMost
  <2>10. Cardinality(AtMost(S, y[2])) < Cardinality(AtMost(S, q[2]))
    BY <1>2, <2>9, StrictlyFewer
  <2>11. Cardinality(AtMost(S, q[2])) <= Cardinality(AtMost(S, y[2]))
    <3> HIDE DEF G
    <3>1. QED  BY <1>4, <2>8
  <2>12. Cardinality(AtMost(S, y[2])) \in Nat /\ Cardinality(AtMost(S, q[2])) \in Nat  BY <1>2
  <2>13. QED  BY <2>10, <2>11, <2>12
<1> DEFINE V == {p[2] : p \in S}
           isKth(x) == Cardinality(Less(S, x)) < k /\ k <= Cardinality(AtMost(S, x))
<1>7. q[2] \in V /\ isKth(q[2])  BY <1>5, <1>6
<1>8. KthLeast(S, k) = CHOOSE x \in V : isKth(x)  BY DEF KthLeast, Less, AtMost
<1>9. V \subseteq Int  BY DEF Latencies
<1> HIDE DEF V, isKth
<1>10. QED  BY <1>7, <1>8, <1>9

LEMMA MedianFits ==
    ASSUME NEW D, IsFiniteSet(D), NEW latency \in [D -> Int]
    PROVE  Median(latency) \in Int
<1> DEFINE all == {<<r, latency[r]>> : r \in D}
           found == {p \in all : p[2] # Absent}
           n == Cardinality(found)
           place == [p \in found |-> p[1]]
<1>1. \A p \in found : p[1] \in D /\ p[2] = latency[p[1]] /\ p = <<p[1], p[2]>> /\ p[2] \in Int
  OBVIOUS
<1>2. IsFiniteSet(found)
  <2> HIDE DEF found
  <2>1. place \in [found -> D]  BY <1>1
  <2>2. ASSUME NEW p \in found, NEW q \in found, place[p] = place[q] PROVE p = q
    <3>1. p[1] = q[1]  BY <2>2
    <3>2. p[2] = q[2]  BY <1>1, <3>1
    <3>3. QED  BY <1>1, <3>1, <3>2
  <2>3. place \in Injection(found, D)
    <3> HIDE DEF place
    <3>1. QED  BY <2>1, <2>2 DEF Injection, IsInjective
  <2>4. QED  BY <2>3, FS_Injection
<1>3. Latencies(found)  BY <1>1, <1>2 DEF Latencies
<1>4. n \in Nat  BY <1>2, FS_CardinalityType
<1>5. DOMAIN latency = D  OBVIOUS
<1>6. Median(latency) = IF n = 0 THEN Absent
                        ELSE KthLeast(found, (n + 1) \div 2) + KthLeast(found, (n \div 2) + 1)
  BY <1>5 DEF Median
<1> HIDE DEF found
<1>7. CASE n = 0  BY <1>6, <1>7 DEF Absent
<1>8. CASE n # 0
  <2>1. (n + 1) \div 2 \in 1 .. n /\ (n \div 2) + 1 \in 1 .. n
    <3> HIDE DEF n
    <3>1. QED  BY <1>4, <1>8
  <2>2. KthLeast(found, (n + 1) \div 2) \in Int /\ KthLeast(found, (n \div 2) + 1) \in Int
    BY <1>3, <2>1, KthFits
  <2>3. QED  BY <1>6, <1>8, <2>2
<1>9. QED  BY <1>7, <1>8

(* Detections.                                                             *)
LEMMA LatencyFits ==
    ASSUME NEW es \in Seq(AtEvent), NEW S \in SUBSET DOMAIN es, NEW onset \in Int
    PROVE  Latency(es, S, onset) \in Int
<1>1. CASE S = {}  BY <1>1 DEF Latency, Absent
<1>2. CASE S # {}
  <2>1. S \subseteq Nat  OBVIOUS
  <2>2. Min(S) \in S  BY <1>2, <2>1, LeastOf
  <2>3. es[Min(S)] \in AtEvent  BY <2>2
  <2>4. es[Min(S)].at \in Int  BY <2>3 DEF AtEvent
  <2>5. QED  BY <1>2, <2>4 DEF Latency
<1>3. QED  BY <1>1, <1>2

LEMMA DetectionFits ==
    ASSUME NEW cfg, NEW s \in Seq(TimedRow), NEW fault, NEW onset \in Int
    PROVE  EvaluateRunDetection(cfg, s, fault, onset).correct \in Int
<1> DEFINE es == RunStateMachine(cfg, s).events
           alerts == {i \in DOMAIN es : FromOnset(es[i], onset) /\ Confirms(es[i])}
           correct == {i \in alerts : es[i].class = fault}
<1>1. es \in Seq(AtEvent)  BY RunFits DEF Replay
<1>2. EvaluateRunDetection(cfg, s, fault, onset).correct = Latency(es, correct, onset)
  BY DEF EvaluateRunDetection, DetectionIn
<1> HIDE DEF es
<1>3. correct \in SUBSET DOMAIN es  OBVIOUS
<1> HIDE DEF correct
<1>4. QED  BY <1>1, <1>2, <1>3, LatencyFits

(* False alerts.                                                           *)
LEMMA DurationFits ==
    ASSUME NEW q \in Seq(Episode)
    PROVE  Duration(q) \in Int
<1> DEFINE fun == [i \in DOMAIN q |-> q[i].to - q[i].from]
<1>1. DOMAIN q = 1 .. Len(q) /\ Len(q) \in Nat  OBVIOUS
<1>2. IsFiniteSet(DOMAIN q)  BY <1>1, FS_Interval
<1>3. \A i \in DOMAIN q : q[i].to - q[i].from \in Int
  <2> TAKE i \in DOMAIN q
  <2>1. q[i] \in Episode  OBVIOUS
  <2>2. q[i].to \in Int /\ q[i].from \in Int  BY <2>1 DEF Episode
  <2>3. QED  BY <2>2
<1>4. fun \in [DOMAIN q -> Int]  BY <1>3
<1>5. Duration(q) = SumFunction(fun)  BY DEF Duration
<1> HIDE DEF fun
<1>6. QED  BY <1>2, <1>4, <1>5, SumFits

LEMMA FalseAlertsFit ==
    ASSUME NEW cfg, NEW s \in Seq(TimedRow)
    PROVE  RunFalseAlerts(cfg, s).events \in Int /\ RunFalseAlerts(cfg, s).duration \in Int
<1> DEFINE es == RunStateMachine(cfg, s).events
           q == IF s = <<>> THEN <<>> ELSE EpisodesFromEvents(es, Last(s).at + 1)
<1>1. es \in Seq(AtEvent)  BY RunFits DEF Replay
<1>2. /\ RunFalseAlerts(cfg, s).events = Len(q)
      /\ RunFalseAlerts(cfg, s).duration = Duration(q)
  BY DEF RunFalseAlerts, FalseAlertsIn
<1> HIDE DEF es
<1>3. q \in Seq(Episode)
  <2>1. CASE s = <<>>  BY <2>1
  <2>2. CASE s # <<>>
    <3>1. Len(s) \in 1 .. Len(s)  BY <2>2
    <3>2. s[Len(s)] \in TimedRow  BY <3>1
    <3>3. Last(s).at + 1 \in Int  BY <3>2 DEF Last, TimedRow
    <3>4. EpisodesFromEvents(es, Last(s).at + 1) \in Seq(Episode)  BY <1>1, <3>3, EpisodesFit
    <3>5. QED  BY <2>2, <3>4
  <2>3. QED  BY <2>1, <2>2
<1> HIDE DEF q
<1>4. QED  BY <1>2, <1>3, DurationFits

LEMMA SummedFits ==
    ASSUME NEW S, IsFiniteSet(S), NEW fun,
           \A r \in S : fun[r].events \in Int /\ fun[r].duration \in Int
    PROVE  /\ Summed(S, fun).events \in Int /\ Summed(S, fun).duration \in Int
           /\ Summed(S, fun).affected \in Int
<1> DEFINE E == [r \in S |-> fun[r].events]
           D == [r \in S |-> fun[r].duration]
           A == {r \in S : fun[r].events > 0}
<1>1. /\ Summed(S, fun).events = SumFunction(E) /\ Summed(S, fun).duration = SumFunction(D)
      /\ Summed(S, fun).affected = Cardinality(A)
  BY DEF Summed
<1>2. E \in [S -> Int] /\ D \in [S -> Int] /\ A \in SUBSET S  OBVIOUS
<1> HIDE DEF E, D, A
<1>3. SumFunction(E) \in Int /\ SumFunction(D) \in Int  BY <1>2, SumFits
<1>4. Cardinality(A) \in Int  BY <1>2, FS_Subset, FS_CardinalityType
<1>5. QED  BY <1>1, <1>3, <1>4

----------------------------------------------------------------------------
(* The order of the keys, and the first of the least.                      *)

Keys(n) == [1 .. n -> Int]

LEMMA KeysAreOrdered ==
    ASSUME NEW n \in Nat, NEW a \in Keys(n), NEW b \in Keys(n), NEW c \in Keys(n)
    PROVE  /\ ~ KeyLess(a, a)
           /\ KeyLess(a, b) \/ KeyLess(b, a) \/ a = b
           /\ KeyLess(a, b) /\ KeyLess(b, c) => KeyLess(a, c)
<1>1. /\ DOMAIN a = 1 .. n /\ DOMAIN b = 1 .. n /\ DOMAIN c = 1 .. n
      /\ \A i \in 1 .. n : a[i] \in Int /\ b[i] \in Int /\ c[i] \in Int
  BY DEF Keys
<1>2. ~ KeyLess(a, a)  BY <1>1 DEF KeyLess
<1>3. KeyLess(a, b) \/ KeyLess(b, a) \/ a = b
  <2> DEFINE D == {i \in 1 .. n : a[i] # b[i]}
  <2>1. CASE D = {}
    <3>1. \A i \in 1 .. n : a[i] = b[i]  BY <2>1
    <3>2. a = b  BY <3>1 DEF Keys
    <3>3. QED  BY <3>2
  <2>2. CASE D # {}
    <3>1. D \subseteq Nat  OBVIOUS
    <3>2. Min(D) \in D /\ \A y \in D : Min(D) <= y
      <4> HIDE DEF D
      <4>1. QED  BY <2>2, <3>1, LeastOf
    <3> DEFINE i == Min(D)
    <3>3. i \in 1 .. n /\ a[i] # b[i]  BY <3>2
    <3>4. \A j \in 1 .. i - 1 : a[j] = b[j]
      <4> TAKE j \in 1 .. i - 1
      <4> HIDE DEF i
      <4>1. j \in 1 .. n /\ ~ (i <= j)  BY <3>3
      <4>2. j \notin D
        <5> HIDE DEF D
        <5>1. QED  BY <3>2, <4>1 DEF i
      <4>3. QED  BY <4>1, <4>2
    <3> HIDE DEF i
    <3>5. a[i] < b[i] \/ b[i] < a[i]  BY <1>1, <3>3
    <3>6. QED  BY <1>1, <3>3, <3>4, <3>5 DEF KeyLess
  <2>3. QED  BY <2>1, <2>2
<1>4. ASSUME KeyLess(a, b), KeyLess(b, c) PROVE KeyLess(a, c)
  <2>1. PICK i \in 1 .. n : a[i] < b[i] /\ \A j \in 1 .. i - 1 : a[j] = b[j]
    BY <1>1, <1>4 DEF KeyLess
  <2>2. PICK k \in 1 .. n : b[k] < c[k] /\ \A j \in 1 .. k - 1 : b[j] = c[j]
    BY <1>1, <1>4 DEF KeyLess
  <2>3. CASE i <= k
    <3>1. a[i] < c[i]
      <4>1. i = k \/ i \in 1 .. k - 1  BY <2>3
      <4>2. a[i] \in Int /\ b[i] \in Int /\ c[i] \in Int  BY <1>1
      <4>3. QED  BY <2>1, <2>2, <4>1, <4>2
    <3>2. \A j \in 1 .. i - 1 : a[j] = c[j]
      <4> TAKE j \in 1 .. i - 1
      <4>1. j \in 1 .. k - 1  BY <2>3
      <4>2. QED  BY <2>1, <2>2, <4>1
    <3>3. QED  BY <1>1, <3>1, <3>2 DEF KeyLess
  <2>4. CASE k < i
    <3>1. k \in 1 .. i - 1  BY <2>4
    <3>2. a[k] < c[k]  BY <2>1, <2>2, <3>1
    <3>3. \A j \in 1 .. k - 1 : a[j] = c[j]
      <4> TAKE j \in 1 .. k - 1
      <4>1. j \in 1 .. i - 1  BY <2>4
      <4>2. QED  BY <2>1, <2>2, <4>1
    <3>4. QED  BY <1>1, <3>2, <3>3 DEF KeyLess
  <2>5. QED  BY <2>3, <2>4
<1>5. QED  BY <1>2, <1>3, <1>4

(* Less by the key or, no worse, at an earlier place.                      *)
Prefers(key, place, y, x) ==
    KeyLess(key[y], key[x]) \/ (~ KeyLess(key[x], key[y]) /\ place[y] < place[x])

IsFirstLeast(S, key, place, x) ==
    /\ \A y \in S : ~ KeyLess(key[y], key[x])
    /\ \A y \in S : place[y] < place[x] => KeyLess(key[x], key[y])

LEMMA SomeIsFirst ==
    ASSUME NEW S, IsFiniteSet(S), S # {}, NEW n \in Nat, NEW key \in [S -> Keys(n)],
           NEW place \in [S -> Int]
    PROVE  \E x \in S : IsFirstLeast(S, key, place, x)
<1> DEFINE ahead(x) == {y \in S : Prefers(key, place, y, x)}
           C == {Cardinality(ahead(x)) : x \in S}
<1>1. ASSUME NEW x \in S PROVE ~ Prefers(key, place, x, x)
  <2>1. key[x] \in Keys(n) /\ place[x] \in Int  OBVIOUS
  <2>2. QED  BY <2>1, KeysAreOrdered DEF Prefers
<1>2. ASSUME NEW x \in S, NEW y \in S, NEW z \in S,
             Prefers(key, place, z, y), Prefers(key, place, y, x)
      PROVE  Prefers(key, place, z, x)
  <2> DEFINE a == key[z]
             b == key[y]
             c == key[x]
  <2>1. a \in Keys(n) /\ b \in Keys(n) /\ c \in Keys(n)  OBVIOUS
  <2>2. place[z] \in Int /\ place[y] \in Int /\ place[x] \in Int  OBVIOUS
  <2>3. KeyLess(a, b) \/ (~ KeyLess(b, a) /\ place[z] < place[y])  BY <1>2 DEF Prefers
  <2>4. KeyLess(b, c) \/ (~ KeyLess(c, b) /\ place[y] < place[x])  BY <1>2 DEF Prefers
  <2> HIDE DEF a, b, c
  <2>5. /\ KeyLess(a, b) /\ KeyLess(b, c) => KeyLess(a, c)
        /\ KeyLess(a, b) \/ KeyLess(b, a) \/ a = b
        /\ KeyLess(b, c) \/ KeyLess(c, b) \/ b = c
        /\ ~ KeyLess(a, a) /\ ~ KeyLess(c, c)
    BY <2>1, KeysAreOrdered
  <2>6. KeyLess(a, c) \/ (a = c /\ place[z] < place[x])  BY <2>2, <2>3, <2>4, <2>5
  <2>7. QED  BY <2>5, <2>6 DEF Prefers, a, c
<1>3. \A x \in S : ahead(x) \in SUBSET S /\ IsFiniteSet(ahead(x)) /\ Cardinality(ahead(x)) \in Nat
  <2> TAKE x \in S
  <2>1. ahead(x) \in SUBSET S  OBVIOUS
  <2> HIDE DEF ahead
  <2>2. IsFiniteSet(ahead(x))  BY <2>1, FS_Subset
  <2>3. QED  BY <2>1, <2>2, FS_CardinalityType
<1>4. PICK x \in S : \A y \in S : Cardinality(ahead(x)) <= Cardinality(ahead(y))
  <2> HIDE DEF ahead
  <2>1. C \subseteq Nat /\ C # {}  BY <1>3
  <2>2. Min(C) \in C /\ \A y \in C : Min(C) <= y
    <3> HIDE DEF C
    <3>1. QED  BY <2>1, LeastOf
  <2>3. PICK x \in S : Min(C) = Cardinality(ahead(x))  BY <2>2
  <2>4. \A y \in S : Cardinality(ahead(y)) \in C  OBVIOUS
  <2>5. \A y \in S : Cardinality(ahead(x)) <= Cardinality(ahead(y))
    <3> HIDE DEF C
    <3>1. QED  BY <2>2, <2>3, <2>4
  <2>6. QED  BY <2>5
<1>5. ASSUME NEW y \in S PROVE ~ Prefers(key, place, y, x)
  <2> SUFFICES ASSUME Prefers(key, place, y, x) PROVE FALSE  OBVIOUS
  <2>1. y \in ahead(x) /\ y \notin ahead(y)  BY <1>1
  <2>2. ahead(y) \in SUBSET ahead(x)  BY <1>2
  <2> HIDE DEF ahead
  <2>3. Cardinality(ahead(y)) < Cardinality(ahead(x))  BY <1>3, <2>1, <2>2, StrictlyFewer
  <2>4. QED  BY <1>3, <1>4, <2>3
<1>6. QED  BY <1>5 DEF Prefers, IsFirstLeast

(* What the searches choose.                                               *)
LEMMA FirstLeastFacts ==
    ASSUME NEW S, IsFiniteSet(S), S # {}, S \subseteq Int, NEW n \in Nat, NEW key \in [S -> Keys(n)]
    PROVE  FirstLeast(S, key) \in S /\ \A y \in S : ~ KeyLess(key[y], key[FirstLeast(S, key)])
<1> DEFINE place == [x \in S |-> x]
           chosen(x) == /\ \A y \in S : ~ KeyLess(key[y], key[x])
                        /\ \A y \in S : y < x => KeyLess(key[x], key[y])
<1>1. place \in [S -> Int]  OBVIOUS
<1>2. PICK x \in S : IsFirstLeast(S, key, place, x)
  <2> HIDE DEF place
  <2>1. QED  BY <1>1, SomeIsFirst
<1>3. chosen(x)  BY <1>2 DEF IsFirstLeast
<1>4. FirstLeast(S, key) = CHOOSE i \in S : chosen(i)  BY DEF FirstLeast
<1>5. FirstLeast(S, key) \in S /\ chosen(FirstLeast(S, key))
  <2> HIDE DEF chosen
  <2>1. QED  BY <1>3, <1>4
<1>6. QED  BY <1>5

----------------------------------------------------------------------------
(* What a search is given, and what it makes of it.                        *)

RunsAreTyped == recorded \in [Run -> Seq(Rows)]

LEMMA RunData ==
    ASSUME RunsAreTyped, NEW r \in Run
    PROVE  Features(r) \in Seq(TimedRow) /\ GappedSequence(r) \in Seq(TimedRow)
<1>1. recorded[r] \in Seq(Rows) /\ Rows \subseteq Row  BY EvaluationAssumption DEF RunsAreTyped
<1>2. recorded[r] \in Seq(Row)  BY <1>1
<1>3. QED  BY <1>2, FeaturesFit, GappedFit DEF Features, GappedSequence

LEMMA MaskFacts ==
    ASSUME NEW split
    PROVE  /\ SplitMask(split) \in SUBSET Run /\ ValidationSplit \in SUBSET Run
           /\ \A S \in SUBSET Run : IsFiniteSet(S)
<1>1. SplitMask(split) \in SUBSET Run /\ ValidationSplit \in SUBSET Run
  BY DEF SplitMask, ValidationSplit
<1>2. IsFiniteSet(Run)  BY EvaluationAssumption
<1>3. \A S \in SUBSET Run : IsFiniteSet(S)  BY <1>2, FS_Subset
<1>4. QED  BY <1>1, <1>3

LEMMA RuleIsTyped ==
    ASSUME RunsAreTyped, NEW mask \in SUBSET Run, NEW threshold, NEW k
    PROVE  /\ EvaluateRule(mask, threshold, k).missed \in Int
           /\ EvaluateRule(mask, threshold, k).median \in Int
           /\ EvaluateRule(mask, threshold, k).events \in Int
<1> DEFINE F == {q \in mask : IsFaultRun(q)}
           latency == [r \in F |-> RuleLatency(r, Features(r), threshold, k)]
           alarms == [r \in mask |-> RuleAlarms(r, Features(r), threshold, k)]
           M == {r \in DOMAIN latency : latency[r] = Absent}
<1>1. /\ EvaluateRule(mask, threshold, k).missed = Cardinality(M)
      /\ EvaluateRule(mask, threshold, k).median = Median(latency)
      /\ EvaluateRule(mask, threshold, k).events = SumFunction(alarms)
  BY DEF EvaluateRule
<1>2. F \in SUBSET Run /\ M \in SUBSET Run  OBVIOUS
<1>3. IsFiniteSet(F) /\ IsFiniteSet(M) /\ IsFiniteSet(mask)  BY <1>2, MaskFacts
<1>4. \A r \in mask : /\ RuleLatency(r, Features(r), threshold, k) \in Int
                      /\ RuleAlarms(r, Features(r), threshold, k) \in Int
  BY RunData, RuleFits
<1>5. latency \in [F -> Int] /\ alarms \in [mask -> Int]  BY <1>4
<1> HIDE DEF F, latency, alarms, M
<1>6. Cardinality(M) \in Int  BY <1>3, FS_CardinalityType
<1>7. QED  BY <1>1, <1>3, <1>5, <1>6, MedianFits, SumFits

(* A higher threshold keeps no row that a lower one does not.              *)
LEMMA CoverageFalls ==
    ASSUME RunsAreTyped, NEW mask \in SUBSET Run, NEW t \in Int, NEW u \in Int, t <= u
    PROVE  /\ Coverage(mask, t) \in Int /\ Coverage(mask, u) \in Int
           /\ Coverage(mask, u) <= Coverage(mask, t)
<1> DEFINE A == [r \in mask |-> Covered(Labels(Features(r), u))]
           B == [r \in mask |-> Covered(Labels(Features(r), t))]
<1>1. ASSUME NEW r \in mask
      PROVE  /\ Covered(Labels(Features(r), u)) \in Int /\ Covered(Labels(Features(r), t)) \in Int
             /\ Covered(Labels(Features(r), u)) <= Covered(Labels(Features(r), t))
  <2> DEFINE s == Features(r)
             keeps(v) == {i \in 1 .. Len(s) : Diagnose(s[i].row, v) # Uncertain}
  <2>1. s \in Seq(TimedRow) /\ Len(s) \in Nat  BY RunData
  <2> HIDE DEF s
  <2>2. ASSUME NEW v PROVE Covered(Labels(s, v)) = Cardinality(keeps(v))
    <3>1. /\ DOMAIN Labels(s, v) = 1 .. Len(s)
          /\ \A i \in 1 .. Len(s) : Labels(s, v)[i] = Diagnose(s[i].row, v)
      BY DEF Labels
    <3>2. {i \in DOMAIN Labels(s, v) : Labels(s, v)[i] # Uncertain} = keeps(v)  BY <3>1
    <3>3. QED  BY <3>2 DEF Covered
  <2>3. keeps(u) \in SUBSET keeps(t)
    <3>1. ASSUME NEW i \in 1 .. Len(s), Diagnose(s[i].row, u) # Uncertain
          PROVE  Diagnose(s[i].row, t) # Uncertain
      <4> DEFINE p == s[i].row
      <4>0. s[i] \in TimedRow  BY <2>1, <3>1
      <4>1. p \in Row  BY <4>0 DEF TimedRow
      <4>2. p[Argmax(p)] \in Int  BY <4>1, ArgmaxIsFirst, RowFacts
      <4> HIDE DEF p
      <4>3. Diagnose(p, u) # Uncertain  BY <3>1 DEF p
      <4>4. p[Argmax(p)] >= u /\ Diagnosis(p) # Uncertain  BY <4>3 DEF Diagnose
      <4>5. p[Argmax(p)] >= t  BY <4>2, <4>4
      <4>6. Diagnose(p, t) # Uncertain  BY <4>4, <4>5 DEF Diagnose
      <4>7. QED  BY <4>6 DEF p
    <3>2. QED  BY <3>1
  <2>4. IsFiniteSet(1 .. Len(s))  BY <2>1, FS_Interval
  <2>5. keeps(u) \in SUBSET (1 .. Len(s)) /\ keeps(t) \in SUBSET (1 .. Len(s))  OBVIOUS
  <2> HIDE DEF keeps
  <2>6. IsFiniteSet(keeps(u)) /\ IsFiniteSet(keeps(t))  BY <2>4, <2>5, FS_Subset
  <2>7. Cardinality(keeps(u)) <= Cardinality(keeps(t))  BY <2>3, <2>6, FS_Subset
  <2>8. Cardinality(keeps(u)) \in Int /\ Cardinality(keeps(t)) \in Int  BY <2>6, FS_CardinalityType
  <2>9. QED  BY <2>2, <2>7, <2>8 DEF s
<1>2. A \in [mask -> Int] /\ B \in [mask -> Int] /\ \A r \in mask : A[r] <= B[r]  BY <1>1
<1>3. IsFiniteSet(mask)  BY MaskFacts
<1>4. Coverage(mask, u) = SumFunction(A) /\ Coverage(mask, t) = SumFunction(B)  BY DEF Coverage
<1> HIDE DEF A, B
<1>5. QED  BY <1>2, <1>3, <1>4, SumIsMonotone

(* A judged candidate has a key, and is not kept with missed runs.         *)
IsCandidate(x) ==
    /\ x.key \in Keys(6) /\ x.missed \in Int
    /\ ~ x.rejected => x.missed <= MaxMissed

LEMMA TupleIsKey ==
    ASSUME NEW k \in Seq(Int), NEW n \in Nat, Len(k) = n
    PROVE  k \in Keys(n)
<1>1. k \in [1 .. Len(k) -> Int]  OBVIOUS
<1>2. QED  BY <1>1 DEF Keys

LEMMA FieldsOfCandidate ==
    ASSUME NEW k \in Keys(6), NEW m \in Int, NEW slow, NEW unseen
    PROVE  LET x == [key |-> k, missed |-> m, rejected |-> m > MaxMissed \/ slow]
           IN IsCandidate(x) /\ IsCandidate([x EXCEPT !.rejected = @ \/ unseen])
<1> DEFINE over == m > MaxMissed
           x == [key |-> k, missed |-> m, rejected |-> over \/ slow]
           y == [x EXCEPT !.rejected = @ \/ unseen]
<1>1. ~ over => m <= MaxMissed
  <2>1. MaxMissed \in Int  BY EvaluationAssumption
  <2>2. QED  BY <2>1
<1> HIDE DEF over
<1>2. x.key = k /\ x.missed = m /\ x.rejected = (over \/ slow)  OBVIOUS
<1>3. y.key = k /\ y.missed = m /\ y.rejected = ((over \/ slow) \/ unseen)  OBVIOUS
<1> HIDE DEF x, y
<1>4. over => x.rejected /\ y.rejected
  <2>1. ASSUME over PROVE (over \/ slow) /\ ((over \/ slow) \/ unseen)  BY <2>1
  <2>2. QED  BY <1>2, <1>3, <2>1, Zenon
<1>5. IsCandidate(x)  BY <1>1, <1>2, <1>4 DEF IsCandidate
<1>6. IsCandidate(y)  BY <1>1, <1>3, <1>4 DEF IsCandidate
<1>7. QED  BY <1>5, <1>6 DEF x, y, over

LEMMA JudgedFits ==
    ASSUME NEW cfg, cfg.entryPersistence \in Nat, cfg.exitPersistence \in Nat,
           NEW D, IsFiniteSet(D), NEW detection, DOMAIN detection = D,
           \A r \in D : detection[r].correct \in Int,
           NEW alerts, alerts.events \in Int, alerts.affected \in Int, alerts.duration \in Int,
           NEW baseline
    PROVE  /\ IsCandidate(Judged(cfg, detection, alerts, baseline))
           /\ IsCandidate(JudgedRobust(cfg, detection, alerts, baseline))
<1> DEFINE latency == [r \in D |-> detection[r].correct]
           median == MedianLatency(detection)
           M == MissedRuns(detection)
           missed == Cardinality(M)
           key == PolicyKey(cfg, alerts, median)
           slow == TooSlow(median, baseline)
           unseen == AnyFaultMissedRuns(detection) # {}
           x == [key |-> key, missed |-> missed, rejected |-> missed > MaxMissed \/ slow]
<1>1. median = Median(latency)  BY DEF MedianLatency
<1>2. latency \in [D -> Int]  OBVIOUS
<1>3. median \in Int
  <2> HIDE DEF latency
  <2>1. QED  BY <1>1, <1>2, MedianFits
<1>4. M \in SUBSET D  BY DEF MissedRuns
<1>5. missed \in Int
  <2> HIDE DEF M
  <2>1. QED  BY <1>4, FS_Subset, FS_CardinalityType
<1>6. Judged(cfg, detection, alerts, baseline) = x  BY DEF Judged
<1>7. JudgedRobust(cfg, detection, alerts, baseline) = [x EXCEPT !.rejected = @ \/ unseen]
  <2> HIDE DEF x
  <2>1. QED  BY <1>6 DEF JudgedRobust
<1> HIDE DEF median, missed, slow, unseen
<1>8. key \in Keys(6)
  <2> DEFINE e == alerts.events
             a == alerts.affected
             d == alerts.duration
             v == Undetected(median)
             w == cfg.entryPersistence + cfg.exitPersistence
  <2>1. e \in Int /\ a \in Int /\ d \in Int /\ w \in Int  OBVIOUS
  <2>2. v \in Int  BY DEF Undetected
  <2>3. key = <<e, a, d, v, median, w>>  BY DEF PolicyKey
  <2> HIDE DEF e, a, d, v, w, key
  <2>4. key \in Seq(Int) /\ Len(key) = 6  BY <1>3, <2>1, <2>2, <2>3
  <2>5. QED  BY <2>4, TupleIsKey
<1> HIDE DEF key
<1>9. IsCandidate(x) /\ IsCandidate([x EXCEPT !.rejected = @ \/ unseen])
  BY <1>5, <1>8, FieldsOfCandidate
<1> HIDE DEF x
<1>10. QED  BY <1>6, <1>7, <1>9

LEMMA DetectionsFit ==
    ASSUME RunsAreTyped, NEW mask \in SUBSET Run, NEW cfg
    PROVE  LET D == {q \in mask : IsFaultRun(q)}
           IN /\ IsFiniteSet(D)
              /\ DOMAIN EvaluateDetection(mask, cfg) = D
              /\ DOMAIN EvaluateGappedDetection(mask, cfg) = D
              /\ \A r \in D : /\ EvaluateDetection(mask, cfg)[r].correct \in Int
                              /\ EvaluateGappedDetection(mask, cfg)[r].correct \in Int
<1> DEFINE D == {q \in mask : IsFaultRun(q)}
<1>1. D \in SUBSET Run  OBVIOUS
<1>2. IsFiniteSet(D)
  <2> HIDE DEF D
  <2>1. QED  BY <1>1, MaskFacts
<1>3. /\ DOMAIN EvaluateDetection(mask, cfg) = D
      /\ DOMAIN EvaluateGappedDetection(mask, cfg) = D
  BY DEF EvaluateDetection, EvaluateGappedDetection
<1>4. ASSUME NEW r \in D
      PROVE  /\ EvaluateDetection(mask, cfg)[r].correct \in Int
             /\ EvaluateGappedDetection(mask, cfg)[r].correct \in Int
  <2>1. Info[r].onset \in Int  BY <1>1, EvaluationAssumption
  <2>2. Features(r) \in Seq(TimedRow) /\ GappedSequence(r) \in Seq(TimedRow)  BY <1>1, RunData
  <2>3. /\ EvaluateRunDetection(cfg, Features(r), Info[r].fault, Info[r].onset).correct \in Int
        /\ EvaluateRunDetection(cfg, GappedSequence(r), Info[r].fault, Info[r].onset).correct \in Int
    BY <2>1, <2>2, DetectionFits
  <2>4. /\ EvaluateDetection(mask, cfg)[r] =
             EvaluateRunDetection(cfg, Features(r), Info[r].fault, Info[r].onset)
        /\ EvaluateGappedDetection(mask, cfg)[r] =
             EvaluateRunDetection(cfg, GappedSequence(r), Info[r].fault, Info[r].onset)
    BY DEF EvaluateDetection, EvaluateGappedDetection
  <2>5. QED  BY <2>3, <2>4
<1>5. QED  BY <1>2, <1>3, <1>4

LEMMA AlertsFit ==
    ASSUME RunsAreTyped, NEW mask \in SUBSET Run, NEW cfg
    PROVE  /\ ComputeFalseAlertSummary(mask, cfg).events \in Int
           /\ ComputeFalseAlertSummary(mask, cfg).duration \in Int
           /\ ComputeFalseAlertSummary(mask, cfg).affected \in Int
           /\ EvaluateGappedFalseAlerts(mask, cfg).events \in Int
           /\ EvaluateGappedFalseAlerts(mask, cfg).duration \in Int
           /\ EvaluateGappedFalseAlerts(mask, cfg).affected \in Int
<1> DEFINE fun == [r \in mask |-> RunFalseAlerts(cfg, HealthySegment(r, Features(r)))]
           gun == [r \in mask |-> RunFalseAlerts(cfg, HealthySegment(r, GappedSequence(r)))]
<1>1. IsFiniteSet(mask)  BY MaskFacts
<1>2. ASSUME NEW r \in mask
      PROVE  /\ fun[r].events \in Int /\ fun[r].duration \in Int
             /\ gun[r].events \in Int /\ gun[r].duration \in Int
  <2>1. Features(r) \in Seq(TimedRow) /\ GappedSequence(r) \in Seq(TimedRow)  BY RunData
  <2>2. /\ HealthySegment(r, Features(r)) \in Seq(TimedRow)
        /\ HealthySegment(r, GappedSequence(r)) \in Seq(TimedRow)
    BY <2>1, SegmentFit
  <2>3. QED  BY <2>2, FalseAlertsFit
<1>3. /\ ComputeFalseAlertSummary(mask, cfg) = Summed(mask, fun)
      /\ EvaluateGappedFalseAlerts(mask, cfg) = Summed(mask, gun)
  BY DEF ComputeFalseAlertSummary, EvaluateGappedFalseAlerts
<1> HIDE DEF fun, gun
<1>4. QED  BY <1>1, <1>2, <1>3, SummedFits

LEMMA CandidatesFit ==
    ASSUME RunsAreTyped, NEW mask \in SUBSET Run, NEW i \in DOMAIN Grid, NEW baseline
    PROVE  /\ IsCandidate(EvaluateCandidate(mask, Grid[i], baseline))
           /\ IsCandidate(EvaluateRobustCandidate(mask, Grid[i], baseline))
<1> DEFINE cfg == Grid[i]
           D == {q \in mask : IsFaultRun(q)}
           da == EvaluateDetection(mask, cfg)
           dg == EvaluateGappedDetection(mask, cfg)
           fa == ComputeFalseAlertSummary(mask, cfg)
           fg == EvaluateGappedFalseAlerts(mask, cfg)
<1>1. cfg.entryPersistence \in Nat /\ cfg.exitPersistence \in Nat  BY EvaluationAssumption
<1>2. /\ EvaluateCandidate(mask, cfg, baseline) = Judged(cfg, da, fa, baseline)
      /\ EvaluateRobustCandidate(mask, cfg, baseline) = JudgedRobust(cfg, dg, fg, baseline)
  BY DEF EvaluateCandidate, EvaluateRobustCandidate
<1> HIDE DEF cfg
<1>3. /\ IsFiniteSet(D) /\ DOMAIN da = D /\ DOMAIN dg = D
      /\ \A r \in D : da[r].correct \in Int /\ dg[r].correct \in Int
  BY DetectionsFit
<1>4. /\ fa.events \in Int /\ fa.duration \in Int /\ fa.affected \in Int
      /\ fg.events \in Int /\ fg.duration \in Int /\ fg.affected \in Int
  BY AlertsFit
<1> HIDE DEF D, da, dg, fa, fg
<1>5. IsCandidate(Judged(cfg, da, fa, baseline))  BY <1>1, <1>3, <1>4, JudgedFits
<1>6. IsCandidate(JudgedRobust(cfg, dg, fg, baseline))  BY <1>1, <1>3, <1>4, JudgedFits
<1>7. QED  BY <1>2, <1>5, <1>6 DEF cfg

(* A search selects an acceptable candidate, and none better is left.      *)
SelectedSoundly(c) ==
    IF Selected(c) = 0 THEN \A i \in DOMAIN c : c[i].rejected
    ELSE /\ c[Selected(c)].missed <= MaxMissed
         /\ ~ c[Selected(c)].rejected
         /\ \A i \in DOMAIN c : ~ c[i].rejected => c[Selected(c)].key[1] <= c[i].key[1]

LEMMA SelectedIsSound ==
    ASSUME NEW c, DOMAIN c = DOMAIN Grid, \A i \in DOMAIN c : IsCandidate(c[i])
    PROVE  SelectedSoundly(c)
<1> DEFINE S == {i \in DOMAIN c : ~ c[i].rejected}
           key == [i \in S |-> c[i].key]
           best == FirstLeast(S, key)
<1>1. DOMAIN c = 1 .. Len(Grid) /\ Len(Grid) \in Nat  BY EvaluationAssumption
<1>2. S \in SUBSET (1 .. Len(Grid))  BY <1>1
<1>3. IsFiniteSet(S) /\ S \subseteq Int /\ 0 \notin S
  <2> HIDE DEF S
  <2>1. IsFiniteSet(1 .. Len(Grid))  BY <1>1, FS_Interval
  <2>2. IsFiniteSet(S)  BY <1>2, <2>1, FS_Subset
  <2>3. S \subseteq Int /\ 0 \notin S  BY <1>1, <1>2
  <2>4. QED  BY <2>2, <2>3
<1>4. Selected(c) = IF S = {} THEN 0 ELSE best  BY DEF Selected
<1>5. CASE S = {}
  <2>1. Selected(c) = 0  BY <1>4, <1>5
  <2>2. \A i \in DOMAIN c : c[i].rejected  BY <1>5
  <2>3. QED  BY <2>1, <2>2 DEF SelectedSoundly
<1>6. CASE S # {}
  <2>1. key \in [S -> Keys(6)]  BY DEF IsCandidate
  <2>2. best \in S /\ \A y \in S : ~ KeyLess(key[y], key[best])
    <3> HIDE DEF S, key
    <3>1. QED  BY <1>3, <1>6, <2>1, FirstLeastFacts
  <2>3. Selected(c) = best /\ Selected(c) # 0
    <3> HIDE DEF S, best
    <3>1. QED  BY <1>3, <1>4, <1>6, <2>2
  <2> HIDE DEF best
  <2>4. ~ c[best].rejected /\ c[best].missed <= MaxMissed  BY <2>2 DEF IsCandidate
  <2>5. ASSUME NEW i \in DOMAIN c, ~ c[i].rejected PROVE c[best].key[1] <= c[i].key[1]
    <3> DEFINE a == c[i].key
               b == c[best].key
    <3>1. i \in S  BY <2>5
    <3>2. ~ KeyLess(a, b)  BY <2>2, <3>1
    <3>3. a \in Keys(6) /\ b \in Keys(6)  BY <2>2, <2>5 DEF IsCandidate
    <3> HIDE DEF a, b
    <3>4. 1 \in DOMAIN a /\ a[1] \in Int /\ b[1] \in Int /\ 1 .. 1 - 1 = {}  BY <3>3 DEF Keys
    <3>5. ~ (a[1] < b[1])  BY <3>2, <3>4 DEF KeyLess
    <3>6. b[1] <= a[1]  BY <3>4, <3>5
    <3>7. QED  BY <3>6 DEF a, b
  <2>6. QED  BY <2>3, <2>4, <2>5 DEF SelectedSoundly
<1>7. QED  BY <1>5, <1>6

LEMMA SelectionsAreSound ==
    ASSUME RunsAreTyped
    PROVE  SelectionIsSound
<1>1. SelectedSoundly(AlertPolicyCandidates)
  <2> DEFINE b == EvaluateRule(ValidationSplit, 0, Persistence[Len(Persistence)]).median
             c == AlertPolicyCandidates
  <2>1. c = [i \in DOMAIN Grid |-> EvaluateCandidate(ValidationSplit, Grid[i], b)]
    BY DEF AlertPolicyCandidates
  <2> HIDE DEF b, c
  <2>2. DOMAIN c = DOMAIN Grid /\ \A i \in DOMAIN c : IsCandidate(c[i])
    BY <2>1, MaskFacts, CandidatesFit
  <2>3. SelectedSoundly(c)  BY <2>2, SelectedIsSound
  <2>4. QED  BY <2>3 DEF c
<1>2. SelectedSoundly(RobustCandidates)
  <2> DEFINE b == MedianLatency(EvaluateGappedDetection(ValidationSplit, Frozen))
             c == RobustCandidates
  <2>1. c = [i \in DOMAIN Grid |-> EvaluateRobustCandidate(ValidationSplit, Grid[i], b)]
    BY DEF RobustCandidates
  <2> HIDE DEF b, c
  <2>2. DOMAIN c = DOMAIN Grid /\ \A i \in DOMAIN c : IsCandidate(c[i])
    BY <2>1, MaskFacts, CandidatesFit
  <2>3. SelectedSoundly(c)  BY <2>2, SelectedIsSound
  <2>4. QED  BY <2>3 DEF c
<1>3. QED  BY <1>1, <1>2 DEF SelectionIsSound, SelectedSoundly

----------------------------------------------------------------------------
(* The search of the calibration.                                          *)

Pairs == (DOMAIN Threshold) \X (DOMAIN Persistence)

LEMMA PairFacts ==
    /\ IsFiniteSet(Pairs) /\ Pairs # {}
    /\ \A x \in Pairs : /\ x[1] \in DOMAIN Threshold /\ x[2] \in DOMAIN Persistence
                        /\ x[1] \in Int /\ x[2] \in Int
    /\ Len(Persistence) \in Int
    /\ \A t \in DOMAIN Threshold : Threshold[t] \in Int
<1>1. /\ DOMAIN Threshold = 1 .. Len(Threshold) /\ Len(Threshold) \in Nat \ {0}
      /\ DOMAIN Persistence = 1 .. Len(Persistence) /\ Len(Persistence) \in Nat \ {0}
      /\ \A t \in DOMAIN Threshold : Threshold[t] \in Int
  BY EvaluationAssumption
<1>2. IsFiniteSet(DOMAIN Threshold) /\ IsFiniteSet(DOMAIN Persistence)  BY <1>1, FS_Interval
<1>3. IsFiniteSet(Pairs)  BY <1>2, FS_Product DEF Pairs
<1>4. <<1, 1>> \in Pairs  BY <1>1 DEF Pairs
<1>5. \A x \in Pairs : x[1] \in DOMAIN Threshold /\ x[2] \in DOMAIN Persistence  BY DEF Pairs
<1>6. \A x \in Pairs : x[1] \in Int /\ x[2] \in Int  BY <1>1, <1>5
<1>7. QED  BY <1>1, <1>3, <1>4, <1>5, <1>6

LEMMA CalibratedFit ==
    ASSUME RunsAreTyped, NEW x \in Pairs
    PROVE  CalibrationCandidates[x].key \in Keys(4)
<1> DEFINE V == ValidationSplit
           t == Threshold[x[1]]
           rule == EvaluateRule(V, t, Persistence[x[2]])
           e == rule.events
           m == rule.median
           u == Undetected(m)
           cover == Coverage(V, t)
           w == 0 - cover
           key == <<e, u, m, w>>
<1>1. CalibrationCandidates[x].key = key  BY DEF CalibrationCandidates, Pairs
<1>2. V \in SUBSET Run  BY MaskFacts
<1>3. t \in Int  BY PairFacts
<1>4. e \in Int /\ m \in Int
  <2> HIDE DEF V, t
  <2>1. QED  BY <1>2, RuleIsTyped
<1>5. cover \in Int
  <2> HIDE DEF V, t
  <2>1. QED  BY <1>2, <1>3, CoverageFalls
<1> HIDE DEF V, t, rule, e, m, cover
<1>6. u \in Int /\ w \in Int  BY <1>5 DEF Undetected
<1> HIDE DEF u, w
<1>7. key \in Seq(Int) /\ Len(key) = 4  BY <1>4, <1>6
<1> HIDE DEF key
<1>8. QED  BY <1>1, <1>7, TupleIsKey

LEMMA BestIsKept ==
    ASSUME NEW c, DOMAIN c = Pairs, \A x \in Pairs : c[x].key \in Keys(4)
    PROVE  /\ BestCalibrated(c) \in Pairs
           /\ c[BestCalibrated(c)].rejected => \A x \in DOMAIN c : c[x].rejected
<1> DEFINE S == {x \in DOMAIN c : ~ c[x].rejected}
           pool == IF S = {} THEN DOMAIN c ELSE S
           key == [x \in pool |-> c[x].key]
           at(x) == (x[1] - 1) * Len(Persistence) + x[2]
           place == [x \in pool |-> at(x)]
           chosen(x) == /\ \A y \in pool : ~ KeyLess(c[y].key, c[x].key)
                        /\ \A y \in pool : at(y) < at(x) => KeyLess(c[x].key, c[y].key)
<1>1. BestCalibrated(c) = CHOOSE x \in pool : chosen(x)  BY DEF BestCalibrated
<1>2. pool \in SUBSET Pairs /\ pool # {}  BY PairFacts
<1>3. IsFiniteSet(pool)
  <2> HIDE DEF pool
  <2>1. QED  BY <1>2, PairFacts, FS_Subset
<1>4. key \in [pool -> Keys(4)]
  <2> HIDE DEF pool
  <2>1. QED  BY <1>2
<1>5. ASSUME NEW x \in pool PROVE at(x) \in Int
  <2> HIDE DEF pool
  <2> DEFINE a == x[1]
             b == x[2]
             n == Len(Persistence)
  <2>1. a \in Int /\ b \in Int /\ n \in Int  BY <1>2, PairFacts
  <2>2. at(x) = (a - 1) * n + b  OBVIOUS
  <2> HIDE DEF a, b, n, at
  <2>3. (a - 1) * n + b \in Int  BY <2>1
  <2>4. QED  BY <2>2, <2>3
<1>6. place \in [pool -> Int]
  <2> HIDE DEF pool, at
  <2>1. QED  BY <1>5
<1>7. \E x \in pool : chosen(x)
  <2>1. PICK x \in pool : IsFirstLeast(pool, key, place, x)
    <3> HIDE DEF pool, key, place
    <3>1. QED  BY <1>2, <1>3, <1>4, <1>6, SomeIsFirst
  <2>2. chosen(x)
    <3> HIDE DEF pool, at
    <3>1. QED  BY <2>1 DEF IsFirstLeast
  <2>3. QED  BY <2>2
<1>8. BestCalibrated(c) \in pool
  <2> HIDE DEF pool, chosen
  <2>1. QED  BY <1>1, <1>7
<1> DEFINE best == BestCalibrated(c)
<1>9. best \in Pairs
  <2> HIDE DEF pool
  <2>1. QED  BY <1>2, <1>8
<1> HIDE DEF best
<1>10. c[best].rejected => S = {}
  <2>1. best \in pool  BY <1>8 DEF best
  <2>2. QED  BY <2>1
<1>11. S = {} => \A x \in DOMAIN c : c[x].rejected  OBVIOUS
<1>12. QED
  <2> HIDE DEF S
  <2>1. QED  BY <1>9, <1>10, <1>11 DEF best

LEMMA CalibrationsAreSound ==
    ASSUME RunsAreTyped
    PROVE  CalibrationIsSound
<1> DEFINE c == CalibrationCandidates
           best == BestCalibrated(c)
           report == CalibrationExperiment
<1>1. report.selected = best  BY DEF CalibrationExperiment, SearchCalibratedPolicies
<1>2. DOMAIN c = Pairs  BY DEF CalibrationCandidates, Pairs
<1>3. \A x \in Pairs : c[x].key \in Keys(4)  BY CalibratedFit
<1>4. c[report.selected].rejected => \A x \in DOMAIN c : c[x].rejected
  <2> HIDE DEF c, report
  <2>1. c[best].rejected => \A x \in DOMAIN c : c[x].rejected  BY <1>2, <1>3, BestIsKept
  <2>2. QED  BY <1>1, <2>1
<1>5. ASSUME NEW t \in DOMAIN Threshold, NEW u \in DOMAIN Threshold, Threshold[t] <= Threshold[u]
      PROVE  report.grid[t] >= report.grid[u]
  <2> DEFINE V == ValidationSplit
             a == Coverage(V, Threshold[t])
             b == Coverage(V, Threshold[u])
  <2>1. report.grid[t] = a /\ report.grid[u] = b  BY DEF CalibrationExperiment
  <2>2. Threshold[t] \in Int /\ Threshold[u] \in Int  BY PairFacts
  <2>3. V \in SUBSET Run  BY MaskFacts
  <2>4. a \in Int /\ b \in Int /\ b <= a
    <3> HIDE DEF V
    <3>1. QED  BY <1>5, <2>2, <2>3, CoverageFalls
  <2> HIDE DEF a, b, report
  <2>5. QED  BY <2>1, <2>4
<1>6. QED  BY <1>4, <1>5 DEF CalibrationIsSound

----------------------------------------------------------------------------
(* What a search depends on.                                               *)

(* The rows of the validation runs stay.                                   *)
ValidationKept ==
    \A q \in Run : Info[q].split = "validation" => recorded'[q] = recorded[q]

LEMMA SameSplit ==
    ASSUME ValidationKept
    PROVE  /\ ValidationSplit' = ValidationSplit
           /\ \A q \in ValidationSplit : /\ Features(q)' = Features(q)
                                         /\ GappedSequence(q)' = GappedSequence(q)
<1>1. \A q \in Run : Info[q].split = "validation" =>
        /\ FeaturesOf(recorded'[q]) = FeaturesOf(recorded[q])
        /\ GappedOf(recorded'[q]) = GappedOf(recorded[q])
  BY DEF ValidationKept
<1>2. ValidationSplit' = ValidationSplit  BY <1>1 DEF ValidationSplit, SplitMask, Features
<1>3. QED  BY <1>1, <1>2 DEF ValidationSplit, SplitMask, Features, GappedSequence

LEMMA SameRule ==
    ASSUME ValidationKept, NEW t, NEW n
    PROVE  EvaluateRule(ValidationSplit, t, n)' = EvaluateRule(ValidationSplit, t, n)
<1>1. PICK V : V = ValidationSplit  OBVIOUS
<1>2. V = ValidationSplit' /\ \A q \in V : Features(q)' = Features(q)  BY <1>1, SameSplit
<1> DEFINE F == {q \in V : IsFaultRun(q)}
           a == [r \in F |-> RuleLatency(r, Features(r), t, n)]
           b == [r \in V |-> RuleAlarms(r, Features(r), t, n)]
           out(x, y) == [missed |-> Cardinality({r \in DOMAIN x : x[r] = Absent}),
                         total |-> Cardinality(DOMAIN x), median |-> Median(x),
                         events |-> SumFunction(y)]
<1>3. EvaluateRule(ValidationSplit, t, n) = out(a, b)  BY <1>1 DEF EvaluateRule
<1>4. EvaluateRule(ValidationSplit, t, n)' = out(a', b')  BY <1>2 DEF EvaluateRule
<1>5. a' = a /\ b' = b  BY <1>2
<1>6. QED  BY <1>3, <1>4, <1>5

LEMMA SameCoverage ==
    ASSUME ValidationKept, NEW t
    PROVE  Coverage(ValidationSplit, t)' = Coverage(ValidationSplit, t)
<1>1. PICK V : V = ValidationSplit  OBVIOUS
<1>2. V = ValidationSplit' /\ \A q \in V : Features(q)' = Features(q)  BY <1>1, SameSplit
<1> DEFINE a == [r \in V |-> Covered(Labels(Features(r), t))]
<1>3. Coverage(ValidationSplit, t) = SumFunction(a)  BY <1>1 DEF Coverage
<1>4. Coverage(ValidationSplit, t)' = SumFunction(a')  BY <1>2 DEF Coverage
<1>5. a' = a  BY <1>2
<1>6. QED  BY <1>3, <1>4, <1>5

LEMMA SameDetection ==
    ASSUME ValidationKept, NEW cfg
    PROVE  /\ EvaluateDetection(ValidationSplit, cfg)' = EvaluateDetection(ValidationSplit, cfg)
           /\ EvaluateGappedDetection(ValidationSplit, cfg)' =
                EvaluateGappedDetection(ValidationSplit, cfg)
<1>1. PICK V : V = ValidationSplit  OBVIOUS
<1>2. /\ V = ValidationSplit'
      /\ \A q \in V : Features(q)' = Features(q) /\ GappedSequence(q)' = GappedSequence(q)
  BY <1>1, SameSplit
<1> DEFINE F == {q \in V : IsFaultRun(q)}
           a == [r \in F |-> EvaluateRunDetection(cfg, Features(r), Info[r].fault, Info[r].onset)]
           b == [r \in F |-> EvaluateRunDetection(cfg, GappedSequence(r), Info[r].fault,
                                                  Info[r].onset)]
<1>3. /\ EvaluateDetection(ValidationSplit, cfg) = a
      /\ EvaluateGappedDetection(ValidationSplit, cfg) = b
  BY <1>1 DEF EvaluateDetection, EvaluateGappedDetection
<1>4. /\ EvaluateDetection(ValidationSplit, cfg)' = a'
      /\ EvaluateGappedDetection(ValidationSplit, cfg)' = b'
  BY <1>2 DEF EvaluateDetection, EvaluateGappedDetection
<1>5. a' = a /\ b' = b  BY <1>2
<1>6. QED  BY <1>3, <1>4, <1>5

LEMMA SameAlerts ==
    ASSUME ValidationKept, NEW cfg
    PROVE  /\ ComputeFalseAlertSummary(ValidationSplit, cfg)' =
                ComputeFalseAlertSummary(ValidationSplit, cfg)
           /\ EvaluateGappedFalseAlerts(ValidationSplit, cfg)' =
                EvaluateGappedFalseAlerts(ValidationSplit, cfg)
<1>1. PICK V : V = ValidationSplit  OBVIOUS
<1>2. /\ V = ValidationSplit'
      /\ \A q \in V : Features(q)' = Features(q) /\ GappedSequence(q)' = GappedSequence(q)
  BY <1>1, SameSplit
<1> DEFINE a == [r \in V |-> RunFalseAlerts(cfg, HealthySegment(r, Features(r)))]
           b == [r \in V |-> RunFalseAlerts(cfg, HealthySegment(r, GappedSequence(r)))]
<1>3. /\ ComputeFalseAlertSummary(ValidationSplit, cfg) = Summed(V, a)
      /\ EvaluateGappedFalseAlerts(ValidationSplit, cfg) = Summed(V, b)
  BY <1>1 DEF ComputeFalseAlertSummary, EvaluateGappedFalseAlerts
<1>4. /\ ComputeFalseAlertSummary(ValidationSplit, cfg)' = Summed(V, a')
      /\ EvaluateGappedFalseAlerts(ValidationSplit, cfg)' = Summed(V, b')
  BY <1>2 DEF ComputeFalseAlertSummary, EvaluateGappedFalseAlerts
<1>5. a' = a /\ b' = b  BY <1>2
<1>6. QED  BY <1>3, <1>4, <1>5

LEMMA SameCandidates ==
    ASSUME ValidationKept
    PROVE  /\ AlertPolicyCandidates' = AlertPolicyCandidates
           /\ RobustCandidates' = RobustCandidates
<1>1. AlertPolicyCandidates' = AlertPolicyCandidates
  <2> DEFINE n == Persistence[Len(Persistence)]
             base == EvaluateRule(ValidationSplit, 0, n).median
             d(i) == EvaluateDetection(ValidationSplit, Grid[i])
             f(i) == ComputeFalseAlertSummary(ValidationSplit, Grid[i])
             c == [i \in DOMAIN Grid |-> Judged(Grid[i], d(i), f(i), base)]
  <2>1. AlertPolicyCandidates = c  BY DEF AlertPolicyCandidates, EvaluateCandidate
  <2>2. AlertPolicyCandidates' = c'  BY DEF AlertPolicyCandidates, EvaluateCandidate
  <2>3. base' = base  BY SameRule
  <2>4. \A i \in DOMAIN Grid : d(i)' = d(i) /\ f(i)' = f(i)  BY SameDetection, SameAlerts
  <2> HIDE DEF base, d, f
  <2>5. c' = c  BY <2>3, <2>4
  <2>6. QED  BY <2>1, <2>2, <2>5
<1>2. RobustCandidates' = RobustCandidates
  <2> DEFINE base == MedianLatency(EvaluateGappedDetection(ValidationSplit, Frozen))
             d(i) == EvaluateGappedDetection(ValidationSplit, Grid[i])
             f(i) == EvaluateGappedFalseAlerts(ValidationSplit, Grid[i])
             c == [i \in DOMAIN Grid |-> JudgedRobust(Grid[i], d(i), f(i), base)]
  <2>1. RobustCandidates = c  BY DEF RobustCandidates, EvaluateRobustCandidate
  <2>2. RobustCandidates' = c'  BY DEF RobustCandidates, EvaluateRobustCandidate
  <2>3. base' = base  BY SameDetection
  <2>4. \A i \in DOMAIN Grid : d(i)' = d(i) /\ f(i)' = f(i)  BY SameDetection, SameAlerts
  <2> HIDE DEF base, d, f
  <2>5. c' = c  BY <2>3, <2>4
  <2>6. QED  BY <2>1, <2>2, <2>5
<1>3. QED  BY <1>1, <1>2

LEMMA SameCalibration ==
    ASSUME ValidationKept
    PROVE  CalibrationCandidates' = CalibrationCandidates /\ SelectPersistence' = SelectPersistence
<1>1. CalibrationCandidates' = CalibrationCandidates
  <2> DEFINE rule(x) == EvaluateRule(ValidationSplit, Threshold[x[1]], Persistence[x[2]])
             cover(x) == Coverage(ValidationSplit, Threshold[x[1]])
             c == [x \in (DOMAIN Threshold) \X (DOMAIN Persistence) |->
                     [key |-> <<rule(x).events, Undetected(rule(x).median), rule(x).median,
                                0 - cover(x)>>,
                      rejected |-> rule(x).missed > MaxMissed]]
  <2>1. CalibrationCandidates = c  BY DEF CalibrationCandidates
  <2>2. CalibrationCandidates' = c'  BY DEF CalibrationCandidates
  <2>3. \A x : rule(x)' = rule(x) /\ cover(x)' = cover(x)  BY SameRule, SameCoverage
  <2> HIDE DEF rule, cover
  <2>4. c' = c  BY <2>3
  <2>5. QED  BY <2>1, <2>2, <2>4
<1>2. SelectPersistence' = SelectPersistence
  <2> DEFINE rule(p) == EvaluateRule(ValidationSplit, 0, Persistence[p])
             key == [p \in DOMAIN Persistence |-> <<rule(p).missed, rule(p).events>>]
  <2>1. SelectPersistence = FirstLeast(DOMAIN Persistence, key)  BY DEF SelectPersistence
  <2>2. SelectPersistence' = FirstLeast(DOMAIN Persistence, key')  BY DEF SelectPersistence
  <2>3. \A p : rule(p)' = rule(p)  BY SameRule
  <2> HIDE DEF rule
  <2>4. key' = key  BY <2>3
  <2>5. QED  BY <2>1, <2>2, <2>4
<1>3. QED  BY <1>1, <1>2

LEMMA SameSelections ==
    ASSUME ValidationKept
    PROVE  Selections' = Selections
BY SameCandidates, SameCalibration
DEF Selections, SearchPolicies, SearchRobustPolicies, SearchCalibratedPolicies

----------------------------------------------------------------------------
(* What was selected is what the studies would select now.                 *)
SelectionIsCurrent == selection # None => selection = Selections

EvaluationInv == RunsAreTyped /\ SelectionIsCurrent

LEMMA EvaluationStarts == EvaluationInit => EvaluationInv
BY DEF EvaluationInit, EvaluationInv, RunsAreTyped, SelectionIsCurrent

LEMMA EvaluationGoesOn ==
    ASSUME EvaluationInv, [EvaluationNext]_evaluationVars
    PROVE  EvaluationInv'
<1>1. ASSUME NEW r \in Run, NEW row \in Rows, Record(r, row) PROVE EvaluationInv'
  <2>1. recorded \in [Run -> Seq(Rows)]  BY DEF EvaluationInv, RunsAreTyped
  <2>2. recorded' = [recorded EXCEPT ![r] = Append(recorded[r], row)]  BY <1>1 DEF Record
  <2>3. RunsAreTyped'  BY <2>1, <2>2 DEF RunsAreTyped
  <2>4. CASE Info[r].split = "validation"
    <3>1. selection' = None  BY <1>1, <2>4 DEF Record
    <3>2. QED  BY <2>3, <3>1 DEF EvaluationInv, SelectionIsCurrent
  <2>5. CASE Info[r].split # "validation"
    <3>1. selection' = selection  BY <1>1, <2>5 DEF Record
    <3>2. ValidationKept  BY <2>1, <2>2, <2>5 DEF ValidationKept
    <3>3. Selections' = Selections  BY <3>2, SameSelections
    <3>4. QED  BY <2>3, <3>1, <3>3 DEF EvaluationInv, SelectionIsCurrent
  <2>6. QED  BY <2>4, <2>5
<1>2. CASE RunStudies
  <2>1. selection' = Selections /\ recorded' = recorded  BY <1>2 DEF RunStudies
  <2>2. Selections' = Selections  BY <2>1, SameSelections DEF ValidationKept
  <2>3. QED  BY <2>1, <2>2 DEF EvaluationInv, RunsAreTyped, SelectionIsCurrent
<1>3. CASE UNCHANGED evaluationVars
  <2>1. selection' = selection /\ recorded' = recorded  BY <1>3 DEF evaluationVars
  <2>2. Selections' = Selections  BY <2>1, SameSelections DEF ValidationKept
  <2>3. QED  BY <2>1, <2>2 DEF EvaluationInv, RunsAreTyped, SelectionIsCurrent
<1>4. QED  BY <1>1, <1>2, <1>3 DEF EvaluationNext

(***************************************************************************)
(* The searches of all studies stay sound: no rejected policy is returned  *)
(* while an acceptable one is left, none acceptable raises fewer false     *)
(* alerts, a higher threshold covers no more rows, and rows recorded of a  *)
(* test run change no selection (policy_search.py of the three studies),   *)
(* for every set of runs, every grid and every recorded row.               *)
(***************************************************************************)
THEOREM SearchesStaySound == EvaluationSpec => []SearchIsSound
<1>1. EvaluationInit => EvaluationInv  BY EvaluationStarts
<1>2. EvaluationInv /\ [EvaluationNext]_evaluationVars => EvaluationInv'  BY EvaluationGoesOn
<1>3. EvaluationInv => SearchIsSound
  BY SelectionsAreSound, CalibrationsAreSound
  DEF EvaluationInv, SelectionIsCurrent, SearchIsSound, SelectionIgnoresTest
<1>4. QED  BY <1>1, <1>2, <1>3, PTL DEF EvaluationSpec

----------------------------------------------------------------------------
(***************************************************************************)
(* The replay of recorded runs and the live session, module                *)
(* AlertEvaluation.                                                        *)
(***************************************************************************)

(* A fold goes on where the fold of a shorter sequence has come to.        *)
LEMMA RunGoesOn ==
    ASSUME NEW cfg, NEW s \in Seq(TimedRow), NEW x \in TimedRow
    PROVE  /\ RunStateMachine(cfg, <<>>) = NoReplay
           /\ RunStateMachine(cfg, Append(s, x)) = ReplayStep(cfg, RunStateMachine(cfg, s), x)
<1>1. RunStateMachine(cfg, <<>>) = NoReplay
  <2>1. <<>> \in Seq(TimedRow) /\ Len(<<>>) = 0  OBVIOUS
  <2>2. PICK h : Replays(h, cfg, <<>>) /\ RunStateMachine(cfg, <<>>) = h[0]  BY <2>1, RunIsReplay
  <2>3. h[0] = NoReplay
    <3>1. 0 \in 0 .. Len(<<>>)  BY <2>1
    <3>2. QED  BY <2>2, <3>1 DEF Replays
  <2>4. QED  BY <2>2, <2>3
<1> DEFINE q == Append(s, x)
           N == Len(s)
<1>2. /\ q \in Seq(TimedRow) /\ Len(q) = N + 1 /\ N \in Nat /\ q[N + 1] = x
      /\ \A n \in 1 .. N : q[n] = s[n]
  OBVIOUS
<1> HIDE DEF q, N
<1>3. PICK f : Replays(f, cfg, s) /\ RunStateMachine(cfg, s) = f[N]  BY RunIsReplay DEF N
<1>4. PICK g : Replays(g, cfg, q) /\ RunStateMachine(cfg, q) = g[N + 1]  BY <1>2, RunIsReplay
<1>5. g[0] = f[0]
  <2>1. 0 \in 0 .. Len(s) /\ 0 \in 0 .. Len(q)  BY <1>2 DEF N
  <2>2. QED  BY <1>3, <1>4, <2>1 DEF Replays
<1>6. ASSUME NEW n \in 1 .. N, g[n - 1] = f[n - 1] PROVE g[n] = f[n]
  <2>1. n \in 0 .. Len(s) /\ n \in 0 .. Len(q) /\ n # 0  BY <1>2 DEF N
  <2>2. f[n] = ReplayStep(cfg, f[n - 1], s[n])  BY <1>3, <2>1, Zenon DEF Replays
  <2>3. g[n] = ReplayStep(cfg, g[n - 1], q[n])  BY <1>4, <2>1, Zenon DEF Replays
  <2>4. QED  BY <1>2, <1>6, <2>2, <2>3
<1>7. g[N] = f[N]  BY <1>2, <1>5, <1>6, FoldsAgree
<1>8. g[N + 1] = ReplayStep(cfg, g[N], x)
  <2>1. N + 1 \in 0 .. Len(q) /\ N + 1 # 0 /\ (N + 1) - 1 = N  BY <1>2
  <2>2. g[N + 1] = ReplayStep(cfg, g[(N + 1) - 1], q[N + 1])  BY <1>4, <2>1, Zenon DEF Replays
  <2>3. QED  BY <1>2, <2>1, <2>2
<1>9. QED  BY <1>1, <1>3, <1>4, <1>7, <1>8 DEF q

LEMMA EpisodesGoOn ==
    ASSUME NEW es \in Seq(AtEvent), NEW e \in AtEvent
    PROVE  /\ Unfinished(<<>>) = NoEpisode /\ Unfinished(es) \in Open
           /\ Unfinished(Append(es, e)) = NextEpisode(Unfinished(es), e)
<1>1. Unfinished(<<>>) = NoEpisode
  <2>1. <<>> \in Seq(AtEvent) /\ Len(<<>>) = 0  OBVIOUS
  <2>2. PICK h : Opens(h, <<>>) /\ Unfinished(<<>>) = h[0]  BY <2>1, UnfinishedIsOpen
  <2>3. h[0] = NoEpisode
    <3>1. 0 \in 0 .. Len(<<>>)  BY <2>1
    <3>2. QED  BY <2>2, <3>1 DEF Opens
  <2>4. QED  BY <2>2, <2>3
<1> DEFINE q == Append(es, e)
           N == Len(es)
<1>2. /\ q \in Seq(AtEvent) /\ Len(q) = N + 1 /\ N \in Nat /\ q[N + 1] = e
      /\ \A n \in 1 .. N : q[n] = es[n]
  OBVIOUS
<1> HIDE DEF q, N
<1>3. PICK f : Opens(f, es) /\ Unfinished(es) = f[N] /\ f[N] \in Open
  BY UnfinishedIsOpen DEF N
<1>4. PICK g : Opens(g, q) /\ Unfinished(q) = g[N + 1]  BY <1>2, UnfinishedIsOpen
<1>5. g[0] = f[0]
  <2>1. 0 \in 0 .. Len(es) /\ 0 \in 0 .. Len(q)  BY <1>2 DEF N
  <2>2. QED  BY <1>3, <1>4, <2>1 DEF Opens
<1>6. ASSUME NEW n \in 1 .. N, g[n - 1] = f[n - 1] PROVE g[n] = f[n]
  <2>1. n \in 0 .. Len(es) /\ n \in 0 .. Len(q) /\ n # 0  BY <1>2 DEF N
  <2>2. f[n] = NextEpisode(f[n - 1], es[n])  BY <1>3, <2>1, Zenon DEF Opens
  <2>3. g[n] = NextEpisode(g[n - 1], q[n])  BY <1>4, <2>1, Zenon DEF Opens
  <2>4. QED  BY <1>2, <1>6, <2>2, <2>3
<1>7. g[N] = f[N]  BY <1>2, <1>5, <1>6, FoldsAgree
<1>8. g[N + 1] = NextEpisode(g[N], e)
  <2>1. N + 1 \in 0 .. Len(q) /\ N + 1 # 0 /\ (N + 1) - 1 = N  BY <1>2
  <2>2. g[N + 1] = NextEpisode(g[(N + 1) - 1], q[N + 1])  BY <1>4, <2>1, Zenon DEF Opens
  <2>3. QED  BY <1>2, <2>1, <2>2
<1>9. QED  BY <1>1, <1>3, <1>4, <1>7, <1>8 DEF q

----------------------------------------------------------------------------
(* What an event says about the confirmed class before and after it.       *)
EventTells(before, after, e) ==
    \/ e = NoEvent /\ after = before
    \/ e.type = "new_alert" /\ before = None /\ after = e.class /\ after \in Class
    \/ /\ e.type = "class_change" /\ before # None /\ after = e.class /\ after \in Class
       /\ after # before
    \/ e.type = "cleared" /\ before # None /\ after = None

LEMMA StepTells ==
    ASSUME NEW cfg, NEW m \in Machine, NEW row \in Row
    PROVE  LET out == StepStateMachine(cfg, m, row)
           IN EventTells(m.confirmed, out.machine.confirmed, out.event)
<1> DEFINE out == StepStateMachine(cfg, m, row)
<1>0. Diagnosis(row) \in Class /\ None \notin Class
  BY ArgmaxIsFirst, RowFacts, ClassFacts, MachineAssumption DEF Diagnosis
<1>1. CASE ~ Valid(row)
  <2>1. out = StepInvalid(m)  BY <1>1 DEF StepStateMachine
  <2>2. [m EXCEPT !.pending = None, !.pendingStreak = 0].confirmed = m.confirmed  BY DEF Machine
  <2>3. out.event = NoEvent /\ out.machine.confirmed = m.confirmed
    BY <2>1, <2>2 DEF StepInvalid
  <2>4. QED  BY <2>3 DEF EventTells
<1>2. CASE Valid(row) /\ m.confirmed = None
  <2> DEFINE pending == IF Qualifies(cfg, row) THEN Diagnosis(row) ELSE None
             streak == IF pending = None THEN 0 ELSE Extend(pending, m.pending, m.pendingStreak)
             raised == [machine |-> Confirmed(pending), event |-> AlertEvent("new_alert", pending)]
             waits == [machine |-> [m EXCEPT !.pending = pending, !.pendingStreak = streak],
                       event |-> NoEvent]
  <2>1. out = IF pending # None /\ streak >= cfg.entryPersistence THEN raised ELSE waits
    BY <1>2 DEF StepStateMachine, StepHealthy
  <2>2. pending # None => pending \in Class  BY <1>0
  <2> HIDE DEF pending, streak
  <2>3. waits.event = NoEvent /\ waits.machine.confirmed = m.confirmed  BY DEF Machine
  <2>4. /\ raised.event.type = "new_alert" /\ raised.event.class = pending
        /\ raised.machine.confirmed = pending
    BY DEF AlertEvent, Confirmed, FreshMachine
  <2> HIDE DEF raised, waits, out
  <2>5. CASE out = waits  BY <2>3, <2>5 DEF EventTells, out
  <2>6. CASE out = raised /\ pending # None  BY <1>2, <2>2, <2>4, <2>6 DEF EventTells, out
  <2>7. QED  BY <2>1, <2>5, <2>6
<1>3. CASE Valid(row) /\ m.confirmed # None
  <2> DEFINE candidate == Diagnosis(row) # m.confirmed /\ Qualifies(cfg, row)
             switch == IF candidate THEN Diagnosis(row) ELSE None
             streak == IF candidate THEN Extend(switch, m.switch, m.switchStreak) ELSE 0
             exit == ExitStreak(cfg, m, row)
             clears == [machine |-> FreshMachine, event |-> AlertEvent("cleared", m.confirmed)]
             changes == [machine |-> Confirmed(switch),
                         event |-> AlertEvent("class_change", switch)]
             stays == [machine |-> [m EXCEPT !.exitStreak = exit, !.switch = switch,
                                             !.switchStreak = streak],
                       event |-> NoEvent]
  <2>1. out = CASE Cleared(cfg, m, row) -> clears
                [] ~ Cleared(cfg, m, row) /\ switch # None /\ streak >= cfg.entryPersistence -> changes
                [] OTHER -> stays
    BY <1>3 DEF StepStateMachine, StepConfirmed
  <2>2. switch # None => switch \in Class /\ switch # m.confirmed  BY <1>0
  <2> HIDE DEF candidate, switch, streak, exit
  <2>3. stays.event = NoEvent /\ stays.machine.confirmed = m.confirmed  BY DEF Machine
  <2>4. /\ changes.event.type = "class_change" /\ changes.event.class = switch
        /\ changes.machine.confirmed = switch
    BY DEF AlertEvent, Confirmed, FreshMachine
  <2>5. clears.event.type = "cleared" /\ clears.machine.confirmed = None
    BY DEF AlertEvent, FreshMachine
  <2> HIDE DEF clears, changes, stays, out
  <2>6. out = clears \/ (out = changes /\ switch # None) \/ out = stays  BY <2>1
  <2>7. CASE out = clears  BY <1>3, <2>5, <2>7 DEF EventTells, out
  <2>8. CASE out = changes /\ switch # None  BY <1>3, <2>2, <2>4, <2>8 DEF EventTells, out
  <2>9. CASE out = stays  BY <2>3, <2>9 DEF EventTells, out
  <2>10. QED  BY <2>6, <2>7, <2>8, <2>9
<1>4. QED  BY <1>1, <1>2, <1>3

(* The confirmed class after row i of a run, from the list of them.        *)
ClassAt(c, i) == IF i = 0 THEN None ELSE c[i]

Upto(es, i) == {j \in DOMAIN es : es[j].at <= i}

(* The class the last of the events up to row i leaves confirmed.          *)
Leaves(es, i) ==
    IF Upto(es, i) = {} \/ ~ Confirms(es[Max(Upto(es, i))]) THEN None
    ELSE es[Max(Upto(es, i))].class

(***************************************************************************)
(* The events tell the story of the confirmed classes: they are in order,  *)
(* each is a change and each change is one of them, and after every row    *)
(* the last of them says what is confirmed.                                *)
(***************************************************************************)
SaysSo(es, c, j) ==
    /\ es[j].at \in 1 .. Len(c)
    /\ ClassAt(c, es[j].at) # ClassAt(c, es[j].at - 1)
    /\ IF Confirms(es[j]) THEN ClassAt(c, es[j].at) = es[j].class /\ es[j].class \in Class
       ELSE ClassAt(c, es[j].at) = None

Story(es, c) ==
    /\ es \in Seq(AtEvent) /\ c \in Seq(MaybeClass)
    /\ \A j \in DOMAIN es : SaysSo(es, c, j)
    /\ \A j, k \in DOMAIN es : j < k => es[j].at < es[k].at
    /\ \A i \in 1 .. Len(c) :
         ClassAt(c, i) # ClassAt(c, i - 1) => \E j \in DOMAIN es : es[j].at = i
    /\ \A i \in 0 .. Len(c) : ClassAt(c, i) = Leaves(es, i)

LEMMA GreatestOf ==
    ASSUME NEW n \in Nat, NEW S \in SUBSET (1 .. n), S # {}
    PROVE  Max(S) \in S /\ \A y \in S : y <= Max(S)
<1> DEFINE T == {n - x : x \in S}
<1>1. T \subseteq Nat /\ T # {}
  <2>1. \A x \in S : n - x \in Nat  OBVIOUS
  <2>2. PICK x \in S : TRUE  OBVIOUS
  <2>3. n - x \in T  BY <2>2
  <2>4. QED  BY <2>1, <2>3
<1>2. Min(T) \in T /\ \A y \in T : Min(T) <= y
  <2> HIDE DEF T
  <2>1. QED  BY <1>1, LeastOf
<1>3. PICK x \in S : n - x = Min(T)  BY <1>2
<1>4. ASSUME NEW y \in S PROVE x >= y
  <2>1. n - y \in T  OBVIOUS
  <2> HIDE DEF T
  <2>2. n - x <= n - y  BY <1>2, <1>3, <2>1
  <2>3. QED  BY <2>2
<1>5. \E z \in S : \A y \in S : z >= y  BY <1>4
<1>6. Max(S) \in S /\ \A y \in S : Max(S) >= y
  <2>1. Max(S) = CHOOSE z \in S : \A y \in S : z >= y  BY DEF Max
  <2>2. QED  BY <1>5, <2>1
<1>7. QED
  <2>1. \A y \in S : y \in Int  OBVIOUS
  <2>2. QED  BY <1>6, <2>1

LEMMA StoryStays ==
    ASSUME NEW es, NEW c, Story(es, c)
    PROVE  Story(es, Append(c, ClassAt(c, Len(c))))
<1> DEFINE x == ClassAt(c, Len(c))
           d == Append(c, x)
           n == Len(c) + 1
<1>1. c \in Seq(MaybeClass) /\ es \in Seq(AtEvent) /\ Len(c) \in Nat  BY DEF Story
<1>2. x \in MaybeClass  BY <1>1 DEF ClassAt, MaybeClass
<1>3. /\ d \in Seq(MaybeClass) /\ Len(d) = n /\ d[n] = x
      /\ \A i \in 1 .. Len(c) : d[i] = c[i]
  BY <1>1, <1>2
<1> HIDE DEF x, d
<1>4. /\ \A i \in 0 .. Len(c) : ClassAt(d, i) = ClassAt(c, i)
      /\ ClassAt(d, n) = x /\ ClassAt(d, n - 1) = x
  <2>1. \A i \in 0 .. Len(c) : ClassAt(d, i) = ClassAt(c, i)
    <3> TAKE i \in 0 .. Len(c)
    <3>1. i = 0 \/ i \in 1 .. Len(c)  BY <1>1
    <3>2. QED  BY <1>3, <3>1 DEF ClassAt
  <2>2. n # 0 /\ n - 1 = Len(c) /\ Len(c) \in 0 .. Len(c)  BY <1>1
  <2>3. QED  BY <1>3, <2>1, <2>2 DEF ClassAt, x
<1>5. ASSUME NEW j \in DOMAIN es PROVE SaysSo(es, d, j) /\ es[j].at \in 1 .. Len(c)
  <2>1. SaysSo(es, c, j)  BY DEF Story
  <2>2. es[j].at \in 1 .. Len(c)  BY <2>1 DEF SaysSo
  <2>3. es[j].at \in 0 .. Len(c) /\ es[j].at - 1 \in 0 .. Len(c) /\ es[j].at \in 1 .. Len(d)
    BY <1>1, <1>3, <2>2
  <2>4. QED  BY <1>4, <2>1, <2>2, <2>3 DEF SaysSo
<1>6. ASSUME NEW i \in 1 .. Len(d), ClassAt(d, i) # ClassAt(d, i - 1)
      PROVE  \E j \in DOMAIN es : es[j].at = i
  <2>1. i # n  BY <1>4, <1>6
  <2>2. i \in 1 .. Len(c) /\ i \in 0 .. Len(c) /\ i - 1 \in 0 .. Len(c)  BY <1>1, <1>3, <2>1
  <2>3. ClassAt(c, i) # ClassAt(c, i - 1)  BY <1>4, <1>6, <2>2
  <2>4. QED  BY <2>2, <2>3 DEF Story
<1>7. ASSUME NEW i \in 0 .. Len(d) PROVE ClassAt(d, i) = Leaves(es, i)
  <2>1. \A k \in 0 .. Len(c) : ClassAt(d, k) = Leaves(es, k)  BY <1>4 DEF Story
  <2>2. CASE i \in 0 .. Len(c)  BY <2>1, <2>2
  <2>3. CASE i = n
    <3>1. Len(c) \in 0 .. Len(c)  BY <1>1
    <3>2. Upto(es, n) = Upto(es, Len(c))
      <4>1. \A j \in DOMAIN es : es[j].at <= n /\ es[j].at <= Len(c)  BY <1>1, <1>5
      <4>2. QED  BY <4>1 DEF Upto
    <3>3. Leaves(es, n) = Leaves(es, Len(c))  BY <3>2 DEF Leaves
    <3>4. n - 1 = Len(c)  BY <1>1
    <3>5. ClassAt(d, n) = ClassAt(d, Len(c))  BY <1>4, <3>4
    <3>6. QED  BY <2>1, <2>3, <3>1, <3>3, <3>5
  <2>4. QED  BY <1>1, <1>3, <2>2, <2>3
<1>8. \A j, k \in DOMAIN es : j < k => es[j].at < es[k].at  BY DEF Story
<1>9. Story(es, d)  BY <1>1, <1>3, <1>5, <1>6, <1>7, <1>8 DEF Story
<1>10. QED  BY <1>9 DEF d, x

LEMMA StoryGrows ==
    ASSUME NEW es, NEW c, Story(es, c), NEW x, NEW e \in Event, e # NoEvent,
           EventTells(ClassAt(c, Len(c)), x, e)
    PROVE  Story(Append(es, [type |-> e.type, class |-> e.class, at |-> Len(c) + 1]), Append(c, x))
<1> DEFINE d == Append(c, x)
           n == Len(c) + 1
           L == Len(es)
           ev == [type |-> e.type, class |-> e.class, at |-> n]
           fs == Append(es, ev)
<1>1. c \in Seq(MaybeClass) /\ es \in Seq(AtEvent) /\ Len(c) \in Nat  BY DEF Story
<1>2. x \in MaybeClass  BY DEF EventTells, MaybeClass
<1>3. /\ d \in Seq(MaybeClass) /\ Len(d) = n /\ d[n] = x
      /\ \A i \in 1 .. Len(c) : d[i] = c[i]
  BY <1>1, <1>2
<1>4. ev \in AtEvent
  <2>1. e.type \in {"none", "new_alert", "class_change", "cleared"} /\ e.class \in MaybeClass
    BY DEF Event
  <2>2. n \in Nat  BY <1>1
  <2> HIDE DEF n
  <2>3. QED  BY <2>1, <2>2 DEF AtEvent
<1>5. ev.at = n /\ ev.type = e.type /\ ev.class = e.class  OBVIOUS
<1> HIDE DEF d, ev
<1>6. /\ fs \in Seq(AtEvent) /\ Len(fs) = L + 1 /\ DOMAIN fs = 1 .. L + 1 /\ L \in Nat
      /\ DOMAIN es = 1 .. L /\ fs[L + 1] = ev /\ \A j \in 1 .. L : fs[j] = es[j]
  BY <1>1, <1>4
<1> HIDE DEF fs, L
<1>7. /\ \A i \in 0 .. Len(c) : ClassAt(d, i) = ClassAt(c, i)
      /\ ClassAt(d, n) = x /\ ClassAt(d, n - 1) = ClassAt(c, Len(c))
  <2>1. \A i \in 0 .. Len(c) : ClassAt(d, i) = ClassAt(c, i)
    <3> TAKE i \in 0 .. Len(c)
    <3>1. i = 0 \/ i \in 1 .. Len(c)  BY <1>1
    <3>2. QED  BY <1>3, <3>1 DEF ClassAt
  <2>2. n # 0 /\ n - 1 = Len(c) /\ Len(c) \in 0 .. Len(c)  BY <1>1
  <2>3. QED  BY <1>3, <2>1, <2>2 DEF ClassAt
<1>8. ASSUME NEW j \in 1 .. L PROVE SaysSo(fs, d, j) /\ es[j].at \in 1 .. Len(c) /\ fs[j] = es[j]
  <2>1. SaysSo(es, c, j)  BY <1>6 DEF Story
  <2>2. es[j].at \in 1 .. Len(c)  BY <2>1 DEF SaysSo
  <2>3. es[j].at \in 0 .. Len(c) /\ es[j].at - 1 \in 0 .. Len(c) /\ es[j].at \in 1 .. Len(d)
    BY <1>1, <1>3, <2>2
  <2>4. fs[j] = es[j]  BY <1>6
  <2>5. QED  BY <1>7, <2>1, <2>2, <2>3, <2>4 DEF SaysSo
<1>9. /\ x # ClassAt(c, Len(c))
      /\ IF Confirms(ev) THEN x = ev.class /\ x \in Class ELSE x = None
  <2>1. None \notin Class  BY MachineAssumption
  <2>2. QED  BY <1>5, <2>1 DEF EventTells, Confirms
<1>10. SaysSo(fs, d, L + 1)
  <2>1. n \in 1 .. Len(d)  BY <1>1, <1>3
  <2> HIDE DEF n
  <2>2. QED  BY <1>5, <1>6, <1>7, <1>9, <2>1 DEF SaysSo
<1>11. \A j \in DOMAIN fs : SaysSo(fs, d, j)
  <2>1. \A j \in DOMAIN fs : j \in 1 .. L \/ j = L + 1  BY <1>6
  <2>2. QED  BY <1>8, <1>10, <2>1
<1>12. ASSUME NEW j \in DOMAIN fs, NEW k \in DOMAIN fs, j < k PROVE fs[j].at < fs[k].at
  <2>1. j \in 1 .. L  BY <1>6, <1>12
  <2>2. CASE k = L + 1
    <3>1. fs[k].at = n /\ fs[j].at \in 1 .. Len(c)  BY <1>5, <1>6, <1>8, <2>1, <2>2
    <3>2. QED  BY <1>1, <3>1
  <2>3. CASE k # L + 1
    <3>1. k \in 1 .. L  BY <1>6, <2>3
    <3>2. es[j].at < es[k].at  BY <1>6, <1>12, <2>1, <3>1 DEF Story
    <3>3. QED  BY <1>6, <2>1, <3>1, <3>2
  <2>4. QED  BY <2>2, <2>3
<1>13. ASSUME NEW i \in 1 .. Len(d), ClassAt(d, i) # ClassAt(d, i - 1)
       PROVE  \E j \in DOMAIN fs : fs[j].at = i
  <2>1. CASE i = n
    <3>1. L + 1 \in DOMAIN fs /\ fs[L + 1].at = n  BY <1>5, <1>6
    <3>2. QED  BY <2>1, <3>1
  <2>2. CASE i # n
    <3>1. i \in 1 .. Len(c) /\ i \in 0 .. Len(c) /\ i - 1 \in 0 .. Len(c)  BY <1>1, <1>3, <2>2
    <3>2. ClassAt(c, i) # ClassAt(c, i - 1)  BY <1>7, <1>13, <3>1
    <3>3. PICK j \in DOMAIN es : es[j].at = i  BY <3>1, <3>2 DEF Story
    <3>4. j \in DOMAIN fs /\ fs[j] = es[j]  BY <1>6
    <3>5. QED  BY <3>3, <3>4
  <2>3. QED  BY <2>1, <2>2
<1>14. ASSUME NEW i \in 0 .. Len(d) PROVE ClassAt(d, i) = Leaves(fs, i)
  <2>1. CASE i \in 0 .. Len(c)
    <3>1. ClassAt(d, i) = Leaves(es, i)  BY <1>7, <2>1 DEF Story
    <3>2. Upto(fs, i) = Upto(es, i)
      <4>1. ~ (n <= i)  BY <1>1, <2>1
      <4>2. L + 1 \notin Upto(fs, i)  BY <1>5, <1>6, <4>1 DEF Upto
      <4>3. \A j : j \in Upto(fs, i) <=> j \in Upto(es, i)
        <5>1. \A j \in DOMAIN fs : j \in 1 .. L \/ j = L + 1  BY <1>6
        <5>2. \A j \in 1 .. L : j \in DOMAIN fs /\ j \in DOMAIN es /\ fs[j] = es[j]  BY <1>6
        <5>3. ASSUME NEW j, j \in Upto(fs, i) PROVE j \in Upto(es, i)
          <6>1. j \in DOMAIN fs /\ fs[j].at <= i  BY <5>3 DEF Upto
          <6>2. j \in 1 .. L  BY <4>2, <5>1, <5>3, <6>1
          <6>3. QED  BY <5>2, <6>1, <6>2 DEF Upto
        <5>4. ASSUME NEW j, j \in Upto(es, i) PROVE j \in Upto(fs, i)
          <6>1. j \in DOMAIN es /\ es[j].at <= i  BY <5>4 DEF Upto
          <6>2. QED  BY <1>6, <5>2, <6>1 DEF Upto
        <5>5. QED  BY <5>3, <5>4
      <4>4. QED  BY <4>3
    <3>3. Upto(es, i) = {} \/ Max(Upto(es, i)) \in 1 .. L
      <4>1. Upto(es, i) \in SUBSET (1 .. L)  BY <1>6 DEF Upto
      <4>2. QED  BY <1>6, <4>1, GreatestOf
    <3>4. Leaves(fs, i) = Leaves(es, i)  BY <1>6, <3>2, <3>3 DEF Leaves
    <3>5. QED  BY <3>1, <3>4
  <2>2. CASE i = n
    <3>1. Upto(fs, n) = 1 .. L + 1
      <4>1. \A j \in 1 .. L : fs[j].at <= n  BY <1>1, <1>8
      <4>2. fs[L + 1].at <= n  BY <1>1, <1>5, <1>6
      <4>3. \A j \in DOMAIN fs : j \in 1 .. L \/ j = L + 1  BY <1>6
      <4>4. \A j \in DOMAIN fs : fs[j].at <= n  BY <4>1, <4>2, <4>3
      <4>5. QED  BY <1>6, <4>4 DEF Upto
    <3>2. Max(1 .. L + 1) = L + 1
      <4>1. PICK M \in Nat : M = L + 1 /\ M >= 1  BY <1>6
      <4>2. M \in 1 .. M  BY <4>1
      <4>3. 1 .. M # {} /\ 1 .. M \in SUBSET (1 .. M)  BY <4>2
      <4>4. Max(1 .. M) \in 1 .. M /\ M <= Max(1 .. M)  BY <4>2, <4>3, GreatestOf
      <4>5. Max(1 .. M) = M  BY <4>4
      <4>6. QED  BY <4>1, <4>5
    <3>3. Upto(fs, n) # {} /\ Max(Upto(fs, n)) = L + 1
      <4>1. L + 1 \in 1 .. L + 1  BY <1>6
      <4>2. QED  BY <3>1, <3>2, <4>1
    <3>4. Leaves(fs, n) = IF Confirms(ev) THEN ev.class ELSE None  BY <1>6, <3>3 DEF Leaves
    <3>5. QED  BY <1>7, <1>9, <2>2, <3>4
  <2>3. QED  BY <1>1, <1>3, <2>1, <2>2
<1>15. Story(fs, d)  BY <1>3, <1>6, <1>11, <1>12, <1>13, <1>14 DEF Story
<1>16. QED  BY <1>15 DEF fs, d, ev

----------------------------------------------------------------------------
(* A sum does not depend on the order in which it is taken.                *)
Commutes(g, fun, s) == g[s] \in Int /\ \A x \in s : g[s] = fun[x] + g[s \ {x}]

LEMMA SumCommutes ==
    ASSUME NEW S, IsFiniteSet(S), NEW fun \in [S -> Int], NEW g, SumsOver(g, fun, SUBSET S)
    PROVE  \A s \in SUBSET S : Commutes(g, fun, s)
<1> DEFINE Bad == {n \in Nat : \E s \in SUBSET S : Cardinality(s) = n /\ ~ Commutes(g, fun, s)}
<1>1. ASSUME NEW s \in SUBSET S
      PROVE  g[s] = IF s = {} THEN 0 ELSE fun[Taken(s)] + g[s \ {Taken(s)}]
  BY Zenon DEF SumsOver
<1>2. ASSUME NEW s \in SUBSET S PROVE IsFiniteSet(s) /\ Cardinality(s) \in Nat
  BY FS_Subset, FS_CardinalityType
<1>3. Bad = {}
  <2> SUFFICES ASSUME Bad # {} PROVE FALSE  OBVIOUS
  <2>1. PICK n \in Bad : \A m \in Bad : n <= m
    <3>1. Bad \subseteq Nat  OBVIOUS
    <3>2. QED  BY <3>1, LeastOf
  <2>2. n \in Nat  BY <2>1
  <2>3. PICK s \in SUBSET S : Cardinality(s) = n /\ ~ Commutes(g, fun, s)  BY <2>1
  <2>4. s # {}
    <3>1. s = {} => g[s] = 0  BY <1>1
    <3>2. QED  BY <2>3, <3>1 DEF Commutes
  <2>5. Cardinality(s) \in Nat /\ n # 0
    <3>1. IsFiniteSet(s) /\ Cardinality(s) \in Nat  BY <1>2
    <3>2. QED  BY <2>3, <2>4, <3>1, FS_EmptySet
  <2>6. ASSUME NEW x \in s PROVE Commutes(g, fun, s \ {x}) /\ s \ {x} \in SUBSET S
    <3>1. Cardinality(s \ {x}) = n - 1  BY <1>2, <2>3, FS_RemoveElement
    <3>2. n - 1 \in Nat /\ ~ (n <= n - 1)  BY <2>2, <2>5
    <3>3. n - 1 \notin Bad
      <4> HIDE DEF Bad
      <4>1. QED  BY <2>1, <3>2
    <3>4. s \ {x} \in SUBSET S  OBVIOUS
    <3>5. QED  BY <3>1, <3>2, <3>3, <3>4
  <2> DEFINE t == Taken(s)
             st == s \ {t}
  <2>7. t \in s /\ t \in S /\ fun[t] \in Int  BY <2>4, TakenFacts
  <2>8. g[s] = fun[t] + g[st]  BY <1>1, <2>4
  <2>9. Commutes(g, fun, st)  BY <2>6, <2>7
  <2>10. g[st] \in Int  BY <2>9 DEF Commutes
  <2> HIDE DEF t
  <2>11. g[s] \in Int
    <3> HIDE DEF st
    <3>1. QED  BY <2>7, <2>8, <2>10
  <2>12. ASSUME NEW x \in s PROVE g[s] = fun[x] + g[s \ {x}]
    <3>1. CASE x = t  BY <2>8, <3>1
    <3>2. CASE x # t
      <4> DEFINE sx == s \ {x}
                 rest == st \ {x}
      <4>1. x \in st /\ t \in sx /\ rest = sx \ {t}  BY <2>7, <3>2
      <4>2. Commutes(g, fun, sx)  BY <2>6
      <4>3. fun[x] \in Int  OBVIOUS
      <4> HIDE DEF sx, st, rest
      <4>4. g[st] = fun[x] + g[rest]  BY <2>9, <4>1 DEF Commutes, rest
      <4>5. g[sx] = fun[t] + g[rest]  BY <4>1, <4>2 DEF Commutes
      <4>6. g[rest] \in Int
        <5>1. Commutes(g, fun, st \ {x}) \/ g[st \ {x}] \in Int
          <6>1. sx \ {t} \in SUBSET S /\ IsFiniteSet(sx)  BY <1>2 DEF sx
          <6>2. rest \in SUBSET S  BY <4>1, <6>1
          <6>3. Cardinality(rest) = n - 2
            <7>1. Cardinality(sx) = n - 1  BY <1>2, <2>3, FS_RemoveElement DEF sx
            <7>2. Cardinality(sx \ {t}) = Cardinality(sx) - 1  BY <4>1, <6>1, FS_RemoveElement
            <7>3. QED  BY <2>2, <4>1, <7>1, <7>2
          <6>4. n - 2 \in Nat /\ ~ (n <= n - 2)
            <7>1. Cardinality(rest) \in Nat  BY <1>2, <6>2
            <7>2. QED  BY <2>2, <6>3, <7>1
          <6>5. n - 2 \notin Bad
            <7> HIDE DEF Bad
            <7>1. QED  BY <2>1, <6>4
          <6>6. Commutes(g, fun, rest)  BY <6>2, <6>3, <6>4, <6>5
          <6>7. QED  BY <6>6 DEF rest
        <5>2. QED  BY <5>1 DEF Commutes, rest
      <4>7. QED  BY <2>7, <2>8, <4>3, <4>4, <4>5, <4>6 DEF sx
    <3>3. QED  BY <3>1, <3>2
  <2>13. QED  BY <2>3, <2>11, <2>12 DEF Commutes
<1>4. QED
  <2> TAKE s \in SUBSET S
  <2>1. Cardinality(s) \in Nat  BY <1>2
  <2>2. QED  BY <1>3, <2>1

(* Sums over a set T and over a greater one, of functions that agree on T. *)
SumsOf(f, g, a, b, T, S) ==
    /\ IsFiniteSet(S) /\ T \in SUBSET S /\ \A x \in T : a[x] = b[x]
    /\ SumsOver(f, a, SUBSET T) /\ SumsOver(g, b, SUBSET S)

LEMMA SumsAgree ==
    ASSUME NEW f, NEW g, NEW a, NEW b, NEW T, NEW S, SumsOf(f, g, a, b, T, S)
    PROVE  f[T] = g[T]
<1> DEFINE Bad == {n \in Nat : \E s \in SUBSET T : Cardinality(s) = n /\ f[s] # g[s]}
<1>0. T \in SUBSET S /\ IsFiniteSet(T)  BY FS_Subset DEF SumsOf
<1>1. ASSUME NEW s \in SUBSET T
      PROVE  /\ f[s] = IF s = {} THEN 0 ELSE a[Taken(s)] + f[s \ {Taken(s)}]
             /\ g[s] = IF s = {} THEN 0 ELSE b[Taken(s)] + g[s \ {Taken(s)}]
  <2>1. s \in SUBSET S  BY <1>0
  <2>2. SumsOver(f, a, SUBSET T) /\ SumsOver(g, b, SUBSET S)  BY DEF SumsOf
  <2>3. QED  BY <2>1, <2>2, Zenon DEF SumsOver
<1>2. ASSUME NEW s \in SUBSET T PROVE IsFiniteSet(s) /\ Cardinality(s) \in Nat
  BY <1>0, FS_Subset, FS_CardinalityType
<1>3. Bad = {}
  <2> SUFFICES ASSUME Bad # {} PROVE FALSE  OBVIOUS
  <2>1. PICK n \in Bad : \A m \in Bad : n <= m
    <3>1. Bad \subseteq Nat  OBVIOUS
    <3>2. QED  BY <3>1, LeastOf
  <2>2. PICK s \in SUBSET T : Cardinality(s) = n /\ f[s] # g[s]  BY <2>1
  <2>3. s # {}  BY <1>1, <2>2
  <2> DEFINE u == s \ {Taken(s)}
  <2>4. /\ Taken(s) \in T /\ u \in SUBSET T /\ Cardinality(u) = n - 1 /\ n \in Nat
    BY <1>0, <2>2, <2>3, TakenFacts
  <2>5. f[u] = g[u]
    <3>1. n - 1 \in Nat
      <4>1. Cardinality(u) \in Nat  BY <1>2, <2>4
      <4>2. QED  BY <2>4, <4>1
    <3>2. ~ (n <= n - 1)  BY <2>4
    <3>3. n - 1 \notin Bad
      <4> HIDE DEF Bad
      <4>1. QED  BY <2>1, <3>2
    <3> HIDE DEF u
    <3>4. QED  BY <2>4, <3>1, <3>3
  <2>6. f[s] = a[Taken(s)] + f[u] /\ g[s] = b[Taken(s)] + g[u]  BY <1>1, <2>3
  <2> HIDE DEF u
  <2>7. a[Taken(s)] = b[Taken(s)]  BY <2>4 DEF SumsOf
  <2>8. QED  BY <2>2, <2>5, <2>6, <2>7
<1>4. Cardinality(T) \in Nat /\ T \in SUBSET T  BY <1>2
<1>5. QED  BY <1>3, <1>4

(* The function b is a, and x more.                                        *)
OneMore(a, b, S, x) ==
    /\ IsFiniteSet(S) /\ x \notin S /\ a \in [S -> Int] /\ b \in [S \cup {x} -> Int]
    /\ \A y \in S : a[y] = b[y]

LEMMA SumExtends ==
    ASSUME NEW a, NEW b, NEW S, NEW x, OneMore(a, b, S, x)
    PROVE  SumFunction(b) = SumFunction(a) + b[x]
<1> DEFINE U == S \cup {x}
<1>0. IsFiniteSet(S) /\ x \notin S /\ a \in [S -> Int] /\ b \in [U -> Int]  BY DEF OneMore
<1>1. IsFiniteSet(U) /\ S \in SUBSET U /\ x \in U /\ U \ {x} = S  BY <1>0, FS_AddElement
<1>2. DOMAIN a = S /\ DOMAIN b = U  BY <1>0
<1> HIDE DEF U
<1>3. PICK f : SumsOver(f, a, SUBSET S) /\ SumFunction(a) = f[S]  BY <1>0, <1>2, SumUnfolds
<1>4. PICK g : SumsOver(g, b, SUBSET U) /\ SumFunction(b) = g[U]  BY <1>1, <1>2, SumUnfolds
<1>5. Commutes(g, b, U)
  <2>1. U \in SUBSET U  OBVIOUS
  <2>2. QED  BY <1>0, <1>1, <1>4, <2>1, SumCommutes
<1>6. Commutes(g, b, S)  BY <1>0, <1>1, <1>4, SumCommutes
<1>7. f[S] = g[S]
  <2>1. SumsOf(f, g, a, b, S, U)  BY <1>1, <1>3, <1>4 DEF SumsOf, OneMore
  <2>2. QED  BY <2>1, SumsAgree
<1>8. g[U] = b[x] + g[S] /\ g[S] \in Int  BY <1>1, <1>5, <1>6 DEF Commutes
<1>9. b[x] \in Int  BY <1>0, <1>1
<1>10. QED  BY <1>3, <1>4, <1>7, <1>8, <1>9

LEMMA DurationGrows ==
    ASSUME NEW q \in Seq(Episode), NEW e \in Episode
    PROVE  /\ Duration(<<>>) = 0 /\ Duration(q) \in Int
           /\ Duration(Append(q, e)) = Duration(q) + (e.to - e.from)
<1>1. Duration(<<>>) = 0
  <2> DEFINE z == [i \in DOMAIN <<>> |-> <<>>[i].to - <<>>[i].from]
  <2>1. Duration(<<>>) = SumFunction(z) /\ DOMAIN z = {}  BY DEF Duration
  <2> HIDE DEF z
  <2>2. IsFiniteSet({})  BY FS_EmptySet
  <2>3. PICK g : SumsOver(g, z, SUBSET {}) /\ SumFunction(z) = g[{}]  BY <2>1, <2>2, SumUnfolds
  <2>4. {} \in SUBSET {}  OBVIOUS
  <2>5. g[{}] = 0  BY <2>3, <2>4, Zenon DEF SumsOver
  <2>6. QED  BY <2>1, <2>3, <2>5
<1> DEFINE p == Append(q, e)
           N == Len(q)
           len(x) == x.to - x.from
           a == [i \in DOMAIN q |-> len(q[i])]
           b == [i \in DOMAIN p |-> len(p[i])]
<1>2. /\ N \in Nat /\ DOMAIN q = 1 .. N /\ DOMAIN p = 1 .. N + 1
      /\ p[N + 1] = e /\ \A i \in 1 .. N : p[i] = q[i] /\ q[i] \in Episode
  OBVIOUS
<1>3. \A x \in Episode : len(x) \in Int
  <2> TAKE x \in Episode
  <2>1. x.to \in Int /\ x.from \in Int  BY DEF Episode
  <2>2. QED  BY <2>1
<1>4. Duration(q) = SumFunction(a) /\ Duration(p) = SumFunction(b)  BY DEF Duration
<1> HIDE DEF p, N, len
<1>5. 1 .. N + 1 = (1 .. N) \cup {N + 1} /\ N + 1 \notin 1 .. N  BY <1>2
<1>6. a \in [1 .. N -> Int]  BY <1>2, <1>3
<1>7. b \in [1 .. N + 1 -> Int]
  <2>1. \A i \in 1 .. N + 1 : p[i] \in Episode  BY <1>2, <1>5
  <2>2. QED  BY <1>2, <1>3, <1>5, <2>1
<1>8. \A i \in 1 .. N : a[i] = b[i]  BY <1>2, <1>5
<1>9. b[N + 1] = len(e)
  <2>1. N + 1 \in 1 .. N + 1  BY <1>2
  <2>2. QED  BY <1>2, <2>1
<1>10. IsFiniteSet(1 .. N)  BY <1>2, FS_Interval
<1> HIDE DEF a, b
<1>11. SumFunction(b) = SumFunction(a) + b[N + 1]
  <2>1. OneMore(a, b, 1 .. N, N + 1)  BY <1>5, <1>6, <1>7, <1>8, <1>10 DEF OneMore
  <2>2. QED  BY <2>1, SumExtends
<1>12. QED  BY <1>1, <1>4, <1>9, <1>11, DurationFits DEF p, len

LEMMA NothingLasts == Duration(<<>>) = 0
<1>1. PICK e \in Episode : TRUE
  <2>1. [from |-> 0, to |-> 0] \in Episode  BY DEF Episode
  <2>2. QED  BY <2>1
<1>2. <<>> \in Seq(Episode)  OBVIOUS
<1>3. QED  BY <1>1, <1>2, DurationGrows

----------------------------------------------------------------------------
(* The rows after which an alert was up, and the episodes that cover them. *)
Alerted(c) == {i \in 1 .. Len(c) : ClassAt(c, i) # None}

LEMMA AlertedGrows ==
    ASSUME NEW c \in Seq(MaybeClass), NEW x \in MaybeClass
    PROVE  /\ Cardinality(Alerted(c)) \in Nat
           /\ Cardinality(Alerted(Append(c, x))) =
                Cardinality(Alerted(c)) + IF x = None THEN 0 ELSE 1
<1> DEFINE N == Len(c)
           d == Append(c, x)
<1>1. N \in Nat /\ Len(d) = N + 1 /\ d[N + 1] = x /\ \A i \in 1 .. N : d[i] = c[i]  OBVIOUS
<1>2. IsFiniteSet(Alerted(c)) /\ Cardinality(Alerted(c)) \in Nat /\ N + 1 \notin Alerted(c)
  <2>1. IsFiniteSet(1 .. N)  BY <1>1, FS_Interval
  <2>2. Alerted(c) \in SUBSET (1 .. N) /\ N + 1 \notin Alerted(c)  BY <1>1 DEF Alerted
  <2>3. QED  BY <2>1, <2>2, FS_Subset, FS_CardinalityType
<1> HIDE DEF d, N
<1>3. ASSUME NEW i \in 1 .. N PROVE i \in Alerted(d) <=> i \in Alerted(c)
  <2>1. i # 0 /\ i \in 1 .. N + 1  BY <1>1
  <2>2. QED  BY <1>1, <2>1 DEF Alerted, ClassAt, N
<1>4. N + 1 \in Alerted(d) <=> x # None
  <2>1. N + 1 # 0 /\ N + 1 \in 1 .. N + 1  BY <1>1
  <2>2. QED  BY <1>1, <2>1 DEF Alerted, ClassAt
<1>5. \A i : i \in Alerted(d) => i \in 1 .. N \/ i = N + 1  BY <1>1 DEF Alerted
<1>6. \A i : i \in Alerted(c) => i \in 1 .. N  BY DEF Alerted, N
<1>7. CASE x = None
  <2>1. Alerted(d) = Alerted(c)  BY <1>3, <1>4, <1>5, <1>6, <1>7
  <2>2. QED  BY <1>2, <1>7, <2>1 DEF d
<1>8. CASE x # None
  <2>1. Alerted(d) = Alerted(c) \cup {N + 1}  BY <1>3, <1>4, <1>5, <1>6, <1>8
  <2>2. Cardinality(Alerted(d)) = Cardinality(Alerted(c)) + 1  BY <1>2, <2>1, FS_AddElement
  <2>3. QED  BY <1>2, <1>8, <2>2 DEF d
<1>9. QED  BY <1>7, <1>8

(***************************************************************************)
(* The closed episodes, and the open one up to the end of the last row,    *)
(* take as long as an alert was up.                                        *)
(***************************************************************************)
Accounts(u, c) ==
    /\ u \in Open
    /\ (u.open = Absent) <=> (ClassAt(c, Len(c)) = None)
    /\ u.open = Absent => Duration(u.closed) = Cardinality(Alerted(c))
    /\ u.open # Absent => Duration(u.closed) + ((Len(c) + 1) - u.open) = Cardinality(Alerted(c))

LEMMA AccountsGrow ==
    ASSUME NEW u, NEW c \in Seq(MaybeClass), Accounts(u, c), NEW x \in MaybeClass,
           NEW e \in AtEvent, e.at = Len(c) + 1, NEW o, e.type = o.type, o # NoEvent,
           EventTells(ClassAt(c, Len(c)), x, o)
    PROVE  Accounts(NextEpisode(u, e), Append(c, x))
<1> DEFINE n == Len(c) + 1
           d == Append(c, x)
           v == NextEpisode(u, e)
           ep == [from |-> u.open, to |-> n]
<1>1. n \in Nat /\ n # Absent /\ Len(d) = n /\ n # 0 /\ d[n] = x  BY DEF Absent
<1>2. ClassAt(d, Len(d)) = x  BY <1>1 DEF ClassAt
<1>3. u \in Open /\ u.open \in Int /\ u.closed \in Seq(Episode)  BY DEF Accounts, Open
<1>4. v \in Open  BY <1>3, EpisodeFits
<1>5. ep \in Episode /\ ep.to = n /\ ep.from = u.open
  <2> HIDE DEF n
  <2>1. QED  BY <1>1, <1>3 DEF Episode
<1>6. /\ Duration(u.closed) \in Int
      /\ Duration(Append(u.closed, ep)) = Duration(u.closed) + (n - u.open)
  <2> HIDE DEF ep, n
  <2>1. QED  BY <1>3, <1>5, DurationGrows
<1>7. /\ Cardinality(Alerted(c)) \in Nat
      /\ Cardinality(Alerted(d)) = Cardinality(Alerted(c)) + IF x = None THEN 0 ELSE 1
  BY AlertedGrows
<1>8. /\ (u.open = Absent) <=> (ClassAt(c, Len(c)) = None)
      /\ u.open = Absent => Duration(u.closed) = Cardinality(Alerted(c))
      /\ u.open # Absent => Duration(u.closed) + (n - u.open) = Cardinality(Alerted(c))
  <2>1. (u.open = Absent) <=> (ClassAt(c, Len(c)) = None)  BY Zenon DEF Accounts
  <2>2. u.open = Absent => Duration(u.closed) = Cardinality(Alerted(c))  BY Zenon DEF Accounts
  <2>3. u.open # Absent => Duration(u.closed) + (n - u.open) = Cardinality(Alerted(c))
    BY Zenon DEF Accounts
  <2>4. QED  BY <2>1, <2>2, <2>3, Zenon
<1>10. e.at = n  OBVIOUS
<1>11. /\ e.type = "new_alert" => v = [open |-> n, closed |-> u.closed]
       /\ e.type \in {"class_change", "cleared"} /\ u.open # Absent =>
            v = [open |-> IF e.type = "cleared" THEN Absent ELSE n,
                 closed |-> Append(u.closed, ep)]
  BY <1>10 DEF NextEpisode
<1>12. None \notin Class  BY MachineAssumption
<1>13. EventTells(ClassAt(c, Len(c)), x, o) /\ e.type = o.type /\ o # NoEvent  OBVIOUS
<1> HIDE DEF n, d, v, ep
<1>14. CASE e.type = "new_alert"
  <2>1. u.open = Absent /\ x # None  BY <1>8, <1>12, <1>13, <1>14 DEF EventTells
  <2>2. v.open = n /\ v.closed = u.closed  BY <1>11, <1>14
  <2>3. Duration(v.closed) + ((n + 1) - v.open) = Cardinality(Alerted(d))
    BY <1>1, <1>6, <1>7, <1>8, <2>1, <2>2
  <2>4. QED  BY <1>1, <1>2, <1>4, <2>1, <2>2, <2>3 DEF Accounts, v, d
<1>15. CASE e.type = "class_change"
  <2>1. u.open # Absent /\ x # None  BY <1>8, <1>12, <1>13, <1>15 DEF EventTells
  <2>2. v.open = n /\ v.closed = Append(u.closed, ep)  BY <1>11, <1>15, <2>1
  <2>3. Duration(v.closed) + ((n + 1) - v.open) = Cardinality(Alerted(d))
    BY <1>1, <1>3, <1>6, <1>7, <1>8, <2>1, <2>2
  <2>4. QED  BY <1>1, <1>2, <1>4, <2>1, <2>2, <2>3 DEF Accounts, v, d
<1>16. CASE e.type = "cleared"
  <2>1. u.open # Absent /\ x = None  BY <1>8, <1>12, <1>13, <1>16 DEF EventTells
  <2>2. v.open = Absent /\ v.closed = Append(u.closed, ep)  BY <1>11, <1>16, <2>1
  <2>3. Duration(v.closed) = Cardinality(Alerted(d))
    BY <1>1, <1>3, <1>6, <1>7, <1>8, <2>1, <2>2
  <2>4. QED  BY <1>2, <1>4, <2>1, <2>2, <2>3 DEF Accounts, v, d
<1>17. QED  BY <1>13, <1>14, <1>15, <1>16 DEF EventTells

LEMMA AccountsStay ==
    ASSUME NEW u, NEW c \in Seq(MaybeClass), Accounts(u, c)
    PROVE  Accounts(u, Append(c, ClassAt(c, Len(c))))
<1> DEFINE x == ClassAt(c, Len(c))
           d == Append(c, x)
<1>1. x \in MaybeClass  BY DEF ClassAt, MaybeClass
<1>2. Len(c) \in Nat /\ Len(d) = Len(c) + 1 /\ d[Len(c) + 1] = x  BY <1>1
<1>3. ClassAt(d, Len(d)) = x  BY <1>2 DEF ClassAt
<1>4. u \in Open /\ u.open \in Int /\ u.closed \in Seq(Episode)  BY DEF Accounts, Open
<1>5. Duration(u.closed) \in Int  BY <1>4, DurationFits
<1>6. /\ Cardinality(Alerted(c)) \in Nat
      /\ Cardinality(Alerted(d)) = Cardinality(Alerted(c)) + IF x = None THEN 0 ELSE 1
  BY <1>1, AlertedGrows
<1>7. /\ (u.open = Absent) <=> (x = None)
      /\ u.open = Absent => Duration(u.closed) = Cardinality(Alerted(c))
      /\ u.open # Absent => Duration(u.closed) + ((Len(c) + 1) - u.open) = Cardinality(Alerted(c))
  BY DEF Accounts
<1> HIDE DEF x, d
<1>8. /\ u.open = Absent => Duration(u.closed) = Cardinality(Alerted(d))
      /\ u.open # Absent => Duration(u.closed) + ((Len(d) + 1) - u.open) = Cardinality(Alerted(d))
  BY <1>2, <1>4, <1>5, <1>6, <1>7
<1>9. QED  BY <1>3, <1>4, <1>7, <1>8 DEF Accounts, d, x

----------------------------------------------------------------------------
(* The live session of a run, and the replay of the same rows.             *)
LEMMA TimedGrows ==
    ASSUME NEW s \in Seq(Row), NEW row \in Row
    PROVE  /\ [at |-> Len(s) + 1, row |-> row] \in TimedRow
           /\ Timed(Append(s, row)) = Append(Timed(s), [at |-> Len(s) + 1, row |-> row])
<1> DEFINE N == Len(s)
           x == [at |-> N + 1, row |-> row]
           a == Timed(Append(s, row))
           b == Append(Timed(s), x)
           q == Append(s, row)
<1>1. /\ N \in Nat /\ q \in Seq(Row) /\ Len(q) = N + 1 /\ q[N + 1] = row
      /\ \A i \in 1 .. N : q[i] = s[i]
  OBVIOUS
<1>2. x \in TimedRow  BY <1>1 DEF TimedRow
<1>3. /\ Timed(s) \in Seq(TimedRow) /\ Len(Timed(s)) = N
      /\ \A i \in 1 .. N : Timed(s)[i] = [at |-> i, row |-> s[i]]
  BY TimedFacts
<1>4. /\ a \in Seq(TimedRow) /\ Len(a) = N + 1
      /\ \A i \in 1 .. N + 1 : a[i] = [at |-> i, row |-> q[i]]
  BY <1>1, TimedFacts
<1> HIDE DEF x
<1>5. /\ b \in Seq(TimedRow) /\ Len(b) = N + 1 /\ b[N + 1] = x
      /\ \A i \in 1 .. N : b[i] = Timed(s)[i]
  BY <1>2, <1>3
<1> HIDE DEF a, b, q, N
<1>6. ASSUME NEW i \in 1 .. N + 1 PROVE a[i] = b[i]
  <2>1. CASE i = N + 1
    <3>1. a[i] = x  BY <1>1, <1>4, <2>1 DEF x
    <3>2. QED  BY <1>5, <2>1, <3>1
  <2>2. CASE i # N + 1
    <3>1. i \in 1 .. N  BY <1>1, <2>2
    <3>2. QED  BY <1>1, <1>3, <1>4, <1>5, <3>1
  <2>3. QED  BY <2>1, <2>2
<1>7. a = b  BY <1>4, <1>5, <1>6, SeqEqual
<1>8. QED  BY <1>2, <1>7 DEF a, b, q, x, N

Lives(s, m, c) ==
    /\ Len(c) = Len(s) /\ m \in Machine /\ m.confirmed = ClassAt(c, Len(c))
    /\ m = RunStateMachine(Frozen, Timed(s)).machine
    /\ Story(RunStateMachine(Frozen, Timed(s)).events, c)
    /\ Accounts(Unfinished(RunStateMachine(Frozen, Timed(s)).events), c)

LEMMA LifeStarts == Lives(<<>>, FreshMachine, <<>>)
<1> DEFINE run == RunStateMachine(Frozen, Timed(<<>>))
<1>1. Timed(<<>>) = <<>>  BY DEF Timed
<1>2. run = NoReplay
  <2>1. PICK x \in TimedRow : TRUE
    <3>1. [at |-> 0, row |-> Insufficient] \in TimedRow  BY DEF TimedRow, Row
    <3>2. QED  BY <3>1
  <2>2. <<>> \in Seq(TimedRow)  OBVIOUS
  <2>3. QED  BY <1>1, <2>1, <2>2, RunGoesOn
<1>3. run.machine = FreshMachine /\ run.events = <<>>  BY <1>2 DEF NoReplay
<1> HIDE DEF run
<1>4. FreshMachine \in Machine /\ FreshMachine.confirmed = ClassAt(<<>>, Len(<<>>))
  BY DEF FreshMachine, Machine, MaybeClass, ClassAt
<1>5. Story(<<>>, <<>>)
  <2>1. <<>> \in Seq(AtEvent) /\ <<>> \in Seq(MaybeClass) /\ Len(<<>>) = 0 /\ DOMAIN <<>> = {}
    OBVIOUS
  <2>2. \A i \in 1 .. Len(<<>>) : FALSE  BY <2>1
  <2>3. \A i \in 0 .. Len(<<>>) : ClassAt(<<>>, i) = Leaves(<<>>, i)
    <3>1. \A i \in 0 .. Len(<<>>) : i = 0  BY <2>1
    <3>2. ClassAt(<<>>, 0) = None /\ Leaves(<<>>, 0) = None
      BY <2>1 DEF ClassAt, Leaves, Upto
    <3>3. QED  BY <3>1, <3>2
  <2>4. QED  BY <2>1, <2>2, <2>3 DEF Story
<1>6. Accounts(Unfinished(<<>>), <<>>)
  <2>1. Unfinished(<<>>) = NoEpisode
    <3>1. PICK e \in AtEvent : TRUE
      <4>1. [type |-> "none", class |-> None, at |-> 0] \in AtEvent  BY DEF AtEvent, MaybeClass
      <4>2. QED  BY <4>1
    <3>2. <<>> \in Seq(AtEvent)  OBVIOUS
    <3>3. QED  BY <3>1, <3>2, EpisodesGoOn
  <2>2. NoEpisode \in Open /\ NoEpisode.open = Absent /\ NoEpisode.closed = <<>>
    BY DEF NoEpisode, Open, Absent
  <2>3. Duration(<<>>) = 0  BY NothingLasts
  <2>4. Alerted(<<>>) = {} /\ ClassAt(<<>>, Len(<<>>)) = None  BY DEF Alerted, ClassAt
  <2>5. Cardinality(Alerted(<<>>)) = 0  BY <2>4, FS_EmptySet
  <2>6. QED  BY <2>1, <2>2, <2>3, <2>4, <2>5 DEF Accounts
<1>7. QED  BY <1>3, <1>4, <1>5, <1>6 DEF Lives, run

LEMMA LifeGoesOn ==
    ASSUME NEW s \in Seq(Row), NEW m, NEW c, Lives(s, m, c), NEW row \in Row
    PROVE  LET out == StepStateMachine(Frozen, m, row)
           IN Lives(Append(s, row), out.machine, Append(c, out.machine.confirmed))
<1> DEFINE n == Len(s) + 1
           x == [at |-> n, row |-> row]
           q == Append(s, row)
           out == StepStateMachine(Frozen, m, row)
           run == RunStateMachine(Frozen, Timed(s))
           next == RunStateMachine(Frozen, Timed(q))
           y == out.machine.confirmed
           ev == [type |-> out.event.type, class |-> out.event.class, at |-> n]
           d == Append(c, y)
<1>1. /\ Len(c) = Len(s) /\ m \in Machine /\ m.confirmed = ClassAt(c, Len(c))
      /\ m = run.machine /\ Story(run.events, c) /\ Accounts(Unfinished(run.events), c)
  BY DEF Lives
<1>2. Timed(s) \in Seq(TimedRow) /\ x \in TimedRow /\ Timed(q) = Append(Timed(s), x)
  BY TimedFacts, TimedGrows
<1>3. next = ReplayStep(Frozen, run, x)
  <2> HIDE DEF x
  <2>1. QED  BY <1>2, RunGoesOn
<1>4. x.row = row /\ x.at = n  OBVIOUS
<1>5. StepFits(out)  BY <1>1, StepFitsAlways
<1>6. out.machine \in Machine /\ out.event \in Event  BY <1>5 DEF StepFits
<1>7. EventTells(ClassAt(c, Len(c)), y, out.event)  BY <1>1, StepTells
<1>8. /\ next.machine = out.machine
      /\ next.events = IF out.event = NoEvent THEN run.events ELSE Append(run.events, ev)
  <2> HIDE DEF x, out, run
  <2>1. next = Replayed(run, x, out)  BY <1>1, <1>3, <1>4 DEF ReplayStep, out
  <2>2. QED  BY <1>4, <2>1 DEF Replayed
<1>9. /\ run.events \in Seq(AtEvent) /\ c \in Seq(MaybeClass) /\ y \in MaybeClass
  <2>1. run.events \in Seq(AtEvent) /\ c \in Seq(MaybeClass)  BY <1>1 DEF Story
  <2>2. y \in MaybeClass  BY <1>6 DEF Machine
  <2>3. QED  BY <2>1, <2>2
<1>10. /\ Len(q) = n /\ Len(d) = n /\ n \in Nat /\ n # 0 /\ d[n] = y /\ Len(c) + 1 = n
  <2> HIDE DEF y, out
  <2>1. QED  BY <1>1, <1>9
<1>11. ClassAt(d, Len(d)) = y  BY <1>10 DEF ClassAt
<1> HIDE DEF out, run, next, q, d, y, x, ev, n
<1>12. CASE out.event = NoEvent
  <2>1. y = ClassAt(c, Len(c))
    <3>1. NoEvent.type = "none"  BY DEF NoEvent
    <3>2. QED  BY <1>7, <1>12, <3>1 DEF EventTells
  <2>2. next.events = run.events  BY <1>8, <1>12
  <2>3. Story(next.events, d)  BY <1>1, <2>1, <2>2, StoryStays DEF d
  <2>4. Accounts(Unfinished(next.events), d)  BY <1>1, <1>9, <2>1, <2>2, AccountsStay DEF d
  <2>5. QED  BY <1>6, <1>8, <1>10, <1>11, <2>3, <2>4 DEF Lives, out, next, q, d, y
<1>13. CASE out.event # NoEvent
  <2>1. next.events = Append(run.events, ev)  BY <1>8, <1>13
  <2>2. Story(next.events, d)
    <3>1. Story(Append(run.events, [type |-> out.event.type, class |-> out.event.class,
                                    at |-> Len(c) + 1]), Append(c, y))
      BY <1>1, <1>6, <1>7, <1>13, StoryGrows
    <3>2. QED  BY <1>10, <2>1, <3>1 DEF ev, d
  <2>3. ev \in AtEvent /\ ev.at = Len(c) + 1 /\ ev.type = out.event.type
    <3>1. out.event.type \in {"none", "new_alert", "class_change", "cleared"}
          /\ out.event.class \in MaybeClass
      BY <1>6 DEF Event
    <3>2. QED  BY <1>10, <3>1 DEF ev, AtEvent
  <2>4. Unfinished(next.events) = NextEpisode(Unfinished(run.events), ev)
    BY <1>9, <2>1, <2>3, EpisodesGoOn
  <2>5. Accounts(Unfinished(next.events), d)
    BY <1>1, <1>7, <1>9, <1>13, <2>3, <2>4, AccountsGrow DEF d
  <2>6. QED  BY <1>6, <1>8, <1>10, <1>11, <2>2, <2>5 DEF Lives, out, next, q, d, y
<1>14. QED  BY <1>12, <1>13

(* The episodes of a replay last as long as the live alerts were up.       *)
LEMMA EpisodesCover ==
    ASSUME NEW s \in Seq(Row), NEW m, NEW c, Lives(s, m, c)
    PROVE  RunFalseAlerts(Frozen, Timed(s)).duration = Cardinality(Alerted(c))
<1> DEFINE q == Timed(s)
           es == RunStateMachine(Frozen, q).events
           u == Unfinished(es)
           end == Last(q).at + 1
           eps == IF q = <<>> THEN <<>> ELSE EpisodesFromEvents(es, end)
           ep == [from |-> u.open, to |-> end]
<1>1. Len(c) = Len(s) /\ Story(es, c) /\ Accounts(u, c)  BY DEF Lives
<1>2. es \in Seq(AtEvent) /\ c \in Seq(MaybeClass)  BY <1>1 DEF Story
<1>3. /\ q \in Seq(TimedRow) /\ Len(q) = Len(s) /\ Len(s) \in Nat
      /\ \A i \in 1 .. Len(s) : q[i] = [at |-> i, row |-> s[i]]
  BY TimedFacts
<1>4. RunFalseAlerts(Frozen, q).duration = Duration(eps)  BY DEF RunFalseAlerts, FalseAlertsIn
<1> HIDE DEF q, es, u
<1>5. CASE q = <<>>
  <2>1. eps = <<>> /\ Len(c) = 0  BY <1>1, <1>3, <1>5
  <2>2. Alerted(c) = {}  BY <2>1 DEF Alerted
  <2>3. Cardinality(Alerted(c)) = 0  BY <2>2, FS_EmptySet
  <2>4. QED  BY <1>4, <2>1, <2>3, NothingLasts DEF q
<1>6. CASE q # <<>>
  <2>1. Len(s) \in 1 .. Len(s)  BY <1>3, <1>6
  <2>2. q[Len(s)].at = Len(s)
    <3>1. q[Len(s)] = [at |-> Len(s), row |-> s[Len(s)]]  BY <1>3, <2>1
    <3>2. QED  BY <3>1
  <2>3. end = Len(c) + 1  BY <1>1, <1>3, <2>2 DEF Last
  <2>4. end \in Int  BY <1>1, <1>3, <2>3
  <2>5. eps = IF u.open = Absent THEN u.closed ELSE Append(u.closed, ep)
    BY <1>2, <1>6, EpisodesAre DEF u
  <2>6. /\ u.open \in Int /\ u.closed \in Seq(Episode)  BY <1>1 DEF Accounts, Open
  <2> HIDE DEF end, eps
  <2>7. ep \in Episode /\ ep.to = end /\ ep.from = u.open  BY <2>4, <2>6 DEF Episode
  <2> HIDE DEF ep
  <2>8. CASE u.open = Absent
    <3>1. Duration(u.closed) = Cardinality(Alerted(c))  BY <1>1, <2>8 DEF Accounts
    <3>2. QED  BY <1>4, <2>5, <2>8, <3>1 DEF q
  <2>9. CASE u.open # Absent
    <3>1. Duration(u.closed) + ((Len(c) + 1) - u.open) = Cardinality(Alerted(c))
      BY <1>1, <2>9 DEF Accounts
    <3>2. Duration(Append(u.closed, ep)) = Duration(u.closed) + (end - u.open)
      BY <2>6, <2>7, DurationGrows
    <3>3. QED  BY <1>4, <2>3, <2>5, <2>9, <3>1, <3>2 DEF q
  <2>10. QED  BY <2>8, <2>9
<1>7. QED  BY <1>5, <1>6

(* Merging the valid rows and the rejected ones gives the run back.        *)
LEMMA GappedIsTimed ==
    ASSUME NEW s \in Seq(Row)
    PROVE  GappedOf(s) = Timed(s)
<1> DEFINE t == Timed(s)
           F == Range(FeaturesOf(s))
           R == Range(RejectionsOf(s))
           V == ValidPlaces(s)
           pick(k) == CHOOSE x \in F \cup R : x.at = k
<1>1. t \in Seq(TimedRow) /\ Len(t) = Len(s) /\ Len(s) \in Nat
      /\ \A i \in 1 .. Len(s) : t[i] = [at |-> i, row |-> s[i]]
  BY TimedFacts
<1>2. F \cup R \subseteq Range(t)
  <2>1. t \in Seq(Range(t))  BY <1>1 DEF Range
  <2> HIDE DEF t
  <2>2. /\ FeaturesOf(s) \in Seq(Range(t)) /\ RejectionsOf(s) \in Seq(Range(t))
    BY <2>1, KeptFacts DEF FeaturesOf, RejectionsOf, t
  <2>3. QED  BY <2>2 DEF Range
<1>3. \A i \in 1 .. Len(s) : i \in V => t[i] \in F
  BY <1>1, KeptFacts DEF FeaturesOf
<1>4. \A i \in 1 .. Len(s) : i \in (1 .. Len(s)) \ V => t[i] \in R
  BY <1>1, KeptFacts DEF RejectionsOf
<1>5. GappedOf(s) = [i \in 1 .. Len(s) |-> pick(i)]  BY DEF GappedOf, Merged
<1> HIDE DEF t, F, R, V
<1>6. \A i \in 1 .. Len(s) : t[i].at = i
  <2> TAKE i \in 1 .. Len(s)
  <2>1. t[i] = [at |-> i, row |-> s[i]]  BY <1>1
  <2>2. QED  BY <2>1
<1>7. ASSUME NEW i \in 1 .. Len(s) PROVE pick(i) = t[i]
  <2>1. t[i] \in F \cup R /\ t[i].at = i  BY <1>3, <1>4, <1>6
  <2>2. ASSUME NEW x \in F \cup R, x.at = i PROVE x = t[i]
    <3>1. PICK j \in DOMAIN t : x = t[j]  BY <1>2 DEF Range
    <3>2. j \in 1 .. Len(s)  BY <1>1
    <3>3. t[j].at = j  BY <1>6, <3>2
    <3>4. j = i  BY <2>2, <3>1, <3>3
    <3>5. QED  BY <3>1, <3>4
  <2>3. QED  BY <2>1, <2>2
<1> HIDE DEF pick
<1>8. t = [i \in 1 .. Len(s) |-> t[i]]  BY <1>1
<1>9. QED  BY <1>5, <1>7, <1>8 DEF t

(* What is kept at the places up to k is the beginning of a sequence.      *)
Beginning(q, k) == [i \in 1 .. k |-> q[i]]

LEMMA KeptIsBeginning ==
    ASSUME NEW T, NEW q \in Seq(T), NEW k \in 0 .. Len(q), NEW S,
           \A i \in 1 .. Len(q) : i \in S <=> i <= k
    PROVE  Kept(q, S) = Beginning(q, k)
<1>1. PICK f \in [0 .. Len(q) -> Seq(T)] : Keeps(f, q, S) /\ Kept(q, S) = f[Len(q)]
  BY KeptUnfolds
<1> DEFINE N == Len(q)
           upto(n) == IF n <= k THEN n ELSE k
           g == [n \in 0 .. N |-> Beginning(q, upto(n))]
<1>2. N \in Nat /\ k \in Nat /\ k <= N  OBVIOUS
<1>3. g[0] = f[0]
  <2>1. 0 \in 0 .. Len(q) /\ upto(0) = 0  BY <1>2
  <2>2. f[0] = <<>>  BY <1>1, <2>1 DEF Keeps
  <2>3. Beginning(q, 0) = <<>>  BY DEF Beginning
  <2>4. QED  BY <2>1, <2>2, <2>3
<1>4. ASSUME NEW n \in 1 .. N, g[n - 1] = f[n - 1] PROVE g[n] = f[n]
  <2>1. n \in 0 .. Len(q) /\ n # 0 /\ n - 1 \in 0 .. N /\ n \in 0 .. N /\ n \in Nat  BY <1>2
  <2>2. f[n] = IF n \in S THEN Append(f[n - 1], q[n]) ELSE f[n - 1]
    BY <1>1, <2>1, Zenon DEF Keeps
  <2>3. g[n] = Beginning(q, upto(n)) /\ g[n - 1] = Beginning(q, upto(n - 1))  BY <2>1
  <2>4. n \in S <=> n <= k  OBVIOUS
  <2> HIDE DEF g
  <2>5. CASE n <= k
    <3>1. upto(n) = n /\ upto(n - 1) = n - 1  BY <1>2, <2>1, <2>5
    <3> HIDE DEF upto
    <3>2. Append(Beginning(q, n - 1), q[n]) = Beginning(q, n)
      <4>1. PICK p : p = Beginning(q, n - 1)  OBVIOUS
      <4>2. p \in Seq(T) /\ Len(p) = n - 1 /\ \A i \in 1 .. n - 1 : p[i] = q[i]
        BY <2>1, <4>1 DEF Beginning
      <4>3. q[n] \in T  BY <2>1
      <4>4. Append(p, q[n]) = [i \in 1 .. n |-> IF i = n THEN q[n] ELSE p[i]]
        BY <2>1, <4>2, <4>3
      <4>5. \A i \in 1 .. n : (IF i = n THEN q[n] ELSE p[i]) = q[i]
        <5> TAKE i \in 1 .. n
        <5>1. i = n \/ i \in 1 .. n - 1  BY <2>1
        <5>2. QED  BY <4>2, <5>1
      <4>6. QED  BY <4>1, <4>4, <4>5 DEF Beginning
    <3>3. QED  BY <1>4, <2>2, <2>3, <2>4, <2>5, <3>1, <3>2
  <2>6. CASE ~ (n <= k)
    <3>1. upto(n) = k /\ upto(n - 1) = k  BY <1>2, <2>1, <2>6
    <3>2. QED  BY <1>4, <2>2, <2>3, <2>4, <2>6, <3>1
  <2>7. QED  BY <2>5, <2>6
<1>5. g[N] = f[N]
  <2> HIDE DEF g, N
  <2>1. QED  BY <1>2, <1>3, <1>4, FoldsAgree
<1>6. g[N] = Beginning(q, k)
  <2>1. N \in 0 .. N /\ upto(N) = k  BY <1>2
  <2>2. QED  BY <2>1
<1>7. QED  BY <1>1, <1>5, <1>6

(* How many rows of a run of n rows come before its fault.                 *)
RowsBefore(r, n) == IF IsFaultRun(r) /\ Info[r].onset <= n THEN Info[r].onset - 1 ELSE n

LEMMA SegmentIs ==
    ASSUME NEW r \in Run, NEW s \in Seq(Row)
    PROVE  /\ HealthySegment(r, Timed(s)) = Beginning(Timed(s), RowsBefore(r, Len(s)))
           /\ RowsBefore(r, Len(s)) \in 0 .. Len(s)
<1> DEFINE q == Timed(s)
           k == RowsBefore(r, Len(s))
<1>1. q \in Seq(TimedRow) /\ Len(q) = Len(s) /\ Len(s) \in Nat
      /\ \A i \in 1 .. Len(s) : q[i] = [at |-> i, row |-> s[i]]
  BY TimedFacts
<1>2. Info[r].onset \in Nat \ {0}  BY EvaluationAssumption
<1>3. k \in 0 .. Len(s)  BY <1>1, <1>2 DEF RowsBefore
<1>4. \A i \in 1 .. Len(s) : q[i].at = i
  <2> TAKE i \in 1 .. Len(s)
  <2>1. q[i] = [at |-> i, row |-> s[i]]  BY <1>1
  <2>2. QED  BY <2>1
<1> HIDE DEF q
<1>5. CASE IsFaultRun(r)
  <2> DEFINE S == {i \in 1 .. Len(q) : q[i].at < Info[r].onset}
  <2>1. \A i \in 1 .. Len(q) : i \in S <=> i <= k
    <3> TAKE i \in 1 .. Len(q)
    <3>1. i \in 1 .. Len(s) /\ q[i].at = i  BY <1>1, <1>4
    <3>2. i \in S <=> i < Info[r].onset  BY <3>1
    <3>3. QED  BY <1>1, <1>2, <1>5, <3>1, <3>2 DEF RowsBefore
  <2>2. HealthySegment(r, q) = Kept(q, S)  BY <1>5 DEF HealthySegment
  <2>3. k \in 0 .. Len(q)  BY <1>1, <1>3
  <2> HIDE DEF S, k
  <2>4. Kept(q, S) = Beginning(q, k)  BY <1>1, <2>1, <2>3, KeptIsBeginning
  <2>5. QED  BY <1>3, <2>2, <2>4 DEF q, k
<1>6. CASE ~ IsFaultRun(r)
  <2>1. HealthySegment(r, q) = q /\ k = Len(q)  BY <1>1, <1>6 DEF HealthySegment, RowsBefore
  <2>2. Beginning(q, Len(q)) = q  BY <1>1 DEF Beginning
  <2>3. QED  BY <1>3, <2>1, <2>2 DEF q
<1>7. QED  BY <1>5, <1>6

----------------------------------------------------------------------------
(* Detections: what the events say is what the confirmed classes were.     *)

(* The rows from the onset on that newly confirm a class of S, and the     *)
(* events that say so.                                                     *)
NewlyIn(c, S, onset) ==
    {i \in 1 .. Len(c) : /\ ClassAt(c, i) \in S /\ ClassAt(c, i) # ClassAt(c, i - 1)
                         /\ i >= onset}

SaidIn(es, S, onset) ==
    {j \in DOMAIN es : es[j].at >= onset /\ Confirms(es[j]) /\ es[j].class \in S}

FirstAfter(I, onset) == IF I = {} THEN Absent ELSE Min(I) - onset

LEMMA SaidIsNew ==
    ASSUME NEW es, NEW c, Story(es, c), NEW S \in SUBSET Class, NEW onset \in Nat, NEW i
    PROVE  i \in NewlyIn(c, S, onset) <=> \E j \in SaidIn(es, S, onset) : es[j].at = i
<1>0. None \notin Class  BY MachineAssumption
<1>1. ASSUME i \in NewlyIn(c, S, onset) PROVE \E j \in SaidIn(es, S, onset) : es[j].at = i
  <2>1. i \in 1 .. Len(c) /\ ClassAt(c, i) \in S /\ ClassAt(c, i) # ClassAt(c, i - 1) /\ i >= onset
    BY <1>1 DEF NewlyIn
  <2>2. PICK j \in DOMAIN es : es[j].at = i  BY <2>1 DEF Story
  <2>3. SaysSo(es, c, j)  BY DEF Story
  <2>4. Confirms(es[j]) /\ es[j].class \in S  BY <1>0, <2>1, <2>2, <2>3 DEF SaysSo
  <2>5. j \in SaidIn(es, S, onset)  BY <2>1, <2>2, <2>4 DEF SaidIn
  <2>6. QED  BY <2>2, <2>5
<1>2. ASSUME NEW j \in SaidIn(es, S, onset), es[j].at = i PROVE i \in NewlyIn(c, S, onset)
  <2>1. j \in DOMAIN es /\ es[j].at >= onset /\ Confirms(es[j]) /\ es[j].class \in S
    BY DEF SaidIn
  <2>2. SaysSo(es, c, j)  BY <2>1 DEF Story
  <2>3. i \in 1 .. Len(c) /\ ClassAt(c, i) \in S /\ ClassAt(c, i) # ClassAt(c, i - 1)
    BY <1>2, <2>1, <2>2 DEF SaysSo
  <2>4. QED  BY <1>2, <2>1, <2>3 DEF NewlyIn
<1>3. QED  BY <1>1, <1>2

LEMMA FirstIsFirst ==
    ASSUME NEW es, NEW c, Story(es, c), NEW S \in SUBSET Class, NEW onset \in Nat
    PROVE  Latency(es, SaidIn(es, S, onset), onset) = FirstAfter(NewlyIn(c, S, onset), onset)
<1> DEFINE I == NewlyIn(c, S, onset)
           J == SaidIn(es, S, onset)
<1>1. \A i : i \in I <=> \E j \in J : es[j].at = i  BY SaidIsNew
<1>2. J \subseteq DOMAIN es /\ DOMAIN es = 1 .. Len(es) /\ I \subseteq Nat
  BY DEF SaidIn, Story, NewlyIn
<1>3. \A j \in J : es[j].at \in Nat
  <2> TAKE j \in J
  <2>1. es[j].at \in I  BY <1>1
  <2>2. QED  BY <1>2, <2>1
<1> HIDE DEF I, J
<1>4. CASE J = {}
  <2>1. I = {}  BY <1>1, <1>4
  <2>2. QED  BY <1>4, <2>1 DEF Latency, FirstAfter, I, J
<1>5. CASE J # {}
  <2>1. J \subseteq Nat  BY <1>2
  <2>2. Min(J) \in J /\ \A y \in J : Min(J) <= y  BY <1>5, <2>1, LeastOf
  <2> DEFINE a == es[Min(J)].at
  <2>3. a \in I  BY <1>1, <2>2
  <2>4. Min(I) \in I /\ \A y \in I : Min(I) <= y
    <3>1. I # {}  BY <2>3
    <3>2. QED  BY <1>2, <3>1, LeastOf
  <2>5. ASSUME NEW y \in I PROVE a <= y
    <3>1. PICK j \in J : es[j].at = y  BY <1>1
    <3>2. CASE j = Min(J)
      <4>1. a = y  BY <3>1, <3>2
      <4>2. QED  BY <1>2, <4>1
    <3>3. CASE j # Min(J)
      <4>1. Min(J) \in Nat /\ j \in Nat /\ Min(J) <= j  BY <2>1, <2>2
      <4>2. Min(J) < j  BY <3>3, <4>1
      <4>3. Min(J) \in DOMAIN es /\ j \in DOMAIN es  BY <1>2, <2>2
      <4>4. a < es[j].at  BY <4>2, <4>3 DEF Story
      <4>5. a \in Nat /\ y \in Nat  BY <1>2, <2>3
      <4> HIDE DEF a
      <4>6. QED  BY <3>1, <4>4, <4>5
    <3>4. QED  BY <3>2, <3>3
  <2>6. a = Min(I)
    <3>1. a <= Min(I) /\ Min(I) <= a  BY <2>3, <2>4, <2>5
    <3>2. a \in Nat /\ Min(I) \in Nat  BY <1>2, <2>3, <2>4
    <3> HIDE DEF a
    <3>3. QED  BY <3>1, <3>2
  <2>7. I # {}  BY <2>3
  <2>8. Latency(es, J, onset) = a - onset  BY <1>5 DEF Latency
  <2>9. FirstAfter(I, onset) = Min(I) - onset  BY <2>7 DEF FirstAfter
  <2> HIDE DEF a
  <2>10. QED  BY <2>6, <2>8, <2>9 DEF I, J
<1>6. QED  BY <1>4, <1>5

(* A class that is confirmed after the onset, and never newly, was         *)
(* confirmed before it.                                                    *)
LEMMA WasConfirmed ==
    ASSUME NEW c, NEW fault, NEW onset \in Nat \ {0}, NewlyIn(c, {fault}, onset) = {},
           NEW i \in onset .. Len(c), Len(c) \in Nat, ClassAt(c, i) = fault
    PROVE  ClassAt(c, onset - 1) = fault
<1> DEFINE N == (i - onset) + 1
           P == {k \in 0 .. N : ClassAt(c, i - k) = fault}
<1>1. N \in Nat /\ i \in Nat  OBVIOUS
<1>2. 0 \in P
  <2>1. i - 0 = i /\ 0 \in 0 .. N  BY <1>1
  <2>2. QED  BY <2>1
<1>3. ASSUME NEW n \in 1 .. N, n - 1 \in P PROVE n \in P
  <2>1. ClassAt(c, i - (n - 1)) = fault  BY <1>3
  <2>2. /\ i - (n - 1) \in 1 .. Len(c) /\ i - (n - 1) >= onset
        /\ (i - (n - 1)) - 1 = i - n /\ n \in 0 .. N
    BY <1>1
  <2> DEFINE k == i - (n - 1)
  <2>3. k \notin NewlyIn(c, {fault}, onset)  OBVIOUS
  <2>4. k \in 1 .. Len(c) /\ k >= onset /\ ClassAt(c, k) = fault /\ k - 1 = i - n  BY <2>1, <2>2
  <2> HIDE DEF k
  <2>5. ClassAt(c, k - 1) = ClassAt(c, k)  BY <2>3, <2>4 DEF NewlyIn
  <2>6. QED  BY <2>2, <2>4, <2>5
<1>4. N \in P
  <2> HIDE DEF P, N
  <2>1. 0 .. N \subseteq P  BY <1>1, <1>2, <1>3, UpToBound
  <2>2. N \in 0 .. N  BY <1>1
  <2>3. QED  BY <2>1, <2>2
<1>5. i - N = onset - 1  BY <1>1
<1>6. QED  BY <1>4, <1>5

Detects(d, c, fault, onset) ==
    /\ d.correct = FirstAfter(NewlyIn(c, {fault}, onset), onset)
    /\ d.any = FirstAfter(NewlyIn(c, Class, onset), onset)
    /\ Len(c) >= onset => d.atOnset = ClassAt(c, onset - 1)
    /\ d.correct = Absent =>
         \A i \in onset .. Len(c) : ClassAt(c, i) = fault => d.atOnset = fault

LEMMA StoryDetects ==
    ASSUME NEW es, NEW c, Story(es, c), NEW fault \in Class, NEW onset \in Nat \ {0}
    PROVE  Detects(DetectionIn(es, fault, onset), c, fault, onset)
<1> DEFINE d == DetectionIn(es, fault, onset)
           earlier == {i \in DOMAIN es : ~ FromOnset(es[i], onset)}
           alerts == {i \in DOMAIN es : FromOnset(es[i], onset) /\ Confirms(es[i])}
           correct == {i \in alerts : es[i].class = fault}
           left == IF earlier = {} \/ ~ Confirms(es[Max(earlier)])
                   THEN None ELSE es[Max(earlier)].class
<1>1. /\ d.correct = Latency(es, correct, onset) /\ d.any = Latency(es, alerts, onset)
      /\ d.atOnset = left
  BY DEF DetectionIn
<1>2. correct = SaidIn(es, {fault}, onset)  BY DEF SaidIn, FromOnset
<1>3. alerts = SaidIn(es, Class, onset)
  <2>1. \A j \in DOMAIN es : Confirms(es[j]) => es[j].class \in Class
    <3> TAKE j \in DOMAIN es
    <3>1. SaysSo(es, c, j)  BY DEF Story
    <3>2. QED  BY <3>1 DEF SaysSo
  <2>2. QED  BY <2>1 DEF SaidIn, FromOnset
<1>4. left = Leaves(es, onset - 1)
  <2>1. earlier = Upto(es, onset - 1)
    <3>1. \A j \in DOMAIN es : es[j].at \in Nat
      <4> TAKE j \in DOMAIN es
      <4>1. SaysSo(es, c, j)  BY DEF Story
      <4>2. QED  BY <4>1 DEF SaysSo
    <3>2. \A j \in DOMAIN es : ~ (es[j].at >= onset) <=> es[j].at <= onset - 1  BY <3>1
    <3>3. QED  BY <3>2 DEF Upto, FromOnset
  <2> HIDE DEF earlier
  <2>2. QED  BY <2>1 DEF Leaves
<1> HIDE DEF d, earlier, alerts, correct, left
<1>5. onset \in Nat /\ {fault} \in SUBSET Class /\ Class \in SUBSET Class  OBVIOUS
<1>6. d.correct = FirstAfter(NewlyIn(c, {fault}, onset), onset)  BY <1>1, <1>2, <1>5, FirstIsFirst
<1>7. d.any = FirstAfter(NewlyIn(c, Class, onset), onset)  BY <1>1, <1>3, <1>5, FirstIsFirst
<1>8. Len(c) \in Nat  BY DEF Story
<1>9. ASSUME Len(c) >= onset PROVE d.atOnset = ClassAt(c, onset - 1)
  <2>1. onset - 1 \in 0 .. Len(c)  BY <1>8, <1>9
  <2>2. ClassAt(c, onset - 1) = Leaves(es, onset - 1)  BY <2>1 DEF Story
  <2>3. QED  BY <1>1, <1>4, <2>2
<1>10. ASSUME d.correct = Absent, NEW i \in onset .. Len(c), ClassAt(c, i) = fault
       PROVE  d.atOnset = fault
  <2> DEFINE I == NewlyIn(c, {fault}, onset)
  <2>1. I = {}
    <3>1. I \subseteq Nat /\ \A k \in I : k >= onset  BY DEF NewlyIn
    <3>2. FirstAfter(I, onset) = Absent  BY <1>6, <1>10
    <3> HIDE DEF I
    <3> SUFFICES ASSUME I # {} PROVE FALSE  OBVIOUS
    <3>3. Min(I) \in I  BY <3>1, LeastOf
    <3>4. Min(I) - onset = -1  BY <3>2 DEF FirstAfter, Absent
    <3>5. Min(I) \in Nat /\ Min(I) >= onset  BY <3>1, <3>3
    <3>6. QED  BY <3>4, <3>5
  <2>2. ClassAt(c, onset - 1) = fault  BY <1>8, <1>10, <2>1, WasConfirmed
  <2>3. Len(c) >= onset  BY <1>8
  <2>4. QED  BY <1>9, <2>2, <2>3
<1>11. QED  BY <1>6, <1>7, <1>9, <1>10 DEF Detects, d

----------------------------------------------------------------------------
(* The episodes of the rows before the fault of run r, s its rows.         *)
CoversHealthy(r, s, c) ==
    LET k == RowsBefore(r, Len(s))
    IN RunFalseAlerts(Frozen, Beginning(Timed(s), k)).duration
         = Cardinality({i \in 1 .. k : ClassAt(c, i) # None})

LEMMA CoverGrows ==
    ASSUME NEW r \in Run, NEW s \in Seq(Row), NEW row \in Row, NEW m, NEW c, NEW x,
           Len(c) = Len(s), c \in Seq(MaybeClass), x \in MaybeClass, CoversHealthy(r, s, c),
           Lives(Append(s, row), m, Append(c, x))
    PROVE  CoversHealthy(r, Append(s, row), Append(c, x))
<1> DEFINE N == Len(s)
           q == Append(s, row)
           d == Append(c, x)
           k == RowsBefore(r, N)
           l == RowsBefore(r, N + 1)
<1>1. /\ q \in Seq(Row) /\ N \in Nat /\ Len(q) = N + 1 /\ Len(d) = N + 1
      /\ \A i \in 1 .. N : q[i] = s[i] /\ d[i] = c[i]
  OBVIOUS
<1>2. Info[r].onset \in Nat \ {0}  BY EvaluationAssumption
<1>3. (l = N + 1) \/ (l = k /\ l \in 0 .. N)  BY <1>1, <1>2 DEF RowsBefore
<1>4. /\ Len(Timed(s)) = N /\ Len(Timed(q)) = N + 1 /\ Timed(q) \in Seq(TimedRow)
      /\ \A i \in 1 .. N : Timed(s)[i] = [at |-> i, row |-> s[i]]
      /\ \A i \in 1 .. N + 1 : Timed(q)[i] = [at |-> i, row |-> q[i]]
  BY <1>1, TimedFacts
<1> HIDE DEF N, q, d, k, l
<1>5. CASE l = N + 1
  <2>1. Beginning(Timed(q), l) = Timed(q)  BY <1>4, <1>5 DEF Beginning
  <2>2. {i \in 1 .. l : ClassAt(d, i) # None} = Alerted(d)  BY <1>1, <1>5 DEF Alerted
  <2>3. RunFalseAlerts(Frozen, Timed(q)).duration = Cardinality(Alerted(d))
    BY <1>1, EpisodesCover DEF q, d
  <2>4. QED  BY <1>1, <2>1, <2>2, <2>3 DEF CoversHealthy, l, q, d
<1>6. CASE l = k /\ l \in 0 .. N
  <2>1. \A i \in 1 .. k : i \in 1 .. N /\ i \in 1 .. N + 1 /\ i # 0  BY <1>1, <1>6
  <2>2. \A i \in 1 .. k : Timed(q)[i] = Timed(s)[i]  BY <1>1, <1>4, <2>1
  <2>3. Beginning(Timed(q), l) = Beginning(Timed(s), k)  BY <1>6, <2>2 DEF Beginning
  <2>4. {i \in 1 .. l : ClassAt(d, i) # None} = {i \in 1 .. k : ClassAt(c, i) # None}
    <3>1. \A i \in 1 .. k : ClassAt(d, i) = ClassAt(c, i)  BY <1>1, <2>1 DEF ClassAt
    <3>2. QED  BY <1>6, <3>1
  <2>5. RunFalseAlerts(Frozen, Beginning(Timed(s), k)).duration
          = Cardinality({i \in 1 .. k : ClassAt(c, i) # None})
    BY DEF CoversHealthy, k, N
  <2>6. QED  BY <1>1, <2>3, <2>4, <2>5 DEF CoversHealthy, l, q, d
<1>7. QED  BY <1>3, <1>5, <1>6

(***************************************************************************)
(* The inductive invariant of the replays: the live machine is the one a   *)
(* replay of the recorded rows ends in, and the events of that replay tell *)
(* the story of the classes the session had confirmed, row by row.         *)
(***************************************************************************)
LiveRun(r) ==
    /\ recorded[r] \in Seq(Rows) /\ Len(recorded[r]) <= MaxRows[r]
    /\ Lives(recorded[r], live[r].machine, live[r].confirmed)
    /\ CoversHealthy(r, recorded[r], live[r].confirmed)

LiveInv == RunsAreTyped /\ DOMAIN live = Run /\ \A r \in Run : LiveRun(r)

LEMMA LiveStarts ==
    ASSUME EvaluationInit
    PROVE  LiveInv
<1>1. RunsAreTyped /\ DOMAIN live = Run  BY DEF EvaluationInit, RunsAreTyped
<1>2. ASSUME NEW r \in Run PROVE LiveRun(r)
  <2>1. recorded[r] = <<>> /\ live[r].machine = FreshMachine /\ live[r].confirmed = <<>>
    BY DEF EvaluationInit
  <2>2. <<>> \in Seq(Rows) /\ <<>> \in Seq(Row) /\ Len(<<>>) = 0 /\ 0 <= MaxRows[r]
    <3>1. MaxRows[r] \in Nat  BY EvaluationAssumption
    <3>2. QED  BY <3>1
  <2>3. CoversHealthy(r, <<>>, <<>>)
    <3>1. RowsBefore(r, 0) = 0
      <4>1. Info[r].onset \in Nat \ {0}  BY EvaluationAssumption
      <4>2. QED  BY <4>1 DEF RowsBefore
    <3>2. Beginning(Timed(<<>>), 0) = <<>> /\ Timed(<<>>) = <<>>  BY DEF Beginning, Timed
    <3>3. {i \in 1 .. 0 : ClassAt(<<>>, i) # None} = Alerted(<<>>)  BY DEF Alerted
    <3>4. RunFalseAlerts(Frozen, <<>>).duration = Cardinality(Alerted(<<>>))
      BY <2>2, <3>2, LifeStarts, EpisodesCover
    <3>5. QED  BY <2>2, <3>1, <3>2, <3>3, <3>4 DEF CoversHealthy
  <2>4. QED  BY <2>1, <2>2, <2>3, LifeStarts DEF LiveRun
<1>3. QED  BY <1>1, <1>2 DEF LiveInv

LEMMA LiveGoesOn ==
    ASSUME LiveInv, [EvaluationNext]_evaluationVars
    PROVE  LiveInv'
<1>1. ASSUME NEW r \in Run, NEW row \in Rows, Record(r, row) PROVE LiveInv'
  <2> DEFINE s == recorded[r]
             c == live[r].confirmed
             out == StepStateMachine(Frozen, live[r].machine, row)
             x == out.machine.confirmed
             now == [machine |-> out.machine, confirmed |-> Append(c, x)]
  <2>1. recorded \in [Run -> Seq(Rows)] /\ DOMAIN live = Run /\ \A q \in Run : LiveRun(q)
    BY DEF LiveInv, RunsAreTyped
  <2>2. /\ recorded' = [recorded EXCEPT ![r] = Append(s, row)]
        /\ live' = [live EXCEPT ![r] = now] /\ Len(s) < MaxRows[r]
    BY <1>1 DEF Record
  <2>3. RunsAreTyped' /\ DOMAIN live' = Run  BY <2>1, <2>2 DEF RunsAreTyped
  <2>4. ASSUME NEW q \in Run, q # r PROVE LiveRun(q)'
    <3>1. recorded'[q] = recorded[q] /\ live'[q] = live[q]
      <4> HIDE DEF now, s
      <4>1. QED  BY <2>1, <2>2, <2>4
    <3>2. QED  BY <2>1, <3>1 DEF LiveRun
  <2>5. LiveRun(r)'
    <3>1. recorded'[r] = Append(s, row) /\ live'[r] = now
      <4> HIDE DEF now, s
      <4>1. QED  BY <2>1, <2>2
    <3>2. live'[r].machine = out.machine /\ live'[r].confirmed = Append(c, x)
      <4> HIDE DEF out, x, c
      <4>1. QED  BY <3>1
    <3>3. s \in Seq(Rows) /\ s \in Seq(Row) /\ row \in Row
      <4>1. Rows \subseteq Row  BY EvaluationAssumption
      <4>2. QED  BY <2>1, <4>1
    <3>4. /\ Lives(s, live[r].machine, c) /\ CoversHealthy(r, s, c)
      BY <2>1 DEF LiveRun
    <3>5. Lives(Append(s, row), out.machine, Append(c, x))
      <4> HIDE DEF s, c
      <4>1. QED  BY <3>3, <3>4, LifeGoesOn
    <3>6. c \in Seq(MaybeClass) /\ Len(c) = Len(s)  BY <3>4 DEF Lives, Story
    <3>7. x \in MaybeClass  BY <3>5 DEF Lives, Machine
    <3> HIDE DEF s, c, out, x
    <3>8. CoversHealthy(r, Append(s, row), Append(c, x))
      BY <3>3, <3>4, <3>5, <3>6, <3>7, CoverGrows
    <3>9. Append(s, row) \in Seq(Rows) /\ Len(Append(s, row)) <= MaxRows[r]
      <4>1. MaxRows[r] \in Nat  BY EvaluationAssumption
      <4>2. QED  BY <2>2, <3>3, <4>1 DEF s
    <3>10. QED  BY <3>1, <3>2, <3>5, <3>8, <3>9 DEF LiveRun
  <2>6. QED  BY <2>3, <2>4, <2>5 DEF LiveInv
<1>2. CASE UNCHANGED <<recorded, live>>
  <2>1. recorded' = recorded /\ live' = live  BY <1>2
  <2>2. \A r \in Run : LiveRun(r)'
    <3> TAKE r \in Run
    <3>1. LiveRun(r)  BY DEF LiveInv
    <3>2. QED  BY <2>1, <3>1 DEF LiveRun
  <2>3. QED  BY <2>1, <2>2 DEF LiveInv, RunsAreTyped
<1>3. QED  BY <1>1, <1>2 DEF EvaluationNext, RunStudies, evaluationVars

LEMMA LiveRunMatches ==
    ASSUME LiveInv, NEW r \in Run
    PROVE  /\ IsFaultRun(r) =>
                LiveDetected(r, EvaluateRunDetection(Frozen, GappedSequence(r), Info[r].fault,
                                                     Info[r].onset))
           /\ LET segment == HealthySegment(r, GappedSequence(r))
              IN RunFalseAlerts(Frozen, segment).duration =
                   Cardinality({i \in 1 .. Len(segment) : ConfirmedAt(r, i) # None})
<1> DEFINE s == recorded[r]
           c == live[r].confirmed
           fault == Info[r].fault
           onset == Info[r].onset
           es == RunStateMachine(Frozen, Timed(s)).events
           k == RowsBefore(r, Len(s))
<1>1. LiveRun(r) /\ s \in Seq(Row) /\ Len(s) \in Nat
  <2>1. LiveRun(r)  BY DEF LiveInv
  <2>2. Rows \subseteq Row  BY EvaluationAssumption
  <2>3. QED  BY <2>1, <2>2 DEF LiveRun
<1>2. Lives(s, live[r].machine, c) /\ CoversHealthy(r, s, c)  BY <1>1 DEF LiveRun
<1>3. Story(es, c) /\ Len(c) = Len(s)  BY <1>2 DEF Lives
<1>4. GappedSequence(r) = Timed(s)  BY <1>1, GappedIsTimed DEF GappedSequence
<1>5. \A i : ConfirmedAt(r, i) = ClassAt(c, i)  BY DEF ConfirmedAt, ClassAt
<1>6. fault \in Class /\ onset \in Nat \ {0}  BY EvaluationAssumption
<1> HIDE DEF s, c
<1>7. IsFaultRun(r) =>
        LiveDetected(r, EvaluateRunDetection(Frozen, GappedSequence(r), fault, onset))
  <2> DEFINE d == EvaluateRunDetection(Frozen, GappedSequence(r), fault, onset)
             later(S) == {i \in Confirmations(r, S) : i >= onset}
  <2>1. d = DetectionIn(es, fault, onset)  BY <1>4 DEF EvaluateRunDetection
  <2>2. Detects(d, c, fault, onset)
    <3> HIDE DEF d, es, fault, onset
    <3>1. QED  BY <1>3, <1>6, <2>1, StoryDetects
  <2>3. \A S : later(S) = NewlyIn(c, S, onset)
    BY <1>3, <1>5 DEF Confirmations, NewlyIn, s
  <2>4. Len(recorded[r]) = Len(c)  BY <1>3 DEF s
  <2> HIDE DEF d
  <2>5. /\ d.correct = IF later({fault}) = {} THEN Absent ELSE Min(later({fault})) - onset
        /\ d.any = IF later(Class) = {} THEN Absent ELSE Min(later(Class)) - onset
    BY <2>2, <2>3 DEF Detects, FirstAfter
  <2>6. Len(c) >= onset => d.atOnset = ConfirmedAt(r, onset - 1)
    BY <1>5, <2>2 DEF Detects
  <2>7. d.correct = Absent =>
          \A i \in onset .. Len(c) : ConfirmedAt(r, i) = fault => d.atOnset = fault
    BY <1>5, <2>2 DEF Detects
  <2>8. LiveDetected(r, d)  BY <2>4, <2>5, <2>6, <2>7 DEF LiveDetected
  <2>9. QED  BY <2>8 DEF d
<1>8. HealthySegment(r, GappedSequence(r)) = Beginning(Timed(s), k) /\ k \in 0 .. Len(s)
  BY <1>1, <1>4, SegmentIs
<1>9. Len(Beginning(Timed(s), k)) = k
  <2>1. k \in Nat  BY <1>1, <1>8
  <2> HIDE DEF k
  <2>2. QED  BY <2>1 DEF Beginning
<1>10. RunFalseAlerts(Frozen, Beginning(Timed(s), k)).duration
         = Cardinality({i \in 1 .. k : ConfirmedAt(r, i) # None})
  BY <1>2, <1>5 DEF CoversHealthy
<1>11. QED  BY <1>7, <1>8, <1>9, <1>10

(***************************************************************************)
(* A replay of recorded rows judges what a live session did: its           *)
(* detections are the session's first confirmations from the onset on, and *)
(* its false episodes last exactly as long as the session had an alert up  *)
(* before the fault (detection.py, event_metrics.py), for every policy,    *)
(* every set of runs and every sequence of rows, valid or not.             *)
(***************************************************************************)
THEOREM ReplaysStayLive == EvaluationSpec => []ReplayMatchesLive
<1>1. EvaluationInit => LiveInv  BY LiveStarts
<1>2. LiveInv /\ [EvaluationNext]_evaluationVars => LiveInv'  BY LiveGoesOn
<1>3. LiveInv => ReplayMatchesLive
  <2> SUFFICES ASSUME LiveInv PROVE ReplayMatchesLive  OBVIOUS
  <2>1. EvaluationTypeOK
    <3>1. ASSUME NEW r \in Run
          PROVE  Len(recorded[r]) <= MaxRows[r] /\ Len(live[r].confirmed) = Len(recorded[r])
      <4>1. LiveRun(r)  BY DEF LiveInv
      <4>2. QED  BY <4>1 DEF LiveRun, Lives
    <3>2. QED  BY <3>1 DEF EvaluationTypeOK, LiveInv, RunsAreTyped
  <2>2. DetectionMatchesLive  BY LiveRunMatches DEF DetectionMatchesLive
  <2>3. EpisodesCoverAlerts  BY LiveRunMatches DEF EpisodesCoverAlerts
  <2>4. QED  BY <2>1, <2>2, <2>3 DEF ReplayMatchesLive
<1>4. QED  BY <1>1, <1>2, <1>3, PTL DEF EvaluationSpec
=============================================================================
