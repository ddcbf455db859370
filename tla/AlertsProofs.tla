---------------------------- MODULE AlertsProofs ----------------------------
(***************************************************************************)
(* What an acknowledgement is for, with any number of evaluations at once, *)
(* and that a lasting condition keeps its alert.  Then, for the log of the *)
(* kernel's events, which also asks for evaluations, that no event is      *)
(* passed on twice.                                                        *)
(***************************************************************************)
EXTENDS Alerts, EventLog, Integers, WellFoundedInduction, TLAPS

Rows == [state : {"none", "open", "cleared"}, since : Nat, acked : Nat, cleared : Nat]
Taken == [at : Nat, level : [Gauges -> Levels], bad : SUBSET Readings]

Types == /\ level \in [Gauges -> Levels]
         /\ bad \subseteq Readings \cup Settings
         /\ history \in Seq({"done", "failed"})
         /\ alerts \in [Keys -> Rows]
         /\ clock \in Nat
         /\ loc \in [Evaluators -> {"idle", "reading", "apply"}]
         /\ read \in [Evaluators -> Taken]
         /\ lasting \subseteq Keys

\* No alert and no evaluation is of the future.
Dated == /\ \A e \in Evaluators : read[e].at <= clock
         /\ \A k \in Keys : alerts[k].since <= clock

\* What lasts is not over.
Lasts == \A k \in lasting : ~Over(k)

\* Nor is it in a reading that is about to be applied.
ReadLasts == \A e \in Evaluators : loc[e] = "apply" => \A k \in lasting : ~Before(k, read[e])

AckInv == Types /\ Dated /\ AckIsForThis
LastingInv == Types /\ Lasts /\ ReadLasts
----------------------------------------------------------------------------
(* Types *)

\* What a step that is no evaluation and no acknowledgement does to the types.
LEMMA BoxTypes ==
    ASSUME Types,
           \/ \E g \in Gauges, l \in Levels : Moves(g, l)
           \/ \E k \in Readings \cup Settings : Breaks(k) \/ Mends(k)
           \/ \E result \in {"done", "failed"} : ScanCloses(result)
           \/ TimePasses
    PROVE  Types'
  <1>1. ASSUME NEW g \in Gauges, NEW l \in Levels, Moves(g, l) PROVE Types'
    BY <1>1 DEF Types, Moves
  <1>2. ASSUME NEW k \in Readings \cup Settings, Breaks(k) \/ Mends(k) PROVE Types'
    BY <1>2 DEF Types, Breaks, Mends
  <1>3. ASSUME NEW result \in {"done", "failed"}, ScanCloses(result) PROVE Types'
    BY <1>3 DEF Types, ScanCloses
  <1>4. CASE TimePasses
    BY <1>4 DEF Types, TimePasses
  <1> QED
    BY <1>1, <1>2, <1>3, <1>4

LEMMA NoReadingIsTaken == NoReading \in Taken /\ NoReading.at = 0
  BY DEF NoReading, Taken, Levels

\* A start and a reading leave the types, the alerts and what lasts as they are.
LEMMA StartTypes ==
    ASSUME Types, NEW e \in Evaluators, StartEvaluation(e) PROVE Types'
  <1>1. read' \in [Evaluators -> Taken]
    <2>1. [NoReading EXCEPT !.at = clock] \in Taken
      BY NoReadingIsTaken DEF Types, Taken
    <2> QED
      BY <2>1 DEF Types, StartEvaluation
  <1> QED
    BY <1>1 DEF Types, StartEvaluation

LEMMA ReadingTypes ==
    ASSUME Types, NEW e \in Evaluators, TakeReadings(e) PROVE Types'
  <1>1. read' \in [Evaluators -> Taken]
    <2>1. [read[e] EXCEPT !.level = level, !.bad = bad \cap Readings] \in Taken
      BY DEF Types, Taken
    <2>2. NoReading \in Taken
      BY NoReadingIsTaken
    <2>3. \/ read' = [read EXCEPT ![e].level = level, ![e].bad = bad \cap Readings]
          \/ read' = [read EXCEPT ![e] = NoReading]
      BY DEF TakeReadings
    <2> QED
      BY <2>1, <2>2, <2>3 DEF Types
  <1> QED
    BY <1>1 DEF Types, TakeReadings

\* What an evaluation makes of a row is a row, dated no later than it was or as of the reading.
LEMMA ReconciledRow ==
    ASSUME Types, NEW k \in Keys, NEW r \in Taken
    PROVE  /\ Reconciled(k, r) \in Rows
           /\ Reconciled(k, r).since \in {alerts[k].since, r.at}
           /\ Reconciled(k, r).state = "open" =>
                \/ Reconciled(k, r) = alerts[k] /\ IsOpen(k)
                \/ Reconciled(k, r).since = r.at /\ Reconciled(k, r).acked = 0
  <1>1. alerts[k] \in Rows /\ r.at \in Nat
    BY DEF Types, Taken
  <1>2. Raise(alerts[k], r.at) \in Rows /\ Raise(alerts[k], r.at).since = r.at /\ Raise(alerts[k], r.at).acked = 0
    BY <1>1 DEF Raise, Rows
  <1>3. /\ Clear(alerts[k], r.at) \in Rows /\ Clear(alerts[k], r.at).since = alerts[k].since
        /\ Clear(alerts[k], r.at).state = "cleared"
    BY <1>1 DEF Clear, Rows
  <1>4. Update(alerts[k], r.at) = alerts[k]
    BY DEF Update
  <1>5. \/ Reconciled(k, r) = Raise(alerts[k], r.at)
        \/ Reconciled(k, r) = Clear(alerts[k], r.at)
        \/ Reconciled(k, r) = alerts[k] /\ IsOpen(k)
        \/ Reconciled(k, r) = alerts[k] /\ ~IsOpen(k)
    BY <1>4 DEF Reconciled
  <1> QED
    BY <1>1, <1>2, <1>3, <1>5 DEF IsOpen

LEMMA NoAlertIsRow == NoAlert \in Rows /\ NoAlert.since = 0 /\ NoAlert.state # "open"
  BY DEF NoAlert, Rows

LEMMA EvaluateTypes ==
    ASSUME Types, NEW e \in Evaluators, Evaluate(e) PROVE Types'
  <1>1. read[e] \in Taken
    BY DEF Types
  <1>2. alerts' \in [Keys -> Rows]
    <2>1. alerts' = [k \in Keys |-> IF Pruned(Reconciled(k, read[e]), read[e].at) THEN NoAlert
                                    ELSE Reconciled(k, read[e])]
      BY DEF Evaluate
    <2> QED
      BY <1>1, <2>1, ReconciledRow, NoAlertIsRow
  <1>3. Conditions(read[e]) \subseteq Keys
    BY <1>1 DEF Conditions, Taken, Keys
  <1>4. lasting' \subseteq Keys
    BY <1>3 DEF Evaluate, Types
  <1> QED
    BY <1>2, <1>4, NoReadingIsTaken DEF Types, Evaluate

LEMMA AckTypes ==
    ASSUME Types, NEW k \in Keys, Ack(k) PROVE Types'
  <1>1. [alerts[k] EXCEPT !.acked = clock] \in Rows
    BY DEF Types, Rows
  <1> QED
    BY <1>1 DEF Types, Ack

LEMMA TypesStep == ASSUME Types, [Next]_vars PROVE Types'
  <1>1. ASSUME NEW e \in Evaluators, Run(e) PROVE Types'
    BY <1>1, StartTypes, ReadingTypes, EvaluateTypes DEF Run
  <1>2. ASSUME UNCHANGED vars PROVE Types'
    BY <1>2 DEF vars, Types
  <1> QED
    BY <1>1, <1>2, BoxTypes, AckTypes DEF Next

LEMMA InitTypes == Init => Types
  BY NoAlertIsRow, NoReadingIsTaken DEF Init, Types, Levels
----------------------------------------------------------------------------
(* Acknowledgements *)

\* What an evaluation leaves of an open alert: as it was, or a raise of now.
LEMMA EvaluatedRow ==
    ASSUME Types, NEW e \in Evaluators, Evaluate(e), NEW k \in Keys
    PROVE  /\ alerts'[k].since \in {alerts[k].since, read[e].at, 0}
           /\ alerts'[k].state = "open" =>
                \/ alerts'[k] = alerts[k] /\ IsOpen(k)
                \/ alerts'[k].since = read[e].at /\ alerts'[k].acked = 0
  <1>1. read[e] \in Taken
    BY DEF Types
  <1>2. \/ alerts'[k] = NoAlert
        \/ alerts'[k] = Reconciled(k, read[e])
    BY DEF Evaluate
  <1> QED
    BY <1>1, <1>2, ReconciledRow, NoAlertIsRow

LEMMA DatedStep == ASSUME AckInv, [Next]_vars PROVE Dated'
  <1> USE DEF AckInv
  <1>1. ASSUME NEW e \in Evaluators, StartEvaluation(e) PROVE Dated'
    <2>1. [NoReading EXCEPT !.at = clock].at = clock /\ clock \in Nat
      BY NoReadingIsTaken DEF Taken, Types
    <2> QED
      BY <1>1, <2>1 DEF StartEvaluation, Dated, Types
  <1>2. ASSUME NEW e \in Evaluators, TakeReadings(e) PROVE Dated'
    <2>1. read[e] \in Taken
      BY DEF Types
    <2>2. [read[e] EXCEPT !.level = level, !.bad = bad \cap Readings].at = read[e].at
      BY <2>1 DEF Taken
    <2>3. clock \in Nat /\ UNCHANGED <<clock, alerts>>
      BY <1>2 DEF TakeReadings, Types
    <2>4. ASSUME NEW f \in Evaluators PROVE read'[f].at <= clock
      <3>1. read[f].at <= clock
        BY DEF Dated
      <3>2. read'[f] = read[f] \/ read'[f] = NoReading
            \/ (f = e /\ read'[f] = [read[e] EXCEPT !.level = level, !.bad = bad \cap Readings])
        BY <1>2 DEF TakeReadings, Types
      <3>3. read'[f].at \in {read[f].at, 0}
        BY <2>2, <3>2, NoReadingIsTaken
      <3> QED
        BY <2>3, <3>1, <3>3
    <2> QED
      BY <2>3, <2>4 DEF Dated
  <1>3. ASSUME NEW e \in Evaluators, Evaluate(e) PROVE Dated'
    <2>1. clock \in Nat /\ clock' = clock
      BY <1>3 DEF Evaluate, Types
    <2>2. \A f \in Evaluators : read'[f].at <= clock
      BY <1>3, <2>1, NoReadingIsTaken DEF Evaluate, Types, Dated
    <2>3. ASSUME NEW k \in Keys PROVE alerts'[k].since <= clock
      <3>1. alerts'[k].since \in {alerts[k].since, read[e].at, 0}
        BY <1>3, EvaluatedRow
      <3>2. alerts[k].since <= clock /\ read[e].at <= clock
        BY DEF Dated
      <3> QED
        BY <3>1, <3>2, <2>1
    <2> QED
      BY <2>1, <2>2, <2>3 DEF Dated
  <1>4. ASSUME NEW k \in Keys, Ack(k) PROVE Dated'
    <2>1. \A j \in Keys : alerts'[j].since = alerts[j].since
      <3>1. alerts[k] \in Rows
        BY DEF Types
      <3>2. [alerts[k] EXCEPT !.acked = clock].since = alerts[k].since
        BY <3>1 DEF Rows
      <3> QED
        BY <1>4, <3>2 DEF Ack, Types
    <2> QED
      BY <1>4, <2>1 DEF Ack, Dated
  <1>5. ASSUME TimePasses PROVE Dated'
    <2>1. /\ \A e \in Evaluators : read[e].at \in Nat
          /\ \A k \in Keys : alerts[k].since \in Nat
          /\ clock \in Nat
      BY DEF Types, Taken, Rows
    <2> QED
      BY <1>5, <2>1 DEF TimePasses, Dated
  <1>6. ASSUME UNCHANGED <<alerts, clock, read>> PROVE Dated'
    BY <1>6 DEF Dated
  <1>7. ASSUME \/ \E g \in Gauges, l \in Levels : Moves(g, l)
               \/ \E k \in Readings \cup Settings : Breaks(k) \/ Mends(k)
               \/ \E result \in {"done", "failed"} : ScanCloses(result)
               \/ UNCHANGED vars
        PROVE  UNCHANGED <<alerts, clock, read>>
    BY <1>7 DEF Moves, Breaks, Mends, ScanCloses, vars
  <1> QED
    BY <1>1, <1>2, <1>3, <1>4, <1>5, <1>6, <1>7 DEF Next, Run

LEMMA AckStep == ASSUME AckInv, [Next]_vars PROVE AckIsForThis'
  <1> USE DEF AckInv
  <1>1. ASSUME NEW e \in Evaluators, Evaluate(e) PROVE AckIsForThis'
    BY <1>1, EvaluatedRow DEF AckIsForThis, IsOpen
  <1>2. ASSUME NEW k \in Keys, Ack(k) PROVE AckIsForThis'
    <2>1. alerts[k] \in Rows /\ clock \in Nat /\ alerts[k].since <= clock
      BY DEF Types, Dated
    <2>2. [alerts[k] EXCEPT !.acked = clock].since = alerts[k].since
          /\ [alerts[k] EXCEPT !.acked = clock].acked = clock
      BY <2>1 DEF Rows
    <2>3. alerts[k].since \in Nat
      BY <2>1 DEF Rows
    <2>4. alerts'[k] = [alerts[k] EXCEPT !.acked = clock] /\ \A j \in Keys \ {k} : alerts'[j] = alerts[j]
      BY <1>2 DEF Ack, Types
    <2>5. alerts'[k].acked >= alerts'[k].since
      BY <2>1, <2>2, <2>3, <2>4
    <2> QED
      BY <2>4, <2>5 DEF AckIsForThis, IsOpen
  <1>3. ASSUME UNCHANGED alerts PROVE AckIsForThis'
    BY <1>3 DEF AckIsForThis, IsOpen
  <1>4. \/ \E e \in Evaluators : Evaluate(e)
        \/ \E k \in Keys : Ack(k)
        \/ UNCHANGED alerts
    BY DEF Next, Run, Moves, Breaks, Mends, ScanCloses, TimePasses, StartEvaluation, TakeReadings, vars
  <1> QED
    BY <1>1, <1>2, <1>3, <1>4

\* The acknowledgement of an open alert was given to this raise of it, for any number of
\* evaluations in flight together (applyAlerts and ackAlert of db.ts, alerts.ts): a raise
\* carries the time its evaluation began, which an acknowledgement is never before.
THEOREM AckedIsThisRaise == Spec => []AckIsForThis
  <1>1. Init => AckInv
    <2>1. Init => Dated
      BY NoAlertIsRow, NoReadingIsTaken DEF Init, Dated
    <2>2. Init => AckIsForThis
      BY NoAlertIsRow DEF Init, AckIsForThis, IsOpen
    <2> QED
      BY <2>1, <2>2, InitTypes DEF AckInv
  <1>2. AckInv /\ [Next]_vars => AckInv'
    BY TypesStep, DatedStep, AckStep DEF AckInv
  <1>3. AckInv => AckIsForThis
    BY DEF AckInv
  <1> QED
    BY <1>1, <1>2, <1>3, PTL DEF Spec
----------------------------------------------------------------------------
(* What lasts *)

\* Only a change of the box ends a condition, and it is no longer one that lasts.
LEMMA LastsStep == ASSUME LastingInv, [Next]_vars PROVE Lasts'
  <1> USE DEF LastingInv
  <1>1. ASSUME NEW g \in Gauges, NEW l \in Levels, Moves(g, l) PROVE Lasts'
    <2>1. lasting' \subseteq lasting /\ (l = "low" => g \notin lasting')
      BY <1>1 DEF Moves
    <2>2. level' = [level EXCEPT ![g] = l] /\ UNCHANGED <<bad, history>>
      BY <1>1 DEF Moves
    <2>3. \A k \in Gauges : level'[k] = IF k = g THEN l ELSE level[k]
      BY <2>2 DEF Types
    <2> QED
      BY <2>1, <2>2, <2>3 DEF Lasts, Over
  <1>2. ASSUME NEW k \in Readings \cup Settings, Breaks(k) \/ Mends(k) PROVE Lasts'
    BY <1>2 DEF Breaks, Mends, Lasts, Over
  <1>3. ASSUME NEW result \in {"done", "failed"}, ScanCloses(result) PROVE Lasts'
    <2>1. history' # <<>> /\ history'[Len(history')] = result
      <3>1. history \in Seq({"done", "failed"}) /\ history' = Append(history, result)
        BY <1>3 DEF ScanCloses, Types
      <3>2. Len(history') = Len(history) + 1 /\ Len(history) \in Nat
        BY <3>1
      <3>3. history'[Len(history) + 1] = result
        BY <3>1
      <3>4. history' # <<>>
        BY <3>1, <3>2
      <3> QED
        BY <3>2, <3>3, <3>4
    <2>2. lasting' \subseteq lasting /\ (result = "done" => ScanKey \notin lasting')
      BY <1>3 DEF ScanCloses
    <2>3. UNCHANGED <<level, bad>>
      BY <1>3 DEF ScanCloses
    <2> QED
      BY <2>1, <2>2, <2>3 DEF Lasts, Over
  <1>4. ASSUME NEW e \in Evaluators, Evaluate(e) PROVE Lasts'
    BY <1>4 DEF Evaluate, Lasts, Over
  <1>5. ASSUME UNCHANGED <<level, bad, history, lasting>> PROVE Lasts'
    BY <1>5 DEF Lasts, Over
  <1>6. \/ \E g \in Gauges, l \in Levels : Moves(g, l)
        \/ \E k \in Readings \cup Settings : Breaks(k) \/ Mends(k)
        \/ \E result \in {"done", "failed"} : ScanCloses(result)
        \/ \E e \in Evaluators : Evaluate(e)
        \/ UNCHANGED <<level, bad, history, lasting>>
    BY DEF Next, Run, TimePasses, StartEvaluation, TakeReadings, Ack, vars
  <1> QED
    BY <1>1, <1>2, <1>3, <1>4, <1>5, <1>6

\* A reading is taken while what lasts holds, and nothing starts to last while an older
\* reading waits to be applied.
LEMMA ReadLastsStep == ASSUME LastingInv, [Next]_vars PROVE ReadLasts'
  <1> USE DEF LastingInv
  <1>1. ASSUME NEW e \in Evaluators, StartEvaluation(e) PROVE ReadLasts'
    BY <1>1 DEF StartEvaluation, ReadLasts, Before, Types
  <1>2. ASSUME NEW e \in Evaluators, TakeReadings(e) PROVE ReadLasts'
    <2>1. ASSUME loc'[e] = "apply"
          PROVE  read'[e].level = level /\ read'[e].bad = bad \cap Readings
      <3>1. read' = [read EXCEPT ![e].level = level, ![e].bad = bad \cap Readings]
        BY <1>2, <2>1 DEF TakeReadings, Types
      <3>2. read[e] \in Taken
        BY DEF Types
      <3>3. read'[e] = [read[e] EXCEPT !.level = level, !.bad = bad \cap Readings]
        BY <3>1 DEF Types
      <3> QED
        BY <3>2, <3>3 DEF Taken
    <2>2. UNCHANGED lasting /\ \A f \in Evaluators \ {e} : loc'[f] = loc[f] /\ read'[f] = read[f]
      BY <1>2 DEF TakeReadings, Types
    <2>3. \A k \in lasting : /\ k \in Gauges => level[k] # "low"
                             /\ k \in Readings => k \in bad \cap Readings
      BY DEF Lasts, Over
    <2>4. ASSUME NEW f \in Evaluators, loc'[f] = "apply", NEW k \in lasting PROVE ~Before(k, read'[f])
      <3>1. CASE f = e
        BY <2>1, <2>3, <2>4, <3>1 DEF Before
      <3>2. CASE f # e
        BY <2>2, <2>4, <3>2 DEF ReadLasts
      <3> QED
        BY <3>1, <3>2
    <2> QED
      BY <2>2, <2>4 DEF ReadLasts, Before
  <1>3. ASSUME NEW e \in Evaluators, Evaluate(e) PROVE ReadLasts'
    <2>1. loc'[e] = "idle" /\ \A f \in Evaluators \ {e} : loc'[f] = loc[f] /\ read'[f] = read[f]
      BY <1>3 DEF Evaluate, Types
    <2>2. \A k \in lasting' : k \in lasting \/ ~Overtaken(k, e)
      BY <1>3 DEF Evaluate
    <2>3. ASSUME NEW f \in Evaluators, loc'[f] = "apply", NEW k \in lasting' PROVE ~Before(k, read'[f])
      <3>1. f # e /\ loc[f] = "apply" /\ read'[f] = read[f]
        BY <2>1, <2>3
      <3> QED
        BY <2>2, <3>1 DEF ReadLasts, Overtaken
    <2> QED
      BY <2>3 DEF ReadLasts, Before
  <1>4. ASSUME UNCHANGED <<loc, read>>, lasting' \subseteq lasting PROVE ReadLasts'
    BY <1>4 DEF ReadLasts, Before
  <1>5. \/ \E e \in Evaluators : Run(e)
        \/ UNCHANGED <<loc, read>> /\ lasting' \subseteq lasting
    BY DEF Next, Moves, Breaks, Mends, ScanCloses, TimePasses, Ack, vars
  <1> QED
    BY <1>1, <1>2, <1>3, <1>4, <1>5 DEF Run

\* An evaluation finds the condition of an open alert that lasts.
LEMMA LastingIsFound ==
    ASSUME LastingInv, NEW e \in Evaluators, loc[e] = "apply", NEW k \in lasting, IsOpen(k)
    PROVE  k \in Conditions(read[e])
  <1> USE DEF LastingInv
  <1>1. k \in Keys /\ ~Over(k) /\ read[e] \in Taken
    BY DEF Types, Lasts
  <1>2. CASE k \in Gauges
    <2>1. read[e].level[k] # "low"
      BY <1>2 DEF ReadLasts, Before
    <2>2. read[e].level[k] \in Levels
      BY <1>1, <1>2 DEF Taken
    <2>3. GaugeRaised(k, read[e].level[k])
      BY <2>1, <2>2 DEF GaugeRaised, Levels
    <2> QED
      BY <1>2, <2>3 DEF Conditions
  <1>3. CASE k \in Readings
    BY <1>3 DEF ReadLasts, Before, Conditions
  <1>4. CASE k \in Settings
    BY <1>1, <1>4 DEF Over, Conditions
  <1>5. CASE k = ScanKey
    <2>1. history # <<>> /\ history[Len(history)] # "done"
      BY <1>1, <1>5 DEF Over
    <2>2. Len(history) \in DOMAIN history /\ history[Len(history)] \in {"done", "failed"} /\ Len(history) \in Nat
      BY <2>1 DEF Types
    <2>3. Len(history) + Window > Len(history)
      BY <2>2, AlertsAssumption
    <2>4. ScanFailed
      BY <2>1, <2>2, <2>3 DEF ScanFailed
    <2> QED
      BY <1>5, <2>4 DEF Conditions
  <1> QED
    BY <1>1, <1>2, <1>3, <1>4, <1>5 DEF Keys

\* The same, of its row: an evaluation leaves it alone.
LEMMA LastingRowStays ==
    ASSUME LastingInv, NEW e \in Evaluators, Evaluate(e), NEW k \in lasting, IsOpen(k)
    PROVE  alerts'[k] = alerts[k]
  <1>1. k \in Keys /\ loc[e] = "apply"
    BY DEF LastingInv, Types, Evaluate
  <1>2. k \in Conditions(read[e])
    BY <1>1, LastingIsFound
  <1>3. Reconciled(k, read[e]) = alerts[k]
    BY <1>2 DEF Reconciled, Update
  <1>4. ~Pruned(alerts[k], read[e].at)
    BY DEF Pruned, IsOpen
  <1> QED
    BY <1>1, <1>3, <1>4 DEF Evaluate

\* No step of the box, of a person or of an evaluation closes an alert whose condition
\* lasts, dates it anew or forgets that it was seen (reconcile and evaluate of alerts.ts):
\* for every set of gauges and conditions, any window of scans, and any number of
\* evaluations that overlap in any way, unless one had read the box before the condition
\* was there and was still to apply it when another raised the alert.
THEOREM LastingIsKept == Spec => SinceKept
  <1> DEFINE Kept == \A k \in lasting :
        IsOpen(k) => /\ alerts'[k].state = "open"
                     /\ alerts'[k].since = alerts[k].since
                     /\ alerts[k].acked # 0 => alerts'[k].acked = alerts[k].acked
  <1>1. Init => LastingInv
    BY InitTypes DEF Init, LastingInv, Lasts, ReadLasts
  <1>2. LastingInv /\ [Next]_vars => LastingInv'
    BY TypesStep, LastsStep, ReadLastsStep DEF LastingInv
  <1>3. LastingInv /\ [Next]_vars => Kept
    <2> SUFFICES ASSUME LastingInv, [Next]_vars, NEW k \in lasting, IsOpen(k)
                 PROVE  /\ alerts'[k].state = "open"
                        /\ alerts'[k].since = alerts[k].since
                        /\ alerts[k].acked # 0 => alerts'[k].acked = alerts[k].acked
      OBVIOUS
    <2>1. k \in Keys /\ alerts[k] \in Rows /\ alerts \in [Keys -> Rows]
      BY DEF LastingInv, Types
    <2>2. ASSUME NEW j \in Keys, Ack(j), j = k
          PROVE  /\ alerts'[k].state = "open"
                 /\ alerts'[k].since = alerts[k].since
                 /\ alerts[k].acked # 0 => alerts'[k].acked = alerts[k].acked
      <3>1. alerts'[k] = [alerts[k] EXCEPT !.acked = clock] /\ alerts[k].acked = 0
        BY <2>1, <2>2 DEF Ack
      <3> QED
        BY <2>1, <3>1 DEF Rows, IsOpen
    <2>3. ASSUME NEW j \in Keys, Ack(j), j # k PROVE alerts'[k] = alerts[k]
      BY <2>1, <2>3 DEF Ack
    <2>4. ASSUME NEW e \in Evaluators, Evaluate(e) PROVE alerts'[k] = alerts[k]
      BY <2>4, LastingRowStays
    <2>5. \/ \E e \in Evaluators : Evaluate(e)
          \/ \E j \in Keys : Ack(j)
          \/ UNCHANGED alerts
      BY DEF Next, Run, Moves, Breaks, Mends, ScanCloses, TimePasses, StartEvaluation, TakeReadings, vars
    <2> QED
      BY <2>2, <2>3, <2>4, <2>5 DEF IsOpen
  <1>4. LastingInv /\ [Next]_vars => [Kept]_vars
    BY <1>3
  <1> QED
    BY <1>1, <1>2, <1>4, PTL DEF Spec, SinceKept
----------------------------------------------------------------------------
(* What asks for an evaluation besides the timer: the log of the kernel's   *)
(* events.  Within one count of the kernel's ids an event's number is its   *)
(* id plus Base, and a list read later ends no earlier; so that, one poll   *)
(* at a time, an id above the last one seen is of an event never passed on. *)

Event == [eid : Nat \ {0}, n : Nat, about : About]
PollStates == [pc : {"idle", "asked", "read", "reconciling", "telling"}, list : Seq(Event), gen : Nat]

LogTypes == /\ kernel \in [list : Seq(Event), eid : Nat, gen : Nat]
            /\ lastEid \in Int
            /\ poll \in [Polls -> PollStates]
            /\ told \subseteq Nat
            /\ seenGen \in Nat /\ serial \in Nat

\* At most one poll is under way, and while one is, the next returns at once.
OnePoll == /\ \A p, q \in Polls : poll[p].pc # "idle" /\ poll[q].pc # "idle" => p = q
           /\ \A p \in Polls : poll[p].pc # "idle" => busy

\* The number of the last event before the kernel's ids last started over.
Base == serial - kernel.eid

\* The kernel lists the newest events, without a gap.
KernelLists ==
    /\ kernel.eid <= serial
    /\ kernel.eid > 0 => kernel.list # <<>>
    /\ \A i \in DOMAIN kernel.list : /\ kernel.list[i].eid = kernel.eid - Len(kernel.list) + i
                                     /\ kernel.list[i].n = Base + kernel.list[i].eid

Passing(p) == poll[p].pc \in {"reconciling", "telling"}

\* An event that was passed on, or is about to be, is not newer than the last one seen.
SeenIsOld ==
    /\ seenGen <= kernel.gen
    /\ seenGen = kernel.gen => lastEid <= kernel.eid
    /\ \A n \in told : IF seenGen = kernel.gen THEN n <= Base + lastEid ELSE n <= Base
    /\ \A p \in Polls : Passing(p) =>
         \A i \in DOMAIN poll[p].list :
           IF seenGen = kernel.gen THEN poll[p].list[i].n <= Base + lastEid ELSE poll[p].list[i].n <= Base

\* Ids grow along a list.
Rising(s) == \A i, j \in DOMAIN s : i < j => s[i].eid < s[j].eid

\* A list that was read and not yet looked at: the kernel's, now or before its ids started
\* over; its events are new unless their ids are old ones of the same count, and then its
\* last id is not an older one.
ListIsGood ==
    \A p \in Polls : poll[p].pc = "read" =>
      LET s == poll[p].list
          g == poll[p].gen
      IN  /\ seenGen <= g /\ g <= kernel.gen
          /\ Rising(s)
          /\ \A i \in DOMAIN s : IF g = kernel.gen THEN s[i].n = Base + s[i].eid /\ s[i].eid <= kernel.eid
                                 ELSE s[i].n <= Base
          /\ seenGen = g /\ s # <<>> => s[Len(s)].eid >= lastEid
          /\ \A i \in DOMAIN s : (seenGen = g => s[i].eid > lastEid) => \A n \in told : n < s[i].n

\* What is about to be passed on is newer than all that was.
FreshIsNew == \A p \in Polls : Passing(p) => \A i \in DOMAIN poll[p].list : \A n \in told : n < poll[p].list[i].n

LogInv == LogTypes /\ OnePoll /\ KernelLists /\ SeenIsOld /\ ListIsGood /\ FreshIsNew
----------------------------------------------------------------------------
\* The first of a set of places.
LEMMA MinFacts == ASSUME NEW S \in SUBSET Nat, S # {} PROVE Min(S) \in S /\ \A s \in S : Min(S) <= s
<1>1. \E x \in S : \A y \in S : ~(<<y, x>> \in OpToRel(<, Nat))
  BY WFMin, NatLessThanWellFounded
<1>2. PICK x \in S : \A y \in S : ~(<<y, x>> \in OpToRel(<, Nat))
  BY <1>1
<1>3. ASSUME NEW y \in S PROVE x <= y
  <2>1. x \in Nat /\ y \in Nat /\ <<y, x>> \in Nat \X Nat
    OBVIOUS
  <2>2. ~(y < x)
    BY <1>2, <2>1 DEF OpToRel
  <2>. QED
    BY <2>1, <2>2
<1>. QED
  BY <1>3 DEF Min

\* Newer leaves the end of a list: events of it with newer ids, and its last one if any.
LEMMA NewerFacts ==
    ASSUME NEW all \in Seq(Event), Rising(all), NEW since \in Int
    PROVE  LET f == Newer(all, since)
           IN  /\ f \in Seq(Event)
               /\ \A i \in DOMAIN f : \E j \in DOMAIN all : f[i] = all[j] /\ all[j].eid > since
               /\ f # <<>> => all # <<>> /\ f[Len(f)] = all[Len(all)]
               /\ f = <<>> => \A j \in DOMAIN all : all[j].eid <= since
<1> DEFINE S == {i \in DOMAIN all : all[i].eid > since} \cup {Len(all) + 1}
           m == Min(S)
           f == SubSeq(all, m, Len(all))
<1>1. Len(all) \in Nat /\ DOMAIN all = 1 .. Len(all)
  OBVIOUS
<1>10. \A j \in DOMAIN all : all[j].eid \in Int
  <2>1. \A j \in DOMAIN all : all[j] \in Event
    BY <1>1
  <2>2. \A e \in Event : e.eid \in Int
    BY DEF Event
  <2> QED
    BY <2>1, <2>2
<1>2. S \in SUBSET Nat /\ S # {}
  BY <1>1
<1>3. m \in S /\ \A s \in S : m <= s
  BY <1>2, MinFacts
<1>4. m \in 1 .. (Len(all) + 1)
  BY <1>1, <1>3
<1> HIDE DEF m
<1>5. /\ f \in Seq(Event)
      /\ Len(f) = Len(all) + 1 - m
      /\ \A i \in 1 .. Len(f) : f[i] = all[m + i - 1]
  BY <1>1, <1>4
<1>6. ASSUME NEW i \in DOMAIN f
      PROVE  \E j \in DOMAIN all : f[i] = all[j] /\ all[j].eid > since
  <2>1. i \in 1 .. Len(f) /\ m + i - 1 \in DOMAIN all /\ m \in DOMAIN all
    BY <1>1, <1>4, <1>5
  <2>2. all[m].eid > since
    BY <1>1, <1>3, <2>1
  <2>3. all[m].eid \in Int /\ all[m + i - 1].eid \in Int
    BY <2>1, <1>10
  <2>4. all[m + i - 1].eid >= all[m].eid
    <3>1. CASE i = 1
      BY <3>1, <2>1, <2>3, <1>4
    <3>2. CASE i > 1
      <4>1. m < m + i - 1
        BY <1>4, <2>1, <3>2
      <4>2. all[m].eid < all[m + i - 1].eid
        BY <2>1, <4>1, Zenon DEF Rising
      <4> QED
        BY <2>3, <4>2
    <3> QED
      BY <2>1, <3>1, <3>2
  <2>5. all[m + i - 1].eid > since
    BY <2>2, <2>3, <2>4
  <2> QED
    BY <1>5, <2>1, <2>5
<1>7. ASSUME f # <<>> PROVE all # <<>> /\ f[Len(f)] = all[Len(all)]
  <2>1. Len(f) > 0 /\ Len(f) \in Nat
    BY <1>5, <1>7, <1>4, <1>1
  <2>2. Len(f) \in 1 .. Len(f) /\ m + Len(f) - 1 = Len(all)
    BY <2>1, <1>5, <1>4, <1>1
  <2> QED
    BY <1>5, <2>1, <2>2, <1>4, <1>1
<1>8. ASSUME f = <<>>, NEW j \in DOMAIN all PROVE all[j].eid <= since
  <2>1. m = Len(all) + 1
    BY <1>5, <1>8, <1>4, <1>1
  <2>2. j \notin S
    BY <1>1, <1>3, <2>1
  <2> QED
    BY <2>2, <1>10
<1>9. Newer(all, since) = f
  BY DEF Newer, m
<1> QED
  BY <1>5, <1>6, <1>7, <1>8, <1>9
----------------------------------------------------------------------------
\* The parts of the records.
LEMMA LogParts ==
    ASSUME LogTypes
    PROVE  /\ kernel.list \in Seq(Event) /\ kernel.eid \in Nat /\ kernel.gen \in Nat /\ Base \in Int
           /\ \A i \in DOMAIN kernel.list : kernel.list[i].eid \in Nat \ {0} /\ kernel.list[i].n \in Nat
           /\ \A p \in Polls : /\ poll[p] \in PollStates
                               /\ poll[p].list \in Seq(Event) /\ poll[p].gen \in Nat
                               /\ \A i \in DOMAIN poll[p].list : /\ poll[p].list[i].eid \in Nat \ {0}
                                                                 /\ poll[p].list[i].n \in Nat
<1>1. kernel.list \in Seq(Event) /\ kernel.eid \in Nat /\ kernel.gen \in Nat /\ serial \in Nat
  BY DEF LogTypes
<1>2. ASSUME NEW s \in Seq(Event), NEW i \in DOMAIN s PROVE s[i].eid \in Nat \ {0} /\ s[i].n \in Nat
  <2>1. s[i] \in Event
    OBVIOUS
  <2> QED
    BY <2>1 DEF Event
<1>3. \A p \in Polls : poll[p] \in PollStates
  BY DEF LogTypes
<1>4. \A p \in Polls : poll[p].list \in Seq(Event) /\ poll[p].gen \in Nat
  BY <1>3 DEF PollStates
<1> QED
  BY <1>1, <1>2, <1>3, <1>4 DEF Base

\* Max of two, as Newest uses it.
LEMMA MaxOfTwo == ASSUME NEW x \in Int PROVE Max({1, x}) = IF x >= 1 THEN x ELSE 1
<1>1. \E y \in {1, x} : \A z \in {1, x} : y >= z
  OBVIOUS
<1>2. /\ Max({1, x}) \in {1, x}
      /\ \A z \in {1, x} : Max({1, x}) >= z
  BY <1>1 DEF Max
<1> QED
  BY <1>2

\* The kernel's list after one more event.
LEMMA NewestFacts ==
    ASSUME NEW s \in Seq(Event), NEW e \in Event, NEW k \in Nat \ {0}
    PROVE  LET t == Newest(Append(s, e), k)
           IN  /\ t \in Seq(Event) /\ t # <<>> /\ Len(t) <= Len(s) + 1 /\ t[Len(t)] = e
               /\ \A i \in DOMAIN t : i < Len(t) => Len(s) + 1 - Len(t) + i \in DOMAIN s /\ t[i] = s[Len(s) + 1 - Len(t) + i]
<1> DEFINE a == Append(s, e)
           m == Max({1, Len(a) - k + 1})
           t == SubSeq(a, m, Len(a))
<1>1. a \in Seq(Event) /\ Len(a) = Len(s) + 1 /\ Len(s) \in Nat /\ a[Len(s) + 1] = e
      /\ \A i \in 1 .. Len(s) : a[i] = s[i]
  OBVIOUS
<1>2. m \in 1 .. Len(a)
  <2>1. m = IF Len(a) - k + 1 >= 1 THEN Len(a) - k + 1 ELSE 1
    BY <1>1, MaxOfTwo
  <2> QED
    BY <1>1, <2>1
<1> HIDE DEF m
<1>3. /\ t \in Seq(Event) /\ Len(t) = Len(a) + 1 - m
      /\ \A i \in 1 .. Len(t) : t[i] = a[m + i - 1]
  BY <1>1, <1>2
<1>7. Newest(Append(s, e), k) = t
  BY DEF Newest, m
<1> HIDE DEF t, a
<1>4. Len(t) \in 1 .. (Len(s) + 1) /\ m + Len(t) - 1 = Len(s) + 1 /\ m = Len(s) + 2 - Len(t)
  BY <1>1, <1>2, <1>3
<1>5. t # <<>> /\ t[Len(t)] = e
  <2>1. Len(t) \in 1 .. Len(t) /\ Len(t) # 0
    BY <1>1, <1>4
  <2>2. t[Len(t)] = a[m + Len(t) - 1]
    BY <1>3, <2>1
  <2> QED
    BY <1>1, <1>4, <2>1, <2>2
<1>6. ASSUME NEW i \in DOMAIN t, i < Len(t)
      PROVE  Len(s) + 1 - Len(t) + i \in DOMAIN s /\ t[i] = s[Len(s) + 1 - Len(t) + i]
  <2>1. i \in 1 .. Len(t)
    BY <1>3
  <2>2. m + i - 1 \in 1 .. Len(s) /\ m + i - 1 = Len(s) + 1 - Len(t) + i
    BY <2>1, <1>4, <1>6, <1>1, <1>2
  <2> QED
    BY <2>1, <2>2, <1>1, <1>3
<1>8. Len(t) <= Len(s) + 1
  BY <1>1, <1>4
<1> QED
  BY <1>3, <1>5, <1>6, <1>7, <1>8

\* One more event.
LEMMA KernelEventStep == ASSUME LogInv, NEW a \in About, KernelEvent(a) PROVE LogInv'
<1> USE DEF LogInv
<1> DEFINE e == [eid |-> kernel.eid + 1, n |-> serial + 1, about |-> a]
           t == Newest(Append(kernel.list, e), KernelKeep)
<1>1. /\ kernel.list \in Seq(Event) /\ kernel.eid \in Nat /\ kernel.gen \in Nat /\ serial \in Nat
      /\ \A i \in DOMAIN kernel.list : kernel.list[i].eid \in Nat \ {0} /\ kernel.list[i].n \in Nat
  BY LogParts DEF LogTypes
<1>2. kernel' = [kernel EXCEPT !.eid = kernel.eid + 1, !.list = t]
  BY DEF KernelEvent
<1>3. e \in Event /\ KernelKeep \in Nat \ {0}
  BY <1>1, EventLogAssumption DEF Event
<1>4. /\ t \in Seq(Event) /\ t # <<>> /\ Len(t) <= Len(kernel.list) + 1 /\ t[Len(t)] = e
      /\ \A i \in DOMAIN t : i < Len(t) => /\ Len(kernel.list) + 1 - Len(t) + i \in DOMAIN kernel.list
                                           /\ t[i] = kernel.list[Len(kernel.list) + 1 - Len(t) + i]
  <2> HIDE DEF e
  <2>1. kernel.list \in Seq(Event)
    BY <1>1
  <2> QED
    BY <1>3, <2>1, NewestFacts
<1> HIDE DEF t
<1>5. /\ kernel' \in [list : Seq(Event), eid : Nat, gen : Nat]
      /\ kernel'.eid = kernel.eid + 1 /\ kernel'.list = t /\ kernel'.gen = kernel.gen
  <2>1. kernel \in [list : Seq(Event), eid : Nat, gen : Nat]
    BY DEF LogTypes
  <2>2. t \in Seq(Event)
    BY <1>4
  <2> QED
    <3>1. kernel.eid + 1 \in Nat /\ kernel.gen \in Nat
      BY <1>1
    <3>2. kernel' = [list |-> t, eid |-> kernel.eid + 1, gen |-> kernel.gen]
      BY <1>2, <2>1
    <3> QED
      BY <2>2, <3>1, <3>2
<1>6. serial' = serial + 1 /\ UNCHANGED <<lastEid, tail, busy, poll, told, seenGen>>
  BY DEF KernelEvent, agent
<1>7. Base' = Base
  <2>1. kernel'.eid = kernel.eid + 1 /\ serial' = serial + 1 /\ kernel.eid \in Int /\ serial \in Int
    BY <1>1, <1>5, <1>6
  <2>2. (serial + 1) - (kernel.eid + 1) = serial - kernel.eid
    BY <2>1, SMT
  <2> QED
    BY <2>1, <2>2, Zenon DEF Base
<1>8. LogTypes' /\ OnePoll'
  BY <1>1, <1>5, <1>6 DEF LogTypes, OnePoll
<1>9. KernelLists'
  <2>1. ASSUME NEW i \in DOMAIN t
        PROVE  t[i].eid = kernel.eid + 1 - Len(t) + i /\ t[i].n = Base + t[i].eid
    <3>1. i \in 1 .. Len(t) /\ Len(t) \in Nat /\ Len(kernel.list) \in Nat
      BY <1>1, <1>4
    <3>2. CASE i = Len(t)
      <4>1. t[i].eid = kernel.eid + 1 /\ t[i].n = serial + 1
        BY <1>4, <3>2
      <4> QED
        BY <4>1, <3>1, <3>2, <1>1 DEF Base
    <3>3. CASE i < Len(t)
      <4>1. PICK j \in DOMAIN kernel.list : j = Len(kernel.list) + 1 - Len(t) + i /\ t[i] = kernel.list[j]
        BY <1>4, <3>3
      <4>2. kernel.list[j].eid = kernel.eid - Len(kernel.list) + j /\ kernel.list[j].n = Base + kernel.list[j].eid
        BY <4>1 DEF KernelLists
      <4> QED
        <5>1. kernel.list[j].eid = kernel.eid + 1 - Len(t) + i
          <6>1. kernel.eid \in Int /\ Len(kernel.list) \in Int /\ Len(t) \in Int /\ i \in Int
            BY <1>1, <3>1
          <6>2. kernel.list[j].eid = kernel.eid - Len(kernel.list) + (Len(kernel.list) + 1 - Len(t) + i)
            BY <4>1, <4>2
          <6>3. kernel.eid - Len(kernel.list) + (Len(kernel.list) + 1 - Len(t) + i) = kernel.eid + 1 - Len(t) + i
            BY <6>1
          <6> QED
            BY <6>2, <6>3
        <5> QED
          BY <4>1, <4>2, <5>1
    <3> QED
      BY <3>1, <3>2, <3>3
  <2>2. kernel.eid + 1 <= serial + 1
    BY <1>1 DEF KernelLists
  <2>3. kernel'.list = t /\ kernel'.eid = kernel.eid + 1 /\ serial' = serial + 1 /\ t # <<>>
    BY <1>4, <1>5, <1>6
  <2>4. \A i \in DOMAIN kernel'.list : /\ kernel'.list[i].eid = kernel'.eid - Len(kernel'.list) + i
                                        /\ kernel'.list[i].n = Base' + kernel'.list[i].eid
    <3> SUFFICES ASSUME NEW i \in DOMAIN t
                 PROVE  t[i].eid = kernel'.eid - Len(t) + i /\ t[i].n = Base' + t[i].eid
      BY <2>3
    <3>1. t[i].eid = kernel.eid + 1 - Len(t) + i /\ t[i].n = Base + t[i].eid
      BY <2>1
    <3>2. kernel'.eid = kernel.eid + 1
      BY <2>3
    <3>3. t[i].eid = kernel'.eid - Len(t) + i
      <4>1. kernel.eid \in Int /\ Len(t) \in Int /\ i \in Int
        BY <1>1, <1>4
      <4> QED
        BY <3>1, <3>2, <4>1
    <3> QED
      BY <3>1, <3>3, <1>7
  <2>5. kernel'.eid <= serial' /\ kernel'.list # <<>>
    BY <2>2, <2>3
  <2> QED
    BY <2>4, <2>5 DEF KernelLists
<1>10. SeenIsOld'
  <2>1. seenGen = kernel.gen => lastEid <= kernel.eid + 1
    BY <1>1 DEF SeenIsOld, LogTypes
  <2> QED
    BY <2>1, <1>5, <1>6, <1>7 DEF SeenIsOld, Passing
<1>11. ListIsGood'
  <2>1. \A x \in Nat : x <= kernel.eid => x <= kernel.eid + 1
    BY <1>1
  <2>2. \A p \in Polls : \A i \in DOMAIN poll[p].list : poll[p].list[i].eid \in Nat
    BY LogParts
  <2> QED
    BY <2>1, <2>2, <1>5, <1>6, <1>7 DEF ListIsGood
<1>12. FreshIsNew'
  BY <1>6 DEF FreshIsNew, Passing
<1> QED
  BY <1>8, <1>9, <1>10, <1>11, <1>12

\* The kernel's ids start over.
LEMMA StartOverStep == ASSUME LogInv, IdsStartOver PROVE LogInv'
<1> USE DEF LogInv
<1>1. kernel.eid \in Nat /\ kernel.gen \in Nat /\ serial \in Nat /\ lastEid \in Int /\ seenGen \in Nat
  BY LogParts DEF LogTypes
<1>2. /\ kernel' = [list |-> <<>>, eid |-> 0, gen |-> kernel.gen + 1]
      /\ UNCHANGED <<lastEid, tail, busy, poll, told, seenGen, serial>>
  BY DEF IdsStartOver, agent
<1>3. kernel'.list = <<>> /\ kernel'.eid = 0 /\ kernel'.gen = kernel.gen + 1
  BY <1>2
<1>4. Base' = serial /\ Base + kernel.eid = serial /\ Base <= serial
  BY <1>1, <1>2, <1>3 DEF Base, KernelLists
<1>5. LogTypes' /\ OnePoll' /\ KernelLists' /\ FreshIsNew'
  BY <1>1, <1>2, <1>3 DEF LogTypes, OnePoll, KernelLists, FreshIsNew, Passing
<1>6. seenGen <= kernel.gen /\ seenGen # kernel.gen + 1
  BY <1>1 DEF SeenIsOld
<1>7. ASSUME NEW n \in Nat, IF seenGen = kernel.gen THEN n <= Base + lastEid ELSE n <= Base
      PROVE  n <= serial
  <2>1. seenGen = kernel.gen => lastEid <= kernel.eid
    BY DEF SeenIsOld
  <2>2. Base \in Int
    BY LogParts
  <2> QED
    BY <1>1, <1>4, <1>7, <2>1, <2>2
<1>8. SeenIsOld'
  <2>1. \A n \in told : n <= serial
    BY <1>7 DEF SeenIsOld, LogTypes
  <2>2. ASSUME NEW p \in Polls, Passing(p), NEW i \in DOMAIN poll[p].list PROVE poll[p].list[i].n <= serial
    <3>1. poll[p].list[i].n \in Nat
      BY LogParts
    <3> QED
      BY <1>7, <2>2, <3>1 DEF SeenIsOld
  <2>3. seenGen <= kernel.gen + 1
    BY <1>1, <1>6
  <2> QED
    BY <1>2, <1>3, <1>4, <1>6, <2>1, <2>2, <2>3 DEF SeenIsOld, Passing
<1>9. ListIsGood'
  <2> SUFFICES ASSUME NEW p \in Polls, poll[p].pc = "read"
               PROVE  /\ poll[p].gen <= kernel.gen + 1 /\ poll[p].gen # kernel.gen + 1
                      /\ \A i \in DOMAIN poll[p].list : poll[p].list[i].n <= serial
    BY <1>2, <1>3, <1>4 DEF ListIsGood
  <2>1. poll[p].gen \in Nat /\ poll[p].gen <= kernel.gen
    BY LogParts DEF ListIsGood
  <2>2. ASSUME NEW i \in DOMAIN poll[p].list PROVE poll[p].list[i].n <= serial
    <3>1. poll[p].list[i].eid \in Nat /\ poll[p].list[i].n \in Nat /\ Base \in Int
      BY LogParts
    <3>2. \/ poll[p].list[i].n = Base + poll[p].list[i].eid /\ poll[p].list[i].eid <= kernel.eid
          \/ poll[p].list[i].n <= Base
      BY DEF ListIsGood
    <3> QED
      BY <1>1, <1>4, <3>1, <3>2
  <2> QED
    BY <1>1, <2>1, <2>2
<1> QED
  BY <1>5, <1>8, <1>9
----------------------------------------------------------------------------
(* The polls *)

\* A step that leaves the kernel and what was seen alone, with a poll that is at nothing yet.
LEMMA QuietStep ==
    ASSUME LogInv, NEW p \in Polls, UNCHANGED <<kernel, lastEid, told, seenGen, serial>>,
           poll' \in [Polls -> PollStates], poll'[p].pc \in {"idle", "asked"},
           \A q \in Polls \ {p} : poll'[q] = poll[q]
    PROVE  LogTypes' /\ KernelLists' /\ SeenIsOld' /\ ListIsGood' /\ FreshIsNew'
<1> USE DEF LogInv
<1>1. UNCHANGED Base
  BY DEF Base
<1>2. LogTypes'
  BY DEF LogTypes
<1>3. KernelLists'
  BY <1>1 DEF KernelLists
<1>4. \A q \in Polls : poll'[q].pc \in {"read", "reconciling", "telling"} => poll'[q] = poll[q]
  OBVIOUS
<1>5. SeenIsOld'
  BY <1>1, <1>4 DEF SeenIsOld, Passing
<1>6. ListIsGood'
  BY <1>1, <1>4 DEF ListIsGood
<1>7. FreshIsNew'
  BY <1>4 DEF FreshIsNew, Passing
<1> QED
  BY <1>2, <1>3, <1>5, <1>6, <1>7

LEMMA IdleIsPoll == Idle \in PollStates /\ Idle.pc = "idle"
<1>1. <<>> \in Seq(Event)
  OBVIOUS
<1> QED
  BY <1>1 DEF Idle, PollStates

LEMMA PollBeginsStep == ASSUME LogInv, NEW p \in Polls, PollBegins(p) PROVE LogInv'
<1> USE DEF LogInv
<1>1. poll' = [poll EXCEPT ![p].pc = "asked"] /\ UNCHANGED <<kernel, lastEid, told, seenGen, serial>>
  BY DEF PollBegins
<1>2. poll \in [Polls -> PollStates]
  BY DEF LogTypes
<1>3. [poll[p] EXCEPT !.pc = "asked"] \in PollStates /\ [poll[p] EXCEPT !.pc = "asked"].pc = "asked"
  BY <1>2 DEF PollStates
<1>4. /\ poll' \in [Polls -> PollStates] /\ poll'[p].pc = "asked"
      /\ \A q \in Polls \ {p} : poll'[q] = poll[q]
  BY <1>1, <1>2, <1>3
<1>5. OnePoll'
  <2>1. ~busy /\ busy'
    BY DEF PollBegins
  <2>2. \A q \in Polls : poll[q].pc = "idle"
    BY <2>1 DEF OnePoll
  <2> QED
    BY <1>4, <2>1, <2>2 DEF OnePoll
<1> QED
  BY <1>1, <1>4, <1>5, QuietStep

\* The poll returns, having told nothing.
LEMMA PollReturnsStep ==
    ASSUME LogInv, NEW p \in Polls, PollReturns(p), poll[p].pc # "idle",
           UNCHANGED <<kernel, lastEid, told, seenGen, serial>>
    PROVE  LogInv'
<1> USE DEF LogInv
<1>1. poll' = [poll EXCEPT ![p] = Idle]
  BY DEF PollReturns
<1>2. poll \in [Polls -> PollStates]
  BY DEF LogTypes
<1>3. /\ poll' \in [Polls -> PollStates] /\ poll'[p].pc = "idle"
      /\ \A q \in Polls \ {p} : poll'[q] = poll[q]
  BY <1>1, <1>2, IdleIsPoll
<1>4. \A q \in Polls : poll'[q].pc = "idle"
  BY <1>3 DEF OnePoll
<1>5. OnePoll'
  BY <1>4 DEF OnePoll
<1> QED
  BY <1>3, <1>5, QuietStep

LEMMA ZpoolEventsStep == ASSUME LogInv, NEW p \in Polls, ZpoolEvents(p) PROVE LogInv'
<1> USE DEF LogInv
<1> DEFINE now == [pc |-> "read", list |-> kernel.list, gen |-> kernel.gen]
<1>1. poll' = [poll EXCEPT ![p] = now] /\ UNCHANGED <<kernel, lastEid, busy, told, seenGen, serial>> /\ poll[p].pc = "asked"
  BY DEF ZpoolEvents
<1>2. /\ poll \in [Polls -> PollStates] /\ lastEid \in Int /\ seenGen \in Nat /\ told \subseteq Nat
      /\ kernel.list \in Seq(Event) /\ kernel.gen \in Nat /\ kernel.eid \in Nat /\ Base \in Int
      /\ \A i \in DOMAIN kernel.list : kernel.list[i].eid \in Nat \ {0} /\ kernel.list[i].n \in Nat
  BY LogParts DEF LogTypes
<1>3. now \in PollStates
  BY <1>2 DEF PollStates
<1>4. /\ poll' \in [Polls -> PollStates] /\ poll'[p] = now
      /\ \A q \in Polls \ {p} : poll'[q] = poll[q]
  BY <1>1, <1>2, <1>3
<1>5. \A q \in Polls \ {p} : poll'[q].pc = "idle"
  BY <1>1, <1>4 DEF OnePoll
<1>6. UNCHANGED Base
  BY <1>1 DEF Base
<1>7. LogTypes' /\ OnePoll' /\ KernelLists'
  <2>1. LogTypes'
    BY <1>1, <1>4 DEF LogTypes
  <2>2. OnePoll'
    BY <1>1, <1>5 DEF OnePoll
  <2>3. KernelLists'
    BY <1>1, <1>6 DEF KernelLists
  <2> QED
    BY <2>1, <2>2, <2>3
<1>8. \A q \in Polls : ~Passing(q)'
  BY <1>4, <1>5 DEF Passing
<1>9. SeenIsOld' /\ FreshIsNew'
  BY <1>1, <1>6, <1>8 DEF SeenIsOld, FreshIsNew
<1>10. ListIsGood'
  <2> DEFINE s == kernel.list
  <2>1. DOMAIN s = 1 .. Len(s) /\ Len(s) \in Nat
    BY <1>2
  <2>2. \A i \in DOMAIN s : s[i].eid = kernel.eid - Len(s) + i /\ s[i].n = Base + s[i].eid
    BY DEF KernelLists
  <2>3. Rising(s)
    <3> SUFFICES ASSUME NEW i \in DOMAIN s, NEW j \in DOMAIN s, i < j PROVE s[i].eid < s[j].eid
      BY DEF Rising
    <3>1. s[i].eid = kernel.eid - Len(s) + i /\ s[j].eid = kernel.eid - Len(s) + j
      BY <2>2
    <3> QED
      BY <1>2, <2>1, <3>1
  <2>4. ASSUME NEW i \in DOMAIN s PROVE s[i].n = Base + s[i].eid /\ s[i].eid <= kernel.eid
    <3>1. i \in 1 .. Len(s) /\ s[i].eid = kernel.eid - Len(s) + i
      BY <2>1, <2>2
    <3> QED
      BY <1>2, <2>1, <2>2, <3>1
  <2>5. ASSUME seenGen = kernel.gen, s # <<>> PROVE s[Len(s)].eid >= lastEid
    <3>1. Len(s) \in DOMAIN s
      BY <1>2, <2>1, <2>5
    <3>2. s[Len(s)].eid = kernel.eid - Len(s) + Len(s)
      BY <2>2, <3>1
    <3>3. lastEid <= kernel.eid
      BY <2>5 DEF SeenIsOld
    <3> QED
      BY <1>2, <2>1, <3>2, <3>3
  <2>6. ASSUME NEW i \in DOMAIN s, seenGen = kernel.gen => s[i].eid > lastEid, NEW n \in told PROVE n < s[i].n
    <3>1. s[i].n = Base + s[i].eid /\ s[i].eid \in Nat \ {0} /\ n \in Nat
      BY <1>2, <2>2
    <3>2. IF seenGen = kernel.gen THEN n <= Base + lastEid ELSE n <= Base
      BY DEF SeenIsOld
    <3> QED
      BY <1>2, <2>6, <3>1, <3>2
  <2>7. seenGen <= kernel.gen /\ kernel.gen <= kernel.gen
    BY <1>2 DEF SeenIsOld
  <2> SUFFICES ASSUME NEW q \in Polls, poll'[q].pc = "read"
               PROVE  /\ seenGen <= kernel.gen
                      /\ q = p
    BY <1>1, <1>4, <1>6, <2>3, <2>4, <2>5, <2>6, <2>7 DEF ListIsGood
  <2> QED
    BY <1>5, <2>7
<1> QED
  BY <1>7, <1>9, <1>10

LEMMA ReconciledStep == ASSUME LogInv, NEW p \in Polls, PoolsReconciled(p) PROVE LogInv'
<1> USE DEF LogInv
<1>1. /\ poll' = [poll EXCEPT ![p].pc = "telling"] /\ poll[p].pc = "reconciling"
      /\ UNCHANGED <<kernel, lastEid, busy, told, seenGen, serial>>
  BY DEF PoolsReconciled
<1>2. poll \in [Polls -> PollStates]
  BY DEF LogTypes
<1>3. /\ [poll[p] EXCEPT !.pc = "telling"] \in PollStates /\ [poll[p] EXCEPT !.pc = "telling"].pc = "telling"
      /\ [poll[p] EXCEPT !.pc = "telling"].list = poll[p].list
  BY <1>2 DEF PollStates
<1>4. /\ poll' \in [Polls -> PollStates] /\ poll'[p].pc = "telling" /\ poll'[p].list = poll[p].list
      /\ \A q \in Polls \ {p} : poll'[q] = poll[q]
  BY <1>1, <1>2, <1>3
<1>5. UNCHANGED Base
  BY <1>1 DEF Base
<1>6. LogTypes'
  BY <1>1, <1>4 DEF LogTypes
<1>7. OnePoll'
  BY <1>1, <1>4 DEF OnePoll
<1>8. KernelLists'
  BY <1>1, <1>5 DEF KernelLists
<1>9. \A q \in Polls : Passing(q)' => Passing(q) /\ poll'[q].list = poll[q].list
  BY <1>1, <1>4 DEF Passing
<1>10. SeenIsOld' /\ FreshIsNew'
  BY <1>1, <1>5, <1>9 DEF SeenIsOld, FreshIsNew
<1>11. ListIsGood'
  BY <1>1, <1>4, <1>5 DEF ListIsGood
<1> QED
  BY <1>6, <1>7, <1>8, <1>10, <1>11

\* What is told comes from the list of the poll.
LEMMA WorthFacts == ASSUME NEW s, NEW n \in WorthOf(s) PROVE \E i \in DOMAIN s : n = s[i].n
  BY DEF WorthOf

LEMMA TellStep == ASSUME LogInv, NEW p \in Polls, Tell(p) PROVE LogInv'
<1> USE DEF LogInv
<1>1. /\ poll' = [poll EXCEPT ![p] = Idle] /\ busy' = FALSE /\ poll[p].pc = "telling"
      /\ told' = told \cup WorthOf(poll[p].list)
      /\ UNCHANGED <<kernel, lastEid, seenGen, serial>>
  BY DEF Tell, PollReturns
<1>2. poll \in [Polls -> PollStates] /\ told \subseteq Nat
  BY DEF LogTypes
<1>3. poll' \in [Polls -> PollStates] /\ \A q \in Polls : poll'[q].pc = "idle"
  BY <1>1, <1>2, IdleIsPoll DEF OnePoll
<1>4. \A q \in Polls : ~Passing(q)' /\ poll'[q].pc # "read"
  BY <1>3 DEF Passing
<1>5. UNCHANGED Base
  BY <1>1 DEF Base
<1>6. \A n \in WorthOf(poll[p].list) : n \in Nat /\ \E i \in DOMAIN poll[p].list : n = poll[p].list[i].n
  BY LogParts, WorthFacts
<1>7. LogTypes'
  BY <1>1, <1>2, <1>3, <1>6 DEF LogTypes
<1>8. OnePoll' /\ ListIsGood' /\ FreshIsNew'
  BY <1>3, <1>4 DEF OnePoll, ListIsGood, FreshIsNew
<1>9. KernelLists'
  BY <1>1, <1>5 DEF KernelLists
<1>10. SeenIsOld'
  <2>1. \A n \in told' : IF seenGen = kernel.gen THEN n <= Base + lastEid ELSE n <= Base
    <3>1. Passing(p)
      BY <1>1 DEF Passing
    <3> QED
      BY <1>1, <1>6, <3>1 DEF SeenIsOld
  <2> QED
    BY <1>1, <1>4, <1>5, <2>1 DEF SeenIsOld
<1> QED
  BY <1>7, <1>8, <1>9, <1>10

LEMMA RestartStep == ASSUME LogInv, AgentRestarts PROVE LogInv'
<1> USE DEF LogInv
<1>1. /\ lastEid' = -1 /\ busy' = FALSE /\ poll' = [p \in Polls |-> Idle] /\ told' = {} /\ seenGen' = kernel.gen
      /\ UNCHANGED <<kernel, serial>>
  BY DEF AgentRestarts
<1>2. kernel.gen \in Nat /\ kernel.eid \in Nat
  BY LogParts
<1>3. \A p \in Polls : poll'[p].pc = "idle" /\ poll'[p] \in PollStates
  BY <1>1, IdleIsPoll
<1>4. UNCHANGED Base
  BY <1>1 DEF Base
<1>5. LogTypes'
  BY <1>1, <1>2, <1>3 DEF LogTypes
<1>6. OnePoll' /\ ListIsGood' /\ FreshIsNew'
  BY <1>3 DEF OnePoll, ListIsGood, FreshIsNew, Passing
<1>7. KernelLists'
  BY <1>1, <1>4 DEF KernelLists
<1>8. SeenIsOld'
  BY <1>1, <1>2, <1>3 DEF SeenIsOld, Passing
<1> QED
  BY <1>5, <1>6, <1>7, <1>8

\* What KeepFresh finds in a good list: nothing, and the last id seen stays; or events that
\* are all newer than what was told, up to the last of the list.
LEMMA FreshFacts ==
    ASSUME LogInv, NEW p \in Polls, poll[p].pc = "read"
    PROVE  LET all == poll[p].list
               fresh == Newer(all, Since(all))
           IN  /\ fresh \in Seq(Event)
               /\ fresh = <<>> => Since(all) = lastEid
               /\ fresh # <<>> =>
                    /\ all # <<>> /\ fresh[Len(fresh)] = all[Len(all)]
                    /\ \A i \in DOMAIN fresh : /\ \E j \in DOMAIN all : fresh[i] = all[j]
                                               /\ \A n \in told : n < fresh[i].n
<1> USE DEF LogInv
<1> DEFINE all == poll[p].list
           g == poll[p].gen
           fresh == Newer(all, Since(all))
<1>1. /\ all \in Seq(Event) /\ g \in Nat /\ seenGen \in Nat /\ lastEid \in Int
      /\ \A i \in DOMAIN all : all[i].eid \in Nat \ {0} /\ all[i].n \in Nat
  BY LogParts DEF LogTypes
<1>2. /\ seenGen <= g /\ Rising(all)
      /\ seenGen = g /\ all # <<>> => all[Len(all)].eid >= lastEid
      /\ \A i \in DOMAIN all : (seenGen = g => all[i].eid > lastEid) => \A n \in told : n < all[i].n
  BY DEF ListIsGood
<1>3. all # <<>> => Len(all) \in DOMAIN all
  BY <1>1
<1>4. Since(all) = IF all # <<>> /\ all[Len(all)].eid < lastEid THEN -1 ELSE lastEid
  BY DEF Since, Last
<1>5. Since(all) \in Int
  BY <1>1, <1>4
<1> HIDE DEF all, g
<1>6. /\ fresh \in Seq(Event)
      /\ \A i \in DOMAIN fresh : \E j \in DOMAIN all : fresh[i] = all[j] /\ all[j].eid > Since(all)
      /\ fresh # <<>> => all # <<>> /\ fresh[Len(fresh)] = all[Len(all)]
      /\ fresh = <<>> => \A j \in DOMAIN all : all[j].eid <= Since(all)
  BY <1>1, <1>2, <1>5, NewerFacts
<1> HIDE DEF fresh
<1>7. ASSUME fresh = <<>> PROVE Since(all) = lastEid
  <2> SUFFICES ASSUME all # <<>>, all[Len(all)].eid < lastEid PROVE FALSE
    BY <1>4
  <2>1. Since(all) = -1
    BY <1>4
  <2>2. all[Len(all)].eid <= -1
    BY <1>3, <1>6, <1>7, <2>1
  <2> QED
    BY <1>1, <1>3, <2>2
<1>8. ASSUME NEW i \in DOMAIN fresh
      PROVE  (\E j \in DOMAIN all : fresh[i] = all[j]) /\ \A n \in told : n < fresh[i].n
  <2>1. PICK j \in DOMAIN all : fresh[i] = all[j] /\ all[j].eid > Since(all)
    BY <1>6
  <2>2. seenGen = g => Since(all) = lastEid
    <3> SUFFICES ASSUME seenGen = g, all # <<>>, all[Len(all)].eid < lastEid PROVE FALSE
      BY <1>4
    <3> QED
      BY <1>1, <1>2, <1>3
  <2>3. seenGen = g => all[j].eid > lastEid
    BY <2>1, <2>2
  <2> QED
    BY <1>2, <2>1, <2>3
<1> QED
  BY <1>6, <1>7, <1>8 DEF all, fresh

LEMMA KeepFreshStep == ASSUME LogInv, NEW p \in Polls, KeepFresh(p) PROVE LogInv'
<1> USE DEF LogInv
<1> DEFINE all == poll[p].list
           g == poll[p].gen
           fresh == Newer(all, Since(all))
<1>1. poll[p].pc = "read" /\ UNCHANGED <<kernel, told, serial>>
  BY DEF KeepFresh
<1>2. /\ fresh \in Seq(Event)
      /\ fresh = <<>> => Since(all) = lastEid
      /\ fresh # <<>> =>
           /\ all # <<>> /\ fresh[Len(fresh)] = all[Len(all)]
           /\ \A i \in DOMAIN fresh : /\ \E j \in DOMAIN all : fresh[i] = all[j]
                                      /\ \A n \in told : n < fresh[i].n
  BY <1>1, FreshFacts
<1>3. CASE fresh = <<>>
  <2>1. PollReturns(p) /\ lastEid' = lastEid /\ seenGen' = seenGen
    BY <1>2, <1>3 DEF KeepFresh
  <2> QED
    BY <1>1, <2>1, PollReturnsStep
<1>4. CASE fresh # <<>>
  <2>1. PICK step \in {"reconciling", "telling"} :
          poll' = [poll EXCEPT ![p].pc = step, ![p].list = fresh]
    BY <1>4 DEF KeepFresh
  <2>2. lastEid' = fresh[Len(fresh)].eid /\ seenGen' = g /\ UNCHANGED busy
    BY <1>4 DEF KeepFresh, Last
  <2>3. /\ all \in Seq(Event) /\ g \in Nat /\ Base \in Int /\ kernel.gen \in Nat /\ kernel.eid \in Nat
        /\ \A i \in DOMAIN all : all[i].eid \in Nat \ {0} /\ all[i].n \in Nat
        /\ poll \in [Polls -> PollStates] /\ lastEid \in Int /\ seenGen \in Nat /\ told \subseteq Nat
    BY LogParts DEF LogTypes
  <2>4. /\ seenGen <= g /\ g <= kernel.gen /\ Rising(all)
        /\ \A i \in DOMAIN all : IF g = kernel.gen THEN all[i].n = Base + all[i].eid /\ all[i].eid <= kernel.eid
                                 ELSE all[i].n <= Base
    BY <1>1 DEF ListIsGood
  <2>5. poll[p] \in PollStates
    BY <2>3
  <2> HIDE DEF all, g, fresh
  <2>6. [poll[p] EXCEPT !.pc = step, !.list = fresh] \in PollStates
        /\ [poll[p] EXCEPT !.pc = step, !.list = fresh].pc = step
        /\ [poll[p] EXCEPT !.pc = step, !.list = fresh].list = fresh
    BY <1>2, <2>5 DEF PollStates
  <2>7. /\ poll' \in [Polls -> PollStates] /\ poll'[p].pc = step /\ poll'[p].list = fresh
        /\ \A q \in Polls \ {p} : poll'[q] = poll[q]
    BY <2>1, <2>3, <2>6
  <2>8. \A q \in Polls \ {p} : poll[q].pc = "idle" /\ poll'[q].pc = "idle"
    BY <1>1, <2>7 DEF OnePoll
  <2>9. UNCHANGED Base
    BY <1>1 DEF Base
  <2>10. Len(all) \in DOMAIN all /\ fresh[Len(fresh)] = all[Len(all)] /\ lastEid' = all[Len(all)].eid
    BY <1>2, <1>4, <2>2, <2>3
  <2>11. LogTypes'
    BY <1>1, <2>2, <2>3, <2>7, <2>10 DEF LogTypes
  <2>12. OnePoll'
    BY <1>1, <2>2, <2>7, <2>8 DEF OnePoll
  <2>13. KernelLists'
    BY <1>1, <2>9 DEF KernelLists
  <2>14. \A i \in DOMAIN all : all[i].eid <= all[Len(all)].eid
    <3> SUFFICES ASSUME NEW i \in DOMAIN all PROVE all[i].eid <= all[Len(all)].eid
      OBVIOUS
    <3>1. i \in 1 .. Len(all) /\ Len(all) \in Nat
      BY <2>3
    <3>2. CASE i = Len(all)
      BY <2>3, <2>10, <3>2
    <3>3. CASE i < Len(all)
      BY <2>3, <2>4, <2>10, <3>3 DEF Rising
    <3> QED
      BY <3>1, <3>2, <3>3
  <2>15. \A i \in DOMAIN fresh : \E j \in DOMAIN all : fresh[i] = all[j]
    BY <1>2, <1>4
  <2>16. ASSUME NEW j \in DOMAIN all
         PROVE  IF g = kernel.gen THEN all[j].n <= Base + lastEid' ELSE all[j].n <= Base
    <3>1. all[j].eid <= lastEid' /\ all[j].eid \in Nat /\ lastEid' \in Nat
      BY <2>3, <2>10, <2>14
    <3> QED
      BY <2>3, <2>4, <3>1
  <2>17. ASSUME NEW n \in told
         PROVE  IF g = kernel.gen THEN n <= Base + lastEid' ELSE n <= Base
    <3>1. PICK k \in DOMAIN fresh : TRUE
      BY <1>2, <1>4
    <3>2. n < fresh[k].n
      BY <1>2, <1>4
    <3>3. PICK j \in DOMAIN all : fresh[k] = all[j]
      BY <2>15
    <3>4. n < all[j].n /\ all[j].n \in Nat /\ n \in Nat /\ lastEid' \in Nat
      BY <2>3, <2>10, <3>2, <3>3
    <3>5. IF g = kernel.gen THEN all[j].n <= Base + lastEid' ELSE all[j].n <= Base
      BY <2>16
    <3>6. Base \in Int
      BY <2>3
    <3>7. ASSUME NEW x \in Nat, NEW b \in Int, n < x, x <= b PROVE n <= b
      BY <3>4, <3>7
    <3>8. Base + lastEid' \in Int
      BY <3>4, <3>6
    <3> QED
      BY <3>4, <3>5, <3>6, <3>7, <3>8
  <2>18. g = kernel.gen => lastEid' <= kernel.eid
    BY <2>4, <2>10
  <2>19. SeenIsOld'
    BY <1>1, <2>2, <2>4, <2>7, <2>8, <2>9, <2>15, <2>16, <2>17, <2>18 DEF SeenIsOld, Passing
  <2>20. ListIsGood'
    BY <2>7, <2>8 DEF ListIsGood
  <2>21. FreshIsNew'
    BY <1>1, <1>2, <1>4, <2>7, <2>8 DEF FreshIsNew, Passing
  <2> QED
    BY <2>11, <2>12, <2>13, <2>19, <2>20, <2>21
<1> QED
  BY <1>3, <1>4

\* Every step keeps the invariant of the log.
LEMMA LogInductive == ASSUME LogInv, [LogNext]_logVars PROVE LogInv'
<1>1. ASSUME NEW p \in Polls, PollFails(p) PROVE LogInv'
  BY <1>1, PollReturnsStep DEF PollFails
<1>2. ASSUME NEW p \in Polls, Step(p) PROVE LogInv'
  BY <1>2, ZpoolEventsStep, KeepFreshStep, ReconciledStep, TellStep DEF Step
<1>3. ASSUME UNCHANGED logVars PROVE LogInv'
  <2>1. UNCHANGED <<kernel, lastEid, busy, poll, told, seenGen, serial>>
    BY <1>3 DEF logVars
  <2>2. LogTypes' /\ OnePoll'
    BY <2>1 DEF LogInv, LogTypes, OnePoll
  <2>3. KernelLists'
    BY <2>1 DEF LogInv, KernelLists, Base
  <2>4. SeenIsOld' /\ FreshIsNew'
    BY <2>1 DEF LogInv, SeenIsOld, FreshIsNew, Passing, Base
  <2>5. ListIsGood'
    BY <2>1 DEF LogInv, ListIsGood, Base
  <2> QED
    BY <2>2, <2>3, <2>4, <2>5 DEF LogInv
<1> QED
  BY <1>1, <1>2, <1>3, KernelEventStep, StartOverStep, RestartStep, PollBeginsStep DEF LogNext

\* No event is passed on twice in one life of the agent (poll in events.ts), for any
\* number of events, polls that the timer starts too early, ids that start over (whether
\* or not they overtake the last one seen), failed reads and restarts: while one poll is
\* under way no list is read that could be older than the last one seen.
THEOREM EventsToldOnce == LogSpec => ToldOnce
<1> DEFINE Once == \A p \in Polls : (poll[p].pc = "telling" /\ poll'[p] = Idle /\ told' # {})
                     => told \cap WorthOf(poll[p].list) = {}
<1>1. LogInit => LogInv
  <2> SUFFICES ASSUME LogInit PROVE LogInv
    OBVIOUS
  <2>1. /\ kernel = [list |-> <<>>, eid |-> 0, gen |-> 0] /\ lastEid = -1 /\ told = {} /\ seenGen = 0 /\ serial = 0
        /\ poll = [p \in Polls |-> Idle]
    BY DEF LogInit
  <2>2. kernel.list = <<>> /\ kernel.eid = 0 /\ kernel.gen = 0 /\ \A p \in Polls : poll[p].pc = "idle"
    BY <2>1, IdleIsPoll
  <2>3. LogTypes
    <3>1. <<>> \in Seq(Event)
      OBVIOUS
    <3> QED
      BY <2>1, <3>1, IdleIsPoll DEF LogTypes
  <2>4. OnePoll /\ KernelLists /\ SeenIsOld /\ ListIsGood /\ FreshIsNew
    BY <2>1, <2>2 DEF OnePoll, KernelLists, SeenIsOld, ListIsGood, FreshIsNew, Passing
  <2> QED
    BY <2>3, <2>4 DEF LogInv
<1>2. LogInv => Once
  <2> SUFFICES ASSUME LogInv, NEW p \in Polls, poll[p].pc = "telling", NEW n \in told, n \in WorthOf(poll[p].list)
               PROVE  FALSE
    OBVIOUS
  <2>1. PICK i \in DOMAIN poll[p].list : n = poll[p].list[i].n
    BY WorthFacts
  <2>2. n < n /\ n \in Nat
    BY <2>1 DEF LogInv, FreshIsNew, Passing, LogTypes
  <2> QED
    BY <2>2
<1>3. LogInv /\ [LogNext]_logVars => [Once]_logVars
  BY <1>2
<1>4. LogInv /\ [LogNext]_logVars => LogInv'
  BY LogInductive
<1> QED
  BY <1>1, <1>3, <1>4, PTL DEF LogSpec, ToldOnce
=============================================================================
