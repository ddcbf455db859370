------------------------------- MODULE Alerts -------------------------------
(***************************************************************************)
(* What is wrong with the box right now (agent/src/alerts.ts; the alerts   *)
(* table in db.ts; alert.ack in verbs.ts; the timer and the event hook in  *)
(* index.ts).                                                              *)
(*                                                                         *)
(* An evaluation awaits its readings of pools and disks, then, in one go,  *)
(* reads the open alerts and the database, works out the difference and    *)
(* writes it.  Nothing keeps the timer's evaluation and one that a ZFS     *)
(* event asked for apart.                                                  *)
(*                                                                         *)
(* A gauge is a reading with two thresholds (a pool's fullness: 90 and 88, *)
(* a disk's temperature: 55 and 50).  What an alert says, how loud it is   *)
(* and when it was last seen are left out: nothing is decided by them.     *)
(***************************************************************************)
EXTENDS Naturals, Sequences

CONSTANTS
    Evaluators,     \* evaluations that may be in flight together
    Gauges,         \* keys of readings that are held: pool:*:full, disk:*:temp
    Readings,       \* keys of plain readings: pool:*:state, disk:*:smart
    Settings,       \* keys of results in the database: backup, replication, update
    ScanKey,        \* scan:<pool>
    Window,         \* how many scan rows are looked at (20)
    Month,          \* how long a cleared alert is kept
    MaxTime,        \* bound: the clock
    MaxActs         \* bound: changes of the box and readings that fail

ASSUME AlertsAssumption ==
    /\ Window \in Nat \ {0}
    /\ Month \in Nat /\ MaxTime \in Nat /\ MaxActs \in Nat
    /\ ScanKey \notin Gauges \cup Readings \cup Settings

VARIABLES
    level,      \* where each gauge is
    bad,        \* the plain conditions that are true
    history,    \* how the pool's scans ended, the newest last
    alerts,     \* the alerts table, by key
    clock,
    loc,        \* where each evaluation is
    read,       \* what an evaluation has read, and when it began
    lasting,    \* history: keys whose condition has held since the raise, and for which no reading
                \* from before the condition was waiting to be applied at the raise
    acts        \* changes and failures so far

vars == <<level, bad, history, alerts, clock, loc, read, lasting, acts>>

Keys == Gauges \cup Readings \cup Settings \cup {ScanKey}
Levels == {"low", "held", "high"}

\* A row is none, open or cleared; the acknowledgement is the time of it, 0 without.
NoAlert == [state |-> "none", since |-> 0, acked |-> 0, cleared |-> 0]

NoReading == [at |-> 0, level |-> [g \in Gauges |-> "low"], bad |-> {}]

IsOpen(k) == alerts[k].state = "open"

Init ==
    /\ level = [g \in Gauges |-> "low"]
    /\ bad = {}
    /\ history = <<>>
    /\ alerts = [k \in Keys |-> NoAlert]
    /\ clock = 1
    /\ loc = [e \in Evaluators |-> "idle"]
    /\ read = [e \in Evaluators |-> NoReading]
    /\ lasting = {}
    /\ acts = 0

----------------------------------------------------------------------------
(* The box.                                                                *)

Act == acts < MaxActs /\ acts' = acts + 1

\* A gauge moves to the next level up or down.
Moves(g, l) ==
    /\ level[g] # l /\ "held" \in {level[g], l}
    /\ Act
    /\ level' = [level EXCEPT ![g] = l]
    /\ lasting' = IF l = "low" THEN lasting \ {g} ELSE lasting
    /\ UNCHANGED <<bad, history, alerts, clock, loc, read>>

\* A pool degrades, a disk starts to fail, a backup or a replication fails; or it is well again.
Breaks(k) ==
    /\ k \notin bad
    /\ Act
    /\ bad' = bad \cup {k}
    /\ UNCHANGED <<level, history, alerts, clock, loc, read, lasting>>

Mends(k) ==
    /\ k \in bad
    /\ Act
    /\ bad' = bad \ {k}
    /\ lasting' = lasting \ {k}
    /\ UNCHANGED <<level, history, alerts, clock, loc, read>>

\* A scan row is closed (ScanJobs).
ScanCloses(result) ==
    /\ Act
    /\ history' = Append(history, result)
    /\ lasting' = IF result = "done" THEN lasting \ {ScanKey} ELSE lasting
    /\ UNCHANGED <<level, bad, alerts, clock, loc, read>>

TimePasses ==
    /\ clock < MaxTime
    /\ clock' = clock + 1
    /\ UNCHANGED <<level, bad, history, alerts, loc, read, lasting, acts>>

----------------------------------------------------------------------------
(* conditions and reconcile: what is true, from a reading and the database. *)

\* Mutant of GaugeRaised: no hysteresis.
GaugeRaisedAtLine(g, l) == l = "high"

\* Once raised a gauge is held until it is below its lower threshold.
GaugeRaised(g, l) == l = "high" \/ (l = "held" /\ IsOpen(g))

\* db.scanJobs(undefined, 20), any of them failed.
ScanFailed == \E i \in DOMAIN history : i + Window > Len(history) /\ history[i] = "failed"

Conditions(r) ==
    {g \in Gauges : GaugeRaised(g, r.level[g])} \cup r.bad \cup (bad \cap Settings)
        \cup {k \in {ScanKey} : ScanFailed}

----------------------------------------------------------------------------
(* evaluate.                                                               *)

StartEvaluation(e) ==
    /\ loc[e] = "idle"
    /\ loc' = [loc EXCEPT ![e] = "reading"]
    /\ read' = [read EXCEPT ![e] = [NoReading EXCEPT !.at = clock]]
    /\ UNCHANGED <<level, bad, history, alerts, clock, lasting, acts>>

\* listPools and listDisks; when one fails the evaluation is given up.
TakeReadings(e) ==
    /\ loc[e] = "reading"
    /\ \/ /\ read' = [read EXCEPT ![e].level = level, ![e].bad = bad \cap Readings]
          /\ loc' = [loc EXCEPT ![e] = "apply"]
          /\ UNCHANGED acts
       \/ /\ Act
          /\ read' = [read EXCEPT ![e] = NoReading]
          /\ loc' = [loc EXCEPT ![e] = "idle"]
    /\ UNCHANGED <<level, bad, history, alerts, clock, lasting>>

\* Mutant of Raise: a raise keeps the acknowledgement the row had.
RaiseKeepsAck(row, now) ==
    [row EXCEPT !.state = "open", !.since = now, !.cleared = 0]

\* applyAlerts, one key at a time: a raise starts the row over, an update or a touch
\* keeps its date and its acknowledgement (the text is new), a clear leaves them as
\* history.
Raise(row, now) ==
    [state |-> "open", since |-> now, acked |-> 0, cleared |-> 0]
Update(row, now) == row
\* Mutant of Clear: it is forgotten.
ClearNot(row, now) == row
Clear(row, now) == [row EXCEPT !.state = "cleared", !.cleared = now]

Reconciled(k, r) ==
    LET row == alerts[k]
    IN  IF k \in Conditions(r)
        THEN IF IsOpen(k) THEN Update(row, r.at) ELSE Raise(row, r.at)
        ELSE IF IsOpen(k) THEN Clear(row, r.at) ELSE row

\* pruneAlerts
Pruned(row, now) == row.state = "cleared" /\ row.cleared + Month < now

\* The condition is over: a gauge is below its lower threshold, the last scan was clean.
Over(k) ==
    \/ k \in Gauges /\ level[k] = "low"
    \/ k \in (Readings \cup Settings) \ bad
    \/ k = ScanKey /\ (history = <<>> \/ history[Len(history)] = "done")

\* A reading from before the condition of k. (Settings and scans are read when they are applied.)
Before(k, r) == (k \in Gauges /\ r.level[k] = "low") \/ k \in Readings \ r.bad
Overtaken(k, e) == \E f \in Evaluators \ {e} : loc[f] = "apply" /\ Before(k, read[f])

\* Everything after the await, without a break.
Evaluate(e) ==
    /\ loc[e] = "apply"
    /\ LET r == read[e]
           row(k) == Reconciled(k, r)
       IN  /\ alerts' = [k \in Keys |-> IF Pruned(row(k), r.at) THEN NoAlert ELSE row(k)]
           /\ lasting' = lasting \cup {k \in Conditions(r) : ~IsOpen(k) /\ ~Over(k) /\ ~Overtaken(k, e)}
    /\ loc' = [loc EXCEPT ![e] = "idle"]
    /\ read' = [read EXCEPT ![e] = NoReading]
    /\ UNCHANGED <<level, bad, history, clock, acts>>

\* alert.ack
Ack(k) ==
    /\ IsOpen(k) /\ alerts[k].acked = 0
    /\ alerts' = [alerts EXCEPT ![k].acked = clock]
    /\ UNCHANGED <<level, bad, history, clock, loc, read, lasting, acts>>

----------------------------------------------------------------------------
Run(e) == StartEvaluation(e) \/ TakeReadings(e) \/ Evaluate(e)

Next ==
    \/ \E g \in Gauges, l \in Levels : Moves(g, l)
    \/ \E k \in Readings \cup Settings : Breaks(k) \/ Mends(k)
    \/ \E result \in {"done", "failed"} : ScanCloses(result)
    \/ TimePasses
    \/ \E e \in Evaluators : Run(e)
    \/ \E k \in Keys : Ack(k)

Spec == Init /\ [][Next]_vars

\* The timer asks for an evaluation every five minutes, and commands return.
Fairness ==
    \A e \in Evaluators : WF_vars(Run(e))

FairSpec == Spec /\ Fairness

----------------------------------------------------------------------------
\* docs/alerts.md: "`since' stays put while the condition lasts", and an
\* acknowledgement with it: while the condition has held without a gap since the alert
\* was raised, no step closes the alert, dates it anew or forgets that it was seen,
\* however evaluations overlap, unless one of them had read the box before the condition
\* was there and came to apply it after the raise.  A gauge between its thresholds still
\* holds: it never flaps.
SinceKept ==
    [][\A k \in lasting :
        IsOpen(k) => /\ alerts'[k].state = "open"
                     /\ alerts'[k].since = alerts[k].since
                     /\ alerts[k].acked # 0 => alerts'[k].acked = alerts[k].acked]_vars

\* docs/alerts.md: "If it clears and happens again, the acknowledgement is gone": the
\* acknowledgement of an open alert was given to this raise and not to an earlier one.
AckIsForThis == \A k \in Keys : IsOpen(k) /\ alerts[k].acked # 0 => alerts[k].acked >= alerts[k].since

Wrong(k) ==
    \/ k \in Gauges /\ level[k] = "high"
    \/ k \in bad
    \/ k = ScanKey /\ ScanFailed
Right(k) == Over(k) /\ (k = ScanKey => ~ScanFailed)

Disagrees(k) == (Wrong(k) /\ ~IsOpen(k)) \/ (Right(k) /\ IsOpen(k))

\* What is wrong and stays wrong is said, and what is over and stays over is taken
\* back, although readings fail and are old when they are used; a failed scan once clean
\* ones have pushed it out of the window (evaluate, scanJobs).
Settles == \A k \in Keys : Disagrees(k) ~> ~Disagrees(k)

\* docs/alerts.md: scan:<pool> is open when "the last scrub or resilver did not come
\* back clean"; a later one that did takes it back.
ScanIsLast == Over(ScanKey) ~> (~IsOpen(ScanKey) \/ ~Over(ScanKey))
=============================================================================
