------------------------------ MODULE SelfTests ------------------------------
(***************************************************************************)
(* The disks' SMART self-tests: the timer starts a long one, at night, on  *)
(* the first disk that is due (tick.ts, disks.ts), people start short and  *)
(* long ones (smart.test), and the disk runs, ends and logs them itself.   *)
(*                                                                         *)
(* Power-on hours count in steps of a night or a day; Due stands for the   *)
(* 720 hours.                                                              *)
(***************************************************************************)
EXTENDS Naturals

CONSTANTS N,         \* the disks are 1 .. N, in lsblk's order
          Unable,    \* disks that say they cannot run self-tests
          Refusing,  \* disks that do not say so and never start one
          NoHours,   \* disks whose read tells no power-on hours: due whenever no test runs
          Sleepers,  \* disks that go into standby
          Due,
          MaxCalls, MaxCuts \* bounds: calls of smart.test; tests cut short

Disks == 1 .. N

ASSUME SelfTestsAssumption ==
  /\ N \in Nat /\ Due \in Nat \ {0} /\ Due >= 2 * N  \* more nights than disks until a disk is due again
  /\ MaxCalls \in Nat /\ MaxCuts \in Nat
  /\ Unable \cup Refusing \cup NoHours \cup Sleepers \subseteq Disks

VARIABLES test,   \* what each disk runs
          log,    \* the newest long test in its log: how long ago, and whether it ran to its end
          asleep,
          night,  \* in the hours for long tests, and whether the timer has fired in them
          tick,   \* the timer's run: where it is, and at which disk
          call,   \* the smart.test under way
          calls, cuts

vars == <<test, log, asleep, night, tick, call, calls, cuts>>
disk == <<test, log, asleep>>

Never == Due + 1  \* the age of a long test that is not in the log
Idle  == [at |-> "idle", d |-> 0, kind |-> "none"]

Init == /\ test = [d \in Disks |-> "none"]
        /\ log = [d \in Disks |-> [age |-> Never, whole |-> FALSE]]
        /\ asleep = [d \in Disks |-> FALSE] /\ night = [now |-> FALSE, ticked |-> FALSE]
        /\ tick = Idle /\ call = Idle
        /\ calls = 0 /\ cuts = 0
----------------------------------------------------------------------------
(* What a read of the disk says *)

parseSelfTests(d) == [running |-> test[d], last |-> log[d], supported |-> d \notin Unable]

\* Any long test in the log counts, one that was cut short as well.
longTestDue(d) == LET read == parseSelfTests(d)
                  IN read.running = "none" /\ read.supported /\ (read.last.age >= Due \/ d \in NoHours)
----------------------------------------------------------------------------
(* The timer *)

selfTestWindow == night.now

TickBegins ==
  /\ tick = Idle /\ selfTestWindow
  /\ tick' = [Idle EXCEPT !.at = "read", !.d = 1]
  /\ night' = [night EXCEPT !.ticked = TRUE]
  /\ UNCHANGED <<disk, call, calls, cuts>>

Onward(d) == IF d = N THEN Idle ELSE [Idle EXCEPT !.at = "read", !.d = d + 1]

\* The first disk read ends the tick, due or not.
TickReadsFirst(d) ==
  /\ tick.at = "read" /\ tick.d = d /\ ~asleep[d]
  /\ tick' = IF longTestDue(d) THEN [tick EXCEPT !.at = "start"] ELSE Idle
  /\ UNCHANGED <<disk, night, call, calls, cuts>>

TickReads(d) ==
  /\ tick.at = "read" /\ tick.d = d /\ ~asleep[d]
  /\ tick' = IF longTestDue(d) THEN [tick EXCEPT !.at = "start"] ELSE Onward(d)
  /\ UNCHANGED <<disk, night, call, calls, cuts>>

\* In standby the disk is left asleep; a read can also give nothing.
TickReadsNothing(d) ==
  /\ tick.at = "read" /\ tick.d = d
  /\ tick' = Onward(d)
  /\ UNCHANGED <<disk, night, call, calls, cuts>>

\* smartctl -t: the disk takes a test when none runs.
Accepts(d) == test[d] = "none" /\ d \notin Unable \cup Refusing

TickStarts(d) ==
  /\ tick.at = "start" /\ tick.d = d /\ Accepts(d)
  /\ test' = [test EXCEPT ![d] = "long"] /\ asleep' = [asleep EXCEPT ![d] = FALSE]
  /\ tick' = Idle
  /\ UNCHANGED <<log, night, call, calls, cuts>>

\* One disk a tick: the loop ends here as well.
TickStartFails(d) ==
  /\ tick.at = "start" /\ tick.d = d
  /\ tick' = Idle
  /\ UNCHANGED <<disk, night, call, calls, cuts>>
----------------------------------------------------------------------------
(* smart.test *)

\* The detail read does not spare a disk in standby.
getSmart(d) == asleep' = [asleep EXCEPT ![d] = FALSE]

CallReads(d, kind) ==
  /\ call = Idle /\ calls < MaxCalls /\ calls' = calls + 1
  /\ LET read == parseSelfTests(d) IN
       call' = IF read.supported /\ read.running = "none" THEN [at |-> "start", d |-> d, kind |-> kind] ELSE Idle
  /\ getSmart(d)
  /\ UNCHANGED <<test, log, night, tick, cuts>>

CallStarts ==
  /\ call.at = "start"
  /\ test' = IF Accepts(call.d) THEN [test EXCEPT ![call.d] = call.kind] ELSE test
  /\ getSmart(call.d)
  /\ call' = Idle
  /\ UNCHANGED <<log, night, tick, calls, cuts>>
----------------------------------------------------------------------------
(* The disks and the clock *)

Logs(d, whole) == log' = IF test[d] = "long" THEN [log EXCEPT ![d] = [age |-> 0, whole |-> whole]] ELSE log

TestEnds(d) ==
  /\ test[d] # "none"
  /\ Logs(d, TRUE)
  /\ test' = [test EXCEPT ![d] = "none"]
  /\ UNCHANGED <<asleep, night, tick, call, calls, cuts>>

\* A restart, or a loss of power.
TestCut(d) ==
  /\ test[d] # "none" /\ cuts < MaxCuts /\ cuts' = cuts + 1
  /\ Logs(d, FALSE)
  /\ test' = [test EXCEPT ![d] = "none"]
  /\ UNCHANGED <<asleep, night, tick, call, calls>>

Sleeps(d) ==
  /\ d \in Sleepers /\ test[d] = "none"
  /\ asleep' = [asleep EXCEPT ![d] = ~@]
  /\ UNCHANGED <<test, log, night, tick, call, calls, cuts>>

\* The timer fires sixteen times in a night.
Clock ==
  /\ night.now => night.ticked /\ tick = Idle
  /\ night' = [now |-> ~night.now, ticked |-> FALSE]
  /\ log' = [d \in Disks |-> [log[d] EXCEPT !.age = IF @ < Due THEN @ + 1 ELSE @]]
  /\ UNCHANGED <<test, asleep, tick, call, calls, cuts>>

Next == \/ TickBegins
        \/ \E d \in Disks : TickReads(d) \/ TickReadsNothing(d) \/ TickStarts(d) \/ TickStartFails(d)
        \/ \E d \in Disks, kind \in {"short", "long"} : CallReads(d, kind)
        \/ CallStarts
        \/ \E d \in Disks : TestEnds(d) \/ TestCut(d) \/ Sleeps(d)
        \/ Clock

\* The timer fires through every night and its run goes on; a read or a start that is tried for ever works at times;
\* a test ends.
Fairness == /\ SF_vars(Clock) /\ SF_vars(TickBegins)
            /\ WF_vars(CallStarts \/ \E d \in Disks : TickReadsNothing(d) \/ TickStartFails(d))
            /\ \A d \in Disks : SF_vars(TickReads(d))
            /\ \A d \in Disks \ Unable : SF_vars(TickStarts(d)) /\ WF_vars(TestEnds(d))

Spec == Init /\ [][Next]_vars /\ Fairness
----------------------------------------------------------------------------
\* Every disk that can run self-tests and does not sleep has, again and again, a long one that ran to its end and is
\* not yet due again: whatever the others do, although each tick starts at most one and always looks from the first
\* disk on, and although a test cut short counts like a finished one (the loop of tick.ts, longTestDue).
EventuallyTested ==
  \A d \in Disks \ (Unable \cup Refusing \cup Sleepers) : []<>(log[d].whole /\ log[d].age < Due)
=============================================================================
