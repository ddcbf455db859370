------------------------------ MODULE ScanJobs ------------------------------
(***************************************************************************)
(* Scrubs and resilvers of a pool and the job rows that remember them      *)
(* (agent/src/scans.ts; pool.scrub, disk.replace and jobs in verbs.ts; the *)
(* scrub half of tick.ts; scrubDue in policy.ts; the scan rows of db.ts).  *)
(*                                                                         *)
(* ZFS runs a scan and shows the last one on the pool's scan line.  The    *)
(* agent writes a row when it has started one and closes the row the next  *)
(* time anybody looks.  Several look at once: every verb of the agent is a *)
(* thread that yields at each await, and the timer's tick is a process of  *)
(* its own on the same database.                                           *)
(***************************************************************************)
EXTENDS Naturals, Sequences

CONSTANTS
    Threads,    \* verbs of the agent in flight, and its event poll
    Tick,       \* the timer's process, never two at once
    MaxScans,   \* bound: scans of the pool
    MaxFaults   \* bound: zpool status failing, a pool too unhealthy to scrub

ASSUME ScanAssumption ==
    /\ Tick \notin Threads
    /\ MaxScans \in Nat /\ MaxFaults \in Nat

VARIABLES
    scans,      \* every scan of the pool and how it is going; the last is the scan line
    elapsed,    \* the scrub interval has passed since the last scan ended
    interval,   \* the pool's scrub policy
    jobs,       \* the scan rows of the jobs table, by id
    loc,        \* where each thread is
    todo,       \* the rows a reconcileScans still has to go through
    seen,       \* the scan line a thread has read
    mine,       \* the scan a thread has started
    faults

vars == <<scans, elapsed, interval, jobs, loc, todo, seen, mine, faults>>

Actors == Threads \cup {Tick}

\* A scan has a kind (scrub, resilver) and a state: running, clean, errors (it finished
\* with errors) or canceled.  A row has a kind, a state (running, done, failed) and, as
\* history, the scan its writer had started.

\* What parseScan makes of `zpool status', with the number of the scan it is about.
NoLine == [kind |-> "scrub", state |-> "none", no |-> 0]
Unreadable == [kind |-> "scrub", state |-> "unreadable", no |-> 0]
Line == IF scans = <<>> THEN NoLine
        ELSE LET last == scans[Len(scans)]
             IN  [kind |-> last.kind, state |-> last.state, no |-> Len(scans)]

Running == Line.state = "running"

Init ==
    /\ scans = <<>>
    /\ elapsed = FALSE
    /\ interval = "monthly"
    /\ jobs = <<>>
    /\ loc = [c \in Actors |-> "idle"]
    /\ todo = [c \in Actors |-> {}]
    /\ seen = [c \in Actors |-> NoLine]
    /\ mine = [c \in Actors |-> 0]
    /\ faults = 0

\* The agent runs one thread at a time, up to its next await: between looking for a
\* running row and inserting one, only the tick can come in.
Turn(c) == c = Tick \/ \A d \in Threads \ {c} : loc[d] # "insert"

Goto(c, step) == loc' = [loc EXCEPT ![c] = step]

----------------------------------------------------------------------------
(* ZFS.                                                                    *)

\* A scan starts; one that was running is cut short by it.
Starts(kind) ==
    /\ Len(scans) < MaxScans
    /\ scans' = Append(IF Running THEN [scans EXCEPT ![Len(scans)].state = "canceled"] ELSE scans,
                       [kind |-> kind, state |-> "running"])
    /\ elapsed' = FALSE

\* The running scan ends, or somebody stops it.
ScanEnds(how) ==
    /\ Running
    /\ scans' = [scans EXCEPT ![Len(scans)].state = how]
    /\ UNCHANGED <<elapsed, interval, jobs, loc, todo, seen, mine, faults>>

\* A disk came back: ZFS rebuilds it by itself.
AutoResilver ==
    /\ Starts("resilver")
    /\ UNCHANGED <<interval, jobs, loc, todo, seen, mine, faults>>

IntervalPasses ==
    /\ ~Running /\ ~elapsed
    /\ elapsed' = TRUE
    /\ UNCHANGED <<scans, interval, jobs, loc, todo, seen, mine, faults>>

----------------------------------------------------------------------------
(* noteScan.                                                               *)

RunningRows == {i \in DOMAIN jobs : jobs[i].state = "running"}

\* db.runningScan: a row that is still running stands for the new scan too.
NoteScan(c) ==
    /\ loc[c] = "note" /\ Turn(c)
    /\ \/ RunningRows = {} /\ Goto(c, "insert") /\ UNCHANGED mine
       \/ RunningRows # {} /\ Goto(c, "idle") /\ mine' = [mine EXCEPT ![c] = 0]
    /\ UNCHANGED <<scans, elapsed, interval, jobs, todo, seen, faults>>

\* db.startScan
StartScan(c) ==
    /\ loc[c] = "insert"
    /\ jobs' = Append(jobs, [kind |-> scans[mine[c]].kind, state |-> "running", scan |-> mine[c]])
    /\ mine' = [mine EXCEPT ![c] = 0]
    /\ Goto(c, "idle")
    /\ UNCHANGED <<scans, elapsed, interval, todo, seen, faults>>

----------------------------------------------------------------------------
(* reconcileScans, from the jobs verb, the event poll and the tick.        *)

\* Where a reconcile leaves its caller.
AfterLook(c) == IF c = Tick THEN "pools" ELSE "idle"

ListRunning(c) ==
    /\ loc[c] = "idle" /\ Turn(c)
    /\ todo' = [todo EXCEPT ![c] = RunningRows]
    /\ Goto(c, IF RunningRows = {} THEN AfterLook(c) ELSE "read")
    /\ UNCHANGED <<scans, elapsed, interval, jobs, seen, mine, faults>>

\* getPool, awaited: what it answers is a moment old when it is used.
ReadLine(c) ==
    /\ loc[c] = "read"
    /\ \/ seen' = [seen EXCEPT ![c] = Line] /\ UNCHANGED faults
       \/ faults < MaxFaults /\ faults' = faults + 1 /\ seen' = [seen EXCEPT ![c] = Unreadable]
    /\ Goto(c, "apply")
    /\ UNCHANGED <<scans, elapsed, interval, jobs, todo, mine>>

\* Mutants of Verdict: errors are not looked at; a scan of the other kind says nothing.
VerdictIgnoresErrors(job, line) ==
    IF line.kind = job.kind /\ line.state = "running" THEN job.state
    ELSE IF line.kind = job.kind /\ line.state \in {"clean", "errors"} THEN "done" ELSE "failed"
VerdictOfSameKind(job, line) ==
    IF line.kind # job.kind \/ line.state = "running" THEN job.state
    ELSE IF line.state = "clean" THEN "done" ELSE "failed"

\* What becomes of a row under a reading: it keeps its state while a scan of its
\* kind runs; otherwise finishJob writes one, whatever was there.
Verdict(job, line) ==
    IF line.kind = job.kind /\ line.state = "running" THEN job.state
    ELSE IF line.kind = job.kind /\ line.state = "clean" THEN "done" ELSE "failed"

\* The rows are gone through oldest first.
ApplyReading(c) ==
    /\ loc[c] = "apply" /\ Turn(c)
    /\ \E id \in todo[c] :
          /\ \A other \in todo[c] : id <= other
          /\ jobs' = [jobs EXCEPT ![id].state = Verdict(jobs[id], seen[c])]
          /\ todo' = [todo EXCEPT ![c] = @ \ {id}]
          /\ Goto(c, IF todo[c] = {id} THEN AfterLook(c) ELSE "read")
    /\ seen' = [seen EXCEPT ![c] = NoLine]
    /\ UNCHANGED <<scans, elapsed, interval, mine, faults>>

----------------------------------------------------------------------------
(* Starting scans.                                                         *)

\* `zpool scrub' refuses while a scan runs (and, here, past the bound).
ZpoolScrub(c) ==
    \/ /\ Running \/ Len(scans) = MaxScans
       /\ Goto(c, "idle")
       /\ UNCHANGED <<scans, elapsed, mine>>
    \/ /\ ~Running
       /\ Starts("scrub")
       /\ mine' = [mine EXCEPT ![c] = Len(scans')]
       /\ Goto(c, "note")

\* pool.scrub
PoolScrub(c) ==
    /\ c \in Threads
    /\ loc[c] = "idle" /\ Turn(c)
    /\ ZpoolScrub(c)
    /\ UNCHANGED <<interval, jobs, todo, seen, faults>>

\* disk.replace: when the pool cannot be read after `zpool replace' there is no row.
DiskReplace(c) ==
    /\ c \in Threads
    /\ loc[c] = "idle" /\ Turn(c)
    /\ Starts("resilver")
    /\ \/ Goto(c, "note") /\ mine' = [mine EXCEPT ![c] = Len(scans')] /\ UNCHANGED faults
       \/ faults < MaxFaults /\ faults' = faults + 1 /\ UNCHANGED <<loc, mine>>
    /\ UNCHANGED <<interval, jobs, todo, seen>>

\* scrub.set
SetInterval(i) ==
    /\ interval # i
    /\ interval' = i
    /\ UNCHANGED <<scans, elapsed, jobs, loc, todo, seen, mine, faults>>

\* Mutant of ScrubDue: a resilver counts as the last scrub and has no end to wait from.
ScrubDueAfterScrubOnly(line) ==
    /\ interval # "off"
    /\ line.state # "running"
    /\ line.kind = "scrub" /\ (line.state # "none" => elapsed)

\* scrubDue: `finishedAt' is there once a scrub has ended.
ScrubDue(line) ==
    /\ interval # "off"
    /\ line.state # "running"
    /\ (line.kind = "scrub" /\ line.state # "none") => elapsed

\* The tick reads the pool again after its reconcile; a pool that is not well is left
\* alone, one that cannot be read ends the tick.
TickReads ==
    /\ loc[Tick] = "pools"
    /\ \/ Goto(Tick, IF ScrubDue(Line) THEN "scrub" ELSE "idle") /\ UNCHANGED faults
       \/ faults < MaxFaults /\ faults' = faults + 1 /\ Goto(Tick, "idle")
    /\ UNCHANGED <<scans, elapsed, interval, jobs, todo, seen, mine>>

TickScrubs ==
    /\ loc[Tick] = "scrub"
    /\ ZpoolScrub(Tick)
    /\ UNCHANGED <<interval, jobs, todo, seen, faults>>

----------------------------------------------------------------------------
Act(c) ==
    \/ ListRunning(c) \/ ReadLine(c) \/ ApplyReading(c)
    \/ PoolScrub(c) \/ DiskReplace(c) \/ NoteScan(c) \/ StartScan(c)

Next ==
    \/ \E how \in {"clean", "errors", "canceled"} : ScanEnds(how)
    \/ AutoResilver \/ IntervalPasses
    \/ \E i \in {"off", "monthly"} : SetInterval(i)
    \/ \E c \in Actors : Act(c)
    \/ TickReads \/ TickScrubs

Spec == Init /\ [][Next]_vars

\* The timer fires again and again and a tick goes on to its end; commands return; a
\* scan ends in the end.
Fairness ==
    /\ WF_vars(\E how \in {"clean", "errors", "canceled"} : ScanEnds(how))
    /\ WF_vars(ListRunning(Tick))
    /\ WF_vars(TickReads) /\ WF_vars(TickScrubs)
    /\ \A c \in Actors : WF_vars(ReadLine(c) \/ ApplyReading(c) \/ NoteScan(c) \/ StartScan(c))

FairSpec == Spec /\ Fairness

----------------------------------------------------------------------------
\* A row is done only when a scan of its kind, the one it was written for or a later
\* one, finished without errors, whoever read the scan line and however long ago
\* (reconcileScans).
DoneIsTrue ==
    \A i \in DOMAIN jobs : jobs[i].state = "done" =>
        \E n \in jobs[i].scan..Len(scans) : scans[n] = [kind |-> jobs[i].kind, state |-> "clean"]

\* docs/scrubs-and-scan-jobs.md: a row is `failed with the line when errors were
\* found, it was canceled, or nothing is running any more'.
FailedIsTrue ==
    \A i \in DOMAIN jobs : jobs[i].state = "failed" =>
        \E n \in jobs[i].scan..Len(scans) :
            scans[n].kind = jobs[i].kind /\ scans[n].state \in {"errors", "canceled"}

RowRuns(i) == i \in DOMAIN jobs /\ jobs[i].state = "running"

\* No row runs forever: once its scan is over the tick's reconcile closes it, even when
\* another scan has taken its place on the line and even if nobody opens a page.
EndedIsClosed ==
    \A i \in 1..MaxScans : RowRuns(i) ~> ~RowRuns(i)

Unscrubbed ==
    /\ interval # "off" /\ ~Running
    /\ elapsed \/ Line.kind = "resilver" \/ Line.state = "none"

\* A pool whose scrub is due gets one: never scrubbed, last resilvered, or the interval
\* is over (tick.ts).
DueIsScrubbed ==
    (Unscrubbed /\ Len(scans) < MaxScans)
        ~> (Running \/ interval = "off" \/ Len(scans) = MaxScans)
=============================================================================
