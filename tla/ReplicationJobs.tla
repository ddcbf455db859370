-------------------------- MODULE ReplicationJobs --------------------------
(***************************************************************************)
(* Who runs which replication: the jobs table and the runner processes     *)
(* (agent/src/replicate.ts; the replication verbs in verbs.ts; the start   *)
(* and the end of replicate() in replication.ts; jobs in db.ts).           *)
(*                                                                         *)
(* The timer starts `replicate.ts --due' every fifteen minutes, never two  *)
(* at once; replication.run spawns `replicate.ts <id>' beside it.  All of  *)
(* them share one SQLite table and no transaction: each statement is a     *)
(* step.  A row left running by a process that is gone is failed by the    *)
(* next runner, which asks the kernel whether the row's pid is alive.      *)
(*                                                                         *)
(* What a run sends is Replication; here it is one step, "work".           *)
(***************************************************************************)
EXTENDS Naturals

CONSTANTS
    Ids,        \* replications, by number
    Timer,      \* the timer's runner
    Manual,     \* runners that replication.run can spawn
    PidReuse,   \* after a reboot a new process may have a dead runner's pid
    MaxManual,  \* bound: calls of replication.run and replication.set
    MaxCrashes  \* bound: dead runners and reboots

ASSUME JobsAssumption ==
    /\ Ids \subseteq Nat \ {0}
    /\ Timer \notin Manual
    /\ PidReuse \in BOOLEAN
    /\ MaxManual \in Nat /\ MaxCrashes \in Nat

VARIABLES
    repls,      \* the replications in the database
    due,        \* those whose schedule is up
    rows,       \* the rows of the jobs table in state running
    at,         \* where each runner is
    cur,        \* the replication a runner is at
    queue,      \* the replications a runner has listed and not tried yet
    dropped,    \* history: what the timer's last pass listed and never tried
    manual,     \* calls of replication.run and replication.set so far
    crashes

jobsVars == <<repls, due, rows, at, cur, queue, dropped, manual, crashes>>

Runners == {Timer} \cup Manual

NoId == 0

\* A running row: its replication, the runner that wrote it, and what has become of
\* the pid in it: the runner lives, it is gone, or another process has its pid.
Row(id, r) == [id |-> id, by |-> r, pid |-> "alive"]
Rows == [id : Ids, by : Runners, pid : {"alive", "gone", "reused"}]

JobsInit ==
    /\ repls = Ids
    /\ due = {}
    /\ rows = {}
    /\ at = [r \in Runners |-> "idle"]
    /\ cur = [r \in Runners |-> NoId]
    /\ queue = [r \in Runners |-> {}]
    /\ dropped = {}
    /\ manual = 0
    /\ crashes = 0

Goto(r, step) == at' = [at EXCEPT ![r] = step]

----------------------------------------------------------------------------
(* Starting a runner.                                                      *)

TimerFires ==
    /\ at[Timer] = "idle"
    /\ Goto(Timer, "reap")
    /\ UNCHANGED <<repls, due, rows, cur, queue, dropped, manual, crashes>>

\* db.runningJob
RunningJob(id) == \E row \in rows : row.id = id

\* replication.run: no runner is spawned for one that is running.
RunVerb(r, id) ==
    /\ at[r] = "idle"
    /\ manual < MaxManual
    /\ id \in repls
    /\ ~RunningJob(id)
    /\ Goto(r, "reap")
    /\ cur' = [cur EXCEPT ![r] = id]
    /\ manual' = manual + 1
    /\ UNCHANGED <<repls, due, rows, queue, dropped, crashes>>

\* Mutant of Dead: no row is ever given up.
DeadNever(row) == FALSE

\* failDeadJobs: `alive' is a signal 0 to the pid, whoever has it now.
Dead(row) == row.pid = "gone"

\* failDeadJobs, then the list of this runner's replications.
Reap(r) ==
    /\ at[r] = "reap"
    /\ rows' = {row \in rows : ~Dead(row)}
    /\ queue' = [queue EXCEPT ![r] = IF r = Timer THEN due \cap repls ELSE {cur[r]}]
    /\ dropped' = IF r = Timer THEN {} ELSE dropped
    /\ Goto(r, "next")
    /\ UNCHANGED <<repls, due, cur, manual, crashes>>

----------------------------------------------------------------------------
(* The loop over the listed replications.                                  *)

\* The next one of the list, in the order of the ids; after the last the runner exits.
NextId(r) ==
    /\ at[r] = "next"
    /\ \/ /\ queue[r] = {}
          /\ Goto(r, "idle")
          /\ UNCHANGED <<cur, queue>>
       \/ \E id \in queue[r] :
            /\ \A other \in queue[r] : id <= other
            /\ cur' = [cur EXCEPT ![r] = id]
            /\ queue' = [queue EXCEPT ![r] = @ \ {id}]
            /\ Goto(r, "check")
    /\ UNCHANGED <<repls, due, rows, dropped, manual, crashes>>

\* replicate() throws for one that was removed or runs elsewhere, and the loop has
\* no catch: the runner exits with the rest of its list untried.
Check(r) ==
    /\ at[r] = "check"
    /\ IF cur[r] \in repls /\ ~RunningJob(cur[r])
       THEN Goto(r, "start") /\ UNCHANGED <<queue, dropped>>
       ELSE /\ Goto(r, "idle")
            /\ queue' = [queue EXCEPT ![r] = {}]
            /\ dropped' = IF r = Timer THEN queue[r] ELSE dropped
    /\ UNCHANGED <<repls, due, rows, cur, manual, crashes>>

\* db.startJob, a statement of its own.
StartJob(r) ==
    /\ at[r] = "start"
    /\ rows' = rows \cup {Row(cur[r], r)}
    /\ Goto(r, "work")
    /\ UNCHANGED <<repls, due, cur, queue, dropped, manual, crashes>>

\* The run itself, well or badly, and db.finishReplication: last_run_at is set
\* either way, so the replication is not due until its period is over again.
Work(r) ==
    /\ at[r] = "work"
    /\ due' = due \ {cur[r]}
    /\ Goto(r, "finish")
    /\ UNCHANGED <<repls, rows, cur, queue, dropped, manual, crashes>>

\* Mutant of FinishJob: the row is left running.
FinishJobNot(r) ==
    /\ at[r] = "finish"
    /\ Goto(r, "next")
    /\ UNCHANGED <<repls, due, rows, cur, queue, dropped, manual, crashes>>

\* db.finishJob
FinishJob(r) ==
    /\ at[r] = "finish"
    /\ rows' = rows \ {Row(cur[r], r)}
    /\ Goto(r, "next")
    /\ UNCHANGED <<repls, due, cur, queue, dropped, manual, crashes>>

----------------------------------------------------------------------------
(* The rest of the world.                                                  *)

\* A period is over (db.lastRunAt is old enough).
BecomeDue(id) ==
    /\ id \in repls \ due
    /\ due' = due \cup {id}
    /\ UNCHANGED <<repls, rows, at, cur, queue, dropped, manual, crashes>>

\* The number SQLite gives the next row: one more than the highest there is, so that
\* the number of a removed replication may be used again.
NextRowId(id) ==
    /\ \A other \in repls : other < id
    /\ id = 1 \/ id - 1 \in repls

\* replication.set, which makes one or changes one.  With the schedule changes whether it
\* is due; a new one is, unless its schedule is manual.
SetReplication(id) ==
    /\ manual < MaxManual
    /\ id \in repls \/ NextRowId(id)
    /\ repls' = repls \cup {id}
    /\ due' \in {due \cup {id}, due \ {id}}
    /\ manual' = manual + 1
    /\ UNCHANGED <<rows, at, cur, queue, dropped, crashes>>

\* replication.remove: the row of a run under way stays.
Remove(id) ==
    /\ id \in repls
    /\ repls' = repls \ {id}
    /\ due' = due \ {id}
    /\ UNCHANGED <<rows, at, cur, queue, dropped, manual, crashes>>

\* The rows of runners that died.
Orphaned(dead, how) ==
    {IF row.by \in dead /\ row.pid = "alive" THEN [row EXCEPT !.pid = how] ELSE row : row \in rows}

\* A runner dies (killed, out of memory, its unit stopped).
RunnerDies(r) ==
    /\ at[r] # "idle"
    /\ crashes < MaxCrashes
    /\ crashes' = crashes + 1
    /\ Goto(r, "idle")
    /\ queue' = [queue EXCEPT ![r] = {}]
    /\ rows' = Orphaned({r}, "gone")
    /\ UNCHANGED <<repls, due, cur, dropped, manual>>

\* The box restarts: pids start again, and a process that stays may get one that a
\* running row names.
Reboot ==
    /\ crashes < MaxCrashes
    /\ crashes' = crashes + 1
    /\ at' = [r \in Runners |-> "idle"]
    /\ queue' = [r \in Runners |-> {}]
    /\ \E how \in IF PidReuse THEN {"gone", "reused"} ELSE {"gone"} : rows' = Orphaned(Runners, how)
    /\ UNCHANGED <<repls, due, cur, dropped, manual>>

Step(r) == Reap(r) \/ NextId(r) \/ Check(r) \/ StartJob(r) \/ Work(r) \/ FinishJob(r)

JobsNext ==
    \/ TimerFires
    \/ \E r \in Manual, id \in Ids : RunVerb(r, id)
    \/ \E r \in Runners : Step(r) \/ RunnerDies(r)
    \/ \E id \in Ids : BecomeDue(id) \/ SetReplication(id) \/ Remove(id)
    \/ Reboot

JobsSpec == JobsInit /\ [][JobsNext]_jobsVars

\* systemd starts the timer's unit again and again, and a runner that lives goes on
\* (a send has a time limit).  Nobody has to run, remove or crash anything.
FairSpec == JobsSpec /\ WF_jobsVars(TimerFires) /\ \A r \in Runners : WF_jobsVars(Step(r))

----------------------------------------------------------------------------
(* Properties.                                                             *)

TypeOK ==
    /\ repls \subseteq Ids /\ due \subseteq Ids
    /\ rows \subseteq Rows
    /\ at \in [Runners -> {"idle", "reap", "next", "check", "start", "work", "finish"}]
    /\ cur \in [Runners -> Ids \cup {NoId}]
    /\ queue \in [Runners -> SUBSET Ids]
    /\ dropped \subseteq Ids
    /\ manual \in 0 .. MaxManual /\ crashes \in 0 .. MaxCrashes

\* db.ts:484-496 and replication.ts:240-315.  A row says `running' under a live
\* runner's pid exactly while that runner is at that replication: no runner's row is
\* given up by another's failDeadJobs while it works, and none is left behind by a
\* runner that has moved on, whatever way its run ended.
RowIffWorking ==
    \A r \in Runners, id \in Ids :
        Row(id, r) \in rows <=> at[r] \in {"work", "finish"} /\ cur[r] = id

\* replicate.ts:25-62 and db.ts:484.  A replication that is due is run before long:
\* a row left by a dead runner does not block it, nor does an aborted pass.
DueIsRun == \A id \in Ids : id \in due ~> id \notin due

\* replicate.ts:3-5.  `--due' runs every scheduled replication that is due: a pass
\* that ends tries each one it listed.
PassIsComplete == dropped = {}

=============================================================================
