------------------------------- MODULE Backup -------------------------------
(***************************************************************************)
(* The settings backup and its restore (backup.ts, restore-finish.ts, the  *)
(* row config_backup of db.ts, the tick's backup, and tunnel.ts, which     *)
(* writes the same .env).  A run builds mk-nas-config.new, swaps it for    *)
(* mk-nas-config by two renames and takes a snapshot.  A restore copies    *)
(* the files beside the live ones and leaves the rest to a finisher that   *)
(* stops the services first.                                                *)
(*                                                                         *)
(* A file is known by the run that wrote it: 0 is this box's own, and run  *)
(* numbers are used again after Rounds.  The ssh key, known_hosts and the   *)
(* netplan file go the way of the drive's .env and are not told apart.      *)
(***************************************************************************)
EXTENDS Naturals, Sequences

CONSTANTS Order,      \* the databases of a backup, in the order they are copied
          Optional,   \* those a backup may lack
          Passdb,     \* the one that is imported, Samba's passwords
          Runners,    \* who runs backups: "tick", "verb" (in the agent), the update runner
          Keep,       \* snapshots kept
          OneAtATime, \* backups, restores and changes of the .env do not overlap
          Rounds, MaxRestores, MaxFaults \* bounds: numbers of runs; restores; failures and deaths between two backups that end well

Files == {Order[i] : i \in 1 .. Len(Order)}

ASSUME BackupAssumption ==
  /\ Order \in Seq(STRING) /\ Order # <<>>
  /\ Files \cap {"token", "image"} = {}  \* the names of databases, not keys of the .env
  /\ Keep \in Nat \ {0} /\ Rounds \in Nat \ {0} /\ MaxFaults \in Nat /\ MaxRestores \in Nat
  /\ OneAtATime \in BOOLEAN

VARIABLES row,      \* config_backup: "none" when no dataset is chosen, "due" before the first run and after 20 hours
          dir, new, old, \* mk-nas-config and its neighbours
          snaps,    \* the config- snapshots, oldest first
          run,      \* the number of the newest run
          at,       \* where each runner is
          live,     \* databases, and two keys of the .env: which run each was restored from
          staged,   \* the .restore files
          restore, finish, tunnel, \* backup.restore, its finisher, tunnel.set or tunnel.remove
          services, \* whether the agent and the drive run: "up", "down", or "lost"
          restores, faults

vars == <<row, dir, new, old, snaps, run, at, live, staged, restore, finish, tunnel, services, restores, faults>>
trees == <<dir, new, old>>
box   == <<live, staged, restore, finish, tunnel, services, restores>>

Idle   == [pc |-> "idle"]
Rows   == {"none", "due", "recent"}
NoTree == [there |-> FALSE, files |-> {}, manifest |-> {}]
Empty  == [NoTree EXCEPT !.there = TRUE]

\* All of one run, and the manifest says so.
Whole(t) == /\ t.there
            /\ \E n \in 1 .. Rounds : \E fs \in SUBSET Files :
                 /\ t.manifest = {fs}
                 /\ t.files = {<<f, n>> : f \in fs}

Init == /\ row = "none"
        /\ dir = NoTree /\ new = NoTree /\ old = NoTree
        /\ snaps = <<>>
        /\ run = 0
        /\ at = [r \in Runners |-> Idle]
        /\ live = [f \in Files \cup {"token", "image"} |-> 0]
        /\ staged = [f \in Files |-> 0]
        /\ restore = Idle /\ finish = Idle /\ tunnel = Idle
        /\ services = "up"
        /\ restores = 0 /\ faults = 0

Alone == OneAtATime => /\ \A r \in Runners : at[r] = Idle
                       /\ restore = Idle /\ finish = Idle /\ tunnel = Idle
----------------------------------------------------------------------------
(* backup.set and runBackup *)

\* A dataset that was not the chosen one starts with no history.
SetConfigBackup == row' = IF row = "none" THEN "due" ELSE "none"

SetBackup ==
  /\ services = "up"
  /\ SetConfigBackup
  /\ UNCHANGED <<trees, snaps, run, at, box, faults>>

\* backupDue, for the tick; anybody else runs one at any time.
TimePasses ==
  /\ row = "recent"
  /\ row' = "due"
  /\ UNCHANGED <<trees, snaps, run, at, box, faults>>

\* The tick asks whether one is due, and a failed one is only a failed tick.
Asked(r) == r = "tick" => row = "due"

Begin(r) ==
  /\ at[r] = Idle /\ Alone /\ row # "none" /\ Asked(r)
  /\ run' = (run % Rounds) + 1
  /\ at' = [at EXCEPT ![r] = [pc |-> "rm .new", run |-> run', i |-> 1, lists |-> {}]]
  /\ UNCHANGED <<row, trees, snaps, box, faults>>

Step(r, from, to) == at[r].pc = from /\ at' = [at EXCEPT ![r].pc = to]

\* Mutant: what a run that was killed has left is not cleared away.
ClearNewNot(r) ==
  /\ Step(r, "rm .new", "mkdir")
  /\ UNCHANGED <<row, trees, snaps, run, box, faults>>

ClearNew(r) ==
  /\ Step(r, "rm .new", "mkdir")
  /\ new' = NoTree
  /\ UNCHANGED <<row, dir, old, snaps, run, box, faults>>

MakeNew(r) ==
  /\ Step(r, "mkdir", "copy") /\ ~new.there
  /\ new' = Empty
  /\ UNCHANGED <<row, dir, old, snaps, run, box, faults>>

\* VACUUM INTO, or a copy: the file as it is at one moment.
Copied(t, f, n) == [t EXCEPT !.files = {e \in @ : e[1] # f} \cup {<<f, n>>}]

\* Mutant: the exit code of pdbedit is not looked at.
CopyListsAll(r) ==
  /\ at[r].pc = "copy" /\ at[r].i <= Len(Order) /\ new.there
  /\ LET f == Order[at[r].i] IN
     /\ \/ new' = Copied(new, f, at[r].run)
        \/ f \in Optional /\ UNCHANGED new
     /\ at' = [at EXCEPT ![r].i = @ + 1, ![r].lists = @ \cup {f}]
  /\ UNCHANGED <<row, dir, old, snaps, run, box, faults>>

\* One that is not there, or that pdbedit does not export, is not listed.
Copy(r) ==
  /\ at[r].pc = "copy" /\ at[r].i <= Len(Order) /\ new.there
  /\ LET f == Order[at[r].i] IN
     \/ /\ new' = Copied(new, f, at[r].run)
        /\ at' = [at EXCEPT ![r].i = @ + 1, ![r].lists = @ \cup {f}]
     \/ /\ f \in Optional
        /\ at' = [at EXCEPT ![r].i = @ + 1]
        /\ UNCHANGED new
  /\ UNCHANGED <<row, dir, old, snaps, run, box, faults>>

WriteManifest(r) ==
  /\ Step(r, "copy", "rm .old")
  /\ at[r].i > Len(Order) /\ new.there
  /\ new' = [new EXCEPT !.manifest = {at[r].lists}]
  /\ UNCHANGED <<row, dir, old, snaps, run, box, faults>>

ClearOld(r) ==
  /\ \/ Step(r, "rm .old", "set aside")
     \/ Step(r, "rm .old again", "snapshot")
  /\ old' = NoTree
  /\ UNCHANGED <<row, dir, new, snaps, run, box, faults>>

\* Mutant: the old directory is removed rather than renamed.
SetAsideForGood(r) ==
  /\ Step(r, "set aside", "swap in")
  /\ dir' = NoTree
  /\ UNCHANGED <<row, new, old, snaps, run, box, faults>>

SetAside(r) ==
  /\ Step(r, "set aside", "swap in")
  /\ IF dir.there THEN ~old.there /\ old' = dir /\ dir' = NoTree ELSE UNCHANGED <<dir, old>>
  /\ UNCHANGED <<row, new, snaps, run, box, faults>>

SwapIn(r) ==
  /\ Step(r, "swap in", "rm .old again")
  /\ new.there /\ ~dir.there
  /\ dir' = new /\ new' = NoTree
  /\ UNCHANGED <<row, old, snaps, run, box, faults>>

TakeSnapshot(r) ==
  /\ Step(r, "snapshot", "prune")
  /\ snaps' = Append(snaps, dir)
  /\ UNCHANGED <<row, trees, run, box, faults>>

Newest(s) == IF Len(s) > Keep THEN SubSeq(s, Len(s) - Keep + 1, Len(s)) ELSE s

\* recordConfigBackup, the same for good and bad; an UPDATE: nothing when the row is gone by now.
Record == row' = IF row = "none" THEN row ELSE "recent"

Prune(r) ==
  /\ at[r].pc = "prune"
  /\ at' = [at EXCEPT ![r] = Idle]
  /\ snaps' = Newest(snaps)
  /\ Record
  /\ faults' = 0
  /\ UNCHANGED <<trees, run, box>>

\* What another run did to the directories makes a step fail.
Stuck(r) == \/ at[r].pc = "mkdir" /\ new.there
            \/ at[r].pc = "copy" /\ ~new.there
            \/ at[r].pc = "set aside" /\ dir.there /\ old.there
            \/ at[r].pc = "swap in" /\ (dir.there \/ ~new.there)

\* A command fails or a disk is full (also a second snapshot in one minute, which has the
\* first one's name): the run is over and its failure is in the row.
RunFails(r) ==
  /\ at[r] # Idle
  /\ \/ Stuck(r) /\ UNCHANGED faults
     \/ faults < MaxFaults /\ faults' = faults + 1
  /\ at' = [at EXCEPT ![r] = Idle]
  /\ Record
  /\ UNCHANGED <<trees, snaps, run, box>>

Crash(r) ==
  /\ at[r] # Idle /\ faults < MaxFaults
  /\ faults' = faults + 1
  /\ at' = [at EXCEPT ![r] = Idle]
  /\ UNCHANGED <<row, trees, snaps, run, box>>
----------------------------------------------------------------------------
(* backup.restore: every source is opened before anything is written *)

backups == <<row, trees, snaps, run, at>>

\* The databases in their order, Samba's passwords last.
First(f, fs) == /\ f \in fs
                /\ IF f = Passdb THEN fs = {f}
                   ELSE \A i, j \in 1 .. Len(Order) : Order[i] = f /\ Order[j] \in fs \ {Passdb} => i <= j

\* No manifest, or one that cannot be read: no backup.
ReadManifest(t) == IF t.there THEN t.manifest ELSE {}

\* What an earlier restore that failed has left beside the live files (kept for the property only).
Strays == {f \in Files : staged[f] # 0}

RestoreBegin ==
  /\ services = "up" /\ restore = Idle /\ Alone /\ restores < MaxRestores
  /\ restores' = restores + 1
  /\ \E fs \in ReadManifest(dir) :
       /\ Order[1] \in fs
       /\ restore' = [pc |-> "open", todo |-> fs, lists |-> fs, opened |-> {}, was |-> live, strays |-> Strays]
  /\ UNCHANGED <<backups, live, staged, finish, tunnel, services, faults>>

RestoreOpen ==
  /\ restore.pc = "open" /\ restore.todo # {}
  /\ \E e \in dir.files : /\ First(e[1], restore.todo)
                          /\ restore' = [restore EXCEPT !.todo = @ \ {e[1]}, !.opened = @ \cup {e}]
  /\ UNCHANGED <<backups, live, staged, finish, tunnel, services, restores, faults>>

\* Mutant: a file that is staged already is taken for staged.
WriteNoFollowOnce(e) == staged' = [staged EXCEPT ![e[1]] = IF @ = 0 THEN e[2] ELSE @]

\* Filled beside its place and renamed over it.
WriteNoFollow(e) == staged' = [staged EXCEPT ![e[1]] = e[2]]

RestoreStage ==
  /\ restore.pc \in {"open", "stage"} /\ restore.todo = {} /\ restore.opened # {}
  /\ \E e \in restore.opened :
       /\ First(e[1], {o[1] : o \in restore.opened})
       /\ WriteNoFollow(e)
       /\ restore' = [restore EXCEPT !.pc = "stage", !.opened = @ \ {e}]
  /\ UNCHANGED <<backups, live, finish, tunnel, services, restores, faults>>

\* mergeDriveEnv: of the backup's keys only those on the list, and only with a value that passes.
Allowed == {"token"}
MergeDriveEnv(n) == \E keys \in SUBSET Allowed : live' = [k \in DOMAIN live |-> IF k \in keys THEN n ELSE live[k]]

RestoreEnv ==
  /\ restore.pc = "stage" /\ restore.todo = {} /\ restore.opened = {}
  /\ MergeDriveEnv(staged[Order[1]])
  /\ finish' = [pc |-> "stop", lists |-> restore.lists, was |-> restore.was, strays |-> restore.strays]
  /\ restore' = Idle
  /\ UNCHANGED <<backups, staged, tunnel, services, restores, faults>>

\* A source that is not there, or a write that fails: what is staged stays.
RestoreFails ==
  /\ restore # Idle
  /\ \/ /\ restore.pc = "open" /\ UNCHANGED faults
        /\ \E f \in restore.todo : \A e \in dir.files : e[1] # f
     \/ faults < MaxFaults /\ faults' = faults + 1
  /\ restore' = Idle
  /\ UNCHANGED <<backups, live, staged, finish, tunnel, services, restores>>
----------------------------------------------------------------------------
(* restore-finish.ts *)

Stop ==
  /\ finish.pc = "stop"
  /\ finish' = [finish EXCEPT !.pc = "swap"]
  /\ services' = "down"
  /\ restore' = Idle /\ tunnel' = Idle
  /\ at' = [r \in Runners |-> IF r = "verb" THEN Idle ELSE at[r]]
  /\ UNCHANGED <<row, trees, snaps, run, live, staged, restores, faults>>

\* The two databases by rename; Samba's passwords by pdbedit, when the manifest has them.
Swappable == {f \in Files : staged[f] # 0 /\ (f = Passdb => f \in finish.lists)}

\* The row of the backup is in the first of them, and is then what it was when that was copied.
Swap(f) ==
  /\ finish.pc = "swap" /\ First(f, Swappable)
  /\ live' = [live EXCEPT ![f] = staged[f]]
  /\ staged' = [staged EXCEPT ![f] = 0]
  /\ row' \in IF f = Order[1] THEN Rows ELSE {row}
  /\ UNCHANGED <<trees, snaps, run, at, restore, finish, tunnel, services, restores, faults>>

\* The share files are written from the restored table (module Shares), then all is started.
StartAgain ==
  /\ finish.pc = "swap" /\ Swappable = {}
  /\ services' = "up"
  /\ finish' = Idle
  /\ UNCHANGED <<backups, live, staged, restore, tunnel, restores, faults>>

\* A command or a file operation fails, the stop halfway through perhaps.
FinishFails ==
  /\ finish.pc \in {"stop", "swap"} /\ faults < MaxFaults
  /\ faults' = faults + 1
  /\ finish' = [finish EXCEPT !.pc = "catch"]
  /\ services' \in {services, "down"}
  /\ UNCHANGED <<backups, live, staged, restore, tunnel, restores>>

\* Mutant: a finisher that fails just ends.
CatchEnds ==
  /\ finish.pc = "catch"
  /\ finish' = Idle
  /\ UNCHANGED <<backups, live, staged, restore, tunnel, services, restores, faults>>

\* Whatever happened, the services must not stay down.
Catch ==
  /\ finish.pc = "catch"
  /\ services' = "up"
  /\ finish' = Idle
  /\ UNCHANGED <<backups, live, staged, restore, tunnel, restores, faults>>

\* The audit line before the start cannot be written, and that throws; or the start fails, and nobody
\* looks.  Services that were down are lost then: nothing but a hand or a reboot brings them back.
CatchFails ==
  /\ finish.pc = "catch"
  /\ services' = IF services = "down" THEN "lost" ELSE services
  /\ finish' = Idle
  /\ UNCHANGED <<backups, live, staged, restore, tunnel, restores, faults>>
----------------------------------------------------------------------------
(* tunnel.set and tunnel.remove: the .env is read, changed in one key, and written whole *)

TunnelRead ==
  /\ services = "up" /\ tunnel = Idle /\ Alone
  /\ tunnel' = [pc |-> "write", image |-> live["image"]]
  /\ UNCHANGED <<backups, live, staged, restore, finish, services, restores, faults>>

WriteEnv ==
  /\ tunnel.pc = "write"
  /\ live' = [live EXCEPT !["token"] = 0, !["image"] = tunnel.image]
  /\ tunnel' = Idle
  /\ UNCHANGED <<backups, staged, restore, finish, services, restores, faults>>

RunStep(r) == \/ ClearNew(r) \/ MakeNew(r) \/ Copy(r) \/ WriteManifest(r) \/ ClearOld(r)
              \/ SetAside(r) \/ SwapIn(r) \/ TakeSnapshot(r) \/ Prune(r)
RestoreStep == RestoreOpen \/ RestoreStage \/ RestoreEnv \/ RestoreFails
FinishStep == Stop \/ StartAgain \/ Catch \/ \E f \in Files : Swap(f)

Next == \/ SetBackup \/ TimePasses
        \/ \E r \in Runners : Begin(r) \/ RunStep(r) \/ RunFails(r) \/ Crash(r)
        \/ RestoreBegin \/ RestoreStep \/ FinishStep \/ FinishFails \/ CatchFails
        \/ TunnelRead \/ WriteEnv

\* The timer fires and processes go on; nobody has to ask for a restore.  A restore and a
\* tunnel.set in flight end.  Strong for the tick, whose start the other operations put off.
Fairness == /\ SF_vars(Begin("tick")) /\ WF_vars(TimePasses)
            /\ \A r \in Runners : WF_vars(RunStep(r) \/ RunFails(r))
            /\ WF_vars(RestoreStep) /\ WF_vars(FinishStep) /\ WF_vars(WriteEnv)

Spec == Init /\ [][Next]_vars /\ Fairness
----------------------------------------------------------------------------
(* Properties *)

\* While runs do not overlap: what restore reads, and every snapshot of it, is one whole backup
\* under its own manifest, through failed commands and dying processes at any step (runBackup:
\* "a fresh directory built next to the old one, swapped in whole").
DirIsWhole == /\ dir.there => Whole(dir)
              /\ \A i \in 1 .. Len(snaps) : Whole(snaps[i])

\* After the first backup one whole backup is always in the dataset's own tree, also after a
\* crash between the two renames and during the run that clears up after it, as long as that
\* run is not killed as well (MaxFaults = 1; with 2 TLC finds the run that removes the last one).
SomeWhole == snaps # <<>> => \E t \in {dir, new, old} : Whole(t)

\* A restore that ends well puts back the databases of one backup, those its manifest lists, also
\* over what an earlier restore that failed has left staged, and leaves the others and this box's
\* image alone (restoreBackup, restore-finish.ts).  Not said of a drive's database that was left
\* staged and that the manifest does not list: the finisher moves that into place as well.
RestoredIsBackup ==
  [][/\ live'["image"] = live["image"]
     /\ StartAgain => \E n \in 1 .. Rounds : \A f \in Files :
          /\ f \in finish.lists => live'[f] = n
          /\ f \notin finish.lists /\ (f = Passdb \/ f \notin finish.strays) => live'[f] = finish.was[f]]_vars

\* A backup that is switched on comes about, and comes back after a crash between the renames,
\* since a run that was killed leaves the row due and a failed one is due again (backupDue).
BackedUp == row # "none" ~> (Whole(dir) \/ row = "none")

\* "Whatever happened, the services must not stay down" (restore-finish.ts): whichever command of
\* the finisher fails, and however far the stop came, they are started again.  They are lost only
\* when its catch fails as well, which the comment forgets and the code does not look at.
ServicesReturn == services = "down" ~> services # "down"
============================================================================
