------------------------------ MODULE Updates ------------------------------
(***************************************************************************)
(* Updates from the box: the daily question for the newest release, the    *)
(* verbs update, update.check and update.install, and the install runner   *)
(* (updates.ts, update.ts, the rows update_check and update_runs of db.ts, *)
(* install/load-image.sh).                                                  *)
(*                                                                         *)
(* A release is its number in Releases.  What was downloaded is known by   *)
(* the release whose genuine files it is, Alien when the maintainer signed *)
(* none of it.  dpkg's own steps, the restarts its postinst does included, *)
(* are one step.                                                            *)
(***************************************************************************)
EXTENDS Naturals, Sequences, FiniteSets

CONSTANTS Releases,   \* [version |-> <<x, y, z>>, drive |-> the drive it pins], oldest first
          Pids,       \* install runners
          OneAtATime, \* nobody asks for an install between another's spawn and its row
          PidReuse,   \* after a reboot a process that stays may have a dead runner's pid
          MaxMoves, MaxFaults \* bounds: releases made, moved or signed; failures, deaths, foreign downloads

R    == 1 .. Len(Releases)
None == 0
Alien == 0

ASSUME UpdatesAssumption ==
  /\ Len(Releases) \in Nat \ {0}  \* the first is installed
  /\ \A r \in R : Releases[r].version \in Nat \X Nat \X Nat
  /\ None \notin Pids /\ OneAtATime \in BOOLEAN /\ PidReuse \in BOOLEAN /\ MaxMoves \in Nat /\ MaxFaults \in Nat

VARIABLES hub,    \* GitHub: the latest release, and those that carry a signature
          check,  \* update_check: the release last seen, whether it was signed, whether a day has passed
          answer, \* what GitHub told each of the two askers and is not yet written down
          box,    \* the package, the agent that runs (None: restarting), docker's drives, the one load-image.sh
                  \* wrote the ID of, the waiting tgz, whether the drive is up
          dir,    \* each release's download directory
          rows, last, \* each runner's newest row of update_runs, and whose is the newest
          proc,   \* the runners
          taken,  \* pids of theirs that another process has since the last reboot
          moves, faults

vars  == <<hub, check, answer, box, dir, rows, last, proc, taken, moves, faults>>
table == <<rows, last>>

Drive(r) == Releases[r].drive
Gone     == [pc |-> "gone", rel |-> None, hash |-> Alien]
NoFiles  == [there |-> FALSE, sums |-> Alien, deb |-> Alien]
NoAnswer == [latest |-> None, signed |-> FALSE]

\* a > b, part by part, as numbers.
Newer(a, b) == LET x == Releases[a].version  y == Releases[b].version
               IN  \E i \in 1 .. 3 : x[i] > y[i] /\ \A j \in 1 .. i - 1 : x[j] = y[j]

Init == /\ hub = [latest |-> 1, signed |-> {1}]
        /\ check = [latest |-> None, signed |-> FALSE, due |-> TRUE]
        /\ answer = [w \in {"tick", "verb"} |-> NoAnswer]
        /\ \E image \in {"none", Drive(1)} : \* before 0.8.1 no ID was written
             box = [pkg |-> 1, agent |-> 1, docker |-> {Drive(1)}, image |-> image, tgz |-> "none", drive |-> "up"]
        /\ dir = [r \in R |-> NoFiles]
        /\ rows = [p \in Pids |-> [rel |-> None, state |-> "none"]]
        /\ last = None
        /\ proc = [p \in Pids |-> Gone]
        /\ taken = {}
        /\ moves = 0 /\ faults = 0

Fault == faults < MaxFaults /\ faults' = faults + 1
----------------------------------------------------------------------------
(* GitHub, and asking it *)

\* A release is published, or withdrawn so that another is the latest, or signed.
HubMoves ==
  /\ moves < MaxMoves /\ moves' = moves + 1
  /\ \E r \in R, also \in {{}, R} :
       hub' = [latest |-> r, signed |-> hub.signed \cup ({r} \cap also)]
  /\ hub' # hub
  /\ UNCHANGED <<check, answer, box, dir, table, proc, taken, faults>>

DayPasses ==
  /\ ~check.due
  /\ check' = [check EXCEPT !.due = TRUE]
  /\ UNCHANGED <<hub, answer, box, dir, table, proc, taken, moves, faults>>

\* The latest release and its release.json; signed only when the checksums and their signature are there too.
Answered == [latest |-> hub.latest, signed |-> hub.latest \in hub.signed]

\* The timer asks when a day has passed, update.check at any time; GitHub answers.
FetchLatest(w) ==
  /\ answer[w] = NoAnswer
  /\ IF w = "tick" THEN check.due ELSE box.agent # None
  /\ answer' = [answer EXCEPT ![w] = Answered]
  /\ UNCHANGED <<hub, check, box, dir, table, proc, taken, moves, faults>>

\* What was found is written down; a failed check keeps what the last one found.
RecordCheck(w) ==
  /\ answer[w] # NoAnswer
  /\ answer' = [answer EXCEPT ![w] = NoAnswer]
  /\ \/ check' = [latest |-> answer[w].latest, signed |-> answer[w].signed, due |-> FALSE] /\ UNCHANGED faults
     \/ check' = [check EXCEPT !.due = FALSE] /\ Fault
  /\ UNCHANGED <<hub, box, dir, table, proc, taken, moves>>
----------------------------------------------------------------------------
(* The verbs *)

\* kill(pid, 0): any process with that pid will do.
Alive(p) == proc[p] # Gone \/ p \in taken

\* Mutant: rows of runners that died stay as they are.
FailDeadNever == rows

\* Rows of runners that are gone are failed.
FailDead == [p \in Pids |-> IF rows[p].state = "running" /\ ~Alive(p) THEN [rows[p] EXCEPT !.state = "failed"] ELSE rows[p]]

\* Every read of the update page writes those down.
ReadUpdate ==
  /\ box.agent # None
  /\ rows # FailDead /\ rows' = FailDead
  /\ UNCHANGED <<hub, check, answer, box, dir, last, proc, taken, moves, faults>>

\* The newest release the box knows of, signed, newer than the agent that answers, and no install running.
Installable(table_) ==
  /\ check.latest # None
  /\ Newer(check.latest, box.agent)
  /\ check.signed
  /\ last # None => table_[last].state # "running"

UpdateInstall(p) ==
  /\ box.agent # None
  /\ Installable(FailDead)
  /\ OneAtATime => \A q \in Pids : proc[q].pc # "spawned"
  /\ ~Alive(p)
  /\ rows' = FailDead
  /\ proc' = [proc EXCEPT ![p] = [Gone EXCEPT !.pc = "spawned", !.rel = check.latest]]
  /\ UNCHANGED <<hub, check, answer, box, dir, last, taken, moves, faults>>
----------------------------------------------------------------------------
(* The runner *)

At(p, pc)  == proc[p].pc = pc
Goto(p, pc) == proc' = [proc EXCEPT ![p].pc = pc]

StartRun(p) ==
  /\ At(p, "spawned") /\ Goto(p, "clear")
  /\ rows' = [rows EXCEPT ![p] = [rel |-> proc[p].rel, state |-> "running"]]
  /\ last' = p
  /\ UNCHANGED <<hub, check, answer, box, dir, taken, moves, faults>>

ClearDir(p) ==
  /\ At(p, "clear") /\ Goto(p, "download")
  /\ dir' = [dir EXCEPT ![proc[p].rel] = NoFiles]
  /\ UNCHANGED <<hub, check, answer, box, table, taken, moves, faults>>

\* What a download can bring: the file of that name of any release, or anything else.
Downloads == hub.signed \cup {Alien}

\* SHA256SUMS with its signature and release.json (sums) and the package (deb), hashed as it is written.
Download(p) ==
  LET r == proc[p].rel IN
  /\ At(p, "download")
  /\ \E sums, deb \in Downloads :
       /\ IF sums = r /\ deb = r THEN UNCHANGED faults ELSE Fault
       /\ dir' = [dir EXCEPT ![r] = [there |-> TRUE, sums |-> sums, deb |-> deb]]
       /\ proc' = [proc EXCEPT ![p].pc = "verify", ![p].hash = deb]
  /\ UNCHANGED <<hub, check, answer, box, table, taken, moves>>

\* Mutant: a package with the checksum of a signed release will do, whichever it is.
VerifiedAny(r, sums, hash) == sums # Alien /\ hash = sums

\* The signature holds, the checksums are the downloaded files', release.json names this release.
Verified(r, sums, hash) == sums # Alien /\ hash = sums /\ sums = r

Verify(p) ==
  /\ At(p, "verify")
  /\ LET d == dir[proc[p].rel]
     IN  Goto(p, IF d.there /\ Verified(proc[p].rel, d.sums, proc[p].hash) THEN "image" ELSE "failed")
  /\ UNCHANGED <<hub, check, answer, box, dir, table, taken, moves, faults>>

\* docker has it under the ID load-image.sh wrote down; one from anywhere else does not count.
VerifiedImageOnBox(r) == box.image = Drive(r) /\ Drive(r) \in box.docker

\* The drive's image: nothing to do when load-image.sh loaded it here, else downloaded, compared with
\* the signed checksum, and copied to where load-image.sh looks.
FetchImage(p) ==
  /\ At(p, "image")
  /\ IF VerifiedImageOnBox(proc[p].rel)
       THEN Goto(p, "backup") /\ UNCHANGED box
       ELSE Goto(p, "copying") /\ box' = [box EXCEPT !.tgz = "part"]
  /\ UNCHANGED <<hub, check, answer, dir, table, taken, moves, faults>>

CopyImage(p) ==
  /\ At(p, "copying") /\ Goto(p, "backup")
  /\ box' = [box EXCEPT !.tgz = Drive(proc[p].rel)]
  /\ UNCHANGED <<hub, check, answer, dir, table, taken, moves, faults>>

BackUp(p) ==
  /\ At(p, "backup") /\ Goto(p, "apt")
  /\ UNCHANGED <<hub, check, answer, box, dir, table, taken, moves, faults>>

\* load-image.sh: the waiting file is loaded when it is the one the package pins, and goes either way.
Loads(b) == b.tgz \in {"none", Drive(b.pkg)}
Load(b)  == IF b.tgz = Drive(b.pkg)
              THEN [b EXCEPT !.tgz = "none", !.image = b.tgz, !.docker = @ \cup {b.tgz}]
              ELSE [b EXCEPT !.tgz = "none"]

\* mk-drive.service: load-image.sh, then the stack, which needs the image.
StartDrive(b) == [Load(b) EXCEPT !.drive = IF Loads(b) /\ Drive(b.pkg) \in Load(b).docker THEN "up" ELSE "down"]

\* apt-get install -y of the file in the directory: never a downgrade.  postinst restarts the agent, and
\* the drive when what it pins has changed.
Apt(p) ==
  LET deb == dir[proc[p].rel].deb
      b   == [box EXCEPT !.pkg = deb, !.agent = None]
  IN
  /\ At(p, "apt")
  /\ IF ~dir[proc[p].rel].there \/ (deb # Alien /\ Newer(box.pkg, deb))
       THEN Goto(p, "failed") /\ UNCHANGED <<box, faults>>
       ELSE /\ Goto(p, "load")
            /\ IF deb = Alien \/ (Drive(deb) = Drive(box.pkg) /\ box.drive = "up") THEN box' = b /\ UNCHANGED faults
               ELSE \/ box' = StartDrive(b) /\ UNCHANGED faults
                    \/ box' = [b EXCEPT !.drive = "down"] /\ Fault \* docker fails; postinst goes on
  /\ UNCHANGED <<hub, check, answer, dir, table, taken, moves>>

\* Mutant: a waiting image is left to the drive's next start.
LoadWaitingNot(p) ==
  /\ At(p, "load") /\ Goto(p, "wait")
  /\ UNCHANGED <<hub, check, answer, box, dir, table, taken, moves, faults>>

\* When the pin did not change the drive was not restarted: a waiting image is loaded anyway.
LoadWaiting(p) ==
  /\ At(p, "load") /\ Goto(p, IF Loads(box) THEN "wait" ELSE "failed")
  /\ box' = Load(box)
  /\ UNCHANGED <<hub, check, answer, dir, table, taken, moves, faults>>

\* Until the installed agent is this release's and runs, or two minutes have passed.
WaitForAgent(p) ==
  /\ At(p, "wait")
  /\ IF box.pkg = proc[p].rel /\ box.agent # None THEN Goto(p, "done") ELSE Goto(p, "failed")
  /\ UNCHANGED <<hub, check, answer, box, dir, table, taken, moves, faults>>

\* Any step that runs a command or a download can fail.
StepFails(p) ==
  /\ proc[p].pc \in {"download", "image", "copying", "backup", "apt", "load"}
  /\ Goto(p, "failed") /\ Fault
  /\ UNCHANGED <<hub, check, answer, box, dir, table, taken, moves>>

\* The downloads go either way, and then the row is closed.
RemoveDir(p) ==
  /\ proc[p].pc \in {"done", "failed"}
  /\ Goto(p, IF At(p, "done") THEN "close done" ELSE "close failed")
  /\ dir' = [dir EXCEPT ![proc[p].rel] = NoFiles]
  /\ UNCHANGED <<hub, check, answer, box, table, taken, moves, faults>>

FinishRun(p) ==
  /\ proc[p].pc \in {"close done", "close failed"}
  /\ rows' = [rows EXCEPT ![p].state = IF At(p, "close done") THEN "done" ELSE "failed"]
  /\ proc' = [proc EXCEPT ![p] = Gone]
  /\ UNCHANGED <<hub, check, answer, box, dir, last, taken, moves, faults>>

Step(p) == \/ StartRun(p) \/ ClearDir(p) \/ Download(p) \/ Verify(p) \/ FetchImage(p) \/ CopyImage(p) \/ BackUp(p)
           \/ Apt(p) \/ LoadWaiting(p) \/ WaitForAgent(p) \/ RemoveDir(p) \/ FinishRun(p)
----------------------------------------------------------------------------
(* What happens around them *)

AgentStarts ==
  /\ box.agent = None
  /\ box' = [box EXCEPT !.agent = box.pkg]
  /\ UNCHANGED <<hub, check, answer, dir, table, proc, taken, moves, faults>>

RunnerDies(p) ==
  /\ proc[p] # Gone
  /\ proc' = [proc EXCEPT ![p] = Gone]
  /\ Fault
  /\ UNCHANGED <<hub, check, answer, box, dir, table, taken, moves>>

\* Every process is gone; the drive starts with the box.
Reboot ==
  /\ proc' = [p \in Pids |-> Gone]
  /\ taken' \in IF PidReuse THEN SUBSET Pids ELSE {{}}
  /\ answer' = [w \in DOMAIN answer |-> NoAnswer]
  /\ box' = [StartDrive(box) EXCEPT !.agent = None]
  /\ Fault
  /\ UNCHANGED <<hub, check, dir, table, moves>>

Next == \/ HubMoves \/ DayPasses \/ ReadUpdate \/ AgentStarts \/ Reboot
        \/ \E w \in {"tick", "verb"} : FetchLatest(w) \/ RecordCheck(w)
        \/ \E p \in Pids : UpdateInstall(p) \/ Step(p) \/ StepFails(p) \/ RunnerDies(p)

\* The timer comes round, systemd starts the agent again, a runner goes on, and somebody presses Install.
Fairness == /\ WF_vars(DayPasses) /\ WF_vars(FetchLatest("tick")) /\ WF_vars(RecordCheck("tick"))
            /\ WF_vars(AgentStarts)
            /\ \A p \in Pids : WF_vars(Step(p))
            /\ WF_vars(\E p \in Pids : UpdateInstall(p))

Spec == Init /\ [][Next]_vars /\ Fairness
----------------------------------------------------------------------------
(* Properties *)

\* A package that comes onto the box is the one the maintainer signed for the release that was asked
\* for, and newer than the one it replaces: whatever was downloaded, whatever an earlier run left, and
\* whatever GitHub calls the latest by then.
InstalledIsSigned == [][box'.pkg # box.pkg =>
                          /\ box'.pkg \in hub.signed /\ Newer(box'.pkg, box.pkg)
                          /\ rows[last] = [rel |-> box'.pkg, state |-> "running"]]_vars

\* A run closed as done did what it says: its release is installed, and the drive it pins is the one
\* load-image.sh loaded, with nothing left waiting.
DoneIsInstalled == [][\A p \in Pids : (rows'[p].state = "done" /\ rows[p].state # "done") =>
                   /\ box.pkg = rows[p].rel
                   /\ box.image = Drive(box.pkg) /\ box.tgz = "none"]_vars

\* When releases stop moving and the latest is signed, a box whose owner keeps asking ends with it or
\* something newer, whatever died or failed on the way, unless another process got a dead runner's pid
\* (PidReuse): its row then counts as running and every install is refused.
UpToDate == \A r \in R : <>[](hub.latest = r /\ r \in hub.signed) => <>[](box.pkg = r \/ Newer(box.pkg, r))
=============================================================================
