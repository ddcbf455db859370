---------------------------- MODULE UpdatesProofs ----------------------------
(***************************************************************************)
(* What gets onto the box, for any releases, any number of runners, faults *)
(* and moves of the hub, while nobody asks for an install between another  *)
(* install's spawn and its row (OneAtATime).  The argument: one runner at  *)
(* a time is alive and its row is the newest and running, so nobody else   *)
(* touches the files it has verified or the package it compared with.      *)
(***************************************************************************)
EXTENDS Updates, TLAPS

PCs == {"gone", "spawned", "clear", "download", "verify", "image", "copying", "backup", "apt",
        "load", "wait", "done", "failed", "close done", "close failed"}

TypeOK ==
  /\ hub \in [latest : R, signed : SUBSET R]
  /\ check \in [latest : R \cup {None}, signed : BOOLEAN, due : BOOLEAN]
  /\ answer \in [{"tick", "verb"} -> [latest : R \cup {None}, signed : BOOLEAN]]
  /\ box = [pkg |-> box.pkg, agent |-> box.agent, docker |-> box.docker, image |-> box.image,
            tgz |-> box.tgz, drive |-> box.drive]
  /\ box.pkg \in R /\ (box.agent # None => box.agent = box.pkg)
  /\ dir \in [R -> [there : BOOLEAN, sums : R \cup {Alien}, deb : R \cup {Alien}]]
  /\ rows \in [Pids -> [rel : R \cup {None}, state : {"none", "running", "done", "failed"}]]
  /\ last \in Pids \cup {None}
  /\ proc \in [Pids -> [pc : PCs, rel : R \cup {None}, hash : R \cup {Alien}]]

BeforeApt == {"spawned", "clear", "download", "verify", "image", "copying", "backup", "apt"}

\* A runner is gone, or at a step of the install of some release; then its row is the newest.
Rowed(p) ==
  /\ IF proc[p].pc = "gone" THEN proc[p] = Gone ELSE proc[p].rel \in R
  /\ proc[p].pc \notin {"gone", "spawned"} => last = p /\ rows[p] = [rel |-> proc[p].rel, state |-> "running"]

\* The release it was asked for is newer than the package until it has installed it.
Fresh(p) == proc[p].pc \in BeforeApt => Newer(proc[p].rel, box.pkg)

\* What is in the directory is what was hashed, and after the verification it is the release's own.
Checked(p) == LET r == proc[p].rel IN
  /\ proc[p].pc = "verify" => dir[r].deb = proc[p].hash /\ dir[r].sums \in hub.signed \cup {Alien}
  /\ proc[p].pc \in {"image", "copying", "backup", "apt"} =>
       dir[r] = [there |-> TRUE, sums |-> r, deb |-> r] /\ r \in hub.signed

\* The drive of the release waits or is loaded before the package comes, and is loaded after.
Imaged(p) == LET d == Drive(proc[p].rel) IN
  /\ proc[p].pc \in {"backup", "apt"} => box.image = d \/ box.tgz = d
  /\ proc[p].pc = "load" => box.pkg = proc[p].rel /\ (box.image = d \/ box.tgz = d)
  /\ proc[p].pc \in {"wait", "done", "close done"} => box.image = d /\ box.tgz = "none"
  /\ proc[p].pc \in {"done", "close done"} => box.pkg = proc[p].rel

Runner(p) == Rowed(p) /\ Fresh(p) /\ Checked(p) /\ Imaged(p)

\* At most one runner is alive.
Single == \A p, q \in Pids : proc[p].pc # "gone" /\ proc[q].pc # "gone" => p = q

IInv == TypeOK /\ Single /\ \A p \in Pids : Runner(p)
----------------------------------------------------------------------------
(* Helpers *)

BoxShape(b) == b = [pkg |-> b.pkg, agent |-> b.agent, docker |-> b.docker, image |-> b.image,
                    tgz |-> b.tgz, drive |-> b.drive]

\* load-image.sh leaves the package alone, takes the waiting file away, and has loaded it when it is the
\* one the package pins.
LEMMA LoadFacts ==
  ASSUME NEW b, BoxShape(b)
  PROVE  /\ BoxShape(Load(b)) /\ Load(b).pkg = b.pkg /\ Load(b).agent = b.agent /\ Load(b).tgz = "none"
         /\ b.image = Drive(b.pkg) \/ b.tgz = Drive(b.pkg) => Load(b).image = Drive(b.pkg)
<1>1. CASE b.tgz = Drive(b.pkg)
  BY <1>1 DEF BoxShape, Load
<1>2. CASE b.tgz # Drive(b.pkg)
  BY <1>2 DEF BoxShape, Load
<1>. QED
  BY <1>1, <1>2

\* So does the start of the drive.
LEMMA StartDriveFacts ==
  ASSUME NEW b, BoxShape(b)
  PROVE  LET c == StartDrive(b) IN
         /\ BoxShape(c) /\ c.pkg = b.pkg /\ c.agent = b.agent /\ c.tgz = "none"
         /\ b.image = Drive(b.pkg) \/ b.tgz = Drive(b.pkg) => c.image = Drive(b.pkg)
<1>. DEFINE l == Load(b)
            how == IF Loads(b) /\ Drive(b.pkg) \in Load(b).docker THEN "up" ELSE "down"
<1>1. /\ BoxShape(l) /\ l.pkg = b.pkg /\ l.agent = b.agent /\ l.tgz = "none"
      /\ b.image = Drive(b.pkg) \/ b.tgz = Drive(b.pkg) => l.image = Drive(b.pkg)
  BY LoadFacts
<1>2. StartDrive(b) = [l EXCEPT !.drive = how]
  BY DEF StartDrive
<1>. HIDE DEF l, how
<1>. QED
  BY <1>1, <1>2 DEF BoxShape

\* A runner that is there at all is not Gone, and the other way round; its pid counts as alive.
LEMMA AliveFacts ==
  ASSUME NEW p \in Pids, Rowed(p)
  PROVE  (proc[p] # Gone <=> proc[p].pc # "gone") /\ (proc[p].pc # "gone" => Alive(p))
BY DEF Rowed, Alive, Gone

\* A step of the one runner: nobody else is there, so only its own part of the invariant is to be shown.
LEMMA OwnStep ==
  ASSUME IInv, NEW p \in Pids, proc[p].pc # "gone", TypeOK', Runner(p)',
         \A q \in Pids \ {p} : proc'[q] = proc[q]
  PROVE  IInv'
<1>1. ASSUME NEW q \in Pids, q # p PROVE proc[q] = Gone /\ proc'[q] = Gone
  BY <1>1 DEF IInv, Single, Runner, Rowed
<1>2. ASSUME NEW q \in Pids, q # p PROVE Runner(q)'
  <2>1. proc'[q] = Gone /\ proc'[q].pc = "gone"
    BY <1>1, <1>2 DEF Gone
  <2>. QED
    BY <2>1 DEF Runner, Rowed, Fresh, Checked, Imaged, BeforeApt
<1>3. Single'
  BY <1>1 DEF Single, Gone
<1>. QED
  BY <1>2, <1>3 DEF IInv

\* A step beside the runners: what they rely on is as it was.
LEMMA Aside ==
  ASSUME IInv, TypeOK', UNCHANGED <<proc, dir, last>>, hub.signed \subseteq hub'.signed,
         box'.pkg = box.pkg, box'.image = box.image, box'.tgz = box.tgz,
         \A q \in Pids : proc[q].pc # "gone" => rows'[q] = rows[q]
  PROVE  IInv'
<1>1. ASSUME NEW q \in Pids PROVE Runner(q)'
  <2>0. Runner(q)
    BY DEF IInv
  <2>1. Rowed(q)'
    BY <2>0 DEF Runner, Rowed
  <2>2. Fresh(q)'
    BY <2>0 DEF Runner, Fresh
  <2>3. Checked(q)'
    BY <2>0 DEF Runner, Checked
  <2>4. Imaged(q)'
    BY <2>0 DEF Runner, Imaged
  <2>. QED
    BY <2>1, <2>2, <2>3, <2>4 DEF Runner
<1>2. Single'
  BY DEF IInv, Single
<1>. QED
  BY <1>1, <1>2 DEF IInv

\* When every runner is gone there is nothing to show of them.
LEMMA NobodyThere ==
  ASSUME TypeOK', \A q \in Pids : proc'[q] = Gone
  PROVE  IInv'
<1>1. ASSUME NEW q \in Pids PROVE proc'[q] = Gone /\ proc'[q].pc = "gone"
  BY DEF Gone
<1>2. ASSUME NEW q \in Pids PROVE Runner(q)'
  BY <1>1 DEF Runner, Rowed, Fresh, Checked, Imaged, BeforeApt
<1>. QED
  BY <1>1, <1>2 DEF IInv, Single
----------------------------------------------------------------------------
(* The actions *)

\* Before anything happens.
LEMMA InitIInv == Init => IInv
<1> SUFFICES ASSUME Init PROVE IInv
  OBVIOUS
<1>0. 1 \in R /\ R \subseteq Nat
  BY UpdatesAssumption DEF R
<1>1. TypeOK
  <2>1. PICK image : box = [pkg |-> 1, agent |-> 1, docker |-> {Drive(1)}, image |-> image, tgz |-> "none", drive |-> "up"]
    BY DEF Init
  <2>2. /\ box = [pkg |-> box.pkg, agent |-> box.agent, docker |-> box.docker, image |-> box.image,
                  tgz |-> box.tgz, drive |-> box.drive]
        /\ box.pkg = 1 /\ box.agent = 1
    BY <2>1
  <2>. QED
    BY <1>0, <2>2 DEF Init, TypeOK, NoAnswer, NoFiles, Gone, PCs, None, Alien
<1>2. ASSUME NEW q \in Pids PROVE proc[q] = Gone /\ proc[q].pc = "gone"
  BY DEF Init, Gone
<1>3. ASSUME NEW q \in Pids PROVE Runner(q)
  BY <1>2 DEF Runner, Rowed, Fresh, Checked, Imaged, BeforeApt
<1>. QED
  BY <1>1, <1>2, <1>3 DEF IInv, Single

\* GitHub moves: what was signed stays signed.
LEMMA HubMovesKeeps == IInv /\ HubMoves => IInv'
<1> SUFFICES ASSUME IInv, HubMoves PROVE IInv'
  OBVIOUS
<1>1. PICK r \in R, also \in {{}, R} : hub' = [latest |-> r, signed |-> hub.signed \cup ({r} \cap also)]
  BY DEF HubMoves
<1>2. UNCHANGED <<check, answer, box, dir, rows, last, proc>>
  BY DEF HubMoves, table
<1>3. TypeOK'
  BY <1>1, <1>2 DEF IInv, TypeOK
<1>. QED
  BY <1>1, <1>2, <1>3, Aside

\* Asking GitHub and writing down what it said.
LEMMA CheckKeeps == ASSUME IInv, NEW w \in {"tick", "verb"}, DayPasses \/ FetchLatest(w) \/ RecordCheck(w) PROVE IInv'
<1>1. UNCHANGED <<hub, box, dir, rows, last, proc>>
  BY DEF DayPasses, FetchLatest, RecordCheck, table
<1>2. TypeOK'
  <2>1. CASE DayPasses
    BY <1>1, <2>1 DEF IInv, TypeOK, DayPasses
  <2>2. CASE FetchLatest(w)
    BY <1>1, <2>2 DEF IInv, TypeOK, FetchLatest, Answered
  <2>3. CASE RecordCheck(w)
    <3>1. answer' = [answer EXCEPT ![w] = NoAnswer]
      BY <2>3 DEF RecordCheck
    <3>2. \/ check' = [latest |-> answer[w].latest, signed |-> answer[w].signed, due |-> FALSE]
          \/ check' = [check EXCEPT !.due = FALSE]
      BY <2>3 DEF RecordCheck
    <3>3. answer[w] \in [latest : R \cup {None}, signed : BOOLEAN] /\ NoAnswer \in [latest : R \cup {None}, signed : BOOLEAN]
      BY DEF IInv, TypeOK, NoAnswer
    <3>4. check' \in [latest : R \cup {None}, signed : BOOLEAN, due : BOOLEAN]
      <4>1. CASE check' = [latest |-> answer[w].latest, signed |-> answer[w].signed, due |-> FALSE]
        BY <3>3, <4>1
      <4>2. CASE check' = [check EXCEPT !.due = FALSE]
        BY <4>2 DEF IInv, TypeOK
      <4>. QED
        BY <3>2, <4>1, <4>2
    <3>5. answer' \in [{"tick", "verb"} -> [latest : R \cup {None}, signed : BOOLEAN]]
      BY <3>1, <3>3 DEF IInv, TypeOK
    <3>. QED
      BY <1>1, <3>4, <3>5 DEF IInv, TypeOK
  <2>. QED
    BY <2>1, <2>2, <2>3
<1>. QED
  BY <1>1, <1>2, Aside

\* The rows of the runners that are there stay as they are.
LEMMA FailDeadFacts ==
  ASSUME IInv
  PROVE  /\ FailDead \in [Pids -> [rel : R \cup {None}, state : {"none", "running", "done", "failed"}]]
         /\ \A q \in Pids : proc[q].pc # "gone" => FailDead[q] = rows[q]
         /\ \A q \in Pids : FailDead[q].state = "done" => rows[q].state = "done"
<1>1. \A q \in Pids : proc[q].pc # "gone" => Alive(q)
  BY AliveFacts DEF IInv, Runner
<1>2. \A q \in Pids : rows[q] \in [rel : R \cup {None}, state : {"none", "running", "done", "failed"}]
  BY DEF IInv, TypeOK
<1>. QED
  BY <1>1, <1>2 DEF FailDead

LEMMA ReadUpdateKeeps == IInv /\ ReadUpdate => IInv'
<1> SUFFICES ASSUME IInv, ReadUpdate PROVE IInv'
  OBVIOUS
<1>1. rows' = FailDead /\ UNCHANGED <<hub, check, answer, box, dir, last, proc>>
  BY DEF ReadUpdate
<1>2. TypeOK'
  BY <1>1, FailDeadFacts DEF IInv, TypeOK
<1>. QED
  BY <1>1, <1>2, FailDeadFacts, Aside

LEMMA AgentStartsKeeps == IInv /\ AgentStarts => IInv'
<1> SUFFICES ASSUME IInv, AgentStarts PROVE IInv'
  OBVIOUS
<1>1. box' = [box EXCEPT !.agent = box.pkg] /\ UNCHANGED <<hub, check, answer, dir, rows, last, proc>>
  BY DEF AgentStarts, table
<1>2. BoxShape(box)' /\ box'.pkg = box.pkg /\ box'.agent = box.pkg /\ box'.image = box.image /\ box'.tgz = box.tgz
  BY <1>1 DEF IInv, TypeOK, BoxShape
<1>3. TypeOK'
  BY <1>1, <1>2 DEF IInv, TypeOK, BoxShape
<1>. QED
  BY <1>1, <1>2, <1>3, Aside

\* A start of the box takes every runner with it.
LEMMA RebootKeeps == IInv /\ Reboot => IInv' /\ box'.pkg = box.pkg
<1> SUFFICES ASSUME IInv, Reboot PROVE IInv' /\ box'.pkg = box.pkg
  OBVIOUS
<1>. DEFINE b == StartDrive(box)
<1>1. /\ proc' = [p \in Pids |-> Gone] /\ answer' = [w \in DOMAIN answer |-> NoAnswer]
      /\ box' = [b EXCEPT !.agent = None] /\ UNCHANGED <<hub, check, dir, rows, last>>
  BY DEF Reboot, table
<1>2. BoxShape(b) /\ b.pkg = box.pkg
  BY StartDriveFacts DEF IInv, TypeOK, BoxShape
<1>. HIDE DEF b
<1>3. BoxShape(box)' /\ box'.pkg = box.pkg /\ box'.agent = None
  BY <1>1, <1>2 DEF BoxShape
<1>4. TypeOK'
  BY <1>1, <1>3 DEF IInv, TypeOK, BoxShape, NoAnswer, Gone, PCs
<1>. QED
  BY <1>1, <1>3, <1>4, NobodyThere

\* An install is asked for only when nobody is at one: the one that is there has the newest row, and it says so.
LEMMA InstallAlone ==
  ASSUME IInv, OneAtATime, NEW p \in Pids, UpdateInstall(p)
  PROVE  \A q \in Pids : proc[q].pc = "gone"
<1> SUFFICES ASSUME NEW q \in Pids, proc[q].pc # "gone" PROVE FALSE
  OBVIOUS
<1>1. proc[q].pc # "spawned"
  BY DEF UpdateInstall
<1>2. last = q /\ rows[q] = [rel |-> proc[q].rel, state |-> "running"]
  BY <1>1 DEF IInv, Runner, Rowed
<1>3. FailDead[q] = rows[q] /\ last # None
  BY <1>2, FailDeadFacts, UpdatesAssumption
<1>. QED
  BY <1>2, <1>3 DEF UpdateInstall, Installable

LEMMA UpdateInstallKeeps == ASSUME IInv, OneAtATime, NEW p \in Pids, UpdateInstall(p) PROVE IInv'
<1>1. \A q \in Pids : proc[q].pc = "gone" /\ proc[q] = Gone
  BY InstallAlone DEF IInv, Runner, Rowed
<1>. DEFINE new == [pc |-> "spawned", rel |-> check.latest, hash |-> Alien]
<1>2. /\ rows' = FailDead /\ UNCHANGED <<hub, check, answer, box, dir, last>>
      /\ proc' = [proc EXCEPT ![p] = new]
  <2>1. PICK g : g = [Gone EXCEPT !.pc = "spawned", !.rel = check.latest]
    OBVIOUS
  <2>2. g = new
    BY <2>1 DEF Gone
  <2>. QED
    BY <2>1, <2>2, Zenon DEF UpdateInstall
<1>3. check.latest \in R /\ Newer(check.latest, box.pkg)
  BY DEF UpdateInstall, Installable, IInv, TypeOK
<1>4. proc'[p] = new /\ new.pc = "spawned" /\ new.rel = check.latest /\ \A q \in Pids \ {p} : proc'[q] = Gone
  BY <1>1, <1>2 DEF IInv, TypeOK
<1>5. TypeOK'
  BY <1>2, <1>3, FailDeadFacts DEF IInv, TypeOK, PCs
<1>. HIDE DEF new
<1>6. Runner(p)'
  BY <1>2, <1>3, <1>4 DEF Runner, Rowed, Fresh, Checked, Imaged
<1>7. ASSUME NEW q \in Pids, q # p PROVE Runner(q)' /\ proc'[q].pc = "gone"
  <2>1. proc'[q] = Gone /\ proc'[q].pc = "gone"
    BY <1>4, <1>7 DEF Gone
  <2>. QED
    BY <2>1 DEF Runner, Rowed, Fresh, Checked, Imaged, BeforeApt
<1>. QED
  BY <1>5, <1>6, <1>7 DEF IInv, Single
----------------------------------------------------------------------------
(* The runner's steps *)

\* What a step that moves one runner on leaves of it.
LEMMA GotoFacts ==
  ASSUME IInv, NEW p \in Pids, NEW pc \in PCs, Goto(p, pc)
  PROVE  /\ proc' \in [Pids -> [pc : PCs, rel : R \cup {None}, hash : R \cup {Alien}]]
         /\ proc'[p].pc = pc /\ proc'[p].rel = proc[p].rel /\ proc'[p].hash = proc[p].hash
         /\ \A q \in Pids \ {p} : proc'[q] = proc[q]
BY DEF IInv, TypeOK, Goto

LEMMA StartRunKeeps == ASSUME IInv, NEW p \in Pids, StartRun(p) PROVE IInv'
<1>1. /\ proc[p].pc = "spawned" /\ Goto(p, "clear") /\ last' = p
      /\ rows' = [rows EXCEPT ![p] = [rel |-> proc[p].rel, state |-> "running"]]
      /\ UNCHANGED <<hub, check, answer, box, dir>>
  BY DEF StartRun, At
<1>2. /\ proc' \in [Pids -> [pc : PCs, rel : R \cup {None}, hash : R \cup {Alien}]]
      /\ proc'[p].pc = "clear" /\ proc'[p].rel = proc[p].rel /\ \A q \in Pids \ {p} : proc'[q] = proc[q]
  BY <1>1, GotoFacts DEF PCs
<1>3. proc[p].rel \in R /\ Newer(proc[p].rel, box.pkg)
  BY <1>1 DEF IInv, Runner, Rowed, Fresh, BeforeApt
<1>4. TypeOK'
  BY <1>1, <1>2, <1>3 DEF IInv, TypeOK
<1>5. rows'[p] = [rel |-> proc[p].rel, state |-> "running"]
  BY <1>1 DEF IInv, TypeOK
<1>6. Runner(p)'
  BY <1>1, <1>2, <1>3, <1>5 DEF Runner, Rowed, Fresh, Checked, Imaged
<1>. QED
  BY <1>1, <1>2, <1>4, <1>6, OwnStep

\* The runner at one of its steps, and its row.
LEMMA AtFacts ==
  ASSUME IInv, NEW p \in Pids, proc[p].pc \notin {"gone", "spawned"}
  PROVE  /\ proc[p].rel \in R /\ last = p /\ rows[p] = [rel |-> proc[p].rel, state |-> "running"]
         /\ proc[p].pc \in BeforeApt => Newer(proc[p].rel, box.pkg)
         /\ Checked(p) /\ Imaged(p)
BY DEF IInv, Runner, Rowed, Fresh

LEMMA ClearDirKeeps == ASSUME IInv, NEW p \in Pids, ClearDir(p) PROVE IInv'
<1>1. /\ proc[p].pc = "clear" /\ Goto(p, "download") /\ dir' = [dir EXCEPT ![proc[p].rel] = NoFiles]
      /\ UNCHANGED <<hub, check, answer, box, rows, last>>
  BY DEF ClearDir, At, table
<1>2. /\ proc' \in [Pids -> [pc : PCs, rel : R \cup {None}, hash : R \cup {Alien}]]
      /\ proc'[p].pc = "download" /\ proc'[p].rel = proc[p].rel /\ \A q \in Pids \ {p} : proc'[q] = proc[q]
  BY <1>1, GotoFacts DEF PCs
<1>3. /\ proc[p].rel \in R /\ last = p /\ rows[p] = [rel |-> proc[p].rel, state |-> "running"]
      /\ Newer(proc[p].rel, box.pkg)
  BY <1>1, AtFacts DEF BeforeApt
<1>4. TypeOK'
  BY <1>1, <1>2, <1>3 DEF IInv, TypeOK, NoFiles
<1>6. Runner(p)'
  BY <1>1, <1>2, <1>3 DEF Runner, Rowed, Fresh, Checked, Imaged
<1>. QED
  BY <1>1, <1>2, <1>4, <1>6, OwnStep

LEMMA DownloadKeeps == ASSUME IInv, NEW p \in Pids, Download(p) PROVE IInv'
<1>. DEFINE r == proc[p].rel
<1>1. PICK sums \in Downloads, deb \in Downloads :
        /\ dir' = [dir EXCEPT ![r] = [there |-> TRUE, sums |-> sums, deb |-> deb]]
        /\ proc' = [proc EXCEPT ![p].pc = "verify", ![p].hash = deb]
  BY DEF Download
<1>2. proc[p].pc = "download" /\ UNCHANGED <<hub, check, answer, box, rows, last>>
  BY DEF Download, At, table
<1>3. /\ r \in R /\ last = p /\ rows[p] = [rel |-> r, state |-> "running"] /\ Newer(r, box.pkg)
  BY <1>2, AtFacts DEF BeforeApt
<1>4. sums \in R \cup {Alien} /\ deb \in R \cup {Alien} /\ sums \in hub.signed \cup {Alien}
  BY DEF Downloads, IInv, TypeOK
<1>5. /\ proc' \in [Pids -> [pc : PCs, rel : R \cup {None}, hash : R \cup {Alien}]]
      /\ proc'[p].pc = "verify" /\ proc'[p].rel = r /\ proc'[p].hash = deb
      /\ \A q \in Pids \ {p} : proc'[q] = proc[q]
  <2>1. proc[p] \in [pc : PCs, rel : R \cup {None}, hash : R \cup {Alien}] /\ proc = [q \in Pids |-> proc[q]]
    BY DEF IInv, TypeOK
  <2>2. /\ proc'[p].pc = "verify" /\ proc'[p].rel = r /\ proc'[p].hash = deb
        /\ proc'[p] \in [pc : PCs, rel : R \cup {None}, hash : R \cup {Alien}]
    BY <1>1, <1>4, <2>1 DEF PCs
  <2>3. DOMAIN proc' = Pids /\ proc' = [q \in Pids |-> proc'[q]] /\ \A q \in Pids \ {p} : proc'[q] = proc[q]
    BY <1>1, <2>1
  <2>. QED
    BY <2>2, <2>3 DEF IInv, TypeOK
<1>6. TypeOK' /\ dir'[r] = [there |-> TRUE, sums |-> sums, deb |-> deb]
  BY <1>1, <1>2, <1>3, <1>4, <1>5 DEF IInv, TypeOK
<1>7. dir'[r].sums = sums /\ dir'[r].deb = deb
  BY <1>6
<1>8. Runner(p)'
  BY <1>2, <1>3, <1>4, <1>5, <1>7 DEF Runner, Rowed, Fresh, Checked, Imaged
<1>. QED
  BY <1>2, <1>5, <1>6, <1>8, OwnStep

\* What passes the verification is the release's own package, and the directory holds it.
LEMMA VerifyKeeps == ASSUME IInv, NEW p \in Pids, Verify(p) PROVE IInv'
<1>. DEFINE r == proc[p].rel
            d == dir[r]
            ok == d.there /\ Verified(r, d.sums, proc[p].hash)
<1>1. proc[p].pc = "verify" /\ Goto(p, IF ok THEN "image" ELSE "failed") /\ UNCHANGED <<hub, check, answer, box, dir, rows, last>>
  BY DEF Verify, At, table
<1>2. /\ r \in R /\ last = p /\ rows[p] = [rel |-> r, state |-> "running"] /\ Newer(r, box.pkg)
      /\ d.deb = proc[p].hash /\ d.sums \in hub.signed \cup {Alien}
  BY <1>1, AtFacts DEF BeforeApt, Checked
<1>3. d \in [there : BOOLEAN, sums : R \cup {Alien}, deb : R \cup {Alien}]
  BY <1>2 DEF IInv, TypeOK
<1>4. ok => d = [there |-> TRUE, sums |-> r, deb |-> r] /\ r \in hub.signed
  BY <1>2, <1>3 DEF Verified
<1>. HIDE DEF ok
<1>5. /\ proc' \in [Pids -> [pc : PCs, rel : R \cup {None}, hash : R \cup {Alien}]]
      /\ proc'[p].pc = (IF ok THEN "image" ELSE "failed") /\ proc'[p].rel = r /\ \A q \in Pids \ {p} : proc'[q] = proc[q]
  BY <1>1, GotoFacts DEF PCs
<1>6. TypeOK'
  BY <1>1, <1>5 DEF IInv, TypeOK
<1>7. Runner(p)'
  BY <1>1, <1>2, <1>4, <1>5 DEF Runner, Rowed, Fresh, Checked, Imaged
<1>. QED
  BY <1>1, <1>5, <1>6, <1>7, OwnStep

\* The image is there already, or a file of that drive waits.
LEMMA ImageKeeps == ASSUME IInv, NEW p \in Pids, FetchImage(p) \/ CopyImage(p) \/ BackUp(p) PROVE IInv'
<1>. DEFINE r == proc[p].rel
<1>1. PICK pc \in {"copying", "backup", "apt"} :
        /\ Goto(p, pc) /\ proc[p].pc \in {"image", "copying", "backup"}
        /\ UNCHANGED <<hub, check, answer, dir, rows, last>>
        /\ \/ UNCHANGED box /\ (pc = "apt" => proc[p].pc = "backup") /\ (pc = "backup" => box.image = Drive(r)) /\ pc # "copying"
           \/ \E tgz : box' = [box EXCEPT !.tgz = tgz] /\ pc # "apt" /\ (pc = "backup" => tgz = Drive(r))
  BY DEF FetchImage, CopyImage, BackUp, At, table, VerifiedImageOnBox
<1>2. /\ r \in R /\ last = p /\ rows[p] = [rel |-> r, state |-> "running"] /\ Newer(r, box.pkg)
      /\ dir[r] = [there |-> TRUE, sums |-> r, deb |-> r] /\ r \in hub.signed /\ Imaged(p)
  BY <1>1, AtFacts DEF BeforeApt, Checked
<1>3. /\ proc' \in [Pids -> [pc : PCs, rel : R \cup {None}, hash : R \cup {Alien}]]
      /\ proc'[p].pc = pc /\ proc'[p].rel = r /\ \A q \in Pids \ {p} : proc'[q] = proc[q]
  BY <1>1, GotoFacts DEF PCs
<1>4. /\ BoxShape(box)' /\ box'.pkg = box.pkg /\ box'.agent = box.agent /\ box'.image = box.image
      /\ pc = "backup" => box'.image = Drive(r) \/ box'.tgz = Drive(r)
      /\ pc = "apt" => box' = box /\ proc[p].pc = "backup"
  BY <1>1 DEF IInv, TypeOK, BoxShape
<1>5. TypeOK'
  BY <1>1, <1>3, <1>4 DEF IInv, TypeOK, BoxShape
<1>6. Runner(p)'
  BY <1>1, <1>2, <1>3, <1>4 DEF Runner, Rowed, Fresh, Checked, Imaged
<1>. QED
  BY <1>1, <1>3, <1>5, <1>6, OwnStep

\* The package that comes is the verified one, and its drive waits or is loaded.
LEMMA AptKeeps ==
  ASSUME IInv, NEW p \in Pids, Apt(p)
  PROVE  IInv' /\ (box'.pkg # box.pkg => /\ box'.pkg = proc[p].rel
                                         /\ proc[p].rel \in hub.signed /\ Newer(proc[p].rel, box.pkg)
                                         /\ last = p /\ rows[p] = [rel |-> proc[p].rel, state |-> "running"])
<1>. DEFINE r == proc[p].rel
<1>0. PICK b : b = [box EXCEPT !.pkg = r, !.agent = None]
  OBVIOUS
<1>1. proc[p].pc = "apt" /\ UNCHANGED <<hub, check, answer, dir, rows, last>>
  BY DEF Apt, At, table
<1>2. /\ r \in R /\ last = p /\ rows[p] = [rel |-> r, state |-> "running"] /\ Newer(r, box.pkg)
      /\ dir[r] = [there |-> TRUE, sums |-> r, deb |-> r] /\ r \in hub.signed
      /\ box.image = Drive(r) \/ box.tgz = Drive(r)
  BY <1>1, AtFacts DEF BeforeApt, Checked, Imaged
<1>3. dir[r].deb = r
  BY <1>2
<1>4. \/ Goto(p, "failed") /\ UNCHANGED box
      \/ Goto(p, "load") /\ (box' = b \/ box' = StartDrive(b) \/ box' = [b EXCEPT !.drive = "down"])
  BY <1>0, <1>3 DEF Apt
<1>5. BoxShape(b) /\ b.pkg = r /\ b.agent = None /\ (b.image = Drive(r) \/ b.tgz = Drive(r))
  BY <1>0, <1>2 DEF IInv, TypeOK, BoxShape
<1>6. LET c == StartDrive(b) IN BoxShape(c) /\ c.pkg = r /\ c.agent = None /\ c.image = Drive(r)
  BY <1>5, StartDriveFacts
<1>7. CASE Goto(p, "failed") /\ UNCHANGED box
  <2>1. /\ proc' \in [Pids -> [pc : PCs, rel : R \cup {None}, hash : R \cup {Alien}]]
        /\ proc'[p].pc = "failed" /\ proc'[p].rel = r /\ \A q \in Pids \ {p} : proc'[q] = proc[q]
    BY <1>7, GotoFacts DEF PCs
  <2>2. TypeOK'
    BY <1>1, <1>7, <2>1 DEF IInv, TypeOK
  <2>3. Runner(p)'
    BY <1>1, <1>2, <2>1 DEF Runner, Rowed, Fresh, Checked, Imaged, BeforeApt
  <2>. QED
    BY <1>1, <1>7, <2>1, <2>2, <2>3, OwnStep
<1>8. CASE Goto(p, "load") /\ (box' = b \/ box' = StartDrive(b) \/ box' = [b EXCEPT !.drive = "down"])
  <2>1. /\ proc' \in [Pids -> [pc : PCs, rel : R \cup {None}, hash : R \cup {Alien}]]
        /\ proc'[p].pc = "load" /\ proc'[p].rel = r /\ \A q \in Pids \ {p} : proc'[q] = proc[q]
    BY <1>8, GotoFacts DEF PCs
  <2>2. BoxShape(box)' /\ box'.pkg = r /\ box'.agent = None /\ (box'.image = Drive(r) \/ box'.tgz = Drive(r))
    <3>1. CASE box' = StartDrive(b)
      BY <1>6, <3>1 DEF BoxShape
    <3>2. CASE box' = b \/ box' = [b EXCEPT !.drive = "down"]
      BY <1>5, <3>2 DEF BoxShape
    <3>. QED
      BY <1>8, <3>1, <3>2
  <2>3. TypeOK'
    BY <1>1, <1>2, <2>1, <2>2 DEF IInv, TypeOK, BoxShape
  <2>4. Runner(p)'
    BY <1>1, <1>2, <2>1, <2>2 DEF Runner, Rowed, Fresh, Checked, Imaged, BeforeApt
  <2>. QED
    BY <1>1, <1>2, <2>1, <2>2, <2>3, <2>4, OwnStep
<1>. QED
  BY <1>4, <1>7, <1>8

\* What waited is loaded.
LEMMA LoadWaitingKeeps == ASSUME IInv, NEW p \in Pids, LoadWaiting(p) PROVE IInv' /\ box'.pkg = box.pkg
<1>. DEFINE r == proc[p].rel
<1>1. PICK pc \in {"wait", "failed"} : proc[p].pc = "load" /\ Goto(p, pc)
  BY DEF LoadWaiting, At
<1>2. box' = Load(box) /\ UNCHANGED <<hub, check, answer, dir, rows, last>>
  BY DEF LoadWaiting, table
<1>3. /\ r \in R /\ last = p /\ rows[p] = [rel |-> r, state |-> "running"]
      /\ box.pkg = r /\ (box.image = Drive(r) \/ box.tgz = Drive(r))
  BY <1>1, AtFacts DEF Imaged
<1>4. BoxShape(box)' /\ box'.pkg = box.pkg /\ box'.agent = box.agent /\ box'.tgz = "none" /\ box'.image = Drive(r)
  BY <1>2, <1>3, LoadFacts DEF IInv, TypeOK, BoxShape
<1>5. /\ proc' \in [Pids -> [pc : PCs, rel : R \cup {None}, hash : R \cup {Alien}]]
      /\ proc'[p].pc = pc /\ proc'[p].rel = r /\ \A q \in Pids \ {p} : proc'[q] = proc[q]
  BY <1>1, GotoFacts DEF PCs
<1>6. TypeOK'
  BY <1>2, <1>4, <1>5 DEF IInv, TypeOK, BoxShape
<1>7. Runner(p)'
  BY <1>1, <1>2, <1>3, <1>4, <1>5 DEF Runner, Rowed, Fresh, Checked, Imaged, BeforeApt
<1>. QED
  BY <1>1, <1>4, <1>5, <1>6, <1>7, OwnStep

\* The end of the install, however it ends.
LEMMA EndKeeps ==
  ASSUME IInv, NEW p \in Pids, WaitForAgent(p) \/ StepFails(p) \/ RemoveDir(p)
  PROVE  IInv' /\ box' = box /\ rows' = rows
<1>. DEFINE r == proc[p].rel
<1>1. PICK pc \in {"done", "failed", "close done", "close failed"} :
        /\ Goto(p, pc) /\ proc[p].pc \notin {"gone", "spawned"}
        /\ pc = "done" => proc[p].pc = "wait" /\ box.pkg = r
        /\ pc = "close done" => proc[p].pc = "done"
  <2>1. CASE WaitForAgent(p)
    BY <2>1 DEF WaitForAgent, At
  <2>2. CASE StepFails(p)
    BY <2>2 DEF StepFails
  <2>3. CASE RemoveDir(p)
    BY <2>3 DEF RemoveDir, At
  <2>. QED
    BY <2>1, <2>2, <2>3
<1>2. UNCHANGED <<hub, check, answer, box, rows, last>> /\ (dir' = dir \/ dir' = [dir EXCEPT ![r] = NoFiles])
  BY DEF WaitForAgent, StepFails, RemoveDir, table
<1>3. r \in R /\ last = p /\ rows[p] = [rel |-> r, state |-> "running"] /\ Imaged(p)
  BY <1>1, AtFacts
<1>4. /\ proc' \in [Pids -> [pc : PCs, rel : R \cup {None}, hash : R \cup {Alien}]]
      /\ proc'[p].pc = pc /\ proc'[p].rel = r /\ \A q \in Pids \ {p} : proc'[q] = proc[q]
  BY <1>1, GotoFacts DEF PCs
<1>5. TypeOK'
  <2>1. NoFiles \in [there : BOOLEAN, sums : R \cup {Alien}, deb : R \cup {Alien}]
    BY DEF NoFiles
  <2>2. dir' \in [R -> [there : BOOLEAN, sums : R \cup {Alien}, deb : R \cup {Alien}]]
    BY <1>2, <1>3, <2>1 DEF IInv, TypeOK
  <2>. QED
    BY <1>2, <1>4, <2>2 DEF IInv, TypeOK
<1>6. Runner(p)'
  BY <1>1, <1>2, <1>3, <1>4 DEF Runner, Rowed, Fresh, Checked, Imaged, BeforeApt
<1>. QED
  BY <1>1, <1>2, <1>4, <1>5, <1>6, OwnStep

\* A runner closes its row or dies.
LEMMA GoneKeeps == ASSUME IInv, NEW p \in Pids, FinishRun(p) \/ RunnerDies(p) PROVE IInv' /\ box' = box
<1>0. proc[p] # Gone <=> proc[p].pc # "gone"
  BY AliveFacts DEF IInv, Runner
<1>1. /\ proc[p].pc # "gone" /\ proc' = [proc EXCEPT ![p] = Gone]
      /\ UNCHANGED <<hub, check, answer, box, dir, last>>
  BY <1>0 DEF FinishRun, RunnerDies, table
<1>2. rows' = rows \/ \E s \in {"done", "failed"} : rows' = [rows EXCEPT ![p].state = s]
  BY DEF FinishRun, RunnerDies, table
<1>3. TypeOK'
  <2>1. Gone \in [pc : PCs, rel : R \cup {None}, hash : R \cup {Alien}]
    BY DEF Gone, PCs
  <2>2. proc' \in [Pids -> [pc : PCs, rel : R \cup {None}, hash : R \cup {Alien}]]
    BY <1>1, <2>1 DEF IInv, TypeOK
  <2>3. rows' \in [Pids -> [rel : R \cup {None}, state : {"none", "running", "done", "failed"}]]
    BY <1>2 DEF IInv, TypeOK
  <2>. QED
    BY <1>1, <2>2, <2>3 DEF IInv, TypeOK
<1>4. proc'[p] = Gone /\ proc'[p].pc = "gone" /\ \A q \in Pids \ {p} : proc'[q] = proc[q]
  BY <1>1 DEF IInv, TypeOK, Gone
<1>5. Runner(p)'
  BY <1>4 DEF Runner, Rowed, Fresh, Checked, Imaged, BeforeApt
<1>. QED
  BY <1>1, <1>3, <1>4, <1>5, OwnStep
----------------------------------------------------------------------------
(* The theorems *)

\* Every step keeps the invariant, replaces the package only by the signed and newer one that was asked
\* for, and closes a row as done only when what it says is installed.
LEMMA NextFacts ==
  ASSUME IInv, OneAtATime, [Next]_vars
  PROVE  /\ IInv'
         /\ box'.pkg # box.pkg => /\ box'.pkg \in hub.signed /\ Newer(box'.pkg, box.pkg)
                                  /\ rows[last] = [rel |-> box'.pkg, state |-> "running"]
         /\ \A p \in Pids : (rows'[p].state = "done" /\ rows[p].state # "done") =>
               box.pkg = rows[p].rel /\ box.image = Drive(box.pkg) /\ box.tgz = "none"
<1>. DEFINE New == box'.pkg # box.pkg => /\ box'.pkg \in hub.signed /\ Newer(box'.pkg, box.pkg)
                                         /\ rows[last] = [rel |-> box'.pkg, state |-> "running"]
            Closed == \A p \in Pids : (rows'[p].state = "done" /\ rows[p].state # "done") =>
                        box.pkg = rows[p].rel /\ box.image = Drive(box.pkg) /\ box.tgz = "none"
<1>1. CASE UNCHANGED vars
  <2>1. TypeOK' /\ UNCHANGED <<hub, check, answer, box, dir, rows, last, proc>>
    BY <1>1 DEF IInv, TypeOK, vars
  <2>2. IInv'
    BY <2>1, Aside
  <2>. QED
    BY <2>1, <2>2
<1>2. CASE HubMoves \/ AgentStarts \/ DayPasses \/ \E w \in {"tick", "verb"} : FetchLatest(w) \/ RecordCheck(w)
  <2>1. IInv'
    BY <1>2, HubMovesKeeps, AgentStartsKeeps, CheckKeeps
  <2>2. rows' = rows /\ box'.pkg = box.pkg
    BY <1>2 DEF HubMoves, AgentStarts, DayPasses, FetchLatest, RecordCheck, table, IInv, TypeOK
  <2>. QED
    BY <2>1, <2>2
<1>3. CASE ReadUpdate
  <2>1. IInv' /\ rows' = FailDead /\ box' = box
    BY <1>3, ReadUpdateKeeps DEF ReadUpdate
  <2>. QED
    BY <2>1, FailDeadFacts
<1>4. CASE Reboot
  <2>1. IInv' /\ rows' = rows /\ box'.pkg = box.pkg
    BY <1>4, RebootKeeps DEF Reboot, table
  <2>. QED
    BY <2>1
<1>5. ASSUME NEW p \in Pids, UpdateInstall(p) PROVE IInv' /\ New /\ Closed
  <2>1. IInv' /\ rows' = FailDead /\ box' = box
    BY <1>5, UpdateInstallKeeps DEF UpdateInstall
  <2>. QED
    BY <2>1, FailDeadFacts
<1>6. ASSUME NEW p \in Pids, StartRun(p) PROVE IInv' /\ New /\ Closed
  <2>1. IInv' /\ box' = box /\ rows' = [rows EXCEPT ![p] = [rel |-> proc[p].rel, state |-> "running"]]
    BY <1>6, StartRunKeeps DEF StartRun
  <2>2. \A q \in Pids : rows'[q] = rows[q] \/ rows'[q].state = "running"
    BY <2>1 DEF IInv, TypeOK
  <2>. QED
    BY <2>1, <2>2
<1>7. ASSUME NEW p \in Pids, ClearDir(p) \/ Download(p) \/ Verify(p) \/ FetchImage(p) \/ CopyImage(p) \/ BackUp(p)
      PROVE  IInv' /\ New /\ Closed
  <2>1. IInv'
    BY <1>7, ClearDirKeeps, DownloadKeeps, VerifyKeeps, ImageKeeps
  <2>2. rows' = rows
    BY <1>7 DEF ClearDir, Download, Verify, FetchImage, CopyImage, BackUp, table
  <2>3. box' = box \/ \E tgz : box' = [box EXCEPT !.tgz = tgz]
    BY <1>7 DEF ClearDir, Download, Verify, FetchImage, CopyImage, BackUp
  <2>4. box'.pkg = box.pkg
    BY <2>3 DEF IInv, TypeOK
  <2>. QED
    BY <2>1, <2>2, <2>4
<1>8. ASSUME NEW p \in Pids, Apt(p) PROVE IInv' /\ New /\ Closed
  <2>1. rows' = rows
    BY <1>8 DEF Apt, table
  <2>. QED
    BY <1>8, <2>1, AptKeeps
<1>9. ASSUME NEW p \in Pids, LoadWaiting(p) \/ WaitForAgent(p) \/ StepFails(p) \/ RemoveDir(p) PROVE IInv' /\ New /\ Closed
  <2>1. IInv' /\ box'.pkg = box.pkg
    BY <1>9, LoadWaitingKeeps, EndKeeps
  <2>2. rows' = rows
    BY <1>9, EndKeeps DEF LoadWaiting, table
  <2>. QED
    BY <2>1, <2>2
<1>10. ASSUME NEW p \in Pids, FinishRun(p) \/ RunnerDies(p) PROVE IInv' /\ New /\ Closed
  <2>1. IInv' /\ box' = box
    BY <1>10, GoneKeeps
  <2>2. Closed
    <3>1. CASE FinishRun(p)
      <4>1. /\ proc[p].pc \in {"close done", "close failed"}
            /\ rows' = [rows EXCEPT ![p].state = IF proc[p].pc = "close done" THEN "done" ELSE "failed"]
        BY <3>1 DEF FinishRun, At
      <4>2. rows[p] = [rel |-> proc[p].rel, state |-> "running"] /\ Imaged(p)
        BY <4>1, AtFacts
      <4>3. rows[p].rel = proc[p].rel
        BY <4>2
      <4>4. \A q \in Pids \ {p} : rows'[q] = rows[q]
        BY <4>1 DEF IInv, TypeOK
      <4>5. rows'[p].state = "done" => proc[p].pc = "close done"
        BY <4>1, <4>2 DEF IInv, TypeOK
      <4>. QED
        BY <4>2, <4>3, <4>4, <4>5 DEF Imaged
    <3>2. CASE RunnerDies(p)
      BY <3>2 DEF RunnerDies, table
    <3>. QED
      BY <1>10, <3>1, <3>2
  <2>. QED
    BY <2>1, <2>2
<1>. QED
  BY <1>1, <1>2, <1>3, <1>4, <1>5, <1>6, <1>7, <1>8, <1>9, <1>10 DEF Next, Step

\* For any releases and any number of runners, failures, deaths and foreign downloads: a package comes
\* onto the box only when it is the signed one of the release that was asked for, and a newer one.
THEOREM PackagesAreSigned == ASSUME OneAtATime PROVE Spec => InstalledIsSigned
<1>1. Init => IInv
  BY InitIInv
<1>2. IInv /\ [Next]_vars => IInv'
  BY NextFacts
<1>3. IInv /\ [Next]_vars => [box'.pkg # box.pkg =>
                          /\ box'.pkg \in hub.signed /\ Newer(box'.pkg, box.pkg)
                          /\ rows[last] = [rel |-> box'.pkg, state |-> "running"]]_vars
  BY NextFacts
<1>. QED
  BY <1>1, <1>2, <1>3, PTL DEF Spec, InstalledIsSigned

\* For the same systems: a run whose row says done has installed its release and the drive it pins.
THEOREM DoneRunsInstalled == ASSUME OneAtATime PROVE Spec => DoneIsInstalled
<1>1. Init => IInv
  BY InitIInv
<1>2. IInv /\ [Next]_vars => IInv'
  BY NextFacts
<1>3. IInv /\ [Next]_vars => [\A p \in Pids : (rows'[p].state = "done" /\ rows[p].state # "done") =>
                   /\ box.pkg = rows[p].rel
                   /\ box.image = Drive(box.pkg) /\ box.tgz = "none"]_vars
  BY NextFacts
<1>. QED
  BY <1>1, <1>2, <1>3, PTL DEF Spec, DoneIsInstalled
=============================================================================
