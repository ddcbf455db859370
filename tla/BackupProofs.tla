---------------------------- MODULE BackupProofs ----------------------------
(***************************************************************************)
(* The backup and its restore for any files, runners, snapshots kept and   *)
(* failures, while backups, restores and changes of the .env do not        *)
(* overlap.  Three layers: what one run has built so far (RunInv), where   *)
(* the last whole backup is while the directories change places (LastInv), *)
(* and what a restore has in hand (RestoreInv).                            *)
(***************************************************************************)
EXTENDS Backup, SequenceTheorems, TLAPS

Runs  == 1 .. Rounds
Trees == [there : BOOLEAN, files : SUBSET (Files \X Runs), manifest : SUBSET SUBSET Files]
Of(fs, n) == {<<f, n>> : f \in fs}

\* Whole, with every file that a backup must have.
Complete(t) == /\ t.there
               /\ \E n \in Runs : \E fs \in SUBSET Files :
                    /\ Files \ Optional \subseteq fs
                    /\ t.manifest = {fs} /\ t.files = Of(fs, n)

Wholes == {t \in Trees : Complete(t)}

Jobs == [pc : {"rm .new", "mkdir", "copy", "rm .old", "set aside", "swap in", "rm .old again", "snapshot", "prune"},
         run : Runs, i : Nat, lists : SUBSET Files]

TypeOK == /\ dir \in Trees /\ new \in Trees /\ old \in Trees
          /\ snaps \in Seq(Wholes)
          /\ run \in Nat
          /\ at \in [Runners -> {Idle} \cup Jobs]

\* At most one operation is under way.
Exclusive == /\ \A r, s \in Runners : at[r] # Idle /\ at[s] # Idle => r = s
             /\ \A r \in Runners : at[r] # Idle => restore = Idle /\ finish = Idle /\ tunnel = Idle
             /\ restore # Idle => finish = Idle /\ tunnel = Idle
             /\ finish # Idle => tunnel = Idle

\* What a run has built so far, and what the others find of it.
Built(r) == LET a == at[r] IN
  /\ a.pc \in {"rm .new", "mkdir"} => a.i = 1 /\ a.lists = {}
  /\ a.pc = "mkdir" => ~new.there
  /\ a.pc = "copy" => /\ new.there /\ new.files = Of(a.lists, a.run) /\ new.manifest = {} /\ a.i >= 1
                      /\ \A j \in 1 .. Len(Order) : j < a.i => Order[j] \in a.lists \cup Optional
  /\ a.pc \in {"rm .old", "set aside", "swap in"} => Complete(new)
  /\ a.pc = "set aside" => ~old.there
  /\ a.pc = "swap in" => ~dir.there
  /\ a.pc \in {"rm .old again", "snapshot", "prune"} => Complete(dir)

RunInv == TypeOK /\ Exclusive /\ (dir.there => Complete(dir)) /\ \A r \in Runners : Built(r)

Away == snaps # <<>> /\ ~dir.there
Spent == faults >= MaxFaults

\* While the directory is away after a first backup: set aside by the run that is about to swap the new one
\* in, or left there by a run that died then, and no other run dies as well.
LastAt(pc) == Away =>
  /\ pc \in {"idle", "rm .new", "mkdir", "copy", "rm .old"} => Complete(old) /\ Spent
  /\ pc = "set aside" => Spent
  /\ pc = "swap in" => Complete(old) \/ Spent

LastInv == /\ faults \in Nat
           /\ \A r \in Runners : at[r] # Idle => LastAt(at[r].pc)
           /\ (\A r \in Runners : at[r] = Idle) => LastAt("idle")

Lives    == [Files \cup {"token", "image"} -> Nat]
Restores == [pc : {"open", "stage"}, todo : SUBSET Files, lists : SUBSET Files,
             opened : SUBSET (Files \X Runs), was : Lives, strays : SUBSET Files]
Finishes == [pc : {"stop", "swap", "catch"}, lists : SUBSET Files, was : Lives, strays : SUBSET Files]

RestoreTypes == /\ live \in Lives /\ staged \in [Files -> Nat]
                /\ restore \in {Idle} \cup Restores
                /\ finish \in {Idle} \cup Finishes

\* What a restore has in hand is of one backup, the one in the directory, and all of it.
RestoreOf(n) ==
  /\ dir.files = Of(restore.lists, n) /\ restore.opened \subseteq Of(restore.lists, n)
  /\ \A f \in restore.lists : f \in restore.todo \/ <<f, n>> \in restore.opened \/ staged[f] = n

\* What its finisher has yet to put in place, and what it has put there.
FinishOf(n) == \A f \in finish.lists : staged[f] = n \/ (staged[f] = 0 /\ live[f] = n)

RestoreHolds == restore # Idle =>
  /\ \A f \in Files : live[f] = restore.was[f]
  /\ \A f \in Files : staged[f] # 0 => f \in restore.lists \cup restore.strays
  /\ \E n \in Runs : RestoreOf(n)

FinishHolds == finish # Idle =>
  /\ \A f \in Files \ finish.lists : f = Passdb \/ f \notin finish.strays => live[f] = finish.was[f]
  /\ \A f \in Files : staged[f] # 0 => f \in finish.lists \cup finish.strays
  /\ \E n \in Runs : FinishOf(n)

RestoreInv == /\ RestoreTypes /\ RestoreHolds /\ FinishHolds
              /\ tunnel = Idle \/ tunnel = [pc |-> "write", image |-> live["image"]]
----------------------------------------------------------------------------
(* Helpers *)

PCs == {"rm .new", "mkdir", "copy", "rm .old", "set aside", "swap in", "rm .old again", "snapshot", "prune"}

LEMMA IdleFacts == Idle.pc = "idle" /\ Idle \notin Jobs
BY DEF Idle, Jobs

LEMMA TreeFacts == NoTree \in Trees /\ Empty \in Trees /\ ~NoTree.there
                   /\ Empty.there /\ Empty.files = {} /\ Empty.manifest = {}
BY DEF NoTree, Empty, Trees

\* A complete backup is whole.
LEMMA CompleteIsWhole == ASSUME NEW t, Complete(t) PROVE Whole(t)
BY DEF Complete, Whole, Of, Runs

\* One more file of the same run.
LEMMA CopiedFacts ==
  ASSUME NEW fs \in SUBSET Files, NEW f \in Files, NEW n \in Runs, NEW t \in Trees, t.files = Of(fs, n)
  PROVE  /\ Copied(t, f, n) \in Trees /\ Copied(t, f, n).files = Of(fs \cup {f}, n)
         /\ Copied(t, f, n).there = t.there /\ Copied(t, f, n).manifest = t.manifest
<1>1. {e \in Of(fs, n) : e[1] # f} \cup {<<f, n>>} = Of(fs \cup {f}, n)
  BY DEF Of
<1>2. Of(fs \cup {f}, n) \subseteq Files \X Runs
  BY DEF Of
<1>3. PICK c : c = [t EXCEPT !.files = Of(fs \cup {f}, n)]
  OBVIOUS
<1>4. Copied(t, f, n) = c
  BY <1>1, <1>3 DEF Copied
<1>5. c \in Trees /\ c.files = Of(fs \cup {f}, n) /\ c.there = t.there /\ c.manifest = t.manifest
  BY <1>2, <1>3 DEF Trees
<1>. QED
  BY <1>4, <1>5

\* A step of a run from one point to the next.
LEMMA StepFacts ==
  ASSUME TypeOK, NEW r \in Runners, NEW from \in PCs, NEW to \in PCs, Step(r, from, to)
  PROVE  /\ at' \in [Runners -> {Idle} \cup Jobs] /\ \A s \in Runners \ {r} : at'[s] = at[s]
         /\ at[r] # Idle /\ at[r] \in Jobs /\ at[r].pc = from
         /\ at'[r].pc = to /\ at'[r].run = at[r].run /\ at'[r].i = at[r].i /\ at'[r].lists = at[r].lists
<1>1. at[r].pc = from /\ at' = [at EXCEPT ![r].pc = to]
  BY DEF Step
<1>2. at[r] # Idle /\ at[r] \in Jobs
  BY <1>1, IdleFacts DEF TypeOK, PCs
<1>3. PICK a : a = [at[r] EXCEPT !.pc = to]
  OBVIOUS
<1>4. a \in Jobs /\ a.pc = to /\ a.run = at[r].run /\ a.i = at[r].i /\ a.lists = at[r].lists
  BY <1>2, <1>3 DEF Jobs, PCs
<1>5. at' = [at EXCEPT ![r] = a]
  BY <1>1, <1>3
<1>6. at'[r] = a /\ at' \in [Runners -> {Idle} \cup Jobs] /\ \A s \in Runners \ {r} : at'[s] = at[s]
  BY <1>4, <1>5 DEF TypeOK
<1>. QED
  BY <1>1, <1>2, <1>4, <1>6

\* A step of the one run: nobody else is there.
LEMMA OwnStep ==
  ASSUME RunInv, NEW r \in Runners, at[r] # Idle, UNCHANGED <<restore, finish, tunnel>>,
         TypeOK', (dir.there => Complete(dir))', Built(r)', \A s \in Runners \ {r} : at'[s] = at[s]
  PROVE  RunInv'
<1>1. ASSUME NEW s \in Runners, s # r PROVE at'[s] = Idle /\ Built(s)'
  <2>1. at'[s] = Idle /\ at'[s].pc = "idle"
    BY <1>1, IdleFacts DEF RunInv, Exclusive
  <2>. QED
    BY <2>1 DEF Built
<1>2. Exclusive'
  BY <1>1 DEF RunInv, Exclusive
<1>. QED
  BY <1>1, <1>2 DEF RunInv

\* A step beside the runs.
LEMMA BesideRuns == ASSUME RunInv, UNCHANGED <<dir, new, old, snaps, run, at>>, Exclusive' PROVE RunInv'
<1>1. TypeOK' /\ (dir.there => Complete(dir))'
  BY DEF RunInv, TypeOK
<1>2. \A r \in Runners : Built(r)'
  BY DEF RunInv, Built
<1>. QED
  BY <1>1, <1>2 DEF RunInv
----------------------------------------------------------------------------
(* A run *)

LEMMA BeginKeeps == ASSUME RunInv, OneAtATime, NEW r \in Runners, Begin(r) PROVE RunInv'
<1>. DEFINE a == [pc |-> "rm .new", run |-> run', i |-> 1, lists |-> {}]
<1>1. /\ run' = (run % Rounds) + 1 /\ at' = [at EXCEPT ![r] = a]
      /\ UNCHANGED <<dir, new, old, snaps, restore, finish, tunnel>>
  BY DEF Begin, trees, box
<1>2. /\ \A s \in Runners : at[s] = Idle
      /\ restore = Idle /\ finish = Idle /\ tunnel = Idle
  BY DEF Begin, Alone
<1>3. run' \in Runs /\ run' \in Nat
  <2>1. Rounds \in Nat \ {0} /\ run \in Nat
    BY BackupAssumption DEF RunInv, TypeOK
  <2>2. PICK m : m = run % Rounds
    OBVIOUS
  <2>3. m \in 0 .. Rounds - 1
    BY <2>1, <2>2
  <2>4. run' = m + 1
    BY <1>1, <2>2
  <2>. QED
    BY <2>1, <2>3, <2>4 DEF Runs
<1>4. a \in Jobs /\ a.pc = "rm .new" /\ a.i = 1 /\ a.lists = {}
  BY <1>3 DEF Jobs
<1>. HIDE DEF a
<1>5. at'[r] = a /\ \A s \in Runners \ {r} : at'[s] = Idle
  BY <1>1, <1>2 DEF RunInv, TypeOK
<1>6. TypeOK'
  BY <1>1, <1>3, <1>4 DEF RunInv, TypeOK
<1>7. Exclusive'
  BY <1>1, <1>2, <1>5 DEF Exclusive
<1>8. ASSUME NEW s \in Runners PROVE Built(s)'
  <2>1. at'[s].pc = "idle" \/ (at'[s].pc = "rm .new" /\ at'[s].i = 1 /\ at'[s].lists = {})
    BY <1>4, <1>5, IdleFacts
  <2>. QED
    BY <2>1 DEF Built
<1>9. (dir.there => Complete(dir))'
  BY <1>1 DEF RunInv
<1>. QED
  BY <1>6, <1>7, <1>8, <1>9 DEF RunInv

LEMMA NewKeeps == ASSUME RunInv, NEW r \in Runners, ClearNew(r) \/ MakeNew(r) PROVE RunInv'
<1>1. UNCHANGED <<dir, old, snaps, run, restore, finish, tunnel>>
  BY DEF ClearNew, MakeNew, box
<1>2. CASE ClearNew(r)
  <2>1. Step(r, "rm .new", "mkdir") /\ new' = NoTree
    BY <1>2 DEF ClearNew
  <2>2. /\ at' \in [Runners -> {Idle} \cup Jobs] /\ \A s \in Runners \ {r} : at'[s] = at[s]
        /\ at[r] # Idle /\ at[r].pc = "rm .new"
        /\ at'[r].pc = "mkdir" /\ at'[r].lists = at[r].lists /\ at'[r].i = at[r].i
    BY <2>1, StepFacts DEF PCs, RunInv
  <2>3. TypeOK' /\ (dir.there => Complete(dir))'
    BY <1>1, <2>1, <2>2, TreeFacts DEF RunInv, TypeOK
  <2>4. Built(r)'
    BY <2>1, <2>2, TreeFacts DEF RunInv, Built
  <2>. QED
    BY <1>1, <2>2, <2>3, <2>4, OwnStep
<1>3. CASE MakeNew(r)
  <2>1. Step(r, "mkdir", "copy") /\ new' = Empty
    BY <1>3 DEF MakeNew
  <2>2. /\ at' \in [Runners -> {Idle} \cup Jobs] /\ \A s \in Runners \ {r} : at'[s] = at[s]
        /\ at[r] # Idle /\ at'[r].pc = "copy" /\ at'[r].lists = at[r].lists /\ at'[r].i = at[r].i
        /\ at[r].pc = "mkdir" /\ at'[r].run = at[r].run
    BY <2>1, StepFacts DEF PCs, RunInv
  <2>3. TypeOK' /\ (dir.there => Complete(dir))'
    BY <1>1, <2>1, <2>2, TreeFacts DEF RunInv, TypeOK
  <2>4. at[r].i = 1 /\ at[r].lists = {}
    BY <2>2 DEF RunInv, Built
  <2>5. Of({}, at[r].run) = {}
    BY DEF Of
  <2>6. Built(r)'
    BY <2>1, <2>2, <2>4, <2>5, TreeFacts DEF Built
  <2>. QED
    BY <1>1, <2>2, <2>3, <2>6, OwnStep
<1>. QED
  BY <1>2, <1>3

LEMMA CopyKeeps == ASSUME RunInv, NEW r \in Runners, Copy(r) PROVE RunInv'
<1>. DEFINE a == at[r]
            f == Order[a.i]
<1>1. a.pc = "copy" /\ a.i <= Len(Order) /\ UNCHANGED <<dir, old, snaps, run, restore, finish, tunnel>>
  BY DEF Copy, box
<1>2. a # Idle /\ a \in Jobs /\ a.i \in Nat /\ a.run \in Runs /\ a.lists \in SUBSET Files
  <2>1. a # Idle /\ a \in Jobs
    BY <1>1, IdleFacts DEF RunInv, TypeOK
  <2>. QED
    BY <2>1 DEF Jobs
<1>3. /\ new.there /\ new.files = Of(a.lists, a.run) /\ new.manifest = {} /\ a.i >= 1 /\ new \in Trees
      /\ \A j \in 1 .. Len(Order) : j < a.i => Order[j] \in a.lists \cup Optional
  BY <1>1 DEF RunInv, TypeOK, Built
<1>4. f \in Files
  BY <1>1, <1>2, <1>3 DEF Files
<1>5. PICK lists \in SUBSET Files :
        /\ at' = [at EXCEPT ![r] = [pc |-> "copy", run |-> a.run, i |-> a.i + 1, lists |-> lists]]
        /\ a.lists \subseteq lists /\ f \in lists \cup Optional
        /\ new' \in Trees /\ new'.there /\ new'.files = Of(lists, a.run) /\ new'.manifest = {}
  <2>1. CASE /\ new' = Copied(new, f, a.run)
             /\ at' = [at EXCEPT ![r].i = @ + 1, ![r].lists = @ \cup {f}]
    <3>1. PICK b : b = [a EXCEPT !.i = @ + 1, !.lists = @ \cup {f}]
      OBVIOUS
    <3>2. b = [pc |-> "copy", run |-> a.run, i |-> a.i + 1, lists |-> a.lists \cup {f}]
      BY <1>1, <1>2, <3>1 DEF Jobs
    <3>3. at' = [at EXCEPT ![r] = b]
      BY <1>2, <2>1, <3>1 DEF RunInv, TypeOK
    <3>4. /\ new' \in Trees /\ new'.there /\ new'.files = Of(a.lists \cup {f}, a.run) /\ new'.manifest = {}
      <4>1. PICK n, fs : n = a.run /\ fs = a.lists
        OBVIOUS
      <4>2. n \in Runs /\ fs \in SUBSET Files /\ new.files = Of(fs, n) /\ new \in Trees
        BY <1>2, <1>3, <4>1
      <4>3. /\ Copied(new, f, n) \in Trees /\ Copied(new, f, n).files = Of(fs \cup {f}, n)
            /\ Copied(new, f, n).there = new.there /\ Copied(new, f, n).manifest = new.manifest
        BY <1>4, <4>2, CopiedFacts, Zenon
      <4>. QED
        BY <1>3, <2>1, <4>1, <4>3
    <3>5. a.lists \cup {f} \in SUBSET Files
      BY <1>2, <1>4
    <3>. QED
      BY <3>2, <3>3, <3>4, <3>5
  <2>2. CASE /\ f \in Optional
             /\ at' = [at EXCEPT ![r].i = @ + 1]
             /\ UNCHANGED new
    <3>1. PICK b : b = [a EXCEPT !.i = @ + 1]
      OBVIOUS
    <3>2. b = [pc |-> "copy", run |-> a.run, i |-> a.i + 1, lists |-> a.lists]
      BY <1>1, <1>2, <3>1 DEF Jobs
    <3>3. at' = [at EXCEPT ![r] = b]
      BY <2>2, <3>1
    <3>4. a.lists \in SUBSET Files /\ new' = new
      BY <1>2, <2>2
    <3>. QED
      BY <1>3, <2>2, <3>2, <3>3, <3>4
  <2>. QED
    BY <2>1, <2>2 DEF Copy
<1>. DEFINE b == [pc |-> "copy", run |-> a.run, i |-> a.i + 1, lists |-> lists]
<1>6. b \in Jobs /\ b.pc = "copy" /\ b.run = a.run /\ b.i = a.i + 1 /\ b.lists = lists
  <2>1. a.i + 1 \in Nat /\ a.run \in Runs /\ lists \in SUBSET Files
    BY <1>2
  <2>. QED
    BY <2>1 DEF Jobs
<1>. HIDE DEF b
<1>7. at'[r] = b /\ at' \in [Runners -> {Idle} \cup Jobs] /\ \A s \in Runners \ {r} : at'[s] = at[s]
  BY <1>5, <1>6 DEF RunInv, TypeOK, b
<1>8. TypeOK' /\ (dir.there => Complete(dir))'
  BY <1>1, <1>5, <1>7 DEF RunInv, TypeOK
<1>9. \A j \in 1 .. Len(Order) : j < a.i + 1 => Order[j] \in lists \cup Optional
  BY <1>2, <1>3, <1>5
<1>10. Built(r)'
  BY <1>2, <1>3, <1>5, <1>6, <1>7, <1>9 DEF Built
<1>. QED
  BY <1>1, <1>2, <1>7, <1>8, <1>10, OwnStep

\* With every file gone through, the backup is complete.
LEMMA ManifestKeeps == ASSUME RunInv, NEW r \in Runners, WriteManifest(r) PROVE RunInv'
<1>. DEFINE a == at[r]
<1>1. /\ Step(r, "copy", "rm .old") /\ a.i > Len(Order) /\ new' = [new EXCEPT !.manifest = {a.lists}]
      /\ UNCHANGED <<dir, old, snaps, run, restore, finish, tunnel>>
  BY DEF WriteManifest, box
<1>2. /\ at' \in [Runners -> {Idle} \cup Jobs] /\ \A s \in Runners \ {r} : at'[s] = at[s]
      /\ a # Idle /\ a \in Jobs /\ a.pc = "copy" /\ at'[r].pc = "rm .old"
  BY <1>1, StepFacts DEF PCs, RunInv
<1>3. /\ new.there /\ new.files = Of(a.lists, a.run) /\ new \in Trees
      /\ \A j \in 1 .. Len(Order) : j < a.i => Order[j] \in a.lists \cup Optional
  BY <1>2 DEF RunInv, TypeOK, Built
<1>4. a.run \in Runs /\ a.lists \in SUBSET Files /\ a.i \in Nat /\ Len(Order) \in Nat
  <2>1. Len(Order) \in Nat
    BY BackupAssumption
  <2>2. a.run \in Runs /\ a.lists \in SUBSET Files /\ a.i \in Nat
    BY <1>2 DEF Jobs
  <2>. QED
    BY <2>1, <2>2
<1>5. Files \ Optional \subseteq a.lists
  <2> SUFFICES ASSUME NEW j \in 1 .. Len(Order), Order[j] \notin Optional PROVE Order[j] \in a.lists
    BY DEF Files
  <2>0. PICK k, l : k = a.i /\ l = Len(Order)
    OBVIOUS
  <2>1. j < a.i
    <3>1. k \in Nat /\ l \in Nat /\ k > l /\ j \in 1 .. l
      BY <1>1, <1>4, <2>0, Zenon
    <3>2. j < k
      BY <3>1
    <3>. QED
      BY <2>0, <3>2
  <2>. QED
    BY <1>3, <2>1
<1>6. new' \in Trees /\ new'.there /\ new'.manifest = {a.lists} /\ new'.files = Of(a.lists, a.run)
  BY <1>1, <1>3, <1>4 DEF Trees
<1>7. Complete(new')
  BY <1>4, <1>5, <1>6 DEF Complete
<1>8. TypeOK' /\ (dir.there => Complete(dir))'
  BY <1>1, <1>2, <1>6 DEF RunInv, TypeOK
<1>9. Built(r)'
  BY <1>2, <1>7 DEF Built
<1>. QED
  BY <1>1, <1>2, <1>8, <1>9, OwnStep

\* The directories change places.
LEMMA SwapKeeps ==
  ASSUME RunInv, NEW r \in Runners, ClearOld(r) \/ SetAside(r) \/ SwapIn(r)
  PROVE  RunInv'
<1>1. UNCHANGED <<snaps, run, restore, finish, tunnel>>
  BY DEF ClearOld, SetAside, SwapIn, box
<1>2. CASE ClearOld(r) /\ Step(r, "rm .old", "set aside")
  <2>1. old' = NoTree /\ UNCHANGED <<dir, new>>
    BY <1>2 DEF ClearOld
  <2>2. /\ at' \in [Runners -> {Idle} \cup Jobs] /\ \A s \in Runners \ {r} : at'[s] = at[s]
        /\ at[r] # Idle /\ at[r].pc = "rm .old" /\ at'[r].pc = "set aside"
    BY <1>2, StepFacts DEF PCs, RunInv
  <2>3. TypeOK' /\ (dir.there => Complete(dir))'
    BY <1>1, <2>1, <2>2, TreeFacts DEF RunInv, TypeOK
  <2>4. Built(r)'
    BY <2>1, <2>2, TreeFacts DEF RunInv, Built
  <2>. QED
    BY <1>1, <2>2, <2>3, <2>4, OwnStep
<1>3. CASE ClearOld(r) /\ Step(r, "rm .old again", "snapshot")
  <2>1. old' = NoTree /\ UNCHANGED <<dir, new>>
    BY <1>3 DEF ClearOld
  <2>2. /\ at' \in [Runners -> {Idle} \cup Jobs] /\ \A s \in Runners \ {r} : at'[s] = at[s]
        /\ at[r] # Idle /\ at[r].pc = "rm .old again" /\ at'[r].pc = "snapshot"
    BY <1>3, StepFacts DEF PCs, RunInv
  <2>3. TypeOK' /\ (dir.there => Complete(dir))'
    BY <1>1, <2>1, <2>2, TreeFacts DEF RunInv, TypeOK
  <2>4. Built(r)'
    BY <2>1, <2>2, TreeFacts DEF RunInv, Built
  <2>. QED
    BY <1>1, <2>2, <2>3, <2>4, OwnStep
<1>4. CASE SetAside(r)
  <2>1. /\ Step(r, "set aside", "swap in") /\ UNCHANGED new
        /\ (old' = dir /\ dir' = NoTree) \/ (~dir.there /\ UNCHANGED <<dir, old>>)
    BY <1>4 DEF SetAside
  <2>2. /\ at' \in [Runners -> {Idle} \cup Jobs] /\ \A s \in Runners \ {r} : at'[s] = at[s]
        /\ at[r] # Idle /\ at[r].pc = "set aside" /\ at'[r].pc = "swap in"
    BY <2>1, StepFacts DEF PCs, RunInv
  <2>3. TypeOK' /\ ~dir'.there
    BY <1>1, <2>1, <2>2, TreeFacts DEF RunInv, TypeOK
  <2>4. Built(r)'
    BY <2>1, <2>2, <2>3 DEF RunInv, Built
  <2>. QED
    BY <1>1, <2>2, <2>3, <2>4, OwnStep
<1>5. CASE SwapIn(r)
  <2>1. Step(r, "swap in", "rm .old again") /\ dir' = new /\ new' = NoTree /\ UNCHANGED old
    BY <1>5 DEF SwapIn
  <2>2. /\ at' \in [Runners -> {Idle} \cup Jobs] /\ \A s \in Runners \ {r} : at'[s] = at[s]
        /\ at[r] # Idle /\ at[r].pc = "swap in" /\ at'[r].pc = "rm .old again"
    BY <2>1, StepFacts DEF PCs, RunInv
  <2>3. Complete(dir')
    BY <2>1, <2>2 DEF RunInv, Built
  <2>4. TypeOK' /\ Built(r)'
    BY <1>1, <2>1, <2>2, <2>3, TreeFacts DEF RunInv, TypeOK, Built
  <2>. QED
    BY <1>1, <2>2, <2>3, <2>4, OwnStep
<1>. QED
  BY <1>2, <1>3, <1>4, <1>5 DEF ClearOld

\* Pruning keeps whole backups.
LEMMA NewestFacts == ASSUME NEW s \in Seq(Wholes) PROVE Newest(s) \in Seq(Wholes)
<1>1. Keep \in Nat \ {0} /\ Len(s) \in Nat
  BY BackupAssumption
<1>2. CASE Len(s) > Keep
  <2>. DEFINE m == Len(s) - Keep + 1
  <2>1. m \in Int /\ Len(s) \in Int /\ m >= 1
    BY <1>1, <1>2
  <2>2. \A i \in m .. Len(s) : s[i] \in Wholes
    BY <1>1, <2>1, ElementOfSeq
  <2>. HIDE DEF m
  <2>3. SubSeq(s, m, Len(s)) \in Seq(Wholes)
    BY <2>1, <2>2, SubSeqProperties, Zenon
  <2>. QED
    BY <1>2, <2>3 DEF Newest, m
<1>3. CASE ~(Len(s) > Keep)
  BY <1>3 DEF Newest
<1>. QED
  BY <1>2, <1>3

LEMMA SnapshotKeeps == ASSUME RunInv, NEW r \in Runners, TakeSnapshot(r) PROVE RunInv' /\ Complete(dir)
<1>1. /\ Step(r, "snapshot", "prune") /\ snaps' = Append(snaps, dir)
      /\ UNCHANGED <<dir, new, old, run, restore, finish, tunnel>>
  BY DEF TakeSnapshot, trees, box
<1>2. /\ at' \in [Runners -> {Idle} \cup Jobs] /\ \A s \in Runners \ {r} : at'[s] = at[s]
      /\ at[r] # Idle /\ at[r].pc = "snapshot" /\ at'[r].pc = "prune"
  BY <1>1, StepFacts DEF PCs, RunInv
<1>3. Complete(dir) /\ dir \in Wholes
  BY <1>2 DEF RunInv, TypeOK, Built, Wholes
<1>4. TypeOK' /\ (dir.there => Complete(dir))'
  BY <1>1, <1>2, <1>3 DEF RunInv, TypeOK
<1>5. Built(r)'
  BY <1>1, <1>2, <1>3 DEF Built
<1>. QED
  BY <1>1, <1>2, <1>3, <1>4, <1>5, OwnStep

\* The end of a run, well or not.
LEMMA EndKeeps == ASSUME RunInv, NEW r \in Runners, Prune(r) \/ RunFails(r) \/ Crash(r) PROVE RunInv' /\ at[r] # Idle
<1>1. /\ at[r] # Idle /\ at' = [at EXCEPT ![r] = Idle]
      /\ UNCHANGED <<dir, new, old, run, restore, finish, tunnel>>
  BY IdleFacts DEF Prune, RunFails, Crash, trees, box
<1>2. snaps' \in Seq(Wholes)
  BY NewestFacts DEF Prune, RunFails, Crash, RunInv, TypeOK
<1>3. at' \in [Runners -> {Idle} \cup Jobs] /\ at'[r] = Idle /\ \A s \in Runners \ {r} : at'[s] = at[s]
  BY <1>1 DEF RunInv, TypeOK
<1>4. TypeOK' /\ (dir.there => Complete(dir))'
  BY <1>1, <1>2, <1>3 DEF RunInv, TypeOK
<1>5. Built(r)'
  <2>1. at'[r].pc = "idle"
    BY <1>3, IdleFacts
  <2>. QED
    BY <2>1 DEF Built
<1>. QED
  BY <1>1, <1>3, <1>4, <1>5, OwnStep
----------------------------------------------------------------------------
(* What is not a run *)

\* Nothing else writes the directories, and nothing else starts while an operation is under way.
OtherSteps == \/ SetBackup \/ TimePasses
              \/ RestoreBegin \/ RestoreStep \/ FinishStep \/ FinishFails \/ CatchFails
              \/ TunnelRead \/ WriteEnv

LEMMA OthersKeep ==
  ASSUME RunInv, OneAtATime, OtherSteps
  PROVE  RunInv' /\ UNCHANGED <<dir, new, old, snaps, run, at>> /\ (faults' = faults \/ (faults < MaxFaults /\ faults' = faults + 1))
<1>1. UNCHANGED <<dir, new, old, snaps, run>> /\ (faults' = faults \/ (faults < MaxFaults /\ faults' = faults + 1))
  BY DEF OtherSteps, SetBackup, TimePasses, RestoreBegin, RestoreStep, RestoreOpen, RestoreStage, RestoreEnv, RestoreFails,
         FinishStep, Stop, StartAgain, Swap, FinishFails, Catch, CatchFails, TunnelRead, WriteEnv, backups, trees
<1>2. CASE SetBackup \/ TimePasses
  <2>1. UNCHANGED <<at, restore, finish, tunnel>>
    BY <1>2 DEF SetBackup, TimePasses, box
  <2>2. Exclusive'
    BY <2>1 DEF RunInv, Exclusive
  <2>. QED
    BY <1>1, <2>1, <2>2, BesideRuns
<1>3. CASE RestoreBegin \/ TunnelRead
  <2>1. UNCHANGED <<at, finish>> /\ (UNCHANGED restore \/ UNCHANGED tunnel)
    BY <1>3 DEF RestoreBegin, TunnelRead, backups
  <2>2. Alone
    BY <1>3 DEF RestoreBegin, TunnelRead
  <2>3. Exclusive'
    BY <2>1, <2>2 DEF Alone, Exclusive
  <2>. QED
    BY <1>1, <2>1, <2>3, BesideRuns
<1>4. CASE RestoreStep
  <2>1. restore # Idle /\ UNCHANGED <<at, tunnel>> /\ (UNCHANGED finish \/ restore' = Idle)
    BY <1>4, IdleFacts DEF RestoreStep, RestoreOpen, RestoreStage, RestoreEnv, RestoreFails, backups
  <2>2. Exclusive'
    BY <2>1 DEF RunInv, Exclusive
  <2>. QED
    BY <1>1, <2>1, <2>2, BesideRuns
<1>5. CASE FinishStep \/ FinishFails \/ CatchFails
  <2>1. finish # Idle
    BY <1>5, IdleFacts DEF FinishStep, Stop, StartAgain, Swap, FinishFails, Catch, CatchFails
  <2>2. restore = Idle /\ tunnel = Idle /\ \A r \in Runners : at[r] = Idle
    BY <2>1 DEF RunInv, Exclusive
  <2>3. at' = at /\ restore' = Idle /\ tunnel' = Idle
    <3>1. CASE Stop
      <4>1. at' = [r \in Runners |-> Idle] /\ restore' = Idle /\ tunnel' = Idle
        BY <2>2, <3>1 DEF Stop
      <4>2. at = [r \in Runners |-> Idle]
        BY <2>2 DEF RunInv, TypeOK
      <4>. QED
        BY <4>1, <4>2
    <3>2. CASE ~Stop
      BY <1>5, <2>2, <3>2 DEF FinishStep, StartAgain, Swap, FinishFails, Catch, CatchFails, backups
    <3>. QED
      BY <3>1, <3>2
  <2>4. Exclusive'
    BY <2>2, <2>3 DEF Exclusive
  <2>. QED
    BY <1>1, <2>3, <2>4, BesideRuns
<1>6. CASE WriteEnv
  <2>1. UNCHANGED <<at, restore, finish>> /\ tunnel # Idle /\ tunnel' = Idle
    BY <1>6, IdleFacts DEF WriteEnv, backups
  <2>2. Exclusive'
    BY <2>1 DEF RunInv, Exclusive
  <2>. QED
    BY <1>1, <2>1, <2>2, BesideRuns
<1>. QED
  BY <1>2, <1>3, <1>4, <1>5, <1>6 DEF OtherSteps

LEMMA RunInit == Init => RunInv
<1> SUFFICES ASSUME Init PROVE RunInv
  OBVIOUS
<1>1. \A r \in Runners : at[r] = Idle /\ at[r].pc = "idle"
  BY IdleFacts DEF Init
<1>2. TypeOK /\ ~dir.there
  BY TreeFacts DEF Init, TypeOK
<1>3. Exclusive
  BY <1>1 DEF Init, Exclusive
<1>4. \A r \in Runners : Built(r)
  BY <1>1 DEF Built
<1>. QED
  BY <1>2, <1>3, <1>4 DEF RunInv

LEMMA RunNext == ASSUME RunInv, OneAtATime, [Next]_vars PROVE RunInv'
<1>1. CASE UNCHANGED vars
  BY <1>1, BesideRuns DEF vars, RunInv, Exclusive
<1>2. ASSUME NEW r \in Runners, Begin(r) \/ RunStep(r) \/ RunFails(r) \/ Crash(r) PROVE RunInv'
  BY <1>2, BeginKeeps, NewKeeps, CopyKeeps, ManifestKeeps, SwapKeeps, SnapshotKeeps, EndKeeps DEF RunStep
<1>3. CASE OtherSteps
  BY <1>3, OthersKeep
<1>. QED
  BY <1>1, <1>2, <1>3 DEF Next, OtherSteps

\* For any files, runners, snapshots kept and failures, while operations do not overlap: what restore reads and
\* every snapshot of it is one whole backup.
THEOREM BackupsAreWhole == ASSUME OneAtATime PROVE Spec => []DirIsWhole
<1>1. Init => RunInv
  BY RunInit
<1>2. RunInv /\ [Next]_vars => RunInv'
  BY RunNext
<1>3. RunInv => DirIsWhole
  <2> SUFFICES ASSUME RunInv PROVE DirIsWhole
    OBVIOUS
  <2>1. dir.there => Whole(dir)
    BY CompleteIsWhole DEF RunInv
  <2>2. ASSUME NEW i \in 1 .. Len(snaps) PROVE Whole(snaps[i])
    <3>1. snaps \in Seq(Wholes)
      BY DEF RunInv, TypeOK
    <3>2. snaps[i] \in Wholes
      BY <3>1, ElementOfSeq, Zenon
    <3>. QED
      BY <3>2, CompleteIsWhole DEF Wholes
  <2>. QED
    BY <2>1, <2>2 DEF DirIsWhole
<1>. QED
  BY <1>1, <1>2, <1>3, PTL DEF Spec
----------------------------------------------------------------------------
(* The last whole backup *)

\* Nothing of another run is ever in the way.
LEMMA NotStuck == ASSUME RunInv, NEW r \in Runners PROVE ~Stuck(r)
BY DEF RunInv, Built, Stuck, Complete

LEMMA LastOwn ==
  ASSUME RunInv, NEW r \in Runners, at[r] # Idle, \A s \in Runners \ {r} : at'[s] = at[s],
         faults' \in Nat, LastAt(at[r].pc)'
  PROVE  LastInv'
<1>1. \A s \in Runners \ {r} : at'[s] = Idle
  BY DEF RunInv, Exclusive
<1>2. (\A s \in Runners : at'[s] = Idle) => at'[r].pc = "idle"
  BY IdleFacts
<1>. QED
  BY <1>1, <1>2 DEF LastInv

\* A step of a run from one point to the next.
LEMMA LastStep ==
  ASSUME RunInv, LastInv, NEW r \in Runners, RunStep(r), at[r].pc # "prune"
  PROVE  LastInv'
<1>1. faults' = faults /\ faults' \in Nat
  BY IdleFacts DEF RunStep, ClearNew, MakeNew, Copy, WriteManifest, ClearOld, SetAside, SwapIn, TakeSnapshot, Prune, LastInv
<1>2. at[r] # Idle /\ at[r] \in Jobs /\ \A s \in Runners \ {r} : at'[s] = at[s]
  BY IdleFacts DEF RunStep, ClearNew, MakeNew, Copy, WriteManifest, ClearOld, SetAside, SwapIn, TakeSnapshot, Prune,
         Step, RunInv, TypeOK
<1>3. LastAt(at[r].pc)
  BY <1>2 DEF LastInv
<1>4. CASE ClearNew(r) \/ MakeNew(r) \/ Copy(r) \/ WriteManifest(r)
  <2>1. /\ at[r].pc \in {"rm .new", "mkdir", "copy"} /\ at'[r].pc \in {"mkdir", "copy", "rm .old"}
        /\ UNCHANGED <<dir, old, snaps>>
    <3>1. CASE Copy(r)
      <4>1. /\ at[r].pc = "copy" /\ UNCHANGED <<dir, old, snaps>>
            /\ \/ at' = [at EXCEPT ![r].i = @ + 1, ![r].lists = @ \cup {Order[at[r].i]}]
               \/ at' = [at EXCEPT ![r].i = @ + 1]
        BY <3>1 DEF Copy
      <4>2. at[r] \in Jobs /\ DOMAIN at = Runners
        BY <1>2 DEF RunInv, TypeOK
      <4>3. at'[r].pc = at[r].pc
        <5>1. CASE at' = [at EXCEPT ![r].i = @ + 1, ![r].lists = @ \cup {Order[at[r].i]}]
          BY <4>2, <5>1 DEF Jobs
        <5>2. CASE at' = [at EXCEPT ![r].i = @ + 1]
          BY <4>2, <5>2 DEF Jobs
        <5>. QED
          BY <4>1, <5>1, <5>2
      <4>. QED
        BY <4>1, <4>3
    <3>2. CASE ClearNew(r) \/ MakeNew(r) \/ WriteManifest(r)
      BY <3>2, StepFacts DEF ClearNew, MakeNew, WriteManifest, PCs, RunInv
    <3>. QED
      BY <1>4, <3>1, <3>2
  <2>2. LastAt(at[r].pc)'
    BY <1>1, <1>3, <2>1 DEF LastAt, Away, Spent
  <2>. QED
    BY <1>1, <1>2, <2>2, LastOwn
<1>5. CASE ClearOld(r)
  <2>1. /\ UNCHANGED <<dir, snaps>>
        /\ (at[r].pc = "rm .old" /\ at'[r].pc = "set aside") \/ at'[r].pc = "snapshot"
    BY <1>5, StepFacts DEF ClearOld, PCs, RunInv
  <2>2. LastAt(at[r].pc)'
    BY <1>1, <1>3, <2>1 DEF LastAt, Away, Spent
  <2>. QED
    BY <1>1, <1>2, <2>2, LastOwn
<1>6. CASE SetAside(r)
  <2>1. /\ at[r].pc = "set aside" /\ at'[r].pc = "swap in" /\ UNCHANGED snaps
        /\ (old' = dir /\ dir.there) \/ (~dir.there /\ UNCHANGED <<dir, old>>)
    BY <1>6, StepFacts DEF SetAside, PCs, RunInv
  <2>2. LastAt(at[r].pc)'
    BY <1>1, <1>3, <2>1 DEF LastAt, Away, Spent, RunInv
  <2>. QED
    BY <1>1, <1>2, <2>2, LastOwn
<1>7. CASE SwapIn(r) \/ TakeSnapshot(r)
  <2>1. at'[r].pc \in {"rm .old again", "prune"}
    BY <1>7, StepFacts DEF SwapIn, TakeSnapshot, PCs, RunInv
  <2>2. LastAt(at[r].pc)'
    BY <2>1 DEF LastAt
  <2>. QED
    BY <1>1, <1>2, <2>2, LastOwn
<1>. QED
  BY <1>4, <1>5, <1>6, <1>7 DEF RunStep, Prune

\* The end of a run: with the directory away it can only have died before the second rename, and the old one is whole.
LEMMA LastEnd ==
  ASSUME RunInv, LastInv, MaxFaults <= 1, NEW r \in Runners, Prune(r) \/ RunFails(r) \/ Crash(r)
  PROVE  LastInv'
<1>1. /\ at[r] # Idle /\ at' = [at EXCEPT ![r] = Idle] /\ UNCHANGED <<dir, new, old>>
  BY IdleFacts DEF Prune, RunFails, Crash, trees
<1>2. at'[r] = Idle /\ at'[r].pc = "idle" /\ at[r] \in Jobs /\ \A s \in Runners \ {r} : at'[s] = at[s]
  BY <1>1, IdleFacts DEF RunInv, TypeOK
<1>3. CASE Prune(r)
  <2>1. faults' = 0 /\ at[r].pc = "prune"
    BY <1>3 DEF Prune
  <2>2. dir'.there
    BY <1>1, <2>1 DEF RunInv, Built, Complete
  <2>3. LastAt(at[r].pc)'
    BY <2>2 DEF LastAt, Away
  <2>. QED
    BY <1>1, <1>2, <2>1, <2>3, LastOwn
<1>4. CASE RunFails(r) \/ Crash(r)
  <2>1. faults < MaxFaults /\ faults' = faults + 1 /\ UNCHANGED snaps
    BY <1>4, NotStuck DEF RunFails, Crash
  <2>2. faults \in Nat /\ MaxFaults \in Nat /\ MaxFaults <= 1
    BY BackupAssumption DEF LastInv
  <2>3. faults' \in Nat /\ faults' >= MaxFaults /\ ~(faults >= MaxFaults)
    BY <2>1, <2>2
  <2>4. Away => at[r].pc \notin {"rm .old again", "snapshot", "prune"}
    BY DEF RunInv, Built, Complete, Away
  <2>5. LastAt(at[r].pc) /\ at[r].pc \in PCs
    BY <1>1, <1>2 DEF LastInv, Jobs, PCs
  <2>6. Away => Complete(old)
    BY <2>3, <2>4, <2>5 DEF LastAt, Spent, PCs
  <2>7. LastAt(at[r].pc)'
    BY <1>1, <2>1, <2>3, <2>6 DEF LastAt, Away, Spent
  <2>. QED
    BY <1>1, <1>2, <2>3, <2>7, LastOwn
<1>. QED
  BY <1>3, <1>4

LEMMA LastNext ==
  ASSUME RunInv, LastInv, OneAtATime, MaxFaults <= 1, [Next]_vars
  PROVE  LastInv'
<1>1. CASE UNCHANGED vars
  BY <1>1 DEF vars, LastInv, LastAt, Away, Spent
<1>2. ASSUME NEW r \in Runners, Begin(r) PROVE LastInv'
  <2>1. UNCHANGED <<dir, old, snaps, faults>> /\ \A s \in Runners : at[s] = Idle
    BY <1>2 DEF Begin, trees, Alone
  <2>2. at'[r].pc = "rm .new" /\ at'[r] # Idle /\ \A s \in Runners \ {r} : at'[s] = Idle
    <3>1. PICK a : at' = [at EXCEPT ![r] = a] /\ a = [pc |-> "rm .new", run |-> run', i |-> 1, lists |-> {}]
      BY <1>2 DEF Begin
    <3>2. a.pc = "rm .new" /\ at'[r] = a /\ \A s \in Runners \ {r} : at'[s] = at[s]
      BY <3>1 DEF RunInv, TypeOK
    <3>. QED
      BY <2>1, <3>2, IdleFacts
  <2>3. LastAt("idle") /\ faults \in Nat
    BY <2>1 DEF LastInv
  <2>4. LastAt(at[r].pc)'
    BY <2>1, <2>2, <2>3 DEF LastAt, Away, Spent
  <2>. QED
    BY <2>1, <2>2, <2>3, <2>4 DEF LastInv
<1>3. ASSUME NEW r \in Runners, RunStep(r) \/ RunFails(r) \/ Crash(r) PROVE LastInv'
  <2>1. CASE RunStep(r) /\ at[r].pc # "prune"
    BY <2>1, LastStep
  <2>2. CASE RunStep(r) /\ at[r].pc = "prune"
    <3>1. Prune(r)
      BY <2>2 DEF RunStep, ClearNew, MakeNew, Copy, WriteManifest, ClearOld, SetAside, SwapIn, TakeSnapshot, Step
    <3>. QED
      BY <3>1, LastEnd
  <2>. QED
    BY <1>3, <2>1, <2>2, LastEnd
<1>4. CASE OtherSteps
  <2>1. UNCHANGED <<dir, old, snaps, at>> /\ (faults' = faults \/ (faults < MaxFaults /\ faults' = faults + 1))
    BY <1>4, OthersKeep
  <2>2. faults' \in Nat /\ (Spent => Spent')
    BY <2>1, BackupAssumption DEF LastInv, Spent
  <2>3. \A pc : LastAt(pc) => LastAt(pc)'
    BY <2>1, <2>2 DEF LastAt, Away
  <2>. QED
    BY <2>1, <2>2, <2>3 DEF LastInv
<1>. QED
  BY <1>1, <1>2, <1>3, <1>4 DEF Next, OtherSteps

\* For any files, runners and snapshots kept, with at most one failure between two backups that end well: after
\* the first backup the dataset's own tree always holds a whole one.
THEOREM AWholeBackupStays == ASSUME OneAtATime, MaxFaults <= 1 PROVE Spec => []SomeWhole
<1>1. Init => RunInv /\ LastInv
  <2>1. Init => LastInv
    BY IdleFacts DEF Init, LastInv, LastAt, Away
  <2>. QED
    BY <2>1, RunInit
<1>2. RunInv /\ LastInv /\ [Next]_vars => (RunInv /\ LastInv)'
  BY RunNext, LastNext
<1>3. RunInv /\ LastInv => SomeWhole
  <2> SUFFICES ASSUME RunInv, LastInv, snaps # <<>> PROVE \E t \in {dir, new, old} : Complete(t)
    BY CompleteIsWhole DEF SomeWhole
  <2>1. CASE dir.there
    BY <2>1 DEF RunInv
  <2>2. CASE ~dir.there /\ \A r \in Runners : at[r] = Idle
    BY <2>2 DEF LastInv, LastAt, Away
  <2>3. ASSUME ~dir.there, NEW r \in Runners, at[r] # Idle PROVE \E t \in {dir, new, old} : Complete(t)
    <3>1. LastAt(at[r].pc) /\ at[r] \in Jobs /\ Built(r)
      BY <2>3 DEF LastInv, RunInv, TypeOK
    <3>2. at[r].pc \in PCs
      BY <3>1 DEF Jobs, PCs
    <3>. QED
      BY <2>3, <3>1, <3>2 DEF LastAt, Away, Built, PCs
  <2>. QED
    BY <2>1, <2>2, <2>3
<1>. QED
  BY <1>1, <1>2, <1>3, PTL DEF Spec
----------------------------------------------------------------------------
(* A restore *)

LEMMA EnvFacts == Order[1] \in Files /\ "token" \notin Files /\ "image" \notin Files
<1>1. 1 \in 1 .. Len(Order)
  BY BackupAssumption
<1>2. Order[1] \in Files
  BY <1>1 DEF Files
<1>3. Files \cap {"token", "image"} = {}
  BY BackupAssumption
<1>. QED
  BY <1>2, <1>3

LEMMA OfFacts == ASSUME NEW fs \in SUBSET Files, NEW n \in Runs, NEW e \in Of(fs, n)
                 PROVE  e[1] \in fs /\ e[2] = n /\ e = <<e[1], n>>
BY DEF Of

\* Steps that leave the files of the box and the operations on them alone.
LEMMA BesideRestore ==
  ASSUME RestoreInv, UNCHANGED <<live, staged, restore, finish, tunnel>>, restore = Idle \/ UNCHANGED dir
  PROVE  RestoreInv'
<1>1. RestoreTypes' /\ FinishHolds'
  BY DEF RestoreInv, RestoreTypes, FinishHolds, FinishOf
<1>2. RestoreHolds'
  BY DEF RestoreInv, RestoreHolds, RestoreOf
<1>. QED
  BY <1>1, <1>2 DEF RestoreInv

LEMMA RunsBeside ==
  ASSUME RunInv, RestoreInv, OneAtATime, NEW r \in Runners, Begin(r) \/ RunStep(r) \/ RunFails(r) \/ Crash(r)
  PROVE  RestoreInv' /\ live' = live
<1>1. UNCHANGED <<live, staged, restore, finish, tunnel>>
  BY DEF Begin, RunStep, ClearNew, MakeNew, Copy, WriteManifest, ClearOld, SetAside, SwapIn, TakeSnapshot, Prune, RunFails, Crash, box
<1>2. restore = Idle \/ UNCHANGED dir
  <2>1. CASE Begin(r)
    BY <2>1 DEF Begin, trees
  <2>2. CASE RunStep(r) \/ RunFails(r) \/ Crash(r)
    <3>1. at[r] # Idle
      BY <2>2, IdleFacts DEF RunStep, ClearNew, MakeNew, Copy, WriteManifest, ClearOld, SetAside, SwapIn, TakeSnapshot, Prune,
             RunFails, Crash, Step
    <3>. QED
      BY <3>1 DEF RunInv, Exclusive
  <2>. QED
    BY <2>1, <2>2
<1>. QED
  BY <1>1, <1>2, BesideRestore

\* The manifest names the backup that is in the directory.
LEMMA RestoreBeginKeeps == ASSUME RunInv, RestoreInv, OneAtATime, RestoreBegin PROVE RestoreInv' /\ live' = live
<1>1. PICK fs \in ReadManifest(dir) :
        restore' = [pc |-> "open", todo |-> fs, lists |-> fs, opened |-> {}, was |-> live, strays |-> Strays]
  BY DEF RestoreBegin
<1>2. UNCHANGED <<dir, live, staged, finish, tunnel>> /\ finish = Idle
  BY DEF RestoreBegin, backups, trees, Alone
<1>3. Complete(dir)
  BY DEF ReadManifest, RunInv
<1>4. PICK n \in Runs : fs \in SUBSET Files /\ Files \ Optional \subseteq fs /\ dir.files = Of(fs, n)
  BY <1>3 DEF Complete, ReadManifest
<1>5. /\ restore' \in Restores /\ restore'.todo = fs /\ restore'.lists = fs /\ restore'.opened = {}
      /\ restore'.was = live /\ restore'.strays = Strays
  BY <1>1, <1>4 DEF RestoreInv, RestoreTypes, Restores, Strays
<1>6. RestoreTypes' /\ FinishHolds'
  BY <1>2, <1>5 DEF RestoreInv, RestoreTypes, FinishHolds
<1>7. RestoreOf(n)'
  BY <1>2, <1>4, <1>5 DEF RestoreOf
<1>8. RestoreHolds'
  BY <1>2, <1>4, <1>5, <1>7 DEF RestoreHolds, Strays
<1>. QED
  BY <1>2, <1>6, <1>8 DEF RestoreInv

LEMMA RestoreOpenKeeps == ASSUME RunInv, RestoreInv, RestoreOpen PROVE RestoreInv' /\ live' = live
<1>1. restore.pc = "open" /\ UNCHANGED <<dir, live, staged, finish, tunnel>>
  BY DEF RestoreOpen, backups, trees
<1>2. restore # Idle /\ restore \in Restores
  BY <1>1, IdleFacts DEF RestoreInv, RestoreTypes
<1>3. PICK e \in dir.files : e[1] \in restore.todo /\ restore' = [restore EXCEPT !.todo = @ \ {e[1]}, !.opened = @ \cup {e}]
  BY DEF RestoreOpen, First
<1>4. PICK n \in Runs : RestoreOf(n)
  BY <1>2 DEF RestoreInv, RestoreHolds
<1>. DEFINE lists == restore.lists
<1>5. /\ lists \in SUBSET Files /\ restore.todo \in SUBSET Files
      /\ restore.opened \in SUBSET (Files \X Runs) /\ restore.was \in Lives /\ restore.strays \in SUBSET Files
  BY <1>2 DEF Restores
<1>6. e \in Of(lists, n)
  BY <1>3, <1>4 DEF RestoreOf
<1>7. e[1] \in lists /\ e = <<e[1], n>> /\ e \in Files \X Runs
  BY <1>5, <1>6, OfFacts
<1>8. /\ restore' \in Restores /\ restore'.todo = restore.todo \ {e[1]} /\ restore'.opened = restore.opened \cup {e}
      /\ restore'.lists = lists /\ restore'.was = restore.was /\ restore'.strays = restore.strays
  BY <1>2, <1>3, <1>5, <1>7 DEF Restores
<1>9. RestoreTypes' /\ FinishHolds'
  BY <1>1, <1>8 DEF RestoreInv, RestoreTypes, FinishHolds, FinishOf
<1>10. RestoreOf(n)'
  BY <1>1, <1>4, <1>6, <1>7, <1>8 DEF RestoreOf
<1>11. RestoreHolds'
  BY <1>1, <1>2, <1>8, <1>10 DEF RestoreInv, RestoreHolds
<1>. QED
  BY <1>1, <1>9, <1>11 DEF RestoreInv

LEMMA RestoreStageKeeps == ASSUME RunInv, RestoreInv, RestoreStage PROVE RestoreInv' /\ live' = live
<1>1. restore.pc \in {"open", "stage"} /\ restore.todo = {} /\ UNCHANGED <<dir, live, finish, tunnel>>
  BY DEF RestoreStage, backups, trees
<1>2. restore # Idle /\ restore \in Restores /\ finish = Idle
  BY <1>1, IdleFacts DEF RestoreInv, RestoreTypes, RunInv, Exclusive
<1>3. PICK e \in restore.opened : /\ restore' = [restore EXCEPT !.pc = "stage", !.opened = @ \ {e}]
                                  /\ staged' = [staged EXCEPT ![e[1]] = e[2]]
  BY DEF RestoreStage, WriteNoFollow
<1>4. PICK n \in Runs : RestoreOf(n)
  BY <1>2 DEF RestoreInv, RestoreHolds
<1>. DEFINE lists == restore.lists
<1>5. /\ lists \in SUBSET Files /\ restore.todo \in SUBSET Files
      /\ restore.opened \in SUBSET (Files \X Runs) /\ restore.was \in Lives /\ restore.strays \in SUBSET Files
  BY <1>2 DEF Restores
<1>6. e \in Of(lists, n)
  BY <1>3, <1>4 DEF RestoreOf
<1>7. e[1] \in lists /\ e[1] \in Files /\ e = <<e[1], n>> /\ e[2] = n /\ n \in Nat
  BY <1>5, <1>6, OfFacts DEF Runs
<1>8. /\ restore' \in Restores /\ restore'.todo = {} /\ restore'.opened = restore.opened \ {e}
      /\ restore'.lists = lists /\ restore'.was = restore.was /\ restore'.strays = restore.strays
  BY <1>1, <1>2, <1>3, <1>5 DEF Restores
<1>9. staged' \in [Files -> Nat] /\ staged'[e[1]] = n /\ \A f \in Files \ {e[1]} : staged'[f] = staged[f]
  BY <1>3, <1>7 DEF RestoreInv, RestoreTypes
<1>10. RestoreTypes' /\ FinishHolds'
  BY <1>1, <1>2, <1>8, <1>9 DEF RestoreInv, RestoreTypes, FinishHolds
<1>11. RestoreOf(n)'
  <2>1. \A f \in lists : <<f, n>> \in restore.opened \/ staged[f] = n
    BY <1>1, <1>4 DEF RestoreOf
  <2>2. \A f \in lists : f = e[1] \/ (<<f, n>> # e /\ staged'[f] = staged[f])
    BY <1>5, <1>7, <1>9
  <2>3. \A f \in lists : <<f, n>> \in restore'.opened \/ staged'[f] = n
    BY <1>8, <1>9, <2>1, <2>2
  <2>. QED
    BY <1>1, <1>4, <1>8, <2>3 DEF RestoreOf
<1>12. RestoreHolds'
  BY <1>1, <1>2, <1>7, <1>8, <1>9, <1>11 DEF RestoreInv, RestoreHolds
<1>. QED
  BY <1>1, <1>10, <1>12 DEF RestoreInv

\* All is staged; of the .env only the token may change.
LEMMA RestoreEnvKeeps == ASSUME RunInv, RestoreInv, RestoreEnv PROVE RestoreInv' /\ live'["image"] = live["image"]
<1>1. /\ restore.pc = "stage" /\ restore.todo = {} /\ restore.opened = {} /\ restore' = Idle
      /\ finish' = [pc |-> "stop", lists |-> restore.lists, was |-> restore.was, strays |-> restore.strays]
      /\ UNCHANGED <<staged, tunnel>>
  BY DEF RestoreEnv
<1>2. restore # Idle /\ restore \in Restores
  BY <1>1, IdleFacts DEF RestoreInv, RestoreTypes
<1>3. PICK n \in Runs : RestoreOf(n)
  BY <1>2 DEF RestoreInv, RestoreHolds
<1>4. PICK m : m = staged[Order[1]]
  OBVIOUS
<1>5. m \in Nat
  BY <1>4, EnvFacts DEF RestoreInv, RestoreTypes
<1>0. PICK keys \in SUBSET {"token"} : live' = [k \in DOMAIN live |-> IF k \in keys THEN m ELSE live[k]]
  BY <1>4 DEF RestoreEnv, MergeDriveEnv, Allowed
<1>6. live' \in Lives /\ live'["image"] = live["image"] /\ \A f \in Files : live'[f] = live[f]
  BY <1>0, <1>5, EnvFacts DEF RestoreInv, RestoreTypes, Lives
<1>7. /\ finish' \in Finishes /\ finish'.lists = restore.lists
      /\ finish'.was = restore.was /\ finish'.strays = restore.strays
  BY <1>1, <1>2 DEF Restores, Finishes
<1>8. restore.lists \in SUBSET Files /\ \A f \in restore.lists : staged[f] = n
  BY <1>1, <1>2, <1>3 DEF RestoreOf, Restores
<1>9. RestoreTypes' /\ RestoreHolds'
  BY <1>1, <1>6, <1>7 DEF RestoreInv, RestoreTypes, RestoreHolds
<1>10. FinishHolds'
  BY <1>1, <1>2, <1>6, <1>7, <1>8 DEF RestoreInv, RestoreHolds, FinishHolds, FinishOf
<1>. QED
  BY <1>1, <1>6, <1>9, <1>10 DEF RestoreInv

LEMMA RestoreFailsKeeps == ASSUME RestoreInv, RestoreFails PROVE RestoreInv' /\ live' = live
<1>1. restore' = Idle /\ UNCHANGED <<live, staged, finish, tunnel>>
  BY DEF RestoreFails
<1>2. RestoreTypes' /\ RestoreHolds' /\ FinishHolds'
  BY <1>1 DEF RestoreInv, RestoreTypes, RestoreHolds, FinishHolds, FinishOf
<1>. QED
  BY <1>1, <1>2 DEF RestoreInv

LEMMA StopKeeps == ASSUME RunInv, RestoreInv, Stop PROVE RestoreInv' /\ live' = live
<1>1. /\ finish.pc = "stop" /\ finish' = [finish EXCEPT !.pc = "swap"] /\ restore' = Idle /\ tunnel' = Idle
      /\ UNCHANGED <<live, staged>>
  BY DEF Stop
<1>2. finish # Idle /\ finish \in Finishes
  BY <1>1, IdleFacts DEF RestoreInv, RestoreTypes
<1>3. /\ finish' \in Finishes /\ finish'.lists = finish.lists
      /\ finish'.was = finish.was /\ finish'.strays = finish.strays
  BY <1>1, <1>2 DEF Finishes
<1>4. RestoreTypes' /\ RestoreHolds'
  BY <1>1, <1>3 DEF RestoreInv, RestoreTypes, RestoreHolds
<1>5. FinishHolds'
  BY <1>1, <1>2, <1>3 DEF RestoreInv, FinishHolds, FinishOf
<1>. QED
  BY <1>1, <1>4, <1>5 DEF RestoreInv

\* What is put in place is of the backup, or what an earlier restore has left of a file that is not listed.
LEMMA FinishSwapKeeps ==
  ASSUME RunInv, RestoreInv, NEW f \in Files, Swap(f)
  PROVE  RestoreInv' /\ live'["image"] = live["image"]
<1>1. /\ finish.pc = "swap" /\ f \in Swappable /\ UNCHANGED <<restore, finish, tunnel>>
      /\ live' = [live EXCEPT ![f] = staged[f]] /\ staged' = [staged EXCEPT ![f] = 0]
  BY DEF Swap, First
<1>2. finish # Idle /\ finish \in Finishes /\ restore = Idle
  BY <1>1, IdleFacts DEF RestoreInv, RestoreTypes, RunInv, Exclusive
<1>3. /\ staged[f] # 0 /\ staged[f] \in Nat
      /\ f \in finish.lists \/ (f # Passdb /\ f \in finish.strays)
  BY <1>1, <1>2 DEF Swappable, RestoreInv, RestoreTypes, FinishHolds
<1>4. PICK n \in Runs : FinishOf(n)
  BY <1>2 DEF RestoreInv, FinishHolds
<1>5. f \in finish.lists => staged[f] = n
  BY <1>3, <1>4 DEF FinishOf
<1>6. /\ live' \in Lives /\ live'[f] = staged[f] /\ \A k \in (Files \cup {"image"}) \ {f} : live'[k] = live[k]
      /\ staged' \in [Files -> Nat] /\ staged'[f] = 0 /\ \A g \in Files \ {f} : staged'[g] = staged[g]
  BY <1>1, <1>3 DEF RestoreInv, RestoreTypes, Lives
<1>7. live'["image"] = live["image"]
  BY <1>6, EnvFacts
<1>8. RestoreTypes' /\ RestoreHolds'
  BY <1>1, <1>2, <1>6 DEF RestoreInv, RestoreTypes, RestoreHolds
<1>9. finish.lists \in SUBSET Files
  BY <1>2 DEF Finishes
<1>10. FinishOf(n)'
  BY <1>1, <1>4, <1>5, <1>6, <1>9 DEF FinishOf
<1>11. FinishHolds'
  BY <1>1, <1>2, <1>3, <1>6, <1>10 DEF RestoreInv, FinishHolds
<1>. QED
  BY <1>1, <1>7, <1>8, <1>11 DEF RestoreInv

LEMMA FinishEndKeeps ==
  ASSUME RestoreInv, StartAgain \/ FinishFails \/ Catch \/ CatchFails
  PROVE  RestoreInv' /\ live' = live
<1>1. UNCHANGED <<dir, live, staged, restore, tunnel>>
  BY DEF StartAgain, FinishFails, Catch, CatchFails, backups, trees
<1>2. CASE finish' = Idle
  <2>1. RestoreTypes' /\ RestoreHolds' /\ FinishHolds'
    BY <1>1, <1>2 DEF RestoreInv, RestoreTypes, RestoreHolds, RestoreOf, FinishHolds
  <2>. QED
    BY <1>1, <2>1 DEF RestoreInv
<1>3. CASE FinishFails
  <2>1. finish.pc \in {"stop", "swap"} /\ finish' = [finish EXCEPT !.pc = "catch"]
    BY <1>3 DEF FinishFails
  <2>2. finish # Idle /\ finish \in Finishes
    BY <2>1, IdleFacts DEF RestoreInv, RestoreTypes
  <2>3. /\ finish' \in Finishes /\ finish'.lists = finish.lists
        /\ finish'.was = finish.was /\ finish'.strays = finish.strays
    BY <2>1, <2>2 DEF Finishes
  <2>4. RestoreTypes' /\ RestoreHolds'
    BY <1>1, <2>3 DEF RestoreInv, RestoreTypes, RestoreHolds, RestoreOf
  <2>5. FinishHolds'
    BY <1>1, <2>2, <2>3 DEF RestoreInv, FinishHolds, FinishOf
  <2>. QED
    BY <1>1, <2>4, <2>5 DEF RestoreInv
<1>. QED
  BY <1>2, <1>3 DEF StartAgain, Catch, CatchFails

LEMMA TunnelKeeps ==
  ASSUME RunInv, RestoreInv, OneAtATime, TunnelRead \/ WriteEnv
  PROVE  RestoreInv' /\ live'["image"] = live["image"]
<1>1. UNCHANGED <<dir, staged, restore, finish>>
  BY DEF TunnelRead, WriteEnv, backups, trees
<1>2. CASE TunnelRead
  <2>1. tunnel' = [pc |-> "write", image |-> live["image"]] /\ UNCHANGED live
    BY <1>2 DEF TunnelRead
  <2>2. RestoreTypes' /\ RestoreHolds' /\ FinishHolds'
    BY <1>1, <2>1 DEF RestoreInv, RestoreTypes, RestoreHolds, RestoreOf, FinishHolds, FinishOf
  <2>. QED
    BY <2>1, <2>2 DEF RestoreInv
<1>3. CASE WriteEnv
  <2>1. tunnel.pc = "write" /\ tunnel' = Idle /\ live' = [live EXCEPT !["token"] = 0, !["image"] = tunnel.image]
    BY <1>3 DEF WriteEnv
  <2>2. tunnel # Idle /\ tunnel = [pc |-> "write", image |-> live["image"]]
    BY <2>1, IdleFacts DEF RestoreInv
  <2>3. tunnel.image = live["image"]
    BY <2>2
  <2>4. restore = Idle /\ finish = Idle
    BY <2>2 DEF RunInv, Exclusive
  <2>5. live' \in Lives /\ live'["image"] = live["image"]
    <3>1. DOMAIN live = Files \cup {"token", "image"} /\ \A k \in DOMAIN live : live[k] \in Nat
      BY DEF RestoreInv, RestoreTypes, Lives
    <3>2. DOMAIN live' = Files \cup {"token", "image"} /\ live' = [k \in Files \cup {"token", "image"} |-> live'[k]]
      BY <2>1, <3>1
    <3>3. live'["image"] = live["image"]
      BY <2>1, <2>3, <3>1
    <3>4. \A k \in Files \cup {"token", "image"} : live'[k] \in Nat
      BY <2>1, <2>3, <3>1
    <3>. QED
      BY <3>2, <3>3, <3>4 DEF Lives
  <2>6. RestoreTypes' /\ RestoreHolds' /\ FinishHolds'
    BY <1>1, <2>4, <2>5 DEF RestoreInv, RestoreTypes, RestoreHolds, FinishHolds
  <2>. QED
    BY <2>1, <2>5, <2>6 DEF RestoreInv
<1>. QED
  BY <1>2, <1>3

LEMMA RestoreNext ==
  ASSUME RunInv, RestoreInv, OneAtATime, [Next]_vars
  PROVE  RestoreInv' /\ live'["image"] = live["image"]
<1>1. CASE UNCHANGED vars
  BY <1>1, BesideRestore DEF vars
<1>2. ASSUME NEW r \in Runners, Begin(r) \/ RunStep(r) \/ RunFails(r) \/ Crash(r)
      PROVE  RestoreInv' /\ live'["image"] = live["image"]
  BY <1>2, RunsBeside
<1>3. CASE SetBackup \/ TimePasses
  BY <1>3, BesideRestore DEF SetBackup, TimePasses, box, trees
<1>4. CASE RestoreBegin \/ RestoreStep
  BY <1>4, RestoreBeginKeeps, RestoreOpenKeeps, RestoreStageKeeps, RestoreEnvKeeps, RestoreFailsKeeps DEF RestoreStep
<1>5. CASE FinishStep \/ FinishFails \/ CatchFails
  BY <1>5, StopKeeps, FinishSwapKeeps, FinishEndKeeps DEF FinishStep
<1>6. CASE TunnelRead \/ WriteEnv
  BY <1>6, TunnelKeeps
<1>. QED
  BY <1>1, <1>2, <1>3, <1>4, <1>5, <1>6 DEF Next

\* For any files, runners, failures and number of restores: a restore that ends well puts back the databases of
\* one backup, all its manifest lists, and no others but a drive's database that a failed restore had left staged.
THEOREM RestoresOneBackup == ASSUME OneAtATime PROVE Spec => RestoredIsBackup
<1>1. Init => RunInv /\ RestoreInv
  <2>1. Init => RestoreInv
    <3> SUFFICES ASSUME Init PROVE RestoreInv
      OBVIOUS
    <3>1. live \in Lives /\ staged \in [Files -> Nat] /\ restore = Idle /\ finish = Idle /\ tunnel = Idle
      BY DEF Init, Lives
    <3>. QED
      BY <3>1 DEF RestoreInv, RestoreTypes, RestoreHolds, FinishHolds
  <2>. QED
    BY <2>1, RunInit
<1>2. RunInv /\ RestoreInv /\ [Next]_vars => (RunInv /\ RestoreInv)'
  BY RunNext, RestoreNext
<1>3. RunInv /\ RestoreInv /\ [Next]_vars =>
        [/\ live'["image"] = live["image"]
         /\ StartAgain => \E n \in 1 .. Rounds : \A f \in Files :
              /\ f \in finish.lists => live'[f] = n
              /\ f \notin finish.lists /\ (f = Passdb \/ f \notin finish.strays) => live'[f] = finish.was[f]]_vars
  <2> SUFFICES ASSUME RunInv, RestoreInv, [Next]_vars
               PROVE  /\ live'["image"] = live["image"]
                      /\ StartAgain => \E n \in Runs : \A f \in Files :
                           /\ f \in finish.lists => live'[f] = n
                           /\ f \notin finish.lists /\ (f = Passdb \/ f \notin finish.strays) => live'[f] = finish.was[f]
    BY DEF Runs
  <2>1. live'["image"] = live["image"]
    BY RestoreNext
  <2>2. ASSUME StartAgain
        PROVE  \E n \in Runs : \A f \in Files :
                 /\ f \in finish.lists => live'[f] = n
                 /\ f \notin finish.lists /\ (f = Passdb \/ f \notin finish.strays) => live'[f] = finish.was[f]
    <3>1. finish.pc = "swap" /\ Swappable = {} /\ live' = live
      BY <2>2 DEF StartAgain
    <3>2. finish # Idle
      BY <3>1, IdleFacts
    <3>3. PICK n \in Runs : FinishOf(n)
      BY <3>2 DEF RestoreInv, FinishHolds
    <3>4. \A f \in Files \cap finish.lists : staged[f] = 0
      BY <3>1 DEF Swappable
    <3>5. n # 0
      BY DEF Runs
    <3>6. \A f \in Files : f \in finish.lists => live[f] = n
      BY <3>3, <3>4, <3>5 DEF FinishOf
    <3>7. \A f \in Files : f \notin finish.lists /\ (f = Passdb \/ f \notin finish.strays) => live[f] = finish.was[f]
      BY <3>2 DEF RestoreInv, FinishHolds
    <3>. QED
      BY <3>1, <3>6, <3>7
  <2>. QED
    BY <2>1, <2>2
<1>. QED
  BY <1>1, <1>2, <1>3, PTL DEF Spec, RestoredIsBackup
=============================================================================
