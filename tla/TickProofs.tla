----------------------------- MODULE TickProofs -----------------------------
(***************************************************************************)
(* The two halves of the timer's tick.                                     *)
(*                                                                         *)
(* Scans: DoneIsTrue for any number of verbs in flight, scans and          *)
(* failures.  The argument: a reading is about a scan that was already     *)
(* there when every row it is used on was written, and a scan that ended   *)
(* clean stays so, however late the reading is used.                       *)
(*                                                                         *)
(* Snapshots: OutlivedByKeep and TakesOnlyChanges for any policy, any      *)
(* periods, any number of failures and whatever people do.  The argument:  *)
(* names in the tick's hand stay names of what they were, what is beyond   *)
(* the count is older than what makes room, and goes first and the oldest  *)
(* first, so nothing that goes is among the ones another is outlived by.   *)
(***************************************************************************)
EXTENDS ScanJobs, Snapshots, SequenceTheorems, FiniteSetTheorems, TLAPS

Kinds  == {"scrub", "resilver"}
States == {"running", "clean", "errors", "canceled"}

TypeOK ==
    /\ scans \in Seq([kind : Kinds, state : States])
    /\ jobs \in Seq([kind : Kinds, state : {"running", "done", "failed"}, scan : Nat])
    /\ loc \in [Actors -> {"idle", "read", "apply", "pools", "scrub", "note", "insert"}]
    /\ todo \in [Actors -> SUBSET Nat]
    /\ seen \in [Actors -> [kind : Kinds, state : States \cup {"none", "unreadable"}, no : Nat]]
    /\ mine \in [Actors -> Nat]

\* Every row names a scan there was, and so does a thread that is about to write one.
Written ==
    /\ \A i \in DOMAIN jobs : jobs[i].scan \in DOMAIN scans
    /\ \A c \in Actors : loc[c] \in {"note", "insert"} => mine[c] \in DOMAIN scans

\* The rows a reconcile goes through are rows, and what it has read of a clean scan is still
\* true, of a scan no older than those.
Readings ==
    \A c \in Actors :
        /\ todo[c] \subseteq DOMAIN jobs
        /\ loc[c] = "apply" /\ seen[c].state = "clean" =>
              /\ seen[c].no \in DOMAIN scans
              /\ scans[seen[c].no] = [kind |-> seen[c].kind, state |-> "clean"]
              /\ \A i \in todo[c] : jobs[i].scan <= seen[c].no

IInv == TypeOK /\ Written /\ Readings /\ DoneIsTrue
----------------------------------------------------------------------------
(* What ZFS does to its scans *)

\* Scans are only added, and one that ended clean stays as it is.
Grows == /\ Len(scans) <= Len(scans')
         /\ \A n \in 1..Len(scans) : scans[n].state = "clean" => scans'[n] = scans[n]

\* A scan that starts is the last, and cuts short only one that was running.
LEMMA StartsFacts ==
    ASSUME TypeOK, NEW kind \in Kinds, Starts(kind)
    PROVE  Grows /\ Len(scans') = Len(scans) + 1 /\ scans' \in Seq([kind : Kinds, state : States])
<1>. DEFINE new == [kind |-> kind, state |-> "running"]
            old == IF Running THEN [scans EXCEPT ![Len(scans)].state = "canceled"] ELSE scans
<1>0. scans \in Seq([kind : Kinds, state : States]) /\ Len(scans) \in Nat
  BY DEF TypeOK
<1>1. scans' = Append(old, new)
  BY DEF Starts
<1>2. /\ old \in Seq([kind : Kinds, state : States]) /\ Len(old) = Len(scans)
      /\ \A n \in 1..Len(scans) : scans[n].state = "clean" => old[n] = scans[n]
  <2>1. CASE ~Running
    BY <1>0, <2>1
  <2>2. CASE Running
    <3>1. Len(scans) \in 1..Len(scans) /\ scans[Len(scans)].state = "running"
      BY <1>0, <2>2 DEF Running, Line, NoLine
    <3>2. PICK o : o = [scans EXCEPT ![Len(scans)].state = "canceled"]
      OBVIOUS
    <3>3. scans[Len(scans)] \in [kind : Kinds, state : States]
      BY <1>0, <3>1, ElementOfSeq, Zenon
    <3>4. /\ o \in Seq([kind : Kinds, state : States]) /\ Len(o) = Len(scans)
          /\ \A n \in 1..Len(scans) : n # Len(scans) => o[n] = scans[n]
      BY <1>0, <3>1, <3>2, <3>3 DEF States
    <3>. QED
      BY <2>2, <3>1, <3>2, <3>4
  <2>. QED
    BY <2>1, <2>2
<1>3. new \in [kind : Kinds, state : States]
  BY DEF States
<1>. HIDE DEF old, new
<1>. QED
  BY <1>0, <1>1, <1>2, <1>3 DEF Grows

\* The scan that ends is the one that runs.
LEMMA EndsFacts ==
    ASSUME TypeOK, NEW how \in {"clean", "errors", "canceled"}, ScanEnds(how)
    PROVE  Grows /\ scans' \in Seq([kind : Kinds, state : States])
<1>0. scans \in Seq([kind : Kinds, state : States]) /\ Len(scans) \in Nat
  BY DEF TypeOK
<1>1. scans' = [scans EXCEPT ![Len(scans)].state = how] /\ Running
  BY DEF ScanEnds
<1>2. Len(scans) \in 1..Len(scans) /\ scans[Len(scans)].state = "running"
  BY <1>0, <1>1 DEF Running, Line, NoLine
<1>3. scans[Len(scans)] \in [kind : Kinds, state : States]
  BY <1>0, <1>2, ElementOfSeq, Zenon
<1>4. /\ scans' \in Seq([kind : Kinds, state : States]) /\ Len(scans') = Len(scans)
      /\ \A n \in 1..Len(scans) : n # Len(scans) => scans'[n] = scans[n]
  BY <1>0, <1>1, <1>2, <1>3 DEF States
<1>. QED
  BY <1>2, <1>4 DEF Grows

\* What the scan line says of a clean scan.
LEMMA LineFacts ==
    ASSUME TypeOK
    PROVE  /\ Line \in [kind : Kinds, state : States \cup {"none", "unreadable"}, no : Nat]
           /\ Line.state = "clean" => /\ Line.no = Len(scans) /\ Line.no \in 1..Len(scans)
                                      /\ scans[Line.no] = [kind |-> Line.kind, state |-> "clean"]
<1>0. scans \in Seq([kind : Kinds, state : States]) /\ Len(scans) \in Nat
  BY DEF TypeOK
<1>1. CASE scans = <<>>
  BY <1>1 DEF Line, NoLine, Kinds
<1>2. CASE scans # <<>>
  <2>. DEFINE last == scans[Len(scans)]
  <2>0. Len(scans) \in 1..Len(scans)
    BY <1>0, <1>2
  <2>1. Len(scans) \in 1..Len(scans) /\ last \in [kind : Kinds, state : States]
    BY <1>0, <2>0, ElementOfSeq, Zenon
  <2>2. last = [kind |-> last.kind, state |-> last.state]
    BY <2>1
  <2>3. Line = [kind |-> last.kind, state |-> last.state, no |-> Len(scans)]
    BY <1>2 DEF Line
  <2>4. Line.kind = last.kind /\ Line.state = last.state /\ Line.no = Len(scans)
    BY <2>3
  <2>. HIDE DEF last
  <2>5. Line \in [kind : Kinds, state : States \cup {"none", "unreadable"}, no : Nat]
    BY <1>0, <2>1, <2>3
  <2>. QED
    BY <2>1, <2>2, <2>4, <2>5 DEF last
<1>. QED
  BY <1>1, <1>2
----------------------------------------------------------------------------
(* The steps *)

\* A step that writes no row and goes through none: readings under way stay true while scans only grow.
LEMMA Beside ==
    ASSUME IInv, TypeOK', Grows, UNCHANGED <<jobs, todo, seen>>,
           \A c \in Actors : loc'[c] = "apply" => loc[c] = "apply",
           \A c \in Actors : loc'[c] \in {"note", "insert"} => mine'[c] \in 1..Len(scans')
    PROVE  IInv'
<1>0. /\ Len(scans) \in Nat /\ Len(scans') \in Nat /\ DOMAIN scans = 1..Len(scans) /\ DOMAIN scans' = 1..Len(scans')
      /\ \A n \in DOMAIN scans : n \in DOMAIN scans'
  BY DEF IInv, TypeOK, Grows
<1>1. Written'
  BY <1>0 DEF IInv, Written
<1>2. ASSUME NEW c \in Actors, loc'[c] = "apply", seen'[c].state = "clean"
      PROVE  /\ seen'[c].no \in DOMAIN scans' /\ scans'[seen'[c].no] = [kind |-> seen'[c].kind, state |-> "clean"]
             /\ \A i \in todo'[c] : jobs'[i].scan <= seen'[c].no
  <2>1. /\ seen[c].no \in DOMAIN scans /\ scans[seen[c].no] = [kind |-> seen[c].kind, state |-> "clean"]
        /\ \A i \in todo[c] : jobs[i].scan <= seen[c].no
    BY <1>2 DEF IInv, Readings
  <2>2. scans[seen[c].no].state = "clean"
    BY <2>1
  <2>. QED
    BY <1>0, <2>1, <2>2 DEF Grows
<1>3. Readings'
  BY <1>2 DEF IInv, Readings
<1>4. DoneIsTrue'
  <2> SUFFICES ASSUME NEW i \in DOMAIN jobs, jobs[i].state = "done"
               PROVE  \E n \in jobs[i].scan..Len(scans') : scans'[n] = [kind |-> jobs[i].kind, state |-> "clean"]
    BY DEF DoneIsTrue
  <2>1. PICK n \in jobs[i].scan..Len(scans) : scans[n] = [kind |-> jobs[i].kind, state |-> "clean"]
    BY DEF IInv, DoneIsTrue
  <2>2. jobs[i].scan \in 1..Len(scans)
    BY <1>0 DEF IInv, Written
  <2>3. n \in 1..Len(scans) /\ scans[n].state = "clean"
    BY <1>0, <2>1, <2>2
  <2>4. scans'[n] = scans[n] /\ n \in jobs[i].scan..Len(scans')
    BY <1>0, <2>1, <2>2, <2>3 DEF Grows
  <2>. QED
    BY <2>1, <2>4
<1>. QED
  BY <1>1, <1>3, <1>4 DEF IInv

\* Where a step has put one thread; the others are where they were.
LEMMA GotoFacts ==
    ASSUME TypeOK, NEW c \in Actors, NEW step, Goto(c, step)
    PROVE  loc' = [loc EXCEPT ![c] = step] /\ loc'[c] = step /\ \A d \in Actors \ {c} : loc'[d] = loc[d]
BY DEF TypeOK, Goto

\* What ZFS does by itself, and the interval people set.
LEMMA ZfsKeeps ==
    ASSUME IInv, \/ \E how \in {"clean", "errors", "canceled"} : ScanEnds(how)
                 \/ AutoResilver \/ IntervalPasses \/ \E i \in {"off", "monthly"} : SetInterval(i)
    PROVE  IInv'
<1>1. UNCHANGED <<jobs, loc, todo, seen, mine>>
  BY DEF ScanEnds, AutoResilver, IntervalPasses, SetInterval
<1>2. Grows /\ scans' \in Seq([kind : Kinds, state : States])
  <2>1. CASE \E how \in {"clean", "errors", "canceled"} : ScanEnds(how)
    BY <2>1, EndsFacts DEF IInv
  <2>2. CASE AutoResilver
    BY <2>2, StartsFacts DEF IInv, AutoResilver, Kinds
  <2>3. CASE IntervalPasses \/ \E i \in {"off", "monthly"} : SetInterval(i)
    BY <2>3 DEF IntervalPasses, SetInterval, Grows, IInv, TypeOK
  <2>. QED
    BY <2>1, <2>2, <2>3
<1>3. TypeOK'
  BY <1>1, <1>2 DEF IInv, TypeOK
<1>4. \A c \in Actors : loc'[c] \in {"note", "insert"} => mine'[c] \in 1..Len(scans')
  BY <1>1, <1>2 DEF IInv, TypeOK, Written, Grows
<1>. QED
  BY <1>1, <1>2, <1>3, <1>4, Beside

\* Starting a scan, from a verb or from the tick, and looking for a running row.
LEMMA StartingKeeps ==
    ASSUME IInv, NEW c \in Actors, PoolScrub(c) \/ DiskReplace(c) \/ NoteScan(c) \/ (c = Tick /\ (TickReads \/ TickScrubs))
    PROVE  IInv'
<1>1. UNCHANGED <<jobs, todo, seen>>
  BY DEF PoolScrub, DiskReplace, NoteScan, TickReads, TickScrubs
<1>2. PICK step \in {"idle", "scrub", "note", "insert"} :
        /\ loc' = [loc EXCEPT ![c] = step]
        /\ \/ /\ UNCHANGED scans
              /\ mine' = mine \/ mine' = [mine EXCEPT ![c] = 0]
              /\ step = "insert" => loc[c] = "note" /\ mine' = mine
              /\ step # "note"
           \/ \E kind \in Kinds : Starts(kind) /\ (mine' = mine \/ mine' = [mine EXCEPT ![c] = Len(scans')])
              /\ (step = "note" => mine' = [mine EXCEPT ![c] = Len(scans')]) /\ step # "insert"
  <2>1. CASE PoolScrub(c)
    BY <2>1 DEF PoolScrub, ZpoolScrub, Goto, Kinds
  <2>2. CASE DiskReplace(c)
    <3>1. loc[c] = "idle" /\ loc = [loc EXCEPT ![c] = "idle"]
      BY <2>2 DEF DiskReplace, IInv, TypeOK
    <3>. QED
      BY <2>2, <3>1 DEF DiskReplace, Goto, Kinds
  <2>3. CASE NoteScan(c)
    BY <2>3 DEF NoteScan, Goto
  <2>4. CASE c = Tick /\ TickReads
    BY <2>4 DEF TickReads, Goto
  <2>5. CASE c = Tick /\ TickScrubs
    BY <2>5 DEF TickScrubs, ZpoolScrub, Goto, Kinds
  <2>. QED
    BY <2>1, <2>2, <2>3, <2>4, <2>5
<1>3. Grows /\ scans' \in Seq([kind : Kinds, state : States]) /\ Len(scans') \in Nat
      /\ ((\E kind \in Kinds : Starts(kind)) => Len(scans') = Len(scans) + 1)
  <2>1. CASE \E kind \in Kinds : Starts(kind)
    <3>1. Grows /\ Len(scans') = Len(scans) + 1 /\ scans' \in Seq([kind : Kinds, state : States])
      BY <2>1, StartsFacts DEF IInv
    <3>. QED
      BY <3>1
  <2>2. CASE UNCHANGED scans /\ ~\E kind \in Kinds : Starts(kind)
    BY <2>2 DEF IInv, TypeOK, Grows
  <2>. QED
    BY <1>2, <2>1, <2>2
<1>4. TypeOK'
  <2>1. mine' \in [Actors -> Nat]
    BY <1>2, <1>3 DEF IInv, TypeOK
  <2>2. loc' \in [Actors -> {"idle", "read", "apply", "pools", "scrub", "note", "insert"}]
    BY <1>2 DEF IInv, TypeOK
  <2>. QED
    BY <1>1, <1>3, <2>1, <2>2 DEF IInv, TypeOK
<1>5. loc'[c] = step /\ \A d \in Actors \ {c} : loc'[d] = loc[d] /\ mine'[d] = mine[d]
  BY <1>2 DEF IInv, TypeOK
<1>6. \A d \in Actors : loc'[d] \in {"note", "insert"} => mine'[d] \in 1..Len(scans')
  <2>1. \A d \in Actors : loc[d] \in {"note", "insert"} => mine[d] \in 1..Len(scans)
    BY DEF IInv, TypeOK, Written
  <2>2. ASSUME NEW d \in Actors \ {c}, loc'[d] \in {"note", "insert"} PROVE mine'[d] \in 1..Len(scans')
    BY <1>3, <1>5, <2>1, <2>2 DEF Grows, IInv, TypeOK
  <2>3. ASSUME loc'[c] \in {"note", "insert"} PROVE mine'[c] \in 1..Len(scans')
    <3>1. CASE step = "insert"
      BY <1>2, <2>1, <3>1
    <3>2. CASE step = "note"
      BY <1>2, <1>3, <3>2 DEF IInv, TypeOK
    <3>. QED
      BY <1>5, <2>3, <3>1, <3>2
  <2>. QED
    BY <2>2, <2>3
<1>. QED
  BY <1>1, <1>3, <1>4, <1>5, <1>6, Beside

\* A row is written for a scan there was.
LEMMA StartScanKeeps == ASSUME IInv, NEW c \in Actors, StartScan(c) PROVE IInv'
<1>. DEFINE new == [kind |-> scans[mine[c]].kind, state |-> "running", scan |-> mine[c]]
<1>1. /\ loc[c] = "insert" /\ jobs' = Append(jobs, new) /\ mine' = [mine EXCEPT ![c] = 0]
      /\ loc' = [loc EXCEPT ![c] = "idle"] /\ UNCHANGED <<scans, todo, seen>>
  BY DEF StartScan, Goto
<1>2. mine[c] \in DOMAIN scans /\ new.scan = mine[c] /\ new.state = "running"
  BY <1>1 DEF IInv, Written
<1>3. new \in [kind : Kinds, state : {"running", "done", "failed"}, scan : Nat]
  <2>1. scans \in Seq([kind : Kinds, state : States]) /\ mine[c] \in 1..Len(scans)
    BY <1>2 DEF IInv, TypeOK
  <2>2. scans[mine[c]] \in [kind : Kinds, state : States]
    BY <2>1, ElementOfSeq, Zenon
  <2>. QED
    BY <2>1, <2>2
<1>. HIDE DEF new
<1>4. /\ jobs' \in Seq([kind : Kinds, state : {"running", "done", "failed"}, scan : Nat])
      /\ DOMAIN jobs = 1..Len(jobs) /\ DOMAIN jobs' = 1..Len(jobs) + 1
      /\ jobs'[Len(jobs) + 1] = new /\ \A i \in DOMAIN jobs : jobs'[i] = jobs[i]
  BY <1>1, <1>3 DEF IInv, TypeOK
<1>5. loc'[c] = "idle" /\ \A d \in Actors \ {c} : loc'[d] = loc[d] /\ mine'[d] = mine[d]
  BY <1>1 DEF IInv, TypeOK
<1>6. TypeOK'
  BY <1>1, <1>4 DEF IInv, TypeOK
<1>7. \A i \in DOMAIN jobs' : i \in DOMAIN jobs \/ jobs'[i] = new
  BY <1>4 DEF IInv, TypeOK
<1>8. \A i \in DOMAIN jobs : i \in DOMAIN jobs'
  BY <1>4 DEF IInv, TypeOK
<1>9. Written'
  BY <1>1, <1>2, <1>4, <1>5, <1>7 DEF IInv, Written
<1>10. Readings'
  BY <1>1, <1>4, <1>5, <1>8 DEF IInv, Readings
<1>11. DoneIsTrue'
  BY <1>1, <1>2, <1>4, <1>7 DEF IInv, DoneIsTrue
<1>. QED
  BY <1>6, <1>9, <1>10, <1>11 DEF IInv

\* A reconcile lists the rows that run.
LEMMA ListRunningKeeps == ASSUME IInv, NEW c \in Actors, ListRunning(c) PROVE IInv'
<1>1. PICK step \in {"idle", "pools", "read"} : loc' = [loc EXCEPT ![c] = step]
  BY DEF ListRunning, Goto, AfterLook
<1>2. todo' = [todo EXCEPT ![c] = RunningRows] /\ UNCHANGED <<scans, jobs, seen, mine>>
  BY DEF ListRunning
<1>3. RunningRows \subseteq DOMAIN jobs /\ DOMAIN jobs \subseteq Nat
  BY DEF RunningRows, IInv, TypeOK
<1>4. TypeOK'
  BY <1>1, <1>2, <1>3 DEF IInv, TypeOK
<1>5. loc'[c] = step /\ todo'[c] = RunningRows /\ \A d \in Actors \ {c} : loc'[d] = loc[d] /\ todo'[d] = todo[d]
  BY <1>1, <1>2 DEF IInv, TypeOK
<1>6. Written' /\ DoneIsTrue'
  BY <1>2, <1>5 DEF IInv, Written, DoneIsTrue
<1>7. Readings'
  BY <1>2, <1>3, <1>5 DEF IInv, Readings
<1>. QED
  BY <1>4, <1>6, <1>7 DEF IInv

\* What is read now is of a scan no older than any row.
LEMMA ReadLineKeeps == ASSUME IInv, NEW c \in Actors, ReadLine(c) PROVE IInv'
<1>1. PICK line \in {Line, Unreadable} : seen' = [seen EXCEPT ![c] = line]
  BY DEF ReadLine
<1>2. loc' = [loc EXCEPT ![c] = "apply"] /\ UNCHANGED <<scans, jobs, todo, mine>>
  BY DEF ReadLine, Goto
<1>3. /\ line \in [kind : Kinds, state : States \cup {"none", "unreadable"}, no : Nat]
      /\ line.state = "clean" => /\ line.no = Len(scans) /\ line.no \in 1..Len(scans)
                                 /\ scans[line.no] = [kind |-> line.kind, state |-> "clean"]
  BY LineFacts DEF IInv, Unreadable, Kinds
<1>4. TypeOK'
  BY <1>1, <1>2, <1>3 DEF IInv, TypeOK
<1>5. /\ loc'[c] = "apply" /\ seen'[c] = line
      /\ \A d \in Actors \ {c} : loc'[d] = loc[d] /\ seen'[d] = seen[d]
  BY <1>1, <1>2 DEF IInv, TypeOK
<1>6. Written' /\ DoneIsTrue'
  BY <1>2, <1>5 DEF IInv, Written, DoneIsTrue
<1>7. DOMAIN scans = 1..Len(scans) /\ Len(scans) \in Nat /\ \A i \in todo[c] : jobs[i].scan \in 1..Len(scans)
  <2>1. DOMAIN scans = 1..Len(scans) /\ Len(scans) \in Nat
    BY DEF IInv, TypeOK
  <2>2. todo[c] \subseteq DOMAIN jobs /\ \A i \in DOMAIN jobs : jobs[i].scan \in DOMAIN scans
    BY DEF IInv, Written, Readings
  <2>. QED
    BY <2>1, <2>2
<1>8. Readings'
  <2>1. ASSUME line.state = "clean" PROVE \A i \in todo[c] : jobs[i].scan <= line.no
    BY <1>3, <1>7, <2>1
  <2>2. ASSUME NEW d \in Actors, d # c
        PROVE  loc'[d] = loc[d] /\ seen'[d] = seen[d]
    BY <1>5, <2>2
  <2>. QED
    BY <1>2, <1>3, <1>5, <1>7, <2>1, <2>2 DEF IInv, Readings
<1>. QED
  BY <1>4, <1>6, <1>8 DEF IInv

\* A row is done only on a clean reading of its own kind.
LEMMA ApplyKeeps == ASSUME IInv, NEW c \in Actors, ApplyReading(c) PROVE IInv'
<1>1. PICK id \in todo[c] :
        /\ jobs' = [jobs EXCEPT ![id].state = Verdict(jobs[id], seen[c])]
        /\ todo' = [todo EXCEPT ![c] = @ \ {id}]
        /\ \E step \in {"idle", "pools", "read"} : loc' = [loc EXCEPT ![c] = step]
  BY DEF ApplyReading, Goto, AfterLook
<1>2. loc[c] = "apply" /\ seen' = [seen EXCEPT ![c] = NoLine] /\ UNCHANGED <<scans, mine>>
  BY DEF ApplyReading
<1>. DEFINE verdict == Verdict(jobs[id], seen[c])
<1>3. id \in DOMAIN jobs /\ jobs[id] \in [kind : Kinds, state : {"running", "done", "failed"}, scan : Nat]
  <2>1. id \in DOMAIN jobs
    BY DEF IInv, Readings
  <2>2. jobs \in Seq([kind : Kinds, state : {"running", "done", "failed"}, scan : Nat]) /\ id \in 1..Len(jobs)
    BY <2>1 DEF IInv, TypeOK
  <2>. QED
    BY <2>1, <2>2, ElementOfSeq, Zenon
<1>4. /\ verdict \in {"running", "done", "failed"}
      /\ verdict = "done" => \/ jobs[id].state = "done"
                             \/ seen[c].kind = jobs[id].kind /\ seen[c].state = "clean"
  BY <1>3 DEF Verdict
<1>. HIDE DEF verdict
<1>5. /\ jobs' \in Seq([kind : Kinds, state : {"running", "done", "failed"}, scan : Nat]) /\ DOMAIN jobs' = DOMAIN jobs
      /\ jobs'[id].kind = jobs[id].kind /\ jobs'[id].scan = jobs[id].scan /\ jobs'[id].state = verdict
      /\ \A i \in DOMAIN jobs \ {id} : jobs'[i] = jobs[i]
  <2>1. jobs' = [jobs EXCEPT ![id].state = verdict]
    BY <1>1 DEF verdict
  <2>2. PICK row : row = [jobs[id] EXCEPT !.state = verdict]
    OBVIOUS
  <2>3. /\ row \in [kind : Kinds, state : {"running", "done", "failed"}, scan : Nat]
        /\ row.kind = jobs[id].kind /\ row.scan = jobs[id].scan /\ row.state = verdict
    BY <1>3, <1>4, <2>2
  <2>4. jobs' = [jobs EXCEPT ![id] = row]
    BY <1>3, <2>1, <2>2
  <2>. QED
    BY <1>3, <2>3, <2>4 DEF IInv, TypeOK
<1>6. NoLine \in [kind : Kinds, state : States \cup {"none", "unreadable"}, no : Nat]
  BY DEF NoLine, Kinds
<1>7. TypeOK'
  BY <1>1, <1>2, <1>5, <1>6 DEF IInv, TypeOK
<1>8. /\ loc'[c] \in {"idle", "pools", "read"} /\ todo'[c] = todo[c] \ {id}
      /\ \A d \in Actors \ {c} : loc'[d] = loc[d] /\ todo'[d] = todo[d] /\ seen'[d] = seen[d]
  BY <1>1, <1>2 DEF IInv, TypeOK
<1>9. \A i \in DOMAIN jobs : jobs'[i].scan = jobs[i].scan
  BY <1>5
<1>10. Written'
  BY <1>2, <1>5, <1>8, <1>9 DEF IInv, Written
<1>11. Readings'
  BY <1>2, <1>5, <1>8, <1>9 DEF IInv, Readings
<1>12. DoneIsTrue'
  <2> SUFFICES ASSUME NEW i \in DOMAIN jobs, jobs'[i].state = "done"
               PROVE  \E n \in jobs'[i].scan..Len(scans) : scans[n] = [kind |-> jobs'[i].kind, state |-> "clean"]
    BY <1>2, <1>5 DEF DoneIsTrue
  <2>1. CASE i # id \/ jobs[i].state = "done"
    BY <1>5, <2>1 DEF IInv, DoneIsTrue
  <2>2. CASE i = id /\ jobs[i].state # "done"
    <3>1. seen[c].kind = jobs[id].kind /\ seen[c].state = "clean"
      BY <1>4, <1>5, <2>2
    <3>2. /\ seen[c].no \in DOMAIN scans /\ scans[seen[c].no] = [kind |-> seen[c].kind, state |-> "clean"]
          /\ jobs[id].scan <= seen[c].no
      BY <1>2, <3>1 DEF IInv, Readings
    <3>3. seen[c].no \in jobs[id].scan..Len(scans)
      BY <1>3, <3>2 DEF IInv, TypeOK
    <3>. QED
      BY <1>5, <2>2, <3>1, <3>2, <3>3
  <2>. QED
    BY <2>1, <2>2
<1>. QED
  BY <1>7, <1>10, <1>11, <1>12 DEF IInv
----------------------------------------------------------------------------
\* For any number of verbs in flight, scans and failures: a row of the jobs table is done only when a scan
\* of its kind, its own or a later one, finished without errors.
THEOREM DoneRowsAreTrue == Spec => []DoneIsTrue
<1>1. Init => IInv
  <2> SUFFICES ASSUME Init PROVE IInv
    OBVIOUS
  <2>1. TypeOK
    BY DEF Init, TypeOK, NoLine, Kinds
  <2>2. Written /\ Readings /\ DoneIsTrue
    BY DEF Init, Written, Readings, DoneIsTrue
  <2>. QED
    BY <2>1, <2>2 DEF IInv
<1>2. IInv /\ [Next]_vars => IInv'
  <2> SUFFICES ASSUME IInv, [Next]_vars PROVE IInv'
    OBVIOUS
  <2>1. CASE UNCHANGED vars
    BY <2>1 DEF vars, IInv, TypeOK, Written, Readings, DoneIsTrue
  <2>2. CASE \/ \E how \in {"clean", "errors", "canceled"} : ScanEnds(how)
             \/ AutoResilver \/ IntervalPasses \/ \E i \in {"off", "monthly"} : SetInterval(i)
    BY <2>2, ZfsKeeps
  <2>3. CASE \E c \in Actors : Act(c)
    BY <2>3, ListRunningKeeps, ReadLineKeeps, ApplyKeeps, StartScanKeeps, StartingKeeps DEF Act
  <2>4. CASE TickReads \/ TickScrubs
    <3>1. Tick \in Actors
      BY DEF Actors
    <3>. QED
      BY <2>4, <3>1, StartingKeeps
  <2>. QED
    BY <2>1, <2>2, <2>3, <2>4 DEF Next
<1>3. IInv => DoneIsTrue
  BY DEF IInv
<1>. QED
  BY <1>1, <1>2, <1>3, PTL DEF Spec
----------------------------------------------------------------------------
(* Snapshots *)

Serieses == Periods \cup {"other"}
Snapshot == [series : Serieses, differs : BOOLEAN]

SnapTypes ==
    /\ snaps \in Seq(Snapshot)
    /\ dirty \in BOOLEAN
    /\ keep \in [Periods -> Nat] /\ policy \in [Periods -> Nat]
    /\ existing \in Seq([name : Nat, series : Serieses])
    /\ take \subseteq [period : Periods, makesRoom : SUBSET Nat]
    /\ destroy \subseteq Nat /\ replaced \subseteq Nat
    /\ at \in {"idle", "list", "written", "work"}

\* The plan is there only while it is worked off.
PlanInTime == at # "work" => take = {} /\ destroy = {} /\ replaced = {}

\* The names the tick has in hand are of snapshots that exist, of the period they were listed under.
NamesPoint ==
    /\ \A n \in destroy \cup replaced : n \in DOMAIN snaps /\ snaps[n].series \in Periods
    /\ \A t \in take : \A n \in t.makesRoom : n \in DOMAIN snaps /\ snaps[n].series = t.period
    /\ \A i \in DOMAIN existing : existing[i].name # 0 =>
         existing[i].name \in DOMAIN snaps /\ snaps[existing[i].name].series = existing[i].series

\* A period is taken once.
OncePerPeriod == \A t, u \in take : t.period = u.period => t = u

\* The list is the beginning of what exists.
ListStands ==
    at = "written" /\ "destroyed" \notin disturbed =>
      /\ Len(existing) <= Len(snaps)
      /\ \A i \in DOMAIN existing : existing[i].name = i

\* What is to go has enough newer ones, or will have once its replacement is taken; what is
\* beyond the count is older than what makes room.
Outlived ==
    "destroyed" \notin disturbed =>
      /\ \A n \in destroy \cup replaced : Cardinality(Later(n)) >= policy[snaps[n].series]
      /\ \A t \in take : \A n \in t.makesRoom : Cardinality(Later(n)) + 1 >= policy[t.period]
      /\ \A m \in destroy, n \in replaced : snaps[m].series = snaps[n].series => m < n
      /\ \A m \in destroy, t \in take : \A n \in t.makesRoom : snaps[m].series = t.period => m < n

\* What is still to be taken differs from the last one of its period.
Changed ==
    at = "work" /\ disturbed = {} =>
      \A t \in take : \A i \in Mine(snaps, t.period) :
        dirty \/ \E j \in DOMAIN snaps : j > i /\ snaps[j].differs

SnapInv == SnapTypes /\ PlanInTime /\ NamesPoint /\ OncePerPeriod /\ ListStands /\ Outlived /\ Changed
----------------------------------------------------------------------------
(* Counting places *)

\* A set of places is finite, and so is a part of it, which has no more.
LEMMA Few == ASSUME NEW k \in Nat, NEW S \in SUBSET (1..k)
             PROVE  IsFiniteSet(S) /\ Cardinality(S) \in Nat
  <1>1. IsFiniteSet(1..k)
    BY FS_Interval
  <1>2. IsFiniteSet(S)
    BY <1>1, FS_Subset
  <1> QED
    BY <1>2, FS_CardinalityType

LEMMA Fewer == ASSUME NEW k \in Nat, NEW S \in SUBSET (1..k), NEW T \in SUBSET S
               PROVE  Cardinality(T) <= Cardinality(S) /\ Cardinality(T) \in Nat /\ Cardinality(S) \in Nat
  <1>1. IsFiniteSet(S) /\ Cardinality(S) \in Nat
    BY Few
  <1>2. Cardinality(T) <= Cardinality(S)
    BY <1>1, FS_Subset
  <1>3. T \in SUBSET (1..k)
    OBVIOUS
  <1> QED
    BY <1>1, <1>2, <1>3, Few

\* Every snapshot has a finite number of later ones.
LEMMA LaterIsFew == ASSUME SnapTypes, NEW n
                    PROVE  Later(n) \in SUBSET (1..Len(snaps)) /\ Cardinality(Later(n)) \in Nat
  <1>1. Len(snaps) \in Nat /\ DOMAIN snaps = 1..Len(snaps)
    BY DEF SnapTypes
  <1>2. Later(n) \in SUBSET (1..Len(snaps))
    BY <1>1 DEF Later
  <1> QED
    BY <1>1, <1>2, Few
----------------------------------------------------------------------------
(* zfs snapshot *)

\* A new one is the last, and the others stay where they are.
LEMMA TakenFacts ==
    ASSUME SnapTypes, NEW s \in Serieses, Taken(s)
    PROVE  /\ snaps' \in Seq(Snapshot) /\ Len(snaps') = Len(snaps) + 1 /\ Len(snaps) \in Nat
           /\ DOMAIN snaps = 1..Len(snaps) /\ DOMAIN snaps' = 1..(Len(snaps) + 1)
           /\ \A i \in DOMAIN snaps : i \in DOMAIN snaps' /\ snaps'[i] = snaps[i]
           /\ snaps'[Len(snaps) + 1].series = s
           /\ snaps'[Len(snaps) + 1].differs = dirty
           /\ dirty' = FALSE
  <1> DEFINE new == [series |-> s, differs |-> dirty]
  <1>1. new \in Snapshot
    BY DEF SnapTypes, Snapshot
  <1>2. snaps \in Seq(Snapshot) /\ snaps' = Append(snaps, new) /\ dirty' = FALSE
    BY DEF SnapTypes, Taken
  <1>3. new.series = s /\ new.differs = dirty
    OBVIOUS
  <1> HIDE DEF new
  <1>4. /\ snaps' \in Seq(Snapshot) /\ Len(snaps') = Len(snaps) + 1 /\ Len(snaps) \in Nat
        /\ DOMAIN snaps = 1..Len(snaps) /\ DOMAIN snaps' = 1..(Len(snaps) + 1)
        /\ \A i \in DOMAIN snaps : i \in DOMAIN snaps' /\ snaps'[i] = snaps[i]
        /\ snaps'[Len(snaps) + 1] = new
    BY <1>1, <1>2
  <1> QED
    BY <1>2, <1>3, <1>4

\* None has fewer later ones after it, and one of its series has one more.
LEMMA TakenLater ==
    ASSUME SnapTypes, NEW s \in Serieses, Taken(s), NEW n \in DOMAIN snaps
    PROVE  /\ Cardinality(Later(n)') >= Cardinality(Later(n))
           /\ snaps[n].series = s => Cardinality(Later(n)') >= Cardinality(Later(n)) + 1
           /\ Cardinality(Later(n)) \in Nat /\ Cardinality(Later(n)') \in Nat
  <1> DEFINE last == Len(snaps) + 1
             was == Later(n)
             is == Later(n)'
  <1>1. /\ Len(snaps) \in Nat /\ DOMAIN snaps = 1..Len(snaps) /\ DOMAIN snaps' = 1..last
        /\ \A i \in DOMAIN snaps : i \in DOMAIN snaps' /\ snaps'[i] = snaps[i]
        /\ snaps'[last].series = s
    BY TakenFacts
  <1>2. was \in SUBSET (1..Len(snaps)) /\ Cardinality(was) \in Nat
    BY LaterIsFew
  <1>3. is \in SUBSET (1..last) /\ was \subseteq is /\ last \notin was
    BY <1>1, <1>2 DEF Later
  <1>4. snaps[n].series = s => last \in is
    BY <1>1 DEF Later
  <1> HIDE DEF last, was, is
  <1>5. last \in Nat
    BY <1>1 DEF last
  <1>6. Cardinality(was) <= Cardinality(is) /\ Cardinality(is) \in Nat
    BY <1>3, <1>5, Fewer
  <1>7. ASSUME snaps[n].series = s PROVE Cardinality(is) >= Cardinality(was) + 1
    <2>1. was \cup {last} \in SUBSET is
      BY <1>3, <1>4, <1>7
    <2>2. IsFiniteSet(was)
      BY <1>1, <1>2, Few
    <2>3. Cardinality(was \cup {last}) = Cardinality(was) + 1
      BY <1>3, <2>2, FS_AddElement
    <2>4. Cardinality(was \cup {last}) <= Cardinality(is)
      BY <1>3, <1>5, <2>1, Fewer
    <2> QED
      BY <1>2, <1>6, <2>3, <2>4
  <1> QED
    BY <1>2, <1>6, <1>7 DEF was, is
----------------------------------------------------------------------------
(* zfs destroy *)

\* Names keep their order, and their snapshot.
LEMMA MovedOrder ==
    ASSUME NEW i \in Nat \ {0}, NEW m \in Nat \ {0}, NEW n \in Nat \ {0}, m # i, n # i
    PROVE  /\ Moved(i, m) \in Nat \ {0}
           /\ m < n => Moved(i, m) < Moved(i, n)
           /\ Moved(i, m) = Moved(i, n) => m = n
  BY DEF Moved

\* One less, with what came after it one place down.
LEMMA DestroyedFacts ==
    ASSUME SnapTypes, NEW i \in DOMAIN snaps, Destroyed(i)
    PROVE  /\ snaps' \in Seq(Snapshot) /\ dirty' \in BOOLEAN
           /\ Len(snaps) \in Nat /\ Len(snaps') = Len(snaps) - 1 /\ i \in Nat \ {0}
           /\ DOMAIN snaps = 1..Len(snaps) /\ DOMAIN snaps' = 1..(Len(snaps) - 1)
           /\ \A n \in DOMAIN snaps \ {i} : /\ Moved(i, n) \in DOMAIN snaps'
                                            /\ snaps'[Moved(i, n)].series = snaps[n].series
  <1> DEFINE last == Len(snaps)
             lost(j) == snaps[j + 1].differs \/ (j = i /\ snaps[i].differs)
             one(j) == IF j < i THEN snaps[j] ELSE [snaps[j + 1] EXCEPT !.differs = lost(j)]
  <1>1. /\ last \in Nat /\ DOMAIN snaps = 1..last /\ i \in 1..last
        /\ \A j \in 1..last : snaps[j] \in Snapshot
    BY DEF SnapTypes
  <1>2. snaps' = [j \in 1..(last - 1) |-> one(j)] /\ dirty' = (dirty \/ (i = last /\ snaps[i].differs))
    BY DEF Destroyed
  <1>3. ASSUME NEW j \in 1..(last - 1)
        PROVE  one(j) \in Snapshot /\ one(j).series = IF j < i THEN snaps[j].series ELSE snaps[j + 1].series
    <2>1. lost(j) \in BOOLEAN
      BY Zenon
    <2>2. j \in 1..last /\ j + 1 \in 1..last
      BY <1>1
    <2>3. snaps[j] \in Snapshot /\ snaps[j + 1] \in Snapshot
      BY <1>1, <2>2
    <2> HIDE DEF lost
    <2> QED
      BY <2>1, <2>3 DEF Snapshot
  <1>4. dirty' \in BOOLEAN
    BY <1>2, Zenon
  <1> HIDE DEF one
  <1>5. snaps' \in Seq(Snapshot) /\ Len(snaps') = last - 1 /\ DOMAIN snaps' = 1..(last - 1)
    <2>1. last - 1 \in Nat
      BY <1>1
    <2>2. snaps' \in [1..(last - 1) -> Snapshot]
      BY <1>2, <1>3
    <2> QED
      BY <2>1, <2>2
  <1>6. ASSUME NEW n \in DOMAIN snaps \ {i}
        PROVE  Moved(i, n) \in DOMAIN snaps' /\ snaps'[Moved(i, n)].series = snaps[n].series
    <2>1. Moved(i, n) \in 1..(last - 1)
      BY <1>1 DEF Moved
    <2>2. one(Moved(i, n)).series = snaps[n].series
      <3>1. CASE n < i
        BY <1>1, <1>3, <2>1, <3>1 DEF Moved
      <3>2. CASE n > i
        <4>1. Moved(i, n) = n - 1 /\ ~(n - 1 < i) /\ (n - 1) + 1 = n
          BY <1>1, <3>2 DEF Moved
        <4> QED
          BY <1>3, <2>1, <4>1
      <3> QED
        BY <1>1, <3>1, <3>2
    <2> QED
      BY <1>2, <1>5, <2>1, <2>2
  <1> QED
    BY <1>1, <1>4, <1>5, <1>6

\* Others have as many later ones as before, without the one that went.
LEMMA DestroyedLater ==
    ASSUME SnapTypes, NEW i \in DOMAIN snaps, Destroyed(i), NEW n \in DOMAIN snaps \ {i},
           i \notin Later(n)
    PROVE  Cardinality(Later(Moved(i, n))') >= Cardinality(Later(n))
  <1> DEFINE was == Later(n)
             is == Later(Moved(i, n))'
             f == [j \in was |-> Moved(i, j)]
  <1>1. /\ Len(snaps) \in Nat /\ Len(snaps') = Len(snaps) - 1 /\ i \in Nat \ {0} /\ i \in 1..Len(snaps)
        /\ DOMAIN snaps = 1..Len(snaps) /\ DOMAIN snaps' = 1..(Len(snaps) - 1)
        /\ \A k \in DOMAIN snaps \ {i} : /\ Moved(i, k) \in DOMAIN snaps'
                                         /\ snaps'[Moved(i, k)].series = snaps[k].series
    BY DestroyedFacts
  <1>2. is = {j \in DOMAIN snaps' : j > Moved(i, n) /\ snaps'[j].series = snaps'[Moved(i, n)].series}
    BY DEF Later, Moved
  <1>3. is \in SUBSET (1..(Len(snaps) - 1))
    BY <1>1, <1>2
  <1>4. ASSUME NEW j \in was PROVE Moved(i, j) \in is
    <2>1. j \in DOMAIN snaps \ {i} /\ j > n /\ snaps[j].series = snaps[n].series
      BY DEF Later
    <2>2. j \in Nat \ {0} /\ n \in Nat \ {0} /\ n < j
      BY <1>1, <2>1
    <2>3. Moved(i, n) < Moved(i, j) /\ Moved(i, n) \in Nat /\ Moved(i, j) \in Nat
      BY <1>1, <2>1, <2>2, MovedOrder
    <2> QED
      BY <1>1, <1>2, <2>1, <2>3
  <1>5. ASSUME NEW j \in was, NEW k \in was, Moved(i, j) = Moved(i, k) PROVE j = k
    <2>1. j \in DOMAIN snaps \ {i} /\ k \in DOMAIN snaps \ {i}
      BY DEF Later
    <2>2. j \in Nat \ {0} /\ k \in Nat \ {0}
      BY <1>1, <2>1
    <2> QED
      BY <1>1, <1>5, <2>1, <2>2, MovedOrder
  <1>6. IsFiniteSet(is)
    <2>1. Len(snaps) - 1 \in Nat
      BY <1>1
    <2> HIDE DEF is
    <2> QED
      BY <1>3, <2>1, Few
  <1> HIDE DEF was, is
  <1>7. f \in Injection(was, is)
    BY <1>4, <1>5 DEF Injection, IsInjective
  <1>8. Cardinality(was) <= Cardinality(is)
    BY <1>6, <1>7, FS_Injection
  <1>9. Cardinality(was) \in Nat /\ Cardinality(is) \in Nat
    BY <1>6, LaterIsFew, FS_CardinalityType DEF was
  <1> QED
    BY <1>8, <1>9 DEF was, is

----------------------------------------------------------------------------
(* Every step keeps the invariant *)

\* Steps that leave the snapshots and the plan alone: somebody writes, changes the policy or
\* rolls back, and time passes.
LEMMA PlanStays ==
    ASSUME SnapInv, snaps' = snaps, at' = at, UNCHANGED plans,
           dirty' \in BOOLEAN, keep' \in [Periods -> Nat],
           at \in {"written", "work"} => disturbed \subseteq disturbed',
           at = "work" /\ disturbed' = {} => (dirty => dirty')
    PROVE  SnapInv'
  <1> USE DEF SnapInv
  <1>0. UNCHANGED <<policy, existing, late, take, destroy, replaced>>
    BY DEF plans
  <1>1. SnapTypes' /\ PlanInTime' /\ OncePerPeriod'
    BY <1>0 DEF SnapTypes, PlanInTime, OncePerPeriod
  <1>2. NamesPoint'
    BY <1>0 DEF NamesPoint
  <1>3. ListStands'
    BY <1>0 DEF ListStands
  <1>4. Outlived'
    <2>1. \A n : Later(n)' = Later(n)
      BY DEF Later
    <2>2. CASE at = "work"
      <3>1. "destroyed" \notin disturbed' => "destroyed" \notin disturbed
        BY <2>2
      <3> QED
        BY <1>0, <2>1, <3>1 DEF Outlived
    <2>3. CASE at # "work"
      BY <1>0, <2>3 DEF Outlived, PlanInTime
    <2> QED
      BY <2>2, <2>3
  <1>5. Changed'
    <2> SUFFICES ASSUME at = "work", disturbed' = {},
                        NEW t \in take, NEW i \in Mine(snaps, t.period)
                 PROVE  dirty' \/ \E j \in DOMAIN snaps : j > i /\ snaps[j].differs
      BY <1>0 DEF Changed, Mine
    <2>1. dirty \/ \E j \in DOMAIN snaps : j > i /\ snaps[j].differs
      BY DEF Changed
    <2> QED
      BY <2>1
  <1> QED
    BY <1>1, <1>2, <1>3, <1>4, <1>5

\* The tick begins.
LEMMA StartStep == ASSUME SnapInv, StartTick PROVE SnapInv'
  <1> USE DEF SnapInv
  <1>1. /\ at' = "list" /\ policy' = keep /\ at = "idle"
        /\ UNCHANGED <<snaps, dirty, aged, keep, existing, late, take, destroy, replaced, disturbed>>
    BY DEF StartTick
  <1>2. take = {} /\ destroy = {} /\ replaced = {}
    BY <1>1 DEF PlanInTime
  <1>3. SnapTypes'
    BY <1>1 DEF SnapTypes
  <1>4. NamesPoint'
    BY <1>1 DEF NamesPoint
  <1> QED
    BY <1>1, <1>2, <1>3, <1>4 DEF PlanInTime, OncePerPeriod, ListStands, Outlived, Changed

\* The tick is over, or it dies: nothing of the plan is left.
LEMMA EndStep == ASSUME SnapInv, Ended, UNCHANGED <<snaps, dirty, keep>> PROVE SnapInv'
  <1> USE DEF SnapInv
  <1>1. /\ at' = "idle" /\ existing' = <<>> /\ take' = {} /\ destroy' = {} /\ replaced' = {}
        /\ policy' = NoPolicy
    BY DEF Ended
  <1>2. NoPolicy \in [Periods -> Nat] /\ <<>> \in Seq([name : Nat, series : Serieses])
    BY DEF NoPolicy
  <1>3. SnapTypes'
    BY <1>1, <1>2 DEF SnapTypes
  <1>4. NamesPoint'
    BY <1>1 DEF NamesPoint
  <1> QED
    BY <1>1, <1>3, <1>4 DEF PlanInTime, OncePerPeriod, ListStands, Outlived, Changed

\* The list is what exists.
LEMMA ListStep == ASSUME SnapInv, ListSnapshots PROVE SnapInv'
  <1> USE DEF SnapInv
  <1>1. /\ at' = "written" /\ at = "list"
        /\ existing' = [i \in DOMAIN snaps |-> [name |-> i, series |-> snaps[i].series]]
        /\ UNCHANGED <<snaps, dirty, keep, policy, take, destroy, replaced, disturbed>>
    BY DEF ListSnapshots
  <1>2. take = {} /\ destroy = {} /\ replaced = {}
    BY <1>1 DEF PlanInTime
  <1>3. /\ Len(snaps) \in Nat /\ DOMAIN snaps = 1..Len(snaps)
        /\ \A i \in DOMAIN snaps : snaps[i].series \in Serieses
    <2>1. snaps \in Seq(Snapshot)
      BY DEF SnapTypes
    <2>2. \A s \in Snapshot : s.series \in Serieses
      BY DEF Snapshot
    <2> QED
      BY <2>1, <2>2
  <1>4. /\ existing' \in Seq([name : Nat, series : Serieses])
        /\ Len(existing') = Len(snaps) /\ DOMAIN existing' = DOMAIN snaps
        /\ \A i \in DOMAIN snaps : existing'[i].name = i /\ existing'[i].series = snaps[i].series
    <2>1. \A i \in DOMAIN snaps : [name |-> i, series |-> snaps[i].series] \in [name : Nat, series : Serieses]
      BY <1>3
    <2>2. existing' \in [1..Len(snaps) -> [name : Nat, series : Serieses]]
      BY <1>1, <1>3, <2>1
    <2> QED
      BY <1>1, <1>3, <2>2
  <1>5. SnapTypes'
    BY <1>1, <1>4 DEF SnapTypes
  <1>6. NamesPoint'
    BY <1>1, <1>2, <1>4 DEF NamesPoint
  <1>7. ListStands'
    BY <1>1, <1>3, <1>4 DEF ListStands
  <1> QED
    BY <1>1, <1>2, <1>5, <1>6, <1>7 DEF PlanInTime, OncePerPeriod, Outlived, Changed

----------------------------------------------------------------------------
(* The plan *)

\* Each of the list is followed by a finite number of its period.
LEMMA FollowersAreFew ==
    ASSUME SnapTypes, NEW p, NEW i
    PROVE  /\ {j \in Mine(existing, p) : j > i} \in SUBSET (1..Len(existing))
           /\ Len(existing) \in Nat /\ DOMAIN existing = 1..Len(existing)
           /\ Followers(p, i) \in Nat
  <1>1. Len(existing) \in Nat /\ DOMAIN existing = 1..Len(existing)
    BY DEF SnapTypes
  <1>2. {j \in Mine(existing, p) : j > i} \in SUBSET (1..Len(existing))
    BY <1>1 DEF Mine
  <1> QED
    BY <1>1, <1>2, Few DEF Followers

\* What is beyond the count is older than what makes room.
LEMMA ExcessIsOlder ==
    ASSUME SnapTypes, NEW p \in Periods, NEW m \in Excess(p), NEW n \in MakesRoom(p)
    PROVE  m < n
  <1>1. /\ m \in Mine(existing, p) /\ n \in Mine(existing, p)
        /\ Followers(p, m) >= policy[p] /\ Followers(p, n) + 1 = policy[p]
    BY DEF Excess, MakesRoom
  <1>2. Len(existing) \in Nat /\ m \in 1..Len(existing) /\ n \in 1..Len(existing)
    BY <1>1, FollowersAreFew DEF Mine
  <1>3. Followers(p, m) \in Nat /\ Followers(p, n) \in Nat
    BY FollowersAreFew
  <1>4. ASSUME n <= m PROVE FALSE
    <2> DEFINE S == {j \in Mine(existing, p) : j > n}
               T == {j \in Mine(existing, p) : j > m}
    <2>1. S \in SUBSET (1..Len(existing))
      BY FollowersAreFew
    <2>2. T \in SUBSET S
      <3>1. \A j \in Mine(existing, p) : j \in Nat
        BY FollowersAreFew DEF Mine
      <3>2. m \in Nat /\ n \in Nat
        BY <1>2
      <3> QED
        BY <1>4, <3>1, <3>2
    <2>3. Cardinality(T) <= Cardinality(S)
      <3> HIDE DEF S, T
      <3> QED
        BY <1>2, <2>1, <2>2, Fewer
    <2>4. Followers(p, m) <= Followers(p, n)
      BY <2>3 DEF Followers
    <2>5. policy[p] \in Nat
      BY DEF SnapTypes
    <2> QED
      BY <1>1, <1>3, <2>4, <2>5
  <1> QED
    BY <1>2, <1>4

\* While the list stands, its followers are still there.
LEMMA FollowersAreLater ==
    ASSUME SnapTypes, NamesPoint, Len(existing) <= Len(snaps),
           \A i \in DOMAIN existing : existing[i].name = i,
           NEW p, NEW i \in Mine(existing, p)
    PROVE  Cardinality(Later(i)) >= Followers(p, i) /\ snaps[i].series = p
  <1>1. Len(existing) \in Nat /\ DOMAIN existing = 1..Len(existing) /\ Followers(p, i) \in Nat
    BY FollowersAreFew
  <1>2. \A j \in Mine(existing, p) : j \in DOMAIN snaps /\ snaps[j].series = p
    <2> TAKE j \in Mine(existing, p)
    <2>1. j \in DOMAIN existing /\ existing[j].series = p /\ existing[j].name = j /\ j # 0
      BY <1>1 DEF Mine
    <2> QED
      BY <2>1 DEF NamesPoint
  <1>3. {j \in Mine(existing, p) : j > i} \in SUBSET Later(i)
    BY <1>2 DEF Later
  <1>4. Later(i) \in SUBSET (1..Len(snaps)) /\ Len(snaps) \in Nat /\ Cardinality(Later(i)) \in Nat
    BY LaterIsFew DEF SnapTypes
  <1>5. Followers(p, i) <= Cardinality(Later(i))
    BY <1>3, <1>4, Fewer DEF Followers
  <1> QED
    BY <1>1, <1>2, <1>4, <1>5

\* Names of the list are names of what it lists.
LEMMA NamesAre ==
    ASSUME SnapTypes, NamesPoint, NEW p, NEW S \in SUBSET Mine(existing, p), NEW n \in Names(S)
    PROVE  /\ n \in DOMAIN snaps /\ snaps[n].series = p
           /\ n \in Nat
           /\ (\A i \in DOMAIN existing : existing[i].name = i) => n \in S
  <1>1. PICK i \in S : n = existing[i].name /\ n # 0
    BY DEF Names
  <1>2. i \in DOMAIN existing /\ existing[i].series = p
    BY DEF Mine
  <1>3. n \in DOMAIN snaps /\ snaps[n].series = p
    BY <1>1, <1>2 DEF NamesPoint
  <1>4. n \in Nat
    BY <1>3 DEF SnapTypes
  <1> QED
    BY <1>1, <1>2, <1>3, <1>4

\* The plan fits what exists, if nobody has destroyed anything since the list.
LEMMA PlanStep ==
    ASSUME SnapInv, NEW changed \in BOOLEAN, MakePlan(changed), disturbed \subseteq disturbed',
           disturbed' = {} => changed = dirty
    PROVE  SnapInv'
  <1> USE DEF SnapInv
  <1>1. /\ at = "written" /\ at' = "work" /\ existing' = <<>>
        /\ take' = PlanTakes(changed) /\ destroy' = PlanDestroys
        /\ UNCHANGED <<snaps, dirty, keep, policy, replaced>>
    BY DEF MakePlan
  <1>2. replaced' = {}
    BY <1>1 DEF PlanInTime
  <1>3. \A t \in take' : /\ t.period \in Periods /\ Due(t.period, changed)
                         /\ t.makesRoom = Names(MakesRoom(t.period))
                         /\ t = [period |-> t.period, makesRoom |-> t.makesRoom]
    BY <1>1 DEF PlanTakes
  <1>4. \A n \in destroy' : \E p \in Periods : n \in Names(Excess(p))
    BY <1>1 DEF PlanDestroys
  <1>5. \A p : Excess(p) \in SUBSET Mine(existing, p) /\ MakesRoom(p) \in SUBSET Mine(existing, p)
    BY DEF Excess, MakesRoom
  <1>6. \A t \in take' : \A n \in t.makesRoom : n \in Nat /\ n \in DOMAIN snaps /\ snaps[n].series = t.period
    BY <1>3, <1>5, NamesAre
  <1>7. \A n \in destroy' : n \in Nat /\ n \in DOMAIN snaps /\ snaps[n].series \in Periods
    BY <1>4, <1>5, NamesAre
  <1>8. SnapTypes'
    <2>1. take' \subseteq [period : Periods, makesRoom : SUBSET Nat]
      <3> SUFFICES ASSUME NEW t \in take' PROVE t \in [period : Periods, makesRoom : SUBSET Nat]
        OBVIOUS
      <3>1. t.makesRoom \in SUBSET Nat /\ t.period \in Periods
        BY <1>3, <1>6
      <3> QED
        BY <1>3, <3>1
    <2>2. <<>> \in Seq([name : Nat, series : Serieses])
      OBVIOUS
    <2> QED
      BY <1>1, <1>2, <1>7, <2>1, <2>2 DEF SnapTypes
  <1>9. NamesPoint' /\ PlanInTime' /\ ListStands'
    BY <1>1, <1>2, <1>6, <1>7 DEF NamesPoint, PlanInTime, ListStands
  <1>10. OncePerPeriod'
    BY <1>3 DEF OncePerPeriod
  <1>11. Outlived'
    <2> SUFFICES ASSUME "destroyed" \notin disturbed'
                 PROVE  /\ \A n \in destroy' : Cardinality(Later(n)) >= policy[snaps[n].series]
                        /\ \A t \in take' : \A n \in t.makesRoom : Cardinality(Later(n)) + 1 >= policy[t.period]
                        /\ \A m \in destroy', t \in take' : \A n \in t.makesRoom : snaps[m].series = t.period => m < n
      BY <1>1, <1>2 DEF Outlived, Later
    <2>1. Len(existing) <= Len(snaps) /\ \A i \in DOMAIN existing : existing[i].name = i
      BY <1>1 DEF ListStands
    <2>2. ASSUME NEW n \in destroy'
          PROVE  n \in Excess(snaps[n].series) /\ snaps[n].series \in Periods
      <3>1. PICK p \in Periods : n \in Names(Excess(p))
        BY <1>4
      <3> QED
        BY <1>5, <2>1, <3>1, NamesAre
    <2>3. ASSUME NEW t \in take', NEW n \in t.makesRoom
          PROVE  n \in MakesRoom(t.period) /\ t.period \in Periods
      BY <1>3, <1>5, <2>1, NamesAre
    <2>4. ASSUME NEW n \in destroy' PROVE Cardinality(Later(n)) >= policy[snaps[n].series]
      <3> DEFINE p == snaps[n].series
      <3>1. n \in Mine(existing, p) /\ Followers(p, n) >= policy[p]
        BY <2>2, <2>4 DEF Excess
      <3>2. Cardinality(Later(n)) >= Followers(p, n)
        BY <2>1, <3>1, FollowersAreLater
      <3>3. Cardinality(Later(n)) \in Nat /\ Followers(p, n) \in Nat /\ policy[p] \in Nat
        BY <2>2, <2>4, LaterIsFew, FollowersAreFew DEF SnapTypes
      <3> QED
        BY <3>1, <3>2, <3>3
    <2>5. ASSUME NEW t \in take', NEW n \in t.makesRoom PROVE Cardinality(Later(n)) + 1 >= policy[t.period]
      <3> DEFINE p == t.period
      <3>1. n \in Mine(existing, p) /\ Followers(p, n) + 1 = policy[p]
        BY <2>3, <2>5 DEF MakesRoom
      <3>2. Cardinality(Later(n)) >= Followers(p, n)
        BY <2>1, <3>1, FollowersAreLater
      <3>3. Cardinality(Later(n)) \in Nat /\ Followers(p, n) \in Nat
        BY LaterIsFew, FollowersAreFew
      <3> QED
        BY <3>1, <3>2, <3>3
    <2>6. ASSUME NEW m \in destroy', NEW t \in take', NEW n \in t.makesRoom, snaps[m].series = t.period
          PROVE  m < n
      BY <2>2, <2>3, <2>6, ExcessIsOlder
    <2> QED
      BY <2>4, <2>5, <2>6
  <1>12. Changed'
    <2> SUFFICES ASSUME disturbed' = {}, NEW t \in take' PROVE dirty
      BY <1>1 DEF Changed, Mine
    <2>1. changed
      BY <1>3 DEF Due
    <2> QED
      BY <2>1
  <1> QED
    BY <1>8, <1>9, <1>10, <1>11, <1>12

----------------------------------------------------------------------------
(* Taking *)

\* A new snapshot of a series that is not to be taken any more leaves the rest of the plan as
\* good as it was.
LEMMA TakenStep ==
    ASSUME SnapInv, NEW s \in Serieses, Taken(s), at' = at, disturbed' = disturbed,
           UNCHANGED <<keep, policy, existing, destroy>>,
           take' \subseteq take, \A t \in take' : t.period # s,
           \A n \in replaced' : n \in replaced \/ \E t \in take : t.period = s /\ n \in t.makesRoom,
           at # "work" => replaced' = {}
    PROVE  SnapInv'
  <1> USE DEF SnapInv
  <1>1. /\ snaps' \in Seq(Snapshot) /\ Len(snaps') = Len(snaps) + 1 /\ Len(snaps) \in Nat
        /\ DOMAIN snaps = 1..Len(snaps) /\ DOMAIN snaps' = 1..(Len(snaps) + 1)
        /\ \A i \in DOMAIN snaps : i \in DOMAIN snaps' /\ snaps'[i] = snaps[i]
        /\ snaps'[Len(snaps) + 1].series = s
        /\ snaps'[Len(snaps) + 1].differs = dirty
        /\ dirty' = FALSE
    BY TakenFacts
  <1>2. \A t \in take : \A n \in t.makesRoom : n \in DOMAIN snaps /\ snaps[n].series = t.period /\ t.period \in Periods
    BY DEF NamesPoint, SnapTypes
  <1>3. \A n \in destroy' \cup replaced' : n \in DOMAIN snaps /\ snaps[n].series \in Periods
    BY <1>2 DEF NamesPoint
  <1>4. SnapTypes'
    <2>1. replaced' \subseteq Nat
      BY <1>1, <1>3
    <2> QED
      BY <1>1, <2>1 DEF SnapTypes
  <1>5. PlanInTime' /\ OncePerPeriod'
    BY DEF PlanInTime, OncePerPeriod
  <1>6. NamesPoint'
    BY <1>1, <1>2, <1>3 DEF NamesPoint
  <1>7. ListStands'
    <2>1. Len(existing) \in Nat
      BY DEF SnapTypes
    <2> QED
      BY <1>1, <2>1 DEF ListStands
  <1>8. Outlived'
    <2> SUFFICES ASSUME "destroyed" \notin disturbed
                 PROVE  /\ \A n \in destroy \cup replaced' : Cardinality(Later(n)') >= policy[snaps[n].series]
                        /\ \A t \in take' : \A n \in t.makesRoom : Cardinality(Later(n)') + 1 >= policy[t.period]
                        /\ \A m \in destroy, n \in replaced' : snaps[m].series = snaps[n].series => m < n
                        /\ \A m \in destroy, t \in take' : \A n \in t.makesRoom : snaps[m].series = t.period => m < n
      BY <1>1, <1>2, <1>3 DEF Outlived
    <2>1. \A n \in DOMAIN snaps :
            /\ Cardinality(Later(n)') >= Cardinality(Later(n))
            /\ snaps[n].series = s => Cardinality(Later(n)') >= Cardinality(Later(n)) + 1
            /\ Cardinality(Later(n)) \in Nat /\ Cardinality(Later(n)') \in Nat
      BY TakenLater
    <2>2. ASSUME NEW n \in destroy \cup replaced PROVE Cardinality(Later(n)') >= policy[snaps[n].series]
      <3>1. n \in DOMAIN snaps /\ policy[snaps[n].series] \in Nat
        BY DEF NamesPoint, SnapTypes
      <3>2. Cardinality(Later(n)) >= policy[snaps[n].series]
        BY DEF Outlived
      <3> QED
        BY <2>1, <3>1, <3>2
    <2>3. ASSUME NEW t \in take, NEW n \in t.makesRoom
          PROVE  /\ Cardinality(Later(n)') + 1 >= policy[t.period]
                 /\ t.period = s => Cardinality(Later(n)') >= policy[t.period]
      <3>1. n \in DOMAIN snaps /\ snaps[n].series = t.period /\ policy[t.period] \in Nat
        BY <1>2 DEF SnapTypes
      <3>2. Cardinality(Later(n)) + 1 >= policy[t.period]
        BY DEF Outlived
      <3> QED
        BY <2>1, <3>1, <3>2
    <2>4. ASSUME NEW n \in replaced', n \notin replaced PROVE Cardinality(Later(n)') >= policy[snaps[n].series]
      <3>1. PICK t \in take : t.period = s /\ n \in t.makesRoom
        BY <2>4
      <3> QED
        BY <1>2, <2>3, <3>1
    <2>5. ASSUME NEW m \in destroy, NEW n \in replaced', snaps[m].series = snaps[n].series PROVE m < n
      <3>1. CASE n \in replaced
        BY <2>5, <3>1 DEF Outlived
      <3>2. CASE n \notin replaced
        <4>1. PICK t \in take : t.period = s /\ n \in t.makesRoom
          BY <3>2
        <4> QED
          BY <1>2, <2>5, <4>1 DEF Outlived
      <3> QED
        BY <3>1, <3>2
    <2>6. ASSUME NEW m \in destroy, NEW t \in take', NEW n \in t.makesRoom, snaps[m].series = t.period PROVE m < n
      BY <2>6 DEF Outlived
    <2> QED
      BY <2>2, <2>3, <2>4, <2>5, <2>6
  <1>9. Changed'
    <2> SUFFICES ASSUME at = "work", disturbed = {}, NEW t \in take', NEW i \in Mine(snaps', t.period)
                 PROVE  \E j \in DOMAIN snaps' : j > i /\ snaps'[j].differs
      BY DEF Changed, Mine
    <2>1. i \in DOMAIN snaps' /\ snaps'[i].series = t.period /\ t.period # s
      BY DEF Mine
    <2>2. i \in DOMAIN snaps /\ snaps[i].series = t.period
      BY <1>1, <2>1
    <2>3. dirty \/ \E j \in DOMAIN snaps : j > i /\ snaps[j].differs
      BY <2>2 DEF Changed, Mine
    <2>4. CASE dirty
      <3>1. Len(snaps) + 1 \in DOMAIN snaps' /\ Len(snaps) + 1 > i
        BY <1>1, <2>2
      <3> QED
        BY <1>1, <2>4, <3>1
    <2>5. CASE \E j \in DOMAIN snaps : j > i /\ snaps[j].differs
      BY <1>1, <2>5
    <2> QED
      BY <2>3, <2>4, <2>5
  <1> QED
    BY <1>4, <1>5, <1>6, <1>7, <1>8, <1>9

\* Somebody else takes one.
LEMMA CreateStep == ASSUME SnapInv, CreateSnapshot PROVE SnapInv'
  <1>1. /\ Taken("other") /\ at' = at /\ disturbed' = disturbed
        /\ UNCHANGED <<keep, policy, existing, destroy, take, replaced>>
    BY DEF CreateSnapshot, plans
  <1>2. "other" \in Serieses /\ \A t \in take : t.period # "other"
    <2>1. "other" \notin Periods
      BY SnapshotsAssumption DEF Periods
    <2> QED
      BY <2>1 DEF Serieses, SnapInv, SnapTypes
  <1>3. at # "work" => replaced' = {}
    BY <1>1 DEF SnapInv, PlanInTime
  <1> QED
    BY <1>1, <1>2, <1>3, TakenStep

\* The tick takes one, and what it replaces is to go.
LEMMA TakeStep == ASSUME SnapInv, Take PROVE SnapInv'
  <1>1. PICK t \in take : /\ TakesNext(t) /\ Taken(t.period)
                          /\ take' = take \ {t} /\ replaced' = replaced \cup t.makesRoom
    BY DEF Take
  <1>2. at' = at /\ disturbed' = disturbed /\ UNCHANGED <<keep, policy, existing, destroy>> /\ at = "work"
    BY <1>1 DEF Take, TakesNext
  <1>3. t.period \in Serieses /\ \A u \in take \ {t} : u.period # t.period
    BY DEF SnapInv, SnapTypes, OncePerPeriod, Serieses
  <1> QED
    BY <1>1, <1>2, <1>3, TakenStep

\* What could not be taken or destroyed is left out.
LEMMA FailsStep ==
    ASSUME SnapInv, take' \subseteq take, destroy' \subseteq destroy, replaced' \subseteq replaced,
           UNCHANGED <<snaps, dirty, keep, at, policy, existing, disturbed>>
    PROVE  SnapInv'
  <1> USE DEF SnapInv
  <1>1. SnapTypes' /\ PlanInTime' /\ OncePerPeriod'
    BY DEF SnapTypes, PlanInTime, OncePerPeriod
  <1>2. NamesPoint' /\ ListStands'
    BY DEF NamesPoint, ListStands
  <1>3. Outlived'
    BY DEF Outlived, Later
  <1>4. Changed'
    BY DEF Changed, Mine
  <1> QED
    BY <1>1, <1>2, <1>3, <1>4

----------------------------------------------------------------------------
(* Destroying *)

\* Whoever destroys one, names stay names of what they were.
LEMMA DestroyedStep ==
    ASSUME SnapInv, NEW i \in DOMAIN snaps, Destroyed(i), UNCHANGED <<at, keep, policy>>
    PROVE  SnapTypes' /\ PlanInTime' /\ NamesPoint' /\ OncePerPeriod'
  <1> USE DEF SnapInv
  <1>1. /\ snaps' \in Seq(Snapshot) /\ dirty' \in BOOLEAN
        /\ Len(snaps) \in Nat /\ Len(snaps') = Len(snaps) - 1 /\ i \in Nat \ {0}
        /\ DOMAIN snaps = 1..Len(snaps) /\ DOMAIN snaps' = 1..(Len(snaps) - 1)
        /\ \A n \in DOMAIN snaps \ {i} : /\ Moved(i, n) \in DOMAIN snaps'
                                         /\ snaps'[Moved(i, n)].series = snaps[n].series
    BY DestroyedFacts
  <1>2. /\ existing' = [j \in DOMAIN existing |-> [existing[j] EXCEPT !.name = Moved(i, @)]]
        /\ take' = {[t EXCEPT !.makesRoom = Left(i, @)] : t \in take}
        /\ destroy' = Left(i, destroy) /\ replaced' = Left(i, replaced)
    BY DEF Destroyed
  <1>3. \A u \in take' : \E t \in take : /\ u = [period |-> t.period, makesRoom |-> Left(i, t.makesRoom)]
                                         /\ u.period = t.period /\ u.makesRoom = Left(i, t.makesRoom)
    <2> SUFFICES ASSUME NEW t \in take
                 PROVE  [t EXCEPT !.makesRoom = Left(i, @)] = [period |-> t.period, makesRoom |-> Left(i, t.makesRoom)]
      BY <1>2
    <2>1. t \in [period : Periods, makesRoom : SUBSET Nat]
      BY DEF SnapTypes
    <2> QED
      BY <2>1
  <1>4. ASSUME NEW S, NEW n \in Left(i, S), \A m \in S : m \in DOMAIN snaps
        PROVE  \E m \in S : m # i /\ n = Moved(i, m) /\ n \in DOMAIN snaps' /\ snaps'[n].series = snaps[m].series
    BY <1>1, <1>4 DEF Left
  <1>5. \A n \in destroy' \cup replaced' : n \in DOMAIN snaps' /\ snaps'[n].series \in Periods
    BY <1>2, <1>4 DEF NamesPoint
  <1>6. \A u \in take' : \A n \in u.makesRoom : n \in DOMAIN snaps' /\ snaps'[n].series = u.period
    <2> SUFFICES ASSUME NEW u \in take', NEW n \in u.makesRoom
                 PROVE  n \in DOMAIN snaps' /\ snaps'[n].series = u.period
      OBVIOUS
    <2>1. PICK t \in take : u.period = t.period /\ u.makesRoom = Left(i, t.makesRoom)
      BY <1>3
    <2>2. \A m \in t.makesRoom : m \in DOMAIN snaps /\ snaps[m].series = t.period
      BY DEF NamesPoint
    <2> QED
      BY <1>4, <2>1, <2>2
  <1>7. /\ existing' \in Seq([name : Nat, series : Serieses]) /\ DOMAIN existing' = DOMAIN existing
        /\ \A j \in DOMAIN existing : existing'[j].name = Moved(i, existing[j].name) /\ existing'[j].series = existing[j].series
    <2>1. existing \in Seq([name : Nat, series : Serieses])
      BY DEF SnapTypes
    <2>2. \A n \in Nat : Moved(i, n) \in Nat
      BY <1>1 DEF Moved
    <2>3. \A j \in DOMAIN existing : existing[j] \in [name : Nat, series : Serieses]
      <3> DEFINE Entry == [name : Nat, series : Serieses]
      <3>1. existing \in Seq(Entry)
        BY <2>1
      <3> HIDE DEF Entry
      <3>2. \A j \in DOMAIN existing : existing[j] \in Entry
        BY <3>1
      <3> QED
        BY <3>2 DEF Entry
    <2> HIDE DEF Moved
    <2>4. \A j \in DOMAIN existing' : existing'[j] \in [name : Nat, series : Serieses]
      BY <1>2, <2>2, <2>3
    <2>5. Len(existing) \in Nat /\ existing' \in [1..Len(existing) -> [name : Nat, series : Serieses]]
      BY <1>2, <2>1, <2>4
    <2>6. ASSUME NEW j \in DOMAIN existing
          PROVE  existing'[j].name = Moved(i, existing[j].name) /\ existing'[j].series = existing[j].series
      <3>1. existing'[j] = [existing[j] EXCEPT !.name = Moved(i, existing[j].name)]
        BY <1>2
      <3> QED
        BY <2>3, <3>1
    <2> QED
      BY <1>2, <2>1, <2>5, <2>6, SMTT(60)
  <1>8. SnapTypes'
    <2>1. destroy' \subseteq Nat /\ replaced' \subseteq Nat
      BY <1>1, <1>5
    <2>2. take' \subseteq [period : Periods, makesRoom : SUBSET Nat]
      <3> SUFFICES ASSUME NEW u \in take' PROVE u \in [period : Periods, makesRoom : SUBSET Nat]
        OBVIOUS
      <3>1. PICK t \in take : /\ u = [period |-> t.period, makesRoom |-> Left(i, t.makesRoom)]
                              /\ u.makesRoom = Left(i, t.makesRoom)
        BY <1>3
      <3>2. t.period \in Periods /\ \A n \in u.makesRoom : n \in Nat
        BY <1>1, <1>6 DEF SnapTypes
      <3>3. Left(i, t.makesRoom) \in SUBSET Nat
        BY <3>1, <3>2
      <3> QED
        BY <3>1, <3>2, <3>3
    <2> QED
      BY <1>1, <1>7, <2>1, <2>2 DEF SnapTypes
  <1>9. PlanInTime'
    BY <1>2 DEF PlanInTime, Left
  <1>10. OncePerPeriod'
    <2> SUFFICES ASSUME NEW u \in take', NEW v \in take', u.period = v.period PROVE u = v
      BY DEF OncePerPeriod
    <2>1. PICK t \in take : u = [period |-> t.period, makesRoom |-> Left(i, t.makesRoom)] /\ u.period = t.period
      BY <1>3
    <2>2. PICK w \in take : v = [period |-> w.period, makesRoom |-> Left(i, w.makesRoom)] /\ v.period = w.period
      BY <1>3
    <2>3. t = w
      BY <2>1, <2>2 DEF OncePerPeriod
    <2> QED
      BY <2>1, <2>2, <2>3
  <1>11. NamesPoint'
    <2>1. ASSUME NEW j \in DOMAIN existing, Moved(i, existing[j].name) # 0
          PROVE  /\ Moved(i, existing[j].name) \in DOMAIN snaps'
                 /\ snaps'[Moved(i, existing[j].name)].series = existing[j].series
      <3>1. existing[j].name # 0 /\ existing[j].name # i
        BY <1>1, <2>1 DEF Moved
      <3>2. existing[j].name \in DOMAIN snaps \ {i} /\ snaps[existing[j].name].series = existing[j].series
        BY <3>1 DEF NamesPoint
      <3> QED
        BY <1>1, <3>2
    <2> QED
      BY <1>5, <1>6, <1>7, <2>1 DEF NamesPoint
  <1> QED
    BY <1>8, <1>9, <1>10, <1>11

\* Somebody else destroys one.
LEMMA DestroySnapshotStep == ASSUME SnapInv, DestroySnapshot PROVE SnapInv'
  <1>1. PICK i \in DOMAIN snaps : Destroyed(i)
    BY DEF DestroySnapshot
  <1>2. /\ UNCHANGED <<at, keep, policy>>
        /\ disturbed' = IF at \in {"idle", "list"} THEN {} ELSE disturbed \cup {"destroyed"}
    BY DEF DestroySnapshot, Disturb
  <1>3. SnapTypes' /\ PlanInTime' /\ NamesPoint' /\ OncePerPeriod'
    BY <1>1, <1>2, DestroyedStep
  <1>4. CASE at \in {"idle", "list"}
    BY <1>2, <1>3, <1>4 DEF SnapInv, PlanInTime, ListStands, Outlived, Changed
  <1>5. CASE at \notin {"idle", "list"}
    BY <1>2, <1>3, <1>5 DEF SnapInv, ListStands, Outlived, Changed
  <1> QED
    BY <1>4, <1>5

\* The next to go is older than all that is to go of its period.
LEMMA NextIsOldest ==
    ASSUME SnapInv, "destroyed" \notin disturbed, NEW i \in ToDestroy, DestroysNext(i),
           NEW n \in destroy \cup replaced, n # i
    PROVE  snaps[n].series = snaps[i].series => i < n
  <1>1. SUFFICES ASSUME snaps[n].series = snaps[i].series PROVE i < n
    OBVIOUS
  <1>2. CASE n \in ToDestroy
    <2>1. \/ Place(snaps[i].series) < Place(snaps[n].series)
          \/ snaps[i].series = snaps[n].series /\ i < n
      BY <1>2 DEF DestroysNext
    <2>2. ~(Place(snaps[i].series) < Place(snaps[n].series))
      <3>1. snaps[i].series \in Periods
        BY DEF ToDestroy, SnapInv, NamesPoint
      <3>2. Place(snaps[i].series) \in Nat
        BY <3>1, SnapshotsAssumption DEF Place, Periods
      <3> QED
        BY <1>1, <3>2
    <2> QED
      BY <2>1, <2>2
  <1>3. CASE n \notin ToDestroy
    <2>1. i \in destroy /\ n \in replaced
      BY <1>3 DEF ToDestroy
    <2> QED
      BY <1>1, <2>1 DEF SnapInv, Outlived
  <1> QED
    BY <1>2, <1>3

\* The tick destroys one.
LEMMA PruneStep == ASSUME SnapInv, Prune PROVE SnapInv'
  <1>1. PICK i \in ToDestroy : DestroysNext(i) /\ Destroyed(i)
    BY DEF Prune
  <1>2. at = "work" /\ take = {} /\ UNCHANGED <<at, keep, policy, disturbed>>
    BY <1>1 DEF Prune, DestroysNext
  <1>3. i \in DOMAIN snaps /\ i \in destroy \cup replaced
    BY DEF SnapInv, NamesPoint, ToDestroy
  <1>4. SnapTypes' /\ PlanInTime' /\ NamesPoint' /\ OncePerPeriod'
    BY <1>1, <1>2, <1>3, DestroyedStep
  <1>5. take' = {} /\ destroy' = Left(i, destroy) /\ replaced' = Left(i, replaced)
    BY <1>1, <1>2 DEF Destroyed
  <1>6. /\ Len(snaps) \in Nat /\ i \in Nat \ {0} /\ DOMAIN snaps = 1..Len(snaps)
        /\ \A n \in DOMAIN snaps \ {i} : /\ Moved(i, n) \in DOMAIN snaps'
                                         /\ snaps'[Moved(i, n)].series = snaps[n].series
    BY <1>1, <1>3, DestroyedFacts DEF SnapInv
  <1>7. Outlived'
    <2> SUFFICES ASSUME "destroyed" \notin disturbed
                 PROVE  /\ \A n \in destroy' \cup replaced' : Cardinality(Later(n)') >= policy[snaps'[n].series]
                        /\ \A m \in destroy', n \in replaced' : snaps'[m].series = snaps'[n].series => m < n
      BY <1>2, <1>5 DEF Outlived
    <2>1. ASSUME NEW m \in destroy \cup replaced, m # i
          PROVE  /\ Cardinality(Later(Moved(i, m))') >= policy[snaps[m].series]
                 /\ snaps'[Moved(i, m)].series = snaps[m].series
      <3>1. m \in DOMAIN snaps \ {i} /\ snaps[m].series \in Periods
        BY <2>1 DEF SnapInv, NamesPoint
      <3>2. snaps[m].series = snaps[i].series => i < m
        BY <1>1, <2>1, NextIsOldest
      <3>3. i \notin Later(m)
        BY <1>6, <3>1, <3>2 DEF Later
      <3>4. Cardinality(Later(Moved(i, m))') >= Cardinality(Later(m))
        BY <1>1, <1>3, <3>1, <3>3, DestroyedLater DEF SnapInv
      <3>5. Cardinality(Later(m)) >= policy[snaps[m].series]
        BY <2>1 DEF SnapInv, Outlived
      <3>6. Cardinality(Later(m)) \in Nat /\ policy[snaps[m].series] \in Nat
        BY <3>1, LaterIsFew DEF SnapInv, SnapTypes
      <3>7. Cardinality(Later(Moved(i, m))') \in Nat
        <4>1. Later(Moved(i, m))' \in SUBSET (1..Len(snaps')) /\ Len(snaps') \in Nat
          BY <1>4 DEF Later, SnapTypes
        <4> QED
          BY <4>1, Few
      <3> QED
        BY <1>6, <3>1, <3>4, <3>5, <3>6, <3>7
    <2>2. ASSUME NEW n \in destroy' \cup replaced' PROVE Cardinality(Later(n)') >= policy[snaps'[n].series]
      <3>1. PICK m \in destroy \cup replaced : m # i /\ n = Moved(i, m)
        BY <1>5 DEF Left
      <3> QED
        BY <2>1, <3>1 DEF Later
    <2>3. ASSUME NEW k \in destroy', NEW n \in replaced', snaps'[k].series = snaps'[n].series PROVE k < n
      <3>1. PICK l \in destroy : l # i /\ k = Moved(i, l)
        BY <1>5 DEF Left
      <3>2. PICK m \in replaced : m # i /\ n = Moved(i, m)
        BY <1>5 DEF Left
      <3>3. snaps[l].series = snaps[m].series /\ l \in DOMAIN snaps /\ m \in DOMAIN snaps
        BY <2>1, <2>3, <3>1, <3>2 DEF SnapInv, NamesPoint
      <3>4. l < m /\ l \in Nat \ {0} /\ m \in Nat \ {0}
        BY <1>6, <3>3 DEF SnapInv, Outlived
      <3> QED
        BY <1>6, <3>1, <3>2, <3>4, MovedOrder
    <2> QED
      BY <2>2, <2>3
  <1> QED
    BY <1>2, <1>4, <1>5, <1>7 DEF SnapInv, ListStands, Changed

----------------------------------------------------------------------------
(* The theorems *)

\* Every step keeps the invariant of the snapshots, which holds at first.
LEMMA SnapInductive == ASSUME SnapInv, [SnapNext]_snapVars PROVE SnapInv'
  <1>0. dirty \in BOOLEAN /\ keep \in [Periods -> Nat]
    BY DEF SnapInv, SnapTypes
  <1>1. CASE Write
    BY <1>0, <1>1, PlanStays DEF Write
  <1>2. CASE SetPolicy
    <2>1. keep' \in [Periods -> Nat]
      BY <1>2, SnapshotsAssumption DEF SetPolicy
    <2> QED
      BY <1>0, <1>2, <2>1, PlanStays DEF SetPolicy
  <1>3. CASE CreateSnapshot
    BY <1>3, CreateStep
  <1>4. CASE DestroySnapshot
    BY <1>4, DestroySnapshotStep
  <1>5. CASE Rollback
    <2>1. at \in {"written", "work"} => disturbed' = disturbed \cup {"rolled back"}
      BY <1>5 DEF Rollback, Disturb
    <2>2. snaps' = snaps /\ at' = at /\ UNCHANGED plans /\ dirty' = FALSE /\ keep' = keep
      BY <1>5 DEF Rollback
    <2> QED
      BY <1>0, <2>1, <2>2, PlanStays
  <1>6. CASE StartTick
    BY <1>6, StartStep
  <1>7. CASE ListSnapshots
    BY <1>7, ListStep
  <1>8. CASE ReadWritten
    <2>1. MakePlan(dirty) /\ disturbed' = disturbed
      BY <1>8 DEF ReadWritten
    <2> QED
      BY <1>0, <2>1, PlanStep
  <1>9. CASE WrittenUnreadable
    <2>1. MakePlan(TRUE) /\ disturbed' = disturbed \cup {"blind"}
      BY <1>9 DEF WrittenUnreadable
    <2> QED
      BY <2>1, PlanStep
  <1>10. CASE Take
    BY <1>10, TakeStep
  <1>11. CASE TakeFails
    BY <1>11, FailsStep DEF TakeFails
  <1>12. CASE Prune
    BY <1>12, PruneStep
  <1>13. CASE PruneFails
    BY <1>13, FailsStep DEF PruneFails
  <1>14. CASE EndTick \/ TickDies
    BY <1>14, EndStep DEF EndTick, TickDies
  <1>15. CASE \E p \in Periods : TimePasses(p)
    BY <1>0, <1>15, PlanStays DEF TimePasses
  <1>16. CASE UNCHANGED snapVars
    <2>1. UNCHANGED <<snaps, at, plans, dirty, keep, disturbed>>
      BY <1>16 DEF snapVars
    <2> QED
      BY <1>0, <2>1, PlanStays
  <1> QED
    BY <1>1, <1>2, <1>3, <1>4, <1>5, <1>6, <1>7, <1>8, <1>9, <1>10, <1>11, <1>12, <1>13, <1>14, <1>15, <1>16
    DEF SnapNext, SnapTick, People

LEMMA SnapInitially == SnapInit => SnapInv
  <1> SUFFICES ASSUME SnapInit PROVE SnapInv
    OBVIOUS
  <1>1. SnapTypes
    <2>1. keep \in [Periods -> Nat] /\ NoPolicy \in [Periods -> Nat]
      BY SnapshotsAssumption DEF SnapInit, NoPolicy
    <2> QED
      BY <2>1 DEF SnapInit, SnapTypes
  <1> QED
    BY <1>1 DEF SnapInit, SnapInv, PlanInTime, NamesPoint, OncePerPeriod, ListStands, Outlived, Changed

\* Who takes and who destroys.
LEMMA WhoTakes ==
    ASSUME SnapInv, SnapNext, Len(snaps') > Len(snaps), NEW t \in take \ take'
    PROVE  /\ Taken(t.period) /\ at = "work"
           /\ t.period \in Periods
  <1>0. Len(snaps) \in Nat
    BY DEF SnapInv, SnapTypes
  <1>1. CASE Take
    <2>1. PICK u \in take : TakesNext(u) /\ Taken(u.period) /\ take' = take \ {u}
      BY <1>1 DEF Take
    <2>2. t = u
      BY <2>1
    <2> QED
      BY <2>1, <2>2 DEF TakesNext, SnapInv, SnapTypes
  <1>2. CASE CreateSnapshot
    BY <1>2 DEF CreateSnapshot, plans
  <1>3. CASE DestroySnapshot \/ Prune
    <2>1. PICK i \in DOMAIN snaps : Destroyed(i)
      BY <1>3 DEF DestroySnapshot, Prune, ToDestroy, SnapInv, NamesPoint
    <2>2. Len(snaps') = Len(snaps) - 1
      BY <2>1, DestroyedFacts DEF SnapInv
    <2> QED
      BY <1>0, <2>2
  <1>4. CASE snaps' = snaps
    BY <1>0, <1>4
  <1> QED
    BY <1>1, <1>2, <1>3, <1>4 DEF SnapNext, SnapTick, People, Write, SetPolicy, Rollback, StartTick, ListSnapshots,
       ReadWritten, WrittenUnreadable, MakePlan, TakeFails, PruneFails, EndTick, TickDies, TimePasses

LEMMA WhoDestroys ==
    ASSUME SnapInv, SnapNext, acts \in Nat, acts' = acts, Len(snaps') < Len(snaps)
    PROVE  Prune
  <1>0. Len(snaps) \in Nat
    BY DEF SnapInv, SnapTypes
  <1>1. CASE Take \/ CreateSnapshot
    <2>1. PICK s \in Serieses : Taken(s)
      BY <1>1 DEF Take, CreateSnapshot, SnapInv, SnapTypes, Serieses
    <2>2. Len(snaps') = Len(snaps) + 1
      BY <2>1, TakenFacts DEF SnapInv
    <2> QED
      BY <1>0, <2>2
  <1>2. CASE DestroySnapshot
    BY <1>2 DEF DestroySnapshot, Acting
  <1>3. CASE snaps' = snaps
    BY <1>0, <1>3
  <1> QED
    BY <1>1, <1>2, <1>3 DEF SnapNext, SnapTick, People, Write, SetPolicy, Rollback, StartTick, ListSnapshots,
       ReadWritten, WrittenUnreadable, MakePlan, TakeFails, PruneFails, EndTick, TickDies, TimePasses

\* People are counted.
LEMMA ActsCount == ASSUME acts \in Nat, [SnapNext]_snapVars PROVE acts' \in Nat
  <1>1. CASE SetPolicy \/ CreateSnapshot \/ DestroySnapshot \/ Rollback
    <2>1. Acting
      BY <1>1 DEF SetPolicy, CreateSnapshot, DestroySnapshot, Rollback
    <2> QED
      BY <2>1 DEF Acting
  <1>2. CASE Write \/ \E p \in Periods : TimePasses(p)
    BY <1>2 DEF Write, TimePasses
  <1>3. CASE StartTick \/ ListSnapshots \/ ReadWritten \/ WrittenUnreadable
    BY <1>3 DEF StartTick, ListSnapshots, ReadWritten, WrittenUnreadable, MakePlan
  <1>4. CASE Take \/ TakeFails \/ Prune \/ PruneFails
    BY <1>4 DEF Take, TakeFails, Prune, PruneFails
  <1>5. CASE EndTick \/ TickDies
    BY <1>5 DEF EndTick, TickDies
  <1>6. CASE UNCHANGED snapVars
    BY <1>6 DEF snapVars
  <1> QED
    BY <1>1, <1>2, <1>3, <1>4, <1>5, <1>6 DEF SnapNext, SnapTick, People

\* The tick destroys only snapshots of periods, and, unless people have destroyed one since the
\* list, only one that as many newer ones of its period outlive as the policy keeps: for every
\* policy, any number of failures and crashes, and whatever people do meanwhile (plan in
\* policy.ts, the loops of tick.ts).
THEOREM NoneLostEarly == SnapSpec => OutlivedByKeep
  <1> DEFINE I == SnapInv /\ acts \in Nat
             Fine == acts' = acts /\ Len(snaps') < Len(snaps) =>
                       \E n \in ToDestroy :
                         LET p == snaps[n].series
                         IN  /\ DestroysNext(n)
                             /\ p \in Periods
                             /\ "destroyed" \notin disturbed => Cardinality(Later(n)) >= policy[p]
  <1>1. SnapInit => I
    BY SnapInitially DEF SnapInit
  <1>2. I /\ [SnapNext]_snapVars => I'
    BY SnapInductive, ActsCount
  <1>3. I /\ [SnapNext]_snapVars => [Fine]_snapVars
    <2> SUFFICES ASSUME I, SnapNext, acts' = acts, Len(snaps') < Len(snaps)
                 PROVE  \E n \in ToDestroy :
                          /\ DestroysNext(n)
                          /\ snaps[n].series \in Periods
                          /\ "destroyed" \notin disturbed => Cardinality(Later(n)) >= policy[snaps[n].series]
      OBVIOUS
    <2>1. PICK n \in ToDestroy : DestroysNext(n)
      BY WhoDestroys DEF Prune
    <2>2. n \in destroy \cup replaced
      BY DEF ToDestroy
    <2> QED
      BY <2>1, <2>2 DEF SnapInv, NamesPoint, Outlived
  <1> QED
    BY <1>1, <1>2, <1>3, PTL DEF SnapSpec, OutlivedByKeep

\* Unless people roll back or destroy, or zfs does not say what was written, a snapshot the tick
\* takes differs from the one before it in its period, whoever else takes snapshots meanwhile
\* and however many periods are due at once (changed in plan, read once for all of them).
THEOREM OnlyChangesTaken == SnapSpec => TakesOnlyChanges
  <1> DEFINE Fine == \A t \in take \ take' : Len(snaps') > Len(snaps) /\ disturbed = {} =>
                       \A i \in Mine(snaps, t.period) :
                         \E j \in DOMAIN snaps' : j > i /\ snaps'[j].differs
  <1>1. SnapInv /\ [SnapNext]_snapVars => [Fine]_snapVars
    <2> SUFFICES ASSUME SnapInv, SnapNext, NEW t \in take \ take', Len(snaps') > Len(snaps), disturbed = {},
                        NEW i \in Mine(snaps, t.period)
                 PROVE  \E j \in DOMAIN snaps' : j > i /\ snaps'[j].differs
      OBVIOUS
    <2>1. Taken(t.period) /\ at = "work" /\ t.period \in Periods
      BY WhoTakes
    <2>2. /\ Len(snaps) \in Nat /\ DOMAIN snaps = 1..Len(snaps) /\ DOMAIN snaps' = 1..(Len(snaps) + 1)
          /\ \A j \in DOMAIN snaps : j \in DOMAIN snaps' /\ snaps'[j] = snaps[j]
          /\ snaps'[Len(snaps) + 1].differs = dirty
      BY <2>1, TakenFacts DEF SnapInv, Serieses
    <2>3. dirty \/ \E j \in DOMAIN snaps : j > i /\ snaps[j].differs
      BY <2>1 DEF SnapInv, Changed
    <2>4. CASE dirty
      <3>1. Len(snaps) + 1 \in DOMAIN snaps' /\ Len(snaps) + 1 > i
        BY <2>2 DEF Mine
      <3> QED
        BY <2>2, <2>4, <3>1
    <2>5. CASE \E j \in DOMAIN snaps : j > i /\ snaps[j].differs
      BY <2>2, <2>5
    <2> QED
      BY <2>3, <2>4, <2>5
  <1> QED
    BY <1>1, SnapInitially, SnapInductive, PTL DEF SnapSpec, TakesOnlyChanges
=============================================================================
