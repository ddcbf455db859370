---------------------------- MODULE SharesProofs ----------------------------
(***************************************************************************)
(* For any datasets, users, calls and tables.  First, the two share files  *)
(* implement Published, that is, neither ever goes back to an older list:  *)
(* the apply under way read the table after every list that is in a file   *)
(* was read, because the chain lets an apply list the table only when the  *)
(* one before is settled (OrderInv).  Then what the files may say          *)
(* (ConfInv), the datasets behind the rows (DatasetInv), accounts that are *)
(* not ours (ForeignInv) and what an answer promises (AckInv), each on an  *)
(* invariant of its own.                                                   *)
(***************************************************************************)
EXTENDS Shares, SequenceTheorems, TLAPS

FileShape == /\ files = [smb |-> [made |-> files.smb.made, says |-> files.smb.says],
                         nfs |-> [made |-> files.nfs.made, says |-> files.nfs.says]]
             /\ files.smb.made \in Nat /\ files.nfs.made \in Nat

JobShape == /\ job = [pc |-> job.pc, made |-> job.made, rows |-> job.rows, ds |-> job.ds]
            /\ job.made \in Nat

\* Neither file is ahead of the table, nor of the list of the apply under way.
InOrder == /\ files.smb.made <= made /\ files.nfs.made <= made
           /\ job.pc # "none" => /\ job.made <= made
                                 /\ files.smb.made <= job.made /\ files.nfs.made <= job.made

OrderInv == made \in Nat /\ FileShape /\ JobShape /\ InOrder

\* The steps that write neither file nor list the table: the apply goes on with the list it has, or is over.
Elsewhere == /\ UNCHANGED files
             /\ made' = made \/ made' = made + 1
             /\ \/ job' = job \/ job' = NoJob
                \/ job.pc # "none" /\ \E pc, ds : job' = [job EXCEPT !.pc = pc, !.ds = ds]

\* Before anything is shared the invariant holds.
LEMMA OrderInit == Init => OrderInv
<1> SUFFICES ASSUME Init PROVE OrderInv
  OBVIOUS
<1>1. made = 0 /\ job = NoJob /\ files = [smb |-> [made |-> 0, says |-> {}], nfs |-> [made |-> 0, says |-> {}]]
  BY DEF Init
<1>2. FileShape
  BY <1>1 DEF FileShape
<1>3. JobShape /\ job.pc = "none"
  BY <1>1 DEF JobShape, NoJob
<1>. QED
  BY <1>1, <1>2, <1>3 DEF OrderInv, InOrder

\* Such a step leaves the files behind the apply and the table.
LEMMA ElsewhereKeeps == OrderInv /\ Elsewhere => OrderInv'
<1> SUFFICES ASSUME OrderInv, Elsewhere PROVE OrderInv'
  OBVIOUS
<1>0. UNCHANGED files /\ (made' = made \/ made' = made + 1)
  BY Zenon DEF Elsewhere
<1>1. made' \in Nat /\ made <= made'
  BY <1>0 DEF OrderInv
<1>2. FileShape'
  BY <1>0 DEF OrderInv, FileShape
<1>3. CASE job' = job
  BY <1>0, <1>1, <1>2, <1>3 DEF OrderInv, FileShape, JobShape, InOrder
<1>4. CASE job' = NoJob
  <2>1. JobShape' /\ job'.pc = "none"
    BY <1>4 DEF JobShape, NoJob
  <2>. QED
    BY <1>0, <1>1, <1>2, <2>1 DEF OrderInv, FileShape, InOrder
<1>5. CASE job.pc # "none" /\ \E pc, ds : job' = [job EXCEPT !.pc = pc, !.ds = ds]
  <2>1. JobShape' /\ job'.made = job.made
    BY <1>5 DEF OrderInv, JobShape
  <2>. QED
    BY <1>0, <1>1, <1>2, <1>5, <2>1 DEF OrderInv, FileShape, JobShape, InOrder
<1>. QED
  BY <1>3, <1>4, <1>5, Zenon DEF Elsewhere

\* Every step of a verb is such a step: it changes the table at most once and leaves the apply alone.
LEMMA VerbElsewhere == ASSUME NEW c, VerbStep(c) PROVE Elsewhere
<1>1. UNCHANGED files /\ UNCHANGED job
  BY DEF VerbStep, ShareSetLook, ShareRemove, DatasetDestroyLook, PolicySetLook, UserSetLook, UserRemoveLook,
         ShareSetWrite, UserAdd, UserRow, SmbPasswd, DropPassword, UserDel, UserForget, DatasetDestroy, DatasetDestroyFails, DropPolicy,
         PolicySetWrite, config, world
<1>2. made' = made \/ made' = made + 1
  BY DEF VerbStep, ShareSetLook, ShareRemove, DatasetDestroyLook, PolicySetLook, UserSetLook, UserRemoveLook,
         ShareSetWrite, UserAdd, UserRow, SmbPasswd, DropPassword, UserDel, UserForget, DatasetDestroy, DatasetDestroyFails, DropPolicy,
         PolicySetWrite, tables, ChangeAndApply
<1>. QED
  BY <1>1, <1>2 DEF Elsewhere

\* So are the steps of an apply that write no file, and what else happens to the agent and the box.
LEMMA OthersElsewhere ==
  ASSUME NEW p, JobShape,
         \/ ReadMounts(p) \/ TellSmbd(p) \/ TellNfs(p) \/ ApplyFails(p)
         \/ (\E d \in Datasets : DatasetCreate(d) \/ SetMountpoint(d))
         \/ Crash \/ Start \/ Reapply \/ RestoreSwaps \/ SmbdRereads \/ UNCHANGED vars
  PROVE  Elsewhere
<1>1. UNCHANGED files /\ (made' = made \/ made' = made + 1)
  BY DEF ReadMounts, TellSmbd, TellNfs, ApplyFails, DatasetCreate, SetMountpoint, Crash, Start, Reapply, RestoreSwaps,
         SmbdRereads, vars, config, tables
<1>2. CASE ReadMounts(p)
  <2>1. job.pc = "mounts" /\ job' = [job EXCEPT !.pc = "smb.conf", !.ds = DOMAIN job.rows \cap Placed]
    BY <1>2 DEF ReadMounts, At
  <2>. QED
    BY <1>1, <2>1 DEF Elsewhere
<1>3. CASE TellSmbd(p)
  <2>1. job.pc = "smbd" /\ job' = [job EXCEPT !.pc = "nfsd"]
    BY <1>3 DEF TellSmbd, At
  <2>2. job' = [job EXCEPT !.pc = "nfsd", !.ds = job.ds]
    BY <2>1 DEF JobShape
  <2>. QED
    BY <1>1, <2>1, <2>2 DEF Elsewhere
<1>4. CASE TellNfs(p) \/ ApplyFails(p) \/ Crash \/ RestoreSwaps
  BY <1>1, <1>4 DEF TellNfs, ApplyFails, Crash, RestoreSwaps, Dies, Elsewhere
<1>5. CASE (\E d \in Datasets : DatasetCreate(d) \/ SetMountpoint(d)) \/ Start \/ Reapply \/ SmbdRereads \/ UNCHANGED vars
  BY <1>1, <1>5 DEF DatasetCreate, SetMountpoint, Start, Reapply, SmbdRereads, vars, Elsewhere
<1>. QED
  BY <1>2, <1>3, <1>4, <1>5

\* Listing the table brings the apply up to it; nothing in a file is newer.
LEMMA ListKeeps == ASSUME NEW p, OrderInv, ListRows(p) PROVE OrderInv'
<1>1. /\ UNCHANGED <<files, made>>
      /\ job' = [pc |-> "mounts", made |-> made, rows |-> [d \in Listed(rows) |-> rows[d]], ds |-> {}]
  BY DEF ListRows, tables, config
<1>2. JobShape' /\ job'.made = made
  BY <1>1 DEF OrderInv, JobShape
<1>. QED
  BY <1>1, <1>2 DEF OrderInv, FileShape, InOrder

\* A file is written from that list, and is still behind the table.
LEMMA WriteKeeps == ASSUME NEW p, OrderInv, WriteSmbConf(p) \/ WriteExports(p)
                    PROVE  /\ OrderInv' /\ UNCHANGED made
                           /\ \E f \in {"smb", "nfs"} :
                                /\ files'[f].made \in files[f].made .. made
                                /\ \A g \in {"smb", "nfs"} \ {f} : files'[g].made = files[g].made
<1>1. CASE WriteSmbConf(p)
  <2>1. PICK says, pc : /\ UNCHANGED made /\ job.pc # "none"
                        /\ files' = [files EXCEPT !.smb = [made |-> job.made, says |-> says]]
                        /\ job' = [job EXCEPT !.pc = pc]
    BY <1>1 DEF WriteSmbConf, At, tables
  <2>2. JobShape' /\ job'.made = job.made
    BY <2>1 DEF OrderInv, JobShape
  <2>3. files' = [smb |-> files'.smb, nfs |-> files'.nfs]
    BY <2>1 DEF OrderInv, FileShape
  <2>4. files'.smb = [made |-> job.made, says |-> says] /\ files'.nfs = files.nfs
    BY <2>1 DEF OrderInv, FileShape
  <2>5. files'.smb.made = job.made /\ files'.smb.says = says /\ files'.nfs.made = files.nfs.made
    BY <2>4
  <2>6. FileShape'
    BY <2>3, <2>4, <2>5 DEF OrderInv, FileShape, JobShape
  <2>. QED
    BY <2>1, <2>2, <2>5, <2>6 DEF OrderInv, FileShape, JobShape, InOrder
<1>2. CASE WriteExports(p)
  <2>1. PICK says, pc : /\ UNCHANGED made /\ job.pc # "none"
                        /\ files' = [files EXCEPT !.nfs = [made |-> job.made, says |-> says]]
                        /\ job' = [job EXCEPT !.pc = pc]
    BY <1>2 DEF WriteExports, At, tables
  <2>2. JobShape' /\ job'.made = job.made
    BY <2>1 DEF OrderInv, JobShape
  <2>3. files' = [smb |-> files'.smb, nfs |-> files'.nfs]
    BY <2>1 DEF OrderInv, FileShape
  <2>4. files'.nfs = [made |-> job.made, says |-> says] /\ files'.smb = files.smb
    BY <2>1 DEF OrderInv, FileShape
  <2>5. files'.nfs.made = job.made /\ files'.nfs.says = says /\ files'.smb.made = files.smb.made
    BY <2>4
  <2>6. FileShape'
    BY <2>3, <2>4, <2>5 DEF OrderInv, FileShape, JobShape
  <2>. QED
    BY <2>1, <2>2, <2>5, <2>6 DEF OrderInv, FileShape, JobShape, InOrder
<1>. QED
  BY <1>1, <1>2

\* What a step may be, for the invariant.
LEMMA StepKinds == ASSUME OrderInv, [Next]_vars
                   PROVE  Elsewhere \/ \E p \in Appliers : ListRows(p) \/ WriteSmbConf(p) \/ WriteExports(p)
<1>1. CASE \E p \in Appliers : ApplyStep(p)
  BY <1>1, OthersElsewhere DEF ApplyStep, OrderInv
<1>2. CASE \E c \in Calls : VerbStep(c)
  BY <1>2, VerbElsewhere
<1>3. CASE \/ \E d \in Datasets : DatasetCreate(d) \/ SetMountpoint(d)
           \/ Crash \/ Start \/ Reapply \/ RestoreSwaps \/ SmbdRereads \/ UNCHANGED vars
  BY <1>3, OthersElsewhere DEF OrderInv
<1>. QED
  BY <1>1, <1>2, <1>3 DEF Next

\* Every step keeps the invariant.
LEMMA OrderStep == OrderInv /\ [Next]_vars => OrderInv'
BY StepKinds, ElsewhereKeeps, ListKeeps, WriteKeeps

\* The invariant holds throughout.
THEOREM OrderSafe == Spec => []OrderInv
BY OrderStep, OrderInit, PTL DEF Spec

\* What the mapping makes of the files.
ShownNow == [f \in {"smb", "nfs"} |-> files[f].made]

\* The share files implement Published: through every interleaving of verbs, applies, failed commands,
\* crashes and restores, each file only ever moves to a later state of the table (applying, shares.ts).
THEOREM FilesNeverOlder == Spec => NeverOlder
<1>1. Init => Shown!Init
  <2> SUFFICES ASSUME Init PROVE Shown!Init
    OBVIOUS
  <2>1. made = 0 /\ files = [smb |-> [made |-> 0, says |-> {}], nfs |-> [made |-> 0, says |-> {}]]
    BY DEF Init
  <2>2. files["smb"].made = 0 /\ files["nfs"].made = 0
    BY <2>1
  <2>. QED
    BY <2>1, <2>2 DEF Shown!Init
<1>2. OrderInv /\ [Next]_vars => [Shown!Next]_<<made, ShownNow>>
  <2> SUFFICES ASSUME OrderInv, [Next]_vars PROVE [Shown!Next]_<<made, ShownNow>>
    OBVIOUS
  <2>1. CASE Elsewhere
    <3>1. ShownNow' = ShownNow /\ (made' = made \/ made' = made + 1)
      BY <2>1, Zenon DEF Elsewhere, ShownNow
    <3>. QED
      BY <3>1 DEF Shown!Next, Shown!Change, ShownNow
  <2>2. CASE \E p \in Appliers : ListRows(p)
    BY <2>2 DEF ListRows, tables, config, ShownNow
  <2>3. CASE \E p \in Appliers : WriteSmbConf(p) \/ WriteExports(p)
    <3>1. PICK f \in {"smb", "nfs"} : /\ UNCHANGED made
                                      /\ files'[f].made \in files[f].made .. made
                                      /\ \A g \in {"smb", "nfs"} \ {f} : files'[g].made = files[g].made
      BY <2>3, WriteKeeps
    <3>2. ShownNow' = [ShownNow EXCEPT ![f] = files'[f].made] /\ files'[f].made \in ShownNow[f] .. made
      BY <3>1 DEF ShownNow
    <3>3. Shown!Write(f)
      BY <3>1, <3>2 DEF Shown!Write, ShownNow
    <3>. QED
      BY <3>3 DEF Shown!Next
  <2>. QED
    BY <2>1, <2>2, <2>3, StepKinds
<1>. QED
  BY <1>1, <1>2, OrderSafe, PTL DEF Spec, NeverOlder, Shown!Spec, ShownNow
----------------------------------------------------------------------------
(* What the files and the daemons say is safe.  The rows the apply holds    *)
(* are sound and their SMB names differ, whatever table they came from;     *)
(* everything a file or a daemon says was made of such rows.                *)

SmbSafe(smb) == \A s \in smb : /\ NameOf[s.dataset] \notin ReservedNames
                               /\ s.listed => s.who # {}
                               /\ \A o \in smb : NameOf[o.dataset] = NameOf[s.dataset] => o = s
NfsSafe(nfs) == \A s \in nfs : s.clients # {} /\ s.clients \cap BadClients = {}

GoodTable(t) == \A d \in DOMAIN t :
                  /\ Sound(t, d)
                  /\ t[d].smb => \A e \in DOMAIN t : t[e].smb /\ NameOf[e] = NameOf[d] => e = d

JobGood == /\ job = [pc |-> job.pc, made |-> job.made, rows |-> job.rows, ds |-> job.ds]
           /\ GoodTable(job.rows) /\ job.ds \subseteq DOMAIN job.rows

Pair(v) == v = [smb |-> [made |-> v.smb.made, says |-> v.smb.says], nfs |-> [made |-> v.nfs.made, says |-> v.nfs.says]]

PairSafe(v) == Pair(v) /\ SmbSafe(v.smb.says) /\ NfsSafe(v.nfs.says)

\* share.set keeps the dataset it looked at.
Known(r)  == "pc" \in DOMAIN r /\ (r.pc = "share.set" => r.ds \in Datasets)
CallsKnow == /\ call = [c \in Calls |-> call[c]]
             /\ \A c \in Calls : Known(call[c])

ConfInv == PairSafe(files) /\ PairSafe(served) /\ JobGood /\ DOMAIN rows \subseteq Datasets /\ CallsKnow

\* listShares leaves only sound rows, of those with one SMB name one.
LEMMA ListedIsGood == ASSUME NEW t, DOMAIN t \subseteq Datasets
                      PROVE  GoodTable([d \in Listed(t) |-> t[d]])
<1> DEFINE l == [d \in Listed(t) |-> t[d]]
<1>1. DOMAIN l = Listed(t) /\ (\A d \in Listed(t) : l[d] = t[d]) /\ Listed(t) \subseteq DOMAIN t
  BY DEF Listed
<1>2. ASSUME NEW d \in Listed(t) PROVE Sound(l, d)
  BY <1>1, <1>2 DEF Listed, Sound
<1>3. ASSUME NEW d \in Listed(t), NEW e \in Listed(t), t[d].smb, t[e].smb, NameOf[e] = NameOf[d] PROVE e = d
  <2>1. d \in Nat /\ e \in Nat
    BY <1>1, SharesAssumption
  <2>2. ~(e < d) /\ ~(d < e)
    BY <1>3 DEF Listed
  <2>. QED
    BY <2>1, <2>2
<1> HIDE DEF l
<1>4. GoodTable(l)
  BY <1>1, <1>2, <1>3 DEF GoodTable
<1>. QED
  BY <1>4 DEF l

\* smb.conf made of such rows is safe, and so are the exports.
LEMMA GoodIsSafe == ASSUME NEW t, GoodTable(t), NEW ds, ds \subseteq DOMAIN t
                    PROVE  SmbSafe(SmbConf(t, ds)) /\ NfsSafe(ExportsFile(t, ds))
<1>1. SmbSafe(SmbConf(t, ds))
  <2> SUFFICES ASSUME NEW s \in SmbConf(t, ds), NEW o \in SmbConf(t, ds)
               PROVE  /\ NameOf[s.dataset] \notin ReservedNames
                      /\ s.listed => s.who # {}
                      /\ NameOf[o.dataset] = NameOf[s.dataset] => o = s
    BY DEF SmbSafe
  <2>1. PICK d \in ds : t[d].smb /\ (t[d].listed => t[d].who # {})
                        /\ s = [dataset |-> d, listed |-> t[d].listed, who |-> t[d].who]
    BY DEF SmbConf
  <2>2. PICK e \in ds : t[e].smb /\ o = [dataset |-> e, listed |-> t[e].listed, who |-> t[e].who]
    BY DEF SmbConf
  <2>3. s.dataset = d /\ o.dataset = e /\ s.listed = t[d].listed /\ s.who = t[d].who
    BY <2>1, <2>2
  <2>4. NameOf[d] \notin ReservedNames /\ (NameOf[e] = NameOf[d] => e = d)
    BY <2>1, <2>2 DEF GoodTable, Sound
  <2>. QED
    BY <2>1, <2>2, <2>3, <2>4
<1>2. NfsSafe(ExportsFile(t, ds))
  <2> SUFFICES ASSUME NEW s \in ExportsFile(t, ds) PROVE s.clients # {} /\ s.clients \cap BadClients = {}
    BY DEF NfsSafe
  <2>1. PICK d \in ds : t[d].clients # {} /\ s = [dataset |-> d, clients |-> t[d].clients]
    BY DEF ExportsFile
  <2>. QED
    BY <2>1 DEF GoodTable, Sound
<1>. QED
  BY <1>1, <1>2

\* Replacing one half of a pair by something safe.
LEMMA PutSmb == ASSUME NEW v, PairSafe(v), NEW m, NEW says, SmbSafe(says)
                PROVE  PairSafe([v EXCEPT !.smb = [made |-> m, says |-> says]])
<1> DEFINE w == [v EXCEPT !.smb = [made |-> m, says |-> says]]
<1>1. w = [smb |-> [made |-> m, says |-> says], nfs |-> [made |-> v.nfs.made, says |-> v.nfs.says]]
  BY DEF PairSafe, Pair
<1>2. w.smb.says = says /\ w.nfs.says = v.nfs.says /\ Pair(w)
  BY <1>1 DEF Pair
<1>. QED
  BY <1>2 DEF PairSafe

\* The same for the other half.
LEMMA PutNfs == ASSUME NEW v, PairSafe(v), NEW m, NEW says, NfsSafe(says)
                PROVE  PairSafe([v EXCEPT !.nfs = [made |-> m, says |-> says]])
<1> DEFINE w == [v EXCEPT !.nfs = [made |-> m, says |-> says]]
<1>1. w = [smb |-> [made |-> v.smb.made, says |-> v.smb.says], nfs |-> [made |-> m, says |-> says]]
  BY DEF PairSafe, Pair
<1>2. w.smb.says = v.smb.says /\ w.nfs.says = says /\ Pair(w)
  BY <1>1 DEF Pair
<1>. QED
  BY <1>2 DEF PairSafe

\* What a daemon may be told, it may run: the file, or nothing.
LEMMA ServedFrom == ASSUME NEW v, NEW w, PairSafe(v), PairSafe(w)
                    PROVE  /\ PairSafe([w EXCEPT !.smb = v.smb]) /\ PairSafe([w EXCEPT !.nfs = v.nfs])
                           /\ PairSafe([w EXCEPT !.smb = Stopped(v.smb)]) /\ PairSafe([w EXCEPT !.nfs = Stopped(v.nfs)])
<1>1. v.smb = [made |-> v.smb.made, says |-> v.smb.says] /\ v.nfs = [made |-> v.nfs.made, says |-> v.nfs.says]
  BY DEF PairSafe, Pair
<1>2. SmbSafe({}) /\ NfsSafe({}) /\ SmbSafe(v.smb.says) /\ NfsSafe(v.nfs.says)
  BY DEF SmbSafe, NfsSafe, PairSafe
<1>3. PairSafe([w EXCEPT !.smb = [made |-> v.smb.made, says |-> v.smb.says]])
  BY <1>2, PutSmb
<1>4. PairSafe([w EXCEPT !.nfs = [made |-> v.nfs.made, says |-> v.nfs.says]])
  BY <1>2, PutNfs
<1>5. PairSafe([w EXCEPT !.smb = [made |-> v.smb.made, says |-> {}]])
  BY <1>2, PutSmb
<1>6. PairSafe([w EXCEPT !.nfs = [made |-> v.nfs.made, says |-> {}]])
  BY <1>2, PutNfs
<1>. QED
  BY <1>1, <1>3, <1>4, <1>5, <1>6 DEF Stopped

\* No apply: nothing it could write.
LEMMA NoJobIsGood == ASSUME job' = NoJob PROVE JobGood'
BY DEF JobGood, NoJob, NoTable, GoodTable

\* One call's record replaced.
LEMMA CallPut == ASSUME CallsKnow, NEW c, NEW r, call' = [call EXCEPT ![c] = r], Known(r)
                 PROVE  CallsKnow'
BY DEF CallsKnow

\* A call that ended, or moved on to something other than share.set.
LEMMA CallMoves == ASSUME CallsKnow, NEW c \in Calls, NEW pc, pc # "share.set", Ends(c) \/ Goto(c, pc)
                   PROVE  CallsKnow'
<1>1. CASE Ends(c)
  <2>1. Known(Idle)
    BY DEF Idle, Known
  <2>. QED
    BY <1>1, <2>1, CallPut DEF Ends
<1>2. CASE Goto(c, pc)
  <2>1. call' = [call EXCEPT ![c] = [call[c] EXCEPT !.pc = pc]]
    BY <1>2 DEF Goto
  <2>2. Known([call[c] EXCEPT !.pc = pc])
    BY DEF CallsKnow, Known
  <2>. QED
    BY <2>1, <2>2, CallPut
<1>. QED
  BY <1>1, <1>2

\* A table changed by a verb, which then waits to apply it.
LEMMA ChangeKnows == ASSUME CallsKnow, NEW c, NEW t, ChangeAndApply(c, t) PROVE CallsKnow' /\ rows' = t
<1> DEFINE r == [pc |-> "apply", made |-> made + 1]
<1>1. Known(r)
  BY DEF Known
<1>2. call' = [call EXCEPT ![c] = r] /\ rows' = t
  BY DEF ChangeAndApply
<1>. HIDE DEF r
<1>. QED
  BY <1>1, <1>2, CallPut

\* The steps of a verb keep the table within the datasets, and what share.set looked at.
LEMMA VerbKnows == ASSUME NEW c \in Calls, VerbStep(c), CallsKnow, DOMAIN rows \subseteq Datasets
                   PROVE  CallsKnow' /\ DOMAIN rows' \subseteq Datasets
<1>1. CASE \E d \in Datasets, w \in Wishes : ShareSetLook(c, d, w)
  <2>1. PICK d \in Datasets, w \in Wishes :
          rows' = rows /\ call' = [call EXCEPT ![c] = [pc |-> "share.set", ds |-> d, wish |-> w]]
    BY <1>1 DEF ShareSetLook, tables
  <2>2. Known([pc |-> "share.set", ds |-> d, wish |-> w])
    BY DEF Known
  <2>. QED
    BY <2>1, <2>2, CallPut
<1>2. CASE \E d \in Datasets : ShareRemove(c, d)
  <2>1. PICK d \in Datasets : ChangeAndApply(c, Without(rows, d))
    BY <1>2 DEF ShareRemove
  <2>. QED
    BY <2>1, ChangeKnows DEF Without
<1>3. CASE \E d \in Datasets : DatasetDestroyLook(c, d)
  <2>1. PICK d \in Datasets : rows' = rows /\ call' = [call EXCEPT ![c] = [pc |-> "zfs destroy", ds |-> d]]
    BY <1>3 DEF DatasetDestroyLook, tables
  <2>2. Known([pc |-> "zfs destroy", ds |-> d])
    BY DEF Known
  <2>. QED
    BY <2>1, <2>2, CallPut
<1>4. CASE \E d \in Datasets : PolicySetLook(c, d)
  <2>1. PICK d \in Datasets : rows' = rows /\ call' = [call EXCEPT ![c] = [pc |-> "policy.set", ds |-> d]]
    BY <1>4 DEF PolicySetLook, tables
  <2>2. Known([pc |-> "policy.set", ds |-> d])
    BY DEF Known
  <2>. QED
    BY <2>1, <2>2, CallPut
<1>5. CASE \E u \in Users : \E verb \in {"user.set", "user.smbPassword"} : UserSetLook(c, u, verb)
  <2>1. PICK u \in Users, verb \in {"user.set", "user.smbPassword"} :
          rows' = rows /\ call' = [call EXCEPT ![c] = [pc |-> verb, user |-> u, seen |-> accounts[u]]]
    BY <1>5 DEF UserSetLook, tables
  <2>2. Known([pc |-> verb, user |-> u, seen |-> accounts[u]])
    BY DEF Known
  <2>. QED
    BY <2>1, <2>2, CallPut
<1>6. CASE \E u \in Users : UserRemoveLook(c, u)
  <2>1. PICK u \in Users :
          rows' = rows /\ call' = [call EXCEPT ![c] = [pc |-> "smbpasswd -x", user |-> u, seen |-> accounts[u]]]
    BY <1>6 DEF UserRemoveLook, tables
  <2>2. Known([pc |-> "smbpasswd -x", user |-> u, seen |-> accounts[u]])
    BY DEF Known
  <2>. QED
    BY <2>1, <2>2, CallPut
<1>7. CASE ShareSetWrite(c)
  <2> DEFINE d == call[c].ds
             r == Merged(d, call[c].wish)
             t == IF r.smb \/ r.nfs THEN With(rows, d, r) ELSE Without(rows, d)
  <2>1. d \in Datasets
    BY <1>7 DEF ShareSetWrite, CallsKnow, Known
  <2>2. DOMAIN t \subseteq Datasets
    BY <2>1 DEF With, Without
  <2>3. \/ Ends(c) /\ rows' = rows
        \/ ChangeAndApply(c, t)
    BY <1>7 DEF ShareSetWrite, tables
  <2> HIDE DEF t, r, d
  <2>. QED
    BY <2>2, <2>3, CallMoves, ChangeKnows
<1>8. CASE UserAdd(c)
  <2>1. /\ rows' = rows
        /\ \/ Ends(c)
           \/ call' = [call EXCEPT ![c] = [pc |-> "row", user |-> call[c].user, then |-> call[c].pc]]
    BY <1>8 DEF UserAdd, tables
  <2>2. Known([pc |-> "row", user |-> call[c].user, then |-> call[c].pc])
    BY DEF Known
  <2>. QED
    BY <2>1, <2>2, CallPut, CallMoves
<1>9. CASE SmbPasswd(c)
  <2>1. /\ rows' = rows
        /\ \/ Ends(c)
           \/ call' = [call EXCEPT ![c] = [pc |-> "row", user |-> call[c].user, then |-> "answer"]]
    BY <1>9 DEF SmbPasswd, tables
  <2>2. Known([pc |-> "row", user |-> call[c].user, then |-> "answer"])
    BY DEF Known
  <2>. QED
    BY <2>1, <2>2, CallPut, CallMoves
<1>10. CASE UserRow(c) \/ DropPassword(c) \/ UserDel(c) \/ DatasetDestroyFails(c) \/ DropPolicy(c) \/ PolicySetWrite(c)
  <2>1. rows' = rows /\ \E pc \in {"smbpasswd", "userdel", "forget"} : Ends(c) \/ Goto(c, pc)
    BY <1>10 DEF UserRow, DropPassword, UserDel, DatasetDestroyFails, DropPolicy, PolicySetWrite, tables
  <2>. QED
    BY <2>1, CallMoves
<1>11. CASE UserForget(c)
  <2>1. \/ Ends(c) /\ rows' = rows
        \/ ChangeAndApply(c, Dropped(call[c].user))
    BY <1>11 DEF UserForget, tables
  <2>2. DOMAIN Dropped(call[c].user) = DOMAIN rows
    BY DEF Dropped
  <2>. QED
    BY <2>1, <2>2, CallMoves, ChangeKnows
<1>12. CASE DatasetDestroy(c)
  <2>1. rows' = rows /\ call' = [call EXCEPT ![c] = [pc |-> "policy row", ds |-> call[c].ds]]
    BY <1>12 DEF DatasetDestroy, tables
  <2>2. Known([pc |-> "policy row", ds |-> call[c].ds])
    BY DEF Known
  <2>. QED
    BY <2>1, <2>2, CallPut
<1>. QED
  BY <1>1, <1>2, <1>3, <1>4, <1>5, <1>6, <1>7, <1>8, <1>9, <1>10, <1>11, <1>12 DEF VerbStep

\* Every step of an apply writes what is safe, or tells a daemon what is.
LEMMA ApplySafe == ASSUME ConfInv, NEW p \in Appliers, ApplyStep(p) PROVE ConfInv'
<1>1. rows' = rows
  BY DEF ApplyStep, ListRows, ReadMounts, WriteSmbConf, WriteExports, TellSmbd, TellNfs, ApplyFails, tables
<1>2. CASE ListRows(p)
  <2>1. /\ UNCHANGED <<files, served, call>>
        /\ job' = [pc |-> "mounts", made |-> made, rows |-> [d \in Listed(rows) |-> rows[d]], ds |-> {}]
    BY <1>2 DEF ListRows, config
  <2>2. GoodTable([d \in Listed(rows) |-> rows[d]])
    BY ListedIsGood DEF ConfInv
  <2>3. JobGood'
    BY <2>1, <2>2 DEF JobGood
  <2>. QED
    BY <1>1, <2>1, <2>3 DEF ConfInv, CallsKnow
<1>3. CASE ReadMounts(p)
  <2>1. /\ UNCHANGED <<files, served, call>>
        /\ job' = [job EXCEPT !.pc = "smb.conf", !.ds = DOMAIN job.rows \cap Placed]
    BY <1>3 DEF ReadMounts, config
  <2>2. JobGood'
    BY <2>1 DEF ConfInv, JobGood
  <2>. QED
    BY <1>1, <2>1, <2>2 DEF ConfInv, CallsKnow
<1>4. CASE WriteSmbConf(p)
  <2>1. /\ UNCHANGED <<served, call>>
        /\ files' = [files EXCEPT !.smb = [made |-> job.made, says |-> SmbConf(job.rows, job.ds)]]
        /\ job' = [job EXCEPT !.pc = "exports"]
    BY <1>4 DEF WriteSmbConf
  <2>2. SmbSafe(SmbConf(job.rows, job.ds))
    BY GoodIsSafe DEF ConfInv, JobGood
  <2>3. PairSafe(files')
    BY <2>1, <2>2, PutSmb DEF ConfInv
  <2>4. JobGood'
    BY <2>1 DEF ConfInv, JobGood
  <2>. QED
    BY <1>1, <2>1, <2>3, <2>4 DEF ConfInv, CallsKnow
<1>5. CASE WriteExports(p)
  <2>1. /\ UNCHANGED <<served, call>>
        /\ files' = [files EXCEPT !.nfs = [made |-> job.made, says |-> ExportsFile(job.rows, job.ds)]]
        /\ job' = [job EXCEPT !.pc = "smbd"]
    BY <1>5 DEF WriteExports
  <2>2. NfsSafe(ExportsFile(job.rows, job.ds))
    BY GoodIsSafe DEF ConfInv, JobGood
  <2>3. PairSafe(files')
    BY <2>1, <2>2, PutNfs DEF ConfInv
  <2>4. JobGood'
    BY <2>1 DEF ConfInv, JobGood
  <2>. QED
    BY <1>1, <2>1, <2>3, <2>4 DEF ConfInv, CallsKnow
<1>6. CASE TellSmbd(p)
  <2>1. /\ UNCHANGED <<files, call>>
        /\ \/ served' = served \/ served' = [served EXCEPT !.smb = files.smb]
           \/ served' = [served EXCEPT !.smb = Stopped(files.smb)]
        /\ job' = [job EXCEPT !.pc = "nfsd"]
    BY <1>6 DEF TellSmbd
  <2>a. /\ PairSafe([served EXCEPT !.smb = files.smb]) /\ PairSafe([served EXCEPT !.nfs = files.nfs])
        /\ PairSafe([served EXCEPT !.smb = Stopped(files.smb)]) /\ PairSafe([served EXCEPT !.nfs = Stopped(files.nfs)])
    BY ServedFrom DEF ConfInv
  <2>2. PairSafe(served')
    BY <2>1, <2>a DEF ConfInv
  <2>3. JobGood'
    BY <2>1 DEF ConfInv, JobGood
  <2>. QED
    BY <1>1, <2>1, <2>2, <2>3 DEF ConfInv, CallsKnow
<1>7. CASE TellNfs(p) \/ ApplyFails(p)
  <2>1. /\ UNCHANGED files
        /\ \/ served' = served
           \/ served' = [served EXCEPT !.smb = files.smb] \/ served' = [served EXCEPT !.nfs = files.nfs]
           \/ served' = [served EXCEPT !.nfs = Stopped(files.nfs)]
        /\ job' = NoJob
        /\ UNCHANGED call \/ (p \in Calls /\ Ends(p))
    BY <1>7 DEF TellNfs, ApplyFails
  <2>a. /\ PairSafe([served EXCEPT !.smb = files.smb]) /\ PairSafe([served EXCEPT !.nfs = files.nfs])
        /\ PairSafe([served EXCEPT !.smb = Stopped(files.smb)]) /\ PairSafe([served EXCEPT !.nfs = Stopped(files.nfs)])
    BY ServedFrom DEF ConfInv
  <2>2. PairSafe(served')
    BY <2>1, <2>a DEF ConfInv
  <2>3. CallsKnow'
    <3>1. CASE UNCHANGED call
      BY <3>1 DEF ConfInv, CallsKnow
    <3>2. CASE p \in Calls /\ Ends(p)
      BY <3>2, CallMoves DEF ConfInv
    <3>. QED
      BY <2>1, <3>1, <3>2
  <2>. QED
    BY <1>1, <2>1, <2>2, <2>3, NoJobIsGood DEF ConfInv
<1>. QED
  BY <1>2, <1>3, <1>4, <1>5, <1>6, <1>7 DEF ApplyStep

\* What else happens to the agent and the box says nothing new, and knows no other datasets.
LEMMA OthersSafe ==
  ASSUME ConfInv,
         \/ \E d \in Datasets : DatasetCreate(d) \/ SetMountpoint(d)
         \/ Crash \/ Start \/ Reapply \/ RestoreSwaps \/ SmbdRereads \/ UNCHANGED vars
  PROVE  ConfInv'
<1>1. CASE (\E d \in Datasets : DatasetCreate(d) \/ SetMountpoint(d)) \/ Start \/ Reapply \/ UNCHANGED vars
  <2>1. UNCHANGED <<files, served, job, rows, call>>
    BY <1>1 DEF DatasetCreate, SetMountpoint, Start, Reapply, vars, tables, config
  <2>. QED
    BY <2>1 DEF ConfInv, JobGood, CallsKnow
<1>2. CASE Crash \/ RestoreSwaps
  <2>1. UNCHANGED <<files, served>> /\ job' = NoJob /\ call' = [c \in Calls |-> Idle]
    BY <1>2 DEF Crash, RestoreSwaps, Dies, config
  <2>2. DOMAIN rows' \subseteq Datasets
    BY <1>2, SharesAssumption DEF Crash, RestoreSwaps, tables, ConfInv
  <2>3. CallsKnow'
    BY <2>1 DEF CallsKnow, Known, Idle
  <2>. QED
    BY <2>1, <2>2, <2>3, NoJobIsGood DEF ConfInv
<1>3. CASE SmbdRereads
  <2>1. UNCHANGED <<files, job, rows, call>> /\ served' = [served EXCEPT !.smb = files.smb]
    BY <1>3 DEF SmbdRereads, tables
  <2>2. PairSafe([served EXCEPT !.smb = files.smb])
    BY ServedFrom DEF ConfInv
  <2>. QED
    BY <2>1, <2>2 DEF ConfInv, JobGood, CallsKnow
<1>. QED
  BY <1>1, <1>2, <1>3

\* Nothing that a file says or a daemon runs, at any time and whatever a restored database holds, is under a
\* name Samba keeps, twice under one name, open to everybody by an empty list, or exported to nobody or to
\* a client nfsClient refuses (listShares, smbConf, exportsFile of shares.ts).
THEOREM ConfSafe == Spec => []ConfIsSafe
<1>1. Init => ConfInv
  <2> SUFFICES ASSUME Init PROVE ConfInv
    OBVIOUS
  <2>1. /\ files = [smb |-> [made |-> 0, says |-> {}], nfs |-> [made |-> 0, says |-> {}]] /\ served = files
        /\ job = NoJob /\ rows = NoTable /\ call = [c \in Calls |-> Idle]
    BY DEF Init
  <2>2. PairSafe(files)
    BY <2>1 DEF PairSafe, Pair, SmbSafe, NfsSafe
  <2>3. JobGood
    BY <2>1 DEF JobGood, NoJob, NoTable, GoodTable
  <2>4. CallsKnow
    BY <2>1 DEF CallsKnow, Known, Idle
  <2>. QED
    BY <2>1, <2>2, <2>3, <2>4 DEF ConfInv, NoTable
<1>2. ConfInv /\ [Next]_vars => ConfInv'
  <2> SUFFICES ASSUME ConfInv, [Next]_vars PROVE ConfInv'
    OBVIOUS
  <2>1. CASE \E p \in Appliers : ApplyStep(p)
    BY <2>1, ApplySafe
  <2>2. CASE \E c \in Calls : VerbStep(c)
    <3>1. UNCHANGED <<files, served, job>>
      <4>1. PICK c \in Calls : VerbStep(c)
        BY <2>2
      <4>2. CASE \E d \in Datasets : \/ \E w \in Wishes : ShareSetLook(c, d, w)
                                     \/ ShareRemove(c, d) \/ DatasetDestroyLook(c, d) \/ PolicySetLook(c, d)
        BY <4>2 DEF ShareSetLook, ShareRemove, DatasetDestroyLook, PolicySetLook, config, world
      <4>3. CASE \E u \in Users : \/ \E verb \in {"user.set", "user.smbPassword"} : UserSetLook(c, u, verb)
                                  \/ UserRemoveLook(c, u)
        BY <4>3 DEF UserSetLook, UserRemoveLook, config, world
      <4>4. CASE ShareSetWrite(c) \/ UserAdd(c) \/ UserRow(c) \/ SmbPasswd(c)
        BY <4>4 DEF ShareSetWrite, UserAdd, UserRow, SmbPasswd, config, world
      <4>5. CASE DropPassword(c) \/ UserDel(c) \/ UserForget(c) \/ DatasetDestroy(c) \/ DatasetDestroyFails(c) \/ DropPolicy(c) \/ PolicySetWrite(c)
        BY <4>5 DEF DropPassword, UserDel, UserForget, DatasetDestroy, DatasetDestroyFails, DropPolicy, PolicySetWrite, config, world
      <4> QED
        BY <4>1, <4>2, <4>3, <4>4, <4>5 DEF VerbStep
    <3>2. CallsKnow' /\ DOMAIN rows' \subseteq Datasets
      BY <2>2, VerbKnows DEF ConfInv
    <3>. QED
      BY <3>1, <3>2 DEF ConfInv, JobGood
  <2>3. CASE \/ \E d \in Datasets : DatasetCreate(d) \/ SetMountpoint(d)
             \/ Crash \/ Start \/ Reapply \/ RestoreSwaps \/ SmbdRereads \/ UNCHANGED vars
    BY <2>3, OthersSafe
  <2>. QED
    BY <2>1, <2>2, <2>3 DEF Next
<1>3. ConfInv => ConfIsSafe
  BY DEF ConfInv, PairSafe, SmbSafe, NfsSafe, ConfIsSafe
<1>. QED
  BY <1>1, <1>2, <1>3, PTL DEF Spec
----------------------------------------------------------------------------
(* Accounts mk-nas did not make.  None is made or unmade by the agent, so    *)
(* what a call saw of an account when it looked still tells whether it is    *)
(* one of these.                                                             *)

\* A call that writes an account or a password is not about a foreign one; one that removes a user deletes
\* the account only if it saw that it is mk-nas's own.
Own(r, a) == /\ "pc" \in DOMAIN r
             /\ r.pc \in {"user.set", "user.smbPassword", "row", "smbpasswd"} =>
                  "user" \in DOMAIN r /\ r.user \in Users /\ a[r.user] # "foreign"
             /\ r.pc \in {"smbpasswd -x", "userdel"} =>
                  /\ "user" \in DOMAIN r /\ "seen" \in DOMAIN r /\ r.user \in Users
                  /\ r.seen = "ours" => a[r.user] # "foreign"

ForeignInv == /\ accounts = [u \in Users |-> accounts[u]]
              /\ call = [c \in Calls |-> call[c]]
              /\ \A c \in Calls : Own(call[c], accounts)

\* What a step does to these accounts: nothing, and no password for one.
Spared == \A u \in Users : accounts[u] = "foreign" => accounts'[u] = "foreign" /\ (u \in passdb' => u \in passdb)

\* One call goes on; no account becomes foreign.
LEMMA OwnPut == ASSUME ForeignInv, NEW c \in Calls, NEW r, call' = [call EXCEPT ![c] = r], Own(r, accounts),
                       accounts' = [u \in Users |-> accounts'[u]],
                       \A u \in Users : accounts'[u] = "foreign" => accounts[u] = "foreign"
                PROVE  ForeignInv'
<1>1. /\ call' = [e \in Calls |-> call'[e]] /\ call'[c] = r
      /\ \A e \in Calls \ {c} : call'[e] = call[e]
  BY DEF ForeignInv
<1>2. \A e \in Calls : Own(call'[e], accounts)
  BY <1>1 DEF ForeignInv
<1>3. \A e \in Calls : Own(call'[e], accounts')
  BY <1>2 DEF Own
<1>. QED
  BY <1>1, <1>3 DEF ForeignInv

\* The same when the accounts are left alone.
LEMMA OwnMoves == ASSUME ForeignInv, NEW c \in Calls, NEW r, call' = [call EXCEPT ![c] = r], Own(r, accounts),
                         UNCHANGED <<accounts, passdb>>
                  PROVE  ForeignInv' /\ Spared
<1>1. ForeignInv'
  BY OwnPut DEF ForeignInv
<1>. QED
  BY <1>1 DEF Spared

\* A call that is over, or waits to apply, is about no account.
LEMMA OwnNothing == Own(Idle, accounts) /\ \A m : Own([pc |-> "apply", made |-> m], accounts)
BY DEF Own, Idle

\* Every step of a verb spares foreign accounts.
LEMMA VerbSpares == ASSUME ForeignInv, NEW c \in Calls, VerbStep(c) PROVE ForeignInv' /\ Spared
<1>1. CASE \E d \in Datasets : (\E w \in Wishes : ShareSetLook(c, d, w)) \/ DatasetDestroyLook(c, d) \/ PolicySetLook(c, d)
  <2>1. PICK d, w :
          /\ UNCHANGED <<accounts, passdb>>
          /\ \/ call' = [call EXCEPT ![c] = [pc |-> "share.set", ds |-> d, wish |-> w]]
             \/ call' = [call EXCEPT ![c] = [pc |-> "zfs destroy", ds |-> d]]
             \/ call' = [call EXCEPT ![c] = [pc |-> "policy.set", ds |-> d]]
    BY <1>1 DEF ShareSetLook, DatasetDestroyLook, PolicySetLook, people
  <2>2. /\ Own([pc |-> "share.set", ds |-> d, wish |-> w], accounts) /\ Own([pc |-> "zfs destroy", ds |-> d], accounts)
        /\ Own([pc |-> "policy.set", ds |-> d], accounts)
    BY DEF Own
  <2>. QED
    BY <2>1, <2>2, OwnMoves
<1>2. CASE (\E d \in Datasets : ShareRemove(c, d)) \/ ShareSetWrite(c) \/ UserForget(c) \/ DatasetDestroy(c) \/ DatasetDestroyFails(c) \/ DropPolicy(c) \/ PolicySetWrite(c)
  <2>1. /\ UNCHANGED <<accounts, passdb>>
        /\ \/ call' = [call EXCEPT ![c] = Idle]
           \/ \E m : call' = [call EXCEPT ![c] = [pc |-> "apply", made |-> m]]
           \/ \E d : call' = [call EXCEPT ![c] = [pc |-> "policy row", ds |-> d]]
    BY <1>2 DEF ShareRemove, ShareSetWrite, UserForget, DatasetDestroy, DatasetDestroyFails, DropPolicy, PolicySetWrite,
           people, ChangeAndApply, Ends
  <2>2. \A d : Own([pc |-> "policy row", ds |-> d], accounts)
    BY DEF Own
  <2>. QED
    BY <2>1, <2>2, OwnNothing, OwnMoves
<1>3. CASE \E u \in Users : \E verb \in {"user.set", "user.smbPassword"} : UserSetLook(c, u, verb)
  <2>1. PICK u \in Users, verb \in {"user.set", "user.smbPassword"} :
          /\ accounts[u] # "foreign" /\ UNCHANGED <<accounts, passdb>>
          /\ call' = [call EXCEPT ![c] = [pc |-> verb, user |-> u, seen |-> accounts[u]]]
    BY <1>3 DEF UserSetLook, people
  <2>2. Own([pc |-> verb, user |-> u, seen |-> accounts[u]], accounts)
    BY <2>1 DEF Own
  <2>. QED
    BY <2>1, <2>2, OwnMoves
<1>4. CASE \E u \in Users : UserRemoveLook(c, u)
  <2>1. PICK u \in Users :
          /\ UNCHANGED <<accounts, passdb>>
          /\ call' = [call EXCEPT ![c] = [pc |-> "smbpasswd -x", user |-> u, seen |-> accounts[u]]]
    BY <1>4 DEF UserRemoveLook, people
  <2>2. Own([pc |-> "smbpasswd -x", user |-> u, seen |-> accounts[u]], accounts)
    BY DEF Own
  <2>. QED
    BY <2>1, <2>2, OwnMoves
<1>5. CASE UserAdd(c)
  <2> DEFINE u == call[c].user
  <2>1. /\ call[c].pc \in {"user.set", "user.smbPassword"} /\ UNCHANGED passdb
        /\ accounts' = accounts \/ accounts' = [accounts EXCEPT ![u] = "ours"]
        /\ \/ call' = [call EXCEPT ![c] = Idle]
           \/ call' = [call EXCEPT ![c] = [pc |-> "row", user |-> u, then |-> call[c].pc]]
    BY <1>5 DEF UserAdd, Ends
  <2>2. u \in Users /\ accounts[u] # "foreign"
    BY <2>1 DEF ForeignInv, Own
  <2>3. Own([pc |-> "row", user |-> u, then |-> call[c].pc], accounts)
    BY <2>2 DEF Own
  <2>4. /\ accounts' = [v \in Users |-> accounts'[v]]
        /\ \A v \in Users : (accounts'[v] = "foreign") <=> (accounts[v] = "foreign")
    BY <2>1, <2>2 DEF ForeignInv
  <2>5. ForeignInv'
    BY <2>1, <2>3, <2>4, OwnNothing, OwnPut
  <2>. QED
    BY <2>1, <2>4, <2>5 DEF Spared
<1>6. CASE UserRow(c) \/ DropPassword(c)
  <2>1. /\ UNCHANGED accounts /\ passdb' \subseteq passdb
        /\ \/ call' = [call EXCEPT ![c] = Idle]
           \/ call[c].pc = "row" /\ call' = [call EXCEPT ![c] = [call[c] EXCEPT !.pc = "smbpasswd"]]
           \/ call[c].pc = "smbpasswd -x" /\ call' = [call EXCEPT ![c] = [call[c] EXCEPT !.pc = "userdel"]]
    BY <1>6 DEF UserRow, DropPassword, Ends, Goto
  <2>2. call[c].pc = "row" => Own([call[c] EXCEPT !.pc = "smbpasswd"], accounts)
    <3> SUFFICES ASSUME call[c].pc = "row" PROVE Own([call[c] EXCEPT !.pc = "smbpasswd"], accounts)
      OBVIOUS
    <3>1. PICK q : q = call[c] /\ Own(q, accounts) /\ q.pc = "row"
      BY DEF ForeignInv
    <3>2. Own([q EXCEPT !.pc = "smbpasswd"], accounts)
      BY <3>1 DEF Own
    <3>. QED
      BY <3>1, <3>2
  <2>3. call[c].pc = "smbpasswd -x" => Own([call[c] EXCEPT !.pc = "userdel"], accounts)
    <3> SUFFICES ASSUME call[c].pc = "smbpasswd -x" PROVE Own([call[c] EXCEPT !.pc = "userdel"], accounts)
      OBVIOUS
    <3>1. PICK q : q = call[c] /\ Own(q, accounts) /\ q.pc = "smbpasswd -x"
      BY DEF ForeignInv
    <3>2. Own([q EXCEPT !.pc = "userdel"], accounts)
      BY <3>1 DEF Own
    <3>. QED
      BY <3>1, <3>2
  <2>4. ForeignInv'
    BY <2>1, <2>2, <2>3, OwnNothing, OwnPut DEF ForeignInv
  <2>. QED
    BY <2>1, <2>4 DEF Spared
<1>7. CASE SmbPasswd(c)
  <2> DEFINE u == call[c].user
  <2>1. /\ call[c].pc = "smbpasswd" /\ UNCHANGED accounts /\ (passdb' = passdb \/ passdb' = passdb \cup {u})
        /\ \/ call' = [call EXCEPT ![c] = Idle]
           \/ call' = [call EXCEPT ![c] = [pc |-> "row", user |-> u, then |-> "answer"]]
    BY <1>7 DEF SmbPasswd, Ends
  <2>2. u \in Users /\ accounts[u] # "foreign"
    BY <2>1 DEF ForeignInv, Own
  <2>3. Own([pc |-> "row", user |-> u, then |-> "answer"], accounts)
    BY <2>2 DEF Own
  <2>4. ForeignInv'
    BY <2>1, <2>3, OwnNothing, OwnPut DEF ForeignInv
  <2>. QED
    BY <2>1, <2>2, <2>4 DEF Spared
<1>8. CASE UserDel(c)
  <2> DEFINE u == call[c].user
  <2>1. /\ call[c].pc = "userdel" /\ UNCHANGED passdb
        /\ accounts' = IF call[c].seen = "ours" THEN [accounts EXCEPT ![u] = "none"] ELSE accounts
        /\ \/ call' = [call EXCEPT ![c] = Idle]
           \/ call' = [call EXCEPT ![c] = [call[c] EXCEPT !.pc = "forget"]]
    BY <1>8 DEF UserDel, Ends, Goto
  <2>2. u \in Users /\ (call[c].seen = "ours" => accounts[u] # "foreign")
    BY <2>1 DEF ForeignInv, Own
  <2>3. Own([call[c] EXCEPT !.pc = "forget"], accounts)
    BY DEF ForeignInv, Own
  <2>4. /\ accounts' = [v \in Users |-> accounts'[v]]
        /\ \A v \in Users : (accounts'[v] = "foreign") <=> (accounts[v] = "foreign")
    BY <2>1, <2>2 DEF ForeignInv
  <2>5. ForeignInv'
    BY <2>1, <2>3, <2>4, OwnNothing, OwnPut
  <2>. QED
    BY <2>1, <2>4, <2>5 DEF Spared
<1>. QED
  BY <1>1, <1>2, <1>3, <1>4, <1>5, <1>6, <1>7, <1>8 DEF VerbStep

\* Nothing else touches accounts or passwords.
LEMMA OthersSpare ==
  ASSUME ForeignInv,
         \/ \E p \in Appliers : ApplyStep(p)
         \/ \E d \in Datasets : DatasetCreate(d) \/ SetMountpoint(d)
         \/ Crash \/ Start \/ Reapply \/ RestoreSwaps \/ SmbdRereads \/ UNCHANGED vars
  PROVE  ForeignInv' /\ Spared
<1>1. UNCHANGED <<accounts, passdb>>
  BY DEF ApplyStep, ListRows, ReadMounts, WriteSmbConf, WriteExports, TellSmbd, TellNfs, ApplyFails, DatasetCreate,
         SetMountpoint, Crash, Start, Reapply, RestoreSwaps, SmbdRereads, vars, people
<1>2. \/ UNCHANGED call \/ call' = [c \in Calls |-> Idle]
      \/ \E c \in Calls : call' = [call EXCEPT ![c] = Idle]
  BY DEF ApplyStep, ListRows, ReadMounts, WriteSmbConf, WriteExports, TellSmbd, TellNfs, ApplyFails, DatasetCreate,
         SetMountpoint, Crash, Start, Reapply, RestoreSwaps, SmbdRereads, vars, Dies, Ends
<1>3. CASE UNCHANGED call \/ call' = [c \in Calls |-> Idle]
  BY <1>1, <1>3, OwnNothing DEF ForeignInv, Spared
<1>4. CASE \E c \in Calls : call' = [call EXCEPT ![c] = Idle]
  BY <1>1, <1>4, OwnNothing, OwnMoves
<1>. QED
  BY <1>2, <1>3, <1>4

\* For any users, calls and interleavings, crashes and restores: an account mk-nas did not make is neither deleted
\* nor given a Samba password (ours, setUser, removeUser of shares.ts).
THEOREM ForeignAccountsStay == Spec => ForeignIsSafe
<1>1. Init => ForeignInv
  <2> SUFFICES ASSUME Init PROVE ForeignInv
    OBVIOUS
  <2>1. accounts = [u \in Users |-> IF u \in Foreign THEN "foreign" ELSE "none"] /\ call = [c \in Calls |-> Idle]
    BY DEF Init
  <2>2. accounts = [u \in Users |-> accounts[u]]
    BY <2>1
  <2>. QED
    BY <2>1, <2>2, OwnNothing DEF ForeignInv
<1>2. ForeignInv /\ [Next]_vars => ForeignInv' /\ Spared
  BY VerbSpares, OthersSpare DEF Next
<1>3. ForeignInv /\ [Next]_vars => [Spared]_vars
  BY <1>2
<1>. QED
  BY <1>1, <1>2, <1>3, PTL DEF Spec, ForeignIsSafe, Spared
----------------------------------------------------------------------------
(* An answered change is served.  Who stands in line stands there once, with *)
(* the change it made; the apply at the head lists the table after that      *)
(* change, and what it wrote and told the daemons stays until it is over.    *)

\* A call in line waits with a change the table has.
Waits(r, m) == r.pc = "apply" /\ r.made \in Nat /\ r.made <= m

LineInv == /\ queue \in Seq(Appliers)
           /\ \A i \in 1 .. Len(queue) : queue[i] \in Calls => Waits(call[queue[i]], made)
           /\ \A i, j \in 1 .. Len(queue) : queue[i] \in Calls /\ queue[i] = queue[j] => i = j

\* The apply under way is of the head of the line, and its list has the head's change.
HeadInv == job.pc # "none" => queue # <<>> /\ (Head(queue) \in Calls => call[Head(queue)].made <= job.made)

\* What it has done so far stands.
WorkInv == /\ job.pc \in {"exports", "smbd", "nfsd"} =>
                files.smb.made = job.made /\ files.smb.says = SmbConf(job.rows, job.ds)
           /\ job.pc \in {"smbd", "nfsd"} =>
                files.nfs.made = job.made /\ files.nfs.says = ExportsFile(job.rows, job.ds)
           /\ job.pc = "nfsd" /\ files.smb.says # {} => served.smb.made = job.made

AckInv == OrderInv /\ Pair(served) /\ call = [c \in Calls |-> call[c]] /\ LineInv /\ HeadInv /\ WorkInv

\* Who is not waiting to apply is not in line, so it may go on; the table may have changed meanwhile.
LEMMA LineKeeps == ASSUME LineInv, HeadInv, call = [c \in Calls |-> call[c]], made \in Nat,
                          NEW c \in Calls, call[c].pc # "apply", NEW r, call' = [call EXCEPT ![c] = r],
                          made' = made, UNCHANGED <<queue, job>>
                   PROVE  LineInv' /\ HeadInv' /\ call' = [e \in Calls |-> call'[e]]
<1>1. call' = [e \in Calls |-> call'[e]] /\ \A e \in Calls \ {c} : call'[e] = call[e]
  OBVIOUS
<1>2. \A i \in 1 .. Len(queue) : queue[i] # c
  BY DEF LineInv, Waits
<1>3. LineInv'
  BY <1>1, <1>2 DEF LineInv
<1>4. HeadInv'
  <2>1. CASE job.pc = "none"
    BY <2>1 DEF HeadInv
  <2>2. CASE job.pc # "none"
    <3>1. queue # <<>> /\ 1 \in 1 .. Len(queue) /\ Head(queue) = queue[1]
      BY <2>2, EmptySeq DEF HeadInv, LineInv
    <3>. QED
      BY <1>1, <1>2, <2>2, <3>1 DEF HeadInv
  <2>. QED
    BY <2>1, <2>2
<1>. QED
  BY <1>1, <1>3, <1>4

\* Who changed the table stands in line behind everyone else.
LEMMA LineGrows == ASSUME LineInv, HeadInv, call = [c \in Calls |-> call[c]], made \in Nat,
                          NEW c \in Calls, call[c].pc # "apply", call' = [call EXCEPT ![c] = [pc |-> "apply", made |-> made + 1]],
                          made' = made + 1, queue' = Append(queue, c), UNCHANGED job
                   PROVE  LineInv' /\ HeadInv' /\ call' = [e \in Calls |-> call'[e]]
<1> DEFINE n == Len(queue)
<1>1. /\ call' = [e \in Calls |-> call'[e]] /\ call'[c] = [pc |-> "apply", made |-> made + 1]
      /\ \A e \in Calls \ {c} : call'[e] = call[e]
  OBVIOUS
<1>2. \A i \in 1 .. n : queue[i] # c
  BY DEF LineInv, Waits
<1>3. /\ n \in Nat /\ queue' \in Seq(Appliers) /\ queue' # <<>> /\ Len(queue') = n + 1
      /\ (\A i \in 1 .. n : queue'[i] = queue[i]) /\ queue'[n + 1] = c
  BY AppendProperties, LenProperties DEF LineInv, Appliers
<1> HIDE DEF n
<1>4. Waits(call'[c], made')
  BY <1>1 DEF Waits
<1>5. ASSUME NEW i \in 1 .. Len(queue'), queue'[i] \in Calls PROVE Waits(call'[queue'[i]], made')
  <2>1. CASE i = n + 1
    BY <1>3, <1>4, <2>1
  <2>2. CASE i \in 1 .. n
    <3>1. queue'[i] = queue[i] /\ queue[i] \in Calls \ {c} /\ Waits(call[queue[i]], made)
      BY <1>2, <1>3, <1>5, <2>2 DEF LineInv, n
    <3>. QED
      BY <1>1, <3>1 DEF Waits
  <2>. QED
    BY <1>3, <2>1, <2>2
<1>6. \A i, j \in 1 .. Len(queue') : queue'[i] \in Calls /\ queue'[i] = queue'[j] => i = j
  <2> SUFFICES ASSUME NEW i \in 1 .. n + 1, NEW j \in 1 .. n + 1, queue'[i] \in Calls, queue'[i] = queue'[j]
               PROVE  i = j
    BY <1>3
  <2>1. CASE i \in 1 .. n /\ j \in 1 .. n
    BY <1>3, <2>1 DEF LineInv, n
  <2>2. CASE i = n + 1 \/ j = n + 1
    BY <1>2, <1>3, <2>2
  <2>. QED
    BY <1>3, <2>1, <2>2
<1>7. HeadInv'
  <2>1. CASE job.pc = "none"
    BY <2>1 DEF HeadInv
  <2>2. CASE job.pc # "none"
    <3>1. queue # <<>> /\ 1 \in 1 .. n /\ Head(queue) = queue[1]
      BY <2>2, EmptySeq DEF HeadInv, LineInv, n
    <3>2. Head(queue') = Head(queue) /\ Head(queue) # c
      BY <1>2, <1>3, <3>1
    <3>. QED
      BY <1>1, <1>3, <2>2, <3>1, <3>2 DEF HeadInv
  <2>. QED
    BY <2>1, <2>2
<1>. QED
  BY <1>1, <1>3, <1>5, <1>6, <1>7 DEF LineInv

\* The head is answered and leaves the line.
LEMMA LineShrinks == ASSUME LineInv, call = [c \in Calls |-> call[c]], queue # <<>>, queue' = Tail(queue),
                            made' = made, job' = NoJob,
                            IF Head(queue) \in Calls THEN call' = [call EXCEPT ![Head(queue)] = Idle] ELSE UNCHANGED call
                     PROVE  LineInv' /\ HeadInv' /\ call' = [e \in Calls |-> call'[e]]
<1>1. /\ Len(queue) \in Nat \ {0} /\ Head(queue) = queue[1]
      /\ queue' \in Seq(Appliers) /\ Len(queue') = Len(queue) - 1 /\ \A i \in 1 .. Len(queue') : queue'[i] = queue[i + 1]
  BY HeadTailProperties, EmptySeq DEF LineInv
<1>2. /\ call' = [e \in Calls |-> call'[e]]
      /\ \A e \in Calls \ {Head(queue)} : call'[e] = call[e]
  OBVIOUS
<1>3. ASSUME NEW i \in 1 .. Len(queue'), queue'[i] \in Calls PROVE Waits(call'[queue'[i]], made')
  <2>1. i + 1 \in 1 .. Len(queue) /\ i + 1 # 1 /\ 1 \in 1 .. Len(queue) /\ queue'[i] = queue[i + 1]
    BY <1>1
  <2>2. queue[i + 1] # Head(queue)
    BY <1>1, <1>3, <2>1 DEF LineInv
  <2>. QED
    BY <1>2, <1>3, <2>1, <2>2 DEF LineInv
<1>4. ASSUME NEW i \in 1 .. Len(queue'), NEW j \in 1 .. Len(queue'), queue'[i] \in Calls, queue'[i] = queue'[j]
      PROVE  i = j
  <2>1. i + 1 \in 1 .. Len(queue) /\ j + 1 \in 1 .. Len(queue) /\ queue'[i] = queue[i + 1] /\ queue'[j] = queue[j + 1]
    BY <1>1
  <2>2. i + 1 = j + 1
    BY <1>4, <2>1 DEF LineInv
  <2>. QED
    BY <2>2
<1>5. HeadInv'
  BY DEF HeadInv, NoJob
<1>. QED
  BY <1>1, <1>2, <1>3, <1>4, <1>5 DEF LineInv

\* What a verb's step does to the line: nothing, unless it changed the table.
LEMMA VerbTurn ==
  ASSUME NEW c \in Calls, VerbStep(c)
  PROVE  /\ UNCHANGED <<job, files, served>> /\ call[c].pc # "apply"
         /\ \/ \E r : call' = [call EXCEPT ![c] = r] /\ UNCHANGED <<made, queue>>
            \/ /\ call' = [call EXCEPT ![c] = [pc |-> "apply", made |-> made + 1]]
               /\ made' = made + 1 /\ queue' = Append(queue, c)
<1>1. UNCHANGED <<job, files, served>>
  BY DEF VerbStep, ShareSetLook, ShareRemove, DatasetDestroyLook, PolicySetLook, UserSetLook, UserRemoveLook,
         ShareSetWrite, UserAdd, UserRow, SmbPasswd, DropPassword, UserDel, UserForget, DatasetDestroy, DatasetDestroyFails, DropPolicy,
         PolicySetWrite, config, world
<1>2. call[c].pc # "apply"
  <2>1. Idle.pc = "idle"
    BY DEF Idle
  <2>2. CASE call[c] = Idle
    BY <2>1, <2>2
  <2>3. CASE ~Free(c)
    BY <2>3 DEF VerbStep, ShareSetLook, ShareRemove, DatasetDestroyLook, PolicySetLook, UserSetLook, UserRemoveLook,
           ShareSetWrite, UserAdd, UserRow, SmbPasswd, DropPassword, UserDel, UserForget, DatasetDestroy, DatasetDestroyFails, DropPolicy,
           PolicySetWrite
  <2>. QED
    BY <2>2, <2>3 DEF Free
<1>3. CASE (\E d \in Datasets : ShareRemove(c, d)) \/ ShareSetWrite(c) \/ UserForget(c)
  BY <1>1, <1>2, <1>3 DEF ShareRemove, ShareSetWrite, UserForget, ChangeAndApply, Ends, tables
<1>4. CASE ~((\E d \in Datasets : ShareRemove(c, d)) \/ ShareSetWrite(c) \/ UserForget(c))
  <2>1. UNCHANGED <<made, queue>>
    BY <1>4 DEF VerbStep, ShareSetLook, DatasetDestroyLook, PolicySetLook, UserSetLook, UserRemoveLook,
         UserAdd, UserRow, SmbPasswd, DropPassword, UserDel, DatasetDestroy, DatasetDestroyFails, DropPolicy, PolicySetWrite, tables
  <2>2. \E r : call' = [call EXCEPT ![c] = r]
    BY <1>4 DEF VerbStep, ShareSetLook, DatasetDestroyLook, PolicySetLook, UserSetLook, UserRemoveLook,
         UserAdd, UserRow, SmbPasswd, DropPassword, UserDel, DatasetDestroy, DatasetDestroyFails, DropPolicy, PolicySetWrite, Ends, Goto
  <2>. QED
    BY <1>1, <1>2, <2>1, <2>2
<1>. QED
  BY <1>3, <1>4

\* The rest of AckInv, once the order is known to be kept.
LineAndWork == Pair(served) /\ call = [c \in Calls |-> call[c]] /\ LineInv /\ HeadInv /\ WorkInv

\* smbd is told what its file says, or nothing; the NFS server is not concerned.
LEMMA ToldSmb == ASSUME NEW v, NEW w, Pair(v), Pair(w), NEW x \in {v.smb, Stopped(v.smb)}, NEW s, s = [w EXCEPT !.smb = x]
                 PROVE  Pair(s) /\ s.smb = x /\ s.nfs = w.nfs /\ s.smb.made = v.smb.made
<1>1. /\ w = [smb |-> w.smb, nfs |-> w.nfs] /\ w.nfs = [made |-> w.nfs.made, says |-> w.nfs.says]
      /\ v.smb = [made |-> v.smb.made, says |-> v.smb.says]
  BY DEF Pair
<1>2. x.made = v.smb.made /\ x = [made |-> x.made, says |-> x.says]
  BY <1>1 DEF Stopped
<1>3. s = [smb |-> x, nfs |-> w.nfs]
  BY <1>1
<1>4. s.smb = x /\ s.nfs = w.nfs
  BY <1>3
<1>. QED
  BY <1>1, <1>2, <1>3, <1>4 DEF Pair

\* The same the other way round.
LEMMA ToldNfs == ASSUME NEW v, NEW w, Pair(v), Pair(w), NEW x \in {v.nfs, Stopped(v.nfs)}, NEW s, s = [w EXCEPT !.nfs = x]
                 PROVE  Pair(s) /\ s.nfs = x /\ s.smb = w.smb /\ s.nfs.made = v.nfs.made
<1>1. /\ w = [smb |-> w.smb, nfs |-> w.nfs] /\ w.smb = [made |-> w.smb.made, says |-> w.smb.says]
      /\ v.nfs = [made |-> v.nfs.made, says |-> v.nfs.says]
  BY DEF Pair
<1>2. x.made = v.nfs.made /\ x = [made |-> x.made, says |-> x.says]
  BY <1>1 DEF Stopped
<1>3. s = [smb |-> w.smb, nfs |-> x]
  BY <1>1
<1>4. s.nfs = x /\ s.smb = w.smb
  BY <1>3
<1>. QED
  BY <1>1, <1>2, <1>3, <1>4 DEF Pair

\* The steps of an apply up to its last: the line stands still.
LEMMA ApplyTurn ==
  ASSUME AckInv, NEW p \in Appliers, ListRows(p) \/ ReadMounts(p) \/ WriteSmbConf(p) \/ WriteExports(p) \/ TellSmbd(p)
  PROVE  LineAndWork'
<1>1. /\ UNCHANGED <<call, queue, made>> /\ queue # <<>>
  BY DEF ListRows, ReadMounts, WriteSmbConf, WriteExports, TellSmbd, At, tables
<1>2. LineInv' /\ call' = [c \in Calls |-> call'[c]]
  BY <1>1 DEF AckInv, LineInv
<1>3. Head(queue) \in Calls => call[Head(queue)].made <= made /\ call[Head(queue)].made \in Nat
  <2>1. 1 \in 1 .. Len(queue) /\ Head(queue) = queue[1]
    BY <1>1, EmptySeq DEF AckInv, LineInv
  <2>. QED
    BY <2>1 DEF AckInv, LineInv, Waits
<1>4. JobShape /\ FileShape /\ Pair(files) /\ Pair(served)
  BY DEF AckInv, OrderInv, FileShape, Pair
<1>5. CASE ListRows(p)
  <2>1. /\ UNCHANGED <<files, served>>
        /\ job' = [pc |-> "mounts", made |-> made, rows |-> [d \in Listed(rows) |-> rows[d]], ds |-> {}]
    BY <1>5 DEF ListRows, config
  <2>2. job'.pc = "mounts" /\ job'.made = made
    BY <2>1
  <2>. QED
    BY <1>1, <1>2, <1>3, <1>4, <2>1, <2>2 DEF LineAndWork, HeadInv, WorkInv, Pair
<1>6. CASE ReadMounts(p)
  <2>1. UNCHANGED <<files, served>> /\ job.pc = "mounts" /\ \E ds : job' = [job EXCEPT !.pc = "smb.conf", !.ds = ds]
    BY <1>6 DEF ReadMounts, At, config
  <2>2. job'.pc = "smb.conf" /\ job'.made = job.made
    BY <1>4, <2>1 DEF JobShape
  <2>. QED
    BY <1>1, <1>2, <1>4, <2>1, <2>2 DEF AckInv, LineAndWork, HeadInv, WorkInv, Pair
<1>7. CASE WriteSmbConf(p)
  <2>1. /\ UNCHANGED served /\ job.pc = "smb.conf" /\ job' = [job EXCEPT !.pc = "exports"]
        /\ files' = [files EXCEPT !.smb = [made |-> job.made, says |-> SmbConf(job.rows, job.ds)]]
    BY <1>7 DEF WriteSmbConf, At
  <2>2. job'.pc = "exports" /\ job'.made = job.made /\ job'.rows = job.rows /\ job'.ds = job.ds
    BY <1>4, <2>1 DEF JobShape
  <2>3. PICK says : says = SmbConf(job.rows, job.ds)
    OBVIOUS
  <2>4. files'.smb = [made |-> job.made, says |-> says]
    BY <1>4, <2>1, <2>3 DEF FileShape
  <2>5. WorkInv'
    BY <2>2, <2>3, <2>4 DEF WorkInv, SmbConf
  <2>. QED
    BY <1>1, <1>2, <1>4, <2>1, <2>2, <2>5 DEF AckInv, LineAndWork, HeadInv, Pair
<1>8. CASE WriteExports(p)
  <2>1. /\ UNCHANGED served /\ job.pc = "exports" /\ job' = [job EXCEPT !.pc = "smbd"]
        /\ files' = [files EXCEPT !.nfs = [made |-> job.made, says |-> ExportsFile(job.rows, job.ds)]]
    BY <1>8 DEF WriteExports, At
  <2>2. job'.pc = "smbd" /\ job'.made = job.made /\ job'.rows = job.rows /\ job'.ds = job.ds
    BY <1>4, <2>1 DEF JobShape
  <2>3. PICK says : says = ExportsFile(job.rows, job.ds)
    OBVIOUS
  <2>4. files'.nfs = [made |-> job.made, says |-> says] /\ files'.smb = files.smb
    BY <1>4, <2>1, <2>3 DEF FileShape
  <2>5. WorkInv'
    BY <2>1, <2>2, <2>3, <2>4 DEF AckInv, WorkInv, SmbConf, ExportsFile
  <2>. QED
    BY <1>1, <1>2, <1>4, <2>1, <2>2, <2>5 DEF AckInv, LineAndWork, HeadInv, Pair
<1>9. CASE TellSmbd(p)
  <2>1. /\ UNCHANGED files /\ job.pc = "smbd" /\ job' = [job EXCEPT !.pc = "nfsd"]
        /\ AnySmb(job.rows, job.ds) => served' = [served EXCEPT !.smb = files.smb]
        /\ served' = served \/ \E x \in {files.smb, Stopped(files.smb)} : served' = [served EXCEPT !.smb = x]
    BY <1>9 DEF TellSmbd, At
  <2>2. job'.pc = "nfsd" /\ job'.made = job.made /\ job'.rows = job.rows /\ job'.ds = job.ds
    BY <1>4, <2>1 DEF JobShape
  <2>3. Pair(served') /\ (AnySmb(job.rows, job.ds) => served'.smb.made = files.smb.made)
    BY <1>4, <2>1, ToldSmb
  <2>4. files.smb.says # {} => AnySmb(job.rows, job.ds)
    BY <2>1 DEF AckInv, WorkInv, SmbConf, AnySmb
  <2>5. WorkInv'
    <3>1. /\ files.smb.made = job.made /\ files.smb.says = SmbConf(job.rows, job.ds)
          /\ files.nfs.made = job.made /\ files.nfs.says = ExportsFile(job.rows, job.ds)
      BY <2>1 DEF AckInv, WorkInv
    <3>. QED
      BY <2>1, <2>2, <2>3, <2>4, <3>1 DEF WorkInv, SmbConf, ExportsFile
  <2>. QED
    BY <1>1, <1>2, <1>4, <2>1, <2>2, <2>3, <2>5 DEF AckInv, LineAndWork, HeadInv
<1>. QED
  BY <1>5, <1>6, <1>7, <1>8, <1>9

\* What the answer of a verb promises.
Answered(c) == \A f \in {"smb", "nfs"} : /\ files'[f].made >= call[c].made
                                         /\ files'[f].says # {} => served'[f].made >= call[c].made

\* The last command of the apply at the head of the line: the answer is true.
LEMMA LastTurn == ASSUME AckInv, NEW p \in Appliers, TellNfs(p) \/ ApplyFails(p)
                  PROVE  LineAndWork' /\ (p \in Calls /\ TellNfs(p) => Answered(p))
<1>1. /\ queue # <<>> /\ Head(queue) = p /\ UNCHANGED <<files, made>> /\ job' = NoJob /\ queue' = Tail(queue)
      /\ IF p \in Calls THEN call' = [call EXCEPT ![p] = Idle] ELSE UNCHANGED call
      /\ \/ served' = served \/ served' = [served EXCEPT !.smb = files.smb]
         \/ \E x \in {files.nfs, Stopped(files.nfs)} : served' = [served EXCEPT !.nfs = x]
  BY DEF TellNfs, ApplyFails, At, Ends, tables
<1>2. LineInv' /\ HeadInv' /\ call' = [c \in Calls |-> call'[c]]
  BY <1>1, LineShrinks DEF AckInv
<1>3. WorkInv'
  BY <1>1 DEF WorkInv, NoJob
<1>4. Pair(files) /\ Pair(served) /\ FileShape /\ JobShape
  BY DEF AckInv, OrderInv, FileShape, Pair
<1>5. Pair(served')
  BY <1>1, <1>4, ToldSmb, ToldNfs
<1>6. ASSUME p \in Calls, TellNfs(p) PROVE Answered(p)
  <2>1. /\ job.pc = "nfsd"
        /\ AnyNfs(job.rows, job.ds) => served' = [served EXCEPT !.nfs = files.nfs]
        /\ served' = served \/ \E x \in {files.nfs, Stopped(files.nfs)} : served' = [served EXCEPT !.nfs = x]
    BY <1>6 DEF TellNfs, At
  <2>2. /\ files.smb.made = job.made /\ files.nfs.made = job.made
        /\ files.nfs.says = ExportsFile(job.rows, job.ds)
        /\ files.smb.says # {} => served.smb.made = job.made
    BY <2>1 DEF AckInv, WorkInv
  <2>3. call[p].made <= job.made /\ job.made \in Nat
    BY <1>1, <1>4, <1>6, <2>1 DEF AckInv, HeadInv, JobShape
  <2>4. call[p].made \in Nat
    <3>1. 1 \in 1 .. Len(queue) /\ Head(queue) = queue[1]
      BY <1>1, EmptySeq DEF AckInv, LineInv
    <3>. QED
      BY <1>1, <1>6, <3>1 DEF AckInv, LineInv, Waits
  <2>5. served'.smb = served.smb /\ (AnyNfs(job.rows, job.ds) => served'.nfs.made = files.nfs.made)
    BY <1>4, <2>1, ToldNfs
  <2>6. files.nfs.says # {} => AnyNfs(job.rows, job.ds)
    BY <2>2 DEF ExportsFile, AnyNfs
  <2>7. PICK m, k : m = call[p].made /\ k = job.made /\ m <= k /\ m \in Nat /\ k \in Nat
    BY <2>3, <2>4
  <2>8. /\ files'["smb"].made >= m /\ files'["nfs"].made >= m
        /\ files'["smb"].says # {} => served'["smb"].made >= m
        /\ files'["nfs"].says # {} => served'["nfs"].made >= m
    BY <1>1, <2>2, <2>5, <2>6, <2>7
  <2>. QED
    BY <2>7, <2>8 DEF Answered
<1>. QED
  BY <1>2, <1>3, <1>5, <1>6 DEF LineAndWork

\* A verb goes on, or stands in line; no apply is touched.
LEMMA VerbLine == ASSUME AckInv, NEW c \in Calls, VerbStep(c) PROVE LineAndWork'
<1>1. /\ UNCHANGED <<job, files, served>> /\ call[c].pc # "apply"
      /\ \/ \E r : call' = [call EXCEPT ![c] = r] /\ UNCHANGED <<made, queue>>
         \/ /\ call' = [call EXCEPT ![c] = [pc |-> "apply", made |-> made + 1]]
            /\ made' = made + 1 /\ queue' = Append(queue, c)
  BY VerbTurn
<1>2. made \in Nat /\ LineInv /\ HeadInv /\ call = [e \in Calls |-> call[e]]
  BY DEF AckInv, OrderInv
<1>3. LineInv' /\ HeadInv' /\ call' = [e \in Calls |-> call'[e]]
  BY <1>1, <1>2, LineKeeps, LineGrows
<1>4. WorkInv' /\ Pair(served')
  BY <1>1 DEF AckInv, WorkInv, SmbConf, ExportsFile
<1>. QED
  BY <1>3, <1>4 DEF LineAndWork

\* The line ends with the agent, or begins with the finisher of a restore.
LEMMA DiesLine == ASSUME AckInv, Crash \/ RestoreSwaps PROVE LineAndWork'
<1>1. UNCHANGED <<files, served>> /\ call' = [c \in Calls |-> Idle] /\ job' = NoJob /\ queue' \in {<<>>, <<Finisher>>}
  BY DEF Crash, RestoreSwaps, Dies, config
<1>2. Finisher \notin Calls /\ Finisher \in Appliers
  BY SharesAssumption DEF Finisher, Appliers
<1>3. LineInv'
  <2>1. CASE queue' = <<>>
    BY <2>1, EmptySeq DEF LineInv
  <2>2. CASE queue' = <<Finisher>>
    <3>1. queue' \in Seq(Appliers) /\ Len(queue') = 1 /\ queue'[1] = Finisher
      BY <1>2, <2>2
    <3>2. \A i \in 1 .. Len(queue') : i = 1
      BY <3>1
    <3>. QED
      BY <1>2, <3>1, <3>2 DEF LineInv
  <2>. QED
    BY <1>1, <2>1, <2>2
<1>4. HeadInv' /\ WorkInv'
  BY <1>1 DEF HeadInv, WorkInv, NoJob
<1>. QED
  BY <1>1, <1>3, <1>4 DEF LineAndWork, AckInv, Pair

\* The reapply of a start stands in line as well.
LEMMA ReapplyLine == ASSUME AckInv, Reapply PROVE LineAndWork'
<1>1. UNCHANGED <<files, served, call, job, made>> /\ (queue' = queue \/ queue' = Append(queue, Boot))
  BY DEF Reapply, config, tables
<1>2. CASE queue' = queue
  BY <1>1, <1>2 DEF AckInv, LineAndWork, LineInv, HeadInv, WorkInv, SmbConf, ExportsFile, Pair
<1>3. CASE queue' = Append(queue, Boot)
  <2> DEFINE n == Len(queue)
  <2>1. Boot \notin Calls /\ Boot \in Appliers
    BY SharesAssumption DEF Boot, Appliers
  <2>2. /\ n \in Nat /\ queue' \in Seq(Appliers) /\ queue' # <<>> /\ Len(queue') = n + 1
        /\ (\A i \in 1 .. n : queue'[i] = queue[i]) /\ queue'[n + 1] = Boot
    BY <1>3, <2>1, AppendProperties, LenProperties DEF AckInv, LineInv
  <2>3. \A i \in 1 .. Len(queue') : queue'[i] \in Calls => i \in 1 .. n /\ queue'[i] = queue[i]
    BY <2>1, <2>2
  <2>4. LineInv'
    BY <1>1, <2>2, <2>3 DEF AckInv, LineInv
  <2>5. HeadInv'
    <3>1. CASE job.pc = "none"
      BY <1>1, <3>1 DEF HeadInv
    <3>2. CASE job.pc # "none"
      <4>1. queue # <<>> /\ 1 \in 1 .. n /\ Head(queue) = queue[1]
        BY <3>2, EmptySeq DEF AckInv, HeadInv, LineInv
      <4>2. Head(queue') = Head(queue)
        BY <2>2, <4>1
      <4>. QED
        BY <1>1, <2>2, <3>2, <4>2 DEF AckInv, HeadInv
    <3>. QED
      BY <3>1, <3>2
  <2>6. WorkInv'
    BY <1>1 DEF AckInv, WorkInv, SmbConf, ExportsFile
  <2>. QED
    BY <1>1, <2>4, <2>5, <2>6 DEF AckInv, LineAndWork, Pair
<1>. QED
  BY <1>1, <1>2, <1>3

\* The rest leaves the line alone; smbd may read its file once more.
LEMMA OthersLine ==
  ASSUME AckInv,
         \/ \E d \in Datasets : DatasetCreate(d) \/ SetMountpoint(d)
         \/ Start \/ SmbdRereads \/ UNCHANGED vars
  PROVE  LineAndWork'
<1>1. UNCHANGED <<files, call, job, made, queue>>
  BY DEF DatasetCreate, SetMountpoint, Start, SmbdRereads, vars, config, tables
<1>2. served' = served \/ served' = [served EXCEPT !.smb = files.smb]
  BY DEF DatasetCreate, SetMountpoint, Start, SmbdRereads, vars, config
<1>3. Pair(files) /\ Pair(served)
  BY DEF AckInv, OrderInv, FileShape, Pair
<1>4. Pair(served') /\ (served'.smb.made = served.smb.made \/ served'.smb.made = files.smb.made)
  BY <1>2, <1>3, ToldSmb
<1>5. WorkInv'
  BY <1>1, <1>4 DEF AckInv, WorkInv, SmbConf, ExportsFile
<1>. QED
  BY <1>1, <1>4, <1>5 DEF AckInv, LineAndWork, LineInv, HeadInv

\* Every step keeps the invariant, and every answer is true.
LEMMA AckStep == ASSUME AckInv, [Next]_vars
                 PROVE  AckInv' /\ \A c \in Calls : TellNfs(c) => Answered(c)
<1>1. OrderInv'
  BY OrderStep DEF AckInv
<1>2. LineAndWork'
  <2>1. CASE \E p \in Appliers : ApplyStep(p)
    BY <2>1, ApplyTurn, LastTurn DEF ApplyStep
  <2>2. CASE \E c \in Calls : VerbStep(c)
    BY <2>2, VerbLine
  <2>3. CASE Crash \/ RestoreSwaps \/ Reapply
    BY <2>3, DiesLine, ReapplyLine
  <2>4. CASE \/ \E d \in Datasets : DatasetCreate(d) \/ SetMountpoint(d)
             \/ Start \/ SmbdRereads \/ UNCHANGED vars
    BY <2>4, OthersLine
  <2>. QED
    BY <2>1, <2>2, <2>3, <2>4 DEF Next
<1>3. \A c \in Calls : TellNfs(c) => Answered(c)
  BY LastTurn DEF Appliers
<1>. QED
  BY <1>1, <1>2, <1>3 DEF AckInv, LineAndWork

\* At first nobody is in line.
LEMMA AckInit == Init => AckInv
<1> SUFFICES ASSUME Init PROVE AckInv
  OBVIOUS
<1>1. /\ files = [smb |-> [made |-> 0, says |-> {}], nfs |-> [made |-> 0, says |-> {}]] /\ served = files
      /\ job = NoJob /\ queue = <<>> /\ call = [c \in Calls |-> Idle]
  BY DEF Init
<1>2. OrderInv
  BY OrderInit
<1>3. Pair(served)
  BY <1>1 DEF Pair
<1>4. LineInv
  BY <1>1, EmptySeq DEF LineInv
<1>5. HeadInv /\ WorkInv
  BY <1>1 DEF HeadInv, WorkInv, NoJob
<1>6. call = [c \in Calls |-> call[c]]
  BY <1>1
<1>. QED
  BY <1>2, <1>3, <1>4, <1>5, <1>6 DEF AckInv

\* For any number of calls in flight, changes, crashes and failed commands: a verb that changed the table is
\* answered only when both files, and each daemon that has anything to serve, show that change or a later one
\* (apply, awaited by setShare, removeShare and removeUser).
THEOREM AnswersAreServed == Spec => AckedIsServed
<1>1. Init => AckInv
  BY AckInit
<1>2. AckInv /\ [Next]_vars => AckInv'
  BY AckStep
<1>3. AckInv /\ [Next]_vars => [\A c \in Calls : TellNfs(c) => Answered(c)]_vars
  BY AckStep
<1>. QED
  BY <1>1, <1>2, <1>3, PTL DEF Spec, AckedIsServed, Answered
----------------------------------------------------------------------------
(* A share and a policy have their dataset.  What a call saw of a dataset     *)
(* when it looked still holds when it writes, or the dataset is adrift: the   *)
(* two looks that can spoil each other saw each other.                        *)

OnDataset == {"share.set", "policy.set", "zfs destroy", "policy row"}

\* What a call that looked at a dataset may rely on.
Fit(r, z, t, a) == /\ "pc" \in DOMAIN r
                   /\ r.pc \in OnDataset => r.ds \in Datasets
                   /\ r.pc \in Writing => z[r.ds] # "absent" \/ r.ds \in a
                   /\ r.pc = "zfs destroy" => r.ds \notin DOMAIN t \/ r.ds \in a

\* Who writes a row of a dataset and who destroys it have met.
Met(cs, a) == \A c, e \in Calls : cs[c].pc \in Writing /\ cs[e].pc = "zfs destroy" /\ cs[c].ds = cs[e].ds => cs[c].ds \in a

CallsFit == (\A c \in Calls : Fit(call[c], zfs, rows, adrift)) /\ Met(call, adrift)

DatasetInv == /\ zfs = [d \in Datasets |-> zfs[d]]
              /\ DOMAIN rows \subseteq Datasets
              /\ call = [c \in Calls |-> call[c]]
              /\ CallsFit
              /\ RowsHaveDatasets

\* Records of calls that are at no dataset.
LEMMA RecordFacts ==
  /\ \A m : LET r == [pc |-> "apply", made |-> m] IN "pc" \in DOMAIN r /\ r.pc \notin OnDataset
  /\ \A pc, u, s : LET r == [pc |-> pc, user |-> u, seen |-> s] IN "pc" \in DOMAIN r /\ r.pc = pc
  /\ \A u, t : LET r == [pc |-> "row", user |-> u, then |-> t] IN "pc" \in DOMAIN r /\ r.pc \notin OnDataset
  /\ "pc" \in DOMAIN Idle /\ Idle.pc \notin OnDataset
BY DEF OnDataset, Idle

\* A call that is not between its two commands goes on to something that is not about a dataset, or ends.  The
\* table may have gained the dataset it was at, which is there or adrift.
LEMMA CallLeaves ==
  ASSUME DatasetInv, NEW c \in Calls, call[c].pc # "policy row", NEW r, call' = [call EXCEPT ![c] = r],
         "pc" \in DOMAIN r, r.pc \notin OnDataset,
         UNCHANGED <<zfs, policies, adrift>>,
         \A d \in DOMAIN rows' : \/ d \in DOMAIN rows
                                 \/ call[c].pc = "share.set" /\ d = call[c].ds
  PROVE  DatasetInv'
<1>1. /\ call' = [e \in Calls |-> call'[e]] /\ call'[c] = r
      /\ \A e \in Calls \ {c} : call'[e] = call[e]
  BY DEF DatasetInv
<1>2. Met(call', adrift')
  BY <1>1 DEF DatasetInv, CallsFit, Met, OnDataset, Writing
<1>3. ASSUME NEW d \in DOMAIN rows', d \notin DOMAIN rows
      PROVE  /\ d \in Datasets /\ (zfs[d] # "absent" \/ d \in adrift)
             /\ \A e \in Calls \ {c} : call[e].pc = "zfs destroy" /\ call[e].ds = d => d \in adrift
  BY <1>3 DEF DatasetInv, CallsFit, Fit, OnDataset, Met, Writing
<1>4. ASSUME NEW e \in Calls PROVE Fit(call'[e], zfs', rows', adrift')
  <2>1. CASE e = c
    BY <1>1, <2>1 DEF Fit, OnDataset, Writing
  <2>2. CASE e # c
    BY <1>1, <1>3, <2>2 DEF DatasetInv, CallsFit, Fit
  <2>. QED
    BY <2>1, <2>2
<1>5. \A d \in Datasets : Meets(d, {"policy row"}) => Meets(d, {"policy row"})'
  BY <1>1 DEF Meets
<1>6. DOMAIN rows' \subseteq Datasets /\ RowsHaveDatasets'
  BY <1>3, <1>5 DEF DatasetInv, RowsHaveDatasets
<1>. QED
  BY <1>1, <1>2, <1>4, <1>6 DEF DatasetInv, CallsFit

\* A call looks at a dataset that is there: whoever is at it already and could spoil this has been met.
LEMMA CallTakes ==
  ASSUME DatasetInv, NEW c \in Calls, call[c].pc # "policy row", NEW d \in Datasets, NEW r,
         call' = [call EXCEPT ![c] = r], "pc" \in DOMAIN r, r.ds = d, zfs[d] # "absent",
         \/ r.pc \in Writing /\ Drifts(d, Meets(d, {"zfs destroy"}))
         \/ r.pc = "zfs destroy" /\ d \notin DOMAIN rows /\ Drifts(d, Meets(d, Writing)),
         UNCHANGED <<zfs, rows, policies>>
  PROVE  DatasetInv'
<1>1. /\ call' = [e \in Calls |-> call'[e]] /\ call'[c] = r
      /\ \A e \in Calls \ {c} : call'[e] = call[e]
  BY DEF DatasetInv
<1>2. /\ adrift \subseteq adrift'
      /\ r.pc \in Writing => (Meets(d, {"zfs destroy"}) => d \in adrift')
      /\ r.pc = "zfs destroy" => d \notin DOMAIN rows /\ (Meets(d, Writing) => d \in adrift')
  BY DEF Drifts, Writing
<1>3. \A e \in Calls : Fit(call'[e], zfs', rows', adrift')
  <2>1. Fit(r, zfs, rows, adrift')
    BY <1>2 DEF Fit, Writing
  <2>2. \A e \in Calls \ {c} : Fit(call[e], zfs, rows, adrift')
    BY <1>2 DEF DatasetInv, CallsFit, Fit
  <2>. QED
    BY <1>1, <2>1, <2>2
<1>4. Met(call', adrift')
  <2> SUFFICES ASSUME NEW f \in Calls, NEW e \in Calls, call'[f].pc \in Writing, call'[e].pc = "zfs destroy",
                      call'[f].ds = call'[e].ds
               PROVE  call'[f].ds \in adrift'
    BY DEF Met
  <2>1. CASE f # c /\ e # c
    BY <1>1, <1>2, <2>1 DEF DatasetInv, CallsFit, Met
  <2>2. CASE f = c
    <3>1. e # c /\ call[e].pc = "zfs destroy" /\ call[e].ds = d /\ r.pc \in Writing
      BY <1>1, <2>2 DEF Writing
    <3>. QED
      BY <1>1, <1>2, <2>2, <3>1 DEF Meets
  <2>3. CASE e = c /\ f # c
    BY <1>1, <1>2, <2>3 DEF Meets
  <2>. QED
    BY <2>1, <2>2, <2>3
<1>5. \A e \in Datasets : Meets(e, {"policy row"}) => Meets(e, {"policy row"})'
  BY <1>1 DEF Meets
<1>6. RowsHaveDatasets'
  BY <1>2, <1>5 DEF DatasetInv, RowsHaveDatasets
<1>. QED
  BY <1>1, <1>3, <1>4, <1>6 DEF DatasetInv, CallsFit

\* The dataset goes: whoever writes a row of it has been met, and its policy is next.
LEMMA DestroyKeeps == ASSUME DatasetInv, NEW c \in Calls, DatasetDestroy(c) PROVE DatasetInv'
<1>0. PICK d : d = call[c].ds
  OBVIOUS
<1> DEFINE r == [pc |-> "policy row", ds |-> d]
<1>1. /\ call[c].pc = "zfs destroy" /\ zfs' = [zfs EXCEPT ![d] = "absent"] /\ UNCHANGED <<rows, policies, adrift>>
      /\ call' = [call EXCEPT ![c] = r]
  BY <1>0 DEF DatasetDestroy, tables
<1>2. d \in Datasets /\ (d \notin DOMAIN rows \/ d \in adrift)
  BY <1>0, <1>1 DEF DatasetInv, CallsFit, Fit, OnDataset
<1>3. "pc" \in DOMAIN r /\ r.pc = "policy row" /\ r.ds = d
  OBVIOUS
<1> HIDE DEF r
<1>4. /\ call' = [e \in Calls |-> call'[e]] /\ call'[c] = r
      /\ \A e \in Calls \ {c} : call'[e] = call[e]
  BY <1>1 DEF DatasetInv
<1>5. /\ zfs' = [e \in Datasets |-> zfs'[e]] /\ zfs'[d] = "absent"
      /\ \A e \in Datasets \ {d} : zfs'[e] = zfs[e]
  BY <1>1, <1>2 DEF DatasetInv
<1>6. \A e \in Calls \ {c} : call[e].pc \in Writing /\ call[e].ds = d => d \in adrift
  BY <1>0, <1>1 DEF DatasetInv, CallsFit, Met
<1>7. ASSUME NEW e \in Calls PROVE Fit(call'[e], zfs', rows', adrift')
  <2>1. CASE e = c
    BY <1>2, <1>3, <1>4, <2>1 DEF Fit, OnDataset, Writing
  <2>2. CASE e # c
    <3>1. Fit(call[e], zfs, rows, adrift) /\ (call[e].pc \in Writing => call[e].pc \in OnDataset)
      BY <2>2 DEF DatasetInv, CallsFit, OnDataset, Writing
    <3>2. Fit(call[e], zfs', rows, adrift)
      BY <1>5, <1>6, <2>2, <3>1 DEF Fit
    <3>. QED
      BY <1>1, <1>4, <2>2, <3>2
  <2>. QED
    BY <2>1, <2>2
<1>8. Met(call', adrift')
  BY <1>1, <1>3, <1>4 DEF DatasetInv, CallsFit, Met, Writing
<1>9. RowsHaveDatasets'
  <2>1. Meets(d, {"policy row"})'
    BY <1>3, <1>4 DEF Meets
  <2>2. \A e \in Datasets : Meets(e, {"policy row"}) => Meets(e, {"policy row"})'
    BY <1>1, <1>4 DEF Meets
  <2>. QED
    BY <1>1, <1>2, <1>5, <2>1, <2>2 DEF DatasetInv, RowsHaveDatasets
<1>. QED
  BY <1>1, <1>4, <1>5, <1>7, <1>8, <1>9 DEF DatasetInv, CallsFit

\* A call at a dataset ends: one that fails leaves the dataset, or sets it adrift; one that writes leaves what is
\* there; one that drops the policy leaves none.
LEMMA AtDatasetEnds ==
  ASSUME DatasetInv, NEW c \in Calls, DatasetDestroyFails(c) \/ DropPolicy(c) \/ PolicySetWrite(c)
  PROVE  DatasetInv'
<1> DEFINE d == call[c].ds
<1>1. rows' = rows /\ call' = [call EXCEPT ![c] = Idle] /\ call[c].pc \in OnDataset
  BY DEF DatasetDestroyFails, DropPolicy, PolicySetWrite, tables, Ends, OnDataset
<1>2. d \in Datasets
  BY <1>1 DEF DatasetInv, CallsFit, Fit
<1>3. /\ call' = [e \in Calls |-> call'[e]] /\ call'[c] = Idle
      /\ \A e \in Calls \ {c} : call'[e] = call[e]
  BY <1>1 DEF DatasetInv
<1>4. /\ zfs' = [e \in Datasets |-> zfs'[e]] /\ adrift \subseteq adrift'
      /\ \A e \in Datasets \ {d} : zfs'[e] = zfs[e]
      /\ zfs'[d] = zfs[d] \/ d \in adrift'
  BY <1>2 DEF DatasetDestroyFails, DropPolicy, PolicySetWrite, DatasetInv
<1>5. /\ \A e \in Datasets : e \in policies' => e \in policies \/ (e = d /\ call[c].pc = "policy.set")
      /\ call[c].pc = "policy row" => d \notin policies'
  BY DEF DatasetDestroyFails, DropPolicy, PolicySetWrite
<1>6. call[c].pc = "policy.set" => zfs[d] # "absent" \/ d \in adrift
  BY DEF DatasetInv, CallsFit, Fit, Writing
<1> HIDE DEF d
<1>7. ASSUME NEW e \in Calls PROVE Fit(call'[e], zfs', rows', adrift')
  <2>1. CASE e = c
    BY <1>3, <2>1, RecordFacts DEF Fit, OnDataset, Writing
  <2>2. CASE e # c
    <3>1. Fit(call[e], zfs, rows, adrift) /\ (call[e].pc \in Writing => call[e].pc \in OnDataset)
      BY <2>2 DEF DatasetInv, CallsFit, OnDataset, Writing
    <3>2. Fit(call[e], zfs', rows, adrift')
      BY <1>4, <3>1 DEF Fit
    <3>. QED
      BY <1>1, <1>3, <2>2, <3>2
  <2>. QED
    BY <2>1, <2>2
<1>8. Met(call', adrift')
  <2>1. \A e \in Calls : call'[e].pc \in Writing \cup {"zfs destroy"} => call'[e] = call[e]
    BY <1>3, RecordFacts DEF OnDataset, Writing
  <2>. QED
    BY <1>4, <2>1 DEF DatasetInv, CallsFit, Met
<1>9. RowsHaveDatasets'
  <2>1. \A e \in Datasets : Meets(e, {"policy row"}) => Meets(e, {"policy row"})' \/ (e = d /\ call[c].pc = "policy row")
    BY <1>3 DEF Meets, d
  <2>. QED
    BY <1>1, <1>4, <1>5, <1>6, <2>1 DEF DatasetInv, RowsHaveDatasets
<1>. QED
  BY <1>1, <1>3, <1>4, <1>7, <1>8, <1>9 DEF DatasetInv, CallsFit

\* A call that ended.
LEMMA EndsLeaves == ASSUME DatasetInv, NEW c \in Calls, call[c].pc # "policy row", Ends(c),
                           UNCHANGED <<zfs, policies, adrift, rows>>
                    PROVE  DatasetInv'
BY RecordFacts, CallLeaves DEF Ends

\* The same for one that moves on to its next command.
LEMMA GotoLeaves == ASSUME DatasetInv, NEW c \in Calls, call[c].pc # "policy row", NEW pc, pc \notin OnDataset, Goto(c, pc),
                           UNCHANGED <<zfs, policies, adrift, rows>>
                    PROVE  DatasetInv'
<1>1. PICK r : r = [call[c] EXCEPT !.pc = pc]
  OBVIOUS
<1>2. call' = [call EXCEPT ![c] = r]
  BY <1>1 DEF Goto
<1>3. "pc" \in DOMAIN r /\ r.pc = pc
  BY <1>1 DEF DatasetInv, CallsFit, Fit
<1>. QED
  BY <1>2, <1>3, CallLeaves

\* The same for a change of the table.
LEMMA ChangeLeaves == ASSUME DatasetInv, NEW c \in Calls, call[c].pc # "policy row", NEW t, ChangeAndApply(c, t),
                             UNCHANGED <<zfs, policies, adrift>>,
                             \A d \in DOMAIN t : \/ d \in DOMAIN rows
                                                 \/ call[c].pc = "share.set" /\ d = call[c].ds
                      PROVE  DatasetInv'
<1>1. rows' = t /\ call' = [call EXCEPT ![c] = [pc |-> "apply", made |-> made + 1]]
  BY DEF ChangeAndApply
<1>2. PICK r : r = [pc |-> "apply", made |-> made + 1]
  OBVIOUS
<1>3. "pc" \in DOMAIN r /\ r.pc \notin OnDataset
  BY <1>2, RecordFacts
<1>. QED
  BY <1>1, <1>2, <1>3, CallLeaves

\* The verbs that begin by looking at a dataset.
LEMMA LooksTake ==
  ASSUME DatasetInv, NEW c \in Calls, NEW d \in Datasets,
         (\E w \in Wishes : ShareSetLook(c, d, w)) \/ DatasetDestroyLook(c, d) \/ PolicySetLook(c, d)
  PROVE  DatasetInv'
<1>1. call[c] = Idle /\ zfs[d] # "absent" /\ UNCHANGED <<zfs, rows, policies>>
  BY DEF ShareSetLook, DatasetDestroyLook, PolicySetLook, Free, tables
<1>2. call[c].pc # "policy row"
  BY <1>1, RecordFacts DEF OnDataset
<1>3. PICK r :
        /\ call' = [call EXCEPT ![c] = r] /\ "pc" \in DOMAIN r /\ r.ds = d
        /\ \/ r.pc \in Writing /\ Drifts(d, Meets(d, {"zfs destroy"}))
           \/ r.pc = "zfs destroy" /\ d \notin DOMAIN rows /\ Drifts(d, Meets(d, Writing))
  <2>1. CASE \E w \in Wishes : ShareSetLook(c, d, w)
    <3>1. PICK w \in Wishes : /\ Drifts(d, Meets(d, {"zfs destroy"}))
                              /\ call' = [call EXCEPT ![c] = [pc |-> "share.set", ds |-> d, wish |-> w]]
      BY <2>1 DEF ShareSetLook
    <3>2. PICK r : r = [pc |-> "share.set", ds |-> d, wish |-> w]
      OBVIOUS
    <3>3. "pc" \in DOMAIN r /\ r.ds = d /\ r.pc \in Writing
      BY <3>2 DEF Writing
    <3>. QED
      BY <3>1, <3>2, <3>3
  <2>2. CASE DatasetDestroyLook(c, d)
    <3>1. d \notin DOMAIN rows /\ Drifts(d, Meets(d, Writing)) /\ call' = [call EXCEPT ![c] = [pc |-> "zfs destroy", ds |-> d]]
      BY <2>2 DEF DatasetDestroyLook
    <3>2. PICK r : r = [pc |-> "zfs destroy", ds |-> d]
      OBVIOUS
    <3>3. "pc" \in DOMAIN r /\ r.ds = d /\ r.pc = "zfs destroy"
      BY <3>2
    <3>. QED
      BY <3>1, <3>2, <3>3
  <2>3. CASE PolicySetLook(c, d)
    <3>1. Drifts(d, Meets(d, {"zfs destroy"})) /\ call' = [call EXCEPT ![c] = [pc |-> "policy.set", ds |-> d]]
      BY <2>3 DEF PolicySetLook
    <3>2. PICK r : r = [pc |-> "policy.set", ds |-> d]
      OBVIOUS
    <3>3. "pc" \in DOMAIN r /\ r.ds = d /\ r.pc \in Writing
      BY <3>2 DEF Writing
    <3>. QED
      BY <3>1, <3>2, <3>3
  <2>. QED
    BY <2>1, <2>2, <2>3
<1>. QED
  BY <1>1, <1>2, <1>3, CallTakes

\* Every step of a verb keeps rows and datasets together.
LEMMA VerbDatasets == ASSUME DatasetInv, NEW c \in Calls, VerbStep(c) PROVE DatasetInv'
<1>0. Idle.pc = "idle"
  BY DEF Idle
<1>1. CASE \E d \in Datasets : (\E w \in Wishes : ShareSetLook(c, d, w)) \/ DatasetDestroyLook(c, d) \/ PolicySetLook(c, d)
  BY <1>1, LooksTake
<1>2. CASE \E d \in Datasets : ShareRemove(c, d)
  <2>1. PICK d \in Datasets : ChangeAndApply(c, Without(rows, d)) /\ UNCHANGED <<zfs, policies, adrift>> /\ call[c] = Idle
    BY <1>2 DEF ShareRemove, world, Free
  <2>2. \A e \in DOMAIN Without(rows, d) : e \in DOMAIN rows
    BY DEF Without
  <2>. QED
    BY <1>0, <2>1, <2>2, ChangeLeaves
<1>3. CASE \E u \in Users : (\E verb \in {"user.set", "user.smbPassword"} : UserSetLook(c, u, verb)) \/ UserRemoveLook(c, u)
  <2>1. PICK u \in Users, pc \in {"user.set", "user.smbPassword", "smbpasswd -x"} :
          /\ UNCHANGED <<zfs, rows, policies, adrift>> /\ call[c] = Idle
          /\ call' = [call EXCEPT ![c] = [pc |-> pc, user |-> u, seen |-> accounts[u]]]
    BY <1>3 DEF UserSetLook, UserRemoveLook, tables, Free
  <2>2. PICK r : r = [pc |-> pc, user |-> u, seen |-> accounts[u]]
    OBVIOUS
  <2>3. "pc" \in DOMAIN r /\ r.pc \notin OnDataset
    BY <2>2, RecordFacts DEF OnDataset
  <2>. QED
    BY <1>0, <2>1, <2>2, <2>3, CallLeaves
<1>4. CASE ShareSetWrite(c)
  <2> DEFINE d == call[c].ds
             r == Merged(d, call[c].wish)
             t == IF r.smb \/ r.nfs THEN With(rows, d, r) ELSE Without(rows, d)
  <2>1. call[c].pc = "share.set" /\ UNCHANGED <<zfs, policies, adrift>>
    BY <1>4 DEF ShareSetWrite, world
  <2>2. \A e \in DOMAIN t : e \in DOMAIN rows \/ e = d
    BY DEF With, Without
  <2>3. \/ Ends(c) /\ rows' = rows
        \/ ChangeAndApply(c, t)
    BY <1>4 DEF ShareSetWrite, tables
  <2> HIDE DEF t, r
  <2>4. CASE Ends(c) /\ rows' = rows
    BY <2>1, <2>4, EndsLeaves
  <2>. QED
    BY <2>1, <2>2, <2>3, <2>4, ChangeLeaves
<1>5. CASE UserAdd(c) \/ SmbPasswd(c)
  <2>1. /\ UNCHANGED <<zfs, policies, adrift, rows>> /\ call[c].pc # "policy row"
        /\ Ends(c) \/ \E t : call' = [call EXCEPT ![c] = [pc |-> "row", user |-> call[c].user, then |-> t]]
    BY <1>5 DEF UserAdd, SmbPasswd, tables, world
  <2>2. CASE Ends(c)
    BY <2>1, <2>2, EndsLeaves
  <2>3. CASE \E t : call' = [call EXCEPT ![c] = [pc |-> "row", user |-> call[c].user, then |-> t]]
    <3>1. PICK t, r : r = [pc |-> "row", user |-> call[c].user, then |-> t] /\ call' = [call EXCEPT ![c] = r]
      BY <2>3
    <3>2. "pc" \in DOMAIN r /\ r.pc \notin OnDataset
      BY <3>1, RecordFacts
    <3>. QED
      BY <2>1, <3>1, <3>2, CallLeaves
  <2>. QED
    BY <2>1, <2>2, <2>3
<1>6. CASE UserRow(c) \/ DropPassword(c) \/ UserDel(c)
  <2>1. /\ UNCHANGED <<zfs, policies, adrift, rows>> /\ call[c].pc # "policy row"
        /\ \E pc \in {"smbpasswd", "userdel", "forget"} : Ends(c) \/ Goto(c, pc)
    BY <1>6 DEF UserRow, DropPassword, UserDel, tables, world
  <2>. QED
    BY <2>1, EndsLeaves, GotoLeaves DEF OnDataset
<1>7. CASE UserForget(c)
  <2>1. /\ UNCHANGED <<zfs, policies, adrift>> /\ call[c].pc # "policy row"
        /\ \/ Ends(c) /\ rows' = rows
           \/ ChangeAndApply(c, Dropped(call[c].user))
    BY <1>7 DEF UserForget, tables, world
  <2>2. DOMAIN Dropped(call[c].user) = DOMAIN rows
    BY DEF Dropped
  <2>3. CASE Ends(c) /\ rows' = rows
    BY <2>1, <2>3, EndsLeaves
  <2>. QED
    BY <2>1, <2>2, <2>3, ChangeLeaves
<1>8. CASE DatasetDestroy(c) \/ DatasetDestroyFails(c) \/ DropPolicy(c) \/ PolicySetWrite(c)
  BY <1>8, DestroyKeeps, AtDatasetEnds
<1>. QED
  BY <1>1, <1>2, <1>3, <1>4, <1>5, <1>6, <1>7, <1>8 DEF VerbStep

\* The agent dies with its calls; what it leaves without its dataset, or a restore brings, is adrift.
LEMMA DiesDatasets == ASSUME DatasetInv, Crash \/ RestoreSwaps PROVE DatasetInv'
<1>1. zfs' = zfs /\ call' = [c \in Calls |-> Idle] /\ adrift \subseteq adrift'
  BY DEF Crash, RestoreSwaps, Dies
<1>2. DOMAIN rows' \subseteq Datasets /\ RowsHaveDatasets'
  <2>1. CASE Crash
    <3>1. /\ UNCHANGED <<rows, policies>>
          /\ adrift' = adrift \cup {d \in Datasets : zfs[d] = "absent" /\ Meets(d, {"policy row"})}
      BY <2>1 DEF Crash, tables
    <3>. QED
      BY <1>1, <3>1 DEF DatasetInv, RowsHaveDatasets
  <2>2. CASE RestoreSwaps
    <3>1. PICK t \in Tables :
            /\ rows' = t.shares /\ policies' = t.policies
            /\ adrift' = adrift \cup {d \in DOMAIN t.shares \cup t.policies : zfs[d] = "absent"}
      BY <2>2 DEF RestoreSwaps
    <3>. QED
      BY <1>1, <3>1, SharesAssumption DEF RowsHaveDatasets
  <2>. QED
    BY <2>1, <2>2
<1>3. CallsFit'
  BY <1>1, RecordFacts DEF CallsFit, Fit, Met, OnDataset, Writing
<1>. QED
  BY <1>1, <1>2, <1>3 DEF DatasetInv

\* A new dataset is no longer adrift when nobody is at the old one; one that is there stays when it moves.
LEMMA ZfsKeeps == ASSUME DatasetInv, NEW d \in Datasets, DatasetCreate(d) \/ SetMountpoint(d) PROVE DatasetInv'
<1>1. UNCHANGED <<policies, rows, call>> /\ (adrift' = adrift \/ (adrift' = adrift \ {d} /\ ~Meets(d, Writing \cup {"zfs destroy"})))
  BY DEF DatasetCreate, SetMountpoint, tables
<1>2. PICK m \in {"placed", "unplaced"} : zfs' = [zfs EXCEPT ![d] = m]
  BY DEF DatasetCreate, SetMountpoint
<1>3. /\ zfs' = [e \in Datasets |-> zfs'[e]] /\ zfs'[d] # "absent"
      /\ \A e \in Datasets \ {d} : zfs'[e] = zfs[e]
  BY <1>2 DEF DatasetInv
<1>4. ASSUME NEW c \in Calls, call[c].pc \in Writing \cup {"zfs destroy"}
      PROVE  call[c].ds \in adrift => call[c].ds \in adrift'
  BY <1>1, <1>4 DEF Meets
<1>5. ASSUME NEW c \in Calls PROVE Fit(call[c], zfs', rows, adrift')
  <2>1. Fit(call[c], zfs, rows, adrift) /\ (call[c].pc \in Writing => call[c].pc \in OnDataset)
    BY DEF DatasetInv, CallsFit, OnDataset, Writing
  <2>. QED
    BY <1>3, <1>4, <2>1 DEF Fit
<1>6. Met(call, adrift')
  BY <1>4 DEF DatasetInv, CallsFit, Met
<1>7. RowsHaveDatasets'
  <2>1. \A e \in Datasets : Meets(e, {"policy row"}) => Meets(e, {"policy row"})'
    BY <1>1 DEF Meets
  <2>. QED
    BY <1>1, <1>3, <2>1 DEF DatasetInv, RowsHaveDatasets
<1>. QED
  BY <1>1, <1>3, <1>5, <1>6, <1>7 DEF DatasetInv, CallsFit

\* The call that an apply answers waited for it, and for nothing else.
LEMMA HeadWaits == ASSUME AckInv, NEW p \in Calls, queue # <<>>, Head(queue) = p PROVE call[p].pc = "apply"
<1>1. 1 \in 1 .. Len(queue) /\ Head(queue) = queue[1]
  BY EmptySeq DEF AckInv, LineInv
<1>. QED
  BY <1>1 DEF AckInv, LineInv, Waits

\* What else happens.
LEMMA OthersDatasets ==
  ASSUME DatasetInv, AckInv,
         \/ \E p \in Appliers : ApplyStep(p)
         \/ \E d \in Datasets : DatasetCreate(d) \/ SetMountpoint(d)
         \/ Start \/ Reapply \/ SmbdRereads \/ UNCHANGED vars
  PROVE  DatasetInv'
<1>1. CASE \E p \in Appliers : ApplyStep(p)
  <2>1. PICK p \in Appliers : ApplyStep(p)
    BY <1>1
  <2>2. UNCHANGED <<zfs, policies, adrift, rows>>
    BY <2>1 DEF ApplyStep, ListRows, ReadMounts, WriteSmbConf, WriteExports, TellSmbd, TellNfs, ApplyFails, tables, world
  <2>3. UNCHANGED call \/ (p \in Calls /\ Ends(p) /\ queue # <<>> /\ Head(queue) = p)
    BY <2>1 DEF ApplyStep, ListRows, ReadMounts, WriteSmbConf, WriteExports, TellSmbd, TellNfs, ApplyFails, At
  <2>4. CASE UNCHANGED call
    BY <2>2, <2>4 DEF DatasetInv, CallsFit, Met, RowsHaveDatasets, Meets
  <2>5. CASE p \in Calls /\ Ends(p) /\ queue # <<>> /\ Head(queue) = p
    <3>1. call[p].pc # "policy row"
      BY <2>5, HeadWaits
    <3>. QED
      BY <2>2, <2>5, <3>1, EndsLeaves
  <2>. QED
    BY <2>3, <2>4, <2>5
<1>2. CASE \E d \in Datasets : DatasetCreate(d) \/ SetMountpoint(d)
  BY <1>2, ZfsKeeps
<1>3. CASE Start \/ Reapply \/ SmbdRereads \/ UNCHANGED vars
  <2>1. UNCHANGED <<zfs, policies, adrift, rows, call>>
    BY <1>3 DEF Start, Reapply, SmbdRereads, vars, tables, world
  <2>. QED
    BY <2>1 DEF DatasetInv, CallsFit, Met, RowsHaveDatasets, Meets
<1>. QED
  BY <1>1, <1>2, <1>3

\* For any datasets, calls in flight, restored tables, crashes and failed commands: no share and no policy is
\* without its dataset but where a destroy met another verb on it or was cut short, or a restore brought the row
\* (destroyDataset, setShare, policy.set).
THEOREM SharesHaveDatasets == Spec => []RowsHaveDatasets
<1>1. Init => AckInv /\ DatasetInv
  <2> SUFFICES ASSUME Init PROVE DatasetInv
    BY AckInit
  <2>1. /\ zfs = [d \in Datasets |-> "placed"] /\ policies = {} /\ rows = NoTable /\ DOMAIN NoTable = {}
        /\ call = [c \in Calls |-> Idle]
    BY DEF Init, NoTable
  <2>2. CallsFit
    BY <2>1, RecordFacts DEF CallsFit, Fit, Met, OnDataset, Writing
  <2>. QED
    BY <2>1, <2>2 DEF DatasetInv, RowsHaveDatasets
<1>2. AckInv /\ DatasetInv /\ [Next]_vars => (AckInv /\ DatasetInv)'
  BY AckStep, VerbDatasets, DiesDatasets, OthersDatasets DEF Next
<1>3. AckInv /\ DatasetInv => RowsHaveDatasets
  BY DEF DatasetInv
<1>. QED
  BY <1>1, <1>2, <1>3, PTL DEF Spec
=============================================================================
