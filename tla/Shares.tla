------------------------------- MODULE Shares -------------------------------
(***************************************************************************)
(* Shares, SMB users and the datasets under them (shares.ts, the share and *)
(* user tables of db.ts, dataset.create and dataset.destroy of write.ts,   *)
(* the last half of restore-finish.ts).  A verb changes the table and then *)
(* waits for its turn to apply: list the table, read the mountpoints, write *)
(* smb.conf, write the exports, tell smbd, tell the NFS server.  Between    *)
(* any two of these other verbs run, a command fails or the agent dies.     *)
(*                                                                         *)
(* Datasets are numbered in the order of their names.  Levels of access,   *)
(* Time Machine and the text of the two files are left out.                *)
(***************************************************************************)
EXTENDS Naturals, Sequences, FiniteSets

CONSTANTS Datasets,    \* a set of naturals
          NameOf,      \* the last component of each dataset's name
          ReservedNames, \* the names smb.conf keeps for itself
          Users, Foreign, \* user names, and those of accounts mk-nas did not make
          Clients, BadClients, \* NFS clients, and those nfsClient refuses
          Calls,       \* verbs that can be in flight at once
          Wishes,      \* what share.set may be asked: records with some of the fields of a row
          Tables,      \* what a restored database may hold: [shares, policies, users]
          Fallible,    \* whether commands may fail
          MaxChanges, MaxFaults, MaxMoves, \* bounds: changes of the table, failures and crashes, other verbs,
          MaxActs      \* and changes and other verbs together

ASSUME SharesAssumption ==
  /\ Datasets \subseteq Nat
  /\ \A t \in Tables : DOMAIN t.shares \subseteq Datasets /\ t.policies \subseteq Datasets
  /\ Calls \cap {"boot", "finisher"} = {}
  /\ MaxChanges \in Nat /\ MaxFaults \in Nat /\ MaxMoves \in Nat /\ MaxActs \in Nat
  /\ Fallible \in BOOLEAN

VARIABLES zfs,      \* per dataset: absent, or whether it has a mountpoint: "placed", "unplaced"
          rows,     \* the table shares: a function on the shared datasets
          policies, \* datasets with a snapshot policy
          adrift,   \* datasets whose destroy was cut short or met another verb, or that a restore brought (for the property only)
          made,     \* how often the table has changed
          accounts, smbUsers, passdb, \* Unix accounts, the table smb_users, Samba's passwords
          files,    \* smb.conf and the exports, each with the change it shows
          served,   \* what smbd and the NFS server have loaded
          call,     \* the verbs in flight
          queue,    \* who has called apply, in order: the chain applying
          job,      \* the apply at the head of the queue
          boot,     \* the reapply of the agent's start
          agent,    \* up, down, or stopped by the finisher of a restore
          faults, moves

vars == <<zfs, rows, policies, adrift, made, accounts, smbUsers, passdb, files, served, call,
          queue, job, boot, agent, faults, moves>>
tables == <<rows, made>>
people == <<accounts, smbUsers, passdb>>
config == <<files, served>>
life   == <<agent, boot>>
world  == <<zfs, policies, adrift, moves>>

\* The bound on verbs about users, policies and datasets, and on mounts.
Move == moves < MaxMoves /\ made + moves < MaxActs /\ moves' = moves + 1
----------------------------------------------------------------------------
(* Rows, and what the two files say of them *)

Row == [smb : BOOLEAN, nfs : BOOLEAN, clients : SUBSET Clients, listed : BOOLEAN, who : SUBSET Users]
NewRow == [smb |-> FALSE, nfs |-> FALSE, clients |-> {}, listed |-> FALSE, who |-> {}]

Boot     == "boot"      \* reapply at the agent's start
Finisher == "finisher"  \* restore-finish.ts, another process
Appliers == Calls \cup {Boot, Finisher}

\* A row share.set could have written; a restored database can hold others.
Sound(t, d) == /\ t[d].clients \cap BadClients = {}
               /\ t[d].smb => NameOf[d] \notin ReservedNames

\* Mutant: every row as it is stored.
ListedAll(t) == DOMAIN t

\* listShares: the sound rows, of those with one SMB name the first.
Listed(t) == {d \in DOMAIN t :
                /\ Sound(t, d)
                /\ t[d].smb => \A e \in DOMAIN t :
                                 e < d /\ Sound(t, e) /\ t[e].smb => NameOf[e] # NameOf[d]}

\* What listDatasets shows with a mountpoint, mounted or not.
Placed == {d \in Datasets : zfs[d] = "placed"}

\* smbConf: a share with an empty list is left out, since nobody on the list would mean everybody.
SmbConf(t, ds) == {[dataset |-> d, listed |-> t[d].listed, who |-> t[d].who] :
                     d \in {e \in ds : t[e].smb /\ (t[e].listed => t[e].who # {})}}

\* exportsFile: a share with no clients is exported to nobody.
ExportsFile(t, ds) == {[dataset |-> d, clients |-> t[d].clients] :
                         d \in {e \in ds : t[e].nfs /\ t[e].clients # {}}}

AnySmb(t, ds) == \E d \in ds : t[d].smb
AnyNfs(t, ds) == \E d \in ds : t[d].nfs /\ t[d].clients # {}

\* setShare: fields that are not given stay as they were.
Merged(d, w) == LET before == IF d \in DOMAIN rows THEN rows[d] ELSE NewRow
                IN  [f \in DOMAIN before |-> IF f \in DOMAIN w THEN w[f] ELSE before[f]]

\* setShare's checks of the merged row, in the same turn as the write.
Refused(d, w, r) ==
  \/ r.clients \cap BadClients # {} /\ "clients" \in DOMAIN w
  \/ r.nfs /\ r.clients = {} /\ ("nfs" \in DOMAIN w \/ "clients" \in DOMAIN w)
  \/ r.smb /\ (NameOf[d] \in ReservedNames
               \/ \E e \in DOMAIN rows \ {d} : rows[e].smb /\ NameOf[e] = NameOf[d])

Without(t, d) == [e \in DOMAIN t \ {d} |-> t[e]]
With(t, d, r) == [e \in DOMAIN t \cup {d} |-> IF e = d THEN r ELSE t[e]]

Idle  == [pc |-> "idle"]
NoTable == [d \in {} |-> NewRow]
NoJob == [pc |-> "none", made |-> 0, rows |-> NoTable, ds |-> {}]

Init == /\ zfs = [d \in Datasets |-> "placed"]
        /\ rows = NoTable
        /\ policies = {}
        /\ adrift = {}
        /\ made = 0
        /\ accounts = [u \in Users |-> IF u \in Foreign THEN "foreign" ELSE "none"]
        /\ smbUsers = Foreign  \* an older agent put existing accounts in the table
        /\ passdb = smbUsers
        /\ files = [smb |-> [made |-> 0, says |-> {}], nfs |-> [made |-> 0, says |-> {}]]
        /\ served = files
        /\ call = [c \in Calls |-> Idle]
        /\ queue = <<>>
        /\ job = NoJob
        /\ boot = NoJob
        /\ agent = "up"
        /\ faults = 0
        /\ moves = 0
----------------------------------------------------------------------------
(* The chain of applies *)

Goto(c, pc) == call' = [call EXCEPT ![c].pc = pc]
Ends(c) == call' = [call EXCEPT ![c] = Idle]

\* A change of the table by call c, which then stands in line.
ChangeAndApply(c, t) ==
  /\ made < MaxChanges /\ made + moves < MaxActs
  /\ rows' = t
  /\ made' = made + 1
  /\ call' = [call EXCEPT ![c] = [pc |-> "apply", made |-> made + 1]]
  /\ queue' = Append(queue, c)

At(p, pc) == queue # <<>> /\ Head(queue) = p /\ job.pc = pc

\* The promise of the one before is settled, well or not: the next one begins.
ListRows(p) ==
  /\ At(p, "none")
  /\ job' = [pc |-> "mounts", made |-> made, rows |-> [d \in Listed(rows) |-> rows[d]], ds |-> {}]
  /\ UNCHANGED <<world, tables, people, config, call, queue, life, faults>>

ReadMounts(p) ==
  /\ At(p, "mounts")
  /\ job' = [job EXCEPT !.pc = "smb.conf", !.ds = DOMAIN job.rows \cap Placed]
  /\ UNCHANGED <<world, tables, people, config, call, queue, life, faults>>

WriteSmbConf(p) ==
  /\ At(p, "smb.conf")
  /\ files' = [files EXCEPT !.smb = [made |-> job.made, says |-> SmbConf(job.rows, job.ds)]]
  /\ job' = [job EXCEPT !.pc = "exports"]
  /\ UNCHANGED <<world, tables, people, served, call, queue, life, faults>>

WriteExports(p) ==
  /\ At(p, "exports")
  /\ files' = [files EXCEPT !.nfs = [made |-> job.made, says |-> ExportsFile(job.rows, job.ds)]]
  /\ job' = [job EXCEPT !.pc = "smbd"]
  /\ UNCHANGED <<world, tables, people, served, call, queue, life, faults>>

CommandFails == Fallible /\ faults < MaxFaults /\ faults' = faults + 1

Stopped(f) == [made |-> f.made, says |-> {}]

\* Mutant: smbd is only started, not told of the change.
TellSmbdStartOnly(p) ==
  /\ At(p, "smbd")
  /\ served' = IF served.smb.says = {} THEN [served EXCEPT !.smb = files.smb] ELSE served
  /\ job' = [job EXCEPT !.pc = "nfsd"]
  /\ UNCHANGED <<world, tables, people, files, call, queue, life, faults>>

\* With nothing to share smbd is stopped, and a failure to stop it is ignored.
TellSmbd(p) ==
  /\ At(p, "smbd")
  /\ IF AnySmb(job.rows, job.ds)
       THEN served' = [served EXCEPT !.smb = files.smb] /\ UNCHANGED faults
       ELSE \/ served' = [served EXCEPT !.smb = Stopped(files.smb)] /\ UNCHANGED faults
            \/ CommandFails /\ UNCHANGED served
  /\ job' = [job EXCEPT !.pc = "nfsd"]
  /\ UNCHANGED <<world, tables, people, files, call, queue, life>>

\* The last command; the verb is answered, the finisher starts the agent again.
TellNfs(p) ==
  /\ At(p, "nfsd")
  /\ IF AnyNfs(job.rows, job.ds)
       THEN served' = [served EXCEPT !.nfs = files.nfs] /\ UNCHANGED faults
       ELSE \/ served' = [served EXCEPT !.nfs = Stopped(files.nfs)] /\ UNCHANGED faults
            \/ CommandFails /\ UNCHANGED served
  /\ job' = NoJob
  /\ queue' = Tail(queue)
  /\ IF p \in Calls THEN Ends(p) ELSE UNCHANGED call
  /\ agent' = IF p = Finisher THEN "starting" ELSE agent
  /\ UNCHANGED <<world, tables, people, files, boot>>

\* A command of the apply fails: the caller hears of it, the rest of the apply does not happen,
\* the next in line begins.  systemctl may have brought a daemon up before the reload failed.
ApplyFails(p) ==
  /\ CommandFails
  /\ queue # <<>> /\ Head(queue) = p /\ job.pc # "none"
  /\ job.pc = "smbd" => AnySmb(job.rows, job.ds)
  /\ job.pc = "nfsd" => AnyNfs(job.rows, job.ds)
  /\ \/ UNCHANGED served
     \/ job.pc = "smbd" /\ served' = [served EXCEPT !.smb = files.smb]
     \/ job.pc = "nfsd" /\ served' = [served EXCEPT !.nfs = files.nfs]
  /\ job' = NoJob
  /\ queue' = Tail(queue)
  /\ IF p \in Calls THEN Ends(p) ELSE UNCHANGED call
  /\ agent' = IF p = Finisher THEN "starting" ELSE agent
  /\ UNCHANGED <<world, tables, people, files, boot>>
----------------------------------------------------------------------------
(* The verbs *)

Free(c) == agent = "up" /\ call[c] = Idle

\* A call at dataset d.
Writing == {"share.set", "policy.set"}
Meets(d, pcs) == \E c \in Calls : call[c].pc \in pcs /\ call[c].ds = d
Drifts(d, b) == adrift' = IF b THEN adrift \cup {d} ELSE adrift

ShareSetLook(c, d, w) ==
  /\ Free(c) /\ zfs[d] = "placed"
  /\ call' = [call EXCEPT ![c] = [pc |-> "share.set", ds |-> d, wish |-> w]]
  /\ Drifts(d, Meets(d, {"zfs destroy"}))
  /\ UNCHANGED <<zfs, policies, moves, tables, people, config, queue, job, life, faults>>

ShareSetWrite(c) ==
  /\ call[c].pc = "share.set"
  /\ LET d == call[c].ds
         r == Merged(d, call[c].wish)
     IN  IF Refused(d, call[c].wish, r)
           THEN Ends(c) /\ UNCHANGED <<tables, queue>>
           ELSE ChangeAndApply(c, IF r.smb \/ r.nfs THEN With(rows, d, r) ELSE Without(rows, d))
  /\ UNCHANGED <<world, people, config, job, life, faults>>

ShareRemove(c, d) ==
  /\ Free(c) /\ d \in DOMAIN rows
  /\ ChangeAndApply(c, Without(rows, d))
  /\ UNCHANGED <<world, people, config, job, life, faults>>

\* ours: an account that is mk-nas's own, one that is not, or none.
UserSetLook(c, u, verb) ==
  /\ Free(c) /\ accounts[u] # "foreign" /\ Move
  /\ call' = [call EXCEPT ![c] = [pc |-> verb, user |-> u, seen |-> accounts[u]]]
  /\ UNCHANGED <<zfs, policies, adrift, tables, people, config, queue, job, life, faults>>

\* useradd fails when the account is there by now, and the verb with it.
UserAdd(c) ==
  /\ call[c].pc \in {"user.set", "user.smbPassword"}
  /\ LET u == call[c].user
         clash == call[c].seen = "none" /\ accounts[u] # "none"
     IN  /\ accounts' = IF call[c].seen = "none" /\ ~clash THEN [accounts EXCEPT ![u] = "ours"] ELSE accounts
         /\ IF clash THEN Ends(c)
            ELSE call' = [call EXCEPT ![c] = [pc |-> "row", user |-> u, then |-> call[c].pc]]
  /\ UNCHANGED <<world, tables, smbUsers, passdb, config, queue, job, life, faults>>

UserRow(c) ==
  /\ call[c].pc = "row"
  /\ smbUsers' = smbUsers \cup {call[c].user}
  /\ IF call[c].then = "user.smbPassword" THEN Goto(c, "smbpasswd") ELSE Ends(c)
  /\ UNCHANGED <<world, tables, accounts, passdb, config, queue, job, life, faults>>

\* smbpasswd -a needs the Unix account; after it the row is written once more.
SmbPasswd(c) ==
  /\ call[c].pc = "smbpasswd"
  /\ LET u == call[c].user
     IN  IF accounts[u] = "none" THEN Ends(c) /\ UNCHANGED passdb
         ELSE /\ passdb' = passdb \cup {u}
              /\ call' = [call EXCEPT ![c] = [pc |-> "row", user |-> u, then |-> "answer"]]
  /\ UNCHANGED <<world, tables, accounts, smbUsers, config, queue, job, life, faults>>

\* Mutant: an account is mk-nas's own when the table has it.
UserRemoveLookInTable(c, u) ==
  /\ Free(c) /\ Move
  /\ call' = [call EXCEPT ![c] = [pc |-> "smbpasswd -x", user |-> u,
                                  seen |-> IF u \in smbUsers THEN "ours" ELSE accounts[u]]]
  /\ UNCHANGED <<zfs, policies, adrift, tables, people, config, queue, job, life, faults>>

UserRemoveLook(c, u) ==
  /\ Free(c) /\ Move
  /\ accounts[u] = "foreign" => u \in smbUsers
  /\ call' = [call EXCEPT ![c] = [pc |-> "smbpasswd -x", user |-> u, seen |-> accounts[u]]]
  /\ UNCHANGED <<zfs, policies, adrift, tables, people, config, queue, job, life, faults>>

DropPassword(c) ==
  /\ call[c].pc = "smbpasswd -x"
  /\ passdb' = passdb \ {call[c].user}
  /\ Goto(c, "userdel")
  /\ UNCHANGED <<world, tables, accounts, smbUsers, config, queue, job, life, faults>>

\* dropSmbUserFromShares
Dropped(u) == [d \in DOMAIN rows |-> IF rows[d].listed THEN [rows[d] EXCEPT !.who = @ \ {u}] ELSE rows[d]]

\* userdel fails when the account is gone by now, and the verb with it.
UserDel(c) ==
  /\ call[c].pc = "userdel"
  /\ LET u == call[c].user
     IN  /\ accounts' = IF call[c].seen = "ours" THEN [accounts EXCEPT ![u] = "none"] ELSE accounts
         /\ IF call[c].seen = "ours" /\ accounts[u] = "none" THEN Ends(c) ELSE Goto(c, "forget")
  /\ UNCHANGED <<world, tables, smbUsers, passdb, config, queue, job, life, faults>>

\* The row and the lists in one turn; only a list that changed is applied.
UserForget(c) ==
  /\ call[c].pc = "forget"
  /\ LET u == call[c].user
     IN  /\ smbUsers' = smbUsers \ {u}
         /\ IF Dropped(u) # rows THEN ChangeAndApply(c, Dropped(u))
            ELSE Ends(c) /\ UNCHANGED <<tables, queue>>
  /\ UNCHANGED <<world, accounts, passdb, config, job, life, faults>>
----------------------------------------------------------------------------
(* Datasets *)

\* A new dataset, and a new start for the property unless a call is still at the old one.
DatasetCreate(d) ==
  /\ agent = "up" /\ zfs[d] = "absent" /\ Move
  /\ zfs' = [zfs EXCEPT ![d] = "placed"]
  /\ adrift' = IF Meets(d, Writing \cup {"zfs destroy"}) THEN adrift ELSE adrift \ {d}
  /\ UNCHANGED <<policies, tables, people, config, call, queue, job, life, faults>>

\* Mutant: a share is no reason to stop.
DatasetDestroyLookShared(c, d) ==
  /\ Free(c) /\ zfs[d] # "absent" /\ Move
  /\ call' = [call EXCEPT ![c] = [pc |-> "zfs destroy", ds |-> d]]
  /\ Drifts(d, Meets(d, Writing))
  /\ UNCHANGED <<zfs, policies, tables, people, config, queue, job, life, faults>>

\* Every reason to stop is looked for first; the snapshots are listed and destroyed after that.
DatasetDestroyLook(c, d) ==
  /\ Free(c) /\ zfs[d] # "absent" /\ d \notin DOMAIN rows /\ Move
  /\ call' = [call EXCEPT ![c] = [pc |-> "zfs destroy", ds |-> d]]
  /\ Drifts(d, Meets(d, Writing))
  /\ UNCHANGED <<zfs, policies, tables, people, config, queue, job, life, faults>>

DatasetDestroy(c) ==
  /\ call[c].pc = "zfs destroy" /\ zfs[call[c].ds] # "absent"
  /\ zfs' = [zfs EXCEPT ![call[c].ds] = "absent"]
  /\ call' = [call EXCEPT ![c] = [pc |-> "policy row", ds |-> call[c].ds]]
  /\ UNCHANGED <<policies, adrift, moves, tables, people, config, queue, job, life, faults>>

\* zfs fails, or is killed at its time limit with the dataset gone or not: the policy stays.
DatasetDestroyFails(c) ==
  /\ call[c].pc = "zfs destroy"
  /\ \/ zfs[call[c].ds] = "absent" /\ UNCHANGED <<zfs, adrift, faults>>
     \/ CommandFails /\ UNCHANGED <<zfs, adrift>>
     \/ /\ CommandFails /\ zfs[call[c].ds] # "absent"
        /\ zfs' = [zfs EXCEPT ![call[c].ds] = "absent"]
        /\ adrift' = adrift \cup {call[c].ds}
  /\ Ends(c)
  /\ UNCHANGED <<policies, moves, tables, people, config, queue, job, life>>

DropPolicy(c) ==
  /\ call[c].pc = "policy row"
  /\ policies' = policies \ {call[c].ds}
  /\ Ends(c)
  /\ UNCHANGED <<zfs, adrift, moves, tables, people, config, queue, job, life, faults>>

PolicySetLook(c, d) ==
  /\ Free(c) /\ zfs[d] # "absent" /\ Move
  /\ call' = [call EXCEPT ![c] = [pc |-> "policy.set", ds |-> d]]
  /\ Drifts(d, Meets(d, {"zfs destroy"}))
  /\ UNCHANGED <<zfs, policies, tables, people, config, queue, job, life, faults>>

PolicySetWrite(c) ==
  /\ call[c].pc = "policy.set"
  /\ policies' \in {policies \cup {call[c].ds}, policies \ {call[c].ds}}
  /\ Ends(c)
  /\ UNCHANGED <<zfs, adrift, moves, tables, people, config, queue, job, life, faults>>

\* Somebody sets the mountpoint to none or legacy, or back to a path.
SetMountpoint(d) ==
  /\ zfs[d] # "absent" /\ Move
  /\ zfs' = [zfs EXCEPT ![d] = IF @ = "placed" THEN "unplaced" ELSE "placed"]
  /\ UNCHANGED <<policies, adrift, tables, people, config, call, queue, job, life, faults>>
----------------------------------------------------------------------------
(* The agent's end and start, and the restore that stops it *)

Dies == /\ call' = [c \in Calls |-> Idle]
        /\ job' = NoJob
        /\ boot' = NoJob

Crash == /\ agent = "up" /\ faults < MaxFaults
         /\ faults' = faults + 1
         /\ agent' = "starting"
         /\ queue' = <<>>
         /\ Dies
         /\ adrift' = adrift \cup {d \in Datasets : zfs[d] = "absent" /\ Meets(d, {"policy row"})}
         /\ UNCHANGED <<zfs, policies, moves, tables, people, config>>

\* index.ts listens and then calls reapply, which lists the table.
Start == /\ agent = "starting"
         /\ agent' = "up"
         /\ boot' = [pc |-> "reapply", made |-> made, rows |-> [d \in Listed(rows) |-> rows[d]], ds |-> {}]
         /\ UNCHANGED <<world, tables, people, config, call, queue, job, faults>>

\* Mutant: smb.conf is written at once from the list that was read, not in line.
ReapplyAtOnce ==
  /\ boot.pc = "reapply"
  /\ files' = [files EXCEPT !.smb = [made |-> boot.made, says |-> SmbConf(boot.rows, DOMAIN boot.rows)]]
  /\ boot' = NoJob
  /\ UNCHANGED <<world, tables, people, served, call, queue, job, agent, faults>>

\* Nothing happens without shares, while one has no mountpoint, or when both files are right.
Reapply ==
  /\ boot.pc = "reapply"
  /\ LET ds == DOMAIN boot.rows
         right == /\ files.smb.says = SmbConf(boot.rows, ds)
                  /\ files.nfs.says = ExportsFile(boot.rows, ds)
     IN  queue' = IF ds = {} \/ ~(ds \subseteq Placed) \/ right THEN queue ELSE Append(queue, Boot)
  /\ boot' = NoJob
  /\ UNCHANGED <<world, tables, people, config, call, job, agent, faults>>

\* restore-finish.ts stops the agent, puts the restored database in place, and applies it.  Its rows
\* may be of datasets that are no longer there.  (Samba's passwords come back too: module Backup.)
RestoreSwaps ==
  /\ agent = "up" /\ made < MaxChanges /\ made + moves < MaxActs
  /\ \E t \in Tables :
       /\ rows' = t.shares /\ policies' = t.policies /\ smbUsers' = t.users
       /\ adrift' = adrift \cup {d \in DOMAIN t.shares \cup t.policies : zfs[d] = "absent"}
  /\ made' = made + 1
  /\ agent' = "stopped"
  /\ queue' = <<Finisher>>
  /\ Dies
  /\ UNCHANGED <<zfs, moves, accounts, passdb, config, faults>>

\* smbd looks at its file from time to time by itself.
SmbdRereads ==
  /\ served.smb.says # {} /\ served.smb # files.smb
  /\ served' = [served EXCEPT !.smb = files.smb]
  /\ UNCHANGED <<world, tables, people, files, call, queue, job, life, faults>>

ApplyStep(p) == \/ ListRows(p) \/ ReadMounts(p) \/ WriteSmbConf(p) \/ WriteExports(p)
                \/ TellSmbd(p) \/ TellNfs(p) \/ ApplyFails(p)

VerbStep(c) ==
  \/ \E d \in Datasets : \/ \E w \in Wishes : ShareSetLook(c, d, w)
                         \/ ShareRemove(c, d) \/ DatasetDestroyLook(c, d) \/ PolicySetLook(c, d)
  \/ \E u \in Users : \/ \E verb \in {"user.set", "user.smbPassword"} : UserSetLook(c, u, verb)
                      \/ UserRemoveLook(c, u)
  \/ ShareSetWrite(c) \/ UserAdd(c) \/ UserRow(c) \/ SmbPasswd(c)
  \/ DropPassword(c) \/ UserDel(c) \/ UserForget(c)
  \/ DatasetDestroy(c) \/ DatasetDestroyFails(c) \/ DropPolicy(c) \/ PolicySetWrite(c)

Next == \/ \E p \in Appliers : ApplyStep(p)
        \/ \E c \in Calls : VerbStep(c)
        \/ \E d \in Datasets : DatasetCreate(d) \/ SetMountpoint(d)
        \/ Crash \/ Start \/ Reapply \/ RestoreSwaps \/ SmbdRereads

Spec == Init /\ [][Next]_vars
----------------------------------------------------------------------------
(* Properties *)

Quiet == agent = "up" /\ boot = NoJob /\ queue = <<>> /\ \A c \in Calls : call[c] = Idle

\* Whatever a restored database holds and however verbs interleave, smb.conf and what smbd runs
\* have one section per name, none under a name Samba keeps, none that everybody may open; the
\* exports name somebody, and nobody nfsClient refuses (listShares, smbConf, exportsFile).
ConfIsSafe ==
  /\ \A smb \in {files.smb.says, served.smb.says} : \A s \in smb :
       /\ NameOf[s.dataset] \notin ReservedNames
       /\ s.listed => s.who # {}
       /\ \A o \in smb : NameOf[o.dataset] = NameOf[s.dataset] => o = s
  /\ \A nfs \in {files.nfs.says, served.nfs.says} : \A s \in nfs :
       s.clients # {} /\ s.clients \cap BadClients = {}

\* The older list never lands last: through the chain of applies, crashes, failed commands and
\* the finisher of a restore, each file only ever moves to a later state of the table (applying).
Shown == INSTANCE Published WITH Files <- {"smb", "nfs"}, made <- made,
                                 shown <- [f \in {"smb", "nfs"} |-> files[f].made]
NeverOlder == Shown!Spec

\* A verb that changed the table is answered only when both files show that change or a later
\* one, and so does each daemon that has anything to serve (apply, awaited by setShare,
\* removeShare and removeUser).
AckedIsServed ==
  [][\A c \in Calls : TellNfs(c) =>
       \A f \in {"smb", "nfs"} :
         /\ files'[f].made >= call[c].made
         /\ files'[f].says # {} => served'[f].made >= call[c].made]_vars

\* A dataset that is not there has no share and no policy, unless its destroy met a share.set or
\* policy.set of it, failed or died between the dataset and the policy row, or a restored database
\* brought the row (adrift), and until its destroy gets to the policy row (destroyDataset, setShare).
RowsHaveDatasets ==
  \A d \in Datasets : zfs[d] = "absent" /\ d \notin adrift =>
    d \notin DOMAIN rows /\ (d \in policies => Meets(d, {"policy row"}))

\* An account mk-nas did not make is neither deleted nor given a Samba password, also when an
\* older agent put it in the table (ours, setUser, removeUser).
ForeignIsSafe ==
  [][\A u \in Users : accounts[u] = "foreign" =>
       accounts'[u] = "foreign" /\ (u \in passdb' => u \in passdb)]_vars

\* "What the daemons run is always exactly what the database says" (shares.ts): with every
\* dataset placed and nothing in flight, the files say what the table says.
FilesAreStored ==
  Quiet /\ Datasets = Placed =>
    /\ files.smb.says = SmbConf(rows, Listed(rows))
    /\ files.nfs.says = ExportsFile(rows, Listed(rows))
============================================================================
