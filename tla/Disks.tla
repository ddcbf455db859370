-------------------------------- MODULE Disks --------------------------------
(***************************************************************************)
(* Who may take a disk: disk.wipe, pool.create, disk.replace and           *)
(* pool.import (write.ts), over the disks as lsblk and ZFS describe them   *)
(* (disks.ts).  Every verb looks first and acts some commands later, other *)
(* verbs run in between, lsblk answers from what udev noticed last, and    *)
(* any command may fail or be the last one before the agent dies.          *)
(*                                                                         *)
(* A disk has two places that can carry something: the device itself and,  *)
(* while a partition table lies on it, its partition.                      *)
(***************************************************************************)
EXTENDS FiniteSets, Naturals

CONSTANTS Disks, OsDisk, \* the disks, and the one the system runs from
          Pools,         \* pool names
          Carried,       \* what a disk other than OsDisk may carry when it is put in
          Reqs,          \* requests that can be under way at once
          SlowResilver   \* a resilver outlasts every wipe that began before it, and udev's delay

Places == {"disk", "part"}
Labels == Pools \cup {"old"}  \* "old": the label a disk replaced out keeps
Things == Labels \cup {"blank", "table", "fs"}
Nothing == "nothing"

ASSUME DisksAssumption ==
  /\ OsDisk \in Disks /\ SlowResilver \in BOOLEAN
  /\ Pools \cap {"old", "blank", "table", "fs", Nothing} = {} /\ Nothing \notin Disks
  /\ Carried \subseteq [Places -> Things]

VARIABLES content, \* what is on each disk
          seen,    \* what lsblk says is
          pool,    \* each imported pool's leaves; {}: not imported
          leaving, \* the disk a pool is replacing
          req

vars == <<content, seen, pool, leaving, req>>
zfs  == <<pool, leaving>>

On(x, y) == [p \in Places |-> IF p = "disk" THEN x ELSE y]
Idle == [op |-> "idle", at |-> "", disk |-> OsDisk, pool |-> Nothing, old |-> Nothing, todo |-> {}, ids |-> {}]

Init == /\ content \in {c \in [Disks -> Carried \cup {On("table", "fs")}] : c[OsDisk] = On("table", "fs")}
        /\ seen = content
        /\ pool = [p \in Pools |-> {}] /\ leaving = [p \in Pools |-> Nothing]
        /\ req = [r \in Reqs |-> Idle]
----------------------------------------------------------------------------
(* What a disk is used for *)

\* The device, and its partitions when there are any.
Shown(c) == IF c["disk"] = "table" THEN Places ELSE {"disk"}

poolMembers == UNION {pool[p] : p \in Pools}

\* By the leaves ZFS names, never by the name on the label.
useOf(d, members) ==
  CASE \E p \in Shown(seen[d]) : seen[d][p] \in Labels ->
         IF \E p \in Shown(seen[d]) : <<d, p>> \in members THEN "pool" ELSE "foreign"
    [] d = OsDisk -> "os"
    [] \E p \in Shown(seen[d]) : seen[d][p] = "fs" -> "other"
    [] OTHER -> "free"

\* A zpool list that fails names no member at all.
listDisks == {[d \in Disks |-> useOf(d, members)] : members \in {poolMembers, {}}}

freeDisk(d, allow) == \E uses \in listDisks : uses[d] \in allow

\* The kernel gives a mounted disk, or one ZFS holds, to nobody else.
Held(d) == d = OsDisk \/ \E p \in Places : <<d, p>> \in poolMembers

\* zpool create and zpool replace, without -f, look at the disk themselves.
Takes(d) == ~Held(d) /\ \A p \in Shown(content[d]) : content[d][p] \in {"blank", "table"}
----------------------------------------------------------------------------
(* disk.wipe *)

At(r, op, at) == req[r].op = op /\ req[r].at = at
Goes(r, at)   == req' = [req EXCEPT ![r].at = at]
Ends(r)       == req' = [req EXCEPT ![r] = Idle]

WipeCheck(r, d) ==
  /\ req[r] = Idle
  /\ freeDisk(d, {"free", "other", "foreign"})
  /\ req' = [req EXCEPT ![r] = [Idle EXCEPT !.op = "wipe", !.at = "layout", !.disk = d]]
  /\ UNCHANGED <<content, seen, zfs>>

\* The labels of the device alone.
WipeLayoutWhole(r) ==
  LET c == seen[req[r].disk] IN
  /\ At(r, "wipe", "layout")
  /\ req' = [req EXCEPT ![r].at = "clear", ![r].ids = {"disk"}, ![r].todo = {p \in {"disk"} : c[p] \in Labels}]
  /\ UNCHANGED <<content, seen, zfs>>

\* ids: the places lsblk shows now; todo: those whose label has to go first.
WipeLayout(r) ==
  LET c == seen[req[r].disk] IN
  /\ At(r, "wipe", "layout")
  /\ req' = [req EXCEPT ![r].at = "clear", ![r].ids = Shown(c), ![r].todo = {p \in Shown(c) : c[p] \in Labels}]
  /\ UNCHANGED <<content, seen, zfs>>

\* zpool labelclear -f: refuses a leaf of an imported pool, and a place without a label.
WipeClear(r) ==
  LET d == req[r].disk
      p == IF "disk" \in req[r].todo THEN "disk" ELSE "part" IN
  /\ At(r, "wipe", "clear") /\ req[r].todo # {}
  /\ p \in Shown(content[d]) /\ content[d][p] \in Labels /\ <<d, p>> \notin poolMembers
  /\ content' = [content EXCEPT ![d][p] = "blank"]
  /\ req' = [req EXCEPT ![r].todo = @ \ {p}]
  /\ UNCHANGED <<seen, zfs>>

\* wipefs -a of the partition: gone, or held, it fails.
WipePart(r) ==
  LET d == req[r].disk IN
  /\ At(r, "wipe", "clear") /\ req[r].todo = {} /\ "part" \in req[r].ids
  /\ "part" \in Shown(content[d]) /\ ~Held(d)
  /\ content' = [content EXCEPT ![d]["part"] = "blank"]
  /\ Goes(r, "last")
  /\ UNCHANGED <<seen, zfs>>

\* wipefs -a -f, which asks nobody.
WipeDiskForced(r) ==
  LET d == req[r].disk IN
  /\ At(r, "wipe", "last") \/ (At(r, "wipe", "clear") /\ req[r].todo = {} /\ "part" \notin req[r].ids)
  /\ content' = [content EXCEPT ![d]["disk"] = "blank"]
  /\ Goes(r, "settle")
  /\ UNCHANGED <<seen, zfs>>

\* wipefs -a of the device: what the partition holds is still there, where nothing shows it.
WipeDisk(r) ==
  LET d == req[r].disk IN
  /\ At(r, "wipe", "last") \/ (At(r, "wipe", "clear") /\ req[r].todo = {} /\ "part" \notin req[r].ids)
  /\ ~Held(d)
  /\ content' = [content EXCEPT ![d]["disk"] = "blank"]
  /\ Goes(r, "settle")
  /\ UNCHANGED <<seen, zfs>>

\* The last look only decides what is answered.
WipeEnd(r) == At(r, "wipe", "settle") /\ Ends(r) /\ UNCHANGED <<content, seen, zfs>>

----------------------------------------------------------------------------
(* pool.create, disk.replace, pool.import *)

\* How many disks each layout takes at least; single takes exactly one.
Layouts == [single |-> 1, mirror |-> 2, raidz1 |-> 3, raidz2 |-> 4]
Fits(l, ids) == Cardinality(ids) >= Layouts[l] /\ (l = "single" => Cardinality(ids) = 1)

CreateBegin(r, p, ids) ==
  /\ req[r] = Idle
  /\ \E l \in DOMAIN Layouts : Fits(l, ids)
  /\ req' = [req EXCEPT ![r] = [Idle EXCEPT !.op = "create", !.at = "check", !.pool = p, !.todo = ids, !.ids = ids]]
  /\ UNCHANGED <<content, seen, zfs>>

CreateCheck(r) ==
  /\ At(r, "create", "check")
  /\ \E d \in req[r].todo : freeDisk(d, {"free"}) /\ req' = [req EXCEPT ![r].todo = @ \ {d}]
  /\ UNCHANGED <<content, seen, zfs>>

\* A disk of a pool made here has a table and the label in its partition.
Labelled(ids, p) == [d \in Disks |-> IF d \in ids THEN On("table", p) ELSE content[d]]

CreateRun(r) ==
  LET p == req[r].pool IN
  /\ At(r, "create", "check") /\ req[r].todo = {}
  /\ pool[p] = {} /\ \A d \in req[r].ids : Takes(d)
  /\ content' = Labelled(req[r].ids, p)
  /\ pool' = [pool EXCEPT ![p] = req[r].ids \X {"part"}]
  /\ Ends(r)
  /\ UNCHANGED <<seen, leaving>>

ReplaceCheck(r, p, old, d) ==
  /\ req[r] = Idle /\ freeDisk(d, {"free"})
  /\ req' = [req EXCEPT ![r] = [Idle EXCEPT !.op = "replace", !.at = "run", !.disk = d, !.pool = p, !.old = old]]
  /\ UNCHANGED <<content, seen, zfs>>

ReplaceRun(r) ==
  LET p == req[r].pool d == req[r].disk IN
  /\ At(r, "replace", "run")
  /\ \E pl \in Places : <<req[r].old, pl>> \in pool[p]
  /\ leaving[p] = Nothing /\ Takes(d)
  /\ content' = Labelled({d}, p)
  /\ pool' = [pool EXCEPT ![p] = @ \cup {<<d, "part">>}]
  /\ leaving' = [leaving EXCEPT ![p] = req[r].old]
  /\ Ends(r)
  /\ UNCHANGED seen

\* The new disk is complete: the old one is no member any more and keeps its label.
Resilvered(p) ==
  LET old == leaving[p]
      Marked(c) == [pl \in Places |-> IF <<old, pl>> \in pool[p] THEN "old" ELSE c[pl]] IN
  /\ old # Nothing
  /\ SlowResilver => seen = content /\ \A r \in Reqs : req[r].op # "wipe"
  /\ content' = [content EXCEPT ![old] = Marked(@)]
  /\ seen' = [seen EXCEPT ![old] = IF @ = content[old] THEN Marked(@) ELSE @]
  /\ pool' = [pool EXCEPT ![p] = {m \in @ : m[1] # old}]
  /\ leaving' = [leaving EXCEPT ![p] = Nothing]
  /\ UNCHANGED req

ImportCheck(r, p) ==
  /\ req[r] = Idle /\ pool[p] = {}
  /\ req' = [req EXCEPT ![r] = [Idle EXCEPT !.op = "import", !.at = "run", !.pool = p]]
  /\ UNCHANGED <<content, seen, zfs>>

\* What zpool import finds: the labels on the disks, whatever udev has noticed.
Importable(p) == {m \in Disks \X Places : m[2] \in Shown(content[m[1]]) /\ content[m[1]][m[2]] = p}

ImportRun(r) ==
  LET p == req[r].pool IN
  /\ At(r, "import", "run")
  /\ pool[p] = {} /\ Importable(p) # {}
  /\ pool' = [pool EXCEPT ![p] = Importable(p)]
  /\ Ends(r)
  /\ UNCHANGED <<content, seen, leaving>>

----------------------------------------------------------------------------
(* A command refuses, fails or times out, a check says no, the agent dies. *)
Fails(r) == req[r] # Idle /\ Ends(r) /\ UNCHANGED <<content, seen, zfs>>

Udev(d) ==
  /\ seen[d] # content[d]
  /\ seen' = [seen EXCEPT ![d] = content[d]]
  /\ UNCHANGED <<content, zfs, req>>

Wipe(r)    == (\E d \in Disks : WipeCheck(r, d)) \/ WipeLayout(r) \/ WipeClear(r) \/ WipePart(r) \/ WipeDisk(r) \/ WipeEnd(r)
Create(r)  == (\E p \in Pools, ids \in SUBSET Disks : CreateBegin(r, p, ids)) \/ CreateCheck(r) \/ CreateRun(r)
Replace(r) == (\E p \in Pools, old, d \in Disks : ReplaceCheck(r, p, old, d)) \/ ReplaceRun(r)
Import(r)  == (\E p \in Pools : ImportCheck(r, p)) \/ ImportRun(r)

Next == \/ \E r \in Reqs : Wipe(r) \/ Create(r) \/ Replace(r) \/ Import(r) \/ Fails(r)
        \/ \E p \in Pools : Resilvered(p)
        \/ \E d \in Disks : Udev(d)

Spec == Init /\ [][Next]_vars
----------------------------------------------------------------------------
\* Whatever runs at once and however old a look is when it is used, no leaf of an imported pool loses its label and the
\* system's disk stays as it is (freeDisk, wipeDisk, createPool, replaceDisk; and what the tools refuse by themselves).
MembersKept ==
  /\ \A p \in Pools : \A m \in pool[p] : m[2] \in Shown(content[m[1]]) /\ content[m[1]][m[2]] = p
  /\ content[OsDisk] = On("table", "fs")

\* No wipe, finished or cut short, leaves a pool's label where lsblk cannot show it and zpool import could find it again:
\* the labels and the partitions go before the table does (wipeDisk).
NoHiddenLabel == \A d \in Disks : content[d]["part"] \in Labels => "part" \in Shown(content[d])
=============================================================================
