----------------------------- MODULE DisksProofs -----------------------------
(***************************************************************************)
(* MembersKept of Disks for any number of disks, pools and requests, and   *)
(* whether or not a resilver is slow; and NoHiddenLabel, if it is.         *)
(***************************************************************************)
EXTENDS Disks, TLAPS

MediaOK == /\ content \in [Disks -> [Places -> Things]] /\ seen \in [Disks -> [Places -> Things]]
           /\ pool \in [Pools -> SUBSET (Disks \X Places)] /\ leaving \in [Pools -> Disks \cup {Nothing}]

Requests == [op : {"idle", "wipe", "create", "replace", "import"}, at : {"", "layout", "clear", "last", "settle", "check", "run"}, disk : Disks,
             pool : Pools \cup {Nothing}, old : Disks \cup {Nothing},
             todo : SUBSET (Disks \cup Places), ids : SUBSET (Disks \cup Places)]

TypeOK == MediaOK /\ req \in [Reqs -> Requests]

\* What a request that is about to change a pool was given.
Given(q) == /\ q.op = "create" => q.ids \subseteq Disks
            /\ q.op \in {"create", "replace", "import"} => q.pool \in Pools

GivenOK == \A r \in Reqs : Given(req[r])

IInv == TypeOK /\ GivenOK /\ MembersKept

\* A partition is shown exactly while there is a table, and neither a table nor an empty place is a label.
LEMMA ShownFacts ==
  /\ \A x, y : Shown(On(x, y)) = IF x = "table" THEN Places ELSE {"disk"}
  /\ \A x, y : On(x, y)["disk"] = x /\ On(x, y)["part"] = y
  /\ \A p \in Pools : p \notin {"old", "blank", "table", "fs"}
BY DisksAssumption DEF Shown, On, Places

\* Steps that leave contents and pools alone keep what MembersKept says.
LEMMA Untouched == ASSUME MembersKept, UNCHANGED <<content, pool>> PROVE MembersKept'
BY DEF MembersKept, Shown

\* A leaf of some pool is among the members, and its disk is held.
LEMMA LeafHeld == ASSUME NEW q \in Pools, NEW m \in pool[q], m = <<m[1], m[2]>>, m[2] \in Places
                  PROVE  <<m[1], m[2]>> \in poolMembers /\ Held(m[1])
<1>1. m \in poolMembers
  BY DEF poolMembers
<1> QED BY <1>1 DEF Held

\* The wipe's three writes touch no leaf of a pool: labelclear refuses one, wipefs refuses a disk that is held.
LEMMA WipeKeeps == ASSUME IInv, NEW r \in Reqs, WipeClear(r) \/ WipePart(r) \/ WipeDisk(r) PROVE MembersKept'
<1> DEFINE d == req[r].disk
<1> USE DEF IInv, TypeOK, MediaOK
<1>1. d \in Disks
  BY DEF Requests
<1>2. ASSUME NEW pl \in Places, content' = [content EXCEPT ![d][pl] = "blank"], UNCHANGED pool, d # OsDisk,
             \A q \in Pools : \A m \in pool[q] : m[1] = d => m[2] # pl /\ pl # "disk"
      PROVE  MembersKept'
  <2>1. ASSUME NEW q \in Pools, NEW m \in pool[q]
        PROVE  m[2] \in Shown(content'[m[1]]) /\ content'[m[1]][m[2]] = q
    <3>1. m \in Disks \X Places /\ m[2] \in Shown(content[m[1]]) /\ content[m[1]][m[2]] = q
      BY DEF MembersKept
    <3>2. CASE m[1] # d
      BY <1>1, <1>2, <3>1, <3>2
    <3>3. CASE m[1] = d
      <4>1. m[2] # pl /\ pl = "part"
        BY <1>2, <3>3 DEF Places
      <4>2. content'[d] = [content[d] EXCEPT !["part"] = "blank"]
        BY <1>1, <1>2, <4>1
      <4>3. content'[d]["disk"] = content[d]["disk"] /\ m[2] = "disk"
        BY <1>1, <3>1, <4>1, <4>2 DEF Places
      <4> QED BY <3>1, <3>3, <4>3 DEF Shown, Places
    <3> QED BY <3>2, <3>3
  <2>2. content'[OsDisk] = content[OsDisk]
    BY <1>1, <1>2, DisksAssumption
  <2> QED BY <1>2, <2>1, <2>2 DEF MembersKept
<1>3. CASE WipeClear(r)
  <2> DEFINE pl == IF "disk" \in req[r].todo THEN "disk" ELSE "part"
  <2>1. /\ pl \in Places /\ pl \in Shown(content[d]) /\ content[d][pl] \in Labels /\ <<d, pl>> \notin poolMembers
        /\ content' = [content EXCEPT ![d][pl] = "blank"] /\ UNCHANGED pool
    BY <1>3 DEF WipeClear, zfs, Places
  <2>2. d # OsDisk
    BY <2>1, DisksAssumption DEF MembersKept, On, Places, Labels, Shown
  <2>3. ASSUME NEW q \in Pools, NEW m \in pool[q], m[1] = d PROVE m[2] # pl /\ pl # "disk"
    <3>1. m = <<m[1], m[2]>> /\ m[2] \in Places /\ m[2] \in Shown(content[d])
      BY <2>3 DEF MembersKept
    <3>2. m[2] # pl
      BY <2>1, <2>3, <3>1, LeafHeld
    <3>3. content[d]["disk"] \in Labels => Shown(content[d]) = {"disk"}
      BY DisksAssumption DEF Shown, Labels
    <3> QED BY <2>1, <3>1, <3>2, <3>3 DEF Places
  <2> QED BY <1>2, <2>1, <2>2, <2>3
<1>4. CASE WipePart(r) \/ WipeDisk(r)
  <2>1. ~Held(d) /\ UNCHANGED pool
    BY <1>4 DEF WipePart, WipeDisk, zfs
  <2>2. PICK pl \in Places : content' = [content EXCEPT ![d][pl] = "blank"]
    BY <1>4 DEF WipePart, WipeDisk, Places
  <2>3. ASSUME NEW q \in Pools, NEW m \in pool[q], m[1] = d PROVE FALSE
    <3>1. m = <<m[1], m[2]>> /\ m[2] \in Places
      BY <2>3
    <3> QED BY <2>1, <2>3, <3>1, LeafHeld
  <2>4. d # OsDisk
    BY <2>1 DEF Held
  <2> QED BY <1>2, <2>1, <2>2, <2>3, <2>4
<1> QED BY <1>3, <1>4

\* Disks that are given a pool's label belonged to none before.
LEMMA LabelKeeps ==
  ASSUME IInv, NEW ids \in SUBSET Disks, NEW p \in Pools, \A d \in ids : Takes(d), content' = Labelled(ids, p),
         pool' = [pool EXCEPT ![p] = pool'[p]],
         pool'[p] = pool[p] \cup (ids \X {"part"})
  PROVE  MembersKept'
<1> USE DEF IInv, TypeOK, MediaOK
<1>1. ASSUME NEW q \in Pools, NEW m \in pool'[q]
      PROVE  m[2] \in Shown(content'[m[1]]) /\ content'[m[1]][m[2]] = q
  <2>1. CASE m \in pool[q]
    <3>1. m = <<m[1], m[2]>> /\ m[1] \in Disks /\ m[2] \in Places
      BY <2>1
    <3>2. m[1] \notin ids
      BY <2>1, <3>1, LeafHeld DEF Takes
    <3>3. content'[m[1]] = content[m[1]]
      BY <3>1, <3>2 DEF Labelled
    <3> QED BY <2>1, <3>3 DEF MembersKept
  <2>2. CASE m \notin pool[q]
    <3>1. q = p /\ m[1] \in ids /\ m[2] = "part"
      BY <1>1, <2>2
    <3>2. content'[m[1]] = On("table", p)
      BY <3>1 DEF Labelled
    <3> QED BY <3>1, <3>2, ShownFacts DEF Places
  <2> QED BY <2>1, <2>2
<1>2. content'[OsDisk] = content[OsDisk]
  BY DisksAssumption DEF Labelled, Takes, Held
<1> QED BY <1>1, <1>2 DEF MembersKept

\* The steps that change a pool: create, replace, import, and the end of a resilver.
LEMMA PoolsKeep ==
  ASSUME IInv, \/ \E r \in Reqs : CreateRun(r) \/ ReplaceRun(r) \/ ImportRun(r)
               \/ \E p \in Pools : Resilvered(p)
  PROVE  MembersKept'
<1> USE DEF IInv, TypeOK, MediaOK
<1>1. ASSUME NEW r \in Reqs, CreateRun(r) PROVE MembersKept'
  <2>1. req[r].pool \in Pools /\ req[r].ids \in SUBSET Disks
    BY <1>1 DEF CreateRun, At, GivenOK, Given
  <2>2. /\ \A d \in req[r].ids : Takes(d)
        /\ content' = Labelled(req[r].ids, req[r].pool)
        /\ pool' = [pool EXCEPT ![req[r].pool] = pool'[req[r].pool]]
        /\ pool'[req[r].pool] = pool[req[r].pool] \cup (req[r].ids \X {"part"})
    BY <1>1, <2>1 DEF CreateRun
  <2> QED BY <2>1, <2>2, LabelKeeps
<1>2. ASSUME NEW r \in Reqs, ReplaceRun(r) PROVE MembersKept'
  <2>1. req[r].pool \in Pools /\ {req[r].disk} \in SUBSET Disks
    BY <1>2 DEF ReplaceRun, At, GivenOK, Given, Requests
  <2>2. /\ \A d \in {req[r].disk} : Takes(d)
        /\ content' = Labelled({req[r].disk}, req[r].pool)
        /\ pool' = [pool EXCEPT ![req[r].pool] = pool'[req[r].pool]]
        /\ pool'[req[r].pool] = pool[req[r].pool] \cup ({req[r].disk} \X {"part"})
    <3>1. {req[r].disk} \X {"part"} = {<<req[r].disk, "part">>}
      OBVIOUS
    <3> QED BY <1>2, <2>1, <3>1 DEF ReplaceRun
  <2> QED BY <2>1, <2>2, LabelKeeps
<1>3. ASSUME NEW r \in Reqs, ImportRun(r) PROVE MembersKept'
  <2>1. req[r].pool \in Pools /\ UNCHANGED content /\ pool' = [pool EXCEPT ![req[r].pool] = Importable(req[r].pool)]
    BY <1>3 DEF ImportRun, At, GivenOK, Given
  <2> QED BY <2>1 DEF MembersKept, Importable
<1>4. ASSUME NEW p \in Pools, Resilvered(p) PROVE MembersKept'
  <2> DEFINE old == leaving[p]
             c == [pl \in Places |-> IF <<old, pl>> \in pool[p] THEN "old" ELSE content[old][pl]]
  <2>1. /\ old \in Disks /\ content' = [content EXCEPT ![old] = c]
        /\ pool' = [pool EXCEPT ![p] = {m \in @ : m[1] # old}]
    BY <1>4 DEF Resilvered
  <2>2. ASSUME NEW q \in Pools, NEW m \in pool'[q]
        PROVE  m[2] \in Shown(content'[m[1]]) /\ content'[m[1]][m[2]] = q
    <3>1. m \in pool[q] /\ m = <<m[1], m[2]>> /\ m[1] \in Disks /\ m[2] \in Places
      BY <2>1, <2>2
    <3>2. m[2] \in Shown(content[m[1]]) /\ content[m[1]][m[2]] = q
      BY <3>1 DEF MembersKept
    <3>3. CASE m[1] # old
      BY <2>1, <3>1, <3>2, <3>3
    <3>4. CASE m[1] = old
      <4>1. q # p
        BY <2>1, <2>2, <3>4
      <4>2. m \notin pool[p]
        BY <3>2, <4>1 DEF MembersKept
      <4>3. c[m[2]] = q
        BY <3>1, <3>2, <3>4, <4>2
      <4>4. m[2] = "part" => <<old, "disk">> \notin pool[p] /\ content[old]["disk"] = "table"
        BY <3>2, <3>4, DisksAssumption DEF MembersKept, Shown
      <4>5. m[2] \in Shown(c)
        BY <3>1, <4>4 DEF Shown, Places
      <4> QED BY <2>1, <3>4, <4>3, <4>5
    <3> QED BY <3>3, <3>4
  <2>3. content'[OsDisk] = content[OsDisk]
    <3>1. CASE old # OsDisk
      BY <2>1, <3>1
    <3>2. CASE old = OsDisk
      <4>1. \A pl \in Places : <<OsDisk, pl>> \notin pool[p]
        BY DisksAssumption, ShownFacts DEF MembersKept, Places
      <4>2. c = content[OsDisk]
        BY <3>2, <4>1, DisksAssumption
      <4> QED BY <2>1, <3>2, <4>2
    <3> QED BY <3>1, <3>2
  <2> QED BY <2>2, <2>3 DEF MembersKept
<1> QED BY <1>1, <1>2, <1>3, <1>4

\* A request that is begun, goes on or ends is again one of the requests.
LEMMA RequestSet ==
  ASSUME TypeOK, GivenOK, MediaOK', NEW r \in Reqs, NEW q \in Requests, Given(q), req' = [req EXCEPT ![r] = q]
  PROVE  TypeOK' /\ GivenOK'
BY DEF TypeOK, GivenOK

LEMMA IdleIsRequest == Idle \in Requests /\ Given(Idle)
<1>1. OsDisk \in Disks
  BY DisksAssumption
<1> QED BY <1>1 DEF Idle, Requests, Given

\* Every step keeps the types and what requests were given.
LEMMA TypeKept == ASSUME TypeOK, GivenOK, [Next]_vars PROVE TypeOK' /\ GivenOK'
<1> USE DEF zfs
<1>0. UNCHANGED <<content, seen, pool, leaving>> => MediaOK'
  BY DEF TypeOK, MediaOK
<1>1. ASSUME NEW r \in Reqs, NEW d \in Disks, WipeCheck(r, d) PROVE TypeOK' /\ GivenOK'
  <2> DEFINE q == [Idle EXCEPT !.op = "wipe", !.at = "layout", !.disk = d]
  <2>1. q \in Requests /\ Given(q)
    BY IdleIsRequest DEF Requests, Given, Idle
  <2> QED BY <1>0, <1>1, <2>1, RequestSet DEF WipeCheck
<1>2. ASSUME NEW r \in Reqs, WipeLayout(r) PROVE TypeOK' /\ GivenOK'
  <2> DEFINE c == seen[req[r].disk]
             q == [req[r] EXCEPT !.at = "clear", !.ids = Shown(c), !.todo = {p \in Shown(c) : c[p] \in Labels}]
  <2>1. req[r] \in Requests /\ req[r].op = "wipe" /\ Shown(c) \subseteq Places
    BY <1>2 DEF WipeLayout, At, TypeOK, Shown, Places
  <2>2. q \in Requests /\ Given(q)
    BY <2>1 DEF Requests, Given
  <2>3. req' = [req EXCEPT ![r] = q]
    BY <1>2 DEF WipeLayout, TypeOK
  <2> QED BY <1>0, <1>2, <2>2, <2>3, RequestSet DEF WipeLayout
<1>3. ASSUME NEW r \in Reqs, NEW d \in Disks, NEW pl \in Places,
             content' = [content EXCEPT ![d][pl] = "blank"], UNCHANGED <<seen, zfs>>
      PROVE  MediaOK'
  BY <1>3 DEF TypeOK, MediaOK, Things
<1>4. ASSUME NEW r \in Reqs, WipeClear(r) PROVE TypeOK' /\ GivenOK'
  <2> DEFINE pl == IF "disk" \in req[r].todo THEN "disk" ELSE "part"
             q == [req[r] EXCEPT !.todo = @ \ {pl}]
  <2>1. req[r] \in Requests /\ Given(req[r])
    BY DEF TypeOK, GivenOK
  <2>2. q \in Requests /\ Given(q)
    BY <2>1 DEF Requests, Given
  <2>3. MediaOK'
    <3>1. pl \in Places /\ req[r].disk \in Disks
      BY <2>1 DEF Places, Requests
    <3>2. content' = [content EXCEPT ![req[r].disk][pl] = "blank"] /\ UNCHANGED <<seen, zfs>>
      BY <1>4, Zenon DEF WipeClear
    <3> QED BY <1>3, <3>1, <3>2
  <2>4. req' = [req EXCEPT ![r] = q]
    BY <1>4 DEF WipeClear, TypeOK
  <2> QED BY <2>2, <2>3, <2>4, RequestSet
<1>5. ASSUME NEW r \in Reqs, WipePart(r) \/ WipeDisk(r) PROVE TypeOK' /\ GivenOK'
  <2>1. req[r] \in Requests /\ Given(req[r]) /\ req[r].op = "wipe"
    BY <1>5 DEF TypeOK, GivenOK, WipePart, WipeDisk, At
  <2>2. MediaOK'
    <3>1. req[r].disk \in Disks
      BY <2>1 DEF Requests
    <3>2. PICK pl \in Places : content' = [content EXCEPT ![req[r].disk][pl] = "blank"]
      BY <1>5 DEF WipePart, WipeDisk, Places
    <3> QED BY <1>3, <1>5, <3>1, <3>2 DEF WipePart, WipeDisk
  <2>3. PICK a \in {"last", "settle"} : req' = [req EXCEPT ![r].at = a]
    BY <1>5 DEF WipePart, WipeDisk, Goes
  <2> DEFINE q == [req[r] EXCEPT !.at = a]
  <2>4. q \in Requests /\ Given(q)
    BY <2>1 DEF Requests, Given
  <2>5. req' = [req EXCEPT ![r] = q]
    BY <2>3
  <2> QED BY <2>2, <2>4, <2>5, RequestSet
<1>6. ASSUME NEW r \in Reqs, WipeEnd(r) \/ Fails(r) PROVE TypeOK' /\ GivenOK'
  BY <1>0, <1>6, IdleIsRequest, RequestSet DEF WipeEnd, Fails, Ends
<1>7. ASSUME NEW r \in Reqs, NEW p \in Pools, NEW ids \in SUBSET Disks, CreateBegin(r, p, ids) PROVE TypeOK' /\ GivenOK'
  <2> DEFINE q == [Idle EXCEPT !.op = "create", !.at = "check", !.pool = p, !.todo = ids, !.ids = ids]
  <2>1. q \in Requests /\ Given(q)
    BY IdleIsRequest DEF Requests, Given, Idle
  <2> QED BY <1>0, <1>7, <2>1, RequestSet DEF CreateBegin
<1>8. ASSUME NEW r \in Reqs, CreateCheck(r) PROVE TypeOK' /\ GivenOK'
  <2>1. PICK d : req' = [req EXCEPT ![r].todo = @ \ {d}]
    BY <1>8 DEF CreateCheck
  <2> DEFINE q == [req[r] EXCEPT !.todo = @ \ {d}]
  <2>2. req[r] \in Requests /\ Given(req[r])
    BY DEF TypeOK, GivenOK
  <2>3. q \in Requests /\ Given(q)
    BY <2>2 DEF Requests, Given
  <2>4. req' = [req EXCEPT ![r] = q]
    BY <2>1
  <2> QED BY <1>0, <1>8, <2>3, <2>4, RequestSet DEF CreateCheck
<1>9. ASSUME NEW ids \in SUBSET Disks, NEW p \in Pools, content' = Labelled(ids, p) PROVE content' \in [Disks -> [Places -> Things]]
  <2>1. On("table", p) \in [Places -> Things]
    BY DEF On, Things, Labels
  <2> QED BY <1>9, <2>1 DEF Labelled, TypeOK, MediaOK
<1>10. ASSUME NEW r \in Reqs, CreateRun(r) PROVE TypeOK' /\ GivenOK'
  <2>1. req[r].pool \in Pools /\ req[r].ids \in SUBSET Disks
    BY <1>10 DEF CreateRun, At, GivenOK, Given
  <2>2. MediaOK'
    BY <1>9, <1>10, <2>1 DEF CreateRun, TypeOK, MediaOK, Places
  <2> QED BY <1>10, <2>2, IdleIsRequest, RequestSet DEF CreateRun, Ends
<1>11. ASSUME NEW r \in Reqs, NEW p \in Pools, NEW old \in Disks, NEW d \in Disks, ReplaceCheck(r, p, old, d)
       PROVE  TypeOK' /\ GivenOK'
  <2> DEFINE q == [Idle EXCEPT !.op = "replace", !.at = "run", !.disk = d, !.pool = p, !.old = old]
  <2>1. q \in Requests /\ Given(q)
    BY IdleIsRequest DEF Requests, Given, Idle
  <2> QED BY <1>0, <1>11, <2>1, RequestSet DEF ReplaceCheck
<1>12. ASSUME NEW r \in Reqs, ReplaceRun(r) PROVE TypeOK' /\ GivenOK'
  <2>1. req[r].pool \in Pools /\ req[r].disk \in Disks /\ req[r].old \in Disks \cup {Nothing}
    BY <1>12 DEF ReplaceRun, At, GivenOK, Given, TypeOK, Requests
  <2>2. content' \in [Disks -> [Places -> Things]]
    BY <1>9, <1>12, <2>1 DEF ReplaceRun
  <2>3. MediaOK'
    <3>1. pool' = [pool EXCEPT ![req[r].pool] = @ \cup {<<req[r].disk, "part">>}]
      BY <1>12 DEF ReplaceRun
    <3>2. <<req[r].disk, "part">> \in Disks \X Places
      BY <2>1 DEF Places
    <3>3. pool' \in [Pools -> SUBSET (Disks \X Places)]
      BY <2>1, <3>1, <3>2 DEF TypeOK, MediaOK
    <3> QED BY <1>12, <2>1, <2>2, <3>3 DEF ReplaceRun, TypeOK, MediaOK
  <2> QED BY <1>12, <2>3, IdleIsRequest, RequestSet DEF ReplaceRun, Ends
<1>13. ASSUME NEW r \in Reqs, NEW p \in Pools, ImportCheck(r, p) PROVE TypeOK' /\ GivenOK'
  <2> DEFINE q == [Idle EXCEPT !.op = "import", !.at = "run", !.pool = p]
  <2>1. q \in Requests /\ Given(q)
    BY IdleIsRequest DEF Requests, Given, Idle
  <2> QED BY <1>0, <1>13, <2>1, RequestSet DEF ImportCheck
<1>14. ASSUME NEW r \in Reqs, ImportRun(r) PROVE TypeOK' /\ GivenOK'
  <2>1. MediaOK'
    BY <1>14 DEF ImportRun, TypeOK, MediaOK, Importable
  <2> QED BY <1>14, <2>1, IdleIsRequest, RequestSet DEF ImportRun, Ends
<1>15. ASSUME NEW p \in Pools, Resilvered(p) PROVE TypeOK' /\ GivenOK'
  <2> DEFINE old == leaving[p]
             Marked(c) == [pl \in Places |-> IF <<old, pl>> \in pool[p] THEN "old" ELSE c[pl]]
  <2>1. old \in Disks
    BY <1>15 DEF Resilvered, TypeOK, MediaOK
  <2>2. \A c \in [Places -> Things] : Marked(c) \in [Places -> Things]
    BY DEF Things, Labels
  <2>3. content' \in [Disks -> [Places -> Things]] /\ seen' \in [Disks -> [Places -> Things]]
    BY <1>15, <2>1, <2>2 DEF Resilvered, TypeOK, MediaOK
  <2> QED BY <1>15, <2>1, <2>3 DEF Resilvered, TypeOK, MediaOK, GivenOK
<1>16. ASSUME NEW d \in Disks, Udev(d) PROVE TypeOK' /\ GivenOK'
  BY <1>16 DEF Udev, TypeOK, MediaOK, GivenOK
<1>17. CASE UNCHANGED vars
  BY <1>17 DEF vars, TypeOK, MediaOK, GivenOK
<1> QED
  BY <1>1, <1>2, <1>4, <1>5, <1>6, <1>7, <1>8, <1>10, <1>11, <1>12, <1>13, <1>14, <1>15, <1>16, <1>17
  DEF Next, Wipe, Create, Replace, Import

\* Before the first request everything is as it was put in.
LEMMA InitKeeps == Init => IInv
<1> SUFFICES ASSUME Init PROVE IInv
  OBVIOUS
<1>1. TypeOK /\ GivenOK
  <2>1. On("table", "fs") \in [Places -> Things]
    BY DEF On, Things
  <2>2. content \in [Disks -> [Places -> Things]]
    BY <2>1, DisksAssumption DEF Init
  <2> QED BY <2>2, IdleIsRequest DEF Init, TypeOK, MediaOK, GivenOK
<1>2. MembersKept
  BY DisksAssumption DEF Init, MembersKept
<1> QED BY <1>1, <1>2 DEF IInv

\* Every step keeps the labels of the pools' leaves.
LEMMA NextKeeps == IInv /\ [Next]_vars => IInv'
<1> SUFFICES ASSUME IInv, [Next]_vars PROVE IInv'
  OBVIOUS
<1>1. TypeOK' /\ GivenOK'
  BY TypeKept DEF IInv
<1>2. MembersKept'
  <2>1. CASE \E r \in Reqs : WipeClear(r) \/ WipePart(r) \/ WipeDisk(r)
    BY <2>1, WipeKeeps
  <2>2. CASE \/ \E r \in Reqs : CreateRun(r) \/ ReplaceRun(r) \/ ImportRun(r)
             \/ \E p \in Pools : Resilvered(p)
    BY <2>2, PoolsKeep
  <2>3. CASE \/ \E r \in Reqs, d \in Disks : WipeCheck(r, d)
             \/ \E r \in Reqs : WipeLayout(r) \/ WipeEnd(r) \/ CreateCheck(r) \/ Fails(r)
             \/ \E r \in Reqs, p \in Pools, ids \in SUBSET Disks : CreateBegin(r, p, ids)
             \/ \E r \in Reqs, p \in Pools, old, d \in Disks : ReplaceCheck(r, p, old, d)
             \/ \E r \in Reqs, p \in Pools : ImportCheck(r, p)
             \/ \E d \in Disks : Udev(d)
    <3>1. UNCHANGED <<content, pool>>
      BY <2>3 DEF WipeCheck, WipeLayout, WipeEnd, CreateCheck, Fails, CreateBegin, ReplaceCheck, ImportCheck, Udev, zfs
    <3> QED BY <3>1, Untouched DEF IInv
  <2>4. CASE UNCHANGED vars
    BY <2>4, Untouched DEF IInv, vars
  <2> QED BY <2>1, <2>2, <2>3, <2>4 DEF Next, Wipe, Create, Replace, Import
<1> QED BY <1>1, <1>2 DEF IInv

\* disks.ts, write.ts: no interleaving of wipes, creates, replacements and imports, no stale look and no failure costs an
\* imported pool the label of one of its leaves, or touches the disk the system runs from.
THEOREM PoolsAndSystemKept == Spec => []MembersKept
<1>1. IInv => MembersKept
  BY DEF IInv
<1> QED BY <1>1, InitKeeps, NextKeeps, PTL DEF Spec
----------------------------------------------------------------------------
(* No hidden label.  A partition that carries a label lsblk has not noticed,   *)
(* or that a wipe past its layout does not know of, is a leaf of an imported   *)
(* pool: it was labelled since, and only the end of a resilver lets it go.     *)

\* The disk's partition carries a label; a pool of po holds the disk.
HasLabel(d, c)  == c[d]["part"] \in Labels
HeldBy(d, po) == d = OsDisk \/ \E pl \in Places, p \in Pools : <<d, pl>> \in po[p]

StaleIsHeld == \A d \in Disks : seen[d] # content[d] /\ HasLabel(d, content) => HeldBy(d, pool)

\* A wipe whose next write to the disk can be the one that takes the table away.
PastParts(q) == q.op = "wipe" /\ (q.at = "last" \/ (q.at = "clear" /\ "part" \notin q.ids))

WipeKnows == \A r \in Reqs : PastParts(req[r]) /\ HasLabel(req[r].disk, content) => HeldBy(req[r].disk, pool)

HiddenInv == NoHiddenLabel /\ StaleIsHeld /\ WipeKnows

\* Pools that only grow go on holding their disks.
LEMMA HeldStays == ASSUME NEW d, \A q \in Pools : pool[q] \subseteq pool'[q], HeldBy(d, pool) PROVE HeldBy(d, pool')
BY DEF HeldBy

\* The kernel's view and ZFS's agree.
LEMMA HeldIsBy == \A d : Held(d) <=> HeldBy(d, pool)
BY DEF Held, HeldBy, poolMembers

\* What is written to a place leaves the other place, and every other disk, as it was.
LEMMA BlankFacts ==
  ASSUME MediaOK, NEW d \in Disks, NEW pl \in Places, content' = [content EXCEPT ![d][pl] = "blank"]
  PROVE  /\ \A e \in Disks : e # d => content'[e] = content[e]
         /\ content'[d][pl] = "blank" /\ \A o \in Places : o # pl => content'[d][o] = content[d][o]
BY DEF MediaOK

\* The three writes of a wipe leave no label in the disk's partition, unless a table shows it.
LEMMA WipeWrites ==
  ASSUME IInv, HiddenInv, NEW r \in Reqs, WipeClear(r) \/ WipePart(r) \/ WipeDisk(r)
  PROVE  HiddenInv'
<1> DEFINE d == req[r].disk
<1>0. d \in Disks /\ MediaOK /\ "blank" \notin Labels /\ "table" \notin Labels
  BY DisksAssumption DEF IInv, TypeOK, Requests, Labels
<1>1. UNCHANGED <<seen, pool>>
  BY DEF WipeClear, WipePart, WipeDisk, zfs
<1>2. PICK pl \in Places : /\ content' = [content EXCEPT ![d][pl] = "blank"]
                           /\ pl = "disk" => content[d]["part"] \notin Labels
  <2>1. CASE WipeClear(r)
    <3>1. PICK pl \in Places : content' = [content EXCEPT ![d][pl] = "blank"] /\ content[d][pl] \in Labels
      BY <2>1 DEF WipeClear, Places
    <3>2. pl = "disk" => content[d]["part"] \notin Labels
      BY <1>0, <3>1 DEF HiddenInv, NoHiddenLabel, Shown
    <3>. QED
      BY <3>1, <3>2
  <2>2. CASE WipePart(r)
    <3>1. content' = [content EXCEPT ![d]["part"] = "blank"]
      BY <2>2 DEF WipePart
    <3>. QED
      BY <3>1 DEF Places
  <2>3. CASE WipeDisk(r)
    <3>1. content' = [content EXCEPT ![d]["disk"] = "blank"] /\ ~Held(d) /\ PastParts(req[r])
      BY <2>3 DEF WipeDisk, At, PastParts
    <3>2. content[d]["part"] \notin Labels
      BY <3>1, HeldIsBy DEF HiddenInv, WipeKnows, HasLabel
    <3>. QED
      BY <3>1, <3>2 DEF Places
  <2>. QED
    BY <2>1, <2>2, <2>3
<1>3. /\ \A e \in Disks : e # d => content'[e] = content[e]
      /\ content'[d]["part"] \notin Labels
  BY <1>0, <1>2, BlankFacts DEF Places
<1>4. NoHiddenLabel'
  BY <1>0, <1>3 DEF HiddenInv, NoHiddenLabel, Shown
<1>5. \A e : HeldBy(e, pool) => HeldBy(e, pool')
  BY <1>1, HeldStays
<1>6. StaleIsHeld'
  BY <1>0, <1>1, <1>3, <1>5 DEF HiddenInv, StaleIsHeld, HasLabel
<1>7. \A s \in Reqs : s # r => req'[s] = req[s]
  BY DEF WipeClear, WipePart, WipeDisk, Goes, IInv, TypeOK
<1>8. req'[r].disk = d
  <2>1. PICK q : q = req[r]
    OBVIOUS
  <2>2. q \in Requests /\ q.disk = d
    BY <2>1 DEF IInv, TypeOK
  <2>3. \/ \E a : req'[r] = [q EXCEPT !.at = a]
        \/ \E a : req'[r] = [q EXCEPT !.todo = a]
    BY <2>1 DEF WipeClear, WipePart, WipeDisk, Goes, IInv, TypeOK
  <2>. QED
    BY <2>2, <2>3 DEF Requests
<1> HIDE DEF d
<1>9. ASSUME NEW s \in Reqs, PastParts(req'[s]), content'[req'[s].disk]["part"] \in Labels PROVE HeldBy(req'[s].disk, pool')
  <2>1. s # r /\ req'[s] = req[s] /\ req[s].disk # d
    BY <1>3, <1>7, <1>8, <1>9
  <2>2. req[s].disk \in Disks
    BY DEF IInv, TypeOK, Requests
  <2>. QED
    BY <1>3, <1>5, <1>9, <2>1, <2>2 DEF HiddenInv, WipeKnows, HasLabel
<1>10. WipeKnows'
  BY <1>9 DEF WipeKnows, HasLabel
<1>. QED
  BY <1>4, <1>6, <1>10 DEF HiddenInv

\* Where a request alone changes, or pools only grow, it is enough to know what the changed request is about to do.
LEMMA RequestGoes ==
  ASSUME HiddenInv, TypeOK, NEW r \in Reqs, NEW q, req' = [req EXCEPT ![r] = q], UNCHANGED <<content, seen>>,
         \A p \in Pools : pool[p] \subseteq pool'[p],
         PastParts(q) /\ HasLabel(q.disk, content) => HeldBy(q.disk, pool)
  PROVE  HiddenInv'
<1>1. \A e : HeldBy(e, pool) => HeldBy(e, pool')
  BY HeldStays
<1>2. req'[r] = q /\ \A s \in Reqs : s # r => req'[s] = req[s]
  BY DEF TypeOK
<1>3. NoHiddenLabel' /\ StaleIsHeld'
  BY <1>1 DEF HiddenInv, NoHiddenLabel, Shown, StaleIsHeld, HasLabel
<1>4. ASSUME NEW s \in Reqs, PastParts(req'[s]), content[req'[s].disk]["part"] \in Labels PROVE HeldBy(req'[s].disk, pool')
  BY <1>1, <1>2, <1>4 DEF HiddenInv, WipeKnows, HasLabel
<1>. QED
  BY <1>3, <1>4 DEF HiddenInv, WipeKnows, HasLabel

\* Disks that get a pool's label are held from then on.
LEMMA LabelShows ==
  ASSUME HiddenInv, TypeOK, NEW r \in Reqs, Ends(r), UNCHANGED seen, NEW ids \in SUBSET Disks, NEW p \in Pools,
         content' = Labelled(ids, p), \A q \in Pools : pool[q] \subseteq pool'[q], ids \X {"part"} \subseteq pool'[p]
  PROVE  HiddenInv'
<1>1. \A e : HeldBy(e, pool) => HeldBy(e, pool')
  BY HeldStays
<1>2. \A d \in ids : HeldBy(d, pool')
  <2> SUFFICES ASSUME NEW d \in ids PROVE HeldBy(d, pool')
    OBVIOUS
  <2>1. <<d, "part">> \in pool'[p]
    OBVIOUS
  <2>. QED
    BY <2>1 DEF HeldBy, Places
<1>3. /\ \A d \in ids : content'[d] = On("table", p)
      /\ \A d \in Disks \ ids : content'[d] = content[d]
  BY DEF Labelled
<1>4. NoHiddenLabel'
  BY <1>3, ShownFacts DEF HiddenInv, NoHiddenLabel, Shown, Places
<1>5. StaleIsHeld'
  BY <1>1, <1>2, <1>3 DEF HiddenInv, StaleIsHeld, HasLabel
<1>6. req'[r] = Idle /\ \A s \in Reqs : s # r => req'[s] = req[s]
  BY DEF TypeOK, Ends
<1>7. ~PastParts(Idle)
  BY DEF PastParts, Idle
<1>8. ASSUME NEW s \in Reqs, PastParts(req'[s]), content'[req'[s].disk]["part"] \in Labels PROVE HeldBy(req'[s].disk, pool')
  <2>1. s # r /\ req'[s] = req[s]
    BY <1>6, <1>7, <1>8
  <2>2. req[s].disk \in Disks
    BY DEF TypeOK, Requests
  <2>. QED
    BY <1>1, <1>2, <1>3, <1>8, <2>1, <2>2 DEF HiddenInv, WipeKnows, HasLabel
<1>. QED
  BY <1>4, <1>5, <1>8 DEF HiddenInv, WipeKnows, HasLabel

\* The disk a pool lets go keeps its label where it was, under the table if there is one; by then udev has seen it
\* and no wipe is under way.
LEMMA ResilverShows ==
  ASSUME IInv, HiddenInv, SlowResilver, NEW p \in Pools, Resilvered(p) PROVE HiddenInv'
<1> DEFINE old == leaving[p]
           c == [pl \in Places |-> IF <<old, pl>> \in pool[p] THEN "old" ELSE content[old][pl]]
<1>1. /\ old \in Disks /\ seen = content /\ (\A r \in Reqs : req[r].op # "wipe") /\ UNCHANGED req
      /\ content' = [content EXCEPT ![old] = c] /\ seen' = [content EXCEPT ![old] = c]
  BY DEF Resilvered, IInv, TypeOK, MediaOK
<1>2. c["part"] \in Labels => c["disk"] = "table"
  <2> SUFFICES ASSUME c["part"] \in Labels PROVE c["disk"] = "table"
    OBVIOUS
  <2>1. content[old]["disk"] = "table"
    <3>1. CASE <<old, "part">> \in pool[p]
      BY <3>1, DisksAssumption DEF IInv, MembersKept, Shown
    <3>2. CASE <<old, "part">> \notin pool[p]
      <4>1. content[old]["part"] \in Labels
        BY <3>2 DEF Places
      <4>. QED
        BY <1>1, <4>1 DEF HiddenInv, NoHiddenLabel, Shown
    <3>. QED
      BY <3>1, <3>2
  <2>2. <<old, "disk">> \notin pool[p]
    <3>1. p # "table"
      BY DisksAssumption
    <3>. QED
      BY <2>1, <3>1 DEF IInv, MembersKept
  <2>. QED
    BY <2>1, <2>2 DEF Places
<1>3. content'[old] = c /\ seen' = content' /\ \A d \in Disks : d # old => content'[d] = content[d]
  BY <1>1 DEF IInv, TypeOK, MediaOK
<1> HIDE DEF c
<1>4. NoHiddenLabel'
  BY <1>2, <1>3 DEF HiddenInv, NoHiddenLabel, Shown, Places
<1>5. StaleIsHeld' /\ WipeKnows'
  BY <1>1, <1>3 DEF StaleIsHeld, WipeKnows, PastParts
<1>. QED
  BY <1>4, <1>5 DEF HiddenInv

\* Every step keeps labels where lsblk can show them.
LEMMA HiddenStep == ASSUME IInv, HiddenInv, SlowResilver, [Next]_vars PROVE HiddenInv'
<1> USE DEF zfs
<1>1. CASE \E r \in Reqs : WipeClear(r) \/ WipePart(r) \/ WipeDisk(r)
  BY <1>1, WipeWrites
<1>2. CASE \E p \in Pools : Resilvered(p)
  BY <1>2, ResilverShows
<1>3. ASSUME NEW r \in Reqs, WipeLayout(r) PROVE HiddenInv'
  <2> DEFINE k == seen[req[r].disk]
  <2>1. PICK q : q = [req[r] EXCEPT !.at = "clear", !.ids = Shown(k), !.todo = {pl \in Shown(k) : k[pl] \in Labels}]
    OBVIOUS
  <2>2. req' = [req EXCEPT ![r] = q] /\ UNCHANGED <<content, seen, pool>>
    BY <1>3, <2>1 DEF WipeLayout, IInv, TypeOK
  <2>3. req[r] \in Requests
    BY DEF IInv, TypeOK
  <2>4. q.at = "clear" /\ q.ids = Shown(k) /\ q.disk = req[r].disk /\ q.disk \in Disks
    BY <2>1, <2>3 DEF Requests
  <2>5. PastParts(q) /\ HasLabel(q.disk, content) => HeldBy(q.disk, pool)
    <3> SUFFICES ASSUME "part" \notin Shown(k), HasLabel(q.disk, content) PROVE HeldBy(q.disk, pool)
      BY <2>4 DEF PastParts
    <3>1. "part" \in Shown(content[q.disk])
      BY <2>4 DEF HiddenInv, NoHiddenLabel, HasLabel
    <3>2. seen[q.disk] # content[q.disk]
      BY <2>4, <3>1
    <3>. QED
      BY <2>4, <3>2 DEF HiddenInv, StaleIsHeld
  <2>. QED
    BY <2>2, <2>5, RequestGoes DEF IInv
<1>4. ASSUME NEW r \in Reqs, CreateRun(r) PROVE HiddenInv'
  <2>1. req[r].pool \in Pools /\ req[r].ids \in SUBSET Disks
    BY <1>4 DEF CreateRun, At, IInv, GivenOK, Given
  <2>2. /\ content' = Labelled(req[r].ids, req[r].pool) /\ Ends(r) /\ UNCHANGED seen
        /\ pool[req[r].pool] = {} /\ pool' = [pool EXCEPT ![req[r].pool] = req[r].ids \X {"part"}]
    BY <1>4 DEF CreateRun
  <2>3. (\A q \in Pools : pool[q] \subseteq pool'[q]) /\ req[r].ids \X {"part"} \subseteq pool'[req[r].pool]
    BY <2>1, <2>2 DEF IInv, TypeOK, MediaOK
  <2>. QED
    BY <2>1, <2>2, <2>3, LabelShows DEF IInv
<1>5. ASSUME NEW r \in Reqs, ReplaceRun(r) PROVE HiddenInv'
  <2>1. req[r].pool \in Pools /\ {req[r].disk} \in SUBSET Disks
    BY <1>5 DEF ReplaceRun, At, IInv, TypeOK, GivenOK, Given, Requests
  <2>2. /\ content' = Labelled({req[r].disk}, req[r].pool) /\ Ends(r) /\ UNCHANGED seen
        /\ pool' = [pool EXCEPT ![req[r].pool] = @ \cup {<<req[r].disk, "part">>}]
    BY <1>5 DEF ReplaceRun
  <2>3. (\A q \in Pools : pool[q] \subseteq pool'[q]) /\ {req[r].disk} \X {"part"} \subseteq pool'[req[r].pool]
    BY <2>1, <2>2 DEF IInv, TypeOK, MediaOK
  <2>. QED
    BY <2>1, <2>2, <2>3, LabelShows DEF IInv
<1>6. ASSUME NEW r \in Reqs, ImportRun(r) \/ WipeEnd(r) \/ Fails(r) PROVE HiddenInv'
  <2>1. /\ req' = [req EXCEPT ![r] = Idle] /\ UNCHANGED <<content, seen>>
        /\ UNCHANGED pool \/ (pool[req[r].pool] = {} /\ \E m : pool' = [pool EXCEPT ![req[r].pool] = m])
    BY <1>6 DEF ImportRun, WipeEnd, Fails, Ends
  <2>2. \A q \in Pools : pool[q] \subseteq pool'[q]
    BY <2>1 DEF IInv, TypeOK, MediaOK
  <2>3. ~PastParts(Idle)
    BY DEF PastParts, Idle
  <2>. QED
    BY <2>1, <2>2, <2>3, RequestGoes DEF IInv
<1>7. ASSUME NEW r \in Reqs,
             \/ \E d \in Disks : WipeCheck(r, d)
             \/ \E p \in Pools, ids \in SUBSET Disks : CreateBegin(r, p, ids)
             \/ \E p \in Pools, old, d \in Disks : ReplaceCheck(r, p, old, d)
             \/ \E p \in Pools : ImportCheck(r, p)
      PROVE  HiddenInv'
  <2>1. PICK q : req' = [req EXCEPT ![r] = q] /\ ~PastParts(q) /\ UNCHANGED <<content, seen, pool>>
    BY <1>7 DEF WipeCheck, CreateBegin, ReplaceCheck, ImportCheck, Idle, PastParts
  <2>. QED
    BY <2>1, RequestGoes DEF IInv
<1>8. ASSUME NEW r \in Reqs, CreateCheck(r) PROVE HiddenInv'
  <2>1. PICK d : req' = [req EXCEPT ![r].todo = @ \ {d}] /\ req[r].op = "create" /\ UNCHANGED <<content, seen, pool>>
    BY <1>8 DEF CreateCheck, At
  <2>2. PICK q : q = [req[r] EXCEPT !.todo = @ \ {d}]
    OBVIOUS
  <2>3. req' = [req EXCEPT ![r] = q] /\ q.op = "create"
    BY <2>1, <2>2 DEF IInv, TypeOK, Requests
  <2>. QED
    BY <2>1, <2>3, RequestGoes DEF IInv, PastParts
<1>9. ASSUME NEW d \in Disks, Udev(d) PROVE HiddenInv'
  <2>1. UNCHANGED <<content, pool, req>> /\ seen' = [seen EXCEPT ![d] = content[d]]
    BY <1>9 DEF Udev
  <2>2. \A e \in Disks : seen'[e] = seen[e] \/ seen'[e] = content[e]
    BY <2>1 DEF IInv, TypeOK, MediaOK
  <2>. QED
    BY <2>1, <2>2 DEF HiddenInv, NoHiddenLabel, Shown, StaleIsHeld, WipeKnows
<1>10. CASE UNCHANGED vars
  BY <1>10 DEF vars, HiddenInv, NoHiddenLabel, Shown, StaleIsHeld, WipeKnows
<1>. QED
  BY <1>1, <1>2, <1>3, <1>4, <1>5, <1>6, <1>7, <1>8, <1>9, <1>10 DEF Next, Wipe, Create, Replace, Import

\* write.ts, wipeDisk: for any disks, pools and requests at once, if no disk comes with a hidden label and a resilver
\* outlasts the wipes that began before it, no wipe, finished or cut short, leaves a label where lsblk cannot show it.
THEOREM LabelsStayVisible ==
  ASSUME SlowResilver, \A c \in Carried : c["part"] \in Labels => c["disk"] = "table"
  PROVE  Spec => []NoHiddenLabel
<1>1. Init => IInv
  BY InitKeeps
<1>2. Init => HiddenInv
  <2> SUFFICES ASSUME Init PROVE HiddenInv
    OBVIOUS
  <2>1. NoHiddenLabel
    <3> SUFFICES ASSUME NEW d \in Disks, content[d]["part"] \in Labels PROVE "part" \in Shown(content[d])
      BY DEF NoHiddenLabel
    <3>1. content[d] \in Carried \/ content[d] = On("table", "fs")
      BY DEF Init
    <3>2. content[d]["disk"] = "table"
      BY <3>1, ShownFacts
    <3>. QED
      BY <3>2 DEF Shown, Places
  <2>2. StaleIsHeld /\ WipeKnows
    BY DEF Init, StaleIsHeld, WipeKnows, PastParts, Idle
  <2>. QED
    BY <2>1, <2>2 DEF HiddenInv
<1>3. IInv /\ HiddenInv /\ [Next]_vars => IInv' /\ HiddenInv'
  BY NextKeeps, HiddenStep
<1>4. HiddenInv => NoHiddenLabel
  BY DEF HiddenInv
<1>. QED
  BY <1>1, <1>2, <1>3, <1>4, PTL DEF Spec
=============================================================================
