----------------------------- MODULE Snapshots -----------------------------
(***************************************************************************)
(* Automatic snapshots of a dataset: plan in agent/src/policy.ts, the      *)
(* first half of the timer's tick (tick.ts), written and the list of       *)
(* snapshots (zfs.ts), the policy rows (db.ts) and the verbs with which    *)
(* people take, destroy and roll back (verbs.ts, write.ts).                *)
(*                                                                         *)
(* The tick reads the policy, then the snapshots, then whether the dataset *)
(* was written to, plans, and runs one zfs command after another; people   *)
(* and replication work on the same dataset meanwhile.                     *)
(*                                                                         *)
(* Time is what plan makes of it: whether the newest snapshot of a period  *)
(* is at least the period less the slack old.  All the earlier ones are,   *)
(* since the next was taken when they were.  A snapshot is named by its    *)
(* place among those that exist, 0 once it is gone.  The lists of the plan *)
(* are sets, worked off in the order of the periods, the oldest first.     *)
(***************************************************************************)
EXTENDS Naturals, Sequences, FiniteSets

CONSTANTS
    PERIODS,        \* the periods in the order of plan
    Policies,       \* the policies people choose from: how many of each period to keep
    MaxActs,        \* bound: what people and replication do
    MaxSnapFaults   \* bound: failed commands and killed ticks

Periods == {PERIODS[i] : i \in DOMAIN PERIODS}

ASSUME SnapshotsAssumption ==
    /\ PERIODS \in Seq(STRING \ {"other"})
    /\ \A i, j \in DOMAIN PERIODS : PERIODS[i] = PERIODS[j] => i = j
    /\ Policies \subseteq [Periods -> Nat]
    /\ MaxActs \in Nat /\ MaxSnapFaults \in Nat

VARIABLES
    snaps,      \* the dataset's snapshots, oldest first
    dirty,      \* written is not 0: the dataset differs from its newest snapshot
    aged,       \* the newest of a period is old enough for the next
    keep,       \* the policy row; all counts zero is no row
    at,         \* where the tick is
    policy,     \* the row the tick has read
    existing,   \* the snapshots it has listed
    late,       \* aged as of that list
    take,       \* what it still has to take, and what makes room then
    destroy,    \* what it still has to destroy since it is beyond the count
    replaced,   \* what it has to destroy after that, since its replacement is there
    disturbed,  \* history: what people have done since the list; a written not read
    acts,
    snapFaults

plans == <<policy, existing, late, take, destroy, replaced>>
snapVars == <<snaps, dirty, aged, keep, at, plans, disturbed, acts, snapFaults>>

\* A snapshot is the period in its name ("other" for those of people and replication)
\* and whether the dataset had been written to since the snapshot before it; one as
\* listed is its place and its series.

\* All counts zero: there is no row.
NoPolicy == [p \in Periods |-> 0]

SnapInit ==
    /\ snaps = <<>>
    /\ dirty = TRUE
    /\ aged = [p \in Periods |-> FALSE]
    /\ keep \in Policies
    /\ at = "idle"
    /\ policy = NoPolicy
    /\ existing = <<>>
    /\ late = [p \in Periods |-> FALSE]
    /\ take = {} /\ destroy = {} /\ replaced = {}
    /\ disturbed = {}
    /\ acts = 0
    /\ snapFaults = 0

SnapFault == snapFaults < MaxSnapFaults /\ snapFaults' = snapFaults + 1

----------------------------------------------------------------------------
(* ZFS.                                                                    *)

\* Where the snapshots of a period are in a list.
Mine(list, p) == {i \in DOMAIN list : list[i].series = p}

\* zfs snapshot
Taken(series) ==
    /\ snaps' = Append(snaps, [series |-> series, differs |-> dirty])
    /\ dirty' = FALSE
    /\ aged' = IF series = "other" THEN aged ELSE [aged EXCEPT ![series] = FALSE]

\* What the i-th being gone makes of a name, and of the names that are left.
Moved(i, name) == IF name = i THEN 0 ELSE IF name > i THEN name - 1 ELSE name
Left(i, names) == {Moved(i, n) : n \in names \ {i}}

\* zfs destroy of the i-th: the next one, or the dataset, now differs from the one
\* before.  The names the tick has in hand are what they were, at their new places;
\* the destroy of one that is gone would fail and change nothing.
Destroyed(i) ==
    LET last == Len(snaps)
        p == snaps[i].series
        rest == [j \in 1..(last - 1) |->
                   IF j < i THEN snaps[j]
                   ELSE [snaps[j + 1] EXCEPT !.differs = @ \/ (j = i /\ snaps[i].differs)]]
        newest == \A j \in (i + 1)..last : snaps[j].series # p
    IN  /\ snaps' = rest
        /\ dirty' = (dirty \/ (i = last /\ snaps[i].differs))
        /\ aged' = IF p = "other" \/ ~newest THEN aged
                   ELSE [aged EXCEPT ![p] = Mine(rest, p) # {}]
        /\ existing' = [j \in DOMAIN existing |-> [existing[j] EXCEPT !.name = Moved(i, @)]]
        /\ take' = {[t EXCEPT !.makesRoom = Left(i, @)] : t \in take}
        /\ destroy' = Left(i, destroy)
        /\ replaced' = Left(i, replaced)

Write ==
    /\ dirty' = TRUE
    /\ UNCHANGED <<snaps, aged, keep, at, plans, disturbed, acts, snapFaults>>

TimePasses(p) ==
    /\ Mine(snaps, p) # {} /\ ~aged[p]
    /\ aged' = [aged EXCEPT ![p] = TRUE]
    /\ UNCHANGED <<snaps, dirty, keep, at, plans, disturbed, acts, snapFaults>>

----------------------------------------------------------------------------
(* People and replication.                                                 *)

Acting == acts < MaxActs /\ acts' = acts + 1

\* policy.set: all counts zero deletes the row.
SetPolicy ==
    /\ Acting
    /\ keep' \in Policies
    /\ UNCHANGED <<snaps, dirty, aged, at, plans, disturbed, snapFaults>>

\* snapshot.create, and the snapshots of replication.
CreateSnapshot ==
    /\ Acting
    /\ Taken("other")
    /\ UNCHANGED <<keep, at, plans, disturbed, snapFaults>>

Disturb(how) == disturbed' = IF at \in {"idle", "list"} THEN {} ELSE disturbed \cup {how}

\* snapshot.destroy
DestroySnapshot ==
    /\ Acting
    /\ \E i \in DOMAIN snaps : Destroyed(i)
    /\ Disturb("destroyed")
    /\ UNCHANGED <<keep, at, policy, late, snapFaults>>

\* snapshot.rollback: to the newest only, zfs refuses any other.
Rollback ==
    /\ Acting
    /\ snaps # <<>>
    /\ dirty' = FALSE
    /\ Disturb("rolled back")
    /\ UNCHANGED <<snaps, aged, keep, at, plans, snapFaults>>

----------------------------------------------------------------------------
(* plan.                                                                   *)

Keeping(p) == policy[p] > 0

\* How many of its period the i-th of the list is followed by.
Followers(p, i) == Cardinality({j \in Mine(existing, p) : j > i})

\* Mutant of Due: a period with no snapshot yet is not due.
DueAfterFirst(p, changed) == changed /\ Mine(existing, p) # {} /\ late[p]

\* Mutant of Due: whether the dataset was written to is not asked.
DueUnasked(p, changed) == Mine(existing, p) = {} \/ late[p]

Due(p, changed) == changed /\ (Mine(existing, p) = {} \/ late[p])

\* Mutant of Excess: one too few.
ExcessButOne(p) == {i \in Mine(existing, p) : Followers(p, i) > policy[p]}

\* A period switched off loses all of its snapshots, a kept one what is over its count.
Excess(p) == {i \in Mine(existing, p) : Followers(p, i) >= policy[p]}

\* The oldest one kept, when the period is full.
MakesRoom(p) == {i \in Mine(existing, p) : Followers(p, i) + 1 = policy[p]}

Names(places) == {existing[i].name : i \in places} \ {0}

PlanTakes(changed) ==
    {[period |-> p, makesRoom |-> Names(MakesRoom(p))] :
        p \in {q \in Periods : Keeping(q) /\ Due(q, changed)}}

PlanDestroys == UNION {Names(Excess(p)) : p \in Periods}

----------------------------------------------------------------------------
(* The tick.                                                               *)

\* The policies are read; with no row there is nothing to do.
StartTick ==
    /\ at = "idle"
    /\ keep # NoPolicy
    /\ at' = "list"
    /\ policy' = keep
    /\ UNCHANGED <<snaps, dirty, aged, keep, existing, late, take, destroy, replaced, disturbed, acts, snapFaults>>

ListSnapshots ==
    /\ at = "list"
    /\ at' = "written"
    /\ existing' = [i \in DOMAIN snaps |-> [name |-> i, series |-> snaps[i].series]]
    /\ late' = aged
    /\ UNCHANGED <<snaps, dirty, aged, keep, policy, take, destroy, replaced, disturbed, acts, snapFaults>>

\* The plan from what was listed, and from written if zfs said it.
MakePlan(changed) ==
    /\ at = "written"
    /\ at' = "work"
    /\ take' = PlanTakes(changed)
    /\ destroy' = PlanDestroys
    /\ existing' = <<>>
    /\ late' = [p \in Periods |-> FALSE]
    /\ UNCHANGED <<snaps, dirty, aged, keep, policy, replaced, acts>>

ReadWritten == MakePlan(dirty) /\ UNCHANGED <<disturbed, snapFaults>>

\* A dataset zfs says nothing of counts as changed.
WrittenUnreadable ==
    /\ SnapFault
    /\ MakePlan(TRUE)
    /\ disturbed' = disturbed \cup {"blind"}

\* The place of a period in the order of plan.
Place(p) == CHOOSE i \in DOMAIN PERIODS : PERIODS[i] = p

\* The next to take.
TakesNext(t) == at = "work" /\ \A u \in take \ {t} : Place(t.period) < Place(u.period)

\* zfs snapshot went well: only now does the one it replaces go.
Take ==
    /\ \E t \in take :
         /\ TakesNext(t)
         /\ Taken(t.period)
         /\ take' = take \ {t}
         /\ replaced' = replaced \cup t.makesRoom
    /\ UNCHANGED <<keep, at, policy, existing, late, destroy, disturbed, acts, snapFaults>>

\* Mutant of TakeFails: the one to be replaced goes all the same.
TakeFailsMakesRoom ==
    /\ SnapFault
    /\ \E t \in take :
         /\ TakesNext(t)
         /\ take' = take \ {t}
         /\ replaced' = replaced \cup t.makesRoom
    /\ UNCHANGED <<snaps, dirty, aged, keep, at, policy, existing, late, destroy, disturbed, acts>>

\* A full pool: the tick goes on with the next.
TakeFails ==
    /\ SnapFault
    /\ \E t \in take : TakesNext(t) /\ take' = take \ {t}
    /\ UNCHANGED <<snaps, dirty, aged, keep, at, policy, existing, late, destroy, replaced, disturbed, acts>>

\* The next to destroy: by the order of the periods, then the oldest.
ToDestroy == IF destroy # {} THEN destroy ELSE replaced
DestroysNext(n) ==
    /\ at = "work" /\ take = {}
    /\ \A m \in ToDestroy \ {n} :
         \/ Place(snaps[n].series) < Place(snaps[m].series)
         \/ snaps[n].series = snaps[m].series /\ n < m

\* zfs destroy of the next name.
Prune ==
    /\ \E n \in ToDestroy : DestroysNext(n) /\ Destroyed(n)
    /\ UNCHANGED <<keep, at, policy, late, disturbed, acts, snapFaults>>

\* zfs destroy of a snapshot that is held fails, and the tick goes on.
PruneFails ==
    /\ SnapFault
    /\ \E n \in ToDestroy :
         /\ DestroysNext(n)
         /\ destroy' = destroy \ {n}
         /\ replaced' = replaced \ {n}
    /\ UNCHANGED <<snaps, dirty, aged, keep, at, policy, existing, late, take, disturbed, acts>>

Ended ==
    /\ at' = "idle"
    /\ policy' = NoPolicy
    /\ existing' = <<>>
    /\ late' = [p \in Periods |-> FALSE]
    /\ take' = {} /\ destroy' = {} /\ replaced' = {}
    /\ disturbed' = {}

\* Nothing left for this dataset: the tick goes on to scans, backup and the rest.
EndTick ==
    /\ at = "work" /\ take = {} /\ ToDestroy = {}
    /\ Ended
    /\ UNCHANGED <<snaps, dirty, aged, keep, acts, snapFaults>>

\* The list fails and the tick throws, or it is killed between two commands.
TickDies ==
    /\ at # "idle"
    /\ SnapFault
    /\ Ended
    /\ UNCHANGED <<snaps, dirty, aged, keep, acts>>

SnapTick == StartTick \/ ListSnapshots \/ ReadWritten \/ Take \/ Prune \/ EndTick

People == Write \/ SetPolicy \/ CreateSnapshot \/ DestroySnapshot \/ Rollback

SnapNext ==
    \/ SnapTick
    \/ People
    \/ WrittenUnreadable \/ TakeFails \/ PruneFails \/ TickDies
    \/ \E p \in Periods : TimePasses(p)

SnapSpec == SnapInit /\ [][SnapNext]_snapVars

\* The timer starts the tick again and again, every zfs command has a time limit, and
\* time passes.
SnapFairSpec ==
    SnapSpec /\ WF_snapVars(SnapTick) /\ \A p \in Periods : WF_snapVars(TimePasses(p))

----------------------------------------------------------------------------
(* Properties.                                                             *)

\* The newer ones of the same period.
Later(i) == {j \in DOMAIN snaps : j > i /\ snaps[j].series = snaps[i].series}

\* What the tick destroys is a snapshot of a period, and while the period is kept and
\* people have destroyed nothing since the list, as many newer ones of the period are
\* there as the policy keeps: no failed take, no crash and no order of the commands
\* costs the last one (the loops of tick.ts over todo.take and todo.destroy).
OutlivedByKeep ==
    [][acts' = acts /\ Len(snaps') < Len(snaps) =>
         \E n \in ToDestroy :
           LET p == snaps[n].series
           IN  /\ DestroysNext(n)
               /\ p \in Periods
               /\ "destroyed" \notin disturbed => Cardinality(Later(n)) >= policy[p]]_snapVars

\* A snapshot the tick takes differs from the one before it in its period, although
\* `changed' of plan is about the newest snapshot of any kind and is read before the
\* first is taken; only a roll back or a destroy by people in between, or an unreadable
\* written, lets an idle dataset have one.
TakesOnlyChanges ==
    [][\A t \in take \ take' : Len(snaps') > Len(snaps) /\ disturbed = {} =>
         \A i \in Mine(snaps, t.period) :
           \E j \in DOMAIN snaps' : j > i /\ snaps'[j].differs]_snapVars

\* While a policy keeps some period, what is written is in a snapshot in the end,
\* whatever fails a bounded number of times (due in plan and the take of the tick).
Captured == (dirty /\ keep # NoPolicy) ~> (~dirty \/ keep = NoPolicy)

\* While there is a policy, a period with more snapshots than it keeps, or one that was
\* switched off, comes down to its count: crashes between a take and the prune that
\* makes room, and prunes that fail, are made good by a later tick.
CountsKept ==
    \A p \in Periods : (Cardinality(Mine(snaps, p)) > keep[p] /\ keep # NoPolicy)
                         ~> (Cardinality(Mine(snaps, p)) <= keep[p] \/ keep = NoPolicy)
=============================================================================
