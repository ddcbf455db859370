---------------------------- MODULE Replication ----------------------------
(***************************************************************************)
(* One replication of one dataset: zfs send | ssh | zfs receive            *)
(* (agent/src/replication.ts, replicate).                                  *)
(*                                                                         *)
(* A run takes a snapshot, reads what both sides have, plans what to send, *)
(* sends it, and prunes its own old snapshots on both sides.  A send can   *)
(* break anywhere, leaving part of a stream on the target and a resume     *)
(* token; the runner can die at any step; other snapshots of the dataset   *)
(* (the policy's, a person's, another replication's) come and go meanwhile.*)
(*                                                                         *)
(* A snapshot is the instant it was taken at, which orders both its name   *)
(* and its creation; `own' holds the instants of repl-<id>-* snapshots.    *)
(* One run at a time is what the jobs table is for (ReplicationJobs).      *)
(***************************************************************************)
EXTENDS Naturals, FiniteSets, FiniteSetsExt

CONSTANTS
    Keep,       \* the replication's `keep': own snapshots kept on both sides
    MaxInstant, \* bound: instants
    MaxFaults,  \* bound: such failures in a row: failed commands, broken sends, dead runners
    MaxLost     \* bound: snapshots destroyed by somebody else

ASSUME ReplicationAssumption ==
    /\ Keep \in 1 .. 100
    /\ MaxInstant \in Nat \ {0}
    /\ MaxFaults \in Nat
    /\ MaxLost \in Nat

VARIABLES
    clock,      \* the present instant
    local,      \* the dataset's snapshots
    own,        \* the instants at which this replication took a snapshot
    lost,       \* history: snapshots that somebody else destroyed
    exists,     \* the target dataset exists
    remote,     \* the target's complete snapshots
    token,      \* the snapshot the target has part of (its resume token), or NoToken
    pc,         \* where the run is
    latest,     \* the snapshot this run took
    listed,     \* the local snapshots as the run listed them
    plan,       \* what the run sends
    todo,       \* own snapshots the run has yet to prune
    faults      \* failures since a run's new snapshot last reached the target

runVars == <<pc, latest, listed, plan, todo>>
vars == <<clock, local, own, lost, exists, remote, token, runVars, faults>>

NoToken == 0
NoPlan == [kind |-> "none", from |-> 0, to |-> 0]

Init ==
    /\ clock = 1
    /\ local = {} /\ own = {} /\ lost = {}
    /\ exists = FALSE /\ remote = {} /\ token = NoToken
    /\ pc = "idle" /\ latest = 0 /\ listed = {} /\ plan = NoPlan /\ todo = {}
    /\ faults = 0

Fault == faults < MaxFaults /\ faults' = faults + 1

----------------------------------------------------------------------------
(* Deciding what to send and what to prune.                                *)

\* Mutant of Plan: the first send is of the oldest snapshot, not the one just taken.
PlanOldest(mine, theirs, tok, new) ==
    LET common == mine \cap theirs IN
    IF tok # NoToken THEN [kind |-> "resume", from |-> 0, to |-> tok]
    ELSE IF theirs = {} THEN [kind |-> "full", from |-> 0, to |-> Min(mine \cup {new})]
    ELSE IF common = {} \/ Max(common) = new THEN NoPlan
    ELSE [kind |-> "incremental", from |-> Max(common), to |-> new]

\* plan(): a token beats everything, then the newest common snapshot is the base.
Plan(mine, theirs, tok, new) ==
    LET common == mine \cap theirs IN
    IF tok # NoToken THEN [kind |-> "resume", from |-> 0, to |-> tok]
    ELSE IF theirs = {} THEN [kind |-> "full", from |-> 0, to |-> new]
    ELSE IF common = {} THEN [kind |-> "diverged", from |-> 0, to |-> 0]
    ELSE IF Max(common) = new THEN NoPlan
    ELSE [kind |-> "incremental", from |-> Max(common), to |-> new]

\* Mutant of Excess: one snapshot fewer than `keep' stays.
ExcessOffByOne(mine) == {s \in mine : Cardinality({t \in mine : t > s}) >= Keep - 1}

\* mine.slice(0, length - keep): the own snapshots that `keep' newer ones outlive.
Excess(mine) == {s \in mine : Cardinality({t \in mine : t > s}) >= Keep}

\* Mutant of Mine: every snapshot of the dataset is taken for the replication's own.
MineIsAll(names, new) == names \cup {new}

\* ownSnapshots(), and the one just taken if the list missed it.
Mine(names, new) == (names \cap own) \cup {new}

----------------------------------------------------------------------------
(* zfs receive -s without -F (external).                                   *)

\* The snapshots `zfs send -I from to' puts in its stream.
Stream(from, to) == {s \in local : from < s /\ s <= to}

\* A stream can be sent if the source still has its ends, and received if it
\* continues exactly from the newest snapshot the target has; over part of another
\* stream only the rest of it is received.
Sendable(p) ==
    CASE p.kind = "full"        -> p.to \in local /\ ~exists
      [] p.kind = "incremental" -> {p.from, p.to} \subseteq local /\ p.from = Max(remote) /\ token = NoToken
      [] p.kind = "resume"      -> /\ p.to \in local
                                   /\ remote # {} => Max(remote) \in local
      [] OTHER                  -> FALSE

\* What a stream received to the end adds to the target.
Carries(p) == IF p.kind = "incremental" THEN Stream(p.from, p.to) ELSE {p.to}

\* A broken stream: the snapshots before some s arrived; of s the target has a
\* part, saved under a token, or nothing.
ReceivePart ==
    \E s \in Carries(plan) :
        /\ remote' = remote \cup {r \in Carries(plan) : r < s}
        /\ \/ token' = s /\ exists' = TRUE
           \/ token' = token /\ exists' = exists

----------------------------------------------------------------------------
(* A run.                                                                  *)

\* fail(): the job and the replication are marked failed, and the run is over.
Fail == pc' = "idle"

\* replicate() up to the snapshot: the job row is written, the row's names checked.
Begin ==
    /\ pc = "idle"
    /\ pc' = "snapshot"
    /\ UNCHANGED <<clock, local, own, lost, exists, remote, token, latest, listed, plan, todo, faults>>

\* zfs snapshot <dataset>@repl-<id>-<minute>: a second one in a minute is refused.
TakeSnapshot ==
    /\ pc = "snapshot"
    /\ \/ /\ clock \notin local
          /\ local' = local \cup {clock}
          /\ own' = own \cup {clock}
          /\ latest' = clock
          /\ pc' = "list"
          /\ UNCHANGED faults
       \/ /\ clock \in local \cap own
          /\ Fail
          /\ UNCHANGED <<local, own, latest, faults>>
       \/ Fault /\ Fail /\ UNCHANGED <<local, own, latest>>
    /\ UNCHANGED <<clock, lost, exists, remote, token, listed, plan, todo>>

ListLocal ==
    /\ pc = "list"
    /\ listed' = local
    /\ pc' = "look"
    /\ UNCHANGED <<clock, local, own, lost, exists, remote, token, latest, plan, todo, faults>>

\* remoteSnapshots: a target dataset that does not exist has none, and is asked for no
\* token; whatever else ssh says ends the run.
RemoteSnapshots == IF exists THEN remote ELSE {}
RemoteToken == IF exists THEN token ELSE NoToken

\* The target's snapshots and its token over ssh, then plan(): a diverged target
\* fails the run, nothing to send ends it well.  A token that cannot be read is taken
\* for none.
LookAtTarget ==
    /\ pc = "look"
    /\ \/ /\ \/ plan' = Plan(listed, RemoteSnapshots, RemoteToken, latest) /\ UNCHANGED faults
             \/ plan' = Plan(listed, RemoteSnapshots, NoToken, latest) /\ RemoteToken # NoToken /\ Fault
          /\ pc' = IF plan'.kind \in {"none", "diverged"} THEN "idle" ELSE "send"
       \/ Fault /\ Fail /\ UNCHANGED plan
    /\ UNCHANGED <<clock, local, own, lost, exists, remote, token, latest, listed, todo>>

\* The pipe ran to the end with exit code 0; what is to be pruned is worked out.
Send ==
    /\ pc = "send"
    /\ Sendable(plan)
    /\ exists' = TRUE
    /\ remote' = remote \cup Carries(plan)
    /\ token' = NoToken
    /\ todo' = Excess(Mine(listed, latest))
    /\ pc' = "prune"
    /\ faults' = IF plan.kind = "resume" THEN faults ELSE 0
    /\ UNCHANGED <<clock, local, own, lost, latest, listed, plan>>

\* The source cannot send the stream or the target will not take it.
SendRefused ==
    /\ pc = "send"
    /\ ~Sendable(plan)
    /\ Fail
    /\ UNCHANGED <<clock, local, own, lost, exists, remote, token, latest, listed, plan, todo, faults>>

\* The connection broke, or the runner died with it.
SendBreaks ==
    /\ pc = "send"
    /\ Sendable(plan)
    /\ Fault
    /\ ReceivePart
    /\ Fail
    /\ UNCHANGED <<clock, local, own, lost, latest, listed, plan, todo>>

\* zfs destroy here, oldest first; its failure is ignored.
PruneLocal ==
    /\ pc = "prune"
    /\ todo # {}
    /\ local' \in {local, local \ {Min(todo)}}
    /\ pc' = "pruneTarget"
    /\ UNCHANGED <<clock, own, lost, exists, remote, token, latest, listed, plan, todo, faults>>

\* Mutant of PruneTarget: the target's copy of the newest snapshot goes instead.
PruneTargetNewest ==
    /\ pc = "pruneTarget"
    /\ remote' \in {remote, remote \ {latest}}
    /\ todo' = todo \ {Min(todo)}
    /\ pc' = "prune"
    /\ UNCHANGED <<clock, local, own, lost, exists, token, latest, listed, plan, faults>>

\* The same snapshot on the target; a failure is ignored here too.
PruneTarget ==
    /\ pc = "pruneTarget"
    /\ remote' \in {remote, remote \ {Min(todo)}}
    /\ todo' = todo \ {Min(todo)}
    /\ pc' = "prune"
    /\ UNCHANGED <<clock, local, own, lost, exists, token, latest, listed, plan, faults>>

\* finishReplication and finishJob.
Finish ==
    /\ pc = "prune"
    /\ todo = {}
    /\ pc' = "idle"
    /\ UNCHANGED <<clock, local, own, lost, exists, remote, token, latest, listed, plan, todo, faults>>

\* The runner dies at a step other than the send.
Crash ==
    /\ pc \notin {"idle", "send"}
    /\ Fault
    /\ pc' = "idle"
    /\ UNCHANGED <<clock, local, own, lost, exists, remote, token, latest, listed, plan, todo>>

----------------------------------------------------------------------------
(* Everybody else.                                                         *)

Advance ==
    /\ clock < MaxInstant
    /\ clock' = clock + 1
    /\ UNCHANGED <<local, own, lost, exists, remote, token, runVars, faults>>

\* A snapshot of the dataset that is not this replication's.
OthersTake ==
    /\ clock < MaxInstant
    /\ clock \notin local \cup own
    /\ local' = local \cup {clock}
    /\ UNCHANGED <<clock, own, lost, exists, remote, token, runVars, faults>>

\* snapshot.destroy, or the policy's pruning.
OthersDestroy(s) ==
    /\ Cardinality(lost) < MaxLost
    /\ local' = local \ {s}
    /\ lost' = lost \cup {s}
    /\ UNCHANGED <<clock, own, exists, remote, token, runVars, faults>>

Run ==
    \/ TakeSnapshot \/ ListLocal \/ LookAtTarget \/ Send \/ SendRefused \/ SendBreaks
    \/ PruneLocal \/ PruneTarget \/ Finish

Next ==
    \/ Begin
    \/ Run
    \/ Crash
    \/ Advance
    \/ OthersTake
    \/ \E s \in local : OthersDestroy(s)

Spec == Init /\ [][Next]_vars

----------------------------------------------------------------------------
(* Properties.                                                             *)

\* replication.ts:302-309.  What the next run needs is still there, unless somebody
\* else destroyed it: the newest snapshot the target has is here as the base of the
\* next incremental send, a snapshot the target has part of is here to be resumed,
\* and the target dataset is never left with neither (which no send can follow).
\* The prune keeps the newest `keep' own snapshots, not the base: each failure can
\* leave two snapshots unsent, so this holds while `keep' is at least twice the failures
\* since a run last delivered its snapshot, and again once one has.
Lately == 2 * faults <= Keep

CanContinue == Lately =>
    /\ remote # {} => Max(remote) \in local \cup lost
    /\ token # NoToken => token \in local \cup lost
    /\ exists => remote # {} \/ token # NoToken

\* replication.ts:290-309 and docs/replication-target.md: the target is never rolled
\* back, neither by the receive nor by the prune, under the same condition.
NeverRolledBack ==
    [][Lately /\ remote # {} => remote' # {} /\ Max(remote') >= Max(remote)]_vars

\* replication.ts:302.  A run destroys nothing but this replication's own snapshots,
\* on either side, and never the one it has just taken.
OnlyOwnDestroyed ==
    [][/\ remote \ remote' \subseteq own \ {latest}
       /\ Run => local \ local' \subseteq own \ {latest}]_vars

\* replication.ts:275-313.  A run that sent its new snapshot, whole or on top of a
\* base, reaches its end with that snapshot on the target.
Delivered ==
    pc \in {"prune", "pruneTarget"} /\ plan.kind \in {"full", "incremental"} => latest \in remote

=============================================================================
