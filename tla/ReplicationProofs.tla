-------------------------- MODULE ReplicationProofs --------------------------
(***************************************************************************)
(* What a run may destroy and what it delivers, for any keep, any number   *)
(* of instants and failures, and whatever others do to the dataset's       *)
(* snapshots.  The argument: instants only grow, so the snapshot a run has *)
(* taken is the newest own one, and nothing on the target is newer while   *)
(* it looks and sends; what is pruned has `keep' newer ones, so it is not  *)
(* that one.  That the next run can continue takes a count of what failed  *)
(* runs leave behind, and a keep of at least twice the failures since a    *)
(* snapshot was last delivered (RunInv).                                   *)
(***************************************************************************)
EXTENDS Replication, ReplicationJobs, FiniteSetTheorems, WellFoundedInduction, TLAPS

Steps == {"idle", "snapshot", "list", "look", "send", "prune", "pruneTarget"}

\* No snapshot is of the future.
Times == /\ clock \in Nat \ {0} /\ latest \in Nat /\ token \in Nat /\ pc \in Steps
         /\ local \subseteq 1 .. clock /\ own \subseteq 1 .. clock /\ remote \subseteq 1 .. clock
         /\ token <= clock /\ listed \subseteq 1 .. clock

\* The snapshot the run has taken is its newest.
Newest == pc \in {"list", "look", "send", "prune", "pruneTarget"} =>
            latest \in own /\ \A s \in own : s <= latest

\* Until it has sent, the target has nothing newer; what it sends up to is that one.
Ahead == /\ pc \in {"list", "look", "send"} => \A s \in remote : s <= latest
         /\ pc = "send" /\ plan.kind = "full" => plan.to = latest
         /\ pc = "send" /\ plan.kind = "incremental" => plan.to = latest /\ plan.from \in Nat /\ plan.from < latest

\* What is left to prune is own and older.
Pruning == /\ pc \in {"prune", "pruneTarget"} => todo \subseteq own \ {latest}
           /\ pc = "pruneTarget" => todo # {}

IInv == Times /\ Newest /\ Ahead /\ Pruning /\ Delivered
----------------------------------------------------------------------------
(* The oldest and the newest of a set of instants *)

\* Some instant of a set is the oldest, and Min is that one.
LEMMA MinFacts == ASSUME NEW S \in SUBSET Nat, S # {} PROVE Min(S) \in S /\ \A s \in S : Min(S) <= s
<1>1. \E x \in S : \A y \in S : ~(<<y, x>> \in OpToRel(<, Nat))
  BY WFMin, NatLessThanWellFounded
<1>2. PICK x \in S : \A y \in S : ~(<<y, x>> \in OpToRel(<, Nat))
  BY <1>1
<1>3. ASSUME NEW y \in S PROVE x <= y
  <2>1. x \in Nat /\ y \in Nat /\ <<y, x>> \in Nat \X Nat
    OBVIOUS
  <2>2. ~(y < x)
    BY <1>2, <2>1 DEF OpToRel
  <2>. QED
    BY <2>1, <2>2
<1>. QED
  BY <1>3 DEF Min

\* A set with a bound has a newest, and Max is that one.
LEMMA MaxFacts ==
    ASSUME NEW S \in SUBSET Nat, S # {}, NEW b \in Nat, \A s \in S : s <= b
    PROVE  Max(S) \in S /\ \A s \in S : s <= Max(S)
<1>. DEFINE U == {u \in Nat : \A s \in S : s <= u}
<1>1. U \in SUBSET Nat /\ b \in U
  OBVIOUS
<1>2. PICK m : m = Min(U)
  OBVIOUS
<1>3. m \in U /\ \A u \in U : m <= u
  BY <1>1, <1>2, MinFacts
<1>4. m \in S
  <2> SUFFICES ASSUME m \notin S PROVE FALSE
    OBVIOUS
  <2>1. \A s \in S : s < m
    BY <1>3
  <2>2. m > 0
    <3>1. PICK s \in S : TRUE
      OBVIOUS
    <3>2. s \in Nat /\ m \in Nat /\ s < m
      BY <1>3, <2>1, <3>1
    <3>. QED
      BY <3>2
  <2>3. m - 1 \in U
    BY <1>3, <2>1, <2>2
  <2>. QED
    BY <1>3, <2>2, <2>3
<1>5. m \in S /\ \A s \in S : m >= s
  BY <1>3, <1>4
<1>6. \A x \in S : (\A y \in S : x >= y) => x = m
  BY <1>5
<1>. QED
  BY <1>5, <1>6 DEF Max

\* The newest of a set is never among what keep newer ones outlive.
LEMMA ExcessFacts ==
    ASSUME NEW mine \in SUBSET Nat, NEW new \in mine, \A s \in mine : s <= new
    PROVE  Excess(mine) \subseteq mine \ {new}
<1>1. \A t \in mine : ~(t > new)
  <2> SUFFICES ASSUME NEW t \in mine PROVE ~(t > new)
    OBVIOUS
  <2>1. t \in Nat /\ new \in Nat /\ t <= new
    OBVIOUS
  <2>. QED
    BY <2>1
<1>2. Cardinality({t \in mine : t > new}) = 0
  <2>1. {t \in mine : t > new} = {}
    BY <1>1
  <2>. QED
    BY <2>1, FS_EmptySet
<1>3. ~(Cardinality({t \in mine : t > new}) >= Keep)
  BY <1>2, ReplicationAssumption
<1>. QED
  BY <1>3 DEF Excess
----------------------------------------------------------------------------
(* The steps *)

LEMMA InitIInv == Init => IInv
<1> SUFFICES ASSUME Init PROVE IInv
  OBVIOUS
<1>1. Times
  BY DEF Init, Times, Steps, NoToken
<1>2. Newest /\ Ahead /\ Pruning /\ Delivered
  BY DEF Init, Newest, Ahead, Pruning, Delivered
<1>. QED
  BY <1>1, <1>2 DEF IInv

\* Steps of others: snapshots here come and go, and time passes.
LEMMA OthersKeep ==
    ASSUME IInv, Advance \/ OthersTake \/ (\E s \in local : OthersDestroy(s)) \/ Begin \/ Crash \/ UNCHANGED vars
    PROVE  IInv' /\ UNCHANGED remote
<1>1. UNCHANGED <<own, remote, token, latest, listed, plan, todo>> /\ (pc' = pc \/ pc' = "idle" \/ pc' = "snapshot")
  BY DEF Advance, OthersTake, OthersDestroy, Begin, Crash, vars, runVars
<1>2. clock' = clock \/ clock' = clock + 1
  BY DEF Advance, OthersTake, OthersDestroy, Begin, Crash, vars
<1>3. local' \subseteq local \cup {clock}
  BY DEF Advance, OthersTake, OthersDestroy, Begin, Crash, vars
<1>4. clock' \in Nat \ {0} /\ clock <= clock' /\ 1 .. clock \subseteq 1 .. clock' /\ clock \in 1 .. clock
  BY <1>2 DEF IInv, Times
<1>5. Times'
  BY <1>1, <1>3, <1>4 DEF IInv, Times, Steps
<1>6. Newest' /\ Ahead' /\ Pruning' /\ Delivered'
  BY <1>1 DEF IInv, Newest, Ahead, Pruning, Delivered
<1>. QED
  BY <1>1, <1>5, <1>6 DEF IInv

\* The snapshot that is taken is the newest: its instant is the present.
LEMMA TakeKeeps == ASSUME IInv, TakeSnapshot PROVE IInv' /\ UNCHANGED remote /\ local \subseteq local'
<1>1. UNCHANGED <<clock, remote, token, listed, plan, todo>>
  BY DEF TakeSnapshot
<1>2. CASE pc' = "list" /\ local' = local \cup {clock} /\ own' = own \cup {clock} /\ latest' = clock
  <2>1. Times' /\ Newest'
    BY <1>1, <1>2 DEF IInv, Times, Newest, Steps
  <2>2. Ahead' /\ Pruning' /\ Delivered'
    BY <1>1, <1>2 DEF IInv, Times, Ahead, Pruning, Delivered
  <2>. QED
    BY <1>1, <1>2, <2>1, <2>2 DEF IInv
<1>3. CASE pc' = "idle" /\ UNCHANGED <<local, own, latest>>
  <2>1. Times' /\ Newest' /\ Ahead' /\ Pruning' /\ Delivered'
    BY <1>1, <1>3 DEF IInv, Times, Steps, Newest, Ahead, Pruning, Delivered
  <2>. QED
    BY <1>1, <1>3, <2>1 DEF IInv
<1>. QED
  BY <1>2, <1>3 DEF TakeSnapshot, Fail

LEMMA ListKeeps == ASSUME IInv, ListLocal PROVE IInv' /\ UNCHANGED <<remote, local>>
<1>1. /\ pc = "list" /\ pc' = "look" /\ listed' = local
      /\ UNCHANGED <<clock, local, own, remote, token, latest, plan, todo>>
  BY DEF ListLocal
<1>2. Times' /\ Newest' /\ Ahead' /\ Pruning' /\ Delivered'
  BY <1>1 DEF IInv, Times, Steps, Newest, Ahead, Pruning, Delivered
<1>. QED
  BY <1>1, <1>2 DEF IInv

\* plan(): the base of an incremental send is older than what is sent.
LEMMA PlanFacts ==
    ASSUME NEW mine \in SUBSET Nat, NEW theirs \in SUBSET Nat, NEW tok, NEW new \in Nat, \A s \in theirs : s <= new
    PROVE  LET p == Plan(mine, theirs, tok, new) IN
           /\ p.kind = "full" => p.to = new
           /\ p.kind = "incremental" => p.to = new /\ p.from \in Nat /\ p.from < new
<1>. DEFINE common == mine \cap theirs
<1>1. CASE tok # NoToken \/ theirs = {} \/ common = {} \/ Max(common) = new
  BY <1>1 DEF Plan, NoPlan
<1>2. CASE tok = NoToken /\ theirs # {} /\ common # {} /\ Max(common) # new
  <2>1. Max(common) \in common
    BY <1>2, MaxFacts
  <2>2. PICK m : m = Max(common)
    OBVIOUS
  <2>3. m \in Nat /\ m <= new /\ m # new
    BY <1>2, <2>1, <2>2
  <2>4. m < new
    BY <2>3
  <2>5. Plan(mine, theirs, tok, new) = [kind |-> "incremental", from |-> m, to |-> new]
    BY <1>2, <2>2 DEF Plan
  <2>. QED
    BY <2>3, <2>4, <2>5
<1>. QED
  BY <1>1, <1>2

LEMMA LookKeeps == ASSUME IInv, LookAtTarget PROVE IInv' /\ UNCHANGED <<remote, local>>
<1>1. pc = "look" /\ UNCHANGED <<clock, local, own, remote, token, latest, listed, todo>>
  BY DEF LookAtTarget
<1>2. CASE pc' = "send" /\ \E tok : plan' = Plan(listed, RemoteSnapshots, tok, latest)
  <2>1. /\ listed \in SUBSET Nat /\ RemoteSnapshots \in SUBSET Nat /\ latest \in Nat
        /\ \A s \in RemoteSnapshots : s <= latest
    BY <1>1 DEF IInv, Times, Ahead, RemoteSnapshots
  <2>2. /\ plan'.kind = "full" => plan'.to = latest
        /\ plan'.kind = "incremental" => plan'.to = latest /\ plan'.from \in Nat /\ plan'.from < latest
    BY <1>2, <2>1, PlanFacts
  <2>3. Times' /\ Newest' /\ Ahead' /\ Pruning' /\ Delivered'
    BY <1>1, <1>2, <2>2 DEF IInv, Times, Steps, Newest, Ahead, Pruning, Delivered
  <2>. QED
    BY <1>1, <2>3 DEF IInv
<1>3. CASE pc' = "idle"
  <2>1. Times' /\ Newest' /\ Ahead' /\ Pruning' /\ Delivered'
    BY <1>1, <1>3 DEF IInv, Times, Steps, Newest, Ahead, Pruning, Delivered
  <2>. QED
    BY <1>1, <2>1 DEF IInv
<1>. QED
  BY <1>2, <1>3 DEF LookAtTarget, Fail

\* What a stream carries is here or was asked for by its token.
LEMMA CarriesFacts ==
    ASSUME IInv, pc = "send", Sendable(plan)
    PROVE  /\ Carries(plan) \subseteq 1 .. clock
           /\ plan.kind \in {"full", "incremental"} => latest \in Carries(plan)
<1>1. plan.kind \in {"full", "incremental", "resume"} /\ plan.to \in local
  BY DEF Sendable
<1>2. CASE plan.kind = "incremental"
  <2>1. Carries(plan) = Stream(plan.from, plan.to) /\ plan.to = latest /\ plan.from < latest /\ plan.to <= latest
    BY <1>2 DEF Carries, IInv, Ahead, Times
  <2>. QED
    BY <1>1, <2>1 DEF Stream, IInv, Times
<1>3. CASE plan.kind # "incremental"
  BY <1>1, <1>3 DEF Carries, IInv, Ahead, Times
<1>. QED
  BY <1>2, <1>3

LEMMA SendKeeps == ASSUME IInv, Send PROVE IInv' /\ remote \subseteq remote' /\ UNCHANGED local
<1>1. /\ pc = "send" /\ pc' = "prune" /\ remote' = remote \cup Carries(plan) /\ token' = NoToken
      /\ todo' = Excess(Mine(listed, latest)) /\ UNCHANGED <<clock, local, own, latest, listed, plan>>
  BY DEF Send
<1>2. /\ Carries(plan) \subseteq 1 .. clock
      /\ plan.kind \in {"full", "incremental"} => latest \in Carries(plan)
  BY CarriesFacts DEF Send
<1>3. latest \in own /\ (\A s \in own : s <= latest) /\ own \subseteq Nat /\ latest \in Nat
  BY <1>1 DEF IInv, Newest, Times
<1>. DEFINE mine == Mine(listed, latest)
<1>4. mine \in SUBSET Nat /\ latest \in mine /\ mine \subseteq own /\ \A s \in mine : s <= latest
  BY <1>3 DEF Mine
<1>. HIDE DEF mine
<1>5. Excess(mine) \subseteq mine \ {latest}
  BY <1>4, ExcessFacts
<1>6. todo' \subseteq own \ {latest}
  BY <1>1, <1>4, <1>5 DEF mine
<1>7. Times'
  <2>1. remote' \subseteq 1 .. clock /\ token' = 0
    BY <1>1, <1>2 DEF IInv, Times, NoToken
  <2>2. clock \in Nat /\ 0 <= clock
    BY DEF IInv, Times
  <2>. QED
    BY <1>1, <2>1, <2>2 DEF IInv, Times, Steps
<1>8. Newest' /\ Ahead' /\ Pruning' /\ Delivered'
  BY <1>1, <1>2, <1>3, <1>6 DEF Newest, Ahead, Pruning, Delivered
<1>. QED
  BY <1>1, <1>7, <1>8 DEF IInv

\* A send that is refused or breaks ends the run; what did arrive stays.
LEMMA SendEndsKeeps == ASSUME IInv, SendRefused \/ SendBreaks PROVE IInv' /\ remote \subseteq remote' /\ UNCHANGED local
<1>1. pc = "send" /\ pc' = "idle" /\ UNCHANGED <<clock, local, own, latest, listed>>
  BY DEF SendRefused, SendBreaks, Fail
<1>2. remote \subseteq remote' /\ remote' \subseteq 1 .. clock /\ token' \in 0 .. clock
  <2>1. CASE SendRefused
    BY <2>1 DEF SendRefused, IInv, Times
  <2>2. CASE SendBreaks
    <3>1. PICK s \in Carries(plan) : remote' = remote \cup {r \in Carries(plan) : r < s} /\ (token' = s \/ token' = token)
      BY <2>2 DEF SendBreaks, ReceivePart
    <3>2. Carries(plan) \subseteq 1 .. clock
      BY <2>2, CarriesFacts DEF SendBreaks
    <3>3. token \in 0 .. clock /\ remote \subseteq 1 .. clock
      BY DEF IInv, Times
    <3>4. s \in 0 .. clock
      BY <3>2 DEF IInv, Times
    <3>. QED
      BY <3>1, <3>2, <3>3, <3>4
  <2>. QED
    BY <2>1, <2>2
<1>3. Times'
  BY <1>1, <1>2 DEF IInv, Times, Steps
<1>4. Newest' /\ Ahead' /\ Pruning' /\ Delivered'
  BY <1>1 DEF Newest, Ahead, Pruning, Delivered
<1>. QED
  BY <1>1, <1>2, <1>3, <1>4 DEF IInv

\* What is pruned is own and not the newest.
LEMMA PruneKeeps ==
    ASSUME IInv, PruneLocal \/ PruneTarget \/ Finish
    PROVE  IInv' /\ remote \ remote' \subseteq own \ {latest} /\ local \ local' \subseteq own \ {latest}
<1>1. UNCHANGED <<clock, own, token, latest, listed, plan>> /\ pc \in {"prune", "pruneTarget"}
  BY DEF PruneLocal, PruneTarget, Finish
<1>2. todo \subseteq own \ {latest} /\ todo \in SUBSET Nat
  <2>1. own \subseteq Nat
    BY DEF IInv, Times
  <2>2. todo \subseteq own \ {latest}
    BY <1>1 DEF IInv, Pruning
  <2>. QED
    BY <2>1, <2>2
<1>3. CASE PruneLocal
  <2>1. /\ todo # {} /\ local' \in {local, local \ {Min(todo)}} /\ pc' = "pruneTarget" /\ UNCHANGED <<remote, todo>>
        /\ pc = "prune"
    BY <1>3 DEF PruneLocal
  <2>2. Min(todo) \in own \ {latest}
    BY <1>2, <2>1, MinFacts
  <2>3. Times' /\ Newest' /\ Ahead' /\ Pruning' /\ Delivered'
    BY <1>1, <1>2, <2>1 DEF IInv, Times, Steps, Newest, Ahead, Pruning, Delivered
  <2>. QED
    BY <2>1, <2>2, <2>3 DEF IInv
<1>4. CASE PruneTarget
  <2>1. /\ pc = "pruneTarget" /\ remote' \in {remote, remote \ {Min(todo)}} /\ todo' = todo \ {Min(todo)}
        /\ pc' = "prune" /\ UNCHANGED local
    BY <1>4 DEF PruneTarget
  <2>2. todo # {}
    BY <2>1 DEF IInv, Pruning
  <2>3. Min(todo) \in own \ {latest}
    BY <1>2, <2>2, MinFacts
  <2>4. Times' /\ Newest' /\ Ahead' /\ Pruning' /\ Delivered'
    BY <1>1, <1>2, <2>1, <2>3 DEF IInv, Times, Steps, Newest, Ahead, Pruning, Delivered
  <2>. QED
    BY <2>1, <2>3, <2>4 DEF IInv
<1>5. CASE Finish
  <2>1. pc' = "idle" /\ UNCHANGED <<remote, local, todo>>
    BY <1>5 DEF Finish
  <2>2. Times' /\ Newest' /\ Ahead' /\ Pruning' /\ Delivered'
    BY <1>1, <2>1 DEF IInv, Times, Steps, Newest, Ahead, Pruning, Delivered
  <2>. QED
    BY <2>1, <2>2 DEF IInv
<1>. QED
  BY <1>3, <1>4, <1>5
----------------------------------------------------------------------------
(* The theorems *)

LEMMA NextFacts ==
    ASSUME IInv, [Next]_vars
    PROVE  /\ IInv' /\ remote \ remote' \subseteq own \ {latest}
           /\ Run => local \ local' \subseteq own \ {latest}
<1>1. CASE Run
  BY <1>1, TakeKeeps, ListKeeps, LookKeeps, SendKeeps, SendEndsKeeps, PruneKeeps DEF Run
<1>2. CASE ~Run
  BY <1>2, OthersKeep DEF Next
<1>. QED
  BY <1>1, <1>2

\* For every keep, and however many failures and losses: a run that sent its new snapshot ends with it on the
\* target; the prune after it never takes it away.
THEOREM SentIsDelivered == Spec => []Delivered
<1>1. Init => IInv
  BY InitIInv
<1>2. IInv /\ [Next]_vars => IInv'
  BY NextFacts
<1>3. IInv => Delivered
  BY DEF IInv
<1>. QED
  BY <1>1, <1>2, <1>3, PTL DEF Spec

\* For the same systems: a run destroys only snapshots of its own replication, on either side, and never the
\* one it has just taken.
THEOREM OthersSnapshotsStay == Spec => OnlyOwnDestroyed
<1>1. Init => IInv
  BY InitIInv
<1>2. IInv /\ [Next]_vars => IInv'
  BY NextFacts
<1>3. IInv /\ [Next]_vars => [/\ remote \ remote' \subseteq own \ {latest}
                              /\ Run => local \ local' \subseteq own \ {latest}]_vars
  BY NextFacts
<1>. QED
  BY <1>1, <1>2, <1>3, PTL DEF Spec, OnlyOwnDestroyed
----------------------------------------------------------------------------
(* The next run can continue, while keep is at least twice the failures since  *)
(* a run last delivered its snapshot, which starts the count over.  Count      *)
(* the own snapshots here that are newer than all the target has, or has part  *)
(* of.  A failure leaves at most one more of them, and the run that resumes    *)
(* what it broke another; a send that goes through leaves none.  So fewer than *)
(* `keep' are newer than a resumed own snapshot, and the prune that follows    *)
(* does not take it.  Once somebody else destroyed the base or what is to be   *)
(* resumed nothing is sent any more, nor pruned.                               *)

Small(S, k) == IsFiniteSet(S) /\ Cardinality(S) <= k

\* The newest snapshot of the target.
Top(b, there) == b \in there /\ \A r \in there : r <= b

\* What a send needs is still here.
Live(here, there, tok) == /\ \A b \in there : Top(b, there) => b \in here
                          /\ tok # NoToken => tok \in here

\* Those of a set that the target has nothing as new as.
Above(S, there, tok) == {o \in S : o > tok /\ \A r \in there : o > r}

\* How many own snapshots may be, after f failures.
Room(f, tok, mine) == IF tok = NoToken THEN 2 * f ELSE IF tok \in mine THEN 2 * f - 2 ELSE 2 * f - 1

\* CanContinue, and what a token says of the target.
Target == /\ token # NoToken => /\ exists /\ faults >= 1 /\ (\A r \in remote : r < token)
                                /\ token \in local \cup lost /\ pc \notin {"prune", "pruneTarget"}
          /\ remote # {} => exists
          /\ exists => remote # {} \/ token # NoToken
          /\ \A b \in remote : Top(b, remote) => b \in local \cup lost

\* What the run sends fits the target as it is; the newest snapshot there is not to be pruned.
Planned == /\ pc = "send" => plan.kind \in {"full", "incremental", "resume"}
           /\ pc = "send" /\ plan.kind = "resume" => plan.to = token /\ token # NoToken
           /\ pc = "send" /\ plan.kind = "full" => remote = {}
           /\ pc = "send" /\ plan.kind = "incremental" =>
                plan.from \in remote /\ \A c \in listed \cap remote : c <= plan.from
           /\ pc \in {"prune", "pruneTarget"} => \A b \in todo : ~Top(b, remote)

\* The run could not read the token there is: its send will be refused, and the failure is counted.
Blind == pc = "send" /\ plan.kind # "resume" /\ token # NoToken

\* What came here after the run listed is newer than what it took.
Fresh == pc \in {"look", "send"} => \A s \in local : s \in listed \/ s > latest

Count == Live(local, remote, token) =>
           /\ pc \in {"idle", "snapshot", "prune", "pruneTarget"} =>
                Small(Above(local \cap own, remote, token), Room(faults, token, own))
           /\ pc = "list" =>
                Small(Above((local \cap own) \cup {latest}, remote, token), Room(faults, token, own) + 1)
           /\ pc \in {"look", "send"} =>
                Small(Above((listed \cap own) \cup {latest}, remote, token), Room(faults, token, own) + 1)
           /\ Blind => Small(Above((listed \cap own) \cup {latest}, remote, token), Room(faults, token, own))

RunInv == faults \in Nat /\ Target /\ Planned /\ Fresh /\ Count

\* Counting: fewer, one more, one less.
LEMMA SmallSub == ASSUME NEW T, NEW S \in SUBSET T, NEW k \in Int, NEW j \in Int, k <= j, Small(T, k) PROVE Small(S, j)
<1>1. IsFiniteSet(S) /\ Cardinality(S) <= Cardinality(T) /\ Cardinality(S) \in Nat /\ Cardinality(T) \in Nat
  BY FS_Subset, FS_CardinalityType DEF Small
<1>. QED
  BY <1>1 DEF Small

LEMMA SmallAdd == ASSUME NEW T, NEW x, NEW k \in Int, Small(T, k) PROVE Small(T \cup {x}, k + 1)
<1>1. IsFiniteSet(T \cup {x}) /\ Cardinality(T \cup {x}) \in {Cardinality(T), Cardinality(T) + 1} /\ Cardinality(T) \in Nat
  BY FS_AddElement, FS_CardinalityType DEF Small
<1>. QED
  BY <1>1 DEF Small

LEMMA SmallDrop == ASSUME NEW T, NEW x \in T, NEW S \in SUBSET (T \ {x}), NEW k \in Int, Small(T, k) PROVE Small(S, k - 1)
<1>1. IsFiniteSet(T \ {x}) /\ Cardinality(T \ {x}) = Cardinality(T) - 1 /\ Cardinality(T) \in Nat
  BY FS_RemoveElement, FS_CardinalityType DEF Small
<1>2. Small(T \ {x}, k - 1)
  BY <1>1 DEF Small
<1>. QED
  BY <1>2, SmallSub

LEMMA SmallEmpty == ASSUME NEW k \in Nat PROVE Small({}, k)
BY FS_EmptySet DEF Small

\* The room is a number, and a failure makes two more.
LEMMA RoomFacts ==
  ASSUME NEW f \in Nat, NEW tok \in Nat, NEW mine, tok # NoToken => f >= 1
  PROVE  Room(f, tok, mine) \in Nat /\ Room(f + 1, tok, mine) = Room(f, tok, mine) + 2
BY DEF Room

\* When the target has, or has part of, the snapshot of this instant, nothing is newer.
LEMMA NothingAbove ==
  ASSUME NEW now \in Nat, NEW S \in SUBSET (1 .. now), NEW there, NEW tok, tok = now \/ now \in there
  PROVE  Above(S, there, tok) = {}
<1>1. \A o \in S : ~(o > now)
  OBVIOUS
<1>. QED
  BY <1>1 DEF Above

\* Max is the newest, and there is only one.
LEMMA TopFacts ==
  ASSUME NEW n \in Nat, NEW there \in SUBSET (1 .. n), there # {}
  PROVE  Top(Max(there), there) /\ \A b : Top(b, there) => b = Max(there)
<1>1. PICK m : m = Max(there)
  OBVIOUS
<1>2. there \in SUBSET Nat /\ \A s \in there : s <= n
  OBVIOUS
<1>3. m \in there /\ \A s \in there : s <= m
  BY <1>1, <1>2, MaxFacts
<1>4. ASSUME NEW b, Top(b, there) PROVE b = m
  <2>1. b \in Nat /\ m \in Nat /\ b <= m /\ m <= b
    BY <1>2, <1>3, <1>4 DEF Top
  <2>. QED
    BY <2>1
<1>. QED
  BY <1>1, <1>3, <1>4 DEF Top

\* Where the target is left alone and nothing of ours goes but what others destroy.
LEMMA TargetStays ==
  ASSUME Target, UNCHANGED <<remote, token, exists>>, local \subseteq local' \cup lost', lost \subseteq lost',
         faults \in Nat, faults' \in {faults, faults + 1},
         pc' \in {"prune", "pruneTarget"} => pc \in {"prune", "pruneTarget"}
  PROVE  Target'
BY DEF Target

\* The room there is, in a state of the invariant.
LEMMA RoomNow == ASSUME IInv, RunInv
                 PROVE  /\ Room(faults, token, own) \in Nat
                        /\ Room(faults + 1, token, own) = Room(faults, token, own) + 2
<1>1. token \in Nat /\ faults \in Nat /\ (token # NoToken => faults >= 1)
  BY DEF IInv, Times, RunInv, Target
<1>. QED
  BY <1>1, RoomFacts

\* A failure: what is newer than the target's may be two more.
LEMMA FaultFacts == ASSUME IInv, RunInv, Fault
                    PROVE  faults' = faults + 1 /\ faults' \in Nat
<1>1. faults' = faults + 1 /\ faults \in Nat
  BY DEF Fault, RunInv
<1>. QED
  BY <1>1

\* Time passes, a run begins, a snapshot goes.
LEMMA OthersContinue ==
  ASSUME IInv, RunInv, Advance \/ (\E s \in local : OthersDestroy(s)) \/ Begin \/ UNCHANGED vars
  PROVE  RunInv'
<1>1. /\ UNCHANGED <<own, remote, token, exists, latest, listed, plan, todo, faults>>
      /\ pc' = pc \/ (pc = "idle" /\ pc' = "snapshot")
  BY DEF Advance, OthersDestroy, Begin, vars, runVars
<1>2. local' \subseteq local /\ local \subseteq local' \cup lost' /\ lost \subseteq lost'
  BY DEF Advance, OthersDestroy, Begin, vars
<1>3. faults \in Nat /\ Room(faults, token, own) \in Nat /\ Room(faults, token, own) + 1 \in Nat
  BY RoomNow DEF RunInv
<1>4. Target' /\ Planned' /\ Fresh'
  <2>1. Target'
    BY <1>1, <1>2, TargetStays DEF RunInv
  <2>2. Planned' /\ Fresh'
    BY <1>1, <1>2 DEF RunInv, Planned, Fresh
  <2>. QED
    BY <2>1, <2>2
<1>5. Count'
  <2> SUFFICES ASSUME Live(local', remote', token') PROVE Count'
    BY DEF Count
  <2>1. Live(local, remote, token)
    BY <1>1, <1>2 DEF Live
  <2> DEFINE R == Room(faults, token, own)
  <2>2. /\ pc' \in {"idle", "snapshot", "prune", "pruneTarget"} => Small(Above(local \cap own, remote, token), R)
        /\ pc' = "list" => Small(Above((local \cap own) \cup {latest}, remote, token), R + 1)
        /\ pc' \in {"look", "send"} => Small(Above((listed \cap own) \cup {latest}, remote, token), R + 1)
        /\ Blind' => Small(Above((listed \cap own) \cup {latest}, remote, token), R)
    BY <1>1, <2>1 DEF RunInv, Count, Blind
  <2>3. /\ Above(local' \cap own, remote, token) \in SUBSET Above(local \cap own, remote, token)
        /\ Above((local' \cap own) \cup {latest}, remote, token)
             \in SUBSET Above((local \cap own) \cup {latest}, remote, token)
    BY <1>2 DEF Above
  <2>4. R \in Int /\ R + 1 \in Int
    BY <1>3
  <2> HIDE DEF R
  <2>5. R <= R /\ R + 1 <= R + 1
    BY <2>4
  <2>6. ASSUME pc' \in {"idle", "snapshot", "prune", "pruneTarget"} PROVE Small(Above(local' \cap own, remote, token), R)
    BY <2>2, <2>3, <2>4, <2>5, <2>6, SmallSub
  <2>7. ASSUME pc' = "list" PROVE Small(Above((local' \cap own) \cup {latest}, remote, token), R + 1)
    <3>1. PICK K : K = R + 1
      OBVIOUS
    <3>. QED
      BY <2>2, <2>3, <2>4, <2>5, <2>7, <3>1, SmallSub, SMTT(60)
  <2>. QED
    BY <1>1, <2>2, <2>6, <2>7 DEF Count, R
<1>. QED
  BY <1>1, <1>4, <1>5 DEF RunInv

\* What the run listed has every own snapshot that is still here.
LEMMA OwnIsListed == ASSUME IInv, RunInv, pc \in {"look", "send"} PROVE local \cap own \subseteq listed \cap own
<1> SUFFICES ASSUME NEW s \in local \cap own PROVE s \in listed
  OBVIOUS
<1>1. s <= latest /\ s \in Nat /\ latest \in Nat /\ (s \in listed \/ s > latest)
  BY DEF IInv, Newest, Times, RunInv, Fresh
<1>. QED
  BY <1>1

\* A run that fails or dies before it has sent leaves one more at most.
LEMMA CrashContinues ==
  ASSUME IInv, RunInv, UNCHANGED <<local, own, lost, remote, token, exists>>, pc' = "idle", Fault
  PROVE  RunInv'
<1>1. faults' = faults + 1 /\ faults' \in Nat /\ faults \in Nat
  BY FaultFacts DEF RunInv
<1>2. Target' /\ Planned' /\ Fresh'
  <2>1. Target'
    BY <1>1, TargetStays DEF RunInv
  <2>2. Planned' /\ Fresh'
    BY DEF Planned, Fresh
  <2>. QED
    BY <2>1, <2>2
<1>3. Count'
  <2> SUFFICES ASSUME Live(local, remote, token)
               PROVE  Small(Above(local \cap own, remote, token), Room(faults', token, own))
    BY DEF Count, Blind
  <2>1. PICK R : R = Room(faults, token, own)
    OBVIOUS
  <2>2. R \in Nat /\ Room(faults', token, own) = R + 2
    BY <1>1, <2>1, RoomNow
  <2>3. \E T : Above(local \cap own, remote, token) \in SUBSET T /\ (Small(T, R) \/ Small(T, R + 1))
    <3>1. CASE pc \in {"idle", "snapshot", "prune", "pruneTarget"}
      BY <2>1, <3>1 DEF RunInv, Count
    <3>2. CASE pc = "list"
      <4>1. Above(local \cap own, remote, token) \in SUBSET Above((local \cap own) \cup {latest}, remote, token)
        BY DEF Above
      <4>. QED
        BY <2>1, <3>2, <4>1 DEF RunInv, Count
    <3>3. CASE pc \in {"look", "send"}
      <4>1. local \cap own \subseteq listed \cap own
        BY <3>3, OwnIsListed
      <4>2. Above(local \cap own, remote, token) \in SUBSET Above((listed \cap own) \cup {latest}, remote, token)
        BY <4>1 DEF Above
      <4>. QED
        BY <2>1, <3>3, <4>2 DEF RunInv, Count
    <3>. QED
      BY <3>1, <3>2, <3>3 DEF IInv, Times, Steps
  <2>4. PICK T : Above(local \cap own, remote, token) \in SUBSET T /\ (Small(T, R) \/ Small(T, R + 1))
    BY <2>3
  <2>5. R \in Int /\ R + 1 \in Int /\ R + 2 \in Int /\ R <= R + 2 /\ R + 1 <= R + 2
    BY <2>2
  <2>. QED
    BY <2>2, <2>4, <2>5, SmallSub
<1>. QED
  BY <1>1, <1>2, <1>3 DEF RunInv

\* Somebody's snapshot is newer than what the run took, and not own; if it is the one the target has, nothing is newer.
LEMMA OthersTakeContinues == ASSUME IInv, RunInv, OthersTake PROVE RunInv'
<1>1. /\ UNCHANGED <<clock, own, lost, remote, token, exists, latest, listed, plan, todo, faults, pc>>
      /\ local' = local \cup {clock} /\ clock \notin own
  BY DEF OthersTake, runVars
<1>2. Target' /\ Planned'
  <2>1. Target'
    BY <1>1, TargetStays DEF RunInv
  <2>2. Planned'
    BY <1>1 DEF RunInv, Planned
  <2>. QED
    BY <2>1, <2>2
<1>3. Fresh'
  <2> SUFFICES ASSUME pc \in {"look", "send"} PROVE clock > latest
    BY <1>1 DEF RunInv, Fresh
  <2>1. latest \in own /\ own \subseteq 1 .. clock /\ clock \in Nat
    BY DEF IInv, Newest, Times
  <2>. QED
    BY <1>1, <2>1
<1>4. Count'
  <2> SUFFICES ASSUME Live(local', remote, token) PROVE Count'
    BY <1>1 DEF Count
  <2>1. local' \cap own = local \cap own
    BY <1>1
  <2>2. CASE Live(local, remote, token)
    BY <1>1, <2>1, <2>2 DEF RunInv, Count, Blind
  <2>3. CASE ~Live(local, remote, token)
    <3>1. token = clock \/ clock \in remote
      BY <1>1, <2>3 DEF Live
    <3>2. clock \in Nat /\ local \cap own \in SUBSET (1 .. clock) /\ listed \cap own \in SUBSET (1 .. clock)
      BY DEF IInv, Times
    <3>3. pc \in {"list", "look", "send"} => latest \in 1 .. clock
      BY DEF IInv, Newest, Times
    <3>4. /\ Above(local \cap own, remote, token) = {}
          /\ pc \in {"list", "look", "send"} =>
               Above((local \cap own) \cup {latest}, remote, token) = {} /\ Above((listed \cap own) \cup {latest}, remote, token) = {}
      BY <3>1, <3>2, <3>3, NothingAbove
    <3>5. Room(faults, token, own) \in Nat /\ Room(faults, token, own) + 1 \in Nat
      BY RoomNow
    <3>6. Small({}, Room(faults, token, own)) /\ Small({}, Room(faults, token, own) + 1)
      BY <3>5, SmallEmpty
    <3>. QED
      BY <1>1, <2>1, <3>4, <3>6 DEF Count, Blind
  <2>. QED
    BY <2>2, <2>3
<1>. QED
  BY <1>1, <1>2, <1>3, <1>4 DEF RunInv

\* A run has one more of its own; at the instant of the target's newest it is not newer.
LEMMA TakeContinues == ASSUME IInv, RunInv, TakeSnapshot PROVE RunInv'
<1>1. UNCHANGED <<clock, lost, remote, token, exists, listed, plan, todo>> /\ pc = "snapshot"
  BY DEF TakeSnapshot
<1>2. CASE pc' = "list" /\ local' = local \cup {clock} /\ own' = own \cup {clock} /\ latest' = clock /\ UNCHANGED faults
  <2>1. Target'
    BY <1>1, <1>2, TargetStays DEF RunInv
  <2>2. Planned' /\ Fresh'
    BY <1>2 DEF Planned, Fresh
  <2>3. clock \in Nat /\ local \cap own \in SUBSET (1 .. clock) /\ clock \in 1 .. clock /\ token \in Nat
    BY DEF IInv, Times
  <2>4. Room(faults, token, own') \in Nat
    BY <2>3, RoomFacts DEF RunInv, Target
  <2>5. Live(local', remote, token) => Small(Above((local' \cap own') \cup {clock}, remote, token), Room(faults, token, own') + 1)
    <3> SUFFICES ASSUME Live(local', remote, token)
                 PROVE  Small(Above((local' \cap own') \cup {clock}, remote, token), Room(faults, token, own') + 1)
      OBVIOUS
    <3>1. CASE token = clock \/ clock \in remote
      <4>1. (local' \cap own') \cup {clock} \in SUBSET (1 .. clock)
        BY <1>2, <2>3 DEF IInv, Times
      <4>2. Above((local' \cap own') \cup {clock}, remote, token) = {}
        BY <2>3, <3>1, <4>1, NothingAbove
      <4>3. Room(faults, token, own') + 1 \in Nat
        BY <2>4
      <4>. QED
        BY <4>2, <4>3, SmallEmpty
    <3>2. CASE token # clock /\ clock \notin remote
      <4>1. Live(local, remote, token)
        BY <1>2, <3>2 DEF Live
      <4>2. PICK R : R = Room(faults, token, own)
        OBVIOUS
      <4>3. Room(faults, token, own') = R /\ R \in Nat
        BY <1>2, <2>4, <3>2, <4>2 DEF Room
      <4>4. Small(Above(local \cap own, remote, token), R)
        BY <1>1, <4>1, <4>2 DEF RunInv, Count
      <4>5. PICK T : T = Above(local \cap own, remote, token)
        OBVIOUS
      <4>6. Above((local' \cap own') \cup {clock}, remote, token) \in SUBSET (T \cup {clock})
        BY <1>2, <4>5 DEF Above
      <4>7. R \in Int /\ R + 1 \in Int /\ R + 1 <= R + 1
        BY <4>3
      <4>8. Small(T \cup {clock}, R + 1)
        BY <4>4, <4>5, <4>7, SmallAdd
      <4>9. PICK K : K = R + 1
        OBVIOUS
      <4>. QED
        BY <4>3, <4>6, <4>7, <4>8, <4>9, SmallSub
    <3>. QED
      BY <3>1, <3>2
  <2>6. Count'
    BY <1>1, <1>2, <2>5 DEF Count, Blind
  <2>. QED
    BY <1>2, <2>1, <2>2, <2>6 DEF RunInv
<1>3. CASE pc' = "idle" /\ UNCHANGED <<local, own, latest, faults>>
  <2>1. Target'
    BY <1>1, <1>3, TargetStays DEF RunInv
  <2>2. Planned' /\ Fresh' /\ Count'
    BY <1>1, <1>3 DEF RunInv, Planned, Fresh, Count, Blind
  <2>. QED
    BY <1>3, <2>1, <2>2 DEF RunInv
<1>4. CASE pc' = "idle" /\ UNCHANGED <<local, own, latest>> /\ Fault
  BY <1>1, <1>4, CrashContinues
<1>. QED
  BY <1>2, <1>3, <1>4 DEF TakeSnapshot, Fail

LEMMA ListContinues == ASSUME IInv, RunInv, ListLocal PROVE RunInv'
<1>1. /\ pc = "list" /\ pc' = "look" /\ listed' = local
      /\ UNCHANGED <<clock, local, own, lost, remote, token, exists, latest, plan, todo, faults>>
  BY DEF ListLocal
<1>2. Target'
  BY <1>1, TargetStays DEF RunInv
<1>3. Planned' /\ Fresh' /\ Count'
  BY <1>1 DEF RunInv, Planned, Fresh, Count, Blind
<1>. QED
  BY <1>1, <1>2, <1>3 DEF RunInv

\* Once the target has the newest own snapshot no own one is newer.
LEMMA NoneAbove ==
  ASSUME NEW mine \in SUBSET Nat, NEW new \in Nat, \A s \in mine : s <= new, NEW S \in SUBSET mine, NEW there, NEW tok, new \in there
  PROVE  Above(S, there, tok) = {}
<1>1. \A o \in S : ~(o > new)
  <2> SUFFICES ASSUME NEW o \in S PROVE ~(o > new)
    OBVIOUS
  <2>1. o \in Nat /\ o <= new
    OBVIOUS
  <2>. QED
    BY <2>1
<1>. QED
  BY <1>1 DEF Above

\* A token that could not be read: the plan is as if there were none, and the failure makes room for the
\* snapshot that will not be sent.
LEMMA LookBlind ==
  ASSUME IInv, RunInv, pc = "look", token # NoToken, Fault, pc' = IF plan'.kind \in {"none", "diverged"} THEN "idle" ELSE "send",
         plan' = Plan(listed, remote, NoToken, latest),
         UNCHANGED <<clock, local, own, lost, remote, token, exists, latest, listed, todo>>
  PROVE  RunInv'
<1>1. faults' = faults + 1 /\ faults' \in Nat /\ faults \in Nat
  BY FaultFacts DEF RunInv
<1>2. CASE pc' = "idle"
  BY <1>2, CrashContinues
<1>3. CASE pc' = "send"
  <2>1. Target' /\ Fresh'
    <3>1. Target'
      BY <1>1, <1>3, TargetStays DEF RunInv
    <3>. QED
      BY <1>3, <3>1 DEF RunInv, Fresh
  <2>2. Planned'
    <3>1. CASE remote = {}
      <4>1. plan' = [kind |-> "full", from |-> 0, to |-> latest]
        BY <3>1 DEF Plan
      <4>. QED
        BY <1>3, <3>1, <4>1 DEF Planned
    <3>2. CASE remote # {}
      <4>1. PICK m : m = Max(listed \cap remote)
        OBVIOUS
      <4>2. listed \cap remote # {} /\ plan' = [kind |-> "incremental", from |-> m, to |-> latest]
        BY <1>3, <3>2, <4>1 DEF Plan, NoPlan
      <4>3. m \in listed \cap remote /\ \A c \in listed \cap remote : c <= m
        <5>1. clock \in Nat /\ listed \cap remote \in SUBSET (1 .. clock)
          BY DEF IInv, Times
        <5>. QED
          BY <4>1, <4>2, <5>1, TopFacts DEF Top
      <4>. QED
        BY <1>3, <4>2, <4>3 DEF Planned
    <3>. QED
      BY <3>1, <3>2
  <2>3. Count'
    <3> SUFFICES ASSUME Live(local, remote, token)
                 PROVE  /\ Small(Above((listed \cap own) \cup {latest}, remote, token), Room(faults', token, own) + 1)
                        /\ Small(Above((listed \cap own) \cup {latest}, remote, token), Room(faults', token, own))
      BY <1>3 DEF Count, Blind
    <3>1. PICK R : R = Room(faults, token, own)
      OBVIOUS
    <3>2. R \in Nat /\ Room(faults', token, own) = R + 2
      BY <1>1, <3>1, RoomNow
    <3>3. PICK T : T = Above((listed \cap own) \cup {latest}, remote, token)
      OBVIOUS
    <3>4. Small(T, R + 1) /\ T \in SUBSET T
      BY <3>1, <3>3 DEF RunInv, Count
    <3>5. R + 1 \in Int /\ R + 2 \in Int /\ (R + 2) + 1 \in Int /\ R + 1 <= R + 2 /\ R + 1 <= (R + 2) + 1
      BY <3>2
    <3>6. PICK K : K = R + 1
      OBVIOUS
    <3>7. Small(T, R + 2) /\ Small(T, (R + 2) + 1)
      BY <3>4, <3>5, <3>6, SmallSub
    <3>. QED
      BY <3>2, <3>3, <3>7
  <2>. QED
    BY <1>1, <2>1, <2>2, <2>3 DEF RunInv
<1>. QED
  BY <1>2, <1>3

\* plan(): a send fits the target; a run that sends nothing leaves nothing behind, or has lost what it needs.
LEMMA LookContinues == ASSUME IInv, RunInv, LookAtTarget PROVE RunInv'
<1>1. pc = "look" /\ UNCHANGED <<clock, local, own, lost, remote, token, exists, latest, listed, todo>>
  BY DEF LookAtTarget
<1>2. CASE pc' = "idle" /\ Fault
  BY <1>1, <1>2, CrashContinues
<1>0. RemoteSnapshots = remote /\ RemoteToken = token
  BY DEF RemoteSnapshots, RemoteToken, RunInv, Target
<1>3. CASE /\ plan' = Plan(listed, RemoteSnapshots, RemoteToken, latest)
           /\ pc' = IF plan'.kind \in {"none", "diverged"} THEN "idle" ELSE "send"
           /\ UNCHANGED faults
  <2>1. RemoteSnapshots = remote /\ RemoteToken = token
    BY <1>0
  <2>2. pc' \in {"idle", "send"}
    BY <1>3
  <2>3. Target' /\ Fresh'
    <3>1. Target'
      BY <1>1, <1>3, <2>2, TargetStays DEF RunInv
    <3>2. Fresh'
      BY <1>1, <2>2 DEF RunInv, Fresh
    <3>. QED
      BY <3>1, <3>2
  <2>4. clock \in Nat /\ remote \in SUBSET (1 .. clock) /\ listed \in SUBSET (1 .. clock) /\ own \in SUBSET Nat /\ latest \in Nat
    BY DEF IInv, Times
  <2>5. pc' = "send" /\ (token = NoToken \/ plan'.kind = "resume") => Count'
    BY <1>1, <1>3 DEF RunInv, Count, Blind
  <2>6. Planned' /\ Count'
    <3>1. CASE token # NoToken
      <4>1. plan' = [kind |-> "resume", from |-> 0, to |-> token]
        BY <1>3, <2>1, <3>1 DEF Plan
      <4>2. plan'.kind = "resume" /\ plan'.to = token /\ pc' = "send"
        BY <1>3, <4>1
      <4>. QED
        BY <1>1, <2>5, <3>1, <4>2 DEF Planned
    <3>2. CASE token = NoToken /\ remote = {}
      <4>1. plan' = [kind |-> "full", from |-> 0, to |-> latest]
        BY <1>3, <2>1, <3>2 DEF Plan
      <4>2. plan'.kind = "full" /\ pc' = "send"
        BY <1>3, <4>1
      <4>. QED
        BY <1>1, <2>5, <3>2, <4>2 DEF Planned
    <3>3. CASE token = NoToken /\ remote # {} /\ listed \cap remote = {}
      <4>1. plan' = [kind |-> "diverged", from |-> 0, to |-> 0]
        BY <1>3, <2>1, <3>3 DEF Plan
      <4>2. pc' = "idle"
        BY <1>3, <4>1
      <4>3. ~Live(local, remote, token)
        <5>1. PICK b \in remote : Top(b, remote)
          BY <2>4, <3>3, TopFacts DEF Top
        <5>2. b <= latest /\ b \in Nat
          BY <1>1, <2>4 DEF IInv, Ahead
        <5>3. b \in local => b \in listed
          <6>1. b \in local => b \in listed \/ b > latest
            BY <1>1 DEF RunInv, Fresh
          <6>. QED
            BY <2>4, <5>2, <6>1
        <5>. QED
          BY <3>3, <5>1, <5>3 DEF Live
      <4>. QED
        BY <1>1, <4>2, <4>3 DEF Planned, Count, Blind
    <3>4. CASE token = NoToken /\ remote # {} /\ listed \cap remote # {} /\ Max(listed \cap remote) = latest
      <4>1. plan' = NoPlan
        BY <1>3, <2>1, <3>4 DEF Plan
      <4>2. pc' = "idle"
        BY <1>3, <4>1 DEF NoPlan
      <4>3. latest \in remote
        BY <2>4, <3>4, TopFacts DEF Top
      <4>4. Above(local \cap own, remote, token) = {}
        <5>1. \A s \in own : s <= latest
          BY <1>1 DEF IInv, Newest
        <5>. QED
          BY <2>4, <4>3, <5>1, NoneAbove
      <4>5. Small({}, Room(faults, token, own))
        BY RoomNow, SmallEmpty
      <4>. QED
        BY <1>1, <1>3, <4>2, <4>4, <4>5 DEF Planned, Count, Blind
    <3>5. CASE token = NoToken /\ remote # {} /\ listed \cap remote # {} /\ Max(listed \cap remote) # latest
      <4>1. PICK m : m = Max(listed \cap remote)
        OBVIOUS
      <4>2. plan' = [kind |-> "incremental", from |-> m, to |-> latest]
        BY <1>3, <2>1, <3>5, <4>1 DEF Plan
      <4>3. plan'.kind = "incremental" /\ plan'.from = m /\ pc' = "send"
        BY <1>3, <4>2
      <4>4. m \in listed \cap remote /\ \A c \in listed \cap remote : c <= m
        BY <2>4, <3>5, <4>1, TopFacts DEF Top
      <4>. QED
        BY <1>1, <2>5, <3>5, <4>3, <4>4 DEF Planned
    <3>. QED
      BY <3>1, <3>2, <3>3, <3>4, <3>5
  <2>. QED
    BY <1>3, <2>3, <2>6 DEF RunInv
<1>4. CASE /\ plan' = Plan(listed, RemoteSnapshots, NoToken, latest) /\ token # NoToken /\ Fault
           /\ pc' = IF plan'.kind \in {"none", "diverged"} THEN "idle" ELSE "send"
  BY <1>0, <1>1, <1>4, CrashContinues, LookBlind
<1>. QED
  BY <1>0, <1>2, <1>3, <1>4 DEF LookAtTarget, Fail

\* What the run knows as it sends: which stream it is, and what is newer than the target's.
LEMMA SendFacts ==
  ASSUME IInv, RunInv, pc = "send"
  PROVE  /\ clock \in Nat /\ remote \in SUBSET (1 .. clock) /\ local \in SUBSET (1 .. clock) /\ own \in SUBSET Nat
         /\ latest \in own /\ latest \in Nat /\ latest > 0 /\ \A s \in own : s <= latest
         /\ plan.kind \in {"full", "incremental", "resume"}
         /\ faults \in Nat
         /\ Live(local, remote, token) =>
              Small(Above((listed \cap own) \cup {latest}, remote, token), Room(faults, token, own) + 1)
BY DEF IInv, Times, Newest, RunInv, Planned, Count

\* A run that can send has what it needs.
LEMMA SendableIsLive ==
  ASSUME IInv, RunInv, pc = "send", Sendable(plan)
  PROVE  /\ Live(local, remote, token) /\ plan.to \in local
         /\ plan.kind # "resume" => token = NoToken
         /\ plan.kind = "resume" => plan.to = token
         /\ plan.kind = "incremental" => plan.from = Max(remote)
<1>1. plan.kind \in {"full", "incremental", "resume"} /\ plan.to \in local
  BY SendFacts DEF Sendable
<1>2. clock \in Nat /\ remote \in SUBSET (1 .. clock)
  BY SendFacts
<1>3. remote # {} => \A b : Top(b, remote) => b = Max(remote)
  BY <1>2, TopFacts
<1>4. CASE plan.kind = "full"
  <2>1. token = NoToken /\ remote = {}
    BY <1>4 DEF RunInv, Planned, Target, Sendable
  <2>. QED
    BY <1>1, <1>4, <2>1 DEF Live
<1>5. CASE plan.kind = "resume"
  <2>1. plan.to = token /\ (remote # {} => Max(remote) \in local)
    BY <1>5 DEF RunInv, Planned, Sendable
  <2>. QED
    BY <1>1, <1>3, <1>5, <2>1 DEF Live
<1>6. CASE plan.kind = "incremental"
  <2>1. token = NoToken /\ plan.from = Max(remote) /\ plan.from \in local
    BY <1>6 DEF RunInv, Planned, Sendable
  <2>. QED
    BY <1>1, <1>3, <1>6, <2>1 DEF Live
<1>. QED
  BY <1>1, <1>4, <1>5, <1>6

\* With `keep' at least twice the failures lately, a resumed snapshot is not one that `keep' newer own ones outlive.
LEMMA ResumedIsKept ==
  ASSUME Lately, IInv, RunInv, pc = "send", Sendable(plan), plan.kind = "resume"
  PROVE  /\ token \notin Excess(Mine(listed, latest))
         /\ Small(Above((listed \cap own) \cup {latest}, remote, token), 2 * faults)
<1>1. token # NoToken /\ faults >= 1 /\ faults \in Nat /\ 2 * faults <= Keep /\ Keep \in Nat
  BY ReplicationAssumption DEF RunInv, Planned, Target, Lately
<1>2. PICK T : T = Above((listed \cap own) \cup {latest}, remote, token)
  OBVIOUS
<1>3. PICK R : R = Room(faults, token, own) + 1
  OBVIOUS
<1>4. Small(T, R)
  BY <1>2, <1>3, SendFacts, SendableIsLive
<1>5. R \in Int /\ R <= 2 * faults /\ 2 * faults \in Int /\ (token \in own => R < Keep)
  BY <1>1, <1>3 DEF Room
<1>6. Small(T, 2 * faults)
  <2>1. PICK K : K = 2 * faults
    OBVIOUS
  <2>2. K \in Int /\ R <= K /\ T \in SUBSET T
    BY <1>5, <2>1
  <2>3. Small(T, K)
    BY <1>4, <1>5, <2>2, SmallSub
  <2>. QED
    BY <2>1, <2>3
<1>7. token \notin Excess(Mine(listed, latest))
  <2>1. CASE token \notin own
    <3>1. token \notin Mine(listed, latest)
      BY <2>1, SendFacts DEF Mine
    <3>. QED
      BY <3>1 DEF Excess
  <2>2. CASE token \in own
    <3>1. {t \in Mine(listed, latest) : t > token} \in SUBSET T
      <4> SUFFICES ASSUME NEW t \in (listed \cap own) \cup {latest}, t > token PROVE t \in T
        BY DEF Mine
      <4>1. t \in Nat /\ token \in Nat
        BY SendFacts DEF IInv, Times
      <4>2. ASSUME NEW r \in remote PROVE t > r
        <5>1. r < token /\ r \in Nat
          BY <1>1, SendFacts DEF RunInv, Target
        <5>. QED
          BY <4>1, <5>1
      <4>. QED
        BY <1>2, <4>2 DEF Above
    <3>2. PICK S : S = {t \in Mine(listed, latest) : t > token}
      OBVIOUS
    <3>3. R <= R
      BY <1>5
    <3>4. Small(S, R)
      BY <1>4, <1>5, <3>1, <3>2, <3>3, SmallSub
    <3>5. Cardinality(S) \in Nat /\ Cardinality(S) <= R
      BY <3>4, FS_CardinalityType DEF Small
    <3>6. ~(Cardinality(S) >= Keep)
      BY <1>1, <1>5, <2>2, <3>5
    <3>. QED
      BY <3>2, <3>6 DEF Excess
  <2>. QED
    BY <2>1, <2>2
<1>. QED
  BY <1>2, <1>6, <1>7

\* There is one newest.
LEMMA OneTop == ASSUME NEW there \in SUBSET Nat, NEW b, Top(b, there), NEW c, Top(c, there) PROVE b = c
<1>1. b \in Nat /\ c \in Nat /\ b <= c /\ c <= b
  BY DEF Top
<1>. QED
  BY <1>1

\* After a send of what the run took, or of what it resumed, that is the newest on the target; it is here and
\* not to be pruned.
LEMMA NewIsTop ==
  ASSUME IInv, pc = "send", Sendable(plan), plan.kind \in {"full", "incremental"}
  PROVE  latest \in local /\ Top(latest, remote \cup Carries(plan)) /\ latest \notin Excess(Mine(listed, latest))
<1>1. /\ \A s \in remote : s <= latest /\ s \in Nat
      /\ latest \in own /\ latest \in Nat /\ latest <= latest /\ own \in SUBSET Nat /\ \A s \in own : s <= latest
  BY DEF IInv, Ahead, Newest, Times
<1>2. plan.to = latest /\ latest \in local /\ latest \in Carries(plan)
  BY CarriesFacts DEF IInv, Ahead, Sendable
<1>3. \A s \in Carries(plan) : s <= latest
  BY <1>1, <1>2 DEF Carries, Stream
<1>4. Top(latest, remote \cup Carries(plan))
  BY <1>1, <1>2, <1>3 DEF Top
<1>5. latest \notin Excess(Mine(listed, latest))
  <2>1. PICK mine : mine = Mine(listed, latest)
    OBVIOUS
  <2>2. mine \in SUBSET Nat /\ latest \in mine /\ \A s \in mine : s <= latest
    BY <1>1, <2>1 DEF Mine
  <2>. QED
    BY <2>1, <2>2, ExcessFacts
<1>. QED
  BY <1>2, <1>4, <1>5

LEMMA ResumedIsTop ==
  ASSUME Lately, IInv, RunInv, pc = "send", Sendable(plan), plan.kind = "resume"
  PROVE  token \in local /\ Top(token, remote \cup Carries(plan)) /\ token \notin Excess(Mine(listed, latest))
<1>1. plan.to = token /\ token \in local /\ Carries(plan) = {token} /\ token # NoToken
  BY SendableIsLive DEF Carries, RunInv, Planned
<1>2. \A r \in remote : r <= token
  <2>1. \A r \in remote : r < token /\ r \in Nat
    BY <1>1 DEF RunInv, Target, IInv, Times
  <2>2. token \in Nat
    BY DEF IInv, Times
  <2>. QED
    BY <2>1, <2>2
<1>3. Top(token, remote \cup Carries(plan))
  <2>1. token <= token
    BY DEF IInv, Times
  <2>. QED
    BY <1>1, <1>2, <2>1 DEF Top
<1>. QED
  BY <1>1, <1>3, ResumedIsKept

\* The newest on the target is here and stays, and few are newer: the next run can continue.
LEMMA SentContinues ==
  ASSUME IInv, Send, NEW b \in local, Top(b, remote'), b \notin todo', faults' \in Nat,
         Small(Above(local \cap own, remote', NoToken), 2 * faults')
  PROVE  RunInv'
<1>1. /\ exists' = TRUE /\ token' = NoToken /\ pc' = "prune"
      /\ UNCHANGED <<clock, local, own, lost, latest, listed, plan>>
  BY DEF Send
<1>2. remote' \in SUBSET Nat
  BY SendKeeps DEF IInv, Times
<1>3. \A c : Top(c, remote') => c = b
  BY <1>2, OneTop
<1>4. Target'
  BY <1>1, <1>3 DEF Target, Top
<1>5. Planned' /\ Fresh'
  BY <1>1, <1>3 DEF Planned, Fresh
<1>6. Count'
  BY <1>1 DEF Count, Blind, Room
<1>. QED
  BY <1>1, <1>4, <1>5, <1>6 DEF RunInv

\* A run that delivers its snapshot leaves nothing newer, whatever failed before: the count starts over.
LEMMA DeliveryContinues == ASSUME IInv, Send, plan.kind # "resume" PROVE RunInv'
<1>1. /\ pc = "send" /\ Sendable(plan) /\ remote' = remote \cup Carries(plan) /\ todo' = Excess(Mine(listed, latest))
      /\ faults' = 0
  BY DEF Send
<1>2. plan.kind \in {"full", "incremental"}
  BY <1>1 DEF Sendable
<1>3. latest \in local /\ Top(latest, remote') /\ latest \notin todo'
  BY <1>1, <1>2, NewIsTop
<1>4. Above(local \cap own, remote', NoToken) = {}
  <2>1. latest \in Nat /\ own \in SUBSET Nat /\ (\A s \in own : s <= latest) /\ latest \in remote'
    BY <1>1, <1>3 DEF IInv, Newest, Times, Top
  <2>. QED
    BY <2>1, NoneAbove
<1>5. Small({}, 0)
  BY SmallEmpty
<1>. QED
  BY <1>1, <1>3, <1>4, <1>5, SentContinues

\* After a resumed send as much is newer as was newer than what was resumed.
LEMMA ResumeContinues == ASSUME Lately, IInv, RunInv, Send, plan.kind = "resume" PROVE RunInv'
<1>1. /\ pc = "send" /\ Sendable(plan) /\ remote' = remote \cup Carries(plan) /\ todo' = Excess(Mine(listed, latest))
      /\ faults' = faults /\ faults \in Nat
  BY DEF Send, RunInv
<1>2. token \in local /\ Top(token, remote') /\ token \notin todo'
  BY <1>1, ResumedIsTop
<1>3. PICK T : T = Above((listed \cap own) \cup {latest}, remote, token)
  OBVIOUS
<1>4. PICK K : K = 2 * faults
  OBVIOUS
<1>5. Small(T, K) /\ K \in Int /\ K <= K
  BY <1>1, <1>3, <1>4, ResumedIsKept
<1>6. Above(local \cap own, remote', NoToken) \in SUBSET T
  BY <1>1, <1>2, <1>3, OwnIsListed DEF Above, Top
<1>7. Small(Above(local \cap own, remote', NoToken), K)
  BY <1>5, <1>6, SmallSub
<1>8. 2 * faults' = K
  BY <1>1, <1>4
<1>9. Small(Above(local \cap own, remote', NoToken), 2 * faults')
  BY <1>7, <1>8
<1>. QED
  BY <1>1, <1>2, <1>9, SentContinues

\* A send planned with the target's token in view is refused only when somebody destroyed what it needs, or
\* the snapshot the run took.
LEMMA RefusedFacts ==
  ASSUME IInv, RunInv, pc = "send", ~Blind, ~Sendable(plan), Live(local, remote, token)
  PROVE  latest \notin local /\ latest > token /\ \A r \in remote : latest > r
<1>1. latest \in Nat /\ latest > 0 /\ clock \in Nat /\ remote \in SUBSET (1 .. clock) /\ remote \in SUBSET Nat
  BY SendFacts
<1>2. remote # {} => Top(Max(remote), remote) /\ Max(remote) \in local
  BY <1>1, TopFacts DEF Live, Top
<1>3. CASE plan.kind = "resume"
  <2>1. plan.to = token /\ token \in local
    BY <1>3 DEF RunInv, Planned, Live
  <2>. QED
    BY <1>2, <1>3, <2>1 DEF Sendable
<1>4. CASE plan.kind = "full"
  <2>1. token = NoToken /\ remote = {} /\ ~exists /\ plan.to = latest
    BY <1>4 DEF RunInv, Planned, Target, IInv, Ahead, Blind
  <2>2. latest \notin local
    BY <1>4, <2>1 DEF Sendable
  <2>. QED
    BY <1>1, <2>1, <2>2 DEF NoToken
<1>5. CASE plan.kind = "incremental"
  <2>1. /\ token = NoToken /\ plan.from \in remote /\ (\A c \in listed \cap remote : c <= plan.from)
        /\ plan.to = latest /\ plan.from \in Nat /\ plan.from < latest
    BY <1>5 DEF RunInv, Planned, IInv, Ahead, Blind
  <2>2. PICK m : m = Max(remote)
    OBVIOUS
  <2>3. m \in remote /\ m \in local /\ m \in Nat /\ m <= latest /\ \A r \in remote : r <= m
    BY <1>1, <1>2, <2>1, <2>2 DEF Top, IInv, Ahead
  <2>4. m \in listed
    <3>1. m \in listed \/ m > latest
      BY <2>3 DEF RunInv, Fresh
    <3>. QED
      BY <1>1, <2>3, <3>1
  <2>5. m = plan.from
    <3>1. m <= plan.from /\ plan.from <= m
      BY <2>1, <2>3, <2>4
    <3>. QED
      BY <2>1, <2>3, <3>1
  <2>6. latest \notin local
    BY <1>5, <2>1, <2>2, <2>3, <2>5 DEF Sendable
  <2>7. \A r \in remote : latest > r
    <3> SUFFICES ASSUME NEW r \in remote PROVE latest > r
      OBVIOUS
    <3>1. r \in Nat /\ r <= plan.from
      BY <1>1, <2>3, <2>5
    <3>. QED
      BY <1>1, <2>1, <3>1
  <2>. QED
    BY <1>1, <2>1, <2>6, <2>7 DEF NoToken
<1>. QED
  BY <1>3, <1>4, <1>5, SendFacts

\* A refused send: the snapshot the run took is gone, so no more are newer than before the run, or the failure
\* to read the token has been counted.
LEMMA RefusedContinues == ASSUME IInv, RunInv, SendRefused PROVE RunInv'
<1>1. /\ pc = "send" /\ ~Sendable(plan) /\ pc' = "idle"
      /\ UNCHANGED <<clock, local, own, lost, remote, token, exists, latest, listed, plan, todo, faults>>
  BY DEF SendRefused, Fail
<1>2. Target'
  BY <1>1, TargetStays DEF RunInv
<1>3. Planned' /\ Fresh'
  BY <1>1 DEF Planned, Fresh
<1>4. Count'
  <2> SUFFICES ASSUME Live(local, remote, token)
               PROVE  Small(Above(local \cap own, remote, token), Room(faults, token, own))
    BY <1>1 DEF Count, Blind
  <2>1. PICK T : T = Above((listed \cap own) \cup {latest}, remote, token)
    OBVIOUS
  <2>2. PICK R : R = Room(faults, token, own)
    OBVIOUS
  <2>3. R \in Nat /\ Small(T, R + 1)
    BY <1>1, <2>1, <2>2, RoomNow, SendFacts
  <2>0. CASE Blind
    <3>1. Small(T, R) /\ R \in Int /\ R <= R
      BY <2>0, <2>1, <2>2, <2>3 DEF RunInv, Count
    <3>2. Above(local \cap own, remote, token) \in SUBSET T
      BY <1>1, <2>1, OwnIsListed DEF Above
    <3>. QED
      BY <2>2, <3>1, <3>2, SmallSub
  <2> SUFFICES ASSUME ~Blind PROVE Small(Above(local \cap own, remote, token), Room(faults, token, own))
    BY <2>0
  <2>4. latest \in T /\ latest \notin local
    BY <1>1, <2>1, RefusedFacts DEF Above
  <2>5. Above(local \cap own, remote, token) \in SUBSET (T \ {latest})
    BY <1>1, <2>1, <2>4, OwnIsListed DEF Above
  <2>6. R + 1 \in Int /\ (R + 1) - 1 = R
    BY <2>3
  <2>7. PICK K : K = R + 1
    OBVIOUS
  <2>8. Small(Above(local \cap own, remote, token), K - 1)
    BY <2>3, <2>4, <2>5, <2>6, <2>7, SmallDrop
  <2>. QED
    BY <2>2, <2>6, <2>7, <2>8
<1>. QED
  BY <1>1, <1>2, <1>3, <1>4 DEF RunInv

\* A broken send: what it leaves part of is here, and is one of those that were newer.
LEMMA BreaksContinues == ASSUME IInv, RunInv, SendBreaks PROVE RunInv'
<1>1. /\ pc = "send" /\ Sendable(plan) /\ Fault /\ pc' = "idle"
      /\ UNCHANGED <<clock, local, own, lost, latest, listed, plan, todo>>
  BY DEF SendBreaks, Fail
<1>2. PICK s \in Carries(plan) :
        /\ remote' = remote \cup {r \in Carries(plan) : r < s}
        /\ (token' = s /\ exists' = TRUE) \/ (token' = token /\ exists' = exists)
  BY DEF SendBreaks, ReceivePart
<1>3. faults' = faults + 1 /\ faults' \in Nat /\ faults \in Nat
  BY <1>1, FaultFacts DEF RunInv
<1>4. Live(local, remote, token) /\ plan.to \in local /\ (plan.kind # "resume" => token = NoToken)
  BY <1>1, SendableIsLive
<1>5. Planned' /\ Fresh'
  BY <1>1 DEF Planned, Fresh
<1>6. CASE plan.kind = "resume"
  <2>1. s = token /\ Carries(plan) = {token} /\ token # NoToken /\ exists = TRUE
    <3>1. plan.to = token /\ token # NoToken
      BY <1>1, <1>6 DEF RunInv, Planned
    <3>2. exists = TRUE
      BY <1>1, <1>3, <3>1 DEF RunInv, Target
    <3>. QED
      BY <1>6, <3>1, <3>2 DEF Carries
  <2>2. {r \in Carries(plan) : r < s} = {}
    BY <2>1 DEF IInv, Times
  <2>3. UNCHANGED <<remote, token, exists>>
    BY <1>2, <2>1, <2>2
  <2>. QED
    BY <1>1, <2>3, CrashContinues
<1>7. CASE plan.kind \in {"full", "incremental"}
  <2>1. /\ token = NoToken /\ plan.to = latest /\ Carries(plan) \subseteq local
        /\ \A r \in remote : \A x \in Carries(plan) : x > r
        /\ \A b \in remote : Top(b, remote) => b \in local
    <3>1. token = NoToken /\ plan.to = latest
      BY <1>1, <1>4, <1>7 DEF IInv, Ahead
    <3>2. \A b \in remote : Top(b, remote) => b \in local
      BY <1>4 DEF Live
    <3>3. CASE plan.kind = "full"
      BY <1>1, <1>4, <3>1, <3>2, <3>3 DEF Carries, RunInv, Planned
    <3>4. CASE plan.kind = "incremental"
      <4>1. Carries(plan) = {x \in local : plan.from < x /\ x <= plan.to} /\ plan.from = Max(remote) /\ plan.from \in Nat
        BY <1>1, <3>4, SendableIsLive DEF Carries, Stream, IInv, Ahead
      <4>2. \A r \in remote : r <= plan.from
        <5>1. clock \in Nat /\ remote \in SUBSET (1 .. clock)
          BY <1>1, SendFacts
        <5>2. remote # {} => \A r \in remote : r <= Max(remote)
          BY <5>1, TopFacts DEF Top
        <5>. QED
          BY <4>1, <5>2
      <4>3. ASSUME NEW r \in remote, NEW x \in Carries(plan) PROVE x > r
        <5>1. r \in Nat /\ x \in Nat /\ r <= plan.from /\ plan.from < x
          BY <1>1, <4>1, <4>2, SendFacts
        <5>. QED
          BY <4>1, <5>1
      <4>. QED
        BY <3>1, <3>2, <4>1, <4>3
    <3>. QED
      BY <1>7, <3>3, <3>4
  <2>2. /\ s \in local /\ s \in Nat /\ s # NoToken /\ s > 0 /\ own \in SUBSET Nat
        /\ remote \subseteq Nat /\ Carries(plan) \subseteq Nat
    BY <1>1, <2>1, SendFacts DEF NoToken
  <2>3. PICK T : T = Above((listed \cap own) \cup {latest}, remote, token)
    OBVIOUS
  <2>4. PICK K : K = 2 * faults + 1
    OBVIOUS
  <2>5. Small(T, K) /\ K \in Int
    BY <1>1, <1>3, <1>4, <2>1, <2>3, <2>4, SendFacts DEF Room
  <2>6. \A b \in remote' : Top(b, remote') => b \in local
    BY <1>2, <2>1 DEF Top
  <2>7. remote \subseteq remote' /\ (remote # {} => exists) /\ (exists => remote # {})
    BY <1>2, <2>1 DEF RunInv, Target
  <2>8. CASE token' = s /\ exists' = TRUE
    <3>1. Target'
      <4>1. \A r \in remote' : r < s
        <5> SUFFICES ASSUME NEW r \in remote PROVE r < s
          BY <1>2
        <5>1. s > r /\ r \in Nat
          BY <2>1, <2>2
        <5>. QED
          BY <2>2, <5>1
      <4>2. faults' >= 1
        BY <1>3
      <4>. QED
        BY <1>1, <2>2, <2>6, <2>8, <4>1, <4>2 DEF Target
    <3>2. Above(local \cap own, remote', s) \in SUBSET (T \ {s})
      <4> SUFFICES ASSUME NEW o \in Above(local \cap own, remote', s) PROVE o \in T \ {s}
        OBVIOUS
      <4>1. o \in local \cap own /\ o > s /\ o \in Nat
        BY <2>2 DEF Above
      <4>2. o \in listed \cap own /\ \A r \in remote : o > r
        BY <1>1, <2>7, OwnIsListed DEF Above
      <4>3. o > token /\ o # s
        BY <2>1, <2>2, <4>1 DEF NoToken
      <4>. QED
        BY <2>3, <4>2, <4>3 DEF Above
    <3>3. Small(Above(local \cap own, remote', s), Room(faults', s, own))
      <4>1. CASE s \in own
        <5>1. s \in T
          BY <1>1, <2>1, <2>2, <2>3, <4>1, OwnIsListed DEF Above, NoToken
        <5>2. Small(Above(local \cap own, remote', s), K - 1)
          BY <2>5, <3>2, <5>1, SmallDrop
        <5>3. Room(faults', s, own) = K - 1
          BY <1>3, <2>2, <2>4, <4>1 DEF Room
        <5>. QED
          BY <5>2, <5>3
      <4>2. CASE s \notin own
        <5>1. Room(faults', s, own) = K
          BY <1>3, <2>2, <2>4, <4>2 DEF Room
        <5>2. Above(local \cap own, remote', s) \in SUBSET T /\ K <= K
          BY <2>5, <3>2
        <5>3. Small(Above(local \cap own, remote', s), K)
          BY <2>5, <5>2, SmallSub
        <5>. QED
          BY <5>1, <5>3
      <4>. QED
        BY <4>1, <4>2
    <3>4. Count'
      BY <1>1, <2>8, <3>3 DEF Count, Blind
    <3>. QED
      BY <1>3, <1>5, <3>1, <3>4 DEF RunInv
  <2>9. CASE token' = token /\ exists' = exists
    <3>1. Target'
      <4>1. remote' # {} => exists
        <5>1. CASE plan.kind = "full"
          <6>1. Carries(plan) = {latest} /\ s = latest
            BY <2>1, <5>1 DEF Carries
          <6>2. {r \in Carries(plan) : r < s} = {}
            BY <2>2, <6>1
          <6>. QED
            BY <1>2, <2>7, <6>2
        <5>2. CASE plan.kind = "incremental"
          BY <1>1, <2>7, <5>2 DEF RunInv, Planned
        <5>. QED
          BY <1>7, <5>1, <5>2
      <4>. QED
        BY <1>1, <2>1, <2>6, <2>7, <2>9, <4>1 DEF Target
    <3>2. Above(local \cap own, remote', token) \in SUBSET T
      BY <1>1, <2>3, <2>7, OwnIsListed DEF Above
    <3>3. PICK J : J = Room(faults', token, own)
      OBVIOUS
    <3>4. J \in Int /\ K <= J
      BY <1>3, <2>1, <2>4, <3>3 DEF Room
    <3>5. Small(Above(local \cap own, remote', token), J)
      BY <2>5, <3>2, <3>4, SmallSub
    <3>6. Count'
      BY <1>1, <2>9, <3>3, <3>5 DEF Count, Blind
    <3>. QED
      BY <1>3, <1>5, <3>1, <3>6 DEF RunInv
  <2>. QED
    BY <1>2, <2>8, <2>9
<1>. QED
  BY <1>1, <1>6, <1>7, SendFacts

\* Without a snapshot that is not its newest, the target has the same newest.
LEMMA TopStays ==
  ASSUME NEW n \in Nat, NEW there \in SUBSET (1 .. n), NEW m, ~Top(m, there)
  PROVE  /\ \A b : Top(b, there \ {m}) => Top(b, there)
         /\ there # {} => there \ {m} # {}
         /\ \A S, tok : Above(S, there \ {m}, tok) \subseteq Above(S, there, tok) \cup (S \ Nat)
<1>1. CASE there = {}
  BY <1>1 DEF Top, Above
<1>2. CASE there # {}
  <2>1. PICK t : t = Max(there)
    OBVIOUS
  <2>2. Top(t, there) /\ t # m /\ t \in there \ {m} /\ t \in Nat
    <3>1. Top(t, there)
      BY <1>2, <2>1, TopFacts
    <3>2. there \in SUBSET Nat
      OBVIOUS
    <3>. QED
      BY <3>1, <3>2 DEF Top
  <2>3. Top(t, there \ {m}) /\ there \ {m} \in SUBSET Nat
    <3>1. there \in SUBSET Nat
      OBVIOUS
    <3>. QED
      BY <2>2, <3>1 DEF Top
  <2>4. \A b : Top(b, there \ {m}) => b = t
    BY <2>3, OneTop
  <2>5. ASSUME NEW S, NEW tok, NEW o \in Above(S, there \ {m}, tok), o \in Nat PROVE o \in Above(S, there, tok)
    <3>1. o > t /\ o \in S /\ o > tok
      BY <2>2, <2>5 DEF Above
    <3>2. ASSUME NEW r \in there PROVE o > r
      <4>1. r \in Nat /\ r <= t
        BY <2>2 DEF Top
      <4>. QED
        BY <2>2, <2>5, <3>1, <4>1
    <3>. QED
      BY <3>1, <3>2 DEF Above
  <2>6. \A S, tok : Above(S, there \ {m}, tok) \subseteq S
    BY DEF Above
  <2>. QED
    BY <2>2, <2>4, <2>5, <2>6
<1>. QED
  BY <1>1, <1>2

LEMMA TodoFacts ==
  ASSUME IInv, pc \in {"prune", "pruneTarget"} PROVE todo \in SUBSET Nat /\ (pc = "pruneTarget" => todo # {})
<1>1. own \subseteq Nat
  BY DEF IInv, Times
<1>2. todo \subseteq own /\ (pc = "pruneTarget" => todo # {})
  BY DEF IInv, Pruning
<1>. QED
  BY <1>1, <1>2

\* The prune takes nothing the next run needs: the newest on the target is not among what is left to prune.
LEMMA PruneContinues == ASSUME IInv, RunInv, PruneLocal \/ PruneTarget \/ Finish PROVE RunInv'
<1>1. /\ pc \in {"prune", "pruneTarget"} /\ pc' \in {"prune", "pruneTarget", "idle"}
      /\ UNCHANGED <<clock, own, lost, exists, token, latest, listed, plan, faults>>
  BY DEF PruneLocal, PruneTarget, Finish
<1>2. token = NoToken /\ todo \in SUBSET Nat /\ (pc = "pruneTarget" => todo # {}) /\ (\A b \in todo : ~Top(b, remote))
  BY <1>1, TodoFacts DEF RunInv, Target, Planned
<1>3. PICK m : m = Min(todo)
  OBVIOUS
<1>4. todo # {} => m \in todo /\ ~Top(m, remote)
  BY <1>2, <1>3, MinFacts
<1>5. PICK R : R = Room(faults, token, own)
  OBVIOUS
<1>6. R \in Int /\ R <= R
  BY <1>5, RoomNow
<1>7. Live(local, remote, token) => Small(Above(local \cap own, remote, token), R)
  BY <1>1, <1>5 DEF RunInv, Count
<1>8. CASE PruneLocal \/ Finish
  <2>1. local' \subseteq local /\ local \subseteq local' \cup {m} /\ UNCHANGED <<remote, todo>>
    BY <1>3, <1>8 DEF PruneLocal, Finish
  <2>2. local' = local \/ todo # {}
    BY <1>8 DEF PruneLocal, Finish
  <2>3. Target'
    BY <1>1, <1>2, <1>4, <2>1, <2>2 DEF RunInv, Target
  <2>4. Planned' /\ Fresh'
    BY <1>1, <1>2, <2>1 DEF Planned, Fresh
  <2>5. Count'
    <3> SUFFICES ASSUME Live(local', remote, token) PROVE Small(Above(local' \cap own, remote, token), R)
      BY <1>1, <1>5, <2>1 DEF Count, Blind
    <3>1. Live(local, remote, token)
      BY <2>1 DEF Live
    <3>2. Above(local' \cap own, remote, token) \in SUBSET Above(local \cap own, remote, token)
      BY <2>1 DEF Above
    <3>. QED
      BY <1>6, <1>7, <3>1, <3>2, SmallSub
  <2>. QED
    BY <1>1, <2>3, <2>4, <2>5 DEF RunInv
<1>9. CASE PruneTarget
  <2>1. UNCHANGED local /\ remote' \in {remote, remote \ {m}} /\ todo' \subseteq todo /\ pc = "pruneTarget" /\ pc' = "prune"
    BY <1>3, <1>9 DEF PruneTarget
  <2>2. clock \in Nat /\ remote \in SUBSET (1 .. clock) /\ own \subseteq Nat
    BY DEF IInv, Times
  <2>3. ~Top(m, remote)
    BY <1>2, <1>4, <2>1
  <2>4. /\ \A b : Top(b, remote') => Top(b, remote)
        /\ remote # {} => remote' # {}
        /\ Above(local \cap own, remote', token) \subseteq Above(local \cap own, remote, token)
    <3>1. CASE remote' = remote
      BY <3>1
    <3>2. CASE remote' = remote \ {m}
      <4>1. /\ \A b : Top(b, remote \ {m}) => Top(b, remote)
            /\ remote # {} => remote \ {m} # {}
            /\ Above(local \cap own, remote \ {m}, token) \subseteq Above(local \cap own, remote, token) \cup ((local \cap own) \ Nat)
        BY <2>2, <2>3, TopStays
      <4>2. (local \cap own) \ Nat = {}
        BY <2>2
      <4>. QED
        BY <3>2, <4>1, <4>2
    <3>. QED
      BY <2>1, <3>1, <3>2
  <2>5. remote' \subseteq remote
    BY <2>1
  <2>6. Target'
    <3>1. \A b \in remote' : Top(b, remote') => b \in local \cup lost
      BY <2>4, <2>5 DEF RunInv, Target
    <3>2. (remote' # {} => exists) /\ (exists => remote' # {})
      BY <1>2, <2>4, <2>5 DEF RunInv, Target
    <3>. QED
      BY <1>1, <1>2, <2>1, <3>1, <3>2 DEF Target
  <2>7. Planned' /\ Fresh'
    BY <1>2, <2>1, <2>4 DEF Planned, Fresh
  <2>8. Count'
    <3> SUFFICES ASSUME Live(local, remote', token) PROVE Small(Above(local \cap own, remote', token), R)
      BY <1>1, <1>5, <2>1 DEF Count, Blind
    <3>1. Live(local, remote, token)
      <4> SUFFICES ASSUME NEW b \in remote, Top(b, remote) PROVE b \in local
        BY <1>2 DEF Live
      <4>1. b \in remote'
        BY <2>1, <2>3
      <4>2. Top(b, remote')
        BY <2>5, <4>1 DEF Top
      <4>. QED
        BY <4>1, <4>2 DEF Live
    <3>. QED
      BY <1>6, <1>7, <2>4, <3>1, SmallSub
  <2>. QED
    BY <1>1, <2>6, <2>7, <2>8 DEF RunInv
<1>. QED
  BY <1>8, <1>9

\* A step from a state that can be continued leads to another, unless the failures are too many by then.
LEMMA ContinueStep == ASSUME Lately, IInv, RunInv, [Next]_vars PROVE RunInv'
<1>1. CASE Run
  BY <1>1, TakeContinues, ListContinues, LookContinues, DeliveryContinues, ResumeContinues, RefusedContinues,
     BreaksContinues, PruneContinues DEF Run
<1>2. CASE Crash
  <2>1. UNCHANGED <<local, own, lost, remote, token, exists>> /\ pc' = "idle" /\ Fault
    BY <1>2 DEF Crash
  <2>. QED
    BY <2>1, CrashContinues
<1>3. CASE Begin \/ Advance \/ OthersTake \/ (\E s \in local : OthersDestroy(s)) \/ UNCHANGED vars
  BY <1>3, OthersContinue, OthersTakeContinues
<1>. QED
  BY <1>1, <1>2, <1>3 DEF Next

\* Failures only grow in number, until a run delivers.
LEMMA FaultsGrow == ASSUME faults \in Nat, [Next]_vars
                    PROVE  faults' \in {faults, faults + 1} \/ (Send /\ plan.kind # "resume" /\ faults' = 0)
<1>1. CASE Send
  BY <1>1 DEF Send
<1>2. CASE ~Send
  BY <1>2 DEF Next, Run, Begin, TakeSnapshot, ListLocal, LookAtTarget, SendRefused, SendBreaks, PruneLocal, PruneTarget,
              Finish, Crash, Advance, OthersTake, OthersDestroy, Fault, vars
<1>. QED
  BY <1>1, <1>2

\* The next run can continue while the failures are few, from the start and again after every delivery.
LatelyInv == faults \in Nat /\ (Lately => RunInv)

LEMMA LatelyStep == ASSUME IInv, LatelyInv, [Next]_vars PROVE LatelyInv'
<1>1. CASE Send /\ plan.kind # "resume"
  BY <1>1, DeliveryContinues DEF LatelyInv, RunInv
<1>2. CASE faults' \in {faults, faults + 1}
  <2>1. faults \in Nat /\ Keep \in Nat
    BY ReplicationAssumption DEF LatelyInv
  <2>2. faults' \in Nat /\ (2 * faults' <= Keep => 2 * faults <= Keep)
    <3>1. CASE faults' = faults
      BY <2>1, <3>1
    <3>2. CASE faults' = faults + 1
      BY <2>1, <3>2, SMTT(30)
    <3>. QED
      BY <1>2, <3>1, <3>2
  <2>3. Lately' => Lately
    BY <2>2 DEF Lately
  <2>. QED
    BY <2>2, <2>3, ContinueStep DEF LatelyInv
<1>. QED
  BY <1>1, <1>2, FaultsGrow DEF LatelyInv

LEMMA InitContinue == Init => RunInv
<1> SUFFICES ASSUME Init PROVE RunInv
  OBVIOUS
<1>1. Target /\ Planned /\ Fresh
  BY DEF Init, Target, Planned, Fresh, NoToken
<1>2. Above(local \cap own, remote, token) = {} /\ Room(faults, token, own) = 0
  BY DEF Init, Above, Room, NoToken
<1>3. Small({}, 0)
  BY SmallEmpty
<1>4. Count
  BY <1>2, <1>3 DEF Init, Count, Blind
<1>5. faults = 0
  BY DEF Init
<1>. QED
  BY <1>1, <1>4, <1>5 DEF RunInv

\* The newest snapshot on the target stays there.
LEMMA TopIsKept == ASSUME IInv, RunInv, [Next]_vars, NEW b, Top(b, remote) PROVE b \in remote'
<1>1. CASE PruneTarget
  <2>1. pc = "pruneTarget" /\ remote' \in {remote, remote \ {Min(todo)}}
    BY <1>1 DEF PruneTarget
  <2>2. todo # {} /\ todo \in SUBSET Nat /\ \A c \in todo : ~Top(c, remote)
    BY <2>1, TodoFacts DEF RunInv, Planned
  <2>3. ~Top(Min(todo), remote)
    BY <2>2, MinFacts
  <2>. QED
    BY <2>1, <2>3 DEF Top
<1>2. CASE PruneLocal \/ Finish
  BY <1>2 DEF PruneLocal, Finish, Top
<1>3. CASE TakeSnapshot \/ ListLocal \/ LookAtTarget \/ Send \/ SendRefused \/ SendBreaks
  BY <1>3, TakeKeeps, ListKeeps, LookKeeps, SendKeeps, SendEndsKeeps DEF Top
<1>4. CASE Begin \/ Crash \/ Advance \/ OthersTake \/ (\E s \in local : OthersDestroy(s)) \/ UNCHANGED vars
  BY <1>4, OthersKeep DEF Top
<1>. QED
  BY <1>1, <1>2, <1>3, <1>4 DEF Next, Run

\* For every keep, any number of failures and whatever others destroy: as long as no more than half of `keep'
\* failures have followed each other since a run last delivered its snapshot, the newest snapshot of the
\* target and the one it has part of are still here unless somebody else destroyed them, and the target is
\* never left with neither.  Whatever went wrong before, the next delivery makes it hold again.
THEOREM RunsCanContinue == Spec => []CanContinue
<1>1. Init => IInv /\ LatelyInv
  BY InitIInv, InitContinue DEF LatelyInv, RunInv
<1>2. IInv /\ LatelyInv /\ [Next]_vars => IInv' /\ LatelyInv'
  BY NextFacts, LatelyStep
<1>3. IInv /\ LatelyInv => CanContinue
  <2> SUFFICES ASSUME IInv, RunInv PROVE CanContinue
    BY DEF LatelyInv, CanContinue
  <2>1. clock \in Nat /\ remote \in SUBSET (1 .. clock)
    BY DEF IInv, Times
  <2>2. remote # {} => Max(remote) \in remote /\ Top(Max(remote), remote)
    BY <2>1, TopFacts DEF Top
  <2>. QED
    BY <2>2 DEF RunInv, Target, CanContinue
<1>. QED
  BY <1>1, <1>2, <1>3, PTL DEF Spec

\* In the same states no step takes the newest snapshot off the target: neither the receive nor the prune
\* rolls it back.
THEOREM TargetNeverRolledBack == Spec => NeverRolledBack
<1>1. Init => IInv /\ LatelyInv
  BY InitIInv, InitContinue DEF LatelyInv, RunInv
<1>2. IInv /\ LatelyInv /\ [Next]_vars => IInv' /\ LatelyInv'
  BY NextFacts, LatelyStep
<1>3. IInv /\ LatelyInv /\ [Next]_vars => [Lately /\ remote # {} => remote' # {} /\ Max(remote') >= Max(remote)]_vars
  <2> SUFFICES ASSUME IInv, RunInv, [Next]_vars, remote # {} PROVE remote' # {} /\ Max(remote') >= Max(remote)
    BY DEF LatelyInv
  <2>1. PICK b : b = Max(remote)
    OBVIOUS
  <2>2. clock \in Nat /\ remote \in SUBSET (1 .. clock)
    BY DEF IInv, Times
  <2>3. Top(b, remote) /\ b \in Nat
    <3>1. Top(b, remote)
      BY <2>1, <2>2, TopFacts
    <3>. QED
      BY <2>2, <3>1 DEF Top
  <2>4. b \in remote'
    BY <2>3, TopIsKept
  <2>5. clock' \in Nat /\ remote' \in SUBSET (1 .. clock') /\ remote' # {}
    BY <2>4, NextFacts DEF IInv, Times
  <2>6. PICK c : c = Max(remote')
    OBVIOUS
  <2>7. Top(c, remote')
    BY <2>5, <2>6, TopFacts
  <2>8. b <= c /\ c \in Nat
    BY <2>4, <2>5, <2>7 DEF Top
  <2>9. c >= b
    BY <2>3, <2>8
  <2>. QED
    BY <2>1, <2>5, <2>6, <2>9
<1>. QED
  BY <1>1, <1>2, <1>3, PTL DEF Spec, NeverRolledBack
----------------------------------------------------------------------------
(* Who runs it: what the jobs table says of the runners, for every set of  *)
(* replications and of runners, any number of crashes and reboots, and     *)
(* with or without pids that are used again                                *)

\* What a crash makes of the rows: each keeps its type, and the rows of live runners
\* are the same, without those of the runners that died.
LEMMA OrphanedRows ==
    ASSUME rows \subseteq Rows, NEW dead \in SUBSET Runners, NEW how \in {"gone", "reused"}
    PROVE  /\ Orphaned(dead, how) \subseteq Rows
           /\ \A id \in Ids, r \in Runners :
                Row(id, r) \in Orphaned(dead, how) <=> Row(id, r) \in rows /\ r \notin dead
  <1> DEFINE After(row) == IF row.by \in dead /\ row.pid = "alive" THEN [row EXCEPT !.pid = how] ELSE row
  <1>1. \A row \in rows : After(row) \in Rows
    BY DEF Rows
  <1>2. ASSUME NEW id \in Ids, NEW r \in Runners
        PROVE  Row(id, r) \in Orphaned(dead, how) <=> Row(id, r) \in rows /\ r \notin dead
    <2>1. ASSUME NEW row \in rows, Row(id, r) = After(row)
          PROVE  row = Row(id, r) /\ r \notin dead
      <3>1. CASE row.by \in dead /\ row.pid = "alive"
        <4>1. After(row).pid = how
          BY <3>1 DEF Rows
        <4>2. Row(id, r).pid = "alive"
          BY DEF Row
        <4> QED
          BY <4>1, <4>2, <2>1
      <3>2. CASE ~(row.by \in dead /\ row.pid = "alive")
        BY <3>2, <2>1 DEF Row
      <3> QED
        BY <3>1, <3>2
    <2>2. ASSUME Row(id, r) \in rows, r \notin dead
          PROVE  Row(id, r) = After(Row(id, r))
      BY <2>2 DEF Row
    <2> QED
      BY <2>1, <2>2 DEF Orphaned
  <1> QED
    BY <1>1, <1>2 DEF Orphaned

\* A runner past its list has a replication in hand; one that was spawned for a
\* replication has it from the start.
Named ==
    \A r \in Runners :
        at[r] \in {"check", "start", "work", "finish"} \/ (r # Timer /\ at[r] = "reap") => cur[r] \in Ids

JobsInv == TypeOK /\ Named /\ RowIffWorking

\* Every step preserves the inductive invariant.
LEMMA JobsInductive == ASSUME JobsInv, [JobsNext]_jobsVars PROVE JobsInv'
  <1> USE JobsAssumption DEF JobsInv
  <1>1. CASE TimerFires
    <2>1. TypeOK'
      BY <1>1 DEF TimerFires, Goto, TypeOK
    <2>2. Named'
      BY <1>1 DEF TimerFires, Goto, TypeOK, Named
    <2>3. RowIffWorking'
      BY <1>1 DEF TimerFires, Goto, TypeOK, RowIffWorking
    <2> QED
      BY <2>1, <2>2, <2>3
  <1>2. ASSUME NEW r \in Manual, NEW id \in Ids, RunVerb(r, id) PROVE JobsInv'
    <2>1. TypeOK'
      BY <1>2 DEF RunVerb, Goto, Runners, TypeOK
    <2>2. Named'
      BY <1>2 DEF RunVerb, Goto, Runners, TypeOK, Named
    <2>3. RowIffWorking'
      BY <1>2 DEF RunVerb, Goto, Runners, TypeOK, RowIffWorking
    <2> QED
      BY <2>1, <2>2, <2>3
  <1>3. ASSUME NEW r \in Runners, Reap(r) PROVE JobsInv'
    <2>1. TypeOK'
      BY <1>3 DEF Reap, Goto, TypeOK, Named
    <2>2. Named'
      BY <1>3 DEF Reap, Goto, TypeOK, Named
    <2>3. RowIffWorking'
      BY <1>3 DEF Reap, Goto, Dead, Row, TypeOK, RowIffWorking
    <2> QED
      BY <2>1, <2>2, <2>3
  <1>4. ASSUME NEW r \in Runners, NextId(r) PROVE JobsInv'
    <2>1. TypeOK'
      BY <1>4 DEF NextId, Goto, TypeOK
    <2>2. Named'
      BY <1>4 DEF NextId, Goto, TypeOK, Named
    <2>3. RowIffWorking'
      BY <1>4 DEF NextId, Goto, TypeOK, RowIffWorking
    <2> QED
      BY <2>1, <2>2, <2>3
  <1>5. ASSUME NEW r \in Runners, Check(r) PROVE JobsInv'
    <2>1. TypeOK'
      <3>1. CASE cur[r] \in repls /\ ~RunningJob(cur[r])
        BY <1>5, <3>1 DEF Check, Goto, TypeOK
      <3>2. CASE ~(cur[r] \in repls /\ ~RunningJob(cur[r]))
        <4>1. dropped' \subseteq Ids
          <5>1. queue[r] \subseteq Ids /\ dropped \subseteq Ids
            BY DEF TypeOK
          <5>2. dropped' = queue[r] \/ dropped' = dropped
            BY <1>5, <3>2 DEF Check
          <5> QED
            BY <5>1, <5>2
        <4>2. queue' \in [Runners -> SUBSET Ids]
          BY <1>5, <3>2 DEF Check, TypeOK
        <4> QED
          BY <1>5, <3>2, <4>1, <4>2 DEF Check, Goto, TypeOK
      <3> QED
        BY <3>1, <3>2
    <2>2. Named'
      BY <1>5 DEF Check, Goto, TypeOK, Named
    <2>3. RowIffWorking'
      BY <1>5 DEF Check, Goto, TypeOK, RowIffWorking
    <2> QED
      BY <2>1, <2>2, <2>3
  <1>6. ASSUME NEW r \in Runners, StartJob(r) PROVE JobsInv'
    <2>1. TypeOK'
      BY <1>6 DEF StartJob, Goto, Row, Rows, TypeOK, Named
    <2>2. Named'
      BY <1>6 DEF StartJob, Goto, TypeOK, Named
    <2>3. RowIffWorking'
      BY <1>6 DEF StartJob, Goto, Row, TypeOK, RowIffWorking
    <2> QED
      BY <2>1, <2>2, <2>3
  <1>7. ASSUME NEW r \in Runners, Work(r) PROVE JobsInv'
    <2>1. TypeOK'
      BY <1>7 DEF Work, Goto, TypeOK
    <2>2. Named'
      BY <1>7 DEF Work, Goto, TypeOK, Named
    <2>3. RowIffWorking'
      BY <1>7 DEF Work, Goto, TypeOK, RowIffWorking
    <2> QED
      BY <2>1, <2>2, <2>3
  <1>8. ASSUME NEW r \in Runners, FinishJob(r) PROVE JobsInv'
    <2>1. TypeOK'
      BY <1>8 DEF FinishJob, Goto, TypeOK
    <2>2. Named'
      BY <1>8 DEF FinishJob, Goto, TypeOK, Named
    <2>3. RowIffWorking'
      BY <1>8 DEF FinishJob, Goto, Row, TypeOK, RowIffWorking
    <2> QED
      BY <2>1, <2>2, <2>3
  <1>9. ASSUME NEW r \in Runners, RunnerDies(r) PROVE JobsInv'
    <2>1. TypeOK'
      BY <1>9, OrphanedRows DEF RunnerDies, Goto, TypeOK
    <2>2. Named'
      BY <1>9 DEF RunnerDies, Goto, TypeOK, Named
    <2>3. RowIffWorking'
      BY <1>9, OrphanedRows DEF RunnerDies, Goto, TypeOK, RowIffWorking
    <2> QED
      BY <2>1, <2>2, <2>3
  <1>10. ASSUME NEW id \in Ids, BecomeDue(id) \/ SetReplication(id) \/ Remove(id) PROVE JobsInv'
    <2>1. TypeOK'
      <3>1. CASE BecomeDue(id) \/ Remove(id)
        BY <3>1 DEF BecomeDue, Remove, TypeOK
      <3>2. CASE SetReplication(id)
        <4>1. repls' \subseteq Ids /\ due' \subseteq Ids
          BY <3>2 DEF SetReplication, TypeOK
        <4>2. manual' \in 0 .. MaxManual
          BY <3>2 DEF SetReplication, TypeOK
        <4> QED
          BY <3>2, <4>1, <4>2 DEF SetReplication, TypeOK
      <3> QED
        BY <1>10, <3>1, <3>2
    <2>2. Named'
      BY <1>10 DEF BecomeDue, SetReplication, Remove, TypeOK, Named
    <2>3. RowIffWorking'
      BY <1>10 DEF BecomeDue, SetReplication, Remove, TypeOK, RowIffWorking
    <2> QED
      BY <2>1, <2>2, <2>3
  <1>11. CASE Reboot
    <2>1. TypeOK'
      BY <1>11, OrphanedRows DEF Reboot, TypeOK
    <2>2. Named'
      BY <1>11 DEF Reboot, TypeOK, Named
    <2>3. RowIffWorking'
      BY <1>11, OrphanedRows DEF Reboot, TypeOK, RowIffWorking
    <2> QED
      BY <2>1, <2>2, <2>3
  <1>12. CASE UNCHANGED jobsVars
    <2>1. TypeOK'
      BY <1>12 DEF jobsVars, TypeOK
    <2>2. Named'
      BY <1>12 DEF jobsVars, TypeOK, Named
    <2>3. RowIffWorking'
      BY <1>12 DEF jobsVars, TypeOK, RowIffWorking
    <2> QED
      BY <2>1, <2>2, <2>3
  <1> QED
    BY <1>1, <1>2, <1>3, <1>4, <1>5, <1>6, <1>7, <1>8, <1>9, <1>10, <1>11, <1>12 DEF JobsNext, Step

\* The variables keep their types: a row always names a replication of the system and
\* a runner, whatever dies or restarts (db.ts, replicate.ts).
THEOREM JobsTypeCorrect == JobsSpec => []TypeOK
  <1>1. JobsInit => JobsInv
    BY JobsAssumption DEF JobsInit, JobsInv, TypeOK, Named, RowIffWorking, NoId
  <1>2. JobsInv => TypeOK
    BY DEF JobsInv
  <1>3. JobsInv /\ [JobsNext]_jobsVars => JobsInv'
    BY JobsInductive
  <1> QED
    BY <1>1, <1>2, <1>3, PTL DEF JobsSpec

\* A row says running under a live runner's pid exactly while that runner is at that
\* replication (db.ts:477-496, replication.ts:240-315).
THEOREM RowsAreRunners == JobsSpec => []RowIffWorking
  <1>1. JobsInit => JobsInv
    BY JobsAssumption DEF JobsInit, JobsInv, TypeOK, Named, RowIffWorking, NoId
  <1>2. JobsInv => RowIffWorking
    BY DEF JobsInv
  <1>3. JobsInv /\ [JobsNext]_jobsVars => JobsInv'
    BY JobsInductive
  <1> QED
    BY <1>1, <1>2, <1>3, PTL DEF JobsSpec
=============================================================================
