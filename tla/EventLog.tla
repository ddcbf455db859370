------------------------------ MODULE EventLog ------------------------------
(***************************************************************************)
(* The kernel's ZFS events as the agent reads them (events.ts, and the two *)
(* callbacks index.ts gives it): a poll every few seconds, the tail kept   *)
(* in memory, scan ends and events worth a look passed on, and the list    *)
(* the verb events shows.                                                  *)
(*                                                                         *)
(* An event is its id, what it is about, and a serial number that stands   *)
(* for its time and by which the properties know it.                       *)
(***************************************************************************)
EXTENDS Integers, Sequences, FiniteSets, SequencesExt, FiniteSetsExt

CONSTANTS About,      \* [class, disk] pairs
          Polls,      \* polls that can be under way: the timer does not wait for the last one
          KernelKeep, \* events the kernel keeps
          Keep,       \* events the agent keeps (KEEP)
          Overtakes,  \* whether ids that started over may reach the last one seen before a poll sees them
          MaxEvents, MaxClears, MaxLogFaults \* bounds: events; times the ids start over; failed reads and agent restarts

ASSUME EventLogAssumption ==
  /\ \A a \in About : a.class \in {"fault", "online", "scan_finish", "routine"}
  /\ KernelKeep \in Nat \ {0} /\ Keep \in Nat \ {0} /\ Overtakes \in BOOLEAN
  /\ MaxEvents \in Nat /\ MaxClears \in Nat /\ MaxLogFaults \in Nat

VARIABLES kernel,  \* its list, oldest first; the last id given; how often ids started over
          lastEid, tail, busy, \* EventLog's fields
          poll,    \* each poll: where it is, and the list it read or the events it found fresh
          told,    \* the serial numbers passed to onEvents in this life of the agent
          seenGen, \* which list the last poll that found something had read
          serial, logFaults

logVars == <<kernel, lastEid, tail, busy, poll, told, seenGen, serial, logFaults>>
agent == <<lastEid, tail, busy, poll, told, seenGen>>

Idle == [pc |-> "idle", list |-> <<>>, gen |-> 0]

LogInit == /\ kernel = [list |-> <<>>, eid |-> 0, gen |-> 0]
           /\ lastEid = -1 /\ tail = <<>> /\ busy = FALSE
           /\ poll = [p \in Polls |-> Idle]
           /\ told = {} /\ seenGen = 0
           /\ serial = 0 /\ logFaults = 0

Fault == logFaults < MaxLogFaults /\ logFaults' = logFaults + 1
Newest(s, n) == SubSeq(s, Max({1, Len(s) - n + 1}), Len(s))
----------------------------------------------------------------------------
(* The kernel *)

\* The highest id the agent knows, or is about to know from a list it has read.
Known == Max({lastEid} \cup UNION {{poll[p].list[i].eid : i \in DOMAIN poll[p].list} : p \in Polls})

KernelEvent(a) ==
  /\ serial < MaxEvents
  /\ Overtakes \/ kernel.gen = seenGen \/ Known = -1 \/ kernel.eid + 1 < Known
  /\ serial' = serial + 1
  /\ kernel' = [kernel EXCEPT !.eid = @ + 1,
                              !.list = Newest(Append(@, [eid |-> kernel.eid + 1, n |-> serial + 1, about |-> a]), KernelKeep)]
  /\ UNCHANGED <<agent, logFaults>>

\* zpool events -c, or the module loaded anew.
IdsStartOver ==
  /\ kernel.gen < MaxClears
  /\ kernel' = [list |-> <<>>, eid |-> 0, gen |-> kernel.gen + 1]
  /\ UNCHANGED <<agent, serial, logFaults>>
----------------------------------------------------------------------------
(* A poll *)

\* The events a person should hear about, and those worth a look at the box.
Matters(e)  == e.about.class = "fault"
ScanEnd(e)  == e.about.class = "scan_finish"
Worth(e)    == Matters(e) \/ ScanEnd(e) \/ e.about.class = "online"

\* Mutant: nothing keeps a poll from starting while another waits for its command.
PollBeginsAnyway(p) ==
  /\ poll[p] = Idle
  /\ poll' = [poll EXCEPT ![p].pc = "asked"]
  /\ busy' = TRUE
  /\ UNCHANGED <<kernel, lastEid, tail, told, seenGen, serial, logFaults>>

\* Another under way: this one returns at once.
PollBegins(p) ==
  /\ poll[p] = Idle /\ ~busy
  /\ poll' = [poll EXCEPT ![p].pc = "asked"]
  /\ busy' = TRUE
  /\ UNCHANGED <<kernel, lastEid, tail, told, seenGen, serial, logFaults>>

\* zpool events prints the list and ends; its output is the agent's to read later.
ZpoolEvents(p) ==
  /\ poll[p].pc = "asked"
  /\ poll' = [poll EXCEPT ![p] = [pc |-> "read", list |-> kernel.list, gen |-> kernel.gen]]
  /\ UNCHANGED <<kernel, lastEid, tail, busy, told, seenGen, serial, logFaults>>

PollReturns(p) == poll' = [poll EXCEPT ![p] = Idle] /\ busy' = FALSE

PollFails(p) ==
  /\ poll[p].pc = "asked"
  /\ PollReturns(p) /\ Fault
  /\ UNCHANGED <<kernel, lastEid, tail, told, seenGen, serial>>

\* Mutant: ids that started over are taken for old ones.
SinceNever(all) == lastEid

\* The last id to count from: ids lower than it mean they started over.
Since(all) == IF all # <<>> /\ Last(all).eid < lastEid THEN -1 ELSE lastEid

\* all.filter(e => e.eid > since): ids grow along a list, so that what is left is an end of it.
Newer(all, since) == SubSeq(all, Min({i \in DOMAIN all : all[i].eid > since} \cup {Len(all) + 1}), Len(all))

\* What is new is kept and, when a scan ended, its job row is closed before anyone else is told.
KeepFresh(p) ==
  LET all   == poll[p].list
      fresh == Newer(all, Since(all))
  IN
  /\ poll[p].pc = "read"
  /\ IF fresh = <<>>
       THEN /\ PollReturns(p)
            /\ lastEid' = Since(all)
            /\ UNCHANGED <<tail, seenGen>>
       ELSE /\ lastEid' = Last(fresh).eid
            /\ tail' = Newest(tail \o fresh, Keep)
            /\ poll' = [poll EXCEPT ![p].pc = IF \E i \in DOMAIN fresh : ScanEnd(fresh[i]) THEN "reconciling" ELSE "telling",
                                    ![p].list = fresh]
            /\ seenGen' = poll[p].gen
            /\ UNCHANGED busy
  /\ UNCHANGED <<kernel, told, serial, logFaults>>

\* reconcileScans ended, well or not.
PoolsReconciled(p) ==
  /\ poll[p].pc = "reconciling"
  /\ poll' = [poll EXCEPT ![p].pc = "telling"]
  /\ UNCHANGED <<kernel, lastEid, tail, busy, told, seenGen, serial, logFaults>>

WorthOf(s) == {s[i].n : i \in {j \in DOMAIN s : Worth(s[j])}}

\* onEvents looks at the box for alerts; the poll returns.
Tell(p) ==
  /\ poll[p].pc = "telling"
  /\ told' = told \cup WorthOf(poll[p].list)
  /\ PollReturns(p)
  /\ UNCHANGED <<kernel, lastEid, tail, seenGen, serial, logFaults>>

AgentRestarts ==
  /\ Fault
  /\ lastEid' = -1 /\ tail' = <<>> /\ busy' = FALSE
  /\ poll' = [p \in Polls |-> Idle]
  /\ told' = {} /\ seenGen' = kernel.gen
  /\ UNCHANGED <<kernel, serial>>

Step(p) == ZpoolEvents(p) \/ KeepFresh(p) \/ PoolsReconciled(p) \/ Tell(p)

LogNext == \/ \E a \in About : KernelEvent(a)
           \/ IdsStartOver \/ AgentRestarts
           \/ \E p \in Polls : PollBegins(p) \/ PollFails(p) \/ Step(p)

\* The interval timer fires for ever, and every command ends or is timed out.
LogFairness == /\ WF_logVars(\E p \in Polls : PollBegins(p))
               /\ \A p \in Polls : WF_logVars(Step(p))

LogSpec == LogInit /\ [][LogNext]_logVars /\ LogFairness
----------------------------------------------------------------------------
(* The list the verb shows *)

\* Mutant: events of the same class are one line, whichever disk they are about.
SameClass(line, e) == line.about.class = e.about.class

\* The same thing on the same disk.
Same(line, e) == line.about = e.about

\* One event, going back from the newest, against the lines so far.
AddLine(out, e) ==
  IF out # <<>> /\ Same(Last(out), e)
    THEN [out EXCEPT ![Len(out)].count = @ + 1]
    ELSE Append(out, [about |-> e.about, count |-> 1])

\* recent(limit, all, since): newest first, until there are limit lines or the events are older than since.
Recent(limit, all, since) ==
  FoldLeft(LAMBDA out, e : IF Len(out) >= limit \/ e.n < since \/ (~all /\ ~Matters(e)) THEN out ELSE AddLine(out, e),
           <<>>, Reverse(tail))
----------------------------------------------------------------------------
(* Properties *)

\* No event is passed on twice in one life of the agent: a list that is older than what was already seen
\* would look like ids that started over.
ToldOnce == [][\A p \in Polls : (poll[p].pc = "telling" /\ poll'[p] = Idle /\ told' # {}) => told \cap WorthOf(poll[p].list) = {}]_logVars

\* An event worth a look is told while the kernel still lists it, or drops out of the list first: through
\* failed reads, restarts of the agent and ids that start over.
EventuallyTold == \A n \in 1 .. MaxEvents :
  (n \in WorthOf(kernel.list)) ~> (n \in told \/ n \notin WorthOf(kernel.list))

\* What is shown adds up: lines next to each other are about different things, the list without a limit
\* counts every event asked for, and a limit cuts lines off the end and changes none before the last one
\* it leaves.  (The last one is cut as well: reading stops when it is begun, with a count of 1.)
CountsAddUp == \A all \in BOOLEAN, since \in 0 .. serial :
  LET whole == Recent(Keep, all, since)
      asked == {i \in DOMAIN tail : tail[i].n >= since /\ (all \/ Matters(tail[i]))}
  IN /\ \A i \in 1 .. Len(whole) - 1 : whole[i].about # whole[i + 1].about
     /\ \A a \in About : MapThenSumSet(LAMBDA i : whole[i].count, {i \in DOMAIN whole : whole[i].about = a})
                          = Cardinality({i \in asked : tail[i].about = a})
     /\ \A limit \in 1 .. Len(whole) :
          LET cut == Recent(limit, all, since)
          IN  Len(cut) = limit /\ Front(cut) = SubSeq(whole, 1, limit - 1) /\ Last(cut).about = whole[limit].about
=============================================================================
