------------------------------ MODULE Network ------------------------------
(***************************************************************************)
(* The address change and its promised revert (agent/src/network.ts).      *)
(*                                                                         *)
(* network.set writes the agent's one netplan file and, before it, a note  *)
(* (netplan-pending.json) holding the file's previous content and a time.  *)
(* network.confirm deletes the note.  If the time is up first, whoever     *)
(* looks next (a network read, the agent's start, the timer's tick) puts   *)
(* the previous content back, and deletes the note only once netplan took  *)
(* it.  Every await of the code is a step here, so operations of several   *)
(* callers interleave, and a crash can fall between any two steps.         *)
(*                                                                         *)
(* The content of a file is opaque.  The hostname half of network.set      *)
(* shares no state with the address and is left out.                       *)
(***************************************************************************)
EXTENDS Naturals

CONSTANTS
    Callers,    \* operations that may be in flight at once
    Setters,    \* the callers that serve network.set (the tick never does)
    Confirmers, \* the callers that serve network.confirm
    Contents,   \* what network.set can write into the netplan file
    Refused,    \* the contents `netplan generate` refuses
    NoFile,     \* there is no netplan file of ours
    Broken,     \* a file a crash left half written
    MaxFaults   \* bound: crashes and failures of netplan in one behaviour

ASSUME NetworkAssumption ==
    /\ Setters \subseteq Callers
    /\ Confirmers \subseteq Callers
    /\ Refused \subseteq Contents
    /\ NoFile \notin Contents
    /\ Broken \notin Contents \cup {NoFile}
    /\ MaxFaults \in Nat

VARIABLES
    file,       \* what is in the netplan file
    note,       \* the pending note: absent, unreadable, waiting, or past its time
    previous,   \* the previous content the note holds
    live,       \* the file netplan applied last
    kept,       \* history: the content in force before any change still to be kept
    pc,         \* where each caller is
    goal,       \* what each caller is doing
    want,       \* the content a caller's network.set writes
    prev,       \* the previous content a caller has read
    faults      \* crashes and netplan failures so far

vars == <<file, note, previous, live, kept, pc, goal, want, prev, faults>>

Files == Contents \cup {NoFile, Broken}

Steps == {"idle", "expiry", "revert", "putback", "regenerate", "reapply", "forget",
          "check", "read", "arm", "write", "generate", "apply"}

\* network.pending: an absent or unreadable note is no note.
HasNote == note \in {"armed", "expired"}

\* netplan generate (external): refuses what it cannot parse or build.
Accepts(f) == f \notin Refused \cup {Broken}

Init ==
    /\ file \in {NoFile} \cup (Contents \ Refused)
    /\ note = "none"
    /\ previous = NoFile
    /\ live = file
    /\ kept = file
    /\ pc = [p \in Callers |-> "idle"]
    /\ goal = [p \in Callers |-> "revert"]
    /\ want = [p \in Callers |-> NoFile]
    /\ prev = [p \in Callers |-> NoFile]
    /\ faults = 0

Goto(p, step) == pc' = [pc EXCEPT ![p] = step]

Fault == faults < MaxFaults /\ faults' = faults + 1

----------------------------------------------------------------------------
(* revertIfExpired and revert.                                             *)

\* network, the agent's start and the tick all come in here.
StartRevert(p) ==
    /\ pc[p] = "idle"
    /\ goal' = [goal EXCEPT ![p] = "revert"]
    /\ Goto(p, "expiry")
    /\ UNCHANGED <<file, note, previous, live, kept, want, prev, faults>>

\* Where a caller goes when there is nothing (more) to revert.
AfterRevert(p) == IF goal[p] = "set" THEN "check" ELSE "idle"

\* Mutant of CheckExpired: the comparison with the clock the wrong way round.
CheckExpiredInverted(p) ==
    /\ pc[p] = "expiry"
    /\ Goto(p, IF note = "armed" THEN "revert" ELSE AfterRevert(p))
    /\ UNCHANGED <<file, note, previous, live, kept, goal, want, prev, faults>>

\* revertIfExpired's own read of the note.
CheckExpired(p) ==
    /\ pc[p] = "expiry"
    /\ Goto(p, IF note = "expired" THEN "revert" ELSE AfterRevert(p))
    /\ UNCHANGED <<file, note, previous, live, kept, goal, want, prev, faults>>

\* Mutant of ReadNote: the note goes before the old file is back.
ReadNoteForgets(p) ==
    /\ pc[p] = "revert"
    /\ prev' = IF HasNote THEN [prev EXCEPT ![p] = previous] ELSE prev
    /\ Goto(p, IF HasNote THEN "putback" ELSE AfterRevert(p))
    /\ note' = "none"
    /\ UNCHANGED <<file, previous, live, kept, goal, want, faults>>

\* revert reads the note again: it may not be the one that was looked at.
ReadNote(p) ==
    /\ pc[p] = "revert"
    /\ IF HasNote
       THEN /\ prev' = [prev EXCEPT ![p] = previous]
            /\ Goto(p, "putback")
       ELSE /\ Goto(p, AfterRevert(p))
            /\ UNCHANGED prev
    /\ UNCHANGED <<file, note, previous, live, kept, goal, want, faults>>

\* applyFile writes the old content, or removes the file when there was none.
PutBack(p) ==
    /\ pc[p] = "putback"
    /\ file' = prev[p]
    /\ Goto(p, "regenerate")
    /\ UNCHANGED <<note, previous, live, kept, goal, want, prev, faults>>

\* netplan generate: a refusal or a failure throws out of revert, note and all left.
Regenerate(p) ==
    /\ pc[p] = "regenerate"
    /\ \/ Accepts(file) /\ Goto(p, "reapply") /\ UNCHANGED faults
       \/ ~Accepts(file) /\ Goto(p, "idle") /\ UNCHANGED faults
       \/ Fault /\ Goto(p, "idle")
    /\ UNCHANGED <<file, note, previous, live, kept, goal, want, prev>>

\* Mutant of Reapply: a failed apply passes for a revert.
ReapplyShrugs(p) ==
    /\ pc[p] = "reapply"
    /\ \/ live' = file /\ Goto(p, "forget") /\ UNCHANGED faults
       \/ live' \in {live, file} /\ Goto(p, "forget") /\ Fault
    /\ UNCHANGED <<file, note, previous, kept, goal, want, prev>>

\* netplan apply: one that fails may have applied the file or not.
Reapply(p) ==
    /\ pc[p] = "reapply"
    /\ \/ live' = file /\ Goto(p, "forget") /\ UNCHANGED faults
       \/ live' \in {live, file} /\ Goto(p, "idle") /\ Fault
    /\ UNCHANGED <<file, note, previous, kept, goal, want, prev>>

\* The note goes, whichever note is there by now.
Forget(p) ==
    /\ pc[p] = "forget"
    /\ note' = "none"
    /\ previous' = NoFile
    /\ Goto(p, AfterRevert(p))
    /\ UNCHANGED <<file, live, kept, goal, want, prev, faults>>

----------------------------------------------------------------------------
(* network.confirm.                                                        *)

\* Deletes the note, in time or not; what it kept is then the content in force.
Confirm(p) ==
    /\ p \in Confirmers
    /\ pc[p] = "idle"
    /\ note' = "none"
    /\ previous' = NoFile
    /\ kept' = IF HasNote THEN file ELSE kept
    /\ UNCHANGED <<file, live, pc, goal, want, prev, faults>>

----------------------------------------------------------------------------
(* network.set: revertIfExpired, then setNetwork.                          *)

StartSet(p, c) ==
    /\ p \in Setters
    /\ pc[p] = "idle"
    /\ goal' = [goal EXCEPT ![p] = "set"]
    /\ want' = [want EXCEPT ![p] = c]
    /\ Goto(p, "expiry")
    /\ UNCHANGED <<file, note, previous, live, kept, prev, faults>>

\* Mutant of CheckPending: a second change is not refused.
CheckPendingNever(p) ==
    /\ pc[p] = "check"
    /\ Goto(p, "read")
    /\ UNCHANGED <<file, note, previous, live, kept, goal, want, prev, faults>>

\* readNetwork: a change that still waits refuses this one.
CheckPending(p) ==
    /\ pc[p] = "check"
    /\ Goto(p, IF HasNote THEN "idle" ELSE "read")
    /\ UNCHANGED <<file, note, previous, live, kept, goal, want, prev, faults>>

\* Mutant of ReadPrevious: the file is written with no note before it.
ReadPreviousNoNote(p) ==
    /\ pc[p] = "read"
    /\ prev' = [prev EXCEPT ![p] = file]
    /\ Goto(p, "write")
    /\ UNCHANGED <<file, note, previous, live, kept, goal, want, faults>>

ReadPrevious(p) ==
    /\ pc[p] = "read"
    /\ prev' = [prev EXCEPT ![p] = file]
    /\ Goto(p, "arm")
    /\ UNCHANGED <<file, note, previous, live, kept, goal, want, faults>>

WriteNote(p) ==
    /\ pc[p] = "arm"
    /\ note' = "armed"
    /\ previous' = prev[p]
    /\ Goto(p, "write")
    /\ UNCHANGED <<file, live, kept, goal, want, prev, faults>>

WriteFile(p) ==
    /\ pc[p] = "write"
    /\ file' = want[p]
    /\ Goto(p, "generate")
    /\ UNCHANGED <<note, previous, live, kept, goal, want, prev, faults>>

\* netplan did not take it: the catch runs revert and swallows its failure.
Undo(p) ==
    /\ goal' = [goal EXCEPT ![p] = "undo"]
    /\ Goto(p, "revert")

Generate(p) ==
    /\ pc[p] = "generate"
    /\ \/ Accepts(file) /\ Goto(p, "apply") /\ UNCHANGED <<goal, faults>>
       \/ ~Accepts(file) /\ Undo(p) /\ UNCHANGED faults
       \/ Fault /\ Undo(p)
    /\ UNCHANGED <<file, note, previous, live, kept, want, prev>>

Apply(p) ==
    /\ pc[p] = "apply"
    /\ \/ live' = file /\ Goto(p, "idle") /\ UNCHANGED <<goal, faults>>
       \/ live' \in {live, file} /\ Undo(p) /\ Fault
    /\ UNCHANGED <<file, note, previous, kept, want, prev>>

----------------------------------------------------------------------------
(* Time, crashes and reboots.                                              *)

\* revertAfter seconds have passed.
Expire ==
    /\ note = "armed"
    /\ note' = "expired"
    /\ UNCHANGED <<file, previous, live, kept, pc, goal, want, prev, faults>>

\* The process dies at a step; a write it was in may be left half done.
Crash(p) ==
    /\ pc[p] # "idle"
    /\ Fault
    /\ Goto(p, "idle")
    /\ note' \in IF pc[p] = "arm" THEN {note, "torn"} ELSE {note}
    /\ file' \in IF pc[p] \in {"putback", "write"} THEN {file, Broken} ELSE {file}
    /\ UNCHANGED <<previous, live, kept, goal, want, prev>>

\* The box restarts: every process is gone and netplan builds what the file says.
Reboot ==
    /\ Fault
    /\ pc' = [p \in Callers |-> "idle"]
    /\ live' = IF Accepts(file) THEN file ELSE Broken
    /\ UNCHANGED <<file, note, previous, kept, goal, want, prev>>

Step(p) ==
    \/ CheckExpired(p) \/ ReadNote(p) \/ PutBack(p) \/ Regenerate(p) \/ Reapply(p) \/ Forget(p)
    \/ CheckPending(p) \/ ReadPrevious(p) \/ WriteNote(p) \/ WriteFile(p) \/ Generate(p) \/ Apply(p)

Next ==
    \/ \E p \in Callers : \/ StartRevert(p)
                          \/ Confirm(p)
                          \/ \E c \in Contents : StartSet(p, c)
                          \/ Step(p)
                          \/ Crash(p)
    \/ Expire
    \/ Reboot

\* A step that was begun goes on unless its process dies, and the tick comes
\* round every fifteen minutes.  Nobody has to confirm, set or crash.
Fairness == \A p \in Callers : WF_vars(Step(p)) /\ WF_vars(StartRevert(p))

Spec == Init /\ [][Next]_vars

FairSpec == Spec /\ Fairness

----------------------------------------------------------------------------
(* Properties.                                                             *)

TypeOK ==
    /\ file \in Files
    /\ note \in {"none", "torn", "armed", "expired"}
    /\ previous \in Files
    /\ live \in Files
    /\ kept \in Files
    /\ pc \in [Callers -> Steps]
    /\ goal \in [Callers -> {"revert", "set", "undo"}]
    /\ want \in [Callers -> Contents \cup {NoFile}]
    /\ prev \in [Callers -> Files]
    /\ faults \in 0 .. MaxFaults

\* One operation at a time: nothing in the code enforces it, and the properties
\* below need it.
OneAtATime == \A p, q \in Callers : p = q

\* setNetwork, network.ts:241-265.  The content a note would put back is the one
\* in force before the change: never a change that nobody has kept.
NoteHoldsKept == HasNote => previous = kept

\* network.ts:189-204 and 263-272.  When nothing is in flight (after any crash,
\* too), either the file is the one in force, or a note stands that will put that
\* one back: an unkept change is never left behind without its revert.
RevertPromised ==
    (\A p \in Callers : pc[p] = "idle") =>
        \/ file = kept
        \/ HasNote /\ previous = kept

\* network.ts:193-195.  The note is deleted by a revert only when netplan runs
\* the file that was in force.
ForgetAfterApply ==
    \A p \in Callers : pc[p] = "forget" => file = kept /\ live = kept

\* network.ts:258-267.  The netplan file is only ever written while a note stands,
\* so that a crash at any point can be undone.
WrittenUnderNote == [][file' # file => HasNote]_vars

\* network.ts:200-204.  A note past its time does not stay: unless a person keeps
\* the change after all, the content in force comes back, as long as netplan
\* accepts that content.
ExpiredIsSettled ==
    (note = "expired" /\ Accepts(previous)) ~> (note = "none" /\ file = kept)

=============================================================================
