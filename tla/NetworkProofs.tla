--------------------------- MODULE NetworkProofs ---------------------------
(***************************************************************************)
(* Proofs about Network, for every set of callers, contents and bounds.    *)
(* Type correctness needs nothing; the promise of the revert needs one     *)
(* operation at a time (OneAtATime): two callers violate it.               *)
(***************************************************************************)
EXTENDS Network, TLAPS

----------------------------------------------------------------------------
(* Type correctness.                                                       *)

\* Every variable keeps its type, with any number of overlapping operations.
THEOREM TypeCorrect == Spec => []TypeOK
<1> USE NetworkAssumption DEF Files, Steps
<1>1. Init => TypeOK
  BY DEF Init, TypeOK
<1>2. TypeOK /\ [Next]_vars => TypeOK'
  <2> SUFFICES ASSUME TypeOK, [Next]_vars PROVE TypeOK'
    OBVIOUS
  <2> USE DEF TypeOK, Goto, Fault
  <2>1. ASSUME NEW p \in Callers, StartRevert(p) PROVE TypeOK'
    BY <2>1 DEF StartRevert
  <2>2. ASSUME NEW p \in Callers, Confirm(p) PROVE TypeOK'
    BY <2>2 DEF Confirm
  <2>3. ASSUME NEW p \in Callers, NEW c \in Contents, StartSet(p, c) PROVE TypeOK'
    BY <2>3 DEF StartSet
  <2>4. ASSUME NEW p \in Callers, Step(p) PROVE TypeOK'
    <3>1. CASE CheckExpired(p)  BY <3>1 DEF CheckExpired, AfterRevert
    <3>2. CASE ReadNote(p)      BY <3>2 DEF ReadNote, AfterRevert
    <3>3. CASE PutBack(p)       BY <3>3 DEF PutBack
    <3>4. CASE Regenerate(p)    BY <3>4 DEF Regenerate
    <3>5. CASE Reapply(p)       BY <3>5 DEF Reapply
    <3>6. CASE Forget(p)        BY <3>6 DEF Forget, AfterRevert
    <3>7. CASE CheckPending(p)  BY <3>7 DEF CheckPending
    <3>8. CASE ReadPrevious(p)  BY <3>8 DEF ReadPrevious
    <3>9. CASE WriteNote(p)     BY <3>9 DEF WriteNote
    <3>10. CASE WriteFile(p)    BY <3>10 DEF WriteFile
    <3>11. CASE Generate(p)     BY <3>11 DEF Generate, Undo
    <3>12. CASE Apply(p)        BY <3>12 DEF Apply, Undo
    <3> QED
      BY <2>4, <3>1, <3>2, <3>3, <3>4, <3>5, <3>6, <3>7, <3>8, <3>9, <3>10, <3>11, <3>12
      DEF Step
  <2>5. ASSUME NEW p \in Callers, Crash(p) PROVE TypeOK'
    BY <2>5 DEF Crash
  <2>6. CASE Expire
    BY <2>6 DEF Expire
  <2>7. CASE Reboot
    BY <2>7 DEF Reboot
  <2>8. CASE UNCHANGED vars
    BY <2>8 DEF vars
  <2> QED
    BY <2>1, <2>2, <2>3, <2>4, <2>5, <2>6, <2>7, <2>8 DEF Next
<1> QED
  BY <1>1, <1>2, PTL DEF Spec

----------------------------------------------------------------------------
(* The inductive invariant of one operation at a time.                     *)

\* What is known where the operation stands: outside a change the file in force
\* is there or a note is; a set that passed the check knows there is no note;
\* from the note's write to the end of netplan's work the note stands; and a
\* revert has the file in force in hand, then on disk, then running.
StepInv(p) ==
    /\ pc[p] \in {"idle", "expiry", "revert", "check"} => file = kept \/ HasNote
    /\ pc[p] \in {"read", "arm"} => file = kept /\ ~HasNote
    /\ pc[p] = "arm" => prev[p] = kept
    /\ pc[p] \in {"write", "generate", "apply"} => HasNote
    /\ pc[p] = "putback" => HasNote /\ prev[p] = kept
    /\ pc[p] \in {"regenerate", "reapply"} => HasNote /\ file = kept
    /\ pc[p] = "forget" => file = kept /\ live = kept

IInv ==
    /\ TypeOK
    /\ NoteHoldsKept
    /\ \A p \in Callers : StepInv(p)
    /\ Callers = {} => file = kept \/ HasNote

\* Wherever an operation stands, the file in force is there or a note is.
LEMMA InForceOrNoted == IInv => file = kept \/ HasNote
<1> SUFFICES ASSUME IInv PROVE file = kept \/ HasNote
  OBVIOUS
<1>1. CASE Callers = {}
  BY <1>1 DEF IInv
<1>2. ASSUME NEW p \in Callers PROVE file = kept \/ HasNote
  <2>1. pc[p] \in Steps /\ StepInv(p)
    BY DEF IInv, TypeOK
  <2> QED
    BY <2>1 DEF Steps, StepInv
<1> QED
  BY <1>1, <1>2

\* With one operation at a time, every step of the address change keeps IInv.
LEMMA Inductive == ASSUME OneAtATime PROVE Spec => []IInv
<1> USE NetworkAssumption
<1>1. Init => IInv
  <2> SUFFICES ASSUME Init PROVE IInv
    OBVIOUS
  <2>1. TypeOK
    BY DEF Init, TypeOK, Files, Steps
  <2> QED
    BY <2>1 DEF Init, IInv, StepInv, NoteHoldsKept, HasNote
<1>2. TypeOK /\ TypeOK' /\ IInv /\ [Next]_vars => IInv'
  <2> SUFFICES ASSUME TypeOK, TypeOK', IInv, [Next]_vars PROVE IInv'
    OBVIOUS
  <2> USE DEF TypeOK, IInv, StepInv, NoteHoldsKept, HasNote, OneAtATime, Goto
  <2>1. ASSUME NEW p \in Callers, StartRevert(p) PROVE IInv'
    BY <2>1 DEF StartRevert
  <2>2. ASSUME NEW p \in Callers, Confirm(p) PROVE IInv'
    BY <2>2 DEF Confirm
  <2>3. ASSUME NEW p \in Callers, NEW c \in Contents, StartSet(p, c) PROVE IInv'
    BY <2>3 DEF StartSet
  <2>4. ASSUME NEW p \in Callers, Step(p) PROVE IInv'
    <3>1. CASE CheckExpired(p)  BY <3>1 DEF CheckExpired, AfterRevert
    <3>2. CASE ReadNote(p)      BY <3>2 DEF ReadNote, AfterRevert
    <3>3. CASE PutBack(p)       BY <3>3 DEF PutBack
    <3>4. CASE Regenerate(p)    BY <3>4 DEF Regenerate
    <3>5. CASE Reapply(p)       BY <3>5 DEF Reapply
    <3>6. CASE Forget(p)        BY <3>6 DEF Forget, AfterRevert
    <3>7. CASE CheckPending(p)  BY <3>7 DEF CheckPending
    <3>8. CASE ReadPrevious(p)  BY <3>8 DEF ReadPrevious
    <3>9. CASE WriteNote(p)     BY <3>9 DEF WriteNote
    <3>10. CASE WriteFile(p)    BY <3>10 DEF WriteFile
    <3>11. CASE Generate(p)     BY <3>11 DEF Generate, Undo
    <3>12. CASE Apply(p)        BY <3>12 DEF Apply, Undo
    <3> HIDE DEF TypeOK, IInv
    <3> QED
      BY <2>4, <3>1, <3>2, <3>3, <3>4, <3>5, <3>6, <3>7, <3>8, <3>9, <3>10, <3>11, <3>12
      DEF Step
  <2>5. ASSUME NEW p \in Callers, Crash(p) PROVE IInv'
    <3>1. pc'[p] = "idle" /\ UNCHANGED <<previous, live, kept>>
      BY <2>5 DEF Crash
    <3>2. HasNote' => HasNote
      BY <2>5 DEF Crash
    <3>3. (file = kept \/ HasNote)'
      BY <2>5, InForceOrNoted DEF Crash
    <3> QED
      BY <3>1, <3>2, <3>3
  <2>6. CASE Expire
    BY <2>6 DEF Expire
  <2>7. CASE Reboot
    <3>1. \A p \in Callers : pc'[p] = "idle"
      BY <2>7 DEF Reboot
    <3>2. UNCHANGED <<file, note, previous, kept>>
      BY <2>7 DEF Reboot
    <3>3. file = kept \/ HasNote
      BY InForceOrNoted
    <3> QED
      BY <3>1, <3>2, <3>3
  <2>8. CASE UNCHANGED vars
    BY <2>8 DEF vars
  <2> QED
    BY <2>1, <2>2, <2>3, <2>4, <2>5, <2>6, <2>7, <2>8 DEF Next
<1> QED
  BY <1>1, <1>2, TypeCorrect, PTL DEF Spec

----------------------------------------------------------------------------
(* What follows from it.                                                   *)

\* setNetwork never notes down a change nobody kept as the content to go back to.
THEOREM NoteIsKept == ASSUME OneAtATime PROVE Spec => []NoteHoldsKept
<1>1. IInv => NoteHoldsKept
  BY DEF IInv
<1> QED
  BY <1>1, Inductive, PTL

\* An unkept change is never left without its revert, whatever crashed before.
THEOREM Promise == ASSUME OneAtATime PROVE Spec => []RevertPromised
<1>1. IInv => RevertPromised
  BY DEF IInv, StepInv, NoteHoldsKept, RevertPromised, HasNote
<1> QED
  BY <1>1, Inductive, PTL

\* revert forgets the note only when netplan runs the content in force.
THEOREM ForgetIsSafe == ASSUME OneAtATime PROVE Spec => []ForgetAfterApply
<1>1. IInv => ForgetAfterApply
  BY DEF IInv, StepInv, ForgetAfterApply
<1> QED
  BY <1>1, Inductive, PTL

\* The netplan file is written only while a note stands.
THEOREM WriteIsNoted == ASSUME OneAtATime PROVE Spec => WrittenUnderNote
<1>1. IInv /\ [Next]_vars => [file' # file => HasNote]_vars
  <2> SUFFICES ASSUME IInv, Next, file' # file PROVE HasNote
    OBVIOUS
  <2> USE DEF IInv, StepInv, HasNote
  <2>1. ASSUME NEW p \in Callers, Step(p) PROVE HasNote
    BY <2>1 DEF Step, CheckExpired, ReadNote, PutBack, Regenerate, Reapply, Forget,
                CheckPending, ReadPrevious, WriteNote, WriteFile, Generate, Apply
  <2>2. ASSUME NEW p \in Callers, Crash(p) PROVE HasNote
    BY <2>2 DEF Crash
  <2> QED
    BY <2>1, <2>2 DEF Next, StartRevert, Confirm, StartSet, Expire, Reboot
<1> QED
  BY <1>1, Inductive, PTL DEF Spec, WrittenUnderNote

=============================================================================
