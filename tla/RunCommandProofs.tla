-------------------------- MODULE RunCommandProofs --------------------------
(***************************************************************************)
(* For any size of the pipes and any amount of data: the types of          *)
(* RunCommand, and that a client that stays has all of the child's output  *)
(* when runCommand returns.                                                *)
(***************************************************************************)
EXTENDS RunCommand, TLAPS

\* A unit the copier of x has read and not yet written.
InHand(x) == IF copier[x] = "write" THEN 1 ELSE 0

\* No unit is lost: it is in the pipe, in hand or delivered.
Conserved ==
    client # "gone" =>
        \A x \in Stream : wrote[x] = pipe[x] + InHand(x) + delivered[x]

\* A copier of output that ends with the client there has seen the end of file.
EndsAtEndOfFile ==
    client # "gone" =>
        \A x \in Stream : copier[x] = "done" => pipe[x] = 0 /\ ~writable[x]

\* Only the end of the child closes its outputs.
ClosedByChild == \A x \in Stream : ~writable[x] => child # "running"

\* Nothing happens before the child is started.
NothingBefore ==
    /\ pc = "start" => child = "none"
    /\ child = "none" =>
          \A x \in Stream :
             copier[x] = "idle" /\ pipe[x] = 0 /\ wrote[x] = 0 /\ delivered[x] = 0

\* wg.Wait has returned, unless nothing was started.
WaitedFor ==
    pc \in {"wait", "returned", "closed"} => Drained \/ child = "none"

IInv ==
    /\ TypeOK /\ Conserved /\ EndsAtEndOfFile
    /\ ClosedByChild /\ NothingBefore /\ WaitedFor

-----------------------------------------------------------------------------
\* The variables keep their types.
LEMMA TypeStep == ASSUME TypeOK, [Next]_vars PROVE TypeOK'
<1> USE RunCommandAssumption DEF TypeOK, Stream, Pipe, clientVars, childVars
<1>1. CASE StartFails
  BY <1>1 DEF StartFails
<1>2. CASE Start
  BY <1>2 DEF Start
<1>3. CASE Drain
  BY <1>3 DEF Drain, Drained
<1>4. CASE Wait
  BY <1>4 DEF Wait, CloseStdin
<1>5. CASE CloseSession
  BY <1>5 DEF CloseSession
<1>6. CASE ReadInput
  <2>1. input' \in Nat
    BY <1>6 DEF ReadInput
  <2>2. copier' \in [Pipe -> {"idle", "read", "write", "done"}]
    BY <1>6 DEF ReadInput
  <2>3. writable' \in [Pipe -> BOOLEAN]
    BY <1>6 DEF ReadInput, CloseStdin
  <2> QED BY <1>6, <2>1, <2>2, <2>3 DEF ReadInput
<1>7. CASE WriteInput
  <2>1. pipe' \in [Pipe -> 0..PipeSize]
    BY <1>7 DEF WriteInput, HasRoom
  <2>2. copier' \in [Pipe -> {"idle", "read", "write", "done"}]
    BY <1>7 DEF WriteInput
  <2>3. writable' \in [Pipe -> BOOLEAN]
    BY <1>7 DEF WriteInput, CloseStdin
  <2> QED BY <1>7, <2>1, <2>2, <2>3 DEF WriteInput
<1>8. ASSUME NEW x \in Stream, ReadOutput(x) PROVE TypeOK'
  BY <1>8 DEF ReadOutput
<1>9. ASSUME NEW x \in Stream, WriteOutput(x) PROVE TypeOK'
  BY <1>9 DEF WriteOutput
<1>10. CASE ChildReads
  BY <1>10 DEF ChildReads
<1>11. CASE ChildExits
  BY <1>11 DEF ChildExits, ChildEnds
<1>12. CASE ChildFails
  BY <1>12 DEF ChildFails, ChildEnds
<1>13. ASSUME NEW x \in Stream, ChildWrites(x) PROVE TypeOK'
  BY <1>13 DEF ChildWrites, HasRoom
<1>14. CASE ClientSends
  BY <1>14 DEF ClientSends
<1>15. CASE ClientEnds
  BY <1>15 DEF ClientEnds
<1>16. CASE UNCHANGED vars
  BY <1>16 DEF vars
<1> QED
  BY <1>1, <1>2, <1>3, <1>4, <1>5, <1>6, <1>7, <1>8, <1>9, <1>10, <1>11, <1>12, <1>13,
     <1>14, <1>15, <1>16
  DEF Next, Copy, Finished

\* The invariant is inductive.
LEMMA InvStep == ASSUME IInv, [Next]_vars PROVE IInv'
<1> SUFFICES Conserved' /\ EndsAtEndOfFile' /\ ClosedByChild' /\ NothingBefore' /\ WaitedFor'
  BY TypeStep DEF IInv
<1> USE RunCommandAssumption DEF IInv, TypeOK, Stream, Pipe, clientVars, childVars,
        Conserved, EndsAtEndOfFile, ClosedByChild, NothingBefore, WaitedFor, InHand, Drained
<1> DEFINE Goal == Conserved /\ EndsAtEndOfFile /\ ClosedByChild /\ NothingBefore /\ WaitedFor
<1>1. CASE StartFails
  BY <1>1 DEF StartFails
<1>2. CASE Start
  BY <1>2 DEF Start
<1>3. CASE Drain
  BY <1>3 DEF Drain
<1>4. CASE Wait
  BY <1>4 DEF Wait, CloseStdin
<1>5. CASE CloseSession
  BY <1>5 DEF CloseSession
<1>6. CASE ReadInput
  BY <1>6 DEF ReadInput, CloseStdin
<1>7. CASE WriteInput
  BY <1>7 DEF WriteInput, CloseStdin, HasRoom
<1>8. ASSUME NEW y \in Stream, ReadOutput(y) PROVE Goal'
  BY <1>8 DEF ReadOutput
<1>9. ASSUME NEW y \in Stream, WriteOutput(y) PROVE Goal'
  BY <1>9 DEF WriteOutput
<1>10. CASE ChildReads
  BY <1>10 DEF ChildReads
<1>11. CASE ChildExits
  BY <1>11 DEF ChildExits, ChildEnds
<1>12. CASE ChildFails
  BY <1>12 DEF ChildFails, ChildEnds
<1>13. ASSUME NEW y \in Stream, ChildWrites(y) PROVE Goal'
  BY <1>13 DEF ChildWrites, HasRoom
<1>14. CASE ClientSends
  BY <1>14 DEF ClientSends
<1>15. CASE ClientEnds
  BY <1>15 DEF ClientEnds
<1>16. CASE UNCHANGED vars
  BY <1>16 DEF vars
<1> QED
  BY <1>1, <1>2, <1>3, <1>4, <1>5, <1>6, <1>7, <1>8, <1>9, <1>10, <1>11, <1>12, <1>13,
     <1>14, <1>15, <1>16
  DEF Next, Copy, Finished

\* It holds when a session starts.
LEMMA InvInit == Init => IInv
BY RunCommandAssumption
   DEF Init, IInv, TypeOK, Stream, Pipe, Conserved, EndsAtEndOfFile, ClosedByChild,
       NothingBefore, WaitedFor, InHand, Drained

\* So it always holds.
LEMMA Invariance == Spec => []IInv
<1>1. IInv /\ UNCHANGED vars => IInv'
  BY InvStep
<1> QED BY InvInit, InvStep, <1>1, PTL DEF Spec

-----------------------------------------------------------------------------
\* The variables of RunCommand have their types.
THEOREM TypesHold == Spec => []TypeOK
<1>1. IInv => TypeOK
  BY DEF IInv
<1> QED BY Invariance, <1>1, PTL

\* wg.Wait returns after the output copiers, these end at the end of the file
\* while the client is there, and what the child wrote is then in none of the
\* pipes: a client that stays has been given all of it.
THEOREM OutputReachesClient == Spec => []OutputIsComplete
<1>1. IInv => OutputIsComplete
  <2> SUFFICES ASSUME IInv, pc \in {"returned", "closed"}, client # "gone"
               PROVE  delivered = wrote
    BY DEF OutputIsComplete
  <2>1. delivered \in [Stream -> Nat] /\ wrote \in [Stream -> Nat]
    BY DEF IInv, TypeOK
  <2>2. ASSUME NEW x \in Stream PROVE delivered[x] = wrote[x]
    <3>1. CASE child = "none"
      BY <3>1 DEF IInv, NothingBefore
    <3>2. CASE child # "none"
      <4>1. copier[x] = "done"
        BY <3>2 DEF IInv, WaitedFor, Drained
      <4>2. pipe[x] = 0 /\ InHand(x) = 0
        BY <4>1 DEF IInv, EndsAtEndOfFile, InHand
      <4>3. wrote[x] = pipe[x] + InHand(x) + delivered[x]
        BY DEF IInv, Conserved
      <4> QED BY <2>1, <4>2, <4>3
    <3> QED BY <3>1, <3>2
  <2> QED BY <2>1, <2>2
<1> QED BY Invariance, <1>1, PTL
=============================================================================
