-------------------------- MODULE SyncTicketsProofs --------------------------
(***************************************************************************)
(* The two safety properties of SyncTickets, for every set of callers,     *)
(* every batch size and every bound.                                       *)
(*                                                                         *)
(* Neither is inductive.  What makes them so is the relation between a     *)
(* pass and the tickets it may vouch for: while a pass runs, everybody     *)
(* whose ticket it covers was aboard when it began (Boarded), and if such  *)
(* a caller asked for a full pass then this pass is one (BoardedFull);     *)
(* once completed has reached a ticket, its owner is served (Served).      *)
(***************************************************************************)
EXTENDS SyncTickets, TLAPS

(* Exactly the holder of the semaphore is past it. *)
Lock == \A c \in Callers : pc[c] \in Holding <=> serial = c

(* What the running pass may vouch for. *)
Boarded ==
  \A c, d \in Callers :
    pc[c] \in Passing /\ pc[d] \in Drawn /\ ticket[d] <= generation
      => d \in aboard

BoardedFull ==
  \A c, d \in Callers :
    pc[c] \in Passing \ {"force"} /\ d \in aboard /\ d \in owed => d \in taken

(* The runner's own ticket is among them, and stays served after the pass. *)
OwnTicket ==
  \A c \in Callers :
    /\ pc[c] \in Passing => ticket[c] <= generation
    /\ pc[c] \in {"again", "drain", "return"} => ticket[c] <= completed

Served ==
  \A c \in Callers :
    pc[c] \in Drawn /\ ticket[c] <= completed => c \in covered /\ c \notin owed

(* Where an unmet full request is. *)
Kept ==
  /\ \A c \in owed :
       \/ fullRequested
       \/ c \in taken /\ force /\ \E d \in Callers : pc[d] \in Passing \ {"force"}
  /\ taken # {} => force /\ \E d \in Callers : pc[d] \in Passing \ {"force"}

IInv == /\ TypeOK /\ Lock /\ Boarded /\ BoardedFull
        /\ OwnTicket /\ Served /\ Kept

-----------------------------------------------------------------------------
(* Every place a caller can be at, for the leaves that compare places. *)
USE DEF Passing, Looping, Holding, Drawn, Places

(* The engine starts with nobody in Sync. *)
LEMMA InitIInv == Init => IInv
<1> SUFFICES ASSUME Init PROVE IInv OBVIOUS
<1>1. TypeOK
  <2>1. 0 \in 0..0 OBVIOUS
  <2> QED BY <2>1, NobodyAssumption DEF Init, TypeOK
<1>2. Lock BY NobodyAssumption DEF Init, Lock
<1>3. Boarded BY NobodyAssumption DEF Init, Boarded
<1>4. BoardedFull BY NobodyAssumption DEF Init, BoardedFull
<1>5. OwnTicket BY NobodyAssumption DEF Init, OwnTicket
<1>6. Served BY NobodyAssumption DEF Init, Served
<1>7. Kept BY NobodyAssumption DEF Init, Kept
<1> QED BY <1>1, <1>2, <1>3, <1>4, <1>5, <1>6, <1>7 DEF IInv

(* Every step of every caller keeps the invariant. *)
LEMMA StepIInv == IInv /\ [Next]_vars => IInv'
<1> SUFFICES ASSUME IInv, [Next]_vars PROVE IInv'
  OBVIOUS
<1> USE DEF IInv
<1>1. ASSUME NEW c \in Callers, NEW full \in BOOLEAN, Ask(c, full)
      PROVE  IInv'
  <2>1. TypeOK'
    BY <1>1 DEF TypeOK, Ask, Request, Goto
  <2>2. Lock'
    BY <1>1 DEF TypeOK, Lock, Ask, Request, Goto
  <2>3. Boarded'
    BY <1>1 DEF TypeOK, Lock, Boarded, Ask, Request, Goto
  <2>4. BoardedFull'
    BY <1>1 DEF TypeOK, Lock, BoardedFull, Kept, Ask, Request, Goto
  <2>5. OwnTicket'
    BY <1>1 DEF TypeOK, Lock, OwnTicket, Ask, Request, Goto
  <2>6. Served'
    BY <1>1 DEF TypeOK, Lock, Boarded, BoardedFull, Served, Ask, Request, Goto
  <2>7. Kept'
    BY <1>1 DEF TypeOK, Lock, Kept, Ask, Request, Goto
  <2> QED BY <2>1, <2>2, <2>3, <2>4, <2>5, <2>6, <2>7
<1>2. ASSUME NEW c \in Callers, Edit(c)
      PROVE  IInv'
  <2>1. TypeOK'
    BY <1>2 DEF TypeOK, Edit, Request, Goto
  <2>2. Lock'
    BY <1>2 DEF TypeOK, Lock, Edit, Request, Goto
  <2>3. Boarded'
    BY <1>2 DEF TypeOK, Lock, Boarded, Edit, Request, Goto
  <2>4. BoardedFull'
    BY <1>2 DEF TypeOK, Lock, BoardedFull, Kept, Edit, Request, Goto
  <2>5. OwnTicket'
    BY <1>2 DEF TypeOK, Lock, OwnTicket, Edit, Request, Goto
  <2>6. Served'
    BY <1>2 DEF TypeOK, Lock, Boarded, BoardedFull, Served, Edit, Request, Goto
  <2>7. Kept'
    BY <1>2 DEF TypeOK, Lock, Kept, Edit, Request, Goto
  <2> QED BY <2>1, <2>2, <2>3, <2>4, <2>5, <2>6, <2>7
<1>3. ASSUME NEW c \in Callers, Draw(c)
      PROVE  IInv'
  <2>1. TypeOK'
    BY <1>3 DEF TypeOK, Draw, Goto, history
  <2>2. Lock'
    BY <1>3 DEF TypeOK, Lock, Draw, Goto, history
  <2>3. Boarded'
    BY <1>3 DEF TypeOK, Lock, Boarded, Draw, Goto, history
  <2>4. BoardedFull'
    BY <1>3 DEF TypeOK, Lock, BoardedFull, Kept, Draw, Goto, history
  <2>5. OwnTicket'
    BY <1>3 DEF TypeOK, Lock, OwnTicket, Draw, Goto, history
  <2>6. Served'
    BY <1>3 DEF TypeOK, Lock, Boarded, BoardedFull, Served, Draw, Goto, history
  <2>7. Kept'
    BY <1>3 DEF TypeOK, Lock, Kept, Draw, Goto, history
  <2> QED BY <2>1, <2>2, <2>3, <2>4, <2>5, <2>6, <2>7
<1>4. ASSUME NEW c \in Callers, Enter(c)
      PROVE  IInv'
  <2>1. TypeOK'
    BY <1>4 DEF TypeOK, Enter, Goto, history
  <2>2. Lock'
    BY <1>4, NobodyAssumption DEF TypeOK, Lock, Enter, Goto, history
  <2>3. Boarded'
    BY <1>4 DEF TypeOK, Lock, Boarded, Enter, Goto, history
  <2>4. BoardedFull'
    BY <1>4 DEF TypeOK, Lock, BoardedFull, Kept, Enter, Goto, history
  <2>5. OwnTicket'
    BY <1>4 DEF TypeOK, Lock, OwnTicket, Enter, Goto, history
  <2>6. Served'
    BY <1>4 DEF TypeOK, Lock, Boarded, BoardedFull, Served, Enter, Goto, history
  <2>7. Kept'
    BY <1>4 DEF TypeOK, Lock, Kept, Enter, Goto, history
  <2> QED BY <2>1, <2>2, <2>3, <2>4, <2>5, <2>6, <2>7
<1>5. ASSUME NEW c \in Callers, CancelWait(c)
      PROVE  IInv'
  <2>1. TypeOK'
    BY <1>5 DEF TypeOK, CancelWait, Goto, history
  <2>2. Lock'
    BY <1>5 DEF TypeOK, Lock, CancelWait, Goto, history
  <2>3. Boarded'
    BY <1>5 DEF TypeOK, Lock, Boarded, CancelWait, Goto, history
  <2>4. BoardedFull'
    BY <1>5 DEF TypeOK, Lock, BoardedFull, Kept, CancelWait, Goto, history
  <2>5. OwnTicket'
    BY <1>5 DEF TypeOK, Lock, OwnTicket, CancelWait, Goto, history
  <2>6. Served'
    BY <1>5 DEF TypeOK, Lock, Boarded, BoardedFull, Served, CancelWait, Goto, history
  <2>7. Kept'
    BY <1>5 DEF TypeOK, Lock, Kept, CancelWait, Goto, history
  <2> QED BY <2>1, <2>2, <2>3, <2>4, <2>5, <2>6, <2>7
<1>6. ASSUME NEW c \in Callers, Check(c)
      PROVE  IInv'
  <2>1. TypeOK'
    BY <1>6 DEF TypeOK, Check, Goto, history
  <2>2. Lock'
    BY <1>6 DEF TypeOK, Lock, Check, Goto, history
  <2>3. Boarded'
    BY <1>6 DEF TypeOK, Lock, Boarded, Check, Goto, history
  <2>4. BoardedFull'
    BY <1>6 DEF TypeOK, Lock, BoardedFull, Kept, Check, Goto, history
  <2>5. OwnTicket'
    BY <1>6 DEF TypeOK, Lock, OwnTicket, Check, Goto, history
  <2>6. Served'
    BY <1>6 DEF TypeOK, Lock, Boarded, BoardedFull, Served, Check, Goto, history
  <2>7. Kept'
    BY <1>6 DEF TypeOK, Lock, Kept, Check, Goto, history
  <2> QED BY <2>1, <2>2, <2>3, <2>4, <2>5, <2>6, <2>7
<1>7. ASSUME NEW c \in Callers, ReadGeneration(c)
      PROVE  IInv'
  <2>1. TypeOK'
    BY <1>7 DEF TypeOK, ReadGeneration, Goto
  <2>2. Lock'
    BY <1>7 DEF TypeOK, Lock, ReadGeneration, Goto
  <2>3. Boarded'
    BY <1>7 DEF TypeOK, Lock, Boarded, ReadGeneration, Goto
  <2>4. BoardedFull'
    BY <1>7 DEF TypeOK, Lock, BoardedFull, Kept, ReadGeneration, Goto
  <2>5. OwnTicket'
    BY <1>7 DEF TypeOK, Lock, OwnTicket, ReadGeneration, Goto
  <2>6. Served'
    BY <1>7 DEF TypeOK, Lock, Boarded, BoardedFull, Served, ReadGeneration, Goto
  <2>7. Kept'
    BY <1>7 DEF TypeOK, Lock, Kept, ReadGeneration, Goto
  <2> QED BY <2>1, <2>2, <2>3, <2>4, <2>5, <2>6, <2>7
<1>8. ASSUME NEW c \in Callers, TakeForce(c)
      PROVE  IInv'
  <2>1. TypeOK'
    BY <1>8 DEF TypeOK, TakeForce, Goto
  <2>2. Lock'
    BY <1>8 DEF TypeOK, Lock, TakeForce, Goto
  <2>3. Boarded'
    BY <1>8 DEF TypeOK, Lock, Boarded, TakeForce, Goto
  <2>4. BoardedFull'
    BY <1>8 DEF TypeOK, Lock, BoardedFull, Kept, TakeForce, Goto
  <2>5. OwnTicket'
    BY <1>8 DEF TypeOK, Lock, OwnTicket, TakeForce, Goto
  <2>6. Served'
    BY <1>8 DEF TypeOK, Lock, Boarded, BoardedFull, Served, TakeForce, Goto
  <2>7. Kept'
    BY <1>8 DEF TypeOK, Lock, Kept, TakeForce, Goto
  <2> QED BY <2>1, <2>2, <2>3, <2>4, <2>5, <2>6, <2>7
<1>9. ASSUME NEW c \in Callers, Push(c)
      PROVE  IInv'
  <2>1. TypeOK'
    BY <1>9, BatchAssumption DEF TypeOK, Push, Goto, history
  <2>2. Lock'
    BY <1>9 DEF TypeOK, Lock, Push, Goto, history
  <2>3. Boarded'
    BY <1>9 DEF TypeOK, Lock, Boarded, Push, Goto, history
  <2>4. BoardedFull'
    BY <1>9 DEF TypeOK, Lock, BoardedFull, Kept, Push, Goto, history
  <2>5. OwnTicket'
    BY <1>9 DEF TypeOK, Lock, OwnTicket, Push, Goto, history
  <2>6. Served'
    BY <1>9 DEF TypeOK, Lock, Boarded, BoardedFull, Served, Push, Goto, history
  <2>7. Kept'
    BY <1>9 DEF TypeOK, Lock, Kept, Push, Goto, history
  <2> QED BY <2>1, <2>2, <2>3, <2>4, <2>5, <2>6, <2>7
<1>10. ASSUME NEW c \in Callers, Pull(c)
      PROVE  IInv'
  <2>1. TypeOK'
    BY <1>10 DEF TypeOK, Pull, Goto, history
  <2>2. Lock'
    BY <1>10 DEF TypeOK, Lock, Pull, Goto, history
  <2>3. Boarded'
    BY <1>10 DEF TypeOK, Lock, Boarded, Pull, Goto, history
  <2>4. BoardedFull'
    BY <1>10 DEF TypeOK, Lock, BoardedFull, Kept, Pull, Goto, history
  <2>5. OwnTicket'
    BY <1>10 DEF TypeOK, Lock, OwnTicket, Pull, Goto, history
  <2>6. Served'
    BY <1>10 DEF TypeOK, Lock, Boarded, BoardedFull, Served, Pull, Goto, history
  <2>7. Kept'
    BY <1>10 DEF TypeOK, Lock, Kept, Pull, Goto, history
  <2> QED BY <2>1, <2>2, <2>3, <2>4, <2>5, <2>6, <2>7
<1>11. ASSUME NEW c \in Callers, Complete(c)
      PROVE  IInv'
  <2>1. TypeOK'
    BY <1>11 DEF TypeOK, Complete, Goto
  <2>2. Lock'
    BY <1>11 DEF TypeOK, Lock, Complete, Goto
  <2>3. Boarded'
    BY <1>11 DEF TypeOK, Lock, Boarded, Complete, Goto
  <2>4. BoardedFull'
    BY <1>11 DEF TypeOK, Lock, BoardedFull, Kept, Complete, Goto
  <2>5. OwnTicket'
    BY <1>11 DEF TypeOK, Lock, OwnTicket, Complete, Goto
  <2>6. Served'
    BY <1>11 DEF TypeOK, Lock, Boarded, BoardedFull, Served, Complete, Goto
  <2>7. Kept'
    BY <1>11 DEF TypeOK, Lock, Kept, Complete, Goto
  <2> QED BY <2>1, <2>2, <2>3, <2>4, <2>5, <2>6, <2>7
<1>12. ASSUME NEW c \in Callers, Fail(c)
      PROVE  IInv'
  <2>1. TypeOK'
    BY <1>12 DEF TypeOK, Fail
  <2>2. Lock'
    BY <1>12 DEF TypeOK, Lock, Fail
  <2>3. Boarded'
    BY <1>12 DEF TypeOK, Lock, Boarded, Fail
  <2>4. BoardedFull'
    BY <1>12 DEF TypeOK, Lock, BoardedFull, Kept, Fail
  <2>5. OwnTicket'
    BY <1>12 DEF TypeOK, Lock, OwnTicket, Fail
  <2>6. Served'
    BY <1>12 DEF TypeOK, Lock, Boarded, BoardedFull, Served, Fail
  <2>7. Kept'
    BY <1>12 DEF TypeOK, Lock, Kept, Fail
  <2> QED BY <2>1, <2>2, <2>3, <2>4, <2>5, <2>6, <2>7
<1>13. ASSUME NEW c \in Callers, Again(c)
      PROVE  IInv'
  <2>1. TypeOK'
    BY <1>13 DEF TypeOK, Again, Goto, history
  <2>2. Lock'
    BY <1>13 DEF TypeOK, Lock, Again, Goto, history
  <2>3. Boarded'
    BY <1>13 DEF TypeOK, Lock, Boarded, Again, Goto, history
  <2>4. BoardedFull'
    BY <1>13 DEF TypeOK, Lock, BoardedFull, Kept, Again, Goto, history
  <2>5. OwnTicket'
    BY <1>13 DEF TypeOK, Lock, OwnTicket, Again, Goto, history
  <2>6. Served'
    BY <1>13 DEF TypeOK, Lock, Boarded, BoardedFull, Served, Again, Goto, history
  <2>7. Kept'
    BY <1>13 DEF TypeOK, Lock, Kept, Again, Goto, history
  <2> QED BY <2>1, <2>2, <2>3, <2>4, <2>5, <2>6, <2>7
<1>14. ASSUME NEW c \in Callers, Drain(c)
      PROVE  IInv'
  <2>1. TypeOK'
    BY <1>14 DEF TypeOK, Drain, Goto, history
  <2>2. Lock'
    BY <1>14 DEF TypeOK, Lock, Drain, Goto, history
  <2>3. Boarded'
    BY <1>14 DEF TypeOK, Lock, Boarded, Drain, Goto, history
  <2>4. BoardedFull'
    BY <1>14 DEF TypeOK, Lock, BoardedFull, Kept, Drain, Goto, history
  <2>5. OwnTicket'
    BY <1>14 DEF TypeOK, Lock, OwnTicket, Drain, Goto, history
  <2>6. Served'
    BY <1>14 DEF TypeOK, Lock, Boarded, BoardedFull, Served, Drain, Goto, history
  <2>7. Kept'
    BY <1>14 DEF TypeOK, Lock, Kept, Drain, Goto, history
  <2> QED BY <2>1, <2>2, <2>3, <2>4, <2>5, <2>6, <2>7
<1>15. ASSUME NEW c \in Callers, Release(c)
      PROVE  IInv'
  <2>1. TypeOK'
    BY <1>15 DEF TypeOK, Release, history
  <2>2. Lock'
    BY <1>15, NobodyAssumption DEF TypeOK, Lock, Release, history
  <2>3. Boarded'
    BY <1>15 DEF TypeOK, Lock, Boarded, Release, history
  <2>4. BoardedFull'
    BY <1>15 DEF TypeOK, Lock, BoardedFull, Kept, Release, history
  <2>5. OwnTicket'
    BY <1>15 DEF TypeOK, Lock, OwnTicket, Release, history
  <2>6. Served'
    BY <1>15 DEF TypeOK, Lock, Boarded, BoardedFull, Served, Release, history
  <2>7. Kept'
    BY <1>15 DEF TypeOK, Lock, Kept, Release, history
  <2> QED BY <2>1, <2>2, <2>3, <2>4, <2>5, <2>6, <2>7
<1>16. CASE UNCHANGED vars
  <2>1. TypeOK' BY <1>16 DEF TypeOK, vars, engine, history
  <2>2. Lock' BY <1>16 DEF Lock, vars, engine, history
  <2>3. Boarded' BY <1>16 DEF Boarded, vars, engine, history
  <2>4. BoardedFull' BY <1>16 DEF BoardedFull, vars, engine, history
  <2>5. OwnTicket' BY <1>16 DEF OwnTicket, vars, engine, history
  <2>6. Served' BY <1>16 DEF Served, vars, engine, history
  <2>7. Kept' BY <1>16 DEF Kept, vars, engine, history
  <2> QED BY <2>1, <2>2, <2>3, <2>4, <2>5, <2>6, <2>7
<1> QED
  BY <1>1, <1>2, <1>3, <1>4, <1>5, <1>6, <1>7, <1>8, <1>9, <1>10, <1>11, <1>12, <1>13,
     <1>14, <1>15, <1>16 DEF Next, Step

-----------------------------------------------------------------------------
(* The relation between passes and tickets holds throughout. *)
THEOREM Inductive == Spec => []IInv
<1> QED BY InitIInv, StepIInv, PTL DEF Spec

(* No variable counts a ticket that has not been drawn.  *)
THEOREM TypeCorrect == Spec => []TypeOK
<1>1. IInv => TypeOK BY DEF IInv
<1> QED BY <1>1, Inductive, PTL

(* Whoever returns from Sync without an exception has been served by a pass *)
(* of the right kind that began after the request: SyncEngine.Sync never    *)
(* coalesces a request with a pass that was already under way.              *)
THEOREM NobodyIsShortChanged == Spec => []ServedOnReturn
<1>1. IInv => ServedOnReturn
  BY DEF IInv, Served, OwnTicket, ServedOnReturn
<1> QED BY <1>1, Inductive, PTL

(* A full request survives failed passes and coalescing until it is met.    *)
THEOREM FullRequestsSurvive == Spec => []FullNotForgotten
<1>1. IInv => FullNotForgotten
  BY DEF IInv, Kept, FullNotForgotten
<1> QED BY <1>1, Inductive, PTL
=============================================================================
