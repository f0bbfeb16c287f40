------------------------ MODULE ScopedHandle_proofs ------------------------
(***************************************************************************)
(* The ownership theorems of scoped_handle, for any sets of threads,       *)
(* wrappers and handles.                                                   *)
(***************************************************************************)
EXTENDS ScopedHandle, TLAPS

\* A handle in a caller's hands is open.
LooseIsOpen == \A h \in loose : opener[h] \in Threads

\* A wrapper that manages a handle still has the function to close it.
HoldingIsArmed == \A w \in Wrappers : hdl[w] # NoHandle => armed[w]

\* The inductive invariant.  OwnerIsOpener needs SingleOwner (a close would turn
\* another wrapper's handle into a dangling one), SingleOwner needs LooseIsOpen
\* (a new handle is in no wrapper), and NothingLost needs HoldingIsArmed.
IInv ==
    /\ TypeOK
    /\ SingleOwner
    /\ OwnerIsOpener
    /\ LooseIsOpen
    /\ HoldingIsArmed
    /\ NothingLost
    /\ offThread = FALSE

LEMMA InitIInv == Init => IInv
BY NullAssumption DEF Init, IInv, TypeOK, SingleOwner, OwnerIsOpener, LooseIsOpen,
   HoldingIsArmed, NothingLost

\* What the cleanup of a wrapper on its owner thread closes: the handle of that
\* wrapper and of no other, opened by that thread.
LEMMA DoomedIsOwn ==
    ASSUME IInv, NEW t \in Threads, NEW w \in Wrappers, w \in alive, owner[w] = t
    PROVE  /\ Doomed(w) \subseteq Handles
           /\ Doomed(w) \cap loose = {}
           /\ \A h \in Doomed(w) : opener[h] = t
           /\ \A v \in Wrappers : v # w => hdl[v] \notin Doomed(w)
           /\ hdl[w] # NoHandle => Doomed(w) = {hdl[w]}
BY NullAssumption DEF IInv, TypeOK, Doomed, SingleOwner, OwnerIsOpener, HoldingIsArmed

\* Closing the handle of wrapper w on its owner thread.
LEMMA CloseOwn ==
    ASSUME IInv, NEW t \in Threads, NEW w \in Wrappers, w \in alive, owner[w] = t,
           Close(t, Doomed(w))
    PROVE  /\ offThread' = FALSE
           /\ opener' \in [Handles -> Threads \cup {NoThread}]
           /\ \A h \in Handles : h \in Doomed(w) => opener'[h] = NoThread
           /\ \A h \in Handles : h \notin Doomed(w) => opener'[h] = opener[h]
<1>1. \A h \in Doomed(w) : opener[h] = t
  BY DoomedIsOwn
<1>2. offThread' = FALSE
  BY <1>1 DEF Close, IInv, TypeOK
<1>3. QED
  BY <1>2 DEF Close, IInv, TypeOK

LEMMA AcquireKeeps ==
    ASSUME IInv, NEW t \in Threads, NEW h \in Handles, Acquire(t, h)
    PROVE  IInv'
<1> USE NullAssumption DEF IInv, Acquire, Free, wrapperVars
<1>1. TypeOK'
  BY DEF TypeOK, OwnerIsOpener
<1>2. SingleOwner'
  BY DEF TypeOK, SingleOwner, OwnerIsOpener, LooseIsOpen
<1>3. OwnerIsOpener'
  BY DEF TypeOK, SingleOwner, OwnerIsOpener
<1>4. LooseIsOpen'
  BY DEF TypeOK, LooseIsOpen, OwnerIsOpener
<1>5. HoldingIsArmed'
  BY DEF TypeOK, HoldingIsArmed
<1>6. NothingLost'
  BY DEF TypeOK, NothingLost, OwnerIsOpener
<1>7. QED
  BY <1>1, <1>2, <1>3, <1>4, <1>5, <1>6

LEMMA ConstructKeeps ==
    ASSUME IInv, NEW t \in Threads, NEW w \in Wrappers, NEW h \in Handles, Construct(t, w, h)
    PROVE  IInv'
<1> USE NullAssumption DEF IInv, Construct, Begin
<1>1. TypeOK'
  BY DEF TypeOK, OwnerIsOpener
<1>2. SingleOwner'
  BY DEF TypeOK, SingleOwner, OwnerIsOpener, LooseIsOpen
<1>3. OwnerIsOpener'
  BY DEF TypeOK, SingleOwner, OwnerIsOpener
<1>4. LooseIsOpen'
  BY DEF TypeOK, LooseIsOpen, OwnerIsOpener
<1>5. HoldingIsArmed'
  BY DEF TypeOK, HoldingIsArmed
<1>6. NothingLost'
  BY DEF TypeOK, NothingLost, OwnerIsOpener
<1>7. QED
  BY <1>1, <1>2, <1>3, <1>4, <1>5, <1>6

LEMMA ConstructEmptyKeeps ==
    ASSUME IInv, NEW t \in Threads, NEW w \in Wrappers, ConstructEmpty(t, w)
    PROVE  IInv'
<1> USE NullAssumption DEF IInv, ConstructEmpty, Begin
<1>1. TypeOK'
  BY DEF TypeOK, OwnerIsOpener
<1>2. SingleOwner'
  BY DEF TypeOK, SingleOwner, OwnerIsOpener, LooseIsOpen
<1>3. OwnerIsOpener'
  BY DEF TypeOK, SingleOwner, OwnerIsOpener
<1>4. LooseIsOpen'
  BY DEF TypeOK, LooseIsOpen, OwnerIsOpener
<1>5. HoldingIsArmed'
  BY DEF TypeOK, HoldingIsArmed
<1>6. NothingLost'
  BY DEF TypeOK, NothingLost, OwnerIsOpener
<1>7. QED
  BY <1>1, <1>2, <1>3, <1>4, <1>5, <1>6

LEMMA FillKeeps ==
    ASSUME IInv, NEW t \in Threads, NEW w \in Wrappers, NEW h \in Handles, Fill(t, w, h)
    PROVE  IInv'
<1> USE NullAssumption DEF IInv, Fill, Free
<1>1. TypeOK'
  BY DEF TypeOK, OwnerIsOpener
<1>2. SingleOwner'
  BY DEF TypeOK, SingleOwner, OwnerIsOpener, LooseIsOpen
<1>3. OwnerIsOpener'
  BY DEF TypeOK, SingleOwner, OwnerIsOpener
<1>4. LooseIsOpen'
  BY DEF TypeOK, LooseIsOpen, OwnerIsOpener
<1>5. HoldingIsArmed'
  BY DEF TypeOK, HoldingIsArmed
<1>6. NothingLost'
  BY DEF TypeOK, NothingLost, OwnerIsOpener
<1>7. QED
  BY <1>1, <1>2, <1>3, <1>4, <1>5, <1>6

LEMMA MoveConstructKeeps ==
    ASSUME IInv, NEW dst \in Wrappers, NEW src \in Wrappers, MoveConstruct(dst, src)
    PROVE  IInv'
<1> USE NullAssumption DEF IInv, MoveConstruct
<1>1. TypeOK'
  BY DEF TypeOK, OwnerIsOpener
<1>2. SingleOwner'
  BY DEF TypeOK, SingleOwner, OwnerIsOpener, LooseIsOpen
<1>3. OwnerIsOpener'
  BY DEF TypeOK, SingleOwner, OwnerIsOpener
<1>4. LooseIsOpen'
  BY DEF TypeOK, LooseIsOpen, OwnerIsOpener
<1>5. HoldingIsArmed'
  BY DEF TypeOK, HoldingIsArmed
<1>6. NothingLost'
  BY DEF TypeOK, NothingLost, OwnerIsOpener
<1>7. QED
  BY <1>1, <1>2, <1>3, <1>4, <1>5, <1>6

LEMMA ReleaseKeeps ==
    ASSUME IInv, NEW t \in Threads, NEW w \in Wrappers, Release(t, w)
    PROVE  IInv'
<1> USE NullAssumption DEF IInv, Release
<1>1. TypeOK'
  BY DEF TypeOK, OwnerIsOpener
<1>2. SingleOwner'
  BY DEF TypeOK, SingleOwner, OwnerIsOpener, LooseIsOpen
<1>3. OwnerIsOpener'
  BY DEF TypeOK, SingleOwner, OwnerIsOpener
<1>4. LooseIsOpen'
  BY DEF TypeOK, LooseIsOpen, OwnerIsOpener
<1>5. HoldingIsArmed'
  BY DEF TypeOK, HoldingIsArmed
<1>6. NothingLost'
  BY DEF TypeOK, NothingLost, OwnerIsOpener
<1>7. QED
  BY <1>1, <1>2, <1>3, <1>4, <1>5, <1>6

LEMMA TerminateKeeps ==
    ASSUME IInv, Terminate
    PROVE  IInv'
BY DEF Terminate, wrapperVars, IInv, TypeOK, SingleOwner, OwnerIsOpener, LooseIsOpen,
   HoldingIsArmed, NothingLost

LEMMA DestroyKeeps ==
    ASSUME IInv, NEW t \in Threads, NEW w \in Wrappers, Destroy(t, w)
    PROVE  IInv'
<1> SUFFICES ASSUME owner[w] = t
             PROVE  IInv'
  BY TerminateKeeps DEF Destroy
<1> USE NullAssumption DEF IInv
<1>a. w \in alive /\ owner[w] = t /\ Close(t, Doomed(w))
  BY DEF Destroy
<1>b. /\ Doomed(w) \subseteq Handles
      /\ Doomed(w) \cap loose = {}
      /\ \A v \in Wrappers : v # w => hdl[v] \notin Doomed(w)
      /\ hdl[w] # NoHandle => Doomed(w) = {hdl[w]}
  BY <1>a, DoomedIsOwn
<1>c. /\ offThread' = FALSE
      /\ opener' \in [Handles -> Threads \cup {NoThread}]
      /\ \A x \in Handles : x \in Doomed(w) => opener'[x] = NoThread
      /\ \A x \in Handles : x \notin Doomed(w) => opener'[x] = opener[x]
  BY <1>a, CloseOwn
<1>1. TypeOK'
  BY <1>c DEF Destroy, TypeOK
<1>2. SingleOwner'
  BY <1>b DEF Destroy, TypeOK, SingleOwner
<1>3. OwnerIsOpener'
  BY <1>a, <1>b, <1>c DEF Destroy, TypeOK, SingleOwner, OwnerIsOpener, HoldingIsArmed
<1>4. LooseIsOpen'
  BY <1>b, <1>c DEF Destroy, TypeOK, LooseIsOpen
<1>5. HoldingIsArmed'
  BY DEF Destroy, TypeOK, HoldingIsArmed
<1>6. NothingLost'
  BY <1>a, <1>b, <1>c DEF Destroy, TypeOK, NothingLost, OwnerIsOpener, HoldingIsArmed
<1>7. QED
  BY <1>1, <1>2, <1>3, <1>4, <1>5, <1>6, <1>c

LEMMA MoveAssignKeeps ==
    ASSUME IInv, NEW t \in Threads, NEW dst \in Wrappers, NEW src \in Wrappers, MoveAssign(t, dst, src)
    PROVE  IInv'
<1> SUFFICES ASSUME owner[dst] = t
             PROVE  IInv'
  BY TerminateKeeps DEF MoveAssign
<1> USE NullAssumption DEF IInv
<1>a. dst \in alive /\ owner[dst] = t /\ Close(t, Doomed(dst))
  BY DEF MoveAssign
<1>b. /\ Doomed(dst) \subseteq Handles
      /\ Doomed(dst) \cap loose = {}
      /\ \A v \in Wrappers : v # dst => hdl[v] \notin Doomed(dst)
      /\ hdl[dst] # NoHandle => Doomed(dst) = {hdl[dst]}
  BY <1>a, DoomedIsOwn
<1>c. /\ offThread' = FALSE
      /\ opener' \in [Handles -> Threads \cup {NoThread}]
      /\ \A x \in Handles : x \in Doomed(dst) => opener'[x] = NoThread
      /\ \A x \in Handles : x \notin Doomed(dst) => opener'[x] = opener[x]
  BY <1>a, CloseOwn
<1>1. TypeOK'
  BY <1>c DEF MoveAssign, TypeOK
<1>2. SingleOwner'
  BY <1>b DEF MoveAssign, TypeOK, SingleOwner
<1>3. OwnerIsOpener'
  BY <1>a, <1>b, <1>c DEF MoveAssign, TypeOK, SingleOwner, OwnerIsOpener, HoldingIsArmed
<1>4. LooseIsOpen'
  BY <1>b, <1>c DEF MoveAssign, TypeOK, LooseIsOpen
<1>5. HoldingIsArmed'
  BY DEF MoveAssign, TypeOK, HoldingIsArmed
<1>6. NothingLost'
  BY <1>a, <1>b, <1>c DEF MoveAssign, TypeOK, NothingLost, OwnerIsOpener, HoldingIsArmed
<1>7. QED
  BY <1>1, <1>2, <1>3, <1>4, <1>5, <1>6, <1>c

LEMMA ResetKeeps ==
    ASSUME IInv, NEW t \in Threads, NEW w \in Wrappers, Reset(t, w)
    PROVE  IInv'
<1> USE NullAssumption DEF IInv
<1>a. w \in alive /\ owner[w] = t /\ Close(t, Doomed(w))
  BY DEF Reset
<1>b. /\ Doomed(w) \subseteq Handles
      /\ Doomed(w) \cap loose = {}
      /\ \A v \in Wrappers : v # w => hdl[v] \notin Doomed(w)
      /\ hdl[w] # NoHandle => Doomed(w) = {hdl[w]}
  BY <1>a, DoomedIsOwn
<1>c. /\ offThread' = FALSE
      /\ opener' \in [Handles -> Threads \cup {NoThread}]
      /\ \A x \in Handles : x \in Doomed(w) => opener'[x] = NoThread
      /\ \A x \in Handles : x \notin Doomed(w) => opener'[x] = opener[x]
  BY <1>a, CloseOwn
<1>1. TypeOK'
  BY <1>c DEF Reset, AfterReset, TypeOK
<1>2. SingleOwner'
  BY <1>b DEF Reset, AfterReset, TypeOK, SingleOwner
<1>3. OwnerIsOpener'
  BY <1>a, <1>b, <1>c DEF Reset, AfterReset, TypeOK, SingleOwner, OwnerIsOpener, HoldingIsArmed
<1>4. LooseIsOpen'
  BY <1>b, <1>c DEF Reset, AfterReset, TypeOK, LooseIsOpen
<1>5. HoldingIsArmed'
  BY DEF Reset, AfterReset, TypeOK, HoldingIsArmed
<1>6. NothingLost'
  BY <1>a, <1>b, <1>c DEF Reset, AfterReset, TypeOK, NothingLost, OwnerIsOpener, HoldingIsArmed
<1>7. QED
  BY <1>1, <1>2, <1>3, <1>4, <1>5, <1>6, <1>c

LEMMA PutKeeps ==
    ASSUME IInv, NEW t \in Threads, NEW w \in Wrappers, NEW h \in Handles, Put(t, w, h)
    PROVE  IInv'
<1> USE NullAssumption DEF IInv
<1>a. w \in alive /\ owner[w] = t /\ Close(t, Doomed(w))
  BY DEF Put
<1>b. /\ Doomed(w) \subseteq Handles
      /\ Doomed(w) \cap loose = {}
      /\ \A v \in Wrappers : v # w => hdl[v] \notin Doomed(w)
      /\ hdl[w] # NoHandle => Doomed(w) = {hdl[w]}
  BY <1>a, DoomedIsOwn
<1>c. /\ offThread' = FALSE
      /\ opener' \in [Handles -> Threads \cup {NoThread}]
      /\ \A x \in Handles : x \in Doomed(w) => opener'[x] = NoThread
      /\ \A x \in Handles : x \notin Doomed(w) => opener'[x] = opener[x]
  BY <1>a, CloseOwn
<1>1. TypeOK'
  BY <1>c DEF Put, TypeOK
<1>2. SingleOwner'
  BY <1>b DEF Put, TypeOK, SingleOwner
<1>3. OwnerIsOpener'
  BY <1>a, <1>b, <1>c DEF Put, TypeOK, SingleOwner, OwnerIsOpener, HoldingIsArmed
<1>4. LooseIsOpen'
  BY <1>b, <1>c DEF Put, TypeOK, LooseIsOpen
<1>5. HoldingIsArmed'
  BY DEF Put, TypeOK, HoldingIsArmed
<1>6. NothingLost'
  BY <1>a, <1>b, <1>c DEF Put, TypeOK, NothingLost, OwnerIsOpener, HoldingIsArmed
<1>7. QED
  BY <1>1, <1>2, <1>3, <1>4, <1>5, <1>6, <1>c

LEMMA CloseLooseKeeps ==
    ASSUME IInv, NEW t \in Threads, NEW h \in Handles, CloseLoose(t, h)
    PROVE  IInv'
<1> USE NullAssumption DEF IInv, CloseLoose, Close, wrapperVars
<1>1. TypeOK' /\ offThread' = FALSE
  BY DEF TypeOK
<1>2. SingleOwner'
  BY DEF TypeOK, SingleOwner
<1>3. OwnerIsOpener'
  BY DEF TypeOK, SingleOwner, OwnerIsOpener
<1>4. LooseIsOpen'
  BY DEF TypeOK, LooseIsOpen
<1>5. HoldingIsArmed'
  BY DEF TypeOK, HoldingIsArmed
<1>6. NothingLost'
  BY DEF TypeOK, NothingLost
<1>7. QED
  BY <1>1, <1>2, <1>3, <1>4, <1>5, <1>6

LEMMA NextKeeps == IInv /\ [Next]_vars => IInv'
<1> SUFFICES ASSUME IInv, [Next]_vars
             PROVE  IInv'
  OBVIOUS
<1>1. CASE UNCHANGED vars
  BY <1>1 DEF vars, IInv, TypeOK, SingleOwner, OwnerIsOpener, LooseIsOpen,
     HoldingIsArmed, NothingLost
<1>2. ASSUME NEW t \in Threads, Step(t)
      PROVE  IInv'
  <2>1. ASSUME NEW h \in Handles, Acquire(t, h) \/ CloseLoose(t, h)
        PROVE  IInv'
    BY <2>1, AcquireKeeps, CloseLooseKeeps
  <2>2. ASSUME NEW w \in Wrappers,
               ConstructEmpty(t, w) \/ Destroy(t, w) \/ Release(t, w) \/ Reset(t, w)
        PROVE  IInv'
    BY <2>2, ConstructEmptyKeeps, DestroyKeeps, ReleaseKeeps, ResetKeeps
  <2>3. ASSUME NEW w \in Wrappers, NEW h \in Handles,
               Construct(t, w, h) \/ Fill(t, w, h) \/ Put(t, w, h)
        PROVE  IInv'
    BY <2>3, ConstructKeeps, FillKeeps, PutKeeps
  <2>4. ASSUME NEW w \in Wrappers, NEW v \in Wrappers,
               MoveConstruct(w, v) \/ MoveAssign(t, w, v)
        PROVE  IInv'
    BY <2>4, MoveConstructKeeps, MoveAssignKeeps
  <2>5. QED
    BY <1>2, <2>1, <2>2, <2>3, <2>4 DEF Step
<1>3. QED
  BY <1>1, <1>2 DEF Next

THEOREM Invariance == Spec => []IInv
BY InitIInv, NextKeeps, PTL DEF Spec

\* Every reachable state is well typed.
THEOREM TypeCorrect == Spec => []TypeOK
BY Invariance, PTL DEF IInv

\* No native handle is ever managed twice.
THEOREM UniqueOwnership == Spec => []SingleOwner
BY Invariance, PTL DEF IInv

\* A wrapper answers to the thread that opened its handle, through any moves.
THEOREM ThreadAffinity == Spec => []OwnerIsOpener
BY Invariance, PTL DEF IInv

\* No sequence of constructions, moves, releases and resets loses a handle.
THEOREM NoHandleLost == Spec => []NothingLost
BY Invariance, PTL DEF IInv

-----------------------------------------------------------------------------
\* A step that opens h for thread t is a turn of t.
LEMMA OpenIsTurn ==
    ASSUME IInv, NEW t \in Threads, NEW h \in Handles, h \in Free,
           opener' = [opener EXCEPT ![h] = t], UNCHANGED offThread
    PROVE  Ownership!Turn(t)
<1>1. opener' = Ownership!Turned(t, {}, {h})
  BY DEF IInv, TypeOK, Ownership!Turned
<1>2. {h} \in SUBSET Ownership!Free /\ {} \in SUBSET Ownership!OpenedBy(t)
  BY DEF Free, Ownership!Free
<1>3. QED
  BY <1>1, <1>2 DEF Ownership!Turn

\* A step of thread t that closes handles it opened is a turn of t.
LEMMA CloseIsTurn ==
    ASSUME IInv, NEW t \in Threads, NEW hs \in SUBSET Handles,
           \A h \in hs : opener[h] = t, Close(t, hs)
    PROVE  Ownership!Turn(t)
<1>1. opener' = Ownership!Turned(t, hs, {})
  BY DEF Close, Ownership!Turned
<1>2. hs \in SUBSET Ownership!OpenedBy(t) /\ {} \in SUBSET Ownership!Free
  BY DEF Ownership!OpenedBy
<1>3. UNCHANGED offThread
  BY DEF Close, IInv, TypeOK
<1>4. QED
  BY <1>1, <1>2, <1>3 DEF Ownership!Turn

\* The cleanup of a wrapper on its owner thread is a turn of that thread.
LEMMA CleanupIsTurn ==
    ASSUME IInv, NEW t \in Threads, NEW w \in Wrappers, w \in alive, owner[w] = t,
           Close(t, Doomed(w))
    PROVE  Ownership!Turn(t)
BY DoomedIsOwn, CloseIsTurn

\* Every step of the wrappers is a step of HandleOwnership or leaves it alone.
LEMMA StepImplements == IInv /\ [Next]_vars => [Ownership!Next]_<<opener, offThread>>
<1> SUFFICES ASSUME IInv, [Next]_vars
             PROVE  [Ownership!Next]_<<opener, offThread>>
  OBVIOUS
<1> DEFINE Done == [Ownership!Next]_<<opener, offThread>>
<1>1. CASE UNCHANGED vars
  BY <1>1 DEF vars
<1>2. ASSUME NEW t \in Threads, Step(t)
      PROVE  Done
  <2>0. Ownership!Turn(t) => Done
    BY DEF Ownership!Next
  <2>1. ASSUME NEW h \in Handles, Acquire(t, h) \/ CloseLoose(t, h)
        PROVE  Done
    <3>1. CASE Acquire(t, h)
      BY <3>1, <2>0, OpenIsTurn DEF Acquire
    <3>2. CASE CloseLoose(t, h)
      BY <3>2, <2>0, CloseIsTurn DEF CloseLoose
    <3>3. QED
      BY <2>1, <3>1, <3>2
  <2>2. ASSUME NEW w \in Wrappers,
               ConstructEmpty(t, w) \/ Destroy(t, w) \/ Release(t, w) \/ Reset(t, w)
        PROVE  Done
    BY <2>2, <2>0, CleanupIsTurn
       DEF ConstructEmpty, Begin, Destroy, Terminate, Release, Reset
  <2>3. ASSUME NEW w \in Wrappers, NEW h \in Handles,
               Construct(t, w, h) \/ Fill(t, w, h) \/ Put(t, w, h)
        PROVE  Done
    BY <2>3, <2>0, CleanupIsTurn, OpenIsTurn DEF Construct, Begin, Fill, Put
  <2>4. ASSUME NEW w \in Wrappers, NEW v \in Wrappers,
               MoveConstruct(w, v) \/ MoveAssign(t, w, v)
        PROVE  Done
    BY <2>4, <2>0, CleanupIsTurn DEF MoveConstruct, MoveAssign, Terminate
  <2>5. QED
    BY <1>2, <2>1, <2>2, <2>3, <2>4 DEF Step
<1>3. QED
  BY <1>1, <1>2 DEF Next

\* scoped_handle keeps the promise of HandleOwnership: whatever the program does
\* with its wrappers, each handle is closed by the thread that opened it.
THEOREM Refinement == Spec => ImplementsOwnership
<1>1. Init => Ownership!Init
  BY DEF Init, Ownership!Init
<1>2. QED
  BY <1>1, Invariance, StepImplements, PTL
     DEF Spec, ImplementsOwnership, Ownership!Spec, Ownership!ownershipVars

=============================================================================
