--------------------------- MODULE Programs_proofs ---------------------------
(***************************************************************************)
(* The properties of Programs for any number of objects, blocks, addresses *)
(* and pieces of code.  A call of the library is reduced to its effect on  *)
(* the memory: which blocks get another keeper.  That a call has such an   *)
(* effect, and no fault, follows from the calls of the C API it makes, one *)
(* after the other, each of which changes a single block.                  *)
(***************************************************************************)
EXTENDS Programs, TLAPS

-----------------------------------------------------------------------------
(* One call of the C API.                                                  *)

\* From m to r only the block b has changed, to the keeper k with l locks and c cursors.
Becomes(m, r, b, k, l, c) ==
    /\ r \in MemoryState /\ r.faults = m.faults
    /\ r.keeper[b] = k /\ r.locks[b] = l /\ r.cursors[b] = c
    /\ \A a \in Blocks \ {b} :
          r.keeper[a] = m.keeper[a] /\ r.locks[a] = m.locks[a] /\ r.cursors[a] = m.cursors[a]

LEMMA AllocBecomes ==
    ASSUME NEW m \in MemoryState, NEW b \in Blocks
    PROVE  Becomes(m, OSMemAlloc(m, b), b, "library", 0, m.cursors[b])
BY DEF Becomes, OSMemAlloc, MemoryState, Keepers

LEMMA LockBecomes ==
    ASSUME NEW m \in MemoryState, NEW b \in Blocks, m.keeper[b] # "nobody"
    PROVE  Becomes(m, OSLock(m, b), b, m.keeper[b], m.locks[b] + 1, m.cursors[b])
BY DEF Becomes, OSLock, MemoryState

LEMMA UnlockBecomes ==
    ASSUME NEW m \in MemoryState, NEW b \in Blocks, m.locks[b] # 0
    PROVE  Becomes(m, OSUnlock(m, b), b, m.keeper[b], m.locks[b] - 1, m.cursors[b])
BY DEF Becomes, OSUnlock, MemoryState

LEMMA FreeBecomes ==
    ASSUME NEW m \in MemoryState, NEW b \in Blocks, m.keeper[b] = "library", m.cursors[b] = 0
    PROVE  Becomes(m, OSMemFree(m, b), b, "nobody", 0, 0)
<1> DEFINE r == [m EXCEPT !.keeper[b] = "nobody", !.locks[b] = 0]
<1>1. OSMemFree(m, b) = r
    BY DEF OSMemFree
<1>2. Becomes(m, r, b, "nobody", 0, 0)
    BY DEF Becomes, MemoryState, Keepers
<1> QED BY <1>1, <1>2

LEMMA TakenBecomes ==
    ASSUME NEW m \in MemoryState, NEW b \in Blocks, m.keeper[b] = "library"
    PROVE  Becomes(m, TakenOver(m, b), b, "domino", m.locks[b], m.cursors[b])
BY DEF Becomes, TakenOver, MemoryState, Keepers

LEMMA ReleaseBecomes ==
    ASSUME NEW m \in MemoryState, NEW b \in Blocks, m.cursors[b] # 0
    PROVE  Becomes(m, Release(m, b), b, m.keeper[b], m.locks[b], m.cursors[b] - 1)
BY DEF Becomes, Release, MemoryState

LEMMA HoldBecomes ==
    ASSUME NEW m \in MemoryState, NEW b \in Blocks, m.keeper[b] # "nobody",
           NEW own \in {"take", "borrow"}
    PROVE  Becomes(m, Hold(m, b, own), b, m.keeper[b], m.locks[b] + 1, m.cursors[b] + 1)
<1> DEFINE r == [m EXCEPT !.locks[b] = @ + 1]
           h == [r EXCEPT !.cursors[b] = @ + 1]
<1>1. Hold(m, b, own) = h
    BY DEF Hold, OSLock
<1>2. r \in MemoryState /\ Becomes(m, r, b, m.keeper[b], m.locks[b] + 1, m.cursors[b])
    BY DEF Becomes, MemoryState
<1> HIDE DEF r
<1>3. Becomes(r, h, b, r.keeper[b], r.locks[b], r.cursors[b] + 1)
    BY <1>2 DEF Becomes, MemoryState
<1> HIDE DEF h
<1> QED BY <1>1, <1>2, <1>3 DEF Becomes

LEMMA HoldFreeBecomes ==
    ASSUME NEW m \in MemoryState, NEW b \in Blocks
    PROVE  Becomes(m, Hold(m, b, "free"), b, m.keeper[b], m.locks[b], m.cursors[b] + 1)
BY DEF Becomes, Hold, MemoryState

LEMMA DropBorrowBecomes ==
    ASSUME NEW m \in MemoryState, NEW b \in Blocks, m.locks[b] # 0, m.cursors[b] # 0
    PROVE  Becomes(m, Drop(m, b, "borrow"), b, m.keeper[b], m.locks[b] - 1, m.cursors[b] - 1)
<1> DEFINE gone == [m EXCEPT !.cursors[b] = @ - 1]
<1>1. Becomes(m, gone, b, m.keeper[b], m.locks[b], m.cursors[b] - 1)
    BY DEF Becomes, MemoryState
<1>2. Drop(m, b, "borrow") = OSUnlock(gone, b)
    BY DEF Drop
<1> HIDE DEF gone
<1> QED BY <1>1, <1>2, UnlockBecomes DEF Becomes

LEMMA DropTakeBecomes ==
    ASSUME NEW m \in MemoryState, NEW b \in Blocks,
           m.keeper[b] = "library", m.locks[b] # 0, m.cursors[b] = 1
    PROVE  Becomes(m, Drop(m, b, "take"), b, "nobody", 0, 0)
<1> DEFINE gone == [m EXCEPT !.cursors[b] = @ - 1]
<1>1. Becomes(m, gone, b, "library", m.locks[b], 0)
    BY DEF Becomes, MemoryState
<1>2. Drop(m, b, "take") = OSMemFree(OSUnlock(gone, b), b)
    BY DEF Drop
<1> HIDE DEF gone
<1>3. Becomes(gone, OSUnlock(gone, b), b, "library", m.locks[b] - 1, 0)
    BY <1>1, UnlockBecomes DEF Becomes
<1> QED BY <1>1, <1>2, <1>3, FreeBecomes DEF Becomes

LEMMA DropFreeBecomes ==
    ASSUME NEW m \in MemoryState, NEW b \in Blocks,
           m.keeper[b] = "library", m.cursors[b] = 1
    PROVE  Becomes(m, Drop(m, b, "free"), b, "nobody", 0, 0)
<1> DEFINE gone == [m EXCEPT !.cursors[b] = @ - 1]
<1>1. Becomes(m, gone, b, "library", m.locks[b], 0)
    BY DEF Becomes, MemoryState
<1>2. Drop(m, b, "free") = OSMemFree(gone, b)
    BY DEF Drop
<1> HIDE DEF gone
<1> QED BY <1>1, <1>2, FreeBecomes DEF Becomes

LEMMA Twice ==
    ASSUME NEW m, NEW r, NEW q, NEW b,
           NEW k, NEW l, NEW c, NEW k2, NEW l2, NEW c2,
           Becomes(m, r, b, k, l, c), Becomes(r, q, b, k2, l2, c2)
    PROVE  Becomes(m, q, b, k2, l2, c2)
BY DEF Becomes

\* A locker that lives for some reads leaves the block as it found it.
LEMMA VisitBecomes ==
    ASSUME NEW m \in MemoryState, NEW b \in Blocks, m.keeper[b] # "nobody"
    PROVE  Becomes(m, Visit(m, b), b, m.keeper[b], m.locks[b], m.cursors[b])
<1> DEFINE held == Hold(m, b, "borrow")
<1>1. Becomes(m, held, b, m.keeper[b], m.locks[b] + 1, m.cursors[b] + 1)
    BY HoldBecomes
<1>2. m.locks[b] \in Nat /\ m.cursors[b] \in Nat
    BY DEF MemoryState
<1>3. Visit(m, b) = Drop(held, b, "borrow")
    BY DEF Visit
<1> HIDE DEF held
<1>4. Becomes(held, Visit(m, b), b, m.keeper[b], m.locks[b], m.cursors[b])
    BY <1>1, <1>2, <1>3, DropBorrowBecomes DEF Becomes
<1> QED BY <1>1, <1>4, Twice

LEMMA AllocateBecomes ==
    ASSUME NEW m \in MemoryState, NEW b \in Blocks, NEW own \in {"take", "borrow"}
    PROVE  Becomes(m, Allocate(m, b, own), b, "library", 1, m.cursors[b] + 1)
<1> DEFINE made == OSMemAlloc(m, b)
<1>1. Becomes(m, made, b, "library", 0, m.cursors[b])
    BY AllocBecomes
<1>2. Allocate(m, b, own) = Hold(made, b, own)
    BY DEF Allocate
<1> HIDE DEF made
<1>3. Becomes(made, Allocate(m, b, own), b, "library", 1, m.cursors[b] + 1)
    BY <1>1, <1>2, HoldBecomes DEF Becomes
<1> QED BY <1>1, <1>3, Twice

LEMMA AllocateFreeBecomes ==
    ASSUME NEW m \in MemoryState, NEW b \in Blocks
    PROVE  Becomes(m, Allocate(m, b, "free"), b, "library", 0, m.cursors[b] + 1)
<1> DEFINE made == OSMemAlloc(m, b)
<1>1. Becomes(m, made, b, "library", 0, m.cursors[b])
    BY AllocBecomes
<1>2. Allocate(m, b, "free") = Hold(made, b, "free")
    BY DEF Allocate
<1> HIDE DEF made
<1>3. Becomes(made, Allocate(m, b, "free"), b, "library", 0, m.cursors[b] + 1)
    BY <1>1, <1>2, HoldFreeBecomes DEF Becomes
<1> QED BY <1>1, <1>3, Twice

-----------------------------------------------------------------------------
(* What holds of the memory between two calls, and what a call does to it. *)

\* No locker is alive; every object that has a block is the only one to have it,
\* storage without an object has none, and nobody has the blocks that were forgotten.
MemInv ==
    /\ mem \in MemoryState /\ mem.faults = {} /\ \A b \in Blocks : mem.cursors[b] = 0
    /\ kind \in [Objects -> Kinds]
    /\ slot \in [Objects -> Blocks \cup {NoBlock}]
    /\ forgotten \subseteq Blocks
    /\ OneKeeper
    /\ \A o \in Objects : slot[o] \notin forgotten /\ (kind[o] = "none" => slot[o] = NoBlock)

\* The call leaves r: the blocks of bs get the keeper k, and no other block does.
Effect(r, bs, k) ==
    /\ r \in MemoryState /\ r.faults = {} /\ \A b \in Blocks : r.cursors[b] = 0
    /\ \A b \in Blocks :
          /\ r.keeper[b] = IF b \in bs THEN k ELSE mem.keeper[b]
          /\ b \notin bs /\ mem.keeper[b] = "library" => r.locks[b] = mem.locks[b]

LEMMA Kept ==
    ASSUME MemInv, NEW o \in Objects, slot[o] # NoBlock
    PROVE  slot[o] \in Blocks /\ mem.keeper[slot[o]] = "library"
BY DEF MemInv, OneKeeper

LEMMA EffectOnOne ==
    ASSUME MemInv, NEW r, NEW b \in Blocks, NEW k, NEW l, Becomes(mem, r, b, k, l, 0)
    PROVE  Effect(r, {b}, k)
BY DEF MemInv, Becomes, Effect

LEMMA NoEffect ==
    ASSUME MemInv, NEW r, NEW b \in Blocks, NEW l, Becomes(mem, r, b, mem.keeper[b], l, 0),
           mem.keeper[b] # "library" \/ l = mem.locks[b]
    PROVE  Effect(r, {}, "nobody")
BY DEF MemInv, Becomes, Effect

LEMMA NewListEffect ==
    ASSUME MemInv, NEW b \in Unused
    PROVE  Effect(OSUnlock(OSLock(OSMemAlloc(mem, b), b), b), {b}, "library")
<1> DEFINE made == OSMemAlloc(mem, b)
           held == OSLock(made, b)
<1>1. mem \in MemoryState /\ b \in Blocks /\ mem.cursors[b] = 0
    BY DEF MemInv, Unused
<1>2. Becomes(mem, made, b, "library", 0, 0)
    BY <1>1, AllocBecomes
<1> HIDE DEF made
<1>3. Becomes(made, held, b, "library", 1, 0)
    BY <1>1, <1>2, LockBecomes DEF Becomes
<1> HIDE DEF held
<1>4. Becomes(held, OSUnlock(held, b), b, "library", 0, 0)
    BY <1>1, <1>3, UnlockBecomes DEF Becomes
<1>5. Becomes(mem, OSUnlock(held, b), b, "library", 0, 0)
    BY <1>2, <1>3, <1>4, Twice
<1> QED BY <1>1, <1>5, EffectOnOne DEF made, held

LEMMA AllocEffect ==
    ASSUME MemInv, NEW b \in Unused
    PROVE  Effect(OSMemAlloc(mem, b), {b}, "library")
<1>1. mem \in MemoryState /\ b \in Blocks /\ mem.cursors[b] = 0
    BY DEF MemInv, Unused
<1> QED BY <1>1, AllocBecomes, EffectOnOne

\* Memory that was allocated in a locker and taken out of it.
LEMMA TakeOutEffect ==
    ASSUME MemInv, NEW b \in Unused
    PROVE  Effect(Release(Allocate(mem, b, "take"), b), {b}, "library")
<1> DEFINE held == Allocate(mem, b, "take")
<1>1. mem \in MemoryState /\ b \in Blocks /\ mem.cursors[b] = 0
    BY DEF MemInv, Unused
<1>2. Becomes(mem, held, b, "library", 1, 1)
    BY <1>1, AllocateBecomes
<1> HIDE DEF held
<1>3. Becomes(held, Release(held, b), b, "library", 1, 0)
    BY <1>1, <1>2, ReleaseBecomes DEF Becomes
<1>4. Becomes(mem, Release(held, b), b, "library", 1, 0)
    BY <1>2, <1>3, Twice
<1> QED BY <1>1, <1>4, EffectOnOne DEF held

LEMMA RefuseEffect ==
    ASSUME MemInv, NEW b \in Unused
    PROVE  /\ Effect(OSMemFree(Drop(Allocate(mem, b, "borrow"), b, "borrow"), b), {}, "nobody")
           /\ Effect(Drop(Allocate(mem, b, "free"), b, "free"), {}, "nobody")
<1>1. mem \in MemoryState /\ b \in Blocks /\ mem.cursors[b] = 0 /\ mem.keeper[b] = "nobody"
    BY DEF MemInv, Unused
<1>2. Effect(OSMemFree(Drop(Allocate(mem, b, "borrow"), b, "borrow"), b), {}, "nobody")
    <2> DEFINE held == Allocate(mem, b, "borrow")
               left == Drop(held, b, "borrow")
    <2>1. Becomes(mem, held, b, "library", 1, 1)
        BY <1>1, AllocateBecomes
    <2> HIDE DEF held
    <2>2. Becomes(held, left, b, "library", 0, 0)
        BY <1>1, <2>1, DropBorrowBecomes DEF Becomes
    <2> HIDE DEF left
    <2>3. Becomes(left, OSMemFree(left, b), b, "nobody", 0, 0)
        BY <1>1, <2>2, FreeBecomes DEF Becomes
    <2>4. Becomes(mem, OSMemFree(left, b), b, "nobody", 0, 0)
        BY <2>1, <2>2, <2>3, Twice
    <2> QED BY <1>1, <2>4, NoEffect DEF held, left
<1>3. Effect(Drop(Allocate(mem, b, "free"), b, "free"), {}, "nobody")
    <2> DEFINE held == Allocate(mem, b, "free")
    <2>1. Becomes(mem, held, b, "library", 0, 1)
        BY <1>1, AllocateFreeBecomes
    <2> HIDE DEF held
    <2>2. Becomes(held, Drop(held, b, "free"), b, "nobody", 0, 0)
        BY <1>1, <2>1, DropFreeBecomes DEF Becomes
    <2>3. Becomes(mem, Drop(held, b, "free"), b, "nobody", 0, 0)
        BY <2>1, <2>2, Twice
    <2> QED BY <1>1, <2>3, NoEffect DEF held
<1> QED BY <1>2, <1>3

LEMMA NewScriptEffect ==
    ASSUME MemInv, NEW input \in Unused, NEW text \in Unused, input # text
    PROVE  LET formatted == OSMemAlloc(Allocate(mem, input, "take"), text)
           IN  Effect(Release(Hold(Drop(formatted, input, "take"), text, "take"), text),
                      {text}, "library")
<1> DEFINE given == Allocate(mem, input, "take")
           formatted == OSMemAlloc(given, text)
           clean == Drop(formatted, input, "take")
           held == Hold(clean, text, "take")
           left == Release(held, text)
<1>1. /\ mem \in MemoryState /\ input \in Blocks /\ text \in Blocks
      /\ mem.cursors[input] = 0 /\ mem.cursors[text] = 0
      /\ mem.keeper[input] = "nobody" /\ mem.keeper[text] = "nobody"
    BY DEF MemInv, Unused
<1>2. Becomes(mem, given, input, "library", 1, 1)
    BY <1>1, AllocateBecomes
<1> HIDE DEF given
<1>3. Becomes(given, formatted, text, "library", 0, 0)
    BY <1>1, <1>2, AllocBecomes DEF Becomes
<1> HIDE DEF formatted
<1>4. Becomes(formatted, clean, input, "nobody", 0, 0)
    BY <1>1, <1>2, <1>3, DropTakeBecomes DEF Becomes
<1> HIDE DEF clean
<1>5. Becomes(clean, held, text, "library", 1, 1)
    BY <1>1, <1>3, <1>4, HoldBecomes DEF Becomes
<1> HIDE DEF held
<1>6. Becomes(held, left, text, "library", 1, 0)
    BY <1>1, <1>5, ReleaseBecomes DEF Becomes
<1> HIDE DEF left
<1>7. Effect(left, {text}, "library")
    BY <1>1, <1>2, <1>3, <1>4, <1>5, <1>6 DEF MemInv, Effect, Becomes
<1> QED BY <1>7 DEF given, formatted, clean, held, left

\* The forgotten block is the only one that is left of a rejected script.
LEMMA RejectScriptEffect ==
    ASSUME MemInv, NEW input \in Unused, NEW error \in Unused, input # error,
           NEW dest \in SUBSET (Unused \ {input, error})
    PROVE  LET made  == Allocate(mem, input, "take")
               outs  == [made EXCEPT !.keeper = [b \in Blocks |->
                            IF b \in dest \cup {error} THEN "library" ELSE @[b]]]
               clean == Drop(outs, input, "take")
           IN  Effect(Drop(Hold(clean, error, "take"), error, "take"), dest, "library")
<1> DEFINE made == Allocate(mem, input, "take")
           outs  == [made EXCEPT !.keeper = [b \in Blocks |->
                        IF b \in dest \cup {error} THEN "library" ELSE @[b]]]
           clean == Drop(outs, input, "take")
           held == Hold(clean, error, "take")
           left == Drop(held, error, "take")
<1>1. /\ mem \in MemoryState /\ input \in Blocks /\ error \in Blocks /\ dest \subseteq Blocks
      /\ mem.cursors[input] = 0 /\ mem.cursors[error] = 0
      /\ mem.keeper[input] = "nobody" /\ mem.keeper[error] = "nobody"
      /\ input \notin dest /\ error \notin dest
      /\ \A b \in dest : mem.keeper[b] = "nobody"
      /\ mem.locks[error] \in Nat
    BY DEF MemInv, Unused, MemoryState
<1>2. Becomes(mem, made, input, "library", 1, 1)
    BY <1>1, AllocateBecomes
<1> HIDE DEF made
<1>3. /\ outs \in MemoryState /\ outs.faults = made.faults
      /\ outs.locks = made.locks /\ outs.cursors = made.cursors
      /\ \A b \in Blocks :
            outs.keeper[b] = IF b \in dest \cup {error} THEN "library" ELSE made.keeper[b]
    BY <1>2 DEF Becomes, MemoryState, Keepers
<1> HIDE DEF outs
<1>4. Becomes(outs, clean, input, "nobody", 0, 0)
    BY <1>1, <1>2, <1>3, DropTakeBecomes DEF Becomes
<1> HIDE DEF clean
<1>5. /\ clean \in MemoryState /\ clean.keeper[error] = "library"
      /\ clean.locks[error] = mem.locks[error] /\ clean.cursors[error] = 0
    BY <1>1, <1>2, <1>3, <1>4 DEF Becomes
<1>6. Becomes(clean, held, error, "library", mem.locks[error] + 1, 1)
    BY <1>1, <1>5, HoldBecomes
<1> HIDE DEF held
<1>7. Becomes(held, left, error, "nobody", 0, 0)
    BY <1>1, <1>6, DropTakeBecomes DEF Becomes
<1> HIDE DEF left
<1>8. ASSUME NEW b \in Blocks
      PROVE  /\ left.cursors[b] = 0
             /\ left.keeper[b] = IF b \in dest THEN "library" ELSE mem.keeper[b]
             /\ b \notin dest /\ mem.keeper[b] = "library" => left.locks[b] = mem.locks[b]
    <2>1. CASE b = error
        BY <1>1, <1>7, <2>1 DEF Becomes
    <2>2. CASE b = input
        BY <1>1, <1>4, <1>6, <1>7, <2>2 DEF Becomes
    <2>3. CASE b # error /\ b # input
        <3>1. /\ left.keeper[b] = outs.keeper[b] /\ left.locks[b] = outs.locks[b]
              /\ left.cursors[b] = outs.cursors[b]
            BY <1>4, <1>6, <1>7, <2>3 DEF Becomes
        <3> QED BY <1>1, <1>2, <1>3, <2>3, <3>1 DEF Becomes, MemInv
    <2> QED BY <2>1, <2>2, <2>3
<1>9. left \in MemoryState /\ left.faults = {}
    BY <1>2, <1>3, <1>4, <1>6, <1>7 DEF Becomes, MemInv
<1>10. Effect(left, dest, "library")
    BY <1>8, <1>9 DEF Effect
<1> QED BY <1>10 DEF made, outs, clean, held, left

-----------------------------------------------------------------------------
(* Calls on an object that keeps a block.                                  *)

LEMMA VisitEffect ==
    ASSUME MemInv, NEW o \in Objects, slot[o] # NoBlock
    PROVE  /\ Effect(Visit(mem, slot[o]), {}, "nobody")
           /\ Effect(Visit(Visit(mem, slot[o]), slot[o]), {}, "nobody")
<1> DEFINE b == slot[o]
           once == Visit(mem, b)
<1>1. mem \in MemoryState /\ b \in Blocks /\ mem.cursors[b] = 0 /\ mem.keeper[b] = "library"
    BY Kept DEF MemInv
<1>2. Becomes(mem, once, b, "library", mem.locks[b], 0)
    BY <1>1, VisitBecomes
<1> HIDE DEF b, once
<1>3. Becomes(once, Visit(once, b), b, "library", mem.locks[b], 0)
    BY <1>1, <1>2, VisitBecomes DEF Becomes
<1>4. Becomes(mem, Visit(once, b), b, "library", mem.locks[b], 0)
    BY <1>2, <1>3, Twice
<1> QED BY <1>1, <1>2, <1>4, NoEffect DEF b, once

\* An edit of the list in o, in a memory m where no locker is alive.
LEMMA EditedBecomes ==
    ASSUME NEW m \in MemoryState, NEW o \in Objects, slot[o] \in Blocks,
           m.keeper[slot[o]] = "library", m.cursors[slot[o]] = 0
    PROVE  Becomes(m, Edited(m, o), slot[o], "library", m.locks[slot[o]], 0)
<1> DEFINE b == slot[o]
           once == Visit(m, b)
<1>1. Becomes(m, once, b, "library", m.locks[b], 0)
    BY VisitBecomes
<1>2. Edited(m, o) = OSMemRealloc(once, b)
    BY DEF Edited
<1> HIDE DEF b, once
<1>3. OSMemRealloc(once, b) = once
    BY <1>1 DEF Becomes, OSMemRealloc
<1> QED BY <1>1, <1>2, <1>3 DEF b

LEMMA ReallocEffect ==
    ASSUME MemInv, NEW o \in Objects, slot[o] # NoBlock
    PROVE  OSMemRealloc(mem, slot[o]) = mem /\ Effect(mem, {}, "nobody")
<1>1. OSMemRealloc(mem, slot[o]) = mem
    <2>1. mem.keeper[slot[o]] = "library" /\ mem.cursors[slot[o]] = 0
        BY Kept DEF MemInv
    <2> QED BY <2>1 DEF OSMemRealloc
<1>2. Effect(mem, {}, "nobody")
    BY DEF MemInv, Effect
<1> QED BY <1>1, <1>2

LEMMA AddItemNameEffect ==
    ASSUME MemInv, NEW o \in Objects, slot[o] # NoBlock
    PROVE  LET b == slot[o]
           IN  Effect(Visit(OSMemRealloc(Visit(mem, b), b), b), {}, "nobody")
<1> DEFINE b == slot[o]
           once == Visit(mem, b)
<1>1. mem \in MemoryState /\ b \in Blocks /\ mem.cursors[b] = 0 /\ mem.keeper[b] = "library"
    BY Kept DEF MemInv
<1>2. Becomes(mem, once, b, "library", mem.locks[b], 0)
    BY <1>1, VisitBecomes
<1>3. Effect(Visit(once, b), {}, "nobody")
    BY VisitEffect
<1> HIDE DEF once, b
<1>4. OSMemRealloc(once, b) = once
    BY <1>2 DEF Becomes, OSMemRealloc
<1> QED BY <1>3, <1>4 DEF b, once

LEMMA DecompileEffect ==
    ASSUME MemInv, NEW o \in Objects, slot[o] # NoBlock, NEW text \in Unused
    PROVE  LET input  == Hold(mem, slot[o], "borrow")
               output == Hold(OSMemAlloc(input, text), text, "take")
           IN  Effect(Drop(Drop(output, text, "take"), slot[o], "borrow"), {}, "nobody")
<1> DEFINE b == slot[o]
           input == Hold(mem, b, "borrow")
           made == OSMemAlloc(input, text)
           output == Hold(made, text, "take")
           clean == Drop(output, text, "take")
           left == Drop(clean, b, "borrow")
<1>1. /\ mem \in MemoryState /\ b \in Blocks /\ text \in Blocks /\ b # text
      /\ mem.cursors[b] = 0 /\ mem.keeper[b] = "library" /\ mem.locks[b] \in Nat
      /\ mem.cursors[text] = 0 /\ mem.keeper[text] = "nobody"
    BY Kept DEF MemInv, Unused, MemoryState
<1>2. Becomes(mem, input, b, "library", mem.locks[b] + 1, 1)
    BY <1>1, HoldBecomes
<1> HIDE DEF b, input
<1>3. Becomes(input, made, text, "library", 0, 0)
    BY <1>1, <1>2, AllocBecomes DEF Becomes
<1> HIDE DEF made
<1>4. Becomes(made, output, text, "library", 1, 1)
    BY <1>1, <1>3, HoldBecomes DEF Becomes
<1> HIDE DEF output
<1>5. Becomes(output, clean, text, "nobody", 0, 0)
    BY <1>1, <1>4, DropTakeBecomes DEF Becomes
<1> HIDE DEF clean
<1>6. /\ clean \in MemoryState /\ clean.keeper[b] = "library"
      /\ clean.locks[b] = mem.locks[b] + 1 /\ clean.cursors[b] = 1
    BY <1>1, <1>2, <1>3, <1>4, <1>5 DEF Becomes
<1>7. Becomes(clean, left, b, "library", mem.locks[b], 0)
    BY <1>1, <1>6, DropBorrowBecomes
<1> HIDE DEF left
<1>8. Effect(left, {}, "nobody")
    BY <1>1, <1>2, <1>3, <1>4, <1>5, <1>7 DEF MemInv, Effect, Becomes
<1> QED BY <1>8 DEF b, input, made, output, clean, left

LEMMA CloneEffect ==
    ASSUME MemInv, NEW o \in Objects, slot[o] # NoBlock, NEW b \in Unused
    PROVE  LET copy == Allocate(Hold(mem, slot[o], "borrow"), b, "take")
           IN  Effect(Release(Drop(copy, slot[o], "borrow"), b), {b}, "library")
<1> DEFINE a == slot[o]
           input == Hold(mem, a, "borrow")
           copy == Allocate(input, b, "take")
           back == Drop(copy, a, "borrow")
           left == Release(back, b)
<1>1. /\ mem \in MemoryState /\ a \in Blocks /\ b \in Blocks /\ a # b
      /\ mem.cursors[a] = 0 /\ mem.keeper[a] = "library" /\ mem.locks[a] \in Nat
      /\ mem.cursors[b] = 0
    BY Kept DEF MemInv, Unused, MemoryState
<1>2. Becomes(mem, input, a, "library", mem.locks[a] + 1, 1)
    BY <1>1, HoldBecomes
<1> HIDE DEF a, input
<1>3. Becomes(input, copy, b, "library", 1, 1)
    <2>1. input \in MemoryState /\ input.cursors[b] = 0
        BY <1>1, <1>2 DEF Becomes
    <2>2. Becomes(input, copy, b, "library", 1, input.cursors[b] + 1)
        BY <1>1, <2>1, AllocateBecomes
    <2> QED BY <2>1, <2>2
<1> HIDE DEF copy
<1>4. /\ copy \in MemoryState /\ copy.keeper[a] = "library"
      /\ copy.locks[a] = mem.locks[a] + 1 /\ copy.cursors[a] = 1
    BY <1>1, <1>2, <1>3 DEF Becomes
<1>5. Becomes(copy, back, a, "library", mem.locks[a], 0)
    BY <1>1, <1>4, DropBorrowBecomes
<1> HIDE DEF back
<1>6. Becomes(back, left, b, "library", 1, 0)
    BY <1>1, <1>3, <1>5, ReleaseBecomes DEF Becomes
<1> HIDE DEF left
<1>7. Effect(left, {b}, "library")
    BY <1>1, <1>2, <1>3, <1>5, <1>6 DEF MemInv, Effect, Becomes
<1> QED BY <1>7 DEF a, input, copy, back, left

-----------------------------------------------------------------------------
(* Calls on several blocks at once, and the calls of agents.               *)

LEMMA DestroyedEffect ==
    ASSUME MemInv, NEW os \in SUBSET Objects
    PROVE  Effect(Destroyed(mem, os), {slot[o] : o \in os} \ {NoBlock}, "nobody")
<1> DEFINE own == {slot[o] : o \in os} \ {NoBlock}
<1>1. \A b \in own : b \in Blocks /\ mem.keeper[b] = "library"
    BY Kept
<1>2. {b \in own : mem.keeper[b] = "library"} = own
    BY <1>1
<1> DEFINE keeper == [b \in Blocks |-> IF b \in own THEN "nobody" ELSE mem.keeper[b]]
           locks == [b \in Blocks |-> IF b \in own THEN 0 ELSE mem.locks[b]]
<1>3. Destroyed(mem, os) =
          [mem EXCEPT !.keeper = keeper, !.locks = locks, !.faults = mem.faults]
    BY <1>1, <1>2 DEF Destroyed
<1> HIDE DEF own
<1> DEFINE r == Destroyed(mem, os)
<1>4. mem \in MemoryState
    BY DEF MemInv
<1>5. /\ r \in MemoryState /\ r.faults = mem.faults /\ r.cursors = mem.cursors
      /\ \A b \in Blocks : r.keeper[b] = IF b \in own THEN "nobody" ELSE mem.keeper[b]
      /\ \A b \in Blocks \ own : r.locks[b] = mem.locks[b]
    <2>1. keeper \in [Blocks -> Keepers] /\ locks \in [Blocks -> Nat]
        BY <1>4 DEF MemoryState, Keepers
    <2>2. /\ \A b \in Blocks : keeper[b] = IF b \in own THEN "nobody" ELSE mem.keeper[b]
          /\ \A b \in Blocks \ own : locks[b] = mem.locks[b]
        OBVIOUS
    <2> HIDE DEF keeper, locks
    <2> QED BY <1>3, <1>4, <2>1, <2>2 DEF MemoryState
<1> HIDE DEF r
<1>6. Effect(r, own, "nobody")
    BY <1>5 DEF Effect, MemInv
<1> QED BY <1>6 DEF own, r

LEMMA GivenAwayEffect ==
    ASSUME MemInv, NEW given \in SUBSET Objects, \A l \in given : slot[l] # NoBlock
    PROVE  Effect(GivenAway(mem, given), {slot[l] : l \in given}, "domino")
<1> DEFINE bs == {slot[l] : l \in given}
<1>1. \A b \in bs : b \in Blocks /\ mem.keeper[b] = "library"
    BY Kept
<1> DEFINE keeper == [b \in Blocks |-> IF b \in bs THEN "domino" ELSE mem.keeper[b]]
<1>2. GivenAway(mem, given) = [mem EXCEPT !.keeper = keeper, !.faults = mem.faults]
    BY <1>1 DEF GivenAway
<1> HIDE DEF bs
<1> DEFINE r == GivenAway(mem, given)
<1>3. mem \in MemoryState
    BY DEF MemInv
<1>4. /\ r \in MemoryState /\ r.faults = mem.faults /\ r.cursors = mem.cursors
      /\ \A b \in Blocks : r.keeper[b] = IF b \in bs THEN "domino" ELSE mem.keeper[b]
      /\ r.locks = mem.locks
    <2>1. keeper \in [Blocks -> Keepers]
        BY <1>3 DEF MemoryState, Keepers
    <2>2. \A b \in Blocks : keeper[b] = IF b \in bs THEN "domino" ELSE mem.keeper[b]
        OBVIOUS
    <2> HIDE DEF keeper
    <2> QED BY <1>2, <1>3, <2>1, <2>2 DEF MemoryState
<1> HIDE DEF r
<1>5. Effect(r, bs, "domino")
    BY <1>4 DEF Effect, MemInv
<1> QED BY <1>5 DEF bs, r

\* A value that is made, set and freed, from a memory m without lockers.
LEMMA WithValueBecomes ==
    ASSUME NEW m \in MemoryState, NEW b \in Blocks, m.cursors[b] = 0
    PROVE  Becomes(m, WithValue(m, b), b, "nobody", 0, 0)
<1> DEFINE held == Allocate(m, b, "take")
           value == Release(held, b)
           seen == Visit(value, b)
           left == OSMemFree(seen, b)
<1>1. Becomes(m, held, b, "library", 1, 1)
    BY AllocateBecomes
<1> HIDE DEF held
<1>2. Becomes(held, value, b, "library", 1, 0)
    BY <1>1, ReleaseBecomes DEF Becomes
<1> HIDE DEF value
<1>3. Becomes(value, seen, b, "library", 1, 0)
    BY <1>2, VisitBecomes DEF Becomes
<1> HIDE DEF seen
<1>4. Becomes(seen, left, b, "nobody", 0, 0)
    BY <1>3, FreeBecomes DEF Becomes
<1>5. left = WithValue(m, b)
    BY DEF WithValue, held, value, seen
<1> HIDE DEF left
<1>6. Becomes(m, left, b, "nobody", 0, 0)
    BY <1>1, <1>2, <1>3, <1>4, Twice
<1> QED BY <1>5, <1>6

LEMMA GivenBlockBecomes ==
    ASSUME NEW m \in MemoryState, NEW b \in Blocks, m.cursors[b] = 0
    PROVE  Becomes(m, GivenBlock(m, b), b, "domino", 1, 0)
<1> DEFINE held == Allocate(m, b, "take")
           given == TakenOver(held, b)
           left == Release(given, b)
<1>1. Becomes(m, held, b, "library", 1, 1)
    BY AllocateBecomes
<1> HIDE DEF held
<1>2. Becomes(held, given, b, "domino", 1, 1)
    BY <1>1, TakenBecomes DEF Becomes
<1> HIDE DEF given
<1>3. Becomes(given, left, b, "domino", 1, 0)
    BY <1>2, ReleaseBecomes DEF Becomes
<1>4. left = GivenBlock(m, b)
    BY DEF GivenBlock, held, given
<1> HIDE DEF left
<1>5. Becomes(m, left, b, "domino", 1, 0)
    BY <1>1, <1>2, <1>3, Twice
<1> QED BY <1>4, <1>5

LEMMA RefusedBlockBecomes ==
    ASSUME NEW m \in MemoryState, NEW b \in Blocks, m.cursors[b] = 0
    PROVE  Becomes(m, RefusedBlock(m, b), b, "nobody", 0, 0)
<1> DEFINE held == Allocate(m, b, "take")
           left == Drop(held, b, "take")
<1>1. Becomes(m, held, b, "library", 1, 1)
    BY AllocateBecomes
<1> HIDE DEF held
<1>2. Becomes(held, left, b, "nobody", 0, 0)
    BY <1>1, DropTakeBecomes DEF Becomes
<1>3. left = RefusedBlock(m, b)
    BY DEF RefusedBlock, held
<1> HIDE DEF left
<1>4. Becomes(m, left, b, "nobody", 0, 0)
    BY <1>1, <1>2, Twice
<1> QED BY <1>3, <1>4

\* However far set_run_info() gets: what the C API has taken over is not freed.
LEMMA RunInfoEffect ==
    ASSUME MemInv, NEW b \in Unused, NEW c \in Unused, b # c, NEW n \in 0 .. 3
    PROVE  \E bs \in SUBSET Unused :
              Effect(RunInfoMemory(WithValue(mem, b), b, c, n), bs, "domino")
<1> DEFINE m == WithValue(mem, b)
           given == GivenBlock(m, b)
<1>1. /\ mem \in MemoryState /\ b \in Blocks /\ c \in Blocks
      /\ \A a \in Blocks : mem.cursors[a] = 0
      /\ mem.keeper[b] = "nobody" /\ mem.keeper[c] = "nobody"
    BY DEF MemInv, Unused
<1>2. Becomes(mem, m, b, "nobody", 0, 0)
    BY <1>1, WithValueBecomes
<1>3. /\ n = 0 => RunInfoMemory(m, b, c, n) = m
      /\ n = 1 => RunInfoMemory(m, b, c, n) = RefusedBlock(m, b)
      /\ n = 2 => RunInfoMemory(m, b, c, n) = RefusedBlock(given, c)
      /\ n = 3 => RunInfoMemory(m, b, c, n) = GivenBlock(given, c)
    BY DEF RunInfoMemory
<1> HIDE DEF m
<1>4. Becomes(m, RefusedBlock(m, b), b, "nobody", 0, 0)
    BY <1>1, <1>2, RefusedBlockBecomes DEF Becomes
<1>5. Becomes(m, given, b, "domino", 1, 0)
    BY <1>1, <1>2, GivenBlockBecomes DEF Becomes
<1> HIDE DEF given
<1>6. given \in MemoryState /\ given.cursors[c] = 0
    BY <1>1, <1>2, <1>5 DEF Becomes
<1>7. /\ Becomes(given, RefusedBlock(given, c), c, "nobody", 0, 0)
      /\ Becomes(given, GivenBlock(given, c), c, "domino", 1, 0)
    BY <1>1, <1>6, RefusedBlockBecomes, GivenBlockBecomes
<1>8. CASE n = 0
    BY <1>1, <1>2, <1>3, <1>8 DEF m, Effect, Becomes, MemInv
<1>9. CASE n = 1
    <2>1. Effect(RefusedBlock(m, b), {}, "domino")
        BY <1>1, <1>2, <1>4 DEF Effect, Becomes, MemInv
    <2> QED BY <1>3, <1>9, <2>1 DEF m
<1>10. CASE n = 2
    <2>1. Effect(RefusedBlock(given, c), {b}, "domino")
        BY <1>1, <1>2, <1>5, <1>7 DEF Effect, Becomes, MemInv
    <2> QED BY <1>3, <1>10, <2>1 DEF m
<1>11. CASE n = 3
    <2>1. Effect(GivenBlock(given, c), {b, c}, "domino")
        BY <1>1, <1>2, <1>5, <1>7 DEF Effect, Becomes, MemInv
    <2> QED BY <1>3, <1>11, <2>1 DEF m
<1> QED BY <1>8, <1>9, <1>10, <1>11

\* set_code() frees the code that was moved into it, and nothing else.
LEMMA CodeEffect ==
    ASSUME MemInv, NEW o \in Objects, slot[o] # NoBlock, NEW b \in Unused
    PROVE  Effect(CodeMemory(mem, b, slot[o]), {slot[o]}, "nobody")
<1> DEFINE a == slot[o]
           item == Allocate(mem, b, "take")
           reading == Hold(item, a, "borrow")
           value == Release(reading, b)
           seen == Visit(value, b)
           set == OSMemFree(seen, b)
           read == Drop(set, a, "borrow")
           left == OSMemFree(read, a)
<1>1. /\ mem \in MemoryState /\ a \in Blocks /\ b \in Blocks /\ a # b
      /\ mem.cursors[a] = 0 /\ mem.keeper[a] = "library" /\ mem.locks[a] \in Nat
      /\ mem.cursors[b] = 0 /\ mem.keeper[b] = "nobody"
    BY Kept DEF MemInv, Unused, MemoryState
<1>2. left = CodeMemory(mem, b, slot[o])
    BY DEF CodeMemory
<1>3. Becomes(mem, item, b, "library", 1, 1)
    BY <1>1, AllocateBecomes
<1> HIDE DEF a, item
<1>4. /\ item \in MemoryState /\ item.keeper[a] = "library"
      /\ item.locks[a] = mem.locks[a] /\ item.cursors[a] = 0
    BY <1>1, <1>3 DEF Becomes
<1>5. Becomes(item, reading, a, "library", mem.locks[a] + 1, 1)
    <2>1. Becomes(item, reading, a, item.keeper[a], item.locks[a] + 1, item.cursors[a] + 1)
        BY <1>1, <1>4, HoldBecomes
    <2> QED BY <1>4, <2>1
<1> HIDE DEF reading
<1>6. Becomes(reading, value, b, "library", 1, 0)
    BY <1>1, <1>3, <1>5, ReleaseBecomes DEF Becomes
<1> HIDE DEF value
<1>7. Becomes(value, seen, b, "library", 1, 0)
    BY <1>1, <1>6, VisitBecomes DEF Becomes
<1> HIDE DEF seen
<1>8. Becomes(seen, set, b, "nobody", 0, 0)
    BY <1>1, <1>7, FreeBecomes DEF Becomes
<1> HIDE DEF set
<1>9. /\ set \in MemoryState /\ set.keeper[a] = "library"
      /\ set.locks[a] = mem.locks[a] + 1 /\ set.cursors[a] = 1
    BY <1>1, <1>5, <1>6, <1>7, <1>8 DEF Becomes
<1>10. Becomes(set, read, a, "library", mem.locks[a], 0)
    BY <1>1, <1>9, DropBorrowBecomes
<1> HIDE DEF read
<1>11. Becomes(read, left, a, "nobody", 0, 0)
    BY <1>1, <1>10, FreeBecomes DEF Becomes
<1> HIDE DEF left
<1>12. Becomes(reading, set, b, "nobody", 0, 0)
    BY <1>6, <1>7, <1>8, Twice
<1>13. Becomes(set, left, a, "nobody", 0, 0)
    BY <1>10, <1>11, Twice
<1>14. Effect(left, {a}, "nobody")
    BY <1>1, <1>3, <1>5, <1>12, <1>13 DEF MemInv, Effect, Becomes
<1> QED BY <1>2, <1>14 DEF a

LEMMA RunEffect ==
    ASSUME MemInv, NEW b \in Unused
    PROVE  LET output == TakenOver(OSMemAlloc(mem, b), b)
               read   == Visit(output, b)
           IN  Effect([read EXCEPT !.keeper[b] = "nobody", !.locks[b] = 0], {}, "nobody")
<1> DEFINE made == OSMemAlloc(mem, b)
           output == TakenOver(made, b)
           read == Visit(output, b)
           left == [read EXCEPT !.keeper[b] = "nobody", !.locks[b] = 0]
<1>1. mem \in MemoryState /\ b \in Blocks /\ mem.cursors[b] = 0 /\ mem.keeper[b] = "nobody"
    BY DEF MemInv, Unused
<1>2. Becomes(mem, made, b, "library", 0, 0)
    BY <1>1, AllocBecomes
<1> HIDE DEF made
<1>3. Becomes(made, output, b, "domino", 0, 0)
    BY <1>1, <1>2, TakenBecomes DEF Becomes
<1> HIDE DEF output
<1>4. Becomes(output, read, b, "domino", 0, 0)
    BY <1>1, <1>3, VisitBecomes DEF Becomes
<1> HIDE DEF read
<1>5. Becomes(read, left, b, "nobody", 0, 0)
    BY <1>1, <1>4 DEF Becomes, MemoryState, Keepers
<1> HIDE DEF left
<1>6. Becomes(mem, left, b, "nobody", 0, 0)
    BY <1>2, <1>3, <1>4, <1>5, Twice
<1> QED BY <1>1, <1>6, NoEffect DEF made, output, read, left

LEMMA DominoEffect ==
    ASSUME MemInv, NEW b \in Blocks, mem.keeper[b] = "domino"
    PROVE  Effect([mem EXCEPT !.keeper[b] = "nobody", !.locks[b] = 0], {b}, "nobody")
BY DEF Effect, MemInv, MemoryState, Keepers

-----------------------------------------------------------------------------
(* What the objects keep in a step with a given effect on the memory.      *)

\* The part of LocksReturned that speaks of a step.
LocksKept ==
    /\ \A b \in Blocks : mem'.cursors[b] = 0
    /\ \A o \in Objects : slot[o] # NoBlock /\ slot'[o] = slot[o] =>
          mem'.locks[slot[o]] = mem.locks[slot[o]]

LEMMA UnusedIsFree ==
    ASSUME MemInv, NEW b \in Unused
    PROVE  /\ b \in Blocks /\ b # NoBlock /\ mem.keeper[b] = "nobody" /\ b \notin forgotten
           /\ \A o \in Objects : slot[o] # b
BY MemoryAssumption DEF Unused, MemInv, OneKeeper

\* An object begins to live in o with a block that nobody had.
LEMMA BeginKeeps ==
    ASSUME MemInv, NEW o \in Objects, NEW k \in Kinds \ {"none"}, NEW b \in Unused, NEW r,
           Effect(r, {b}, "library"), Begin(o, k, b, r)
    PROVE  MemInv' /\ LocksKept
<1>1. /\ mem' = r /\ forgotten' = forgotten
      /\ kind' = [kind EXCEPT ![o] = k] /\ slot' = [slot EXCEPT ![o] = b]
      /\ slot[o] = NoBlock
    BY DEF Begin, MemInv
<1>2. /\ b \in Blocks /\ b # NoBlock /\ mem.keeper[b] = "nobody" /\ b \notin forgotten
      /\ \A p \in Objects : slot[p] # b
    BY UnusedIsFree
<1>3. \A p \in Objects : slot'[p] = IF p = o THEN b ELSE slot[p]
    BY <1>1 DEF MemInv
<1>4. OneKeeper'
    <2>1. \A p, q \in Objects : p # q /\ slot'[p] # NoBlock => slot'[p] # slot'[q]
        BY <1>2, <1>3 DEF MemInv, OneKeeper
    <2>2. ASSUME NEW a \in Blocks
          PROVE  mem'.keeper[a] = "library" <=>
                     (a \in forgotten' \/ \E p \in Objects : slot'[p] = a)
        <3>1. CASE a = b
            BY <1>1, <1>3, <3>1 DEF Effect
        <3>2. CASE a # b
            <4>1. mem'.keeper[a] = mem.keeper[a]
                BY <1>1, <3>2 DEF Effect
            <4>2. (\E p \in Objects : slot'[p] = a) <=> \E p \in Objects : slot[p] = a
                BY <1>1, <1>3, <3>2, MemoryAssumption
            <4> QED BY <1>1, <4>1, <4>2 DEF MemInv, OneKeeper
        <3> QED BY <3>1, <3>2
    <2> QED BY <2>1, <2>2 DEF OneKeeper
<1>5. MemInv'
    <2>1. mem' \in MemoryState /\ mem'.faults = {} /\ \A a \in Blocks : mem'.cursors[a] = 0
        BY <1>1 DEF Effect
    <2>2. kind' \in [Objects -> Kinds] /\ slot' \in [Objects -> Blocks \cup {NoBlock}]
        BY <1>1, <1>2 DEF MemInv
    <2>3. \A p \in Objects : slot'[p] \notin forgotten' /\ (kind'[p] = "none" => slot'[p] = NoBlock)
        BY <1>1, <1>2, <1>3 DEF MemInv
    <2> QED BY <1>1, <1>4, <2>1, <2>2, <2>3 DEF MemInv
<1>6. LocksKept
    <2>1. ASSUME NEW p \in Objects, slot[p] # NoBlock
          PROVE  mem'.locks[slot[p]] = mem.locks[slot[p]]
        <3>1. slot[p] \in Blocks /\ mem.keeper[slot[p]] = "library" /\ slot[p] \notin {b}
            BY <1>2, <2>1, Kept
        <3> QED BY <1>1, <3>1 DEF Effect
    <2> QED BY <1>1, <2>1 DEF LocksKept, Effect
<1> QED BY <1>5, <1>6

\* The objects keep their blocks; whatever changes its keeper was not the library's.
LEMMA MethodKeeps ==
    ASSUME MemInv, NEW bs \in SUBSET Blocks, NEW k, k # "library",
           \A b \in bs : mem.keeper[b] # "library",
           Effect(mem', bs, k), UNCHANGED <<kind, slot, forgotten>>
    PROVE  MemInv' /\ LocksKept
<1>1. OneKeeper'
    <2>1. \A b \in Blocks : mem'.keeper[b] = "library" <=> mem.keeper[b] = "library"
        BY DEF Effect
    <2> QED BY <2>1 DEF OneKeeper, MemInv
<1>2. MemInv'
    BY <1>1 DEF MemInv, Effect
<1>3. LocksKept
    <2>1. ASSUME NEW p \in Objects, slot[p] # NoBlock
          PROVE  mem'.locks[slot[p]] = mem.locks[slot[p]]
        <3>1. slot[p] \in Blocks /\ mem.keeper[slot[p]] = "library" /\ slot[p] \notin bs
            BY <2>1, Kept
        <3> QED BY <3>1 DEF Effect
    <2> QED BY <2>1 DEF LocksKept, Effect
<1> QED BY <1>2, <1>3

LEMMA MethodKeepsAll ==
    ASSUME MemInv, Effect(mem', {}, "nobody"), UNCHANGED <<kind, slot, forgotten>>
    PROVE  MemInv' /\ LocksKept
BY MethodKeeps

\* The objects in gone give their blocks up, to be freed or to the C API.
LEMMA GivingUpKeeps ==
    ASSUME MemInv, NEW gone \in SUBSET Objects, NEW k, k # "library",
           Effect(mem', {slot[o] : o \in gone} \ {NoBlock}, k),
           slot' = [o \in Objects |-> IF o \in gone THEN NoBlock ELSE slot[o]],
           kind' \in [Objects -> Kinds],
           \A o \in Objects : kind'[o] = "none" => kind[o] = "none" \/ o \in gone,
           UNCHANGED forgotten
    PROVE  MemInv' /\ LocksKept
<1> DEFINE bs == {slot[o] : o \in gone} \ {NoBlock}
<1>1. \A o \in Objects : slot'[o] = IF o \in gone THEN NoBlock ELSE slot[o]
    OBVIOUS
<1>2. ASSUME NEW o \in Objects, o \notin gone
      PROVE  slot[o] \notin bs
    BY <1>2 DEF MemInv, OneKeeper
<1>3. ASSUME NEW b \in bs
      PROVE  b \notin forgotten /\ \E o \in gone : slot[o] = b
    BY <1>3 DEF MemInv
<1>4. Effect(mem', bs, k)
    OBVIOUS
<1> HIDE DEF bs
<1>5. OneKeeper'
    <2>1. \A p, q \in Objects : p # q /\ slot'[p] # NoBlock => slot'[p] # slot'[q]
        BY <1>1 DEF MemInv, OneKeeper
    <2>2. ASSUME NEW a \in Blocks
          PROVE  mem'.keeper[a] = "library" <=>
                     (a \in forgotten' \/ \E p \in Objects : slot'[p] = a)
        <3>1. CASE a \in bs
            <4>1. mem'.keeper[a] # "library" /\ a \notin forgotten'
                BY <1>3, <1>4, <3>1 DEF Effect
            <4>2. \A p \in Objects : slot'[p] # a
                BY <1>1, <1>2, <3>1, MemoryAssumption
            <4> QED BY <4>1, <4>2
        <3>2. CASE a \notin bs
            <4>1. mem'.keeper[a] = mem.keeper[a]
                BY <1>4, <3>2 DEF Effect
            <4>2. ASSUME NEW p \in Objects, slot[p] = a
                  PROVE  slot'[p] = a
                BY <1>1, <3>2, <4>2, MemoryAssumption DEF bs
            <4>3. ASSUME NEW p \in Objects, slot'[p] = a
                  PROVE  slot[p] = a
                BY <1>1, <4>3, MemoryAssumption
            <4> QED BY <4>1, <4>2, <4>3 DEF MemInv, OneKeeper
        <3> QED BY <3>1, <3>2
    <2> QED BY <2>1, <2>2 DEF OneKeeper
<1>6. MemInv'
    <2>1. mem' \in MemoryState /\ mem'.faults = {} /\ \A a \in Blocks : mem'.cursors[a] = 0
        BY <1>4 DEF Effect
    <2>2. slot' \in [Objects -> Blocks \cup {NoBlock}]
        BY DEF MemInv
    <2>3. \A p \in Objects : slot'[p] \notin forgotten' /\ (kind'[p] = "none" => slot'[p] = NoBlock)
        BY <1>1, MemoryAssumption DEF MemInv
    <2> QED BY <1>5, <2>1, <2>2, <2>3 DEF MemInv
<1>7. LocksKept
    <2>1. ASSUME NEW p \in Objects, slot[p] # NoBlock, slot'[p] = slot[p]
          PROVE  mem'.locks[slot[p]] = mem.locks[slot[p]]
        <3>1. slot[p] \in Blocks /\ mem.keeper[slot[p]] = "library" /\ slot[p] \notin bs
            BY <1>1, <1>2, <2>1, Kept
        <3> QED BY <1>4, <3>1 DEF Effect
    <2> QED BY <1>4, <2>1 DEF LocksKept, Effect
<1> QED BY <1>6, <1>7

-----------------------------------------------------------------------------
(* The steps of programs that use objects.                                 *)

LEMMA NewStep ==
    ASSUME MemInv, NEW o \in Objects,
           NewList(o) \/ NewNames(o) \/ CompileFormula(o) \/ FormulaOf(o) \/ NewValue(o)
    PROVE  MemInv' /\ LocksKept
<1>1. CASE NewList(o)
    BY <1>1, NewListEffect, BeginKeeps DEF NewList, Kinds
<1>2. CASE NewNames(o)
    BY <1>2, AllocEffect, BeginKeeps DEF NewNames, Kinds
<1>3. CASE CompileFormula(o)
    BY <1>3, AllocEffect, BeginKeeps DEF CompileFormula, Kinds
<1>4. CASE FormulaOf(o)
    BY <1>4, TakeOutEffect, BeginKeeps DEF FormulaOf, Kinds
<1>5. CASE NewValue(o)
    BY <1>5, TakeOutEffect, BeginKeeps DEF NewValue, Kinds
<1> QED BY <1>1, <1>2, <1>3, <1>4, <1>5

LEMMA NewScriptStep ==
    ASSUME MemInv, NEW o \in Objects, NewScript(o)
    PROVE  MemInv' /\ LocksKept
<1>1. PICK input, text \in Unused :
          /\ input # text
          /\ LET formatted == OSMemAlloc(Allocate(mem, input, "take"), text)
             IN  Begin(o, "script", text,
                     Release(Hold(Drop(formatted, input, "take"), text, "take"), text))
    BY DEF NewScript
<1> QED BY <1>1, NewScriptEffect, BeginKeeps DEF Kinds

LEMMA RefuseStep ==
    ASSUME MemInv, NEW own \in Ownership, RefuseValue(own)
    PROVE  MemInv' /\ LocksKept
<1>1. PICK b \in Unused :
          LET left == Drop(Allocate(mem, b, own), b, own)
          IN  own # "take" /\ Method(IF own = "borrow" THEN OSMemFree(left, b) ELSE left)
    BY DEF RefuseValue
<1>2. Effect(mem', {}, "nobody") /\ UNCHANGED <<kind, slot, forgotten>>
    <2>1. CASE own = "borrow"
        BY <1>1, <2>1, RefuseEffect DEF Method
    <2>2. CASE own = "free"
        BY <1>1, <2>2, RefuseEffect DEF Method
    <2> QED BY <1>1, <2>1, <2>2 DEF Ownership
<1> QED BY <1>2, MethodKeepsAll

\* A call that loses the blocks of lost.
LEMMA ForgetStep ==
    ASSUME MemInv, NEW lost \in SUBSET Unused, Effect(mem', lost, "library"),
           forgotten' = forgotten \cup lost, UNCHANGED <<kind, slot>>
    PROVE  MemInv' /\ LocksKept
<1>1. \A b \in lost : b \in Blocks /\ b # NoBlock /\ \A o \in Objects : slot[o] # b
    BY UnusedIsFree
<1>2. OneKeeper'
    <2>1. \A b \in Blocks : mem'.keeper[b] = "library" <=> (b \in lost \/ mem.keeper[b] = "library")
        BY DEF Effect
    <2> QED BY <2>1 DEF MemInv, OneKeeper
<1>3. MemInv'
    BY <1>1, <1>2 DEF MemInv, Effect
<1>4. LocksKept
    <2>1. ASSUME NEW p \in Objects, slot[p] # NoBlock
          PROVE  mem'.locks[slot[p]] = mem.locks[slot[p]]
        BY <1>1, <2>1, Kept DEF Effect
    <2> QED BY <2>1 DEF LocksKept, Effect
<1> QED BY <1>3, <1>4

LEMMA RejectScriptStep ==
    ASSUME MemInv, RejectScript
    PROVE  MemInv' /\ LocksKept
<1>0. PICK input \in Unused, error \in Unused :
          /\ input # error
          /\ \E dest \in SUBSET (Unused \ {input, error}) :
              /\ LET made  == Allocate(mem, input, "take")
                     outs  == [made EXCEPT !.keeper = [b \in Blocks |->
                                  IF b \in dest \cup {error} THEN "library" ELSE @[b]]]
                     clean == Drop(outs, input, "take")
                 IN  mem' = Drop(Hold(clean, error, "take"), error, "take")
              /\ forgotten' = forgotten \cup dest
    BY DEF RejectScript
<1>1. PICK dest \in SUBSET (Unused \ {input, error}) :
          /\ LET made  == Allocate(mem, input, "take")
                 outs  == [made EXCEPT !.keeper = [b \in Blocks |->
                              IF b \in dest \cup {error} THEN "library" ELSE @[b]]]
                 clean == Drop(outs, input, "take")
             IN  mem' = Drop(Hold(clean, error, "take"), error, "take")
          /\ forgotten' = forgotten \cup dest
    BY <1>0
<1>2. Effect(mem', dest, "library") /\ UNCHANGED <<kind, slot>>
    BY <1>0, <1>1, RejectScriptEffect DEF RejectScript
<1> QED BY <1>1, <1>2, ForgetStep

LEMMA RunQueryStep ==
    ASSUME MemInv, RunQuery
    PROVE  MemInv' /\ LocksKept
<1>1. PICK error \in Unused \cup {NoBlock}, explain \in Unused \cup {NoBlock} :
          LET texts == {error, explain} \ {NoBlock}
              left  == [mem EXCEPT !.keeper = [b \in Blocks |->
                           IF b \in texts THEN "library" ELSE @[b]]]
          IN  /\ \/ mem' = left
                 \/ \E table \in Unused \ texts : mem' = OSMemFree(OSMemAlloc(left, table), table)
              /\ forgotten' = forgotten \cup texts
              /\ UNCHANGED <<kind, slot>>
    BY DEF RunQuery
<1> DEFINE texts == {error, explain} \ {NoBlock}
           left  == [mem EXCEPT !.keeper = [b \in Blocks |->
                        IF b \in texts THEN "library" ELSE @[b]]]
<1>2. texts \in SUBSET Unused
    OBVIOUS
<1>3. /\ left \in MemoryState /\ left.faults = {} /\ left.cursors = mem.cursors
      /\ left.locks = mem.locks
      /\ \A b \in Blocks : left.keeper[b] = IF b \in texts THEN "library" ELSE mem.keeper[b]
    BY DEF MemInv, MemoryState, Keepers
<1>4. /\ mem' = left \/ \E table \in Unused \ texts : mem' = OSMemFree(OSMemAlloc(left, table), table)
      /\ forgotten' = forgotten \cup texts
      /\ UNCHANGED <<kind, slot>>
    BY <1>1
<1> HIDE DEF texts, left
<1>5. Effect(left, texts, "library")
    BY <1>3 DEF Effect, MemInv
<1>6. ASSUME NEW table \in Unused \ texts
      PROVE  Effect(OSMemFree(OSMemAlloc(left, table), table), texts, "library")
    <2> DEFINE made == OSMemAlloc(left, table)
               done == OSMemFree(made, table)
    <2>1. table \in Blocks /\ mem.keeper[table] = "nobody" /\ left.cursors[table] = 0
        BY <1>3 DEF Unused, MemInv
    <2>2. Becomes(left, made, table, "library", 0, 0)
        BY <1>3, <2>1, AllocBecomes
    <2> HIDE DEF made
    <2>3. Becomes(made, done, table, "nobody", 0, 0)
        BY <2>1, <2>2, FreeBecomes DEF Becomes
    <2> HIDE DEF done
    <2>4. Becomes(left, done, table, "nobody", 0, 0)
        BY <2>2, <2>3, Twice
    <2>5. Effect(done, texts, "library")
        BY <1>3, <1>5, <1>6, <2>1, <2>4 DEF Effect, Becomes
    <2> QED BY <2>5 DEF made, done
<1> QED BY <1>2, <1>4, <1>5, <1>6, ForgetStep

LEMMA ReadStep ==
    ASSUME MemInv, NEW o \in Objects,
           ReadList(o) \/ ReadNames(o) \/ ReadValue(o) \/ Rewrite(o) \/ AddItemName(o)
    PROVE  MemInv' /\ LocksKept
<1>1. slot[o] # NoBlock
    BY DEF ReadList, ReadNames, ReadValue, Rewrite, AddItemName, Holding
<1>2. Effect(mem', {}, "nobody") /\ UNCHANGED <<kind, slot, forgotten>>
    <2>1. CASE ReadList(o) \/ ReadNames(o) \/ ReadValue(o)
        BY <1>1, <2>1, VisitEffect DEF ReadList, ReadNames, ReadValue, Method
    <2>2. CASE Rewrite(o)
        BY <1>1, <2>2, ReallocEffect DEF Rewrite, Method
    <2>3. CASE AddItemName(o)
        BY <1>1, <2>3, VisitEffect, AddItemNameEffect DEF AddItemName, Method
    <2> QED BY <2>1, <2>2, <2>3
<1> QED BY <1>2, MethodKeepsAll

LEMMA EditStep ==
    ASSUME MemInv, NEW o \in Objects, Edit(o)
    PROVE  MemInv' /\ LocksKept
<1>1. slot[o] # NoBlock /\ mem' = Edited(mem, o) /\ UNCHANGED <<kind, slot, forgotten>>
    BY DEF Edit, Holding, Method
<1>2. /\ mem \in MemoryState /\ slot[o] \in Blocks
      /\ mem.keeper[slot[o]] = "library" /\ mem.cursors[slot[o]] = 0
    BY <1>1, Kept DEF MemInv
<1>3. Effect(mem', {}, "nobody")
    BY <1>1, <1>2, EditedBecomes, NoEffect
<1> QED BY <1>1, <1>3, MethodKeepsAll

LEMMA DecompileStep ==
    ASSUME MemInv, NEW o \in Objects, Decompile(o)
    PROVE  MemInv' /\ LocksKept
<1>1. PICK text \in Unused :
          LET input  == Hold(mem, slot[o], "borrow")
              output == Hold(OSMemAlloc(input, text), text, "take")
          IN  Method(Drop(Drop(output, text, "take"), slot[o], "borrow"))
    BY DEF Decompile
<1>2. slot[o] # NoBlock
    BY DEF Decompile, Holding
<1>3. Effect(mem', {}, "nobody") /\ UNCHANGED <<kind, slot, forgotten>>
    BY <1>1, <1>2, DecompileEffect DEF Method
<1> QED BY <1>3, MethodKeepsAll

LEMMA CloneStep ==
    ASSUME MemInv, NEW o \in Objects, NEW p \in Objects, CloneNames(o, p)
    PROVE  MemInv' /\ LocksKept
<1>1. PICK b \in Unused :
          LET copy == Allocate(Hold(mem, slot[o], "borrow"), b, "take")
          IN  Begin(p, "names", b, Release(Drop(copy, slot[o], "borrow"), b))
    BY DEF CloneNames
<1>2. slot[o] # NoBlock
    BY DEF CloneNames, Holding
<1> QED BY <1>1, <1>2, CloneEffect, BeginKeeps DEF Kinds

LEMMA MoveStep ==
    ASSUME MemInv, NEW o \in Objects, NEW p \in Objects, Move(o, p)
    PROVE  MemInv' /\ LocksKept
<1>1. /\ kind[o] # "none" /\ kind[p] = "none" /\ o # p /\ slot[p] = NoBlock
      /\ kind' = [kind EXCEPT ![p] = kind[o]]
      /\ slot' = [slot EXCEPT ![p] = slot[o], ![o] = NoBlock]
      /\ UNCHANGED <<mem, forgotten>>
    BY DEF Move, MemInv
<1>2. \A q \in Objects :
          slot'[q] = IF q = o THEN NoBlock ELSE IF q = p THEN slot[o] ELSE slot[q]
    BY <1>1 DEF MemInv
<1>3. OneKeeper'
    <2>1. \A q, r \in Objects : q # r /\ slot'[q] # NoBlock => slot'[q] # slot'[r]
        BY <1>1, <1>2 DEF MemInv, OneKeeper
    <2>2. ASSUME NEW b \in Blocks
          PROVE  (\E q \in Objects : slot'[q] = b) <=> \E q \in Objects : slot[q] = b
        BY <1>1, <1>2, MemoryAssumption
    <2> QED BY <1>1, <2>1, <2>2 DEF MemInv, OneKeeper
<1>4. MemInv'
    <2>1. kind' \in [Objects -> Kinds] /\ slot' \in [Objects -> Blocks \cup {NoBlock}]
        BY <1>1 DEF MemInv
    <2>2. \A q \in Objects : slot'[q] \notin forgotten' /\ (kind'[q] = "none" => slot'[q] = NoBlock)
        BY <1>1, <1>2, MemoryAssumption DEF MemInv
    <2> QED BY <1>1, <1>3, <2>1, <2>2 DEF MemInv
<1>5. LocksKept
    BY <1>1 DEF LocksKept, MemInv
<1> QED BY <1>4, <1>5

LEMMA DestroyStep ==
    ASSUME MemInv, NEW o \in Objects, Destroy(o)
    PROVE  MemInv' /\ LocksKept
<1>1. /\ mem' = Destroyed(mem, {o}) /\ UNCHANGED forgotten
      /\ kind' = [kind EXCEPT ![o] = "none"]
      /\ slot' = [slot EXCEPT ![o] = NoBlock]
    BY DEF Destroy
<1>2. /\ slot' = [p \in Objects |-> IF p \in {o} THEN NoBlock ELSE slot[p]]
      /\ kind' \in [Objects -> Kinds]
      /\ \A p \in Objects : kind'[p] = "none" => kind[p] = "none" \/ p \in {o}
    BY <1>1 DEF MemInv, Kinds
<1>3. Effect(mem', {slot[p] : p \in {o}} \ {NoBlock}, "nobody")
    BY <1>1, DestroyedEffect
<1> QED BY <1>1, <1>2, <1>3, GivingUpKeeps

LEMMA DominoStep ==
    ASSUME MemInv, DominoFrees
    PROVE  MemInv' /\ LocksKept
<1>1. PICK b \in Blocks :
          /\ mem.keeper[b] = "domino"
          /\ Method([mem EXCEPT !.keeper[b] = "nobody", !.locks[b] = 0])
    BY DEF DominoFrees
<1>2. Effect(mem', {b}, "nobody") /\ UNCHANGED <<kind, slot, forgotten>>
    BY <1>1, DominoEffect DEF Method
<1> QED BY <1>1, <1>2, MethodKeeps

-----------------------------------------------------------------------------
(* Messages.                                                               *)

NoEntries == [l \in MailLists |-> {}]

\* A message that was given its recipients names those of the object, which can no
\* longer change, and a list of the header is only given away after the recipients.
MailInv ==
    /\ composing \in BOOLEAN /\ entries \in [MailLists -> SUBSET Emails]
    /\ message \in Message /\ transfers \in {0, 1}
    /\ ~composing => entries = NoEntries /\ message = NoMessage /\ transfers = 0
    /\ program # "mail" => ~composing
    /\ composing /\ slot["recipients"] # NoBlock => \A l \in HeaderLists : slot[l] # NoBlock
    /\ message.recipients # {} =>
          slot["recipients"] = NoBlock /\ message.recipients = entries["recipients"]
    /\ transfers > 0 => message.recipients # {}
    /\ entries["recipients"] \subseteq UNION {entries[l] : l \in HeaderLists}
    /\ RecipientsNamed

LEMMA ListNames ==
    /\ "recipients" \in MailLists /\ "recipients" \notin HeaderLists
    /\ HeaderLists \subseteq MailLists /\ MailLists \subseteq Objects
    /\ MailLists \subseteq DOMAIN CallNo
    /\ \A l \in MailLists : CallNo[l] \in 1 .. 4
BY MailAssumption DEF MailLists, HeaderLists, CallNo

LEMMA CreateMem ==
    ASSUME MemInv, Create
    PROVE  MemInv' /\ LocksKept
<1>1. PICK blocks \in [MailLists -> Unused] :
          /\ IsInjective(blocks)
          /\ mem' = [mem EXCEPT !.keeper = [b \in Blocks |->
                        IF \E l \in MailLists : blocks[l] = b THEN "library" ELSE @[b]]]
          /\ kind' = [o \in Objects |-> IF o \in MailLists THEN "list" ELSE kind[o]]
          /\ slot' = [o \in Objects |-> IF o \in MailLists THEN blocks[o] ELSE slot[o]]
    BY DEF Create
<1>2. \A l \in MailLists : kind[l] = "none" /\ slot[l] = NoBlock
    BY ListNames DEF Create, MemInv
<1> DEFINE bs == {blocks[l] : l \in MailLists}
           keeper == [b \in Blocks |-> IF b \in bs THEN "library" ELSE mem.keeper[b]]
<1>3. \A b \in bs : /\ b \in Blocks /\ b # NoBlock /\ mem.keeper[b] = "nobody"
                    /\ b \notin forgotten /\ \A o \in Objects : slot[o] # b
    BY UnusedIsFree
<1>4. mem' = [mem EXCEPT !.keeper = keeper]
    BY <1>1
<1>5. \A k, l \in MailLists : k # l => blocks[k] # blocks[l]
    BY <1>1 DEF IsInjective
<1>6. UNCHANGED forgotten
    BY DEF Create
<1>7. \A o \in Objects : slot'[o] = IF o \in MailLists THEN blocks[o] ELSE slot[o]
    BY <1>1
<1>8. \A l \in MailLists : blocks[l] \in bs
    OBVIOUS
<1>9. \A b \in bs : \E l \in MailLists : blocks[l] = b
    OBVIOUS
<1> HIDE DEF bs
<1>10. Effect(mem', bs, "library")
    <2>1. keeper \in [Blocks -> Keepers]
        BY DEF MemInv, MemoryState, Keepers
    <2>2. \A b \in Blocks : keeper[b] = IF b \in bs THEN "library" ELSE mem.keeper[b]
        OBVIOUS
    <2>3. mem \in MemoryState
        BY DEF MemInv
    <2> HIDE DEF keeper
    <2>4. /\ mem' \in MemoryState /\ mem'.faults = mem.faults /\ mem'.cursors = mem.cursors
          /\ mem'.locks = mem.locks /\ mem'.keeper = keeper
        BY <1>4, <2>1, <2>3 DEF MemoryState
    <2> QED BY <2>2, <2>4 DEF Effect, MemInv
<1> HIDE DEF keeper
<1>11. OneKeeper'
    <2>1. ASSUME NEW o \in Objects, NEW p \in Objects, o # p, slot'[o] # NoBlock
          PROVE  slot'[o] # slot'[p]
        <3>1. CASE o \in MailLists /\ p \in MailLists
            BY <1>5, <1>7, <2>1, <3>1
        <3>2. CASE o \in MailLists /\ p \notin MailLists
            BY <1>3, <1>7, <1>8, <2>1, <3>2
        <3>3. CASE o \notin MailLists /\ p \in MailLists
            BY <1>3, <1>7, <1>8, <2>1, <3>3
        <3>4. CASE o \notin MailLists /\ p \notin MailLists
            BY <1>7, <2>1, <3>4 DEF MemInv, OneKeeper
        <3> QED BY <3>1, <3>2, <3>3, <3>4
    <2>2. ASSUME NEW a \in Blocks
          PROVE  mem'.keeper[a] = "library" <=>
                     (a \in forgotten' \/ \E p \in Objects : slot'[p] = a)
        <3>1. CASE a \in bs
            <4>1. mem'.keeper[a] = "library"
                BY <1>10, <3>1 DEF Effect
            <4>2. PICK l \in MailLists : blocks[l] = a
                BY <1>9, <3>1
            <4> QED BY <1>7, <4>1, <4>2, ListNames
        <3>2. CASE a \notin bs
            <4>1. mem'.keeper[a] = mem.keeper[a]
                BY <1>10, <3>2 DEF Effect
            <4>2. ASSUME NEW p \in Objects
                  PROVE  slot'[p] = a <=> slot[p] = a
                BY <1>2, <1>7, <1>8, <3>2, MemoryAssumption
            <4> QED BY <1>6, <4>1, <4>2 DEF MemInv, OneKeeper
        <3> QED BY <3>1, <3>2
    <2> QED BY <2>1, <2>2 DEF OneKeeper
<1>12. MemInv'
    <2>1. mem' \in MemoryState /\ mem'.faults = {} /\ \A a \in Blocks : mem'.cursors[a] = 0
        BY <1>10 DEF Effect
    <2>2. kind' \in [Objects -> Kinds] /\ slot' \in [Objects -> Blocks \cup {NoBlock}]
        BY <1>1, <1>3, <1>8 DEF MemInv, Kinds
    <2>3. \A p \in Objects : slot'[p] \notin forgotten' /\ (kind'[p] = "none" => slot'[p] = NoBlock)
        BY <1>1, <1>3, <1>6, <1>7, <1>8 DEF MemInv
    <2> QED BY <1>6, <1>11, <2>1, <2>2, <2>3 DEF MemInv
<1>13. LocksKept
    <2>1. ASSUME NEW p \in Objects, slot[p] # NoBlock
          PROVE  mem'.locks[slot[p]] = mem.locks[slot[p]]
        BY <1>3, <1>10, <2>1, Kept DEF Effect
    <2> QED BY <1>10, <2>1 DEF LocksKept, Effect
<1> QED BY <1>12, <1>13

LEMMA DiscardMem ==
    ASSUME MemInv, Discard
    PROVE  MemInv' /\ LocksKept
<1>1. /\ mem' = Destroyed(mem, MailLists) /\ UNCHANGED forgotten
      /\ kind' = [o \in Objects |-> IF o \in MailLists THEN "none" ELSE kind[o]]
      /\ slot' = [o \in Objects |-> IF o \in MailLists THEN NoBlock ELSE slot[o]]
    BY DEF Discard
<1>2. /\ kind' \in [Objects -> Kinds]
      /\ \A o \in Objects : kind'[o] = "none" => kind[o] = "none" \/ o \in MailLists
    BY <1>1 DEF MemInv, Kinds
<1>3. Effect(mem', {slot[o] : o \in MailLists} \ {NoBlock}, "nobody") /\ MailLists \in SUBSET Objects
    BY <1>1, DestroyedEffect, ListNames
<1> QED BY <1>1, <1>2, <1>3, GivingUpKeeps

LEMMA AddMem ==
    ASSUME MemInv, NEW l \in HeaderLists, NEW e \in Emails, AddToList(l, e)
    PROVE  MemInv' /\ LocksKept
<1>1. PICK ls \in {{l}, {l, "recipients"}} : Push(l, e, ls)
    BY DEF AddToList
<1>2. UNCHANGED <<kind, slot, forgotten>> /\ \A k \in ls : slot[k] # NoBlock
    BY <1>1 DEF Push
<1>3. l \in Objects /\ "recipients" \in Objects /\ l # "recipients"
    BY ListNames
<1>4. slot[l] \in Blocks /\ mem.keeper[slot[l]] = "library" /\ mem.cursors[slot[l]] = 0
    BY <1>1, <1>2, <1>3, Kept DEF MemInv
<1>5. mem \in MemoryState
    BY DEF MemInv
<1>6. Becomes(mem, Edited(mem, l), slot[l], "library", mem.locks[slot[l]], 0)
    BY <1>3, <1>4, <1>5, EditedBecomes
<1>7. CASE ls = {l}
    <2>1. mem' = Edited(mem, l)
        BY <1>1, <1>3, <1>7 DEF Push
    <2>2. Effect(mem', {}, "nobody")
        BY <1>4, <1>6, <2>1, NoEffect
    <2> QED BY <1>2, <2>2, MethodKeepsAll
<1>8. CASE ls = {l, "recipients"}
    <2> DEFINE m == Edited(mem, l)
               r == "recipients"
    <2>1. mem' = Edited(m, r)
        BY <1>1, <1>8 DEF Push
    <2>2. slot[r] \in Blocks /\ mem.keeper[slot[r]] = "library" /\ mem.cursors[slot[r]] = 0
        BY <1>2, <1>3, <1>8, Kept DEF MemInv
    <2>3. slot[r] # slot[l]
        BY <1>2, <1>3, <1>8 DEF MemInv, OneKeeper
    <2> HIDE DEF m
    <2>4. /\ m \in MemoryState /\ m.keeper[slot[r]] = "library" /\ m.cursors[slot[r]] = 0
          /\ m.locks[slot[r]] = mem.locks[slot[r]]
        BY <1>6, <2>2, <2>3 DEF m, Becomes
    <2>5. Becomes(m, Edited(m, r), slot[r], "library", mem.locks[slot[r]], 0)
        BY <1>3, <2>2, <2>4, EditedBecomes
    <2>6. Effect(mem', {}, "nobody")
        BY <1>4, <1>6, <2>1, <2>2, <2>3, <2>5 DEF m, Becomes, Effect, MemInv
    <2> QED BY <1>2, <2>6, MethodKeepsAll
<1> QED BY <1>1, <1>7, <1>8

LEMMA SendMem ==
    ASSUME MemInv, MailInv, Send
    PROVE  MemInv' /\ LocksKept
<1>1. PICK n \in 0 .. 10 :
          LET given == Made(n) \cap MailLists
          IN  /\ mem' = GivenAway(mem, given)
              /\ slot' = [o \in Objects |-> IF o \in given THEN NoBlock ELSE slot[o]]
    BY DEF Send
<1> DEFINE given == Made(n) \cap MailLists
<1>2. /\ composing /\ slot["recipients"] # NoBlock /\ UNCHANGED <<kind, forgotten>>
    BY DEF Send
<1>3. given \in SUBSET Objects /\ \A l \in given : slot[l] # NoBlock
    BY <1>2, ListNames DEF MailInv, MailLists
<1>4. /\ mem' = GivenAway(mem, given)
      /\ slot' = [o \in Objects |-> IF o \in given THEN NoBlock ELSE slot[o]]
    BY <1>1
<1> HIDE DEF given
<1>5. Effect(mem', {slot[l] : l \in given}, "domino")
    BY <1>3, <1>4, GivenAwayEffect
<1>6. {slot[l] : l \in given} = {slot[l] : l \in given} \ {NoBlock}
    BY <1>3
<1>7. Effect(mem', {slot[l] : l \in given} \ {NoBlock}, "domino")
    BY <1>5, <1>6
<1>8. kind' \in [Objects -> Kinds] /\ kind' = kind
    BY <1>2 DEF MemInv
<1> QED BY <1>2, <1>3, <1>4, <1>7, <1>8, GivingUpKeeps

-----------------------------------------------------------------------------
(* What the steps of a message keep, and what they are for the recipients. *)

Addressed == IF message.recipients # {} THEN message.recipients ELSE entries["recipients"]
Delivered == IF transfers > 0 THEN message.recipients ELSE {}

\* A step of Delivery.
Promised == [Delivers!Next]_(Delivers!deliveryVars)

LEMMA Promises ==
    /\ Addressed' = Addressed /\ Delivered' = Delivered => Promised
    /\ Addressed' = {} /\ Delivered' = {} => Promised
    /\ Addressed # {} /\ Delivered = {} /\ Delivered' = Addressed /\ Addressed' = Addressed
          => Promised
    /\ \A e \in Emails :
          Delivered = {} /\ Delivered' = {} /\ Addressed' = Addressed \cup {e} => Promised
<1>1. Promised <=> \/ Delivers!Next
                   \/ Addressed' = Addressed /\ Delivered' = Delivered
    BY DEF Promised, Delivers!deliveryVars, Addressed, Delivered
<1> QED BY <1>1 DEF Delivers!Next, Delivers!Deliver, Delivers!Discard, Delivers!Address,
        Addressed, Delivered

LEMMA BlankMail ==
    ASSUME MailInv, ~composing
    PROVE  Addressed = {} /\ Delivered = {} /\ message.recipients = {} /\ entries["recipients"] = {}
BY ListNames DEF MailInv, NoEntries, NoMessage, Addressed, Delivered

\* Until the recipients are given to the message there is nothing in it.
LEMMA Unsent ==
    ASSUME MailInv, slot["recipients"] # NoBlock
    PROVE  /\ message.recipients = {} /\ transfers = 0
           /\ Addressed = entries["recipients"] /\ Delivered = {}
BY DEF MailInv, Addressed, Delivered

LEMMA OtherPrograms ==
    ASSUME MailInv, program # "mail", UNCHANGED <<mailVars, program>>
    PROVE  MailInv' /\ Promised
<1>1. MailInv'
    BY BlankMail DEF MailInv, mailVars, RecipientsNamed
<1>2. Addressed' = Addressed /\ Delivered' = Delivered
    BY DEF mailVars, Addressed, Delivered
<1> QED BY <1>1, <1>2, Promises

LEMMA MailRests ==
    ASSUME MailInv, UNCHANGED <<mailVars, program, slot>>
    PROVE  MailInv' /\ Promised
<1>1. MailInv'
    BY DEF MailInv, mailVars, RecipientsNamed
<1>2. Addressed' = Addressed /\ Delivered' = Delivered
    BY DEF mailVars, Addressed, Delivered
<1> QED BY <1>1, <1>2, Promises

LEMMA NoMessageType == NoMessage \in Message /\ NoEntries \in [MailLists -> SUBSET Emails]
BY DEF NoMessage, Message, NoEntries

\* A new message, or none.
LEMMA BlankStep ==
    ASSUME MailInv, Blank, program = "mail", program' = program, composing' \in BOOLEAN,
           composing' => \A l \in HeaderLists : slot'[l] # NoBlock
    PROVE  MailInv' /\ Addressed' = {} /\ Delivered' = {}
<1>1. entries' = NoEntries /\ message' = NoMessage /\ transfers' = 0
    BY DEF Blank, NoEntries
<1>2. message'.recipients = {} /\ entries'["recipients"] = {}
    BY <1>1, ListNames DEF NoMessage, NoEntries
<1>3. MailInv'
    BY <1>1, <1>2, NoMessageType DEF MailInv, RecipientsNamed
<1> QED BY <1>1, <1>2, <1>3 DEF Addressed, Delivered

LEMMA CreateMail ==
    ASSUME MemInv, MailInv, Create, program = "mail", program' = program
    PROVE  MailInv' /\ Promised
<1>1. PICK blocks \in [MailLists -> Unused] :
          slot' = [o \in Objects |-> IF o \in MailLists THEN blocks[o] ELSE slot[o]]
    BY DEF Create
<1>2. ASSUME NEW l \in HeaderLists PROVE slot'[l] # NoBlock
    <2>1. l \in MailLists /\ l \in Objects
        BY ListNames
    <2>2. blocks[l] \in Unused
        BY <2>1
    <2> QED BY <1>1, <2>1, <2>2, UnusedIsFree
<1>3. MailInv' /\ Addressed' = {} /\ Delivered' = {}
    BY <1>2, BlankStep DEF Create
<1> QED BY <1>3, Promises

LEMMA DiscardMail ==
    ASSUME MailInv, Discard, program = "mail", program' = program
    PROVE  MailInv' /\ Promised
<1>1. MailInv' /\ Addressed' = {} /\ Delivered' = {}
    BY BlankStep DEF Discard
<1> QED BY <1>1, Promises

LEMMA SetBodyMail ==
    ASSUME MailInv, SetBody, program' = program
    PROVE  MailInv' /\ Promised
<1>1. PICK hs \in Itemized(message.headers) : message' = [message EXCEPT !.headers = hs]
    BY DEF SetBody
<1>2. UNCHANGED <<slot, composing, entries, transfers>> /\ composing
    BY DEF SetBody, memoryVars
<1>3. hs \subseteq Headers
    BY DEF Itemized, MailInv, Message, Headers
<1>4. /\ message' \in Message /\ message'.recipients = message.recipients
      /\ message'.lists = message.lists
    BY <1>1, <1>3 DEF MailInv, Message
<1>5. MailInv'
    BY <1>2, <1>4 DEF MailInv, RecipientsNamed
<1>6. Addressed' = Addressed /\ Delivered' = Delivered
    BY <1>2, <1>4 DEF Addressed, Delivered
<1> QED BY <1>5, <1>6, Promises

LEMMA AddMail ==
    ASSUME MailInv, NEW l \in HeaderLists, NEW e \in Emails, AddToList(l, e), program' = program
    PROVE  MailInv' /\ Promised
<1>1. PICK ls \in {{l}, {l, "recipients"}} : Push(l, e, ls)
    BY DEF AddToList
<1>2. /\ UNCHANGED <<slot, composing, message, transfers>> /\ composing
      /\ \A k \in ls : slot[k] # NoBlock
      /\ entries' = [k \in MailLists |-> IF k \in ls THEN entries[k] \cup {e} ELSE entries[k]]
    BY <1>1 DEF Push
<1>3. \A k \in MailLists : entries'[k] = IF k \in ls THEN entries[k] \cup {e} ELSE entries[k]
    BY <1>2
<1>4. l \in MailLists /\ l # "recipients" /\ "recipients" \in MailLists
    BY ListNames
<1>5. entries' \in [MailLists -> SUBSET Emails]
    BY <1>2 DEF MailInv
<1>6. entries'["recipients"] \subseteq UNION {entries'[k] : k \in HeaderLists}
    <2>1. \A k \in HeaderLists : entries[k] \subseteq entries'[k]
        BY <1>3, ListNames
    <2>2. UNION {entries[k] : k \in HeaderLists} \subseteq UNION {entries'[k] : k \in HeaderLists}
        BY <2>1
    <2>3. e \in UNION {entries'[k] : k \in HeaderLists}
        <3>1. entries'[l] = entries[l] \cup {e}
            BY <1>1, <1>3, <1>4
        <3> QED BY <3>1
    <2>4. entries'["recipients"] \subseteq entries["recipients"] \cup {e}
        BY <1>3, <1>4
    <2> QED BY <2>2, <2>3, <2>4 DEF MailInv
<1>7. CASE ls = {l}
    <2>1. entries'["recipients"] = entries["recipients"]
        BY <1>3, <1>4, <1>7
    <2>2. /\ composing' = composing /\ composing /\ message' = message /\ slot' = slot
          /\ transfers' = transfers /\ program' = program
        BY <1>2
    <2>3. MailInv'
        <3>1. RecipientsNamed'
            BY <2>2 DEF MailInv, RecipientsNamed
        <3> QED BY <1>5, <1>6, <2>1, <2>2, <3>1 DEF MailInv
    <2>4. Addressed' = Addressed /\ Delivered' = Delivered
        BY <1>2, <2>1 DEF Addressed, Delivered
    <2> QED BY <2>3, <2>4, Promises
<1>8. CASE ls = {l, "recipients"}
    <2>1. entries'["recipients"] = entries["recipients"] \cup {e}
        BY <1>3, <1>4, <1>8
    <2>2. message.recipients = {} /\ transfers = 0
        BY <1>2, <1>8, Unsent
    <2>3. /\ composing' = composing /\ composing /\ message' = message /\ slot' = slot
          /\ transfers' = transfers /\ program' = program
        BY <1>2
    <2>4. MailInv'
        <3>1. RecipientsNamed'
            BY <2>2, <2>3 DEF RecipientsNamed
        <3> QED BY <1>5, <1>6, <2>2, <2>3, <3>1 DEF MailInv
    <2>5. Delivered = {} /\ Delivered' = {} /\ Addressed' = Addressed \cup {e}
        BY <1>2, <2>1, <2>2 DEF Addressed, Delivered
    <2> QED BY <2>4, <2>5, Promises
<1> QED BY <1>1, <1>7, <1>8

\* The calls of send() in their order: the recipients first, the transfer last, and
\* in between every list of the header that has an address.
LEMMA CallsMade ==
    ASSUME NEW n \in 0 .. 10
    PROVE  /\ "recipients" \in Made(n) <=> n # 0
           /\ "transfer" \in Made(n) <=> n = 10
           /\ n = 0 => Made(n) = {}
           /\ n = 10 => \A l \in HeaderLists : entries[l] # {} => l \in Made(n)
<1>1. /\ CallNo["recipients"] = 1 /\ CallNo["transfer"] = 10
      /\ "recipients" \in DOMAIN CallNo /\ "transfer" \in DOMAIN CallNo
      /\ "recipients" \notin HeaderLists /\ "transfer" \notin HeaderLists
      /\ \A c \in DOMAIN CallNo : CallNo[c] \in 1 .. 10
      /\ HeaderLists \subseteq DOMAIN CallNo
    BY DEF CallNo, HeaderLists
<1> QED BY <1>1 DEF Made

LEMMA SendMail ==
    ASSUME MailInv, Send, program' = program
    PROVE  MailInv' /\ Promised
<1>1. PICK n \in 0 .. 10 :
          LET done  == Made(n)
              given == done \cap MailLists
          IN  /\ slot' = [o \in Objects |-> IF o \in given THEN NoBlock ELSE slot[o]]
              /\ message' = Filled(done)
              /\ transfers' = transfers + (IF "transfer" \in done THEN 1 ELSE 0)
    BY DEF Send
<1> DEFINE done == Made(n)
<1>2. /\ composing /\ slot["recipients"] # NoBlock /\ entries["recipients"] # {}
      /\ UNCHANGED <<composing, entries>>
    BY DEF Send
<1>3. /\ message.recipients = {} /\ transfers = 0
      /\ Addressed = entries["recipients"] /\ Delivered = {}
    BY <1>2, Unsent
<1>4. /\ "recipients" \in done <=> n # 0
      /\ "transfer" \in done <=> n = 10
      /\ n = 0 => done = {}
      /\ n = 10 => \A l \in HeaderLists : entries[l] # {} => l \in done
    BY CallsMade
<1>5. /\ message' = Filled(done)
      /\ transfers' = IF n = 10 THEN 1 ELSE 0
      /\ \A l \in MailLists : slot'[l] = IF l \in done THEN NoBlock ELSE slot[l]
    BY <1>1, <1>3, <1>4, ListNames
<1> HIDE DEF done
<1>6. /\ message' \in Message
      /\ message'.recipients = IF n # 0 THEN entries["recipients"] ELSE {}
      /\ \A l \in HeaderLists :
            message'.lists[l] = IF l \in done THEN entries[l] ELSE message.lists[l]
    BY <1>3, <1>4, <1>5, ListNames DEF Filled, Message, MailInv
<1>7. slot'["recipients"] # NoBlock => n = 0 /\ \A l \in HeaderLists : slot'[l] = slot[l]
    BY <1>4, <1>5, ListNames
<1>8. RecipientsNamed'
    <2>1. ASSUME n = 10, NEW e \in entries["recipients"]
          PROVE  \E l \in HeaderLists : e \in message'.lists[l]
        <3>1. PICK l \in HeaderLists : e \in entries[l]
            BY <2>1 DEF MailInv
        <3>2. l \in done
            BY <1>4, <2>1, <3>1
        <3> QED BY <1>6, <3>1, <3>2
    <2> QED BY <1>5, <1>6, <2>1 DEF RecipientsNamed
<1>9. MailInv'
    BY <1>2, <1>5, <1>6, <1>7, <1>8, ListNames DEF MailInv
<1>10. Promised
    <2>1. Addressed' = Addressed
        BY <1>2, <1>3, <1>6 DEF Addressed
    <2>2. CASE n = 10
        <3>1. Delivered' = Addressed /\ Addressed # {}
            BY <1>2, <1>3, <1>5, <1>6, <2>2 DEF Delivered
        <3> QED BY <1>3, <2>1, <3>1, Promises
    <2>3. CASE n # 10
        <3>1. Delivered' = Delivered
            BY <1>3, <1>5, <2>3 DEF Delivered
        <3> QED BY <2>1, <3>1, Promises
    <2> QED BY <2>2, <2>3
<1> QED BY <1>9, <1>10

-----------------------------------------------------------------------------
(* Agents.                                                                 *)

AgentInv ==
    /\ design \in Design \cup {NoDesign} /\ stored \in Design \cup {NoDesign}
    /\ allocated \subseteq Rrvs
    /\ RunInfoKept /\ ScriptsCompiled

LEMMA MemRests ==
    ASSUME MemInv, UNCHANGED memoryVars
    PROVE  MemInv' /\ LocksKept
<1>1. MemInv'
    BY DEF MemInv, OneKeeper, memoryVars
<1>2. LocksKept
    BY DEF MemInv, LocksKept, memoryVars
<1> QED BY <1>1, <1>2

LEMMA AgentRests ==
    ASSUME AgentInv, UNCHANGED agentVars
    PROVE  AgentInv'
BY DEF AgentInv, agentVars, RunInfoKept, ScriptsCompiled

\* Only an agent whose object has been written refers to it.
LEMMA CreateAgentStep ==
    ASSUME MemInv, AgentInv, CreateAgent
    PROVE  MemInv' /\ LocksKept /\ AgentInv'
<1>1. PICK b \in Unused, c \in Unused, r \in Rrvs \ allocated, n \in 0 .. 3 :
          /\ b # c
          /\ mem' = RunInfoMemory(WithValue(mem, b), b, c, n)
          /\ IF n < 3 THEN UNCHANGED <<design, allocated>>
             ELSE /\ design' = [action |-> Nothing, type |-> Nothing,
                                compiled |-> Nothing, runInfo |-> r]
                  /\ allocated' = allocated \cup {r}
    BY DEF CreateAgent
<1>2. UNCHANGED <<kind, slot, forgotten, stored>>
    BY DEF CreateAgent
<1>3. PICK bs \in SUBSET Unused : Effect(mem', bs, "domino")
    BY <1>1, RunInfoEffect
<1>4. MemInv' /\ LocksKept
    <2>1. bs \in SUBSET Blocks /\ \A b1 \in bs : mem.keeper[b1] # "library"
        BY <1>3 DEF Unused
    <2> QED BY <1>2, <1>3, <2>1, MethodKeeps
<1>5. AgentInv'
    <2>1. CASE n < 3
        BY <1>1, <1>2, <2>1 DEF AgentInv, RunInfoKept, ScriptsCompiled
    <2>2. CASE ~(n < 3)
        <3>1. /\ design' = [action |-> Nothing, type |-> Nothing,
                            compiled |-> Nothing, runInfo |-> r]
              /\ allocated' = allocated \cup {r} /\ stored' = stored
            BY <1>1, <1>2, <2>2
        <3>2. design' \in Design /\ design'.runInfo = r
            BY <3>1 DEF Design
        <3> QED BY <3>1, <3>2 DEF AgentInv, RunInfoKept, ScriptsCompiled
    <2> QED BY <2>1, <2>2
<1> QED BY <1>4, <1>5

LEMMA SetCodeStep ==
    ASSUME MemInv, AgentInv, NEW o \in Objects, NEW code \in Codes, SetCode(o, code)
    PROVE  MemInv' /\ LocksKept /\ AgentInv'
<1>1. /\ design # NoDesign /\ slot[o] # NoBlock
      /\ slot' = [slot EXCEPT ![o] = NoBlock]
      /\ UNCHANGED <<kind, forgotten, stored, allocated>>
    BY DEF SetCode
<1>2. PICK b \in Unused : mem' = CodeMemory(mem, b, slot[o])
    BY DEF SetCode
<1>3. PICK n \in 0 .. 3 :
          design' = [design EXCEPT !.action = IF n >= 1 THEN code ELSE @,
                                   !.type = IF n >= 2 THEN Language(code) ELSE @]
    BY DEF SetCode
<1>4. MemInv' /\ LocksKept
    <2>1. Effect(mem', {slot[o]}, "nobody")
        BY <1>1, <1>2, CodeEffect
    <2>2. {slot[p] : p \in {o}} \ {NoBlock} = {slot[o]}
        BY <1>1
    <2>3. slot' = [p \in Objects |-> IF p \in {o} THEN NoBlock ELSE slot[p]]
        BY <1>1 DEF MemInv
    <2>4. Effect(mem', {slot[p] : p \in {o}} \ {NoBlock}, "nobody")
        BY <2>1, <2>2
    <2>5. kind' \in [Objects -> Kinds] /\ kind' = kind
        BY <1>1 DEF MemInv
    <2> QED BY <1>1, <2>3, <2>4, <2>5, GivingUpKeeps
<1>5. AgentInv'
    <2>1. design \in Design /\ Language(code) \in Languages
        BY <1>1 DEF AgentInv, Language, Languages
    <2>2. design' \in Design /\ design'.runInfo = design.runInfo
        BY <1>3, <2>1 DEF Design
    <2> QED BY <1>1, <2>2 DEF AgentInv, RunInfoKept, ScriptsCompiled
<1> QED BY <1>4, <1>5

\* What is stored as LotusScript was compiled in the same call.
LEMMA SaveAgentStep ==
    ASSUME MemInv, AgentInv, SaveAgent
    PROVE  MemInv' /\ LocksKept /\ AgentInv'
<1>1. /\ design # NoDesign /\ stored' \in {stored, design'}
      /\ UNCHANGED <<memoryVars, allocated>>
    BY DEF SaveAgent
<1>2. design \in Design
    BY <1>1 DEF AgentInv
<1>3. /\ design' \in Design /\ design'.runInfo = design.runInfo
      /\ design'.type = "lotusscript" => design'.compiled = design'.action
    <2>1. CASE design.type # "lotusscript" /\ design' = design
        BY <1>2, <2>1
    <2>2. CASE design.action \in Scripts /\ design' = Compiled(design)
        BY <1>2, <2>2 DEF Compiled, Design
    <2> QED BY <2>1, <2>2 DEF SaveAgent
<1>4. AgentInv'
    BY <1>1, <1>3 DEF AgentInv, RunInfoKept, ScriptsCompiled
<1> QED BY <1>1, <1>4, MemRests

LEMMA DropAgentStep ==
    ASSUME MemInv, AgentInv, DropAgent
    PROVE  MemInv' /\ LocksKept /\ AgentInv'
<1>1. design' = NoDesign /\ UNCHANGED <<memoryVars, stored, allocated>>
    BY DEF DropAgent
<1>2. AgentInv'
    BY <1>1 DEF AgentInv, RunInfoKept, ScriptsCompiled
<1> QED BY <1>1, <1>2, MemRests

LEMMA RunAgentStep ==
    ASSUME MemInv, AgentInv, RunAgent
    PROVE  MemInv' /\ LocksKept /\ AgentInv'
<1>1. PICK b \in Unused :
          LET output == TakenOver(OSMemAlloc(mem, b), b)
              read   == Visit(output, b)
          IN  mem' = [read EXCEPT !.keeper[b] = "nobody", !.locks[b] = 0]
    BY DEF RunAgent
<1>2. UNCHANGED <<kind, slot, forgotten, agentVars>>
    BY DEF RunAgent
<1>3. Effect(mem', {}, "nobody")
    BY <1>1, RunEffect
<1> QED BY <1>2, <1>3, MethodKeepsAll, AgentRests

-----------------------------------------------------------------------------
(* The programs.                                                           *)

IInv == MemInv /\ MailInv /\ AgentInv

LEMMA InitIInv == ProgramsInit => IInv /\ Delivers!Init
<1> SUFFICES ASSUME ProgramsInit PROVE IInv /\ Delivers!Init
    OBVIOUS
<1>1. MemInv
    <2>1. /\ mem = [keeper |-> [b \in Blocks |-> "nobody"], locks |-> [b \in Blocks |-> 0],
                    cursors |-> [b \in Blocks |-> 0], faults |-> {}]
          /\ kind = [o \in Objects |-> "none"] /\ slot = [o \in Objects |-> NoBlock]
          /\ forgotten = {}
        BY DEF ProgramsInit, Init
    <2>2. mem \in MemoryState
        BY <2>1 DEF MemoryState, Keepers
    <2>3. OneKeeper
        BY <2>1, MemoryAssumption DEF OneKeeper
    <2> QED BY <2>1, <2>2, <2>3 DEF MemInv, Kinds
<1>2. ~composing /\ entries = NoEntries /\ message = NoMessage /\ transfers = 0
    BY DEF ProgramsInit, MailInit, NoEntries
<1>3. message.recipients = {} /\ entries["recipients"] = {}
    BY <1>2, ListNames DEF NoMessage, NoEntries
<1>4. MailInv
    <2>1. composing \in BOOLEAN
        BY DEF ProgramsInit, MailInit
    <2> QED BY <1>2, <1>3, <2>1, NoMessageType DEF MailInv, RecipientsNamed
<1>5. AgentInv
    BY DEF ProgramsInit, AgentInit, AgentInv, RunInfoKept, ScriptsCompiled
<1>6. Delivers!Init
    BY <1>2, <1>3 DEF Delivers!Init
<1> QED BY <1>1, <1>4, <1>5, <1>6 DEF IInv

LEMMA UseObjectsStep ==
    ASSUME IInv, UseObjects
    PROVE  IInv' /\ LocksKept /\ Promised
<1>1. program # "mail" /\ UNCHANGED <<mailVars, agentVars, program>>
    BY DEF UseObjects
<1>2. MemInv' /\ LocksKept
    <2>1. ASSUME NEW o \in Variables, ObjectStep(o)
          PROVE  MemInv' /\ LocksKept
        BY <2>1, NewStep, NewScriptStep, ReadStep, EditStep, DecompileStep, DestroyStep
            DEF ObjectStep, IInv, Variables
    <2>2. ASSUME NEW o \in Variables, NEW p \in Variables, CloneNames(o, p) \/ Move(o, p)
          PROVE  MemInv' /\ LocksKept
        BY <2>2, CloneStep, MoveStep DEF IInv, Variables
    <2> QED BY <2>1, <2>2, RefuseStep, RejectScriptStep, RunQueryStep DEF UseObjects, IInv
<1>3. MailInv' /\ Promised
    BY <1>1, OtherPrograms DEF IInv
<1> QED BY <1>1, <1>2, <1>3, AgentRests DEF IInv

LEMMA WriteMailStep ==
    ASSUME IInv, WriteMail
    PROVE  IInv' /\ LocksKept /\ Promised
<1>1. program = "mail" /\ MailNext /\ UNCHANGED <<agentVars, program>>
    BY DEF WriteMail
<1>2. MemInv' /\ LocksKept
    <2>1. CASE SetBody
        <3>1. UNCHANGED memoryVars
            BY <2>1 DEF SetBody
        <3> QED BY <3>1, MemRests DEF IInv
    <2> QED BY <1>1, <2>1, CreateMem, DiscardMem, AddMem, SendMem DEF MailNext, IInv
<1>3. MailInv' /\ Promised
    BY <1>1, CreateMail, DiscardMail, SetBodyMail, AddMail, SendMail DEF MailNext, IInv
<1> QED BY <1>1, <1>2, <1>3, AgentRests DEF IInv

LEMMA BuildAgentStep ==
    ASSUME IInv, BuildAgent
    PROVE  IInv' /\ LocksKept /\ Promised
<1>1. program # "mail" /\ UNCHANGED <<mailVars, program>>
    BY DEF BuildAgent
<1>2. MemInv' /\ LocksKept /\ AgentInv'
    <2>1. CASE AgentNext
        BY <2>1, CreateAgentStep, SaveAgentStep, DropAgentStep, RunAgentStep, SetCodeStep
            DEF AgentNext, IInv
    <2>2. ASSUME NEW o \in Variables, UNCHANGED agentVars,
                 CompileFormula(o) \/ FormulaOf(o) \/ NewScript(o) \/ Destroy(o)
          PROVE  MemInv' /\ LocksKept /\ AgentInv'
        BY <2>2, NewStep, NewScriptStep, DestroyStep, AgentRests DEF IInv, Variables
    <2> QED BY <2>1, <2>2 DEF BuildAgent
<1>3. MailInv' /\ Promised
    BY <1>1, OtherPrograms DEF IInv
<1> QED BY <1>2, <1>3 DEF IInv

LEMMA NextStep ==
    ASSUME IInv, [Next]_vars
    PROVE  IInv' /\ LocksKept /\ Promised
<1>1. CASE Domino
    <2>1. UNCHANGED <<mailVars, agentVars, program>> /\ DominoFrees
        BY <1>1 DEF Domino
    <2>2. UNCHANGED slot
        BY <2>1 DEF DominoFrees, Method
    <2> QED BY <2>1, <2>2, DominoStep, MailRests, AgentRests DEF IInv
<1>2. CASE UNCHANGED vars
    <2>1. UNCHANGED memoryVars /\ UNCHANGED mailVars /\ UNCHANGED agentVars /\ UNCHANGED program
        BY <1>2 DEF vars
    <2>2. UNCHANGED slot
        BY <2>1 DEF memoryVars
    <2> QED BY <2>1, <2>2, MemRests, MailRests, AgentRests DEF IInv
<1> QED BY <1>1, <1>2, UseObjectsStep, WriteMailStep, BuildAgentStep DEF Next

\* The inductive invariant holds in every state of every program.
THEOREM Inductive == Spec => []IInv
<1>1. ProgramsInit => IInv
    BY InitIInv
<1>2. IInv /\ [Next]_vars => IInv'
    BY NextStep
<1> QED BY <1>1, <1>2, PTL DEF Spec

\* Every variable keeps its type.
THEOREM TypeCorrect == Spec => []TypeOK
<1>1. IInv => TypeOK
    BY DEF IInv, MemInv, MailInv, AgentInv, TypeOK
<1> QED BY <1>1, Inductive, PTL

\* No sequence of calls misuses a block (locker, list, formula, value, names, mail, agent).
THEOREM NoBlockMisused == Spec => []NoMisuse
<1>1. IInv => NoMisuse
    BY DEF IInv, MemInv, NoMisuse
<1> QED BY <1>1, Inductive, PTL

\* A block has one keeper (the destructors, release() and the calls that take blocks over).
THEOREM BlocksHaveOneKeeper == Spec => []OneKeeper
<1>1. IInv => OneKeeper
    BY DEF IInv, MemInv
<1> QED BY <1>1, Inductive, PTL

\* A program of messages has no objects but the lists of its mail object.
MailObjects ==
    program = "mail" => \A o \in Objects : kind[o] # "none" => composing /\ o \in MailLists

\* Messages and agents forget no block.
NoneForgotten == program # "objects" => forgotten = {}

LEMMA MailObjectsStep ==
    ASSUME MailObjects, [Next]_vars
    PROVE  MailObjects'
<1> SUFFICES ASSUME program' = "mail", NEW o \in Objects, kind'[o] # "none"
             PROVE  composing' /\ o \in MailLists
    BY DEF MailObjects
<1>1. program = "mail" /\ (WriteMail \/ Domino \/ UNCHANGED vars)
    BY DEF Next, UseObjects, BuildAgent, WriteMail, Domino, vars
<1>2. kind[o] # "none" => composing /\ o \in MailLists
    BY <1>1 DEF MailObjects
<1>3. CASE Domino \/ UNCHANGED vars
    <2>1. CASE Domino
        BY <1>2, <2>1 DEF Domino, DominoFrees, Method, mailVars
    <2>2. CASE UNCHANGED vars
        <3>1. UNCHANGED memoryVars /\ UNCHANGED mailVars
            BY <2>2 DEF vars
        <3> QED BY <1>2, <3>1 DEF memoryVars, mailVars
    <2> QED BY <1>3, <2>1, <2>2
<1>4. CASE WriteMail
    <2>1. CASE Create
        BY <1>2, <2>1 DEF Create
    <2>2. CASE Discard
        BY <1>2, <2>2 DEF Discard
    <2>3. CASE \/ SetBody \/ Send \/ \E l \in HeaderLists, e \in Emails : AddToList(l, e)
        BY <1>2, <2>3 DEF SetBody, Send, AddToList, Push, memoryVars
    <2> QED BY <1>4, <2>1, <2>2, <2>3 DEF WriteMail, MailNext
<1> QED BY <1>1, <1>3, <1>4

LEMMA NoneForgottenStep ==
    ASSUME NoneForgotten, [Next]_vars
    PROVE  NoneForgotten'
<1>1. ASSUME WriteMail
      PROVE  program' = program /\ forgotten' = forgotten
    <2>1. ASSUME Send \/ Discard \/ Create
          PROVE  forgotten' = forgotten
        BY <2>1 DEF Send, Discard, Create
    <2>2. ASSUME NEW l, NEW e, AddToList(l, e)
          PROVE  forgotten' = forgotten
        BY <2>2 DEF AddToList, Push
    <2>3. ASSUME SetBody
          PROVE  forgotten' = forgotten
        BY <2>3 DEF SetBody, memoryVars
    <2> QED BY <1>1, <2>1, <2>2, <2>3 DEF WriteMail, MailNext
<1>2. ASSUME BuildAgent
      PROVE  program' = program /\ forgotten' = forgotten
    <2>1. ASSUME CreateAgent \/ RunAgent
          PROVE  forgotten' = forgotten
        BY <2>1 DEF CreateAgent, RunAgent
    <2>2. ASSUME NEW o, NEW c, SetCode(o, c)
          PROVE  forgotten' = forgotten
        BY <2>2 DEF SetCode
    <2>3. ASSUME SaveAgent \/ DropAgent
          PROVE  forgotten' = forgotten
        BY <2>3 DEF SaveAgent, DropAgent, memoryVars
    <2>4. ASSUME NEW o, CompileFormula(o) \/ FormulaOf(o) \/ NewScript(o) \/ Destroy(o)
          PROVE  forgotten' = forgotten
        BY <2>4 DEF CompileFormula, FormulaOf, NewScript, Destroy, Begin
    <2> QED BY <1>2, <2>1, <2>2, <2>3, <2>4 DEF BuildAgent, AgentNext
<1>3. ASSUME Domino \/ UNCHANGED vars
      PROVE  program' = program /\ forgotten' = forgotten
    <2>1. CASE Domino
        BY <2>1 DEF Domino, DominoFrees, Method
    <2>2. CASE UNCHANGED vars
        <3>1. UNCHANGED memoryVars /\ program' = program
            BY <2>2 DEF vars
        <3> QED BY <3>1 DEF memoryVars
    <2> QED BY <1>3, <2>1, <2>2
<1>4. ASSUME UseObjects
      PROVE  program' = "objects"
    BY <1>4 DEF UseObjects
<1> QED BY <1>1, <1>2, <1>3, <1>4 DEF Next, NoneForgotten

\* A program without objects owes the C API nothing but what was forgotten; messages and
\* agents forget nothing; and a mail object that is gone has left no memory behind,
\* whichever calls of add_*() and send() have failed before.
LeavesNothing ==
    /\ (\A o \in Objects : kind[o] = "none") =>
           \A b \in Blocks : mem.keeper[b] = "library" => b \in forgotten
    /\ program # "objects" => forgotten = {}
    /\ program = "mail" /\ ~composing => \A b \in Blocks : mem.keeper[b] # "library"

\* The destructors free whatever the library was given (~scoped_handle(), ~locker()), but
\* for the texts of queries and of rejected scripts.
THEOREM NothingLeftBehind == Spec => []LeavesNothing
<1>1. MemInv /\ MailObjects /\ NoneForgotten => LeavesNothing
    <2> SUFFICES ASSUME MemInv, MailObjects, NoneForgotten PROVE LeavesNothing
        OBVIOUS
    <2>1. ASSUME \A o \in Objects : kind[o] = "none", NEW b \in Blocks, mem.keeper[b] = "library"
          PROVE  b \in forgotten
        BY <2>1, MemoryAssumption DEF MemInv, OneKeeper
    <2>2. program = "mail" /\ ~composing => \A o \in Objects : kind[o] = "none"
        BY DEF MailObjects
    <2> QED BY <2>1, <2>2 DEF LeavesNothing, NoneForgotten
<1>2. ProgramsInit => MailObjects /\ NoneForgotten
    BY DEF ProgramsInit, Init, MailObjects, NoneForgotten
<1>3. IInv => MemInv
    BY DEF IInv
<1> QED BY <1>1, <1>2, <1>3, MailObjectsStep, NoneForgottenStep, Inductive, PTL DEF Spec

\* Whatever path a call returns by, it leaves the locks as they were (locker::~locker()).
THEOREM CallsReturnLocks == Spec => LocksReturned
<1>1. IInv /\ [Next]_vars =>
          [/\ \A b \in Blocks : mem'.cursors[b] = 0
           /\ \A o \in Objects : slot[o] # NoBlock /\ slot'[o] = slot[o] =>
                 mem'.locks[slot[o]] = mem.locks[slot[o]]]_vars
    BY NextStep DEF LocksKept
<1> QED BY <1>1, Inductive, PTL DEF Spec, LocksReturned

\* mail::send() delivers to all recipients or to nobody, once, whatever fails.
THEOREM MailIsDelivery == Spec => ImplementsDelivery
<1>1. ProgramsInit => Delivers!Init
    BY InitIInv
<1>2. IInv /\ [Next]_vars => [Delivers!Next]_(Delivers!deliveryVars)
    BY NextStep DEF Promised
<1> QED BY <1>1, <1>2, Inductive, PTL DEF Spec, ImplementsDelivery, Delivers!Spec

\* The header of a transferred message names its recipients (mail::add_to_list()).
THEOREM RecipientsAreNamed == Spec => []RecipientsNamed
<1>1. IInv => RecipientsNamed
    BY DEF IInv, MailInv
<1> QED BY <1>1, Inductive, PTL

\* No note refers to an object that was freed (agent::set_run_info()).
THEOREM RunInfoExists == Spec => []RunInfoKept
<1>1. IInv => RunInfoKept
    BY DEF IInv, AgentInv
<1> QED BY <1>1, Inductive, PTL

\* Stored LotusScript is compiled from its own source (agent::save()).
THEOREM ScriptsAreCompiled == Spec => []ScriptsCompiled
<1>1. IInv => ScriptsCompiled
    BY DEF IInv, AgentInv
<1> QED BY <1>1, Inductive, PTL

=============================================================================
