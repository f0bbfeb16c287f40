------------------------------- MODULE Memory -------------------------------
(***************************************************************************)
(* The memory that dmn-cpp shares with the Domino C API.  A block is a     *)
(* handle of OSMemAlloc (a pool).  The library reaches its bytes through   *)
(* dmn::detail::locker (src/detail/locker.cpp), a cursor that locks the    *)
(* block while it lives and may own it, and keeps blocks in objects:       *)
(* lists, names lists, formulas, scripts and values.                       *)
(*                                                                         *)
(* A call of the library is one action.  Its effect on the memory is the   *)
(* composition, in program order, of the calls it makes: the operators     *)
(* below take the memory m before a call and give the memory after it.     *)
(* What the C API would punish is collected in faults.                     *)
(***************************************************************************)
EXTENDS Naturals

CONSTANTS
    Blocks,     \* handles that OSMemAlloc can return
    Objects,    \* storage for library objects that hold a block
    NoBlock     \* the null handle

ASSUME MemoryAssumption == NoBlock \notin Blocks

VARIABLES
    mem,        \* the memory, see Memory below
    kind,       \* kind[o]: class of the object that lives in o, or "none"
    slot,       \* slot[o]: hdl_ of that object, NoBlock when null or given away
    forgotten   \* blocks that the library got from the C API and lost

memoryVars == <<mem, kind, slot, forgotten>>

Keepers == {"nobody", "library", "domino"}  \* who has to free a block
Kinds == {"none", "list", "names", "formula", "script", "value"}
Faults == {"locked after free", "unlocked too often", "freed by another",
           "moved under a cursor", "given away by another"}

MemoryState ==
    [keeper : [Blocks -> Keepers],    \* "nobody": the block is free
     locks : [Blocks -> Nat],         \* the lock count of the C API
     cursors : [Blocks -> Nat],       \* the living lockers that point into it
     faults : SUBSET Faults]

Unused == {b \in Blocks : mem.keeper[b] = "nobody"}

-----------------------------------------------------------------------------
(* The C API.                                                              *)

Fault(m, f) == [m EXCEPT !.faults = @ \cup {f}]

OSMemAlloc(m, b) == [m EXCEPT !.keeper[b] = "library", !.locks[b] = 0]

OSLock(m, b) ==
    IF m.keeper[b] = "nobody" THEN Fault(m, "locked after free")
    ELSE [m EXCEPT !.locks[b] = @ + 1]

OSUnlock(m, b) ==
    IF m.locks[b] = 0 THEN Fault(m, "unlocked too often")
    ELSE [m EXCEPT !.locks[b] = @ - 1]

\* A locked block may be freed, a block that a locker still points into not.
OSMemFree(m, b) ==
    IF m.keeper[b] # "library" THEN Fault(m, "freed by another")
    ELSE IF m.cursors[b] > 0 THEN Fault(m, "moved under a cursor")
    ELSE [m EXCEPT !.keeper[b] = "nobody", !.locks[b] = 0]

\* The block may be moved: also what ListAddEntry, ListRemoveEntry and
\* NSFFormulaMerge do to their target.
OSMemRealloc(m, b) ==
    IF m.keeper[b] # "library" THEN Fault(m, "freed by another")
    ELSE IF m.cursors[b] > 0 THEN Fault(m, "moved under a cursor")
    ELSE m

\* The C API takes the block over: it will free it when it wants to.
TakenOver(m, b) ==
    IF m.keeper[b] # "library" THEN Fault(m, "given away by another")
    ELSE [m EXCEPT !.keeper[b] = "domino"]

-----------------------------------------------------------------------------
(* dmn::detail::locker.                                                    *)

Ownership == {"take", "borrow", "free"}

\* The constructor: own = "free" does not lock.
Hold(m, b, own) ==
    LET locked == IF own = "free" THEN m ELSE OSLock(m, b)
    IN  [locked EXCEPT !.cursors[b] = @ + 1]

\* Defect: a borrowed block is not unlocked.
DropLocked(m, b, own) ==
    LET gone == [m EXCEPT !.cursors[b] = @ - 1]
    IN  IF own = "borrow" THEN gone ELSE OSMemFree(OSUnlock(gone, b), b)

\* The destructor, which runs the clean-up function of the locker.
Drop(m, b, own) ==
    LET gone     == [m EXCEPT !.cursors[b] = @ - 1]
        unlocked == IF own = "free" THEN gone ELSE OSUnlock(gone, b)
    IN  IF own = "borrow" THEN unlocked ELSE OSMemFree(unlocked, b)

\* release(): the caller has the handle; the block stays locked.
Release(m, b) == [m EXCEPT !.cursors[b] = @ - 1]

\* locker::allocate().
Allocate(m, b, own) == Hold(OSMemAlloc(m, b), b, own)

\* A locker that lives for some reads or writes of a call.
Visit(m, b) == Drop(Hold(m, b, "borrow"), b, "borrow")

-----------------------------------------------------------------------------
(* The objects.                                                            *)

Init ==
    /\ mem = [keeper |-> [b \in Blocks |-> "nobody"], locks |-> [b \in Blocks |-> 0],
              cursors |-> [b \in Blocks |-> 0], faults |-> {}]
    /\ kind = [o \in Objects |-> "none"]
    /\ slot = [o \in Objects |-> NoBlock]
    /\ forgotten = {}

\* An object of class k begins to live in o; it keeps block b of the memory m.
Begin(o, k, b, m) ==
    /\ kind[o] = "none"
    /\ kind' = [kind EXCEPT ![o] = k]
    /\ slot' = [slot EXCEPT ![o] = b]
    /\ mem' = m
    /\ UNCHANGED forgotten

\* The object in o is of a class of ks and has a block: without one every method
\* throws invalid_handle before it does anything.
Holding(o, ks) == kind[o] \in ks /\ slot[o] # NoBlock

\* A method of an existing object leaves the memory m.
Method(m) == mem' = m /\ UNCHANGED <<kind, slot, forgotten>>

\* Both constructors of list: ListAllocate and ListDuplicate return locked memory.
NewList(o) ==
    \E b \in Unused : Begin(o, "list", b, OSUnlock(OSLock(OSMemAlloc(mem, b), b), b))

\* names::from_username() and formula(code); a failure leaves nothing behind.
NewNames(o) == \E b \in Unused : Begin(o, "names", b, OSMemAlloc(mem, b))
CompileFormula(o) == \E b \in Unused : Begin(o, "formula", b, OSMemAlloc(mem, b))

\* formula(buffer) and value(locker) take the block out of a locker.
FormulaOf(o) ==
    \E b \in Unused : Begin(o, "formula", b, Release(Allocate(mem, b, "take"), b))
NewValue(o) ==
    \E b \in Unused : Begin(o, "value", b, Release(Allocate(mem, b, "take"), b))

\* value(locker) throws for a locker that does not own its memory, whose
\* clean-up then runs: the handle h was its caller's to free.
RefuseValue(own) ==
    \E b \in Unused :
        LET made == Allocate(mem, b, own)
            left == Drop(made, b, own)
        IN  own # "take" /\ Method(IF own = "borrow" THEN OSMemFree(left, b) ELSE left)

\* The input of AgentLSTextFormat is freed when the inner scope ends; its result
\* is read through a locker that then gives the block to the object.
NewScript(o) ==
    \E input, text \in Unused :
        /\ input # text
        /\ LET formatted == OSMemAlloc(Allocate(mem, input, "take"), text)
           IN  Begin(o, "script", text,
                     Release(Hold(Drop(formatted, input, "take"), text, "take"), text))

\* The formatter reports an error in a text of its own.  What it may have put
\* into dest_hdl as well is in no variable any more.
RejectScript ==
    \E input, error \in Unused : \E dest \in SUBSET (Unused \ {input, error}) :
        /\ input # error /\ \A b, c \in dest : b = c
        /\ LET made  == Allocate(mem, input, "take")
               outs  == [made EXCEPT !.keeper = [b \in Blocks |->
                            IF b \in dest \cup {error} THEN "library" ELSE @[b]]]
               clean == Drop(outs, input, "take")
           IN  mem' = Drop(Hold(clean, error, "take"), error, "take")
        /\ forgotten' = forgotten \cup dest
        /\ UNCHANGED <<kind, slot>>

\* database::run_query(): NSFQueryDBExt2 may return two texts, an error and an
\* explanation, in variables that nothing frees.  The ID table of a query that
\* succeeds is freed at the end of the call, also when a note cannot be opened.
RunQuery ==
    \E error, explain \in Unused \cup {NoBlock} :
        LET texts == {error, explain} \ {NoBlock}
            left  == [mem EXCEPT !.keeper = [b \in Blocks |->
                         IF b \in texts THEN "library" ELSE @[b]]]
        IN  /\ \/ mem' = left
               \/ \E table \in Unused \ texts : mem' = OSMemFree(OSMemAlloc(left, table), table)
            /\ forgotten' = forgotten \cup texts
            /\ UNCHANGED <<kind, slot>>

\* The reads hold the block for the time of the call, also when it throws; at()
\* reads the size first.
ReadList(o) ==
    /\ Holding(o, {"list"})
    /\ \/ Method(Visit(mem, slot[o]))
       \/ Method(Visit(Visit(mem, slot[o]), slot[o]))

\* at() and size() of names, and set_authentication(), which writes in place.
ReadNames(o) ==
    /\ Holding(o, {"names"})
    /\ \/ Method(Visit(mem, slot[o]))
       \/ Method(Visit(Visit(mem, slot[o]), slot[o]))

\* get_type(), as_string(), try_as(): nothing is held for a value without a type.
ReadValue(o) == Holding(o, {"value", "script"}) /\ Method(Visit(mem, slot[o]))

\* push_back(), erase(), pop_back(): the size is read first.
Edited(m, o) == OSMemRealloc(Visit(m, slot[o]), slot[o])

Edit(o) == Holding(o, {"list"}) /\ Method(Edited(mem, o))

\* clear() and formula::merge(), add_summary(): one call of the C API.
Rewrite(o) ==
    /\ Holding(o, {"list", "formula"})
    /\ Method(OSMemRealloc(mem, slot[o]))

\* formula::decompile(): the text lives inside the borrowed input.
Decompile(o) ==
    /\ Holding(o, {"formula"})
    /\ \E text \in Unused :
          LET input  == Hold(mem, slot[o], "borrow")
              output == Hold(OSMemAlloc(input, text), text, "take")
          IN  Method(Drop(Drop(output, text, "take"), slot[o], "borrow"))

\* Defect: the cursor that reads the header lives until the end of the call.
AddItemNameHeld(o) ==
    /\ Holding(o, {"formula"})
    /\ LET b == slot[o]
           header == Hold(mem, b, "borrow")
       IN  \/ Method(Visit(mem, b))
           \/ Method(Drop(Visit(OSMemRealloc(header, b), b), b, "borrow"))

\* formula::add_item_name(): read the header, resize, write.  It stops at the
\* header of a formula that has a name, and when there is no memory.
AddItemName(o) ==
    /\ Holding(o, {"formula"})
    /\ LET b == slot[o]
       IN  \/ Method(Visit(mem, b))
           \/ Method(Visit(OSMemRealloc(Visit(mem, b), b), b))

\* names::clone(): the source is unlocked before the copy is released.
CloneNames(o, p) ==
    /\ Holding(o, {"names"})
    /\ \E b \in Unused :
          LET copy == Allocate(Hold(mem, slot[o], "borrow"), b, "take")
          IN  Begin(p, "names", b, Release(Drop(copy, slot[o], "borrow"), b))

\* The object in p is constructed from that in o, which stays as an empty one.
Move(o, p) ==
    /\ kind[o] # "none" /\ kind[p] = "none"
    /\ kind' = [kind EXCEPT ![p] = kind[o]]
    /\ slot' = [slot EXCEPT ![p] = slot[o], ![o] = NoBlock]
    /\ UNCHANGED <<mem, forgotten>>

\* The memory after the destructors of the objects os, whatever their order.
Destroyed(m, os) ==
    LET own == {slot[o] : o \in os} \ {NoBlock}
        bad == \E b \in own : m.keeper[b] # "library"
        free == {b \in own : m.keeper[b] = "library"}
    IN  [m EXCEPT !.keeper = [b \in Blocks |-> IF b \in free THEN "nobody" ELSE @[b]],
                  !.locks = [b \in Blocks |-> IF b \in free THEN 0 ELSE @[b]],
                  !.faults = IF bad THEN @ \cup {"freed by another"} ELSE @]

Destroy(o) ==
    /\ kind[o] # "none"
    /\ kind' = [kind EXCEPT ![o] = "none"]
    /\ slot' = [slot EXCEPT ![o] = NoBlock]
    /\ mem' = Destroyed(mem, {o})
    /\ UNCHANGED forgotten

\* The C API frees a block it has taken over.
DominoFrees ==
    \E b \in Blocks :
        /\ mem.keeper[b] = "domino"
        /\ Method([mem EXCEPT !.keeper[b] = "nobody", !.locks[b] = 0])

ObjectStep(o) ==
    \/ NewList(o) \/ NewNames(o) \/ CompileFormula(o) \/ FormulaOf(o)
    \/ NewValue(o) \/ NewScript(o) \/ ReadList(o) \/ ReadNames(o) \/ ReadValue(o)
    \/ Edit(o) \/ Rewrite(o) \/ Decompile(o) \/ AddItemName(o) \/ Destroy(o)
=============================================================================
