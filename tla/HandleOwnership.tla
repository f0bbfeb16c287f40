-------------------------- MODULE HandleOwnership --------------------------
(***************************************************************************)
(* What the handle machinery of dmn-cpp promises to the Domino C API: a    *)
(* native handle belongs to the thread that opened it, and nobody else     *)
(* ever passes it to its close function.  A step is one library call made  *)
(* by one thread: it may close handles of that thread and open others.     *)
(*                                                                         *)
(* ScopedHandle (one wrapper class) and ThreadObjects (the per-thread      *)
(* caches built from it) both implement this specification.                *)
(***************************************************************************)
CONSTANTS
    Threads,    \* thread identifiers (std::thread::id)
    Handles,    \* values the native API hands out
    NoThread    \* "no thread": the handle is not open

VARIABLES
    opener,     \* opener[h]: the thread that opened h, NoThread when h is closed
    offThread   \* TRUE once a handle was closed by a thread that had not opened it

ownershipVars == <<opener, offThread>>

Free == {h \in Handles : opener[h] = NoThread}
OpenedBy(t) == {h \in Handles : opener[h] = t}

\* The value of opener after thread t closed the handles in closed and opened
\* those in opened.
Turned(t, closed, opened) ==
    [h \in Handles |-> IF h \in opened THEN t
                       ELSE IF h \in closed THEN NoThread
                       ELSE opener[h]]

Init ==
    /\ opener = [h \in Handles |-> NoThread]
    /\ offThread = FALSE

\* One call by thread t: it closes only handles it has opened itself.
Turn(t) ==
    /\ \E closed \in SUBSET OpenedBy(t), opened \in SUBSET Free :
            opener' = Turned(t, closed, opened)
    /\ UNCHANGED offThread

Next == \E t \in Threads : Turn(t)

Spec == Init /\ [][Next]_ownershipVars
=============================================================================
