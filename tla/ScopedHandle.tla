---------------------------- MODULE ScopedHandle ----------------------------
(***************************************************************************)
(* dmn::detail::scoped_handle<T> (include/dmn/detail/scoped_handle.hpp):   *)
(* the move-only, thread-affine owner of one native handle, from which     *)
(* every class of the library that owns a handle is built.                 *)
(*                                                                         *)
(* A wrapper is a C++ object: it is constructed, moved and destroyed by    *)
(* any thread that can reach it.  The members are hdl_, cleanup and        *)
(* owner_.  A raw handle that no wrapper manages (just returned by the     *)
(* native API, or given back by release()) is loose: it is a number in a   *)
(* local variable of the thread that opened it.                            *)
(***************************************************************************)
CONSTANTS
    Threads, Handles, Wrappers,
    NoThread, NoHandle

ASSUME NullAssumption == NoThread \notin Threads /\ NoHandle \notin Handles

VARIABLES
    alive,      \* the wrappers whose lifetime has begun and not ended
    hdl,        \* hdl[w]: hdl_, NoHandle for the null value
    armed,      \* armed[w]: cleanup holds a function (a moved-from one is empty)
    owner,      \* owner[w]: owner_, the thread that constructed the wrapper
    opener,     \* opener[h]: the thread the native API opened h for, or NoThread
    loose,      \* the open handles that no wrapper manages
    offThread,  \* TRUE once cleanup ran for a handle its thread had not opened
    aborted     \* std::terminate was called

wrapperVars == <<alive, hdl, armed, owner>>
vars == <<alive, hdl, armed, owner, opener, loose, offThread, aborted>>

Init ==
    /\ alive = {}
    /\ hdl = [w \in Wrappers |-> NoHandle]
    /\ armed = [w \in Wrappers |-> FALSE]
    /\ owner = [w \in Wrappers |-> NoThread]
    /\ opener = [h \in Handles |-> NoThread]
    /\ loose = {}
    /\ offThread = FALSE
    /\ aborted = FALSE

Free == {h \in Handles : opener[h] = NoThread}

\* The handle that cleanup(hdl_) closes in reset_unchecked() of w: none when the
\* wrapper is null or has no cleanup function.
Doomed(w) == IF armed[w] /\ hdl[w] # NoHandle THEN {hdl[w]} ELSE {}

\* hdl_ of w after reset_unchecked(): an unarmed wrapper keeps its handle.
AfterReset(w) == IF armed[w] THEN NoHandle ELSE hdl[w]

\* The native close function is called for the handles hs on thread t.
Close(t, hs) ==
    /\ opener' = [h \in Handles |-> IF h \in hs THEN NoThread ELSE opener[h]]
    /\ offThread' = (offThread \/ \E h \in hs : opener[h] # t)

\* The process stops: a destructor or a move assignment ran off the owner thread.
Terminate ==
    /\ aborted' = TRUE
    /\ UNCHANGED <<wrapperVars, opener, loose, offThread>>

-----------------------------------------------------------------------------
\* The native API returns a new handle to thread t.
Acquire(t, h) ==
    /\ h \in Free
    /\ opener' = [opener EXCEPT ![h] = t]
    /\ loose' = loose \cup {h}
    /\ UNCHANGED <<wrapperVars, offThread, aborted>>

\* Constructing w on thread t around the value h (possibly null).
Begin(t, w, h) ==
    /\ w \notin alive
    /\ alive' = alive \cup {w}
    /\ hdl' = [hdl EXCEPT ![w] = h]
    /\ armed' = [armed EXCEPT ![w] = TRUE]
    /\ owner' = [owner EXCEPT ![w] = t]
    /\ UNCHANGED <<opener, offThread, aborted>>

ConstructEmpty(t, w) ==
    /\ Begin(t, w, NoHandle)
    /\ UNCHANGED loose

Construct(t, w, h) ==
    /\ h \in loose /\ opener[h] = t
    /\ Begin(t, w, h)
    /\ loose' = loose \ {h}

\* A native call stores its result through data() of an empty wrapper: no caller
\* passes the pointer of a wrapper that holds a handle already.
Fill(t, w, h) ==
    /\ w \in alive /\ owner[w] = t /\ armed[w] /\ hdl[w] = NoHandle
    /\ h \in Free
    /\ hdl' = [hdl EXCEPT ![w] = h]
    /\ opener' = [opener EXCEPT ![h] = t]
    /\ UNCHANGED <<alive, armed, owner, loose, offThread, aborted>>

\* Defect: the destructor does not look at the thread.
DestroyUnchecked(t, w) ==
    /\ w \in alive
    /\ Close(t, Doomed(w))
    /\ alive' = alive \ {w}
    /\ hdl' = [hdl EXCEPT ![w] = NoHandle]
    /\ armed' = [armed EXCEPT ![w] = FALSE]
    /\ owner' = [owner EXCEPT ![w] = NoThread]
    /\ UNCHANGED <<loose, aborted>>

\* ~scoped_handle(): the thread is checked before the handle is looked at.
Destroy(t, w) ==
    /\ w \in alive
    /\ \/ owner[w] # t /\ Terminate
       \/ /\ owner[w] = t
          /\ Close(t, Doomed(w))
          /\ alive' = alive \ {w}
          /\ hdl' = [hdl EXCEPT ![w] = NoHandle]
          /\ armed' = [armed EXCEPT ![w] = FALSE]
          /\ owner' = [owner EXCEPT ![w] = NoThread]
          /\ UNCHANGED <<loose, aborted>>

\* Defect: the source keeps its handle.
MoveConstructCopies(dst, src) ==
    /\ src \in alive /\ dst \notin alive
    /\ alive' = alive \cup {dst}
    /\ hdl' = [hdl EXCEPT ![dst] = hdl[src]]
    /\ armed' = [armed EXCEPT ![dst] = armed[src]]
    /\ owner' = [owner EXCEPT ![dst] = owner[src]]
    /\ UNCHANGED <<opener, loose, offThread, aborted>>

\* scoped_handle(scoped_handle&&): any thread may run it, the owner is copied.
MoveConstruct(dst, src) ==
    /\ src \in alive /\ dst \notin alive
    /\ alive' = alive \cup {dst}
    /\ hdl' = [hdl EXCEPT ![dst] = hdl[src], ![src] = NoHandle]
    /\ armed' = [armed EXCEPT ![dst] = armed[src], ![src] = FALSE]
    /\ owner' = [owner EXCEPT ![dst] = owner[src]]
    /\ UNCHANGED <<opener, loose, offThread, aborted>>

\* Defect: the target keeps its own owner_.
MoveAssignKeepsOwner(t, dst, src) ==
    /\ dst \in alive /\ src \in alive /\ dst # src
    /\ \/ owner[dst] # t /\ Terminate
       \/ /\ owner[dst] = t
          /\ Close(t, Doomed(dst))
          /\ hdl' = [hdl EXCEPT ![dst] = hdl[src], ![src] = NoHandle]
          /\ armed' = [armed EXCEPT ![dst] = armed[src], ![src] = FALSE]
          /\ UNCHANGED <<alive, owner, loose, aborted>>

\* operator=(scoped_handle&&): only the thread of the target is checked.
MoveAssign(t, dst, src) ==
    /\ dst \in alive /\ src \in alive /\ dst # src
    /\ \/ owner[dst] # t /\ Terminate
       \/ /\ owner[dst] = t
          /\ Close(t, Doomed(dst))
          /\ hdl' = [hdl EXCEPT ![dst] = hdl[src], ![src] = NoHandle]
          /\ armed' = [armed EXCEPT ![dst] = armed[src], ![src] = FALSE]
          /\ owner' = [owner EXCEPT ![dst] = owner[src]]
          /\ UNCHANGED <<alive, loose, aborted>>

\* Defect: the null value of an empty wrapper is handed out as a handle.
ReleaseNull(t, w) ==
    /\ w \in alive /\ owner[w] = t
    /\ loose' = loose \cup {hdl[w]}
    /\ hdl' = [hdl EXCEPT ![w] = NoHandle]
    /\ UNCHANGED <<alive, armed, owner, opener, offThread, aborted>>

\* release(): throws off the owner thread; the caller takes the raw handle over.
Release(t, w) ==
    /\ w \in alive /\ owner[w] = t
    /\ loose' = loose \cup ({hdl[w]} \ {NoHandle})
    /\ hdl' = [hdl EXCEPT ![w] = NoHandle]
    /\ UNCHANGED <<alive, armed, owner, opener, offThread, aborted>>

Reset(t, w) ==
    /\ w \in alive /\ owner[w] = t
    /\ Close(t, Doomed(w))
    /\ hdl' = [hdl EXCEPT ![w] = AfterReset(w)]
    /\ UNCHANGED <<alive, armed, owner, loose, aborted>>

\* Defect: put() does not reset first.
PutNoReset(t, w, h) ==
    /\ w \in alive /\ owner[w] = t /\ armed[w]
    /\ h \in loose /\ opener[h] = t
    /\ hdl' = [hdl EXCEPT ![w] = h]
    /\ loose' = loose \ {h}
    /\ UNCHANGED <<alive, armed, owner, opener, offThread, aborted>>

\* put(h): reset(), then manage h.  Nothing in the library puts a handle into a
\* wrapper it has moved from.
Put(t, w, h) ==
    /\ w \in alive /\ owner[w] = t /\ armed[w]
    /\ h \in loose /\ opener[h] = t
    /\ Close(t, Doomed(w))
    /\ hdl' = [hdl EXCEPT ![w] = h]
    /\ loose' = loose \ {h}
    /\ UNCHANGED <<alive, armed, owner, aborted>>

\* A thread passes a loose handle to the native close function itself.
CloseLoose(t, h) ==
    /\ h \in loose /\ opener[h] = t
    /\ Close(t, {h})
    /\ loose' = loose \ {h}
    /\ UNCHANGED <<wrapperVars, aborted>>

Step(t) ==
    \/ \E h \in Handles : Acquire(t, h) \/ CloseLoose(t, h)
    \/ \E w \in Wrappers :
          \/ ConstructEmpty(t, w) \/ Destroy(t, w) \/ Release(t, w) \/ Reset(t, w)
          \/ \E h \in Handles : Construct(t, w, h) \/ Fill(t, w, h) \/ Put(t, w, h)
          \/ \E v \in Wrappers : MoveConstruct(w, v) \/ MoveAssign(t, w, v)

Next == ~aborted /\ \E t \in Threads : Step(t)

Spec == Init /\ [][Next]_vars

-----------------------------------------------------------------------------
TypeOK ==
    /\ alive \subseteq Wrappers
    /\ hdl \in [Wrappers -> Handles \cup {NoHandle}]
    /\ armed \in [Wrappers -> BOOLEAN]
    /\ owner \in [Wrappers -> Threads \cup {NoThread}]
    /\ opener \in [Handles -> Threads \cup {NoThread}]
    /\ loose \subseteq Handles
    /\ offThread \in BOOLEAN
    /\ aborted \in BOOLEAN

\* A handle has one owner: no two wrappers manage it, and none manages a handle
\* that a caller holds (the exchange in the two move operations, and release()).
SingleOwner ==
    /\ \A v, w \in Wrappers : v # w /\ hdl[v] # NoHandle => hdl[v] # hdl[w]
    /\ \A w \in Wrappers : hdl[w] \notin loose

\* Whatever moves a wrapper has been through, on whichever threads, the thread
\* it will accept as its owner is the thread that opened the handle it holds.
OwnerIsOpener ==
    \A w \in Wrappers : hdl[w] # NoHandle =>
        /\ w \in alive
        /\ owner[w] \in Threads
        /\ opener[hdl[w]] = owner[w]

\* No handle is lost: an open handle is in its caller's hands or in a wrapper
\* that still has the function to close it.
NothingLost ==
    \A h \in Handles : opener[h] # NoThread =>
        h \in loose \/ \E w \in alive : hdl[w] = h /\ armed[w]

\* Each wrapper step is a call that closes and opens handles of one thread only.
Ownership == INSTANCE HandleOwnership
ImplementsOwnership == Ownership!Spec
=============================================================================
