--------------------------- MODULE ThreadObjects ---------------------------
(***************************************************************************)
(* How dmn::database and dmn::note objects reach native handles.           *)
(*                                                                         *)
(* An object is a shared_ptr to a state; copies of it travel between       *)
(* threads freely.  The native handle is not part of the state: every      *)
(* thread with a Domino context keeps one store per class that maps the    *)
(* address of a state to a handle of its own (detail/thread_context.hpp),  *)
(* opens it on first use and closes it when it notices that the state has  *)
(* expired, or when its context ends.  Only a note that was never saved    *)
(* holds its handle in the state itself.                                   *)
(*                                                                         *)
(* Each action is one call of the public interface on one thread.  Two     *)
(* calls on different threads share nothing but reference counts, so a     *)
(* call is one step.  What the C API answers is a choice: it may open the  *)
(* database or note, not find it or fail.                                  *)
(***************************************************************************)
CONSTANTS
    Threads,    \* std::thread::id values, reused after a thread was joined
    Dbs,        \* addresses of database::state blocks
    Notes,      \* addresses of note::state blocks
    Handles,    \* values of native database and note handles
    NoThread, NoHandle, NoDb

ASSUME NullAssumption ==
    /\ NoThread \notin Threads /\ NoHandle \notin Handles /\ NoDb \notin Dbs
    /\ Dbs \cap Notes = {}

Objects == Dbs \cup Notes

VARIABLES
    home,       \* the thread that owns the static context of session::instance()
    ctx,        \* ctx[t]: "none", "live" or "ended": the thread_context of t
    holders,    \* holders[o]: the threads that own a reference to state o
    dbOf,       \* dbOf[n]: note::state::db, a reference to a database state
    names,      \* names[d]: the thread of the names list d was opened with
    own,        \* own[n]: note::state::hdl, the handle of an unsaved note
    entry,      \* entry[t][o]: the handle the store of t maps o to
    opener,     \* opener[h]: the thread h is open for, or NoThread
    via,        \* via[h]: the open database handle that note handle h belongs to
    leaked,     \* open handles that no C++ object remembers
    offThread,  \* TRUE once a handle was closed by a thread that had not opened it
    phase       \* "running", "terminated" (std::terminate) or "exited"

refVars == <<holders, dbOf, names, own>>
heapVars == <<entry, opener, via, leaked, offThread>>
vars == <<home, ctx, refVars, heapVars, phase>>

Init ==
    /\ home = NoThread
    /\ ctx = [t \in Threads |-> "none"]
    /\ holders = [o \in Objects |-> {}]
    /\ dbOf = [n \in Notes |-> NoDb]
    /\ names = [d \in Dbs |-> NoThread]
    /\ own = [n \in Notes |-> NoHandle]
    /\ entry = [t \in Threads |-> [o \in Objects |-> NoHandle]]
    /\ opener = [h \in Handles |-> NoThread]
    /\ via = [h \in Handles |-> NoHandle]
    /\ leaked = {}
    /\ offThread = FALSE
    /\ phase = "running"

Free == {h \in Handles : opener[h] = NoThread}

LiveNote(n) == holders[n] # {}
\* Defect: the note state does not keep its database alive.
HeldDb(d) == holders[d] # {}
LiveDb(d) == holders[d] # {} \/ \E n \in Notes : LiveNote(n) /\ dbOf[n] = d

\* A store entry keeps a weak reference, which pins the address of the state.
Unused(o) == holders[o] = {} /\ \A t \in Threads : entry[t][o] = NoHandle

\* Defect: a thread sweeps what it has no reference to itself.
UnheldDbs(t) == {d \in Dbs : entry[t][d] # NoHandle /\ t \notin holders[d]}

\* The expired entries that remove_stale() erases from each store of thread t.
StaleDbs(t) == {d \in Dbs : entry[t][d] # NoHandle /\ ~LiveDb(d)}
StaleNotes(t) == {n \in Notes : entry[t][n] # NoHandle /\ ~LiveNote(n)}

-----------------------------------------------------------------------------
\* The steps of a call on thread t: the entries swept are erased and their
\* handles closed, the entries of put are filled, the handles in opened are new,
\* those in noteHandles through the database handle hd.
Call(t, swept, put, opened, noteHandles, hd) ==
    LET closed == {entry[t][o] : o \in swept}
    IN  /\ entry' = [entry EXCEPT ![t] =
                        [o \in Objects |-> IF o \in DOMAIN put THEN put[o]
                                           ELSE IF o \in swept THEN NoHandle
                                           ELSE entry[t][o]]]
        /\ opener' = [h \in Handles |-> IF h \in opened THEN t
                                        ELSE IF h \in closed THEN NoThread
                                        ELSE opener[h]]
        /\ via' = [h \in Handles |-> IF h \in noteHandles THEN hd
                                     ELSE IF h \in closed \/ via[h] \in closed THEN NoHandle
                                     ELSE via[h]]
        /\ offThread' = (offThread \/ \E h \in closed : opener[h] # t)

Nothing == [o \in {} |-> NoHandle]

\* A call that gets no further than the sweep: the entry was found, or the C API
\* or a thread check failed.
SweepOnly(t, swept) ==
    /\ Call(t, swept, Nothing, {}, {}, NoHandle)
    /\ UNCHANGED leaked

\* Defect: the database is opened without evaluating the names list.
DbHandlesAnyThread(t, d) == IF entry[t][d] # NoHandle THEN {entry[t][d]} ELSE Free

\* The handles database::get_handle() of d may return on thread t: the entry of
\* the store, or a new handle.  Opening evaluates names->get_handle(), which
\* throws off the thread of the names list.
DbHandles(t, d) ==
    IF entry[t][d] # NoHandle THEN {entry[t][d]}
    ELSE IF names[d] \in {NoThread, t} THEN Free
    ELSE {}

\* A call that obtains the handle hd of database d and no note handle.
WithDb(t, swept, d, hd) ==
    /\ Call(t, swept, [o \in {d} |-> hd], {hd} \cap Free, {}, NoHandle)
    /\ UNCHANGED leaked

\* A call that obtains hd, opens the note handle h through it and caches it for n.
WithNote(t, swept, d, hd, n, h) ==
    /\ h \in Free /\ h # hd
    /\ Call(t, swept, [o \in {d, n} |-> IF o = n THEN h ELSE hd],
            ({hd} \cap Free) \cup {h}, {h}, hd)

-----------------------------------------------------------------------------
\* session::instance(), first call: the static context belongs to the caller.
Instance(t) ==
    /\ home = NoThread /\ ctx[t] = "none"
    /\ home' = t
    /\ ctx' = [ctx EXCEPT ![t] = "live"]
    /\ UNCHANGED <<refVars, heapVars, phase>>

\* dmn::thread: the body creates the context of the new thread.  A thread that
\* was joined has destroyed its function object, and its id may be used again.
StartThread(u) ==
    /\ home # NoThread
    /\ \/ ctx[u] = "none"
       \/ ctx[u] = "ended" /\ \A o \in Objects : u \notin holders[o]
    /\ ctx' = [ctx EXCEPT ![u] = "live"]
    /\ UNCHANGED <<home, refVars, heapVars, phase>>

\* Defect: only the database store is cleared.
CachedDbs(t) == {d \in Dbs : entry[t][d] # NoHandle}

Cached(t) == {o \in Objects : entry[t][o] # NoHandle}

\* The thread function has returned: ~thread_context() clears the stores.
\* References captured by the function object are destroyed later.
EndThread(t) ==
    /\ ctx[t] = "live" /\ t # home
    /\ ctx' = [ctx EXCEPT ![t] = "ended"]
    /\ SweepOnly(t, Cached(t))
    /\ UNCHANGED <<home, refVars, phase>>

\* The static context is destroyed on the thread t that ends the process; the
\* wrappers in the stores of another thread call std::terminate.
Exit(t) ==
    /\ home # NoThread
    /\ IF t # home /\ Cached(home) # {}
         THEN /\ phase' = "terminated"
              /\ UNCHANGED <<ctx, heapVars>>
         ELSE /\ phase' = "exited"
              /\ ctx' = [ctx EXCEPT ![home] = "ended"]
              /\ SweepOnly(home, Cached(home))
    /\ UNCHANGED <<home, refVars>>

-----------------------------------------------------------------------------
\* database::open() and create(), with the names list of t or without.  On any
\* failure the new state dies at once.
DbOpen(t, d, named) ==
    /\ Unused(d) /\ ~LiveDb(d)
    /\ \/ /\ SweepOnly(t, StaleDbs(t))
          /\ UNCHANGED refVars
       \/ \E hd \in Free :
             /\ WithDb(t, StaleDbs(t), d, hd)
             /\ holders' = [holders EXCEPT ![d] = {t}]
             /\ names' = [names EXCEPT ![d] = IF named THEN t ELSE NoThread]
             /\ UNCHANGED <<dbOf, own>>

\* database::get_handle(), and every operation of an open database.
DbGet(t, d) ==
    /\ t \in holders[d]
    /\ \/ SweepOnly(t, StaleDbs(t))
       \/ \E hd \in DbHandles(t, d) : WithDb(t, StaleDbs(t), d, hd)
    /\ UNCHANGED refVars

\* database::remove(file) sweeps the databases of its thread.
DbRemove(t) ==
    /\ SweepOnly(t, StaleDbs(t))
    /\ UNCHANGED refVars

\* note::open(db, note_id): the new state is kept when the note could be opened.
NoteOpen(t, d, n) ==
    LET swept == StaleNotes(t) \cup StaleDbs(t)
    IN  /\ t \in holders[d] /\ Unused(n)
        /\ \/ SweepOnly(t, swept) /\ UNCHANGED refVars
           \/ \E hd \in DbHandles(t, d) :
                 \/ WithDb(t, swept, d, hd) /\ UNCHANGED refVars
                 \/ \E h \in Handles :
                       /\ WithNote(t, swept, d, hd, n, h)
                       /\ holders' = [holders EXCEPT ![n] = {t}]
                       /\ dbOf' = [dbOf EXCEPT ![n] = d]
                       /\ UNCHANGED <<names, own, leaked>>

\* Defect: the status of NSFNoteOpenByUNID is not checked.
UnidHandlesUnchecked(hd) == (Free \ {hd}) \cup {NoHandle}

\* What NSFNoteOpenByUNID returns when it succeeds.
UnidHandles(hd) == Free \ {hd}

\* note::open(db, unid): the handle x that NSFNoteOpenByUNID returns only serves
\* to read the note id; the note is then opened again by that id.
NoteOpenByUnid(t, d, n) ==
    LET swept == StaleNotes(t) \cup StaleDbs(t)
    IN  /\ t \in holders[d] /\ Unused(n)
        /\ \/ SweepOnly(t, StaleDbs(t)) /\ UNCHANGED refVars
           \/ \E hd \in DbHandles(t, d) :
                 \/ WithDb(t, StaleDbs(t), d, hd) /\ UNCHANGED refVars
                 \/ \E x \in UnidHandles(hd) :
                       /\ leaked' = leaked \cup {x}
                       /\ \/ /\ Call(t, swept, [o \in {d} |-> hd],
                                     ({hd} \cap Free) \cup {x}, {x}, hd)
                             /\ UNCHANGED refVars
                          \/ \E h \in Free \ {hd, x} :
                                /\ Call(t, swept, [o \in {d, n} |-> IF o = n THEN h ELSE hd],
                                        ({hd} \cap Free) \cup {x, h}, {x, h}, hd)
                                /\ holders' = [holders EXCEPT ![n] = {t}]
                                /\ dbOf' = [dbOf EXCEPT ![n] = d]
                                /\ UNCHANGED <<names, own>>

\* note::create(db): the handle of the new note lives in its state.
NoteCreate(t, d, n) ==
    /\ t \in holders[d] /\ Unused(n)
    /\ \/ SweepOnly(t, StaleDbs(t)) /\ UNCHANGED refVars
       \/ \E hd \in DbHandles(t, d) :
             \/ WithDb(t, StaleDbs(t), d, hd) /\ UNCHANGED refVars
             \/ \E h \in Free \ {hd} :
                   /\ Call(t, StaleDbs(t), [o \in {d} |-> hd],
                           ({hd} \cap Free) \cup {h}, {h}, hd)
                   /\ own' = [own EXCEPT ![n] = h]
                   /\ holders' = [holders EXCEPT ![n] = {t}]
                   /\ dbOf' = [dbOf EXCEPT ![n] = d]
                   /\ UNCHANGED <<names, leaked>>

\* note::get_handle(), and every operation on the items of a note.  The handle of
\* an unsaved note is returned, or refused to other threads, without any change.
NoteGet(t, n) ==
    LET swept == StaleNotes(t) \cup StaleDbs(t)
    IN  /\ t \in holders[n] /\ own[n] = NoHandle
        /\ IF entry[t][n] # NoHandle
             THEN SweepOnly(t, StaleNotes(t))
             ELSE \/ SweepOnly(t, swept)
                  \/ \E hd \in DbHandles(t, dbOf[n]) :
                        \/ WithDb(t, swept, dbOf[n], hd)
                        \/ \E h \in Handles :
                              /\ WithNote(t, swept, dbOf[n], hd, n, h)
                              /\ UNCHANGED leaked
        /\ UNCHANGED refVars

\* Defect: the closed handle stays in the state.
NoteSaveKeepsOwn(t, n) ==
    \/ NoteGet(t, n)
    \/ /\ t \in holders[n] /\ own[n] # NoHandle /\ opener[own[n]] = t
       /\ opener' = [opener EXCEPT ![own[n]] = NoThread]
       /\ via' = [via EXCEPT ![own[n]] = NoHandle]
       /\ UNCHANGED <<refVars, entry, leaked, offThread>>

\* Defect: the handle is released instead of closed.
NoteSaveReleases(t, n) ==
    \/ NoteGet(t, n)
    \/ /\ t \in holders[n] /\ own[n] # NoHandle /\ opener[own[n]] = t
       /\ own' = [own EXCEPT ![n] = NoHandle]
       /\ UNCHANGED <<holders, dbOf, names, heapVars>>

\* note::save(): once the update has succeeded the state gives up its own handle,
\* whose wrapper answers to the thread that created the note.
NoteSave(t, n) ==
    \/ NoteGet(t, n)
    \/ /\ t \in holders[n] /\ own[n] # NoHandle /\ opener[own[n]] = t
       /\ own' = [own EXCEPT ![n] = NoHandle]
       /\ opener' = [opener EXCEPT ![own[n]] = NoThread]
       /\ via' = [via EXCEPT ![own[n]] = NoHandle]
       /\ UNCHANGED <<holders, dbOf, names, entry, leaked, offThread>>

\* note::remove(): the stored handles of the deleted note stay as they are.
NoteRemove(t, n) ==
    LET swept == StaleNotes(t) \cup StaleDbs(t)
    IN  /\ t \in holders[n]
        /\ \/ own[n] # NoHandle /\ opener[own[n]] # t /\ SweepOnly(t, StaleNotes(t))
           \/ SweepOnly(t, swept)
           \/ \E hd \in DbHandles(t, dbOf[n]) :
                 \/ WithDb(t, swept, dbOf[n], hd)
                 \/ \E h \in Handles :
                       /\ own[n] = NoHandle /\ entry[t][n] = NoHandle
                       /\ WithNote(t, swept, dbOf[n], hd, n, h)
                       /\ UNCHANGED leaked
        /\ UNCHANGED refVars

-----------------------------------------------------------------------------
\* note::get_database() hands out a copy of the note's database object.
GetDatabase(t, n) ==
    /\ t \in holders[n]
    /\ holders' = [holders EXCEPT ![dbOf[n]] = @ \cup {t}]
    /\ UNCHANGED <<dbOf, names, own>>

\* Thread t copies an object for thread u: a captured copy, a queue, a global.
Share(t, u, o) ==
    /\ t \in holders[o] /\ ctx[u] # "ended"
    /\ holders' = [holders EXCEPT ![o] = @ \cup {u}]
    /\ UNCHANGED <<dbOf, names, own>>

\* The database state d dies when holders would be hs.
DbDies(d, hs) == hs[d] = {} /\ \A n \in Notes : dbOf[n] = d => hs[n] = {}

\* Defect: the wrapper of an unsaved note is destroyed wherever the note dies.
NamedDbDiesOffThread(t, o, hs) ==
    \E d \in Dbs : LiveDb(d) /\ DbDies(d, hs) /\ names[d] \notin {NoThread, t}

\* Defect: any copy of an unsaved note destroyed off its thread aborts.
CopyDiesOffThread(t, o, hs) ==
    \/ o \in Notes /\ own[o] # NoHandle /\ opener[own[o]] # t
    \/ NamedDbDiesOffThread(t, o, hs)

\* A wrapper in the state of o, or of its database, is destroyed off its thread.
DiesOffThread(t, o, hs) ==
    \/ o \in Notes /\ hs[o] = {} /\ own[o] # NoHandle /\ opener[own[o]] # t
    \/ \E d \in Dbs : /\ LiveDb(d) /\ DbDies(d, hs)
                      /\ names[d] \notin {NoThread, t}

\* Thread t destroys its last copy of o.  If it was the last of all, the state is
\* destroyed on t: first the handle of an unsaved note, then the database.  An abort
\* comes after the reference count has fallen and before a handle is closed.
Drop(t, o) ==
    LET hs == [holders EXCEPT ![o] = @ \ {t}]
        closes == o \in Notes /\ hs[o] = {} /\ own[o] # NoHandle
    IN  /\ t \in holders[o]
        /\ holders' = hs
        /\ IF DiesOffThread(t, o, hs)
             THEN /\ phase' = "terminated"
                  /\ UNCHANGED <<own, heapVars>>
             ELSE /\ IF closes
                       THEN /\ own' = [own EXCEPT ![o] = NoHandle]
                            /\ opener' = [opener EXCEPT ![own[o]] = NoThread]
                            /\ via' = [via EXCEPT ![own[o]] = NoHandle]
                            /\ offThread' = (offThread \/ opener[own[o]] # t)
                            /\ UNCHANGED <<entry, leaked>>
                       ELSE UNCHANGED <<own, heapVars>>
                  /\ UNCHANGED phase
        /\ UNCHANGED <<home, ctx, dbOf, names>>

\* The calls that need the Domino context of their thread: without one
\* thread_context::current() throws.
DbCall(t) ==
    \/ DbRemove(t)
    \/ \E d \in Dbs : DbGet(t, d) \/ \E named \in BOOLEAN : DbOpen(t, d, named)

NoteCall(t) ==
    \E n \in Notes :
        \/ NoteGet(t, n) \/ NoteSave(t, n) \/ NoteRemove(t, n)
        \/ \E d \in Dbs : NoteOpen(t, d, n) \/ NoteOpenByUnid(t, d, n) \/ NoteCreate(t, d, n)

ApiCall(t) ==
    /\ ctx[t] = "live"
    /\ DbCall(t) \/ NoteCall(t)
    /\ UNCHANGED <<home, ctx, phase>>

\* Copying references needs no context.
CopyRef(t) ==
    /\ \/ \E n \in Notes : GetDatabase(t, n)
       \/ \E u \in Threads, o \in Objects : Share(t, u, o)
    /\ UNCHANGED <<home, ctx, heapVars, phase>>

Step(t) ==
    \/ Instance(t) \/ StartThread(t) \/ EndThread(t) \/ Exit(t)
    \/ ApiCall(t) \/ CopyRef(t)
    \/ \E o \in Objects : Drop(t, o)

Next == phase = "running" /\ \E t \in Threads : Step(t)

Spec == Init /\ [][Next]_vars

-----------------------------------------------------------------------------
TypeOK ==
    /\ home \in Threads \cup {NoThread}
    /\ ctx \in [Threads -> {"none", "live", "ended"}]
    /\ holders \in [Objects -> SUBSET Threads]
    /\ dbOf \in [Notes -> Dbs \cup {NoDb}]
    /\ names \in [Dbs -> Threads \cup {NoThread}]
    /\ own \in [Notes -> Handles \cup {NoHandle}]
    /\ entry \in [Threads -> [Objects -> Handles \cup {NoHandle}]]
    /\ opener \in [Handles -> Threads \cup {NoThread}]
    /\ via \in [Handles -> Handles \cup {NoHandle}]
    /\ leaked \subseteq Handles
    /\ offThread \in BOOLEAN
    /\ phase \in {"running", "terminated", "exited"}

\* A store only holds handles that are open, opened by its own thread, and holds
\* none once the context of the thread has ended.
CachedHandleIsOpenHere ==
    \A t \in Threads, o \in Objects : entry[t][o] # NoHandle =>
        /\ ctx[t] = "live"
        /\ opener[entry[t][o]] = t

\* A native handle is remembered in one place: one entry of one store, or one
\* unsaved note.  Otherwise it would be closed twice.
HandleHeldOnce ==
    /\ \A t, u \in Threads, o, p \in Objects :
          entry[t][o] # NoHandle /\ entry[t][o] = entry[u][p] => t = u /\ o = p
    /\ \A n, m \in Notes : own[n] # NoHandle /\ own[n] = own[m] => n = m
    /\ \A t \in Threads, o \in Objects, n \in Notes :
          own[n] # NoHandle => own[n] # entry[t][o]
    /\ \A t \in Threads, o \in Objects : entry[t][o] \notin leaked
    /\ \A n \in Notes : own[n] \notin leaked

Remembered(h) ==
    \/ \E t \in Threads, o \in Objects : entry[t][o] = h
    \/ \E n \in Notes : own[n] = h

\* Every open handle will be closed by somebody, except the handles that opening
\* a note by universal id leaves behind.
OnlyUnidOpenLeaks ==
    \A h \in Handles : opener[h] # NoThread => Remembered(h) \/ h \in leaked

\* The RAII promise of the library: every open handle is owned by some object.
EveryOpenHandleRemembered ==
    \A h \in Handles : opener[h] # NoThread => Remembered(h)

\* While a note is alive, the database handle through which a thread opened it is
\* still the one that thread has cached: the note's reference to its database
\* keeps that entry out of the sweeps, although the two stores are independent.
NoteHandleHasItsDb ==
    \A t \in Threads, n \in Notes : LiveNote(n) /\ entry[t][n] # NoHandle =>
        /\ entry[t][dbOf[n]] # NoHandle
        /\ via[entry[t][n]] = entry[t][dbOf[n]]

\* A database opened with a names list is open on the thread of that list only.
NamedDbStaysHome ==
    \A t \in Threads, d \in Dbs :
        names[d] # NoThread /\ entry[t][d] # NoHandle => names[d] = t

LiveNoteHandle(h) ==
    \E n \in Notes : \/ own[n] = h
                     \/ LiveNote(n) /\ \E t \in Threads : entry[t][n] = h

\* A database handle that a thread closes while its context lasts serves no note
\* that is alive after the step, saved or not.
DbOutlivesItsNotes ==
    [][\A t \in Threads, d \in Dbs :
          (entry[t][d] # NoHandle /\ entry'[t][d] = NoHandle /\ ctx'[t] = "live")
          => \A h \in Handles : LiveNoteHandle(h)' => via[h] # entry[t][d]]_vars

\* The process is aborted only when the very step destroys an unsaved note that its
\* creator has let go of before, or a named database that the thread of its list
\* cannot reach any more, by itself or by a note; or when a thread that does not own
\* the static context ends the process and that context has handles to close.  The
\* last copy of a saved note or of a database opened without names may be destroyed
\* by any thread, whatever the stores hold.
AbortOnlyOverAffineObjects ==
    [][phase' = "terminated" =>
          \/ \E n \in Notes : /\ LiveNote(n) /\ ~LiveNote(n)'
                              /\ own[n] # NoHandle /\ opener[own[n]] \notin holders[n]
          \/ \E d \in Dbs : /\ LiveDb(d) /\ ~LiveDb(d)'
                            /\ names[d] # NoThread /\ names[d] \notin holders[d]
                            /\ \A n \in Notes : dbOf[n] = d => names[d] \notin holders[n]
          \/ \E t \in Threads \ {home} : Exit(t) /\ Cached(home) # {}]_vars

\* The stores and the unsaved notes together keep the promise of HandleOwnership.
Ownership == INSTANCE HandleOwnership
ImplementsOwnership == Ownership!Spec
=============================================================================
