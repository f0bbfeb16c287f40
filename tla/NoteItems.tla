------------------------------ MODULE NoteItems ------------------------------
(***************************************************************************)
(* The items of one note, as dmn::note and dmn::item_value reach them      *)
(* (src/note.cpp, src/value.cpp).  Objects of all threads share one state  *)
(* (note::state).  A note that was created lives in the handle of that     *)
(* state, which belongs to the creating thread, until it is saved; from    *)
(* then on every thread has a handle of its own in its store, that is a    *)
(* copy of the note in memory.  Other users change the stored note.        *)
(* When the store closes a handle is the subject of ThreadObjects; here    *)
(* that a handle is closed means that its copy is gone.                    *)
(***************************************************************************)
EXTENDS Naturals, Sequences

CONSTANTS
    Threads,
    Keys,        \* names of items
    Values,      \* what programs set, each [as : kinds, data : ...]
    MaxVersion,  \* bound: how often the note is stored
    None,        \* no thread, no note, no copy, no view, no edit
    Erased       \* the edit that takes items of a name away

VARIABLES
    stored,   \* the note in the database
    version,  \* how often it was stored
    creator,  \* the thread that created the note, if it was created
    own,      \* state_->hdl: the copy of that thread until the note is saved
    named,    \* state_->note_id is that of a stored note
    copies,   \* copies[t]: the copy that the store of t has
    holders,  \* the threads that hold a note object of the state
    views,    \* views[t]: an item_value that t has
    edits,    \* edits[t][k]: what t has done to k in its present copy, the last
              \* value set or Erased
    saving    \* how far save() of the creator is

vars == <<stored, version, creator, own, named, copies, holders, views, edits, saving>>

-----------------------------------------------------------------------------
(* Values: note_value<T>::apply() and object_value<T>::convert().          *)

ItemType == [string |-> "text", double |-> "number", time |-> "time",
             list |-> "text_list", formula |-> "formula"]

\* The data of an item, without its type word: a list has no prefix of its own.
Apply(v) == [type |-> ItemType[v.as], data |-> v.data]

\* A text converts to the list of itself, everything else to its own type only.
Convert(item, as) ==
    IF as = "list" /\ item.type = "text" THEN [as |-> as, data |-> <<item.data>>]
    ELSE IF item.type = ItemType[as] THEN [as |-> as, data |-> item.data]
    ELSE None

Items == {Apply(v) : v \in Values}
NoItems == [k \in Keys |-> <<>>]
NoEdits == [k \in Keys |-> None]

ItemMaps == [Keys -> Seq(Items)]

\* A copy was read from the stored note of the version base, 0 for a new note.
Copies == [base : 0 .. MaxVersion, items : ItemMaps]

\* An item_value: in which handle of its thread, whether that is still open, at which of
\* the items of the name, 0 when that was erased, and the item that its value_bid_ and
\* size_ describe, None when the item has got another value since or was erased.
ViewStates ==
    [through : {"own", "store"}, open : BOOLEAN, key : Keys, index : Nat,
     read : Items \cup {None}]

ASSUME NoteItemsAssumption ==
    /\ MaxVersion \in Nat \ {0}
    /\ \A v \in Values :
          v.as \in DOMAIN ItemType /\ v = [as |-> v.as, data |-> v.data]
    /\ Erased \notin Values /\ Erased # None
    /\ None \notin Threads /\ None \notin Values /\ None \notin ItemMaps
    /\ None \notin Items /\ None \notin Copies /\ None \notin ViewStates

-----------------------------------------------------------------------------
Init ==
    /\ stored = None \/ \E f \in [Keys -> {<<>>} \cup {<<i, j>> : i, j \in Items}] : stored = f
    /\ version = IF stored = None THEN 0 ELSE 1
    /\ creator = None /\ own = None /\ named = FALSE /\ saving = "no"
    /\ copies = [t \in Threads |-> None]
    /\ holders = {}
    /\ views = [t \in Threads |-> None]
    /\ edits = [t \in Threads |-> NoEdits]

\* Defect: an item_value does not keep the note.
AliveByNotes == holders # {}

\* Somebody holds the state: an item_value keeps the note that it was taken from.
Alive == holders # {} \/ \E t \in Threads : views[t] # None

Fresh == [base |-> version, items |-> stored]

\* The calling thread of a call that uses the note, and the copy c that
\* note::get_handle() returns: it throws for a created note on another thread.
Reaches(t, c) ==
    /\ t \in holders /\ ~(saving # "no" /\ t = creator)
    /\ \/ own # None /\ t = creator /\ c = own
       \/ own = None /\ copies[t] # None /\ c = copies[t]
       \/ own = None /\ copies[t] = None /\ named /\ stored # None /\ c = Fresh

\* The call leaves the copy c.
Leaves(t, c) ==
    IF own # None THEN own' = c /\ UNCHANGED copies
    ELSE copies' = [copies EXCEPT ![t] = c] /\ UNCHANGED own

\* What is known of the item_value v of the thread that changed the first item of k,
\* erased the first n items of k: nobody tells it.
OnItem(v, k) == v # None /\ v.open /\ v.key = k /\ v.index # 0
AfterModify(v, k) ==
    IF OnItem(v, k) /\ v.index = 1 THEN [v EXCEPT !.read = None] ELSE v
AfterErase(v, k, n) ==
    IF ~OnItem(v, k) THEN v
    ELSE IF v.index > n THEN [v EXCEPT !.index = v.index - n]
    ELSE [v EXCEPT !.index = 0, !.read = None]

\* What is lost when the handle of t in "own" or "store" is closed.
Closed(vs, t, through) ==
    [vs EXCEPT ![t] = IF @ # None /\ @.through = through THEN [@ EXCEPT !.open = FALSE] ELSE @]

-----------------------------------------------------------------------------
\* database::open_note() of the note; no object of an earlier state is left.
Open(t) ==
    /\ ~Alive /\ stored # None
    /\ copies' = [u \in Threads |-> IF u = t THEN Fresh ELSE None]
    /\ named' = TRUE /\ creator' = None /\ own' = None /\ holders' = {t}
    /\ edits' = [u \in Threads |-> NoEdits]
    /\ UNCHANGED <<stored, version, views, saving>>

\* note::create().
Create(t) ==
    /\ ~Alive /\ stored = None
    /\ own' = [base |-> 0, items |-> NoItems] /\ creator' = t
    /\ named' = FALSE /\ copies' = [u \in Threads |-> None] /\ holders' = {t}
    /\ edits' = [u \in Threads |-> NoEdits]
    /\ UNCHANGED <<stored, version, views, saving>>

\* The object is copied to the thread u; the object of t is destroyed.
Share(t, u) ==
    /\ t \in holders /\ u \notin holders
    /\ holders' = holders \cup {u}
    /\ UNCHANGED <<stored, version, creator, own, named, copies, views, edits, saving>>

Drop(t) ==
    /\ t \in holders /\ ~(saving # "no" /\ t = creator)
    /\ holders' = holders \ {t}
    /\ UNCHANGED <<stored, version, creator, own, named, copies, views, edits, saving>>

\* A call for some other note: remove_stale() closes the handle of an expired state.
Sweep(t) ==
    /\ ~Alive /\ copies[t] # None
    /\ copies' = [copies EXCEPT ![t] = None]
    /\ views' = Closed(views, t, "store")
    /\ edits' = [edits EXCEPT ![t] = NoEdits]
    /\ UNCHANGED <<stored, version, creator, own, named, holders, saving>>

-----------------------------------------------------------------------------
\* has(), get(), get_type(), items(), info(): they read, but may have to open the
\* note first.
Look(t) ==
    \E c \in {own, copies[t], Fresh} :
        /\ Reaches(t, c) /\ Leaves(t, c)
        /\ UNCHANGED <<stored, version, creator, named, holders, views, edits, saving>>

\* The items of a name after NSFItemAppend, after NSFItemModifyValue.
Appended(s, item) == Append(s, item)
Modified(s, item) == [s EXCEPT ![1] = item]

\* The items of the copy c after set(k, v) or after another change of k.
WithItems(c, k, s) == [c EXCEPT !.items[k] = s]

Edit(t, k, v) ==
    /\ edits' = [edits EXCEPT ![t][k] = v]
    /\ UNCHANGED <<stored, version, creator, named, holders, saving>>

\* Defect: the value is appended also when there is an item of that name.
SetAppends(t, k, v) ==
    \E c \in {own, copies[t], Fresh} :
        /\ Reaches(t, c)
        /\ Leaves(t, WithItems(c, k, Appended(c.items[k], Apply(v))))
        /\ Edit(t, k, v) /\ UNCHANGED views

\* note::set(): has() chooses between modify_impl(), which changes the first
\* item of the name, and append_impl().
Set(t, k, v) ==
    \E c \in {own, copies[t], Fresh} :
        /\ Reaches(t, c)
        /\ LET s == c.items[k]
           IN  \/ /\ s # <<>> /\ Leaves(t, WithItems(c, k, Modified(s, Apply(v))))
                  /\ views' = [views EXCEPT ![t] = AfterModify(@, k)]
               \/ /\ s = <<>> /\ Leaves(t, WithItems(c, k, Appended(s, Apply(v))))
                  /\ UNCHANGED views
        /\ Edit(t, k, v)

\* note::erase(): of several items of the name the C API takes the first or all.
Erase(t, k) ==
    \E c \in {own, copies[t], Fresh} :
        /\ Reaches(t, c) /\ c.items[k] # <<>>
        /\ \E s \in {<<>>, Tail(c.items[k])} :
              /\ Leaves(t, WithItems(c, k, s))
              /\ views' = [views EXCEPT ![t] = AfterErase(@, k, Len(c.items[k]) - Len(s))]
        /\ Edit(t, k, Erased)

-----------------------------------------------------------------------------
\* get<item_value>(k): the first item of the name, by its block in that handle.
View(t, k) ==
    \E c \in {own, copies[t], Fresh} :
        /\ Reaches(t, c) /\ c.items[k] # <<>> /\ Leaves(t, c)
        /\ views' = [views EXCEPT ![t] =
              [through |-> IF own # None THEN "own" ELSE "store", open |-> TRUE,
               key |-> k, index |-> 1, read |-> c.items[k][1]]]
        /\ UNCHANGED <<stored, version, creator, named, holders, edits, saving>>

\* Defect: the handles are applied also when there is no next item.
StepUnchecked(t, forward) ==
    /\ views[t] # None /\ views[t].open /\ ~(saving # "no" /\ t = creator)
    /\ views' = [views EXCEPT ![t].index = IF forward THEN @ + 1 ELSE @ - 1]
    /\ UNCHANGED <<stored, version, creator, own, named, copies, holders, edits, saving>>

\* next() and previous() of an item_value whose handle is still open and whose item was
\* not erased: FALSE at either end, where the value stays as it is.
Step(t, forward) ==
    /\ views[t] # None /\ views[t].open /\ views[t].index # 0
    /\ ~(saving # "no" /\ t = creator)
    /\ LET v == views[t]
           c == IF v.through = "own" THEN own ELSE copies[t]
           i == IF forward THEN v.index + 1 ELSE v.index - 1
       IN  /\ i \in DOMAIN c.items[v.key]
           /\ views' = [views EXCEPT ![t].index = i, ![t].read = c.items[v.key][i]]
    /\ UNCHANGED <<stored, version, creator, own, named, copies, holders, edits, saving>>

Forget(t) ==
    /\ views[t] # None
    /\ views' = [views EXCEPT ![t] = None]
    /\ UNCHANGED <<stored, version, creator, own, named, copies, holders, edits, saving>>

-----------------------------------------------------------------------------
\* NSFNoteUpdate accepts the copy c: without force only when the note was not
\* stored or deleted since c was read.
NSFNoteUpdate(c, flags) ==
    flags = "force" \/ c.base = 0 \/ (stored # None /\ c.base = version)

\* Defect: the flag is inverted.
InvertedFlags(force) == IF force THEN "0" ELSE "force"

Flags(force) == IF force THEN "force" ELSE "0"

\* note::save(): of a created note this is its first step.
Save(t, force) ==
    \E c \in {own, copies[t], Fresh} :
        /\ Reaches(t, c) /\ version < MaxVersion
        /\ NSFNoteUpdate(c, Flags(force)) /\ stored' = c.items
        /\ version' = version + 1
        /\ Leaves(t, [c EXCEPT !.base = version + 1])
        /\ saving' = IF own # None THEN "updated" ELSE saving
        /\ UNCHANGED <<creator, named, holders, views, edits>>

\* ... the note id is read from the handle,
NameNote ==
    /\ saving = "updated" /\ saving' = "named"
    /\ named' = TRUE
    /\ UNCHANGED <<stored, version, creator, own, copies, holders, views, edits>>

\* Defect: the handle is closed before the note id is read.
CloseOwnFirst ==
    /\ saving = "updated" /\ own # None /\ UNCHANGED saving
    /\ own' = None
    /\ views' = Closed(views, creator, "own")
    /\ edits' = [edits EXCEPT ![creator] = NoEdits]
    /\ UNCHANGED <<stored, version, creator, named, copies, holders>>

\* ... and the handle is closed.
CloseOwn ==
    /\ saving = "named" /\ saving' = "no"
    /\ own' = None
    /\ views' = Closed(views, creator, "own")
    /\ edits' = [edits EXCEPT ![creator] = NoEdits]
    /\ UNCHANGED <<stored, version, creator, named, copies, holders>>

\* note::remove(): by its note id, which an unsaved note does not have.
Remove(t) ==
    \E c \in {own, copies[t], Fresh} :
        /\ Reaches(t, c) /\ c.base # 0 /\ stored # None /\ Leaves(t, c)
        /\ stored' = None
        /\ UNCHANGED <<version, creator, named, holders, views, edits, saving>>

\* Another user stores the note with some item changed or added.
OtherUser ==
    /\ stored # None /\ version < MaxVersion
    /\ \E k \in Keys, i \in Items :
          stored' = [stored EXCEPT ![k] = IF @ = <<>> THEN <<i>> ELSE Modified(@, i)]
    /\ version' = version + 1
    /\ UNCHANGED <<creator, own, named, copies, holders, views, edits, saving>>

Call(t) ==
    \/ Open(t) \/ Create(t) \/ Drop(t) \/ Sweep(t) \/ Look(t) \/ Forget(t) \/ Remove(t)
    \/ \E u \in Threads : Share(t, u)
    \/ \E k \in Keys : View(t, k) \/ Erase(t, k) \/ \E v \in Values : Set(t, k, v)
    \/ \E b \in BOOLEAN : Step(t, b) \/ Save(t, b)

Next == NameNote \/ CloseOwn \/ OtherUser \/ \E t \in Threads : Call(t)

Spec == Init /\ [][Next]_vars

-----------------------------------------------------------------------------
\* The copy that t works with.
Mine(t) == IF own # None /\ t = creator THEN own ELSE copies[t]

TypeOK ==
    /\ stored \in ItemMaps \cup {None}
    /\ version \in 0 .. MaxVersion
    /\ creator \in Threads \cup {None}
    /\ own \in Copies \cup {None}
    /\ named \in BOOLEAN
    /\ copies \in [Threads -> Copies \cup {None}]
    /\ holders \subseteq Threads
    /\ views \in [Threads -> ViewStates \cup {None}]
    /\ edits \in [Threads -> [Keys -> Values \cup {Erased, None}]]
    /\ saving \in {"no", "updated", "named"}

\* The item_value v describes an item of the copy c, or its thread, whose edits are e,
\* has changed the name.
Describes(v, c, e) ==
    /\ v.index # 0 => v.index \in DOMAIN c.items[v.key]
    /\ v.read # None => v.index # 0 /\ c.items[v.key][v.index] = v.read
    /\ v.read = None => e[v.key] # None

\* An item_value pins what it was taken from (its note_ member): the handle in the
\* store of its thread stays open, whatever becomes of the note objects; for the handle
\* of a created note this ends at save().  In that handle it stands on an item, of which
\* its block and size are right, for as long as its own thread leaves the name alone:
\* what other threads and users do to the note, its saves and its removal do not come
\* through.  A set() or erase() of the thread itself does, and the value does not notice.
ValuesPinned ==
    \A t \in Threads :
        LET v == views[t]
            c == IF v.through = "own" THEN own ELSE copies[t]
        IN  v # None /\ (v.through = "store" \/ own # None) =>
                v.open /\ c # None /\ Describes(v, c, edits[t])

\* What a thread has set it gets back, converted to the same type, for as long as
\* somebody holds the note: no sweep, no save of another thread and no second item
\* of the name comes between set() and get().
ReadsBack ==
    Alive => \A t \in Threads, k \in Keys :
        edits[t][k] \in Values =>
            /\ Mine(t) # None /\ Mine(t).items[k] # <<>>
            /\ Convert(Mine(t).items[k][1], edits[t][k].as) = edits[t][k]

\* A thread that finds no handle in the shared state finds a note id in it: save()
\* stores the id before it drops the handle, and only after a successful update.
OpensSavedNotes == Alive /\ own = None => named

\* What an erase may leave of a sequence of items.
Ends(s) == {SubSeq(s, i, Len(s)) : i \in 1 .. Len(s) + 1}

\* The items now of a name come from the items old by the edit e and by nothing else.
Merged(e, now, old) ==
    /\ e = None => now = old
    /\ e = Erased => now \in Ends(old)
    /\ e \in Values => /\ now # <<>> /\ Convert(now[1], e.as) = e
                       /\ Tail(now) \in Ends(old)

\* save() without force writes the whole copy of its thread, and yet it is as if it
\* applied the edits of the thread to the note that is stored now: no other name
\* changes, and no value under an edited one, though other threads and other users
\* may have stored the note since the copy was opened.
UnforcedSaveMerges ==
    [][\A t \in Threads :
          Save(t, FALSE) /\ stored # None =>
              \A k \in Keys : Merged(edits[t][k], stored'[k], stored[k])]_vars
=============================================================================
