# A verification model of dmn-cpp

dmn-cpp wraps the HCL Domino C API in C++ objects. This directory holds TLA+
modules translated from its source, configurations that model-check them on
small instances with TLC, and theorems about them that TLAPS checks for every
value of the constants. Paths below are relative to the repository root; line
numbers of every definition are in `PROJECT.json` under `map`.

## The system and its parts

| part | state | operations | what must be right |
| --- | --- | --- | --- |
| `detail/scoped_handle.hpp` | a native handle, its close function, the owning thread | construct, move, release, reset, put, destroy | closed once, by the thread that opened it, never lost |
| `detail/thread_context`, `detail/runtime`, `thread.hpp` | one context per thread; in it one store per class that maps the address of an object state to a handle of the thread | create and end a context; find, insert and sweep in a store | a store holds open handles of its own thread; expired entries are closed by that thread |
| `database` | shared state: path and names list | open, create, remove, get_handle, run_query | each thread uses a handle of its own; a named database stays on the thread of the list |
| `note` | shared state: the database, the note id, the handle of an unsaved note | open by id and by universal id, create, save, remove, items | the database handle outlives the note handles opened through it; the handle of an unsaved note is closed once |
| `view` | a collection handle | iterate, get_entries with key, count and offset | the callback sees the page asked for, in order, whatever batches the API returns |
| `acl/manager`, `acl/entry`, `acl/role` | a buffer shared by all copies of a manager; entry objects are copies of entries | read, save, add, update, remove, roles | an object agrees with its entry after a change; roles survive their translation to names and back; unknown roles are refused |
| `note_lock` | a lock on a note, the note it refers to | acquire, try_acquire, unlock | a lock is released once |
| items: `note_value`, `object_value`, `item_value` | the items of each thread's copy of a note; the block of an item and its place | set, get, erase, take a value, step through equal names | what was set is read back; a value stays on an item of an open handle; an unforced save adds the edits of its thread to what is stored, and changes nothing else |
| `detail/locker`, `detail/cursor` | an OS memory handle, locked or not, owned or borrowed | take, borrow, free, release; bounded reads and writes | unlocked once, freed once by its owner, never moved under a cursor |
| `acl/names`, `list`, `formula`, `lotusscript`, `value` | one block of memory each | build, read, edit, compile, decompile, clone, give away | one object frees a block, or the C API does |
| `design/view`, `design/column`, with parts of `formula` | columns, a sequence number, the selection formula, the items of the design note | add and configure columns, set the selection, save | generated item names differ; what is stored is one consistent design, also when earlier saves failed half way |
| `design/agent`, `agent` | the items of a design note, a run context | create, set code, save; open, run | what is saved is consistent, also after a failure |
| `messaging/mail` | a message under construction, four lists of recipients | add, set the body, send | all recipients or nobody, once; the header names each of them |
| `dql` | expressions | factories, render | the text means what the tree means |
| `addin/*` | a status line and a loop | enter_loop, log | the loop ends when the server asks for it |

The parts interact by calls. The shared state is small, and it is where the
difficulty lies: `shared_ptr` states whose last reference may be dropped by any
thread, per-thread stores that learn of this only when they are swept, and one
static context that belongs to whichever thread came first. The C API adds
batches of results, and documents that other sessions delete meanwhile.

## Modules

```
HandleOwnership            what the C API demands: a handle belongs to the thread that opened it
  <- ScopedHandle          one wrapper class          (ScopedHandle_proofs)
  <- ThreadObjects         stores, databases, notes   (ThreadObjects_proofs)
NoteItems                  items of one note in the copies of the threads (NoteItems_proofs)
Delivery                   what a mail object promises
  <- Programs              three kinds of programs    (Programs_proofs)
       Memory              blocks, lockers, and the objects that keep blocks
       Mail                messages; extends Memory
       AgentDesign         agents; extends Memory
ViewIterate                paging through a view      (ViewIterate_proofs)
Acl                        buffers, entry objects, roles (Acl_proofs)
DesignView                 building and saving views  (DesignView_proofs)
Dql                        building and rendering queries (Dql_proofs)
MC*                        instances for TLC
```

`A <- B` means that B implements A, which is checked as a property and proved.
ScopedHandle and ThreadObjects declare `Ownership == INSTANCE HandleOwnership`; the
refinement mapping is the identity on `opener` and `offThread`. Programs declares
`Delivers == INSTANCE Delivery WITH`: `addressed` are the recipients of the message
or, before the message has any, those in the list of the mail object; `delivered`
are the recipients of a message that was transferred. Programs extends Mail and
AgentDesign, which share the blocks and the objects of Memory.

Definitions whose comment begins with "Defect:" are altered forms of the
definition that follows. They are not part of a specification; they show, for
each property, a mistake in the code that the property finds.

### HandleOwnership
`opener[h]` is the thread for which handle `h` is open. A step is one call on one
thread, which closes some of the handles of that thread and opens others.
`offThread` stays false: nobody closes a handle of somebody else.

### ScopedHandle
`hdl`, `armed` and `owner` are the members `hdl_`, `cleanup` (empty after a
move) and `owner_` of each wrapper. There is one action for each constructor,
move operation and method that changes something; a method that throws changes
nothing and has no action. Moves may run on any thread, as in the code, where
only the target of an assignment is checked. `loose` is the set of open handles
that are plain numbers in a caller's variable. `Terminate` is the call of
`std::terminate` in the destructor and in the move assignment; nothing happens
after it, which is why this run (and the next) does not check for deadlock.

Two rules of use come from the callers and not from the class: `data()` is
called on empty wrappers only, and nobody puts a handle into a wrapper it has
moved from. Without either of them a handle would be lost.

### ThreadObjects
`holders[o]` are the threads with a reference to the state of object `o`;
`entry[t][o]` is the handle in the store of thread `t`; `own[n]` is
`note::state::hdl`; `via[h]` is the database handle that a note handle was
opened through; `leaked` are handles in no variable at all. Every public call
is one action and includes the sweeps it makes, in the store of notes, of
databases or both, exactly where the code calls `remove_stale()`. A call may
fail at each of its uses of the C API, after the sweep or after the database was
opened. Calls of two threads are atomic with respect to each other: they share
reference counts and, for the time of one `save()` of an unsaved note, one
optional (a data race that this model does not describe).

The map of a store is keyed by address, and an address is used again only when
its state is dead *and* no store has an entry for it, because the weak reference
of an entry keeps the memory block. So `find()` never meets an entry of
another state, and its erasing branch is unreachable: `Unused` says this.

A context ends by `EndThread`; references captured by the function object of a
`dmn::thread` die later. `Exit` destroys the static context on the thread that
ends the process.

### ViewIterate
`pc` goes from `read` (in `NIFReadEntries`) to `deliver` (one entry of the batch
at a time) and back. The index is the sequence `1 .. len`; documents of it may
be deleted at any moment. `NIFReadEntries` is external: it returns between one
entry and all it could return, it raises its signal at least when something is
left, it may fail, and it leaves the position behind the batch, on which the code
relies by reading on with a skip count of 0. Skipping nothing from before the
first entry is taken to return either nothing or the first entry.

### Acl
`buffer[m]` is the memory that all copies of a manager share, `object[e]` an
entry object, `stored` the list in the database. A setter writes the changed copy
first (`Updates`) and then becomes it. A role is a bit in the buffer and a name
in an object. Names lists of roles have no repetitions, as `access::add_role()`
builds them. The level of an entry stands for its flags, its type and its
administration-server mark, which are written in the same call in the same way.

### DesignView
`columns` has the item name, the formula and the sort flags of each column, and in
`chosen`, a history variable, whether a caller chose the name; `sequence` is the number of the next generated item name; `selection` is the
selection formula, as the set of its summary items and the code that is merged
into it for each item; `items` are the three items of the note in memory and
`stored` those in the database. Formulas belong to the thread that compiled
them, so that a design is used by one thread and every call is one step.

`save()` is one action with many outcomes. It names the columns and writes the
names into their formulas (`NamingStops`), merges the formulas into the selection
(`MergingStops`), sets the items and saves the note (`SettingStops`), and each
of these loops may stop at each of its columns, leaving what it did before.
Taken from the use of the C API: `NSFFormulaMerge` appends, and the last formula
for an item counts. Left out are titles, fonts and colors, the constant items,
and the check for a view of the same title. Names are texts: a caller may choose the
empty name, which lets the view generate one, and `$1`, which `save()` does not
compare with the names that it generates. Two columns then share an item, the last
formula counts for both, and `ColumnsShowTheirFormulas` says that this is the only
way in which it happens.

### NoteItems
`stored` and `version` are the note in the database; `own` is the copy in
`note::state::hdl` while a created note is unsaved, and `copies[t]` that in the
store of thread `t`, with the version it was read from (`base`). `views[t]` is an
`item_value`: a handle, an item name, a place among the items of that name, and in
`read` what its block and its size describe. `set()` and `erase()` of the same thread
leave these members stale (`AfterModify`, `AfterErase`): the block of a changed item
may have moved, the item of an erased one is gone, and nobody tells the value.
`edits[t]` is a history variable with what the thread has set. `save()` of a
created note is three steps, since other threads look at the state meanwhile: the
update, `NameNote` and `CloseOwn`, in the order of `note.cpp:179-182`; every other
call is one. `NSFNoteUpdate` is external: without force it refuses a copy whose
base is not the present version. `OtherUser` stores the note at any time. `set()`
changes the first item of the name or appends one (`Set`); a value whose type is
known is applied and converted as `note_value` and `object_value` do it, where a
text is read as a list of itself but not the other way round.

### Memory
`mem` has, for each block, who must free it (`keeper`), the lock count and the
number of living lockers, and the set of faults that the C API would punish.
Each operator `OSMemAlloc`, `OSLock`, `Hold`, `Drop`, ... takes a memory and gives
the next one, so that an action is the composition of the calls that the function
makes, in program order, with the destructors at the end of their scopes. `kind`
and `slot` are the objects: their class and `hdl_`. `forgotten` are the blocks that
no variable has any more; `RejectScript` and `RunQuery` lose them.

### Mail
`entries` are the addresses in the four lists, `message` what the message of the C
API was given. `send()` is one action that stops after any of its ten calls: a list
whose call succeeded was taken over by the C API and is released, whatever
happens next. `add_*` may throw between its two lists. What a destroyed `mail`
still has is freed (`Discard`).

### AgentDesign
`design` are the items of the note in memory, `stored` those in the database,
`allocated` the database objects. `create()`, `set_code()` and `save()` stop after
any of their writes. `set_run_info()` frees its object unless all of its calls
succeeded, and an agent exists only after that. Compilation belongs to `save()` and
goes by the type item, which `set_code()` writes after the code.

### Programs
A program works with objects, writes messages, or builds agents. Which one it is
is chosen in the first state: they share the memory, the objects and the
invariants about them, and their interleaving on one memory would only multiply
the states.

### Dql
A program calls factories and joins the last of the expressions it has built;
`render` is translated word by word, with its quotes, escapes and parentheses. An
expression is a tree that never changes once it is built, so that it is represented
by what a caller can tell of it: its mode, its text, and in `selects` the documents
that its factories were asked for (a document is the set of the atomic terms that
hold of it). `Read` is the reference: it splits a text at the last `or`, or else at
the last `and`, outside of strings and parentheses, and gives the documents that the
text selects. It shares nothing with `render`, and `MeaningKept` compares the two.
Both are recursive functions on the length of the text, not RECURSIVE operators, so
that they can be proved about.

A program may use every field, string and number that the factories accept. For three
of them the text does not mean what was built: a field that is called like a word of
the language, which `is_valid_identifier()` accepts; a string value with the words
that an escape writes, since `quote()` lets backslashes pass; and a double with more
than six decimals, which `render_double()` rounds (`SixDecimals`). `MeaningKept` is said
of the expressions without such a term (`Exact`, `Writable`), and `OneTextTwoMeanings`
proves for the strings and the numbers that no reader of texts could do better.

## Runs

| run | expectation | what it shows | bounds |
| --- | --- | --- | --- |
| `scoped_handle` | pass | types, single ownership, owner is opener, nothing lost, refinement | 2 threads, 3 wrappers, 3 handles: a chain of moves while both threads own something |
| `thread_objects` | pass | six invariants, order of closing, which step aborts the process, refinement | 2 threads, 2 databases, 1 note, 3 handles: a live note with its database and an expired database in one store |
| `note_items` | pass | types, values stay on open items and what they know of them is stale only after a change of their own thread, edits are read back, threads find the note, a save without force merges the thread's edits into the stored note | 2 threads, 1 item name, 3 values of 3 types, 3 stored versions: two items of one name, and a save by another user between a read and a save |
| `programs` | pass | memory is used correctly, one keeper for each block, no lock left behind; messages are delivered as Delivery says, with their recipients named; agents are compiled and their objects exist | 4 blocks (a call needs at most 4 at once), 2 objects, 2 addresses, 2 scripts, 1 formula, 2 database objects |
| `dql` | pass | a rendered query whose terms can be written means what its factories say | 3 terms and 2 groups of them, 1 field, a number that is rounded and one that is not, a text of a quote, a keyword, a parenthesis and a line end and a text of an escape, databases that tell any two atoms apart: groups in groups, negated terms, strings that look like the language. A field like a keyword is in the theorem only |
| `unid_leak` | violation | a handle nobody remembers after `note::open(db, unid)` | as above |
| `view_iterate` | pass | only the page, the whole page, in order, and the call ends | at most 4 entries, unsigned numbers up to 5: offsets and counts below, at and above the length and the largest number |
| `view_offset` | violation | an offset without a key shortens the page | as above |
| `acl` | pass | objects agree after changes, level changes keep the roles, unknown roles are refused if role names differ | 1 manager, 2 objects, 2 names, 2 levels, 2 roles in 2 slots |
| `acl_roles` | violation | unknown roles are accepted if two slots have one name | as above |
| `design_view` | pass | generated names differ, a stored design belongs together, types | 2 columns, 7 calls: save, give both columns new formulas, save again, with failures; callers choose a name of their own, `$1`, or none; the calls are bounded, so the end of a behaviour is not a deadlock |
| `design_resave` | violation | a second save, or a retry, is refused for well configured columns | as above |

Symmetry is used for model values only and never together with a liveness
property. `StoredHasNoEntry` in MCAcl limits the number of states: states whose
stored list has entries are checked but not explored further. Nothing but `Open`
reads that list, and every buffer it would produce is reached by editing.

The programs of `dql` are bounded by their number of calls, so that the end of a
behaviour is not a deadlock; `scoped_handle` and `thread_objects` end with
`std::terminate` or with the process. All other passing runs check for deadlock,
except `design_view`, as said above.

Fairness is assumed once, in `ViewIterate`: weak fairness of `Running`, because a
thread inside `iterate()` is scheduled and calls of the C API return. Nothing is
assumed of the other sessions or of the callers.

### Disagreements with the documentation
* `note::open(db, unid)` (src/src/note.cpp:84-95) never closes the handle of
  `NSFNoteOpenByUNID`. `OnlyUnidOpenLeaks` proves that nothing else leaks in this
  way.
* `view::iterate` without a key (src/src/view.cpp:138-140) passes `opts.count` as
  the number of entries, so an offset of `k` reads `count - k` entries, and none
  when `k >= count`.
* `roles_to_native` (src/src/acl/manager.cpp:67-80) compares the number of slots
  that matched with the number of roles, so one role in two slots makes up for
  an unknown one.
* `formula::add_item_name` (src/src/formula.cpp:82) refuses a formula that has an
  item name, and `view::save` itself writes names into the formulas of the
  columns. So a second `save()`, or a retry after a failure, throws
  `runtime_error`, which src/include/dmn/design/view.hpp:66-68 announces for
  misconfigured column formulas.

Smaller ones, seen on the way and not checked by a run:
* An empty key reads from before the first entry like no key, but does not skip the
  extra position (src/src/view.cpp:38).
* `run_query()` never frees the error and the explanation text
  (src/src/database.cpp:93-98); `OneKeeper` proves that nothing else is lost.
* `note_lock::try_unlock()` announces to return false when the database handle is
  unavailable (src/include/dmn/note_lock.hpp:48) and dereferences the empty
  optional then (src/src/note_lock.cpp:50).
* The size of a script is announced with its null terminator
  (src/include/dmn/lotusscript.hpp:20) and taken without (src/src/lotusscript.cpp:37).
* A list made from bytes keeps `size_` at 0 (src/src/list.cpp:27).
* `render_double` writes six decimals, and `quote` leaves backslashes alone, so that
  a text with a backslash and an `n` is rendered like one with a line end
  (src/src/dql.cpp).

## Proofs

The proofs cover every number of threads, objects, wrappers, handles, entries,
managers, roles, columns and calls, and every unsigned width. They assume only
that the null values are not members of the sets (`NullAssumption`), that
databases and notes have different addresses, that the length of an index fits
into the unsigned type (`SizeAssumption`), that there are finitely many role
names and at least one slot (`RolesAssumption`, `CapacityAssumption`), that
the bounds of a design and of the versions of a note are numbers and the values that
programs set are of a known kind (`DesignAssumption`, `NoteItemsAssumption`), that the lists of a message are objects
(`MailAssumption`), that the two languages have no code in common
(`AgentAssumption`), and that strings of queries are sequences of words, rounding maps
numbers to numbers, and no operator and no number is called like a word of the language
(`DqlAssumption`).

The library's induction theorems take an operator as parameter, which the provers
cannot instantiate. Where a proof is by induction over numbers, it is therefore
stated for sets: every non-empty set of natural numbers has a least element
(`Least`, `Largest`), by the library's well-foundedness of the natural numbers.

**ScopedHandle.** The three safety invariants and the types are inductive
together (`IInv`), with one lemma per action. A close of a wrapper's own handle
(`CloseOwn`) is what six of the actions share. The refinement follows, since the
handle a wrapper closes on its owner's thread was opened by that thread.

**ThreadObjects.** The invariants the run checks are not inductive by
themselves. `IInv` adds to them: handles in stores belong to live contexts
(`HeapInv`), a note that is held or still has an entry refers to a database, an
entry of a named database is on the thread of the list, and a live note's entry
goes with an entry of its database through which it was opened (`RefInv`). For
notes that are not saved, whose handle is in no store, it adds that a database
handle through which something was opened is still cached by the thread that opened
both (`ViaIsCached`), and
that it is the handle of the note's own database (`OwnHandleHasItsDb`); then no
sweep closes a database handle under a note that lives on, which is
`DbOutlivesItsNotes` (`CallOutlives`). Every call is one instance of `Call`, so that its effect on the heap is proved once
(`CallKeepsHeap`, `CallKeepsRefs`), from the conditions that its sweep takes only
expired entries and that its new handles are fresh; each action then has to show
only these conditions. `AbortsAreAffine` ties an abort to the object that the very step
destroys, or to `Exit`: it follows from `IInv` and the two actions that can abort. An
aborting step may leave the handle of an unsaved note in an object that is not alive,
so that `IInv` holds until then; its part
`AbortInv` holds afterwards too and is all that the invariants of the run need.

Three theorems say what the run does not: a note handle and the database handle behind
it belong to one thread (`NoteAndDbShareThread`); a thread whose context has ended
leaves nothing open but leaked handles and those of unsaved notes that are still held
(`ContextsCleanUp`); and a thread keeps one handle of an object as long as the object
is alive (`OneHandleForLife`). On the last one NoteItems relies, where a thread loses
its copy of a note only when nobody holds the note (`Sweep`).

**ViewIterate.** `IInv` relates the position, the skip count and the remaining
count to the page: the next position to be read is the first of the page that has
not been read, and what remains reaches exactly to the end of the page. This is
the invariant the code's comment-free arithmetic rests on. `OnlyThePage`,
`WholePage` and the order of delivery follow from it. The page of a call without a
key ends at the position `count`, whatever the offset: `Reached` is that part of the
page, and the theorems are sharp in saying that it is delivered and nothing else
(but for documents deleted meanwhile),
which is the finding `view_offset` for all sizes. `EveryStepProgresses` is the
safety half of `Terminates`: each step of the call makes `Work` smaller, a natural
number of `3 * count + 1` at most that no other session changes. What remains to TLC
is that a running call is scheduled at all.

**Acl.** `IInv` adds two facts to the types: the bits of an entry are roles that
are defined (`BufferInv`), since roles are renamed and never taken away, and the
list of an object has at least as many elements as names (`ListInv`). The count
in `roles_to_native()` is then enough for two different reasons. When no two
slots have one name, bits map to names one to one, so as many bits as elements
means that every name was found (`ChecksNames`). When they do, the bits found for
an unchanged object include the old ones, and a finite set that includes another
of the same size is that set (`LevelChangesKeepRoles`). The same sets say when such a
change is refused: exactly when another slot has the name of one of the roles
(`RolesSurviveTheRoundTrip`), so that the check has no false alarms without duplicates.

**DesignView.** `IInv` adds that the sequence number is above every generated
name of a column and that a call uses at most one number for each column. The
name of a column is its rank among the columns without a name, so names grow with
the column (`NewNamesDiffer`), wherever the loop stops. For `StoredBelongsTogether`
the proof needs the last of the columns with one name, which exists because the
order of natural numbers is well-founded (`Largest`). `StoredBelongsTogether` speaks
of the values of columns whose names differ; `ColumnsShowTheirFormulas` reduces this
to the names that callers choose, since the names that were generated differ in what is
stored, too (`StoredNames`): the caller's names must be neither each other's nor one of
those.

**NoteItems.** `IInv` adds six facts to the types: what a thread has set is the
first item of its present copy, also when nobody holds the note any more
(`EditsInCopy`); a value in the handle of the shared state is the creator's
(`OwnViews`); while a save is under way its thread has neither dropped the note nor
lost the handle, and the note id is set before the handle is given up
(`SaveInProgress`); only an unsaved note has a copy without a version
(`Versions`); a thread has a copy in one of the two places (`OneKind`); and a copy of
the version that is stored now differs from it by the edits of its thread and by
nothing else (`EditsOverBase`). The last one is what makes `UnforcedSaveMerges`, an
action property, follow: without force `NSFNoteUpdate` takes only such a copy. `OpensSavedNotes` is the reason why the order of the two assignments in
`save()` matters. The library's theorems on sequences give the items that erasing
leaves behind.

**Programs.** One call of the C API changes one block (`Becomes`), and a call of the
library is a chain of these; its result is stated once as the blocks that change
their keeper, with no cursor left and no other lock changed (`Effect`). `MemInv` says
which objects have blocks, `MailInv` relates the lists of a message to what the
message was given, `AgentInv` the items of an agent to the database objects. That
`mail` implements Delivery needs the released lists: once the recipients were given
to the message their list is gone, so that neither a second `send()` nor an `add_*`
gets any further. `NothingLeftBehind` draws the sum for the end of a program: no object,
no block, apart from those that `RejectScript` and `RunQuery` forget, and messages and
agents forget none.

**Dql.** `MeaningIsKept` is about expressions of any depth and texts of any length,
as far as their terms can be written.
The invariant (`IInv`) says of every such expression that its text is a good one for its
mode and is read as what the expression selects (`GoodExpressions`). What makes a text
good is stated by counting. `Neat`: the quotes come in pairs, the parentheses outside
of strings match, and neither count is ever negative on the way. `Plain`: it is neat
and has no separator, no `and` or `or`, outside of its strings and parentheses. A
quoted text is plain whatever its words are (`QuoteProperties`), and so is a neat text
in parentheses (`PlainParens`); this is where the escape of a quote and
`needs_parens` are needed. A joined text is split by the reader at its last separator
(`JoinPlaces`), which gives the text of all children but the last and that of the
last one, so that an induction over the number of children ends in the union or the
intersection of what they select (`JoinRead`). Strings are read back word by word
(`UnquotedPieces`, `ValueRead`). `OneTextTwoMeanings` shows that the restriction is not
one of the model: two values with one text, and any function from texts to documents
gets one of the two comparisons wrong.

Checked by TLC only: `Terminates` of `iterate()`, because liveness under fairness and
`ENABLED` are out of reach of the prover. Everything else that a passing run checks is
a theorem.

## Not modelled

* **Note locks.** What a persistent lock promises is in the API. The class has a
  flag, a database object and a note id; the handle it uses is that of `DbGet`. The
  line where it goes wrong is listed above.
* **The add-in loop.** It calls the idle function of the API, the callback and the
  termination function in turn; that it ends is a promise of the server. A static
  mutex lets one loop run at a time.
* **Text conversion, times, identifiers; tables of constants; `detail/ods`.** Pure
  functions and layouts without state. The bounds checks of a cursor and the
  decoding of the item table of a view entry are of this kind too.
* **Errors.** The classification of status words: each action has the outcomes
  success, not found and failure.
* **Calls that hand a handle to one function of the API**: `compute_with_form`,
  `sign`, `embed_element`, `copy_to_database`, `set_type` of a note, `open` of a view
  or an agent by name. They change nothing of what is modelled except by the handle they
  get, which is `NoteGet` or `DbGet`.
* **`database::run_query()`** is not an action of ThreadObjects: it opens one note
  after the other, and between two of them other threads may do anything, as between
  two calls of `NoteOpen`. Its memory is `RunQuery`.
* **Programs that call `release()` themselves**, that fill in a DQL expression by
  hand, or that step a value of an item after `save()` of a created note has closed
  the handle or after its item was erased. The classes do not forbid them, and the models leave them out.
* **Data races.** Calls of two threads are atomic with respect to each other, apart
  from `save()` in NoteItems. `OpensSavedNotes` takes for granted that threads see the
  two stores of `save()` in program order.
* **Arithmetic of doubles.** Rounding to six decimals is an arbitrary function of the
  words that numbers are.
