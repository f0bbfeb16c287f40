---------------------------- MODULE ViewIterate ----------------------------
(***************************************************************************)
(* dmn::view::iterate(): paging through the index of an open view.         *)
(*                                                                         *)
(* The index is the sequence of positions 1 .. len, fixed while the        *)
(* collection is open; the document of a position may be deleted at any    *)
(* time, by another session or by the callback itself.  NIFReadEntries     *)
(* returns a batch of positions at a time, and moves the COLLECTIONPOSITION *)
(* behind the batch: this is what view.cpp relies on when it reads on with *)
(* a skip count of 0.  Position 0 lies before the first entry.             *)
(***************************************************************************)
EXTENDS Naturals

CONSTANTS
    MaxEntries,   \* bound: entries in the index of a view
    Uint32Max     \* the largest uint32_t

ASSUME SizeAssumption ==
    MaxEntries \in Nat /\ Uint32Max \in Nat \ {0} /\ MaxEntries <= Uint32Max

Uint32 == 0 .. Uint32Max
Positions == 1 .. MaxEntries

\* query_options: no key, an empty key, or a key that may match entries.
Keys == {"none", "empty", "given"}
Options == [key : Keys, count : Uint32, offset : Uint32]

VARIABLES
    len,        \* number of entries of the index
    gone,       \* positions whose document has been deleted
    pc,         \* "idle", "read", "deliver", "done" or "failed" (an exception)
    opts,       \* the query options of the current call
    first,      \* position of the first entry that may be returned
    matches,    \* number of entries that may be returned
    pos,        \* the collection position
    skip,       \* current_skip
    remaining,  \* remaining
    batch,      \* entries_obj: the positions read and not delivered yet
    read,       \* entries_length
    signal,     \* SIGNAL_MORE_TO_DO
    called      \* positions the callback was called for

callVars == <<opts, first, matches>>
vars == <<len, gone, pc, callVars, pos, skip, remaining, batch, read, signal, called>>

MinOf(a, b) == IF a <= b THEN a ELSE b

NoOptions == [key |-> "none", count |-> 0, offset |-> 0]
NoBatch == [next |-> 1, last |-> 0]

Init ==
    /\ len \in 0 .. MaxEntries
    /\ gone \in SUBSET (1 .. len)
    /\ pc = "idle"
    /\ opts = NoOptions
    /\ first = 1 /\ matches = 0
    /\ pos = 0 /\ skip = 0 /\ remaining = 0
    /\ batch = NoBatch
    /\ read = 0
    /\ signal = FALSE
    /\ called = {}

-----------------------------------------------------------------------------
\* Defect: the offset is not taken from the entries that match the key.
RemainingIgnoringOffset(o, available) == MinOf(o.count, available)

\* remaining at the start of iterate_entries(), after its early return.
Remaining(o, available) == MinOf(o.count, available - o.offset)

\* current_skip: without a key the reading starts before the first entry.
Skip(o) ==
    IF o.key = "none" /\ o.offset # Uint32Max THEN o.offset + 1 ELSE o.offset

\* Defect: an offset behind the last entry does not end the call.
BeginEntriesUnchecked(o, at, available) ==
    /\ pos' = at
    /\ skip' = Skip(o)
    /\ signal' = TRUE
    /\ remaining' = Remaining(o, available)
    /\ pc' = "read"

\* iterate_entries() up to the first NIFReadEntries.
BeginEntries(o, at, available) ==
    /\ pos' = at
    /\ signal' = TRUE
    /\ IF o.offset >= available
         THEN pc' = "done" /\ UNCHANGED <<skip, remaining>>
         ELSE /\ remaining' = Remaining(o, available)
              /\ skip' = Skip(o)
              /\ pc' = IF remaining' = 0 THEN "done" ELSE "read"

\* view::iterate(): NIFFindByName finds the first of m adjacent entries, finds
\* none or fails.  Without a key count stands for the number of entries.
Iterate(o) ==
    /\ pc = "idle"
    /\ opts' = o
    /\ IF o.key # "given"
         THEN /\ first' = 1 /\ matches' = len
              /\ BeginEntries(o, 0, o.count)
         ELSE \/ \E f \in 1 .. len : \E m \in 1 .. (len - f + 1) :
                    /\ first' = f /\ matches' = m
                    /\ BeginEntries(o, f, m)
              \/ /\ pc' \in {"done", "failed"}
                 /\ first' = 1 /\ matches' = 0
                 /\ UNCHANGED <<pos, skip, remaining, signal>>
    /\ UNCHANGED <<len, gone, batch, read, called>>

\* The entries that NIFReadEntries may return: at most remaining, from start on.
Readable(start) == {i \in 1 .. len : start <= i /\ i < start + remaining}

\* Where it starts reading.  Skipping nothing before the first entry is not
\* defined: the result is empty or starts with the first entry.
Starts == IF pos + skip = 0 THEN {1, len + 1} ELSE {pos + skip}

\* NIFReadEntries returns a part of the readable entries, and the signal when it is
\* not all of them.
ReadEntries ==
    /\ pc = "read"
    /\ \/ /\ \E start \in Starts : \E k \in Uint32 :
                /\ read' = k
                /\ IF Readable(start) = {}
                     THEN /\ k = 0 /\ pc' = "done"
                          /\ signal' \in BOOLEAN
                          /\ UNCHANGED <<pos, batch>>
                     ELSE /\ k >= 1 /\ start + k - 1 \in Readable(start)
                          /\ pc' = "deliver"
                          /\ batch' = [next |-> start, last |-> start + k - 1]
                          /\ pos' = start + k
                          /\ signal' \in BOOLEAN
                          /\ start + k \in Readable(start) => signal'
       \/ pc' = "failed" /\ UNCHANGED <<pos, batch, read, signal>>
    /\ UNCHANGED <<len, gone, callVars, skip, remaining, called>>

\* One entry of the batch: get_note() and the callback, which may throw.  An entry
\* whose document is gone is passed over.
Deliver ==
    /\ pc = "deliver" /\ batch.next <= batch.last
    /\ batch' = [batch EXCEPT !.next = @ + 1]
    /\ \/ batch.next \notin gone /\ called' = called \cup {batch.next}
       \/ batch.next \in gone /\ UNCHANGED called
    /\ pc' \in {"deliver", "failed"}
    /\ UNCHANGED <<len, gone, callVars, pos, skip, remaining, read, signal>>

\* Defect: the skip count of the first batch is used again.
NextBatchSkipsAgain ==
    /\ pc = "deliver" /\ batch.next > batch.last
    /\ IF remaining <= read
         THEN pc' = "done" /\ UNCHANGED remaining
         ELSE /\ remaining' = remaining - read
              /\ pc' = IF signal THEN "read" ELSE "done"
    /\ UNCHANGED <<len, gone, callVars, pos, skip, batch, read, signal, called>>

\* Defect: the position is taken back to the first entry of the batch.
NextBatchRereads ==
    /\ pc = "deliver" /\ batch.next > batch.last
    /\ skip' = 0
    /\ pos' = pos - read
    /\ pc' = IF signal THEN "read" ELSE "done"
    /\ UNCHANGED <<len, gone, callVars, remaining, batch, read, signal, called>>

\* The end of a batch: return, or read on behind it.
NextBatch ==
    /\ pc = "deliver" /\ batch.next > batch.last
    /\ IF remaining <= read
         THEN pc' = "done" /\ UNCHANGED <<remaining, skip>>
         ELSE /\ remaining' = remaining - read
              /\ skip' = 0
              /\ pc' = IF signal THEN "read" ELSE "done"
    /\ UNCHANGED <<len, gone, callVars, pos, batch, read, signal, called>>

\* The call is over: its variables are gone, and the view may be read again.
Return ==
    /\ pc \in {"done", "failed"}
    /\ pc' = "idle"
    /\ opts' = NoOptions
    /\ first' = 1 /\ matches' = 0
    /\ pos' = 0 /\ skip' = 0 /\ remaining' = 0
    /\ batch' = NoBatch
    /\ read' = 0
    /\ signal' = FALSE
    /\ called' = {}
    /\ UNCHANGED <<len, gone>>

\* Somebody, perhaps the callback, deletes a document.
Delete(i) ==
    /\ i \in 1 .. len /\ i \notin gone
    /\ gone' = gone \cup {i}
    /\ UNCHANGED <<len, pc, callVars, pos, skip, remaining, batch, read, signal, called>>

Running == ReadEntries \/ Deliver \/ NextBatch

Next ==
    \/ \E o \in Options : Iterate(o)
    \/ Running
    \/ Return
    \/ \E i \in Positions : Delete(i)

Spec == Init /\ [][Next]_vars

\* A thread inside iterate() runs on, and calls of the C API return.
FairSpec == Spec /\ WF_vars(Running)

-----------------------------------------------------------------------------
TypeOK ==
    /\ len \in 0 .. MaxEntries
    /\ gone \subseteq 1 .. len
    /\ pc \in {"idle", "read", "deliver", "done", "failed"}
    /\ opts \in Options
    /\ first \in Nat \ {0} /\ matches \in 0 .. MaxEntries
    /\ pos \in Nat /\ skip \in Uint32 /\ remaining \in Uint32
    /\ batch \in [next : Nat, last : Nat]
    /\ read \in Uint32
    /\ signal \in BOOLEAN
    /\ called \subseteq Positions

\* The entries asked for, as view.hpp describes the options: those that match the
\* key, or all, without the first offset ones, and count of them at most.
Page == {i \in Positions : /\ first + opts.offset <= i
                           /\ i < first + matches
                           /\ i < first + opts.offset + opts.count}

\* The part of the page that the code reaches.  With a key or with offset 0 it is the
\* page; without a key count is taken for the number of entries of the view, so that
\* it ends at the position count however large the offset is.
Reached == IF opts.key = "given" THEN Page ELSE {i \in Page : i < first + opts.count}

\* However the reading is cut into batches, the callback never sees an entry
\* outside the page: in particular none behind the last match of the key.  (An
\* empty key starts before the first entry and skips as if it stood on it.)
OnlyPageIsCalled == opts.key # "empty" => called \subseteq Reached

\* A call that returned without an exception has seen every entry of that part whose
\* document exists: no batch loses an entry, and where the page is cut off it is cut
\* off at count and nowhere else.
PageIsComplete ==
    pc = "done" /\ opts.key # "empty" => Reached \subseteq called \cup gone

\* Number of entries to skip before starting: an offset moves the page, with a key
\* or without.
OffsetMovesPage ==
    pc = "done" /\ opts.key = "none" => Page \subseteq called \cup gone

\* Entries are taken in the order of the view and none is taken twice: whatever is
\* looked up next lies behind everything the callback has seen.
InViewOrder ==
    [][pc = "deliver" /\ batch'.next > batch.next =>
          \A j \in called : j < batch.next]_vars

\* Every call of iterate() comes to an end.
Terminates == pc \in {"read", "deliver"} ~> pc \in {"done", "failed"}
=============================================================================
