------------------------ MODULE ThreadObjects_proofs ------------------------
(***************************************************************************)
(* The handle discipline of databases and notes, for any sets of threads,  *)
(* objects and handles.                                                    *)
(***************************************************************************)
EXTENDS ThreadObjects, TLAPS

\* Handles outside the stores are open too, and belong to live notes.
OwnIsOpen == \A n \in Notes : own[n] # NoHandle => LiveNote(n) /\ opener[own[n]] \in Threads
LeakedIsOpen == \A h \in leaked : opener[h] \in Threads

\* The part of the invariant that is about handles ...
HeapInv ==
    /\ CachedHandleIsOpenHere
    /\ HandleHeldOnce
    /\ OwnIsOpen
    /\ LeakedIsOpen
    /\ OnlyUnidOpenLeaks
    /\ offThread = FALSE

LiveNoteHasDb == \A n \in Notes : LiveNote(n) => dbOf[n] \in Dbs

\* A handle that was opened through a database handle is open, and its thread has
\* that database handle in its store still.
ViaIsCached ==
    \A h \in Handles : via[h] # NoHandle =>
        /\ opener[h] \in Threads
        /\ \E d \in Dbs : entry[opener[h]][d] = via[h]

\* The handle of an unsaved note was opened through a handle of no other database
\* than its own.
OwnHandleHasItsDb ==
    \A n \in Notes : own[n] # NoHandle =>
        \A t \in Threads, d \in Dbs :
            entry[t][d] # NoHandle /\ via[own[n]] = entry[t][d] => d = dbOf[n]

\* ... and the part that relates them to the references between objects.
RefInv ==
    /\ LiveNoteHasDb
    /\ NoteHandleHasItsDb
    /\ NamedDbStaysHome
    /\ ViaIsCached
    /\ OwnHandleHasItsDb

IInv == TypeOK /\ HeapInv /\ RefInv

\* Where the destruction of an unsaved note aborts the process, its handle is left in
\* a note that is not alive.  The rest of the invariant holds after an abort too.
AbortInv ==
    /\ TypeOK
    /\ CachedHandleIsOpenHere
    /\ HandleHeldOnce
    /\ OnlyUnidOpenLeaks
    /\ offThread = FALSE
    /\ RefInv

Inv == AbortInv /\ (phase # "terminated" => IInv)

LEMMA StrongInv == (IInv => Inv) /\ (IInv' => Inv')
BY DEF Inv, IInv, AbortInv, HeapInv

LEMMA InitIInv == Init => IInv
<1> SUFFICES ASSUME Init PROVE IInv
  OBVIOUS
<1> USE NullAssumption DEF Init, Objects
<1>1. TypeOK
  BY DEF TypeOK
<1>2. HeapInv
  BY DEF HeapInv, CachedHandleIsOpenHere, HandleHeldOnce, OwnIsOpen, LeakedIsOpen,
         OnlyUnidOpenLeaks
<1>3. RefInv
  BY DEF RefInv, LiveNoteHasDb, LiveNote, NoteHandleHasItsDb, NamedDbStaysHome,
         ViaIsCached, OwnHandleHasItsDb
<1>4. QED
  BY <1>1, <1>2, <1>3 DEF IInv

-----------------------------------------------------------------------------
\* The arguments with which the actions describe a call of thread t: it sweeps
\* entries that exist, and fills an entry with a new handle only where there is
\* none.
GoodCall(t, swept, put, opened, noteHandles, hd) ==
    /\ swept \subseteq Cached(t)
    /\ opened \subseteq Free
    /\ noteHandles \subseteq opened
    /\ hd \in Handles \cup {NoHandle}
    /\ DOMAIN put \subseteq Objects
    /\ \A o \in DOMAIN put :
          \/ put[o] \in opened /\ entry[t][o] = NoHandle
          \/ put[o] = entry[t][o] /\ o \in Cached(t) \ swept
    /\ \A o, p \in DOMAIN put : put[o] = put[p] => o = p

Closed(t, swept) == {entry[t][o] : o \in swept}

\* What a good call leaves behind.
CallResult(t, swept, put, opened) ==
    /\ entry' \in [Threads -> [Objects -> Handles \cup {NoHandle}]]
    /\ opener' \in [Handles -> Threads \cup {NoThread}]
    /\ via' \in [Handles -> Handles \cup {NoHandle}]
    /\ offThread' = FALSE
    /\ \A u \in Threads, o \in Objects :
          \/ u = t /\ o \in DOMAIN put /\ entry'[u][o] = put[o]
          \/ u = t /\ o \notin DOMAIN put /\ o \in swept /\ entry'[u][o] = NoHandle
          \/ (u # t \/ o \notin DOMAIN put \cup swept) /\ entry'[u][o] = entry[u][o]
    /\ \A h \in Handles :
          \/ h \in opened /\ opener'[h] = t
          \/ h \notin opened /\ h \in Closed(t, swept) /\ opener'[h] = NoThread
          \/ h \notin opened \cup Closed(t, swept) /\ opener'[h] = opener[h]

LEMMA CallHasResult ==
    ASSUME IInv, NEW t \in Threads, NEW swept, NEW put, NEW opened, NEW noteHandles, NEW hd,
           GoodCall(t, swept, put, opened, noteHandles, hd),
           Call(t, swept, put, opened, noteHandles, hd)
    PROVE  CallResult(t, swept, put, opened)
<1> USE DEF GoodCall, Call, Closed
<1> DEFINE closed == {entry[t][o] : o \in swept}
<1>0. TypeOK
  BY DEF IInv
<1>1. \A o \in DOMAIN put : put[o] \in Handles
  BY <1>0, NullAssumption DEF TypeOK, Cached, Free
<1>2. entry' \in [Threads -> [Objects -> Handles \cup {NoHandle}]]
  BY <1>0, <1>1 DEF TypeOK
<1>3. \A h \in closed : h \in Handles /\ opener[h] = t
  BY <1>0 DEF IInv, HeapInv, CachedHandleIsOpenHere, Cached, TypeOK
<1>4. offThread' = FALSE
  BY <1>3 DEF IInv, HeapInv
<1>5. opener' \in [Handles -> Threads \cup {NoThread}]
  BY <1>0 DEF TypeOK
<1>6. via' \in [Handles -> Handles \cup {NoHandle}]
  BY <1>0 DEF TypeOK
<1>7. \A u \in Threads, o \in Objects :
          \/ u = t /\ o \in DOMAIN put /\ entry'[u][o] = put[o]
          \/ u = t /\ o \notin DOMAIN put /\ o \in swept /\ entry'[u][o] = NoHandle
          \/ (u # t \/ o \notin DOMAIN put \cup swept) /\ entry'[u][o] = entry[u][o]
  BY <1>0 DEF TypeOK
<1>8. \A h \in Handles :
          \/ h \in opened /\ opener'[h] = t
          \/ h \notin opened /\ h \in Closed(t, swept) /\ opener'[h] = NoThread
          \/ h \notin opened \cup Closed(t, swept) /\ opener'[h] = opener[h]
  BY <1>0 DEF TypeOK
<1>9. QED
  BY <1>2, <1>4, <1>5, <1>6, <1>7, <1>8 DEF CallResult

\* The new handles of a good call are in entries, except those in extra.
Covered(put, opened, extra) ==
    /\ extra \subseteq opened
    /\ \A o \in DOMAIN put : put[o] \notin extra
    /\ \A h \in opened \ extra : \E o \in DOMAIN put : put[o] = h

\* The unsaved notes after a call: those that had a handle have it still, and the
\* handles in kept have gone to one live note each.
OwnAfter(kept) ==
    /\ \A n \in Notes : \/ own'[n] = own[n]
                        \/ own[n] = NoHandle /\ own'[n] \in kept
    /\ \A n, m \in Notes : own'[n] \in kept /\ own'[n] = own'[m] => n = m
    /\ \A h \in kept : \E n \in Notes : own'[n] = h
    /\ \A n \in Notes : own'[n] # NoHandle => LiveNote(n)'

\* The stores after a good call: every entry holds a handle open for its thread,
\* and no two entries share one.
LEMMA EntriesAfterCall ==
    ASSUME IInv, NEW t \in Threads, NEW swept, NEW put, NEW opened, NEW noteHandles, NEW hd,
           GoodCall(t, swept, put, opened, noteHandles, hd),
           CallResult(t, swept, put, opened)
    PROVE  /\ \A u \in Threads, o \in Objects : entry'[u][o] # NoHandle =>
                 /\ opener'[entry'[u][o]] = u
                 /\ \/ entry'[u][o] = entry[u][o]
                    \/ u = t /\ o \in DOMAIN put /\ entry'[u][o] \in opened
           /\ \A u, v \in Threads, o, p \in Objects :
                 entry'[u][o] # NoHandle /\ entry'[u][o] = entry'[v][p] => u = v /\ o = p
           /\ \A h \in Closed(t, swept) : \E o \in Objects : entry[t][o] = h
<1>1. \A u \in Threads, o \in Objects : entry[u][o] # NoHandle =>
          entry[u][o] \in Handles /\ opener[entry[u][o]] = u /\ entry[u][o] \notin opened
  BY NullAssumption DEF IInv, TypeOK, GoodCall, HeapInv, CachedHandleIsOpenHere, Free
<1>2. \A u \in Threads, o \in Objects : entry'[u][o] # NoHandle =>
          \/ entry'[u][o] = entry[u][o] /\ (u = t => o \notin swept)
          \/ u = t /\ o \in DOMAIN put /\ entry'[u][o] \in opened
  BY DEF IInv, TypeOK, GoodCall, CallResult
<1>3. \A u \in Threads, o \in Objects :
          entry[u][o] # NoHandle /\ (u = t => o \notin swept)
          => entry[u][o] \notin Closed(t, swept)
  BY DEF Closed, IInv, HeapInv, HandleHeldOnce, Cached, GoodCall
<1>4. \A u \in Threads, o \in Objects : entry'[u][o] # NoHandle =>
                 opener'[entry'[u][o]] = u
  BY <1>1, <1>2, <1>3 DEF GoodCall, CallResult, Free
<1>5. \A u, v \in Threads, o, p \in Objects :
                 entry'[u][o] # NoHandle /\ entry'[u][o] = entry'[v][p] => u = v /\ o = p
  <2> SUFFICES ASSUME NEW u \in Threads, NEW v \in Threads, NEW o \in Objects,
                      NEW p \in Objects, entry'[u][o] # NoHandle, entry'[u][o] = entry'[v][p]
               PROVE  u = v /\ o = p
    OBVIOUS
  <2>1. CASE entry'[u][o] \in opened
    <3>1. u = t /\ o \in DOMAIN put /\ v = t /\ p \in DOMAIN put
      BY <2>1, <1>1, <1>2
    <3>2. entry'[t][o] = put[o] /\ entry'[t][p] = put[p]
      BY <3>1 DEF CallResult
    <3>3. put[o] = put[p] => o = p
      BY <3>1 DEF GoodCall
    <3>4. QED
      BY <3>1, <3>2, <3>3
  <2>2. CASE entry'[u][o] \notin opened
    <3>1. entry'[u][o] = entry[u][o] /\ entry'[v][p] = entry[v][p]
      BY <2>2, <1>2
    <3>2. entry[u][o] # NoHandle /\ entry[u][o] = entry[v][p]
      BY <3>1
    <3>3. QED
      BY <3>2 DEF IInv, HeapInv, HandleHeldOnce
  <2>3. QED
    BY <2>1, <2>2
<1>6. \A h \in Closed(t, swept) : \E o \in Objects : entry[t][o] = h
  BY DEF Closed, Cached, GoodCall
<1>7. QED
  BY <1>2, <1>4, <1>5, <1>6

\* A good call keeps the handle invariant when each new handle goes to an entry, to
\* an unsaved note (kept) or is leaked (lost).
LEMMA CallKeepsHeap ==
    ASSUME IInv, NEW t \in Threads, NEW swept, NEW put, NEW opened, NEW noteHandles, NEW hd,
           NEW kept, NEW lost,
           GoodCall(t, swept, put, opened, noteHandles, hd),
           Covered(put, opened, kept \cup lost), kept \cap lost = {},
           leaked' = leaked \cup lost, OwnAfter(kept),
           CallResult(t, swept, put, opened),
           \/ ctx[t] = "live" /\ ctx' = ctx
           \/ put = Nothing /\ swept = Cached(t) /\ \A u \in Threads \ {t} : ctx'[u] = ctx[u]
    PROVE  HeapInv'
<1> USE NullAssumption
<1> DEFINE extra == kept \cup lost
<1>0. /\ \A u \in Threads, o \in Objects : entry'[u][o] # NoHandle =>
            /\ opener'[entry'[u][o]] = u
            /\ \/ entry'[u][o] = entry[u][o]
               \/ u = t /\ o \in DOMAIN put /\ entry'[u][o] \in opened
      /\ \A u, v \in Threads, o, p \in Objects :
            entry'[u][o] # NoHandle /\ entry'[u][o] = entry'[v][p] => u = v /\ o = p
      /\ \A h \in Closed(t, swept) : \E o \in Objects : entry[t][o] = h
  BY EntriesAfterCall
<1>1. CachedHandleIsOpenHere'
  <2>1. CASE ctx[t] = "live" /\ ctx' = ctx
    BY <2>1, <1>0 DEF CachedHandleIsOpenHere, IInv, HeapInv
  <2>2. CASE put = Nothing /\ swept = Cached(t) /\ \A u \in Threads \ {t} : ctx'[u] = ctx[u]
    <3>1. \A o \in Objects : entry'[t][o] = NoHandle
      BY <2>2 DEF CallResult, Nothing, Cached
    <3>2. QED
      BY <2>2, <3>1, <1>0 DEF CachedHandleIsOpenHere, IInv, HeapInv, Nothing
  <2>3. QED
    BY <2>1, <2>2
<1>a. \A h \in opened : h \in Handles /\ opener[h] = NoThread /\ opener'[h] = t
  BY DEF GoodCall, CallResult, Free
<1>b. \A n \in Notes : own[n] # NoHandle =>
          /\ own[n] \in Handles /\ own[n] \notin opened
          /\ opener'[own[n]] = opener[own[n]]
  <2> SUFFICES ASSUME NEW n \in Notes, own[n] # NoHandle
               PROVE  /\ own[n] \in Handles /\ own[n] \notin opened
                      /\ opener'[own[n]] = opener[own[n]]
    OBVIOUS
  <2>1. own[n] \in Handles /\ opener[own[n]] \in Threads
    BY DEF IInv, TypeOK, HeapInv, OwnIsOpen
  <2>2. own[n] \notin Closed(t, swept)
    BY <1>0 DEF IInv, HeapInv, HandleHeldOnce
  <2>3. QED
    BY <2>1, <2>2, <1>a DEF CallResult
<1>c. \A h \in leaked : /\ h \in Handles /\ h \notin opened
                        /\ opener'[h] = opener[h] /\ opener[h] \in Threads
  <2> SUFFICES ASSUME NEW h \in leaked
               PROVE  /\ h \in Handles /\ h \notin opened
                      /\ opener'[h] = opener[h] /\ opener[h] \in Threads
    OBVIOUS
  <2>1. h \in Handles /\ opener[h] \in Threads
    BY DEF IInv, TypeOK, HeapInv, LeakedIsOpen
  <2>2. h \notin Closed(t, swept)
    BY <1>0 DEF IInv, HeapInv, HandleHeldOnce
  <2>3. QED
    BY <2>1, <2>2, <1>a DEF CallResult
<1>d. \A u \in Threads, o \in Objects : entry'[u][o] \notin extra
  <2> SUFFICES ASSUME NEW u \in Threads, NEW o \in Objects, entry'[u][o] \in extra
               PROVE  FALSE
    OBVIOUS
  <2>1. entry'[u][o] \in opened /\ entry'[u][o] # NoHandle
    BY <1>a DEF Covered
  <2>2. entry'[u][o] # entry[u][o]
    BY <2>1, <1>a DEF IInv, HeapInv, CachedHandleIsOpenHere
  <2>3. u = t /\ o \in DOMAIN put
    BY <2>1, <2>2, <1>0
  <2>4. QED
    BY <2>3 DEF CallResult, Covered
<1>e. \A n \in Notes : own'[n] # NoHandle =>
          \/ own'[n] = own[n]
          \/ own'[n] \in kept /\ own'[n] \in opened
  BY DEF OwnAfter, Covered
<1>2. HandleHeldOnce'
  <2>1. \A n, m \in Notes : own'[n] # NoHandle /\ own'[n] = own'[m] => n = m
    <3> SUFFICES ASSUME NEW n \in Notes, NEW m \in Notes, own'[n] # NoHandle,
                        own'[n] = own'[m]
                 PROVE  n = m
      OBVIOUS
    <3>1. CASE own'[n] \in kept
      BY <3>1 DEF OwnAfter
    <3>2. CASE own'[n] \notin kept
      BY <3>2, <1>e DEF IInv, HeapInv, HandleHeldOnce
    <3>3. QED
      BY <3>1, <3>2
  <2>2. \A u \in Threads, o \in Objects, n \in Notes :
            own'[n] # NoHandle => own'[n] # entry'[u][o]
    <3> SUFFICES ASSUME NEW u \in Threads, NEW o \in Objects, NEW n \in Notes,
                        own'[n] # NoHandle, own'[n] = entry'[u][o]
                 PROVE  FALSE
      OBVIOUS
    <3>1. own'[n] = own[n]
      BY <1>d, <1>e
    <3>2. own[n] # NoHandle /\ own[n] \notin opened /\ entry'[u][o] = own[n]
      BY <3>1, <1>b
    <3>3. entry'[u][o] = entry[u][o]
      BY <3>2, <1>0
    <3>4. own[n] # entry[u][o]
      BY <3>2 DEF IInv, HeapInv, HandleHeldOnce
    <3>5. QED
      BY <3>2, <3>3, <3>4
  <2>3. \A u \in Threads, o \in Objects : entry'[u][o] \notin leaked'
    <3> SUFFICES ASSUME NEW u \in Threads, NEW o \in Objects, entry'[u][o] \in leaked
                 PROVE  FALSE
      BY <1>d
    <3>1. entry'[u][o] # NoHandle /\ entry'[u][o] \notin opened
      BY <1>c
    <3>2. entry'[u][o] = entry[u][o]
      BY <3>1, <1>0
    <3>3. QED
      BY <3>2 DEF IInv, HeapInv, HandleHeldOnce
  <2>4. \A n \in Notes : own'[n] \notin leaked'
    <3> SUFFICES ASSUME NEW n \in Notes, own'[n] \in leaked'
                 PROVE  FALSE
      OBVIOUS
    <3>1. own'[n] # NoHandle
      BY <1>a, <1>c DEF Covered
    <3>2. CASE own'[n] = own[n]
      BY <3>1, <3>2, <1>b DEF IInv, HeapInv, HandleHeldOnce, Covered
    <3>3. CASE own'[n] \in kept /\ own'[n] \in opened
      BY <3>3, <1>c
    <3>4. QED
      BY <3>1, <3>2, <3>3, <1>e
  <2>5. QED
    BY <1>0, <2>1, <2>2, <2>3, <2>4 DEF HandleHeldOnce
<1>3. OwnIsOpen'
  BY <1>a, <1>b, <1>e DEF IInv, HeapInv, OwnIsOpen, OwnAfter
<1>4. LeakedIsOpen'
  BY <1>a, <1>c DEF LeakedIsOpen, Covered
<1>5. OnlyUnidOpenLeaks'
  <2> SUFFICES ASSUME NEW h \in Handles, opener'[h] # NoThread
               PROVE  Remembered(h)' \/ h \in leaked'
    BY DEF OnlyUnidOpenLeaks
  <2>1. CASE h \in extra
    BY <2>1 DEF Remembered, OwnAfter
  <2>2. CASE h \in opened \ extra
    <3>1. PICK o \in DOMAIN put : put[o] = h
      BY <2>2 DEF Covered
    <3>2. o \in Objects /\ entry'[t][o] = h
      BY <3>1 DEF CallResult, GoodCall
    <3>3. QED
      BY <3>2 DEF Remembered
  <2>3. CASE h \notin opened
    <3>1. opener[h] # NoThread /\ h \notin Closed(t, swept)
      BY <2>3 DEF CallResult
    <3>2. CASE h \in leaked
      BY <3>2
    <3>3. CASE \E n \in Notes : own[n] = h
      BY <3>3, NullAssumption DEF Remembered, OwnAfter
    <3>4. ASSUME NEW u \in Threads, NEW o \in Objects, entry[u][o] = h
          PROVE  Remembered(h)'
      <4>1. entry'[u][o] = h
        <5>1. u = t => o \notin swept
          BY <3>1, <3>4 DEF Closed
        <5>2. u = t /\ o \in DOMAIN put => put[o] = entry[t][o]
          BY <3>4, NullAssumption DEF GoodCall
        <5>3. QED
          BY <5>1, <5>2, <3>4 DEF CallResult
      <4>2. QED
        BY <4>1 DEF Remembered
    <3>5. QED
      BY <3>1, <3>2, <3>3, <3>4 DEF IInv, HeapInv, OnlyUnidOpenLeaks, Remembered
  <2>4. QED
    BY <2>1, <2>2, <2>3
<1>6. QED
  BY <1>1, <1>2, <1>3, <1>4, <1>5 DEF HeapInv, CallResult

-----------------------------------------------------------------------------
\* The types of what a call does not compute from the stores.
RefTypeOK ==
    /\ home \in Threads \cup {NoThread}
    /\ ctx \in [Threads -> {"none", "live", "ended"}]
    /\ holders \in [Objects -> SUBSET Threads]
    /\ dbOf \in [Notes -> Dbs \cup {NoDb}]
    /\ names \in [Dbs -> Threads \cup {NoThread}]
    /\ own \in [Notes -> Handles \cup {NoHandle}]
    /\ phase \in {"running", "terminated", "exited"}

\* What remove_stale() must leave alone: the weak references to o have not expired.
Alive(o) == IF o \in Dbs THEN LiveDb(o) ELSE LiveNote(o)

\* A call changes the references of objects that no store knows, fills the entry of
\* a note, or opens the handle of an unsaved one, together with the entry of its
\* database, and sweeps nothing that is alive, unless the whole context ends.
GoodRefs(t, swept, put, noteHandles, hd) ==
    /\ LiveNoteHasDb'
    /\ \A u \in Threads, n \in Notes :
          LiveNote(n)' /\ entry[u][n] # NoHandle => LiveNote(n) /\ dbOf'[n] = dbOf[n]
    /\ \A u \in Threads, d \in Dbs : entry[u][d] # NoHandle => names'[d] = names[d]
    /\ \A n \in Notes \cap DOMAIN put :
          /\ put[n] \in noteHandles
          /\ dbOf'[n] \in DOMAIN put /\ put[dbOf'[n]] = hd
    /\ noteHandles # {} => \E d \in Dbs \cap DOMAIN put : put[d] = hd
    /\ \A n \in Notes : own'[n] # NoHandle =>
          \/ own'[n] = own[n] /\ dbOf'[n] = dbOf[n]
          \/ /\ own'[n] \in noteHandles
             /\ dbOf'[n] \in Dbs \cap DOMAIN put /\ put[dbOf'[n]] = hd
    /\ \A d \in Dbs \cap DOMAIN put : entry[t][d] # NoHandle \/ names'[d] \in {NoThread, t}
    /\ \/ \A o \in swept : ~Alive(o)
       \/ put = Nothing /\ swept = Cached(t) /\ ctx'[t] = "ended"

LEMMA CallKeepsRefs ==
    ASSUME IInv, NEW t \in Threads, NEW swept, NEW put, NEW opened, NEW noteHandles, NEW hd,
           GoodCall(t, swept, put, opened, noteHandles, hd),
           Call(t, swept, put, opened, noteHandles, hd),
           GoodRefs(t, swept, put, noteHandles, hd)
    PROVE  RefInv'
<1> USE NullAssumption
<1>0. CallResult(t, swept, put, opened)
  BY CallHasResult
<1>1. /\ \A u \in Threads, o \in Objects : entry'[u][o] # NoHandle =>
            /\ opener'[entry'[u][o]] = u
            /\ \/ entry'[u][o] = entry[u][o]
               \/ u = t /\ o \in DOMAIN put /\ entry'[u][o] \in opened
      /\ \A h \in Closed(t, swept) : \E o \in Objects : entry[t][o] = h
  BY <1>0, EntriesAfterCall
<1>2. \A h \in Handles :
          via'[h] = IF h \in noteHandles THEN hd
                    ELSE IF h \in Closed(t, swept) \/ via[h] \in Closed(t, swept) THEN NoHandle
                    ELSE via[h]
  BY DEF Call, Closed
<1>3. NamedDbStaysHome'
  <2> SUFFICES ASSUME NEW u \in Threads, NEW d \in Dbs, names'[d] # NoThread,
                      entry'[u][d] # NoHandle
               PROVE  names'[d] = u
    BY DEF NamedDbStaysHome
  <2>0. d \in Objects
    BY DEF Objects
  <2>1. CASE entry[u][d] # NoHandle
    BY <2>1 DEF GoodRefs, IInv, RefInv, NamedDbStaysHome
  <2>2. CASE entry[u][d] = NoHandle
    <3>1. u = t /\ d \in DOMAIN put
      BY <2>0, <2>2, <1>1
    <3>2. QED
      BY <3>1, <2>2 DEF GoodRefs
  <2>3. QED
    BY <2>1, <2>2
<1>4. NoteHandleHasItsDb'
  <2> SUFFICES ASSUME NEW u \in Threads, NEW n \in Notes, LiveNote(n)',
                      entry'[u][n] # NoHandle
               PROVE  /\ entry'[u][dbOf'[n]] # NoHandle
                      /\ via'[entry'[u][n]] = entry'[u][dbOf'[n]]
    BY DEF NoteHandleHasItsDb
  <2>0. n \in Objects /\ dbOf'[n] \in Objects
    BY DEF GoodRefs, LiveNoteHasDb, Objects
  <2>1. CASE u = t /\ n \in DOMAIN put
    <3>1. /\ entry'[t][n] = put[n] /\ put[n] \in noteHandles
          /\ entry'[t][dbOf'[n]] = hd /\ hd \in Handles
      BY <2>0, <2>1, <1>0 DEF GoodRefs, CallResult, GoodCall, Cached, IInv, TypeOK, Free
    <3>2. entry'[t][n] \in Handles
      BY <3>1 DEF GoodCall, Free
    <3>3. QED
      BY <2>1, <3>1, <3>2, <1>2
  <2>2. CASE ~(u = t /\ n \in DOMAIN put)
    <3>1. entry'[u][n] = entry[u][n] /\ (u = t => n \notin swept)
      BY <2>0, <2>2, <1>0 DEF CallResult
    <3>2. LiveNote(n) /\ dbOf'[n] = dbOf[n] /\ dbOf[n] \in Dbs
      BY <3>1 DEF GoodRefs, LiveNoteHasDb
    <3> DEFINE d == dbOf[n]
               h == entry[u][n]
    <3>3. entry[u][d] # NoHandle /\ via[h] = entry[u][d]
      BY <3>1, <3>2 DEF IInv, RefInv, NoteHandleHasItsDb
    <3>4. u = t => d \notin swept
      <4>1. ASSUME u = t, swept = Cached(t) PROVE FALSE
        BY <4>1, <3>1, <2>0 DEF Cached
      <4>2. Alive(d)
        BY <3>2 DEF Alive, LiveDb
      <4>3. QED
        BY <4>1, <4>2 DEF GoodRefs
    <3>5. entry'[u][d] = entry[u][d]
      <4>1. d \in DOMAIN put /\ u = t => put[d] = entry[t][d]
        BY <3>3 DEF GoodCall
      <4>2. QED
        BY <4>1, <3>2, <3>4, <2>0, <1>0 DEF CallResult
    <3>6. h \notin Closed(t, swept) /\ entry[u][d] \notin Closed(t, swept)
      <4>1. \A o \in Objects : /\ o \in swept => o # n \/ u # t
                               /\ o \in swept => o # d \/ u # t
        BY <3>1, <3>4
      <4>2. swept \subseteq Objects
        BY DEF GoodCall, Cached
      <4>3. h # NoHandle /\ d \in Objects
        BY <3>1, <3>2, <2>0
      <4>4. \A o \in swept : entry[t][o] # h
        BY <4>1, <4>2, <4>3, <2>0 DEF IInv, HeapInv, HandleHeldOnce
      <4>5. \A o \in swept : entry[t][o] # entry[u][d]
        BY <4>1, <4>2, <4>3, <3>3 DEF IInv, HeapInv, HandleHeldOnce
      <4>6. QED
        BY <4>4, <4>5 DEF Closed
    <3>7. h \in Handles /\ h \notin noteHandles
      BY <3>1, <2>0 DEF IInv, TypeOK, HeapInv, CachedHandleIsOpenHere, GoodCall, Free
    <3>8. via'[h] = via[h]
      BY <3>6, <3>7, <3>3, <1>2
    <3>9. QED
      BY <3>1, <3>2, <3>3, <3>5, <3>8
  <2>3. QED
    BY <2>1, <2>2
<1>5. ViaIsCached'
  <2> SUFFICES ASSUME NEW h \in Handles, via'[h] # NoHandle
               PROVE  /\ opener'[h] \in Threads
                      /\ \E d \in Dbs : entry'[opener'[h]][d] = via'[h]
    BY DEF ViaIsCached
  <2>1. CASE h \in noteHandles
    <3>1. PICK d \in Dbs \cap DOMAIN put : put[d] = hd
      BY <2>1 DEF GoodRefs
    <3>2. entry'[t][d] = hd
      BY <3>1, <1>0 DEF CallResult, Objects
    <3>3. opener'[h] = t
      BY <2>1, <1>0 DEF CallResult, GoodCall
    <3>4. QED
      BY <2>1, <3>1, <3>2, <3>3, <1>2
  <2>2. CASE h \notin noteHandles
    <3>1. via'[h] = via[h] /\ h \notin Closed(t, swept) /\ via[h] \notin Closed(t, swept)
      BY <2>2, <1>2
    <3> DEFINE u == opener[h]
    <3>2. PICK d \in Dbs : u \in Threads /\ entry[u][d] = via[h]
      BY <3>1 DEF IInv, RefInv, ViaIsCached
    <3>3. opener'[h] = u
      <4>1. h \notin opened
        BY <3>2 DEF GoodCall, Free
      <4>2. QED
        BY <3>1, <4>1, <1>0 DEF CallResult
    <3> HIDE DEF u
    <3>4. entry'[u][d] = entry[u][d]
      <4>1. u = t => d \notin swept
        BY <3>1, <3>2 DEF Closed
      <4>2. u = t /\ d \in DOMAIN put => put[d] = entry[t][d]
        BY <3>1, <3>2 DEF GoodCall
      <4>3. QED
        BY <3>2, <4>1, <4>2, <1>0 DEF CallResult, Objects
    <3>5. QED
      BY <3>1, <3>2, <3>3, <3>4
  <2>3. QED
    BY <2>1, <2>2
<1>6. OwnHandleHasItsDb'
  <2> SUFFICES ASSUME NEW n \in Notes, own'[n] # NoHandle, NEW u \in Threads, NEW e \in Dbs,
                      entry'[u][e] # NoHandle, via'[own'[n]] = entry'[u][e]
               PROVE  e = dbOf'[n]
    BY DEF OwnHandleHasItsDb
  <2>1. CASE own'[n] = own[n] /\ dbOf'[n] = dbOf[n]
    <3> DEFINE h == own[n]
    <3>1. h \in Handles /\ opener[h] \in Threads /\ h \notin noteHandles
      BY <2>1 DEF IInv, HeapInv, OwnIsOpen, TypeOK, GoodCall, Free
    <3>2. via'[h] = via[h] /\ via[h] # NoHandle
      BY <2>1, <3>1, <1>2
    <3> DEFINE v == opener[h]
    <3>3. PICK d \in Dbs : v \in Threads /\ entry[v][d] = via[h]
      BY <3>1, <3>2 DEF IInv, RefInv, ViaIsCached
    <3>4. opener[entry[v][d]] = v /\ entry[v][d] \notin opened
      BY <3>2, <3>3 DEF IInv, HeapInv, CachedHandleIsOpenHere, GoodCall, Free, Objects
    <3>5. entry'[u][e] = entry[v][d]
      BY <2>1, <3>2, <3>3
    <3>6. entry'[u][e] = entry[u][e]
      BY <3>4, <3>5, <1>1 DEF Objects
    <3>7. entry[u][e] # NoHandle /\ via[own[n]] = entry[u][e]
      BY <3>2, <3>3, <3>5, <3>6
    <3>8. QED
      BY <2>1, <3>7 DEF IInv, RefInv, OwnHandleHasItsDb
  <2>2. CASE /\ own'[n] \in noteHandles
             /\ dbOf'[n] \in Dbs \cap DOMAIN put /\ put[dbOf'[n]] = hd
    <3>1. via'[own'[n]] = hd
      BY <2>2, <1>2 DEF GoodCall, Free
    <3>2. entry'[t][dbOf'[n]] = hd
      BY <2>2, <1>0 DEF CallResult, Objects
    <3>3. /\ entry'[u][e] = entry'[t][dbOf'[n]]
          /\ e \in Objects /\ dbOf'[n] \in Objects
      BY <2>2, <3>1, <3>2 DEF Objects
    <3>4. \A v, w \in Threads, o, p \in Objects :
              entry'[v][o] # NoHandle /\ entry'[v][o] = entry'[w][p] => v = w /\ o = p
      BY <1>0, EntriesAfterCall
    <3>5. QED
      BY <3>3, <3>4
  <2>3. QED
    BY <2>1, <2>2 DEF GoodRefs
<1>7. QED
  BY <1>3, <1>4, <1>5, <1>6 DEF RefInv, GoodRefs

\* A database handle that is closed while its context lasts serves no live note.
Outlives ==
    \A t \in Threads, d \in Dbs :
        (entry[t][d] # NoHandle /\ entry'[t][d] = NoHandle /\ ctx'[t] = "live")
        => \A h \in Handles : LiveNoteHandle(h)' => via[h] # entry[t][d]

\* A note handle that is open before and after a call belonged to a live note
\* before, whose database the call does not sweep.
LEMMA CallOutlives ==
    ASSUME IInv, NEW t \in Threads, NEW swept, NEW put, NEW opened, NEW noteHandles, NEW hd,
           NEW kept, NEW lost,
           GoodCall(t, swept, put, opened, noteHandles, hd),
           Covered(put, opened, kept \cup lost), OwnAfter(kept),
           GoodRefs(t, swept, put, noteHandles, hd),
           CallResult(t, swept, put, opened)
    PROVE  Outlives
<1> USE NullAssumption
<1> SUFFICES ASSUME NEW u \in Threads, NEW d \in Dbs, entry[u][d] # NoHandle,
                    entry'[u][d] = NoHandle, ctx'[u] = "live",
                    NEW h \in Handles, LiveNoteHandle(h)', via[h] = entry[u][d]
             PROVE  FALSE
  BY DEF Outlives
<1>0. d \in Objects
  BY DEF Objects
<1>1. u = t /\ d \in swept
  BY <1>0 DEF CallResult, GoodCall
<1>2. \A n \in Notes : LiveNote(n) => dbOf[n] \notin swept
  <2>1. \A o \in swept : ~Alive(o)
    BY <1>1 DEF GoodRefs
  <2>2. \A n \in Notes : LiveNote(n) => Alive(dbOf[n])
    BY DEF IInv, RefInv, LiveNoteHasDb, Alive, LiveDb
  <2>3. QED
    BY <2>1, <2>2
<1>3. opener[h] \in Threads /\ h \notin opened
  BY DEF IInv, RefInv, ViaIsCached, GoodCall, Free
<1>4. ASSUME NEW n \in Notes, own'[n] = h PROVE FALSE
  <2>1. own[n] = h
    BY <1>3, <1>4 DEF OwnAfter, Covered
  <2>2. LiveNote(n) /\ dbOf[n] = d
    BY <2>1 DEF IInv, HeapInv, OwnIsOpen, RefInv, OwnHandleHasItsDb
  <2>3. QED
    BY <2>2, <1>1, <1>2
<1>5. ASSUME NEW n \in Notes, LiveNote(n)', NEW v \in Threads, entry'[v][n] = h PROVE FALSE
  <2>0. n \in Objects
    BY DEF Objects
  <2>1. entry[v][n] = h
    BY <2>0, <1>3, <1>5, EntriesAfterCall
  <2>2. LiveNote(n)
    BY <1>5, <2>1 DEF GoodRefs
  <2>3. entry[v][dbOf[n]] # NoHandle /\ via[h] = entry[v][dbOf[n]] /\ dbOf[n] \in Objects
    BY <2>1, <2>2 DEF IInv, RefInv, NoteHandleHasItsDb, LiveNoteHasDb, Objects
  <2>4. dbOf[n] = d
    <3>1. \A s, w \in Threads, o, p \in Objects :
             entry[s][o] # NoHandle /\ entry[s][o] = entry[w][p] => s = w /\ o = p
      BY DEF IInv, HeapInv, HandleHeldOnce
    <3>2. /\ entry[v][dbOf[n]] # NoHandle /\ entry[v][dbOf[n]] = entry[u][d]
          /\ dbOf[n] \in Objects /\ d \in Objects
      BY <1>0, <2>3
    <3>3. QED
      BY <3>1, <3>2
  <2>5. QED
    BY <2>2, <2>4, <1>1, <1>2
<1>6. QED
  BY <1>4, <1>5 DEF LiveNoteHandle

\* A thread whose context lasts keeps the handle it has of an object that is alive.
Kept ==
    \A t \in Threads, o \in Objects :
        entry[t][o] # NoHandle /\ Alive(o) /\ ctx'[t] = "live"
        => entry'[t][o] = entry[t][o]

LEMMA CallKeepsEntries ==
    ASSUME NEW t \in Threads, NEW swept, NEW put, NEW opened, NEW noteHandles, NEW hd,
           GoodCall(t, swept, put, opened, noteHandles, hd),
           GoodRefs(t, swept, put, noteHandles, hd),
           CallResult(t, swept, put, opened)
    PROVE  Kept
<1> SUFFICES ASSUME NEW u \in Threads, NEW o \in Objects, entry[u][o] # NoHandle,
                    Alive(o), ctx'[u] = "live"
             PROVE  entry'[u][o] = entry[u][o]
  BY DEF Kept
<1>1. u = t => o \notin swept
  BY DEF GoodRefs
<1>2. u = t /\ o \in DOMAIN put => put[o] = entry[t][o]
  BY DEF GoodCall
<1>3. QED
  BY <1>1, <1>2 DEF CallResult

\* Thread t closes handles of its own, or opens some.
Turns(t) ==
    \A h \in Handles : \/ opener'[h] = opener[h]
                       \/ opener[h] = NoThread /\ opener'[h] = t
                       \/ opener[h] = t /\ opener'[h] = NoThread

\* What every good call preserves.
LEMMA CallKeepsIInv ==
    ASSUME IInv, NEW t \in Threads, NEW swept, NEW put, NEW opened, NEW noteHandles, NEW hd,
           NEW kept, NEW lost,
           GoodCall(t, swept, put, opened, noteHandles, hd),
           Call(t, swept, put, opened, noteHandles, hd),
           Covered(put, opened, kept \cup lost), kept \cap lost = {},
           leaked' = leaked \cup lost, OwnAfter(kept),
           GoodRefs(t, swept, put, noteHandles, hd), RefTypeOK',
           \/ ctx[t] = "live" /\ ctx' = ctx
           \/ put = Nothing /\ swept = Cached(t) /\ \A u \in Threads \ {t} : ctx'[u] = ctx[u]
    PROVE  IInv' /\ Turns(t) /\ Outlives /\ Kept
<1>1. CallResult(t, swept, put, opened)
  BY CallHasResult
<1>2. HeapInv'
  BY <1>1, CallKeepsHeap
<1>3. RefInv'
  BY CallKeepsRefs
<1>4. leaked' \subseteq Handles
  BY DEF IInv, TypeOK, Covered, GoodCall, Free
<1>5. TypeOK'
  BY <1>1, <1>4 DEF TypeOK, RefTypeOK, CallResult
<1>6. Turns(t)
  <2>1. \A h \in Closed(t, swept) : opener[h] = t
    BY DEF Closed, Cached, GoodCall, IInv, HeapInv, CachedHandleIsOpenHere
  <2>2. QED
    BY <1>1, <2>1 DEF CallResult, GoodCall, Free, Turns
<1>7. Outlives
  BY <1>1, CallOutlives
<1>8. Kept
  BY <1>1, CallKeepsEntries
<1>9. QED
  BY <1>2, <1>3, <1>5, <1>6, <1>7, <1>8 DEF IInv

-----------------------------------------------------------------------------
\* The shapes of the calls.  A sweep meets nothing that is alive.
LEMMA SweepIsGood ==
    ASSUME NEW t \in Threads, NEW swept \in SUBSET (StaleNotes(t) \cup StaleDbs(t))
    PROVE  /\ swept \subseteq Cached(t)
           /\ \A o \in swept : ~Alive(o)
           /\ \A d \in Dbs : LiveDb(d) => d \notin swept
<1>1. swept \subseteq Cached(t)
  BY DEF StaleNotes, StaleDbs, Cached, Objects
<1>2. \A o \in swept : ~Alive(o)
  BY NullAssumption DEF StaleNotes, StaleDbs, Alive
<1>3. \A d \in Dbs : LiveDb(d) => d \notin swept
  BY <1>2 DEF Alive
<1>4. QED
  BY <1>1, <1>2, <1>3

\* Calls that change no reference.
LEMMA SameRefs ==
    ASSUME IInv, UNCHANGED refVars
    PROVE  /\ OwnAfter({})
           /\ LiveNoteHasDb'
           /\ \A u \in Threads, n \in Notes :
                 LiveNote(n)' /\ entry[u][n] # NoHandle => LiveNote(n) /\ dbOf'[n] = dbOf[n]
           /\ \A u \in Threads, d \in Dbs : entry[u][d] # NoHandle => names'[d] = names[d]
           /\ \A n \in Notes : own'[n] = own[n] /\ dbOf'[n] = dbOf[n]
BY DEF IInv, RefInv, HeapInv, OwnIsOpen, OwnAfter, LiveNoteHasDb, LiveNote, refVars

LEMMA SweepOnlyKeeps ==
    ASSUME IInv, NEW t \in Threads, ctx[t] = "live",
           NEW swept \in SUBSET (StaleNotes(t) \cup StaleDbs(t)),
           SweepOnly(t, swept), UNCHANGED <<home, ctx, phase, refVars>>
    PROVE  IInv' /\ Turns(t) /\ Outlives /\ Kept
<1>1. TypeOK
  BY DEF IInv
<1>2. GoodCall(t, swept, Nothing, {}, {}, NoHandle)
  BY <1>1, SweepIsGood DEF GoodCall, Nothing
<1>3. GoodRefs(t, swept, Nothing, {}, NoHandle)
  BY <1>1, SweepIsGood, SameRefs DEF GoodRefs, Nothing, refVars
<1>4. RefTypeOK'
  BY <1>1 DEF TypeOK, RefTypeOK, refVars
<1>5. Covered(Nothing, {}, {} \cup {})
  BY DEF Covered, Nothing
<1>6. OwnAfter({})
  BY SameRefs DEF refVars
<1>7. Call(t, swept, Nothing, {}, {}, NoHandle) /\ leaked' = leaked \cup {}
  BY DEF SweepOnly
<1>8. ctx' = ctx
  OBVIOUS
<1>9. QED
  BY <1>2, <1>3, <1>4, <1>5, <1>6, <1>7, <1>8, CallKeepsIInv

\* The contexts end with everything their stores hold.
LEMMA EndKeeps ==
    ASSUME IInv, NEW t \in Threads, SweepOnly(t, Cached(t)),
           ctx' = [ctx EXCEPT ![t] = "ended"], UNCHANGED <<home, refVars>>,
           phase' \in {phase, "exited"}
    PROVE  IInv' /\ Turns(t) /\ Outlives /\ Kept
<1>1. TypeOK
  BY DEF IInv
<1>2. GoodCall(t, Cached(t), Nothing, {}, {}, NoHandle)
  BY DEF GoodCall, Nothing
<1>3. GoodRefs(t, Cached(t), Nothing, {}, NoHandle)
  BY <1>1, SameRefs DEF TypeOK, GoodRefs, Nothing, refVars
<1>4. RefTypeOK'
  BY <1>1 DEF TypeOK, RefTypeOK, refVars
<1>5. Covered(Nothing, {}, {} \cup {})
  BY DEF Covered, Nothing
<1>6. OwnAfter({})
  BY SameRefs DEF refVars
<1>7. Call(t, Cached(t), Nothing, {}, {}, NoHandle) /\ leaked' = leaked \cup {}
  BY DEF SweepOnly
<1>8. \A u \in Threads \ {t} : ctx'[u] = ctx[u]
  BY <1>1 DEF TypeOK
<1>9. QED
  BY <1>2, <1>3, <1>4, <1>5, <1>6, <1>7, <1>8, CallKeepsIInv

\* Where a call finds or opens the handle of a live database.
LEMMA DbHandleIsGood ==
    ASSUME IInv, NEW t \in Threads, NEW d \in Dbs, LiveDb(d), NEW hd \in DbHandles(t, d),
           NEW swept \in SUBSET (StaleNotes(t) \cup StaleDbs(t))
    PROVE  /\ hd \in Handles
           /\ \/ hd \in Free /\ entry[t][d] = NoHandle /\ names[d] \in {NoThread, t}
              \/ hd \notin Free /\ hd = entry[t][d] /\ d \in Cached(t) \ swept
<1>1. d \notin swept /\ d \in Objects
  BY SweepIsGood DEF IInv, Objects
<1>2. CASE entry[t][d] # NoHandle
  BY <1>1, <1>2, NullAssumption
     DEF DbHandles, Cached, Free, IInv, TypeOK, HeapInv, CachedHandleIsOpenHere
<1>3. CASE entry[t][d] = NoHandle
  BY <1>1, <1>3 DEF DbHandles, Free
<1>4. QED
  BY <1>2, <1>3

LEMMA WithDbKeeps ==
    ASSUME IInv, NEW t \in Threads, ctx[t] = "live", NEW d \in Dbs, LiveDb(d),
           NEW swept \in SUBSET (StaleNotes(t) \cup StaleDbs(t)), NEW hd \in DbHandles(t, d),
           WithDb(t, swept, d, hd), UNCHANGED <<home, ctx, phase, refVars>>
    PROVE  IInv' /\ Turns(t) /\ Outlives /\ Kept
<1> DEFINE put == [o \in {d} |-> hd]
           opened == {hd} \cap Free
<1>1. TypeOK
  BY DEF IInv
<1>0. /\ hd \in Handles
      /\ \/ hd \in Free /\ entry[t][d] = NoHandle /\ names[d] \in {NoThread, t}
         \/ hd \notin Free /\ hd = entry[t][d] /\ d \in Cached(t) \ swept
  BY DbHandleIsGood
<1>2. GoodCall(t, swept, put, opened, {}, NoHandle)
  BY <1>0, <1>1, SweepIsGood DEF GoodCall, Objects
<1>3. GoodRefs(t, swept, put, {}, NoHandle)
  BY <1>0, <1>1, SweepIsGood, SameRefs, NullAssumption DEF GoodRefs, refVars, Cached
<1>4. RefTypeOK'
  BY <1>1 DEF TypeOK, RefTypeOK, refVars
<1>5. Covered(put, opened, {} \cup {})
  BY DEF Covered
<1>6. OwnAfter({})
  BY SameRefs DEF refVars
<1>7. Call(t, swept, put, opened, {}, NoHandle) /\ leaked' = leaked \cup {}
  BY DEF WithDb
<1>8. ctx' = ctx
  OBVIOUS
<1> HIDE DEF put, opened
<1>9. QED
  BY <1>2, <1>3, <1>4, <1>5, <1>6, <1>7, <1>8, CallKeepsIInv

\* note::open(db, unid) leaks its first handle and then fails.
LEMMA UnidOnlyKeeps ==
    ASSUME IInv, NEW t \in Threads, ctx[t] = "live", NEW d \in Dbs, LiveDb(d),
           NEW swept \in SUBSET (StaleNotes(t) \cup StaleDbs(t)),
           NEW hd \in DbHandles(t, d), NEW x \in Free \ {hd},
           Call(t, swept, [o \in {d} |-> hd], ({hd} \cap Free) \cup {x}, {x}, hd),
           leaked' = leaked \cup {x}, UNCHANGED <<home, ctx, phase, refVars>>
    PROVE  IInv' /\ Turns(t) /\ Outlives /\ Kept
<1> DEFINE put == [o \in {d} |-> hd]
           opened == ({hd} \cap Free) \cup {x}
<1>1. TypeOK /\ x \in Free
  BY DEF IInv
<1>0. /\ hd \in Handles
      /\ \/ hd \in Free /\ entry[t][d] = NoHandle /\ names[d] \in {NoThread, t}
         \/ hd \notin Free /\ hd = entry[t][d] /\ d \in Cached(t) \ swept
  BY DbHandleIsGood
<1>2. GoodCall(t, swept, put, opened, {x}, hd)
  BY <1>0, <1>1, SweepIsGood DEF GoodCall, Objects
<1>3. GoodRefs(t, swept, put, {x}, hd)
  BY <1>0, <1>1, SweepIsGood, SameRefs, NullAssumption DEF GoodRefs, refVars, Cached
<1>4. RefTypeOK'
  BY <1>1 DEF TypeOK, RefTypeOK, refVars
<1>5. Covered(put, opened, {} \cup {x})
  BY <1>1 DEF Covered
<1>6. OwnAfter({})
  BY SameRefs DEF refVars
<1>7. Call(t, swept, put, opened, {x}, hd)
  OBVIOUS
<1>8. ctx' = ctx
  OBVIOUS
<1> HIDE DEF put, opened
<1>9. QED
  BY <1>2, <1>3, <1>4, <1>5, <1>6, <1>7, <1>8, CallKeepsIInv

\* database::open() or create() succeeds.
LEMMA NewDbKeeps ==
    ASSUME IInv, NEW t \in Threads, ctx[t] = "live", NEW d \in Dbs, Unused(d), ~LiveDb(d),
           NEW swept \in SUBSET (StaleNotes(t) \cup StaleDbs(t)), NEW hd \in Free,
           WithDb(t, swept, d, hd), holders' = [holders EXCEPT ![d] = {t}],
           names' \in [Dbs -> Threads \cup {NoThread}], names'[d] \in {NoThread, t},
           \A e \in Dbs \ {d} : names'[e] = names[e],
           UNCHANGED <<home, ctx, phase, dbOf, own>>
    PROVE  IInv' /\ Turns(t) /\ Outlives /\ Kept
<1> DEFINE put == [o \in {d} |-> hd]
           opened == {hd} \cap Free
<1>1. TypeOK /\ d \in Objects /\ hd \in Handles
  BY DEF IInv, Objects, Free
<1>0. \A m \in Notes : LiveNote(m)' <=> LiveNote(m)
  BY <1>1, NullAssumption DEF LiveNote, TypeOK, Objects
<1>a. \A u \in Threads : entry[u][d] = NoHandle
  BY DEF Unused
<1>2. GoodCall(t, swept, put, opened, {}, NoHandle)
  BY <1>1, <1>a, SweepIsGood DEF GoodCall
<1>3. GoodRefs(t, swept, put, {}, NoHandle)
  <2>1. LiveNoteHasDb'
    BY <1>0 DEF LiveNoteHasDb, IInv, RefInv
  <2>2. \A e \in Dbs \cap DOMAIN put : names'[e] \in {NoThread, t}
    OBVIOUS
  <2>3. \A m \in Notes \cap DOMAIN put : FALSE
    BY NullAssumption
  <2>4. \A o \in swept : ~Alive(o)
    BY SweepIsGood
  <2>5. \A u \in Threads, e \in Dbs : entry[u][e] # NoHandle => names'[e] = names[e]
    BY <1>a
  <2>6. \A m \in Notes : own'[m] = own[m] /\ dbOf'[m] = dbOf[m]
    OBVIOUS
  <2> HIDE DEF put
  <2>7. QED
    BY <2>1, <2>2, <2>3, <2>4, <2>5, <2>6, <1>0 DEF GoodRefs
<1>4. RefTypeOK'
  BY <1>1 DEF TypeOK, RefTypeOK
<1>5. Covered(put, opened, {} \cup {})
  BY DEF Covered
<1>6. OwnAfter({})
  BY <1>0 DEF OwnAfter, IInv, HeapInv, OwnIsOpen
<1>7. Call(t, swept, put, opened, {}, NoHandle) /\ leaked' = leaked \cup {}
  BY DEF WithDb
<1>8. ctx' = ctx
  OBVIOUS
<1> HIDE DEF put, opened
<1>9. QED
  BY <1>2, <1>3, <1>4, <1>5, <1>6, <1>7, <1>8, CallKeepsIInv

\* Calls that open a note n that is live already: note::get_handle().
LEMMA NoteGetKeeps ==
    ASSUME IInv, NEW t \in Threads, ctx[t] = "live", NEW n \in Notes, LiveNote(n),
           entry[t][n] = NoHandle,
           NEW swept \in SUBSET (StaleNotes(t) \cup StaleDbs(t)),
           NEW hd \in DbHandles(t, dbOf[n]), NEW h \in Handles,
           WithNote(t, swept, dbOf[n], hd, n, h), UNCHANGED leaked,
           UNCHANGED <<home, ctx, phase, refVars>>
    PROVE  IInv' /\ Turns(t) /\ Outlives /\ Kept
<1> DEFINE d == dbOf[n]
           put == [o \in {d, n} |-> IF o = n THEN h ELSE hd]
           opened == ({hd} \cap Free) \cup {h}
<1>1. TypeOK /\ d \in Dbs /\ d # n /\ LiveDb(d) /\ h \in Free /\ h # hd
  BY NullAssumption DEF IInv, RefInv, LiveNoteHasDb, LiveDb, WithNote
<1>2. /\ hd \in Handles
      /\ \/ hd \in Free /\ entry[t][d] = NoHandle /\ names[d] \in {NoThread, t}
         \/ hd \notin Free /\ hd = entry[t][d] /\ d \in Cached(t) \ swept
  BY <1>1, DbHandleIsGood
<1>3. GoodCall(t, swept, put, opened, {h}, hd)
  BY <1>1, <1>2, SweepIsGood DEF GoodCall, Objects
<1>4. GoodRefs(t, swept, put, {h}, hd)
  BY <1>1, <1>2, SweepIsGood, SameRefs, NullAssumption DEF GoodRefs, refVars, Cached
<1>5. RefTypeOK'
  BY <1>1 DEF TypeOK, RefTypeOK, refVars
<1>6. Covered(put, opened, {} \cup {})
  BY <1>1 DEF Covered
<1>7. OwnAfter({})
  BY SameRefs DEF refVars
<1>8. Call(t, swept, put, opened, {h}, hd) /\ leaked' = leaked \cup {}
  BY DEF WithNote
<1>9. ctx' = ctx
  OBVIOUS
<1> HIDE DEF put, opened
<1>10. QED
  BY <1>3, <1>4, <1>5, <1>6, <1>7, <1>8, <1>9, CallKeepsIInv

\* The references after a new note n of database d was made on thread t.
LEMMA NewNoteRefs ==
    ASSUME IInv, NEW t \in Threads, NEW n \in Notes, NEW d \in Dbs, Unused(n),
           holders' = [holders EXCEPT ![n] = {t}], dbOf' = [dbOf EXCEPT ![n] = d],
           names' = names, UNCHANGED <<home, ctx, phase>>
    PROVE  /\ LiveNote(n)' /\ own[n] = NoHandle
           /\ \A m \in Notes : m # n => (LiveNote(m)' <=> LiveNote(m)) /\ dbOf'[m] = dbOf[m]
           /\ dbOf'[n] = d
           /\ LiveNoteHasDb'
           /\ \A u \in Threads, m \in Notes :
                 LiveNote(m)' /\ entry[u][m] # NoHandle => LiveNote(m) /\ dbOf'[m] = dbOf[m]
           /\ own' \in [Notes -> Handles \cup {NoHandle}] => RefTypeOK'
<1>1. TypeOK /\ n \in Objects
  BY DEF IInv, Objects
<1>2. LiveNote(n)' /\ own[n] = NoHandle
  BY <1>1 DEF LiveNote, TypeOK, Unused, IInv, HeapInv, OwnIsOpen
<1>3. \A m \in Notes : m # n => (LiveNote(m)' <=> LiveNote(m)) /\ dbOf'[m] = dbOf[m]
  BY <1>1 DEF LiveNote, TypeOK, Objects
<1>4. LiveNoteHasDb'
  BY <1>1, <1>3 DEF LiveNoteHasDb, IInv, RefInv, TypeOK
<1>5. own' \in [Notes -> Handles \cup {NoHandle}] => RefTypeOK'
  BY <1>1 DEF TypeOK, RefTypeOK
<1>6. dbOf'[n] = d
  BY <1>1 DEF TypeOK
<1>7. QED
  BY <1>2, <1>3, <1>4, <1>5, <1>6 DEF Unused

\* note::open() succeeds: one handle more may be leaked on the way (lost).
LEMMA NewSavedNoteKeeps ==
    ASSUME IInv, NEW t \in Threads, ctx[t] = "live", NEW n \in Notes, NEW d \in Dbs,
           LiveDb(d), Unused(n),
           NEW swept \in SUBSET (StaleNotes(t) \cup StaleDbs(t)),
           NEW hd \in DbHandles(t, d), NEW h \in Free, h # hd,
           NEW lost \in SUBSET (Free \ {hd, h}),
           Call(t, swept, [o \in {d, n} |-> IF o = n THEN h ELSE hd],
                ({hd} \cap Free) \cup lost \cup {h}, lost \cup {h}, hd),
           leaked' = leaked \cup lost,
           holders' = [holders EXCEPT ![n] = {t}], dbOf' = [dbOf EXCEPT ![n] = d],
           names' = names, own' = own, UNCHANGED <<home, ctx, phase>>
    PROVE  IInv' /\ Turns(t) /\ Outlives /\ Kept
<1> DEFINE put == [o \in {d, n} |-> IF o = n THEN h ELSE hd]
           opened == ({hd} \cap Free) \cup lost \cup {h}
           noteHandles == lost \cup {h}
<1>1. TypeOK /\ d # n /\ n \in Objects /\ d \in Objects /\ h \in Handles /\ lost \subseteq Free
  BY NullAssumption DEF IInv, Objects, Free
<1>2. /\ hd \in Handles
      /\ \/ hd \in Free /\ entry[t][d] = NoHandle /\ names[d] \in {NoThread, t}
         \/ hd \notin Free /\ hd = entry[t][d] /\ d \in Cached(t) \ swept
  BY <1>1, DbHandleIsGood
<1>a. /\ LiveNote(n)' /\ own[n] = NoHandle
      /\ \A m \in Notes : m # n => (LiveNote(m)' <=> LiveNote(m)) /\ dbOf'[m] = dbOf[m]
      /\ dbOf'[n] = d
      /\ LiveNoteHasDb'
      /\ \A u \in Threads, m \in Notes :
            LiveNote(m)' /\ entry[u][m] # NoHandle => LiveNote(m) /\ dbOf'[m] = dbOf[m]
      /\ own' \in [Notes -> Handles \cup {NoHandle}] => RefTypeOK'
  BY NewNoteRefs
<1>b. entry[t][n] = NoHandle
  BY DEF Unused
<1>3. GoodCall(t, swept, put, opened, noteHandles, hd)
  BY <1>1, <1>2, <1>b, SweepIsGood DEF GoodCall
<1>4. GoodRefs(t, swept, put, noteHandles, hd)
  <2>1. \A m \in Notes \cap DOMAIN put :
          /\ put[m] \in noteHandles
          /\ dbOf'[m] \in DOMAIN put /\ put[dbOf'[m]] = hd
    BY <1>1, NullAssumption DEF TypeOK
  <2>2. \A e \in Dbs \cap DOMAIN put : entry[t][e] # NoHandle \/ names'[e] \in {NoThread, t}
    BY <1>1, <1>2, NullAssumption DEF Cached
  <2>3. \A o \in swept : ~Alive(o)
    BY SweepIsGood
  <2>4. \E e \in Dbs \cap DOMAIN put : put[e] = hd
    BY <1>1
  <2>5. \A m \in Notes : own'[m] # NoHandle => own'[m] = own[m] /\ dbOf'[m] = dbOf[m]
    BY <1>a
  <2> HIDE DEF put, noteHandles
  <2>6. QED
    BY <2>1, <2>2, <2>3, <2>4, <2>5, <1>a DEF GoodRefs
<1>5. RefTypeOK'
  BY <1>1, <1>a DEF TypeOK
<1>6. Covered(put, opened, {} \cup lost)
  BY <1>1 DEF Covered
<1>7. OwnAfter({})
  BY <1>a DEF OwnAfter, IInv, HeapInv, OwnIsOpen
<1>8. Call(t, swept, put, opened, noteHandles, hd) /\ leaked' = leaked \cup lost
  OBVIOUS
<1>9. ctx' = ctx
  OBVIOUS
<1> HIDE DEF put, opened, noteHandles
<1>10. QED
  BY <1>3, <1>4, <1>5, <1>6, <1>7, <1>8, <1>9, CallKeepsIInv

\* note::create() succeeds.
LEMMA NewUnsavedNoteKeeps ==
    ASSUME IInv, NEW t \in Threads, ctx[t] = "live", NEW n \in Notes, NEW d \in Dbs,
           LiveDb(d), Unused(n),
           NEW swept \in SUBSET (StaleNotes(t) \cup StaleDbs(t)),
           NEW hd \in DbHandles(t, d), NEW h \in Free \ {hd},
           Call(t, swept, [o \in {d} |-> hd], ({hd} \cap Free) \cup {h}, {h}, hd),
           UNCHANGED leaked, own' = [own EXCEPT ![n] = h],
           holders' = [holders EXCEPT ![n] = {t}], dbOf' = [dbOf EXCEPT ![n] = d],
           names' = names, UNCHANGED <<home, ctx, phase>>
    PROVE  IInv' /\ Turns(t) /\ Outlives /\ Kept
<1> DEFINE put == [o \in {d} |-> hd]
           opened == ({hd} \cap Free) \cup {h}
<1>1. TypeOK /\ d # n /\ n \in Objects /\ d \in Objects /\ h \in Handles /\ h \in Free
  BY NullAssumption DEF IInv, Objects, Free
<1>2. /\ hd \in Handles
      /\ \/ hd \in Free /\ entry[t][d] = NoHandle /\ names[d] \in {NoThread, t}
         \/ hd \notin Free /\ hd = entry[t][d] /\ d \in Cached(t) \ swept
  BY <1>1, DbHandleIsGood
<1>a. /\ LiveNote(n)' /\ own[n] = NoHandle
      /\ \A m \in Notes : m # n => (LiveNote(m)' <=> LiveNote(m)) /\ dbOf'[m] = dbOf[m]
      /\ dbOf'[n] = d
      /\ LiveNoteHasDb'
      /\ \A u \in Threads, m \in Notes :
            LiveNote(m)' /\ entry[u][m] # NoHandle => LiveNote(m) /\ dbOf'[m] = dbOf[m]
      /\ own' \in [Notes -> Handles \cup {NoHandle}] => RefTypeOK'
  BY NewNoteRefs
<1>3. GoodCall(t, swept, put, opened, {h}, hd)
  BY <1>1, <1>2, SweepIsGood DEF GoodCall
<1>4. GoodRefs(t, swept, put, {h}, hd)
  <2>1. \A m \in Notes \cap DOMAIN put : FALSE
    BY NullAssumption
  <2>2. \A e \in Dbs \cap DOMAIN put : entry[t][e] # NoHandle \/ names'[e] \in {NoThread, t}
    BY <1>1, <1>2, NullAssumption DEF Cached
  <2>3. \A o \in swept : ~Alive(o)
    BY SweepIsGood
  <2>4. d \in Dbs \cap DOMAIN put /\ put[d] = hd
    OBVIOUS
  <2>5. \A m \in Notes : own'[m] = IF m = n THEN h ELSE own[m]
    BY <1>1 DEF TypeOK
  <2>6. \A m \in Notes : \/ own'[m] = own[m] /\ dbOf'[m] = dbOf[m]
                         \/ own'[m] \in {h} /\ dbOf'[m] = d
    BY <2>5, <1>a
  <2> HIDE DEF put
  <2>7. QED
    BY <2>1, <2>2, <2>3, <2>4, <2>6, <1>a DEF GoodRefs
<1>5. RefTypeOK'
  BY <1>1, <1>a DEF TypeOK
<1>6. Covered(put, opened, {h} \cup {})
  BY <1>1 DEF Covered
<1>7. OwnAfter({h})
  <2>1. \A m \in Notes : own'[m] = IF m = n THEN h ELSE own[m]
    BY <1>1 DEF TypeOK
  <2>2. \A m \in Notes : own[m] # h
    BY <1>1, NullAssumption DEF IInv, HeapInv, OwnIsOpen, Free
  <2>3. QED
    BY <2>1, <2>2, <1>a DEF OwnAfter, IInv, HeapInv, OwnIsOpen
<1>8. Call(t, swept, put, opened, {h}, hd) /\ leaked' = leaked \cup {}
  OBVIOUS
<1>9. ctx' = ctx
  OBVIOUS
<1> HIDE DEF put, opened
<1>10. QED
  BY <1>3, <1>4, <1>5, <1>6, <1>7, <1>8, <1>9, CallKeepsIInv

-----------------------------------------------------------------------------
\* The steps that touch no store.
LEMMA ContextStarts ==
    ASSUME IInv, NEW t \in Threads, home' \in Threads \cup {NoThread},
           \A o \in Objects : entry[t][o] = NoHandle,
           ctx' = [ctx EXCEPT ![t] = "live"], UNCHANGED <<refVars, heapVars, phase>>
    PROVE  IInv'
<1> USE DEF IInv, refVars, heapVars
<1>1. TypeOK'
  BY DEF TypeOK
<1>2. HeapInv'
  <2>1. CachedHandleIsOpenHere'
    BY DEF TypeOK, HeapInv, CachedHandleIsOpenHere
  <2>2. HandleHeldOnce'
    BY DEF HeapInv, HandleHeldOnce
  <2>3. OwnIsOpen' /\ LeakedIsOpen'
    BY DEF HeapInv, OwnIsOpen, LeakedIsOpen, LiveNote
  <2>4. OnlyUnidOpenLeaks'
    BY DEF HeapInv, OnlyUnidOpenLeaks, Remembered
  <2>5. QED
    BY <2>1, <2>2, <2>3, <2>4 DEF HeapInv
<1>3. RefInv'
  BY DEF RefInv, LiveNoteHasDb, LiveNote, NoteHandleHasItsDb, NamedDbStaysHome,
         ViaIsCached, OwnHandleHasItsDb
<1>4. QED
  BY <1>1, <1>2, <1>3

\* A thread without a context has empty stores.
LEMMA NoContextNoEntry ==
    ASSUME IInv, NEW t \in Threads, ctx[t] # "live"
    PROVE  \A o \in Objects : entry[t][o] = NoHandle
BY DEF IInv, HeapInv, CachedHandleIsOpenHere

\* References come and go, but no note comes to life and no unsaved note dies.
LEMMA RefsChange ==
    ASSUME IInv, holders' \in [Objects -> SUBSET Threads],
           phase' \in {"running", "terminated", "exited"},
           \A n \in Notes : /\ LiveNote(n)' => LiveNote(n)
                            /\ own[n] # NoHandle => LiveNote(n)',
           UNCHANGED <<home, ctx, dbOf, names, own, heapVars>>
    PROVE  IInv'
<1> USE DEF IInv, heapVars
<1>1. TypeOK'
  BY DEF TypeOK
<1>2. HeapInv'
  <2>1. CachedHandleIsOpenHere' /\ HandleHeldOnce'
    BY DEF HeapInv, CachedHandleIsOpenHere, HandleHeldOnce
  <2>2. OwnIsOpen' /\ LeakedIsOpen'
    BY DEF HeapInv, OwnIsOpen, LeakedIsOpen
  <2>3. OnlyUnidOpenLeaks'
    BY DEF HeapInv, OnlyUnidOpenLeaks, Remembered
  <2>4. QED
    BY <2>1, <2>2, <2>3 DEF HeapInv
<1>3. RefInv'
  BY DEF RefInv, LiveNoteHasDb, NoteHandleHasItsDb, NamedDbStaysHome,
         ViaIsCached, OwnHandleHasItsDb
<1>4. QED
  BY <1>1, <1>2, <1>3

\* An unsaved note n closes its own handle.
LEMMA OwnHandleCloses ==
    ASSUME IInv, NEW t \in Threads, NEW n \in Notes, own[n] # NoHandle, opener[own[n]] = t,
           own' = [own EXCEPT ![n] = NoHandle],
           opener' = [opener EXCEPT ![own[n]] = NoThread],
           via' = [via EXCEPT ![own[n]] = NoHandle],
           offThread' = FALSE,
           holders' \in [Objects -> SUBSET Threads],
           \A m \in Notes : /\ LiveNote(m)' => LiveNote(m)
                            /\ m # n /\ LiveNote(m) => LiveNote(m)',
           UNCHANGED <<home, ctx, dbOf, names, entry, leaked, phase>>
    PROVE  IInv' /\ Turns(t) /\ Outlives /\ Kept
<1> USE NullAssumption
<1> DEFINE x == own[n]
<1>0. TypeOK /\ x \in Handles
  BY DEF IInv, TypeOK
<1>1. \A h \in Handles : /\ opener'[h] = IF h = x THEN NoThread ELSE opener[h]
                         /\ via'[h] = IF h = x THEN NoHandle ELSE via[h]
  BY <1>0 DEF TypeOK
<1>2. \A m \in Notes : own'[m] = IF m = n THEN NoHandle ELSE own[m]
  BY <1>0 DEF TypeOK
<1>3. /\ \A u \in Threads, o \in Objects : entry[u][o] # x
      /\ \A m \in Notes : m # n => own[m] # x
      /\ x \notin leaked
  BY DEF IInv, HeapInv, HandleHeldOnce
<1>4. TypeOK'
  BY <1>0 DEF TypeOK
<1> HIDE DEF x
<1>5. CachedHandleIsOpenHere'
  BY <1>0, <1>1, <1>3 DEF IInv, HeapInv, CachedHandleIsOpenHere, TypeOK
<1>6. HandleHeldOnce'
  BY <1>2, <1>0 DEF IInv, HeapInv, HandleHeldOnce, TypeOK
<1>7. OwnIsOpen'
  BY <1>0, <1>1, <1>2, <1>3 DEF IInv, HeapInv, OwnIsOpen, TypeOK
<1>8. LeakedIsOpen'
  BY <1>0, <1>1, <1>3 DEF IInv, HeapInv, LeakedIsOpen, TypeOK
<1>9. OnlyUnidOpenLeaks'
  <2> SUFFICES ASSUME NEW h \in Handles, opener'[h] # NoThread, h \notin leaked
               PROVE  Remembered(h)'
    BY DEF OnlyUnidOpenLeaks
  <2>1. h # x /\ opener[h] # NoThread
    BY <1>1
  <2>2. Remembered(h)
    BY <2>1 DEF IInv, HeapInv, OnlyUnidOpenLeaks
  <2>3. QED
    BY <2>1, <2>2, <1>2 DEF Remembered, x
<1>10. RefInv'
  <2>1. LiveNoteHasDb' /\ NamedDbStaysHome'
    BY DEF IInv, RefInv, LiveNoteHasDb, NamedDbStaysHome
  <2>2. NoteHandleHasItsDb'
    <3> SUFFICES ASSUME NEW u \in Threads, NEW m \in Notes, LiveNote(m), entry[u][m] # NoHandle
                 PROVE  /\ entry[u][dbOf[m]] # NoHandle
                        /\ via'[entry[u][m]] = entry[u][dbOf[m]]
      BY DEF NoteHandleHasItsDb
    <3>1. m \in Objects /\ entry[u][m] # x /\ entry[u][m] \in Handles
      BY <1>0, <1>3 DEF Objects, TypeOK
    <3>2. QED
      BY <3>1, <1>1 DEF IInv, RefInv, NoteHandleHasItsDb
  <2>3. ViaIsCached'
    BY <1>1, <1>3 DEF IInv, RefInv, ViaIsCached
  <2>4. OwnHandleHasItsDb'
    <3> SUFFICES ASSUME NEW m \in Notes, m # n, own[m] # NoHandle
                 PROVE  via'[own[m]] = via[own[m]]
      BY <1>2 DEF IInv, RefInv, OwnHandleHasItsDb
    <3>1. own[m] \in Handles
      BY <1>0 DEF TypeOK
    <3>2. QED
      BY <3>1, <1>1, <1>3
  <2>5. QED
    BY <2>1, <2>2, <2>3, <2>4 DEF RefInv
<1>11. Turns(t)
  BY <1>1 DEF Turns, x
<1>12. Outlives /\ Kept
  BY DEF Outlives, Kept
<1>13. QED
  BY <1>4, <1>5, <1>6, <1>7, <1>8, <1>9, <1>10, <1>11, <1>12 DEF IInv, HeapInv

-----------------------------------------------------------------------------
\* Every call keeps the invariant, and closes no handle of another thread or one
\* that a live note needs.
LEMMA ApiCallKeeps ==
    ASSUME IInv, NEW t \in Threads, ApiCall(t)
    PROVE  IInv' /\ Turns(t) /\ Outlives /\ Kept
<1> DEFINE sweptDbs == StaleDbs(t)
           sweptNotes == StaleNotes(t)
           sweptAll == StaleNotes(t) \cup StaleDbs(t)
<1>0. TypeOK /\ ctx[t] = "live" /\ UNCHANGED <<home, ctx, phase>>
  BY DEF ApiCall, IInv
<1>1. /\ sweptDbs \in SUBSET sweptAll
      /\ sweptNotes \in SUBSET sweptAll
      /\ sweptAll \in SUBSET sweptAll
  OBVIOUS
<1>2. ASSUME NEW n \in Notes, LiveNote(n) PROVE dbOf[n] \in Dbs /\ LiveDb(dbOf[n])
  BY <1>2 DEF IInv, RefInv, LiveNoteHasDb, LiveDb
<1>3. ASSUME NEW d \in Dbs, t \in holders[d] PROVE LiveDb(d)
  BY <1>3 DEF LiveDb
<1>4. ASSUME NEW n \in Notes, t \in holders[n] PROVE LiveNote(n)
  BY <1>4 DEF LiveNote
<1>5. ASSUME SweepOnly(t, sweptDbs) \/ SweepOnly(t, sweptNotes) \/ SweepOnly(t, sweptAll),
             UNCHANGED refVars
      PROVE  IInv' /\ Turns(t) /\ Outlives /\ Kept
  BY <1>0, <1>1, <1>5, SweepOnlyKeeps
<1>6. ASSUME NEW d \in Dbs, LiveDb(d), NEW hd \in DbHandles(t, d),
             WithDb(t, sweptDbs, d, hd) \/ WithDb(t, sweptAll, d, hd), UNCHANGED refVars
      PROVE  IInv' /\ Turns(t) /\ Outlives /\ Kept
  BY <1>0, <1>1, <1>6, WithDbKeeps
<1>7. CASE DbRemove(t)
  BY <1>5, <1>7 DEF DbRemove
<1>8. ASSUME NEW d \in Dbs, DbGet(t, d) PROVE IInv' /\ Turns(t) /\ Outlives /\ Kept
  BY <1>3, <1>5, <1>6, <1>8 DEF DbGet
<1>9. ASSUME NEW d \in Dbs, NEW named \in BOOLEAN, DbOpen(t, d, named)
      PROVE  IInv' /\ Turns(t) /\ Outlives /\ Kept
  <2>1. Unused(d) /\ ~LiveDb(d)
    BY <1>9 DEF DbOpen
  <2>2. CASE SweepOnly(t, sweptDbs) /\ UNCHANGED refVars
    BY <1>5, <2>2
  <2>3. ASSUME NEW hd \in Free, WithDb(t, sweptDbs, d, hd),
               holders' = [holders EXCEPT ![d] = {t}],
               names' = [names EXCEPT ![d] = IF named THEN t ELSE NoThread],
               UNCHANGED <<dbOf, own>>
        PROVE  IInv' /\ Turns(t) /\ Outlives /\ Kept
    <3>1. /\ names' \in [Dbs -> Threads \cup {NoThread}]
          /\ names'[d] \in {NoThread, t}
          /\ \A e \in Dbs \ {d} : names'[e] = names[e]
      BY <1>0, <2>3 DEF TypeOK
    <3>2. QED
      BY <1>0, <1>1, <2>1, <2>3, <3>1, NewDbKeeps
  <2>4. QED
    BY <1>9, <2>2, <2>3 DEF DbOpen
<1>10. ASSUME NEW n \in Notes, NoteGet(t, n) PROVE IInv' /\ Turns(t) /\ Outlives /\ Kept
  <2>1. LiveNote(n) /\ dbOf[n] \in Dbs /\ LiveDb(dbOf[n]) /\ UNCHANGED refVars
    BY <1>2, <1>4, <1>10 DEF NoteGet
  <2>2. CASE SweepOnly(t, sweptNotes) \/ SweepOnly(t, sweptAll)
    BY <1>5, <2>1, <2>2
  <2>3. ASSUME NEW hd \in DbHandles(t, dbOf[n]), WithDb(t, sweptAll, dbOf[n], hd)
        PROVE  IInv' /\ Turns(t) /\ Outlives /\ Kept
    BY <1>6, <2>1, <2>3
  <2>4. ASSUME entry[t][n] = NoHandle, NEW hd \in DbHandles(t, dbOf[n]), NEW h \in Handles,
               WithNote(t, sweptAll, dbOf[n], hd, n, h), UNCHANGED leaked
        PROVE  IInv' /\ Turns(t) /\ Outlives /\ Kept
    BY <1>0, <1>1, <2>1, <2>4, NoteGetKeeps
  <2>5. QED
    BY <1>10, <2>2, <2>3, <2>4 DEF NoteGet
<1>11. ASSUME NEW n \in Notes, NoteSave(t, n) PROVE IInv' /\ Turns(t) /\ Outlives /\ Kept
  <2>1. CASE NoteGet(t, n)
    BY <1>10, <2>1
  <2>2. CASE ~NoteGet(t, n)
    <3>1. /\ own[n] # NoHandle /\ opener[own[n]] = t
          /\ own' = [own EXCEPT ![n] = NoHandle]
          /\ opener' = [opener EXCEPT ![own[n]] = NoThread]
          /\ via' = [via EXCEPT ![own[n]] = NoHandle]
          /\ UNCHANGED <<holders, dbOf, names, entry, leaked, offThread>>
      BY <1>11, <2>2 DEF NoteSave
    <3>2. \A m \in Notes : LiveNote(m)' <=> LiveNote(m)
      BY <3>1 DEF LiveNote
    <3>3. offThread' = FALSE /\ holders' \in [Objects -> SUBSET Threads]
      BY <1>0, <3>1 DEF IInv, HeapInv, TypeOK
    <3>4. QED
      BY <1>0, <3>1, <3>2, <3>3, OwnHandleCloses
  <2>3. QED
    BY <2>1, <2>2
<1>12. ASSUME NEW n \in Notes, NoteRemove(t, n) PROVE IInv' /\ Turns(t) /\ Outlives /\ Kept
  <2>1. LiveNote(n) /\ dbOf[n] \in Dbs /\ LiveDb(dbOf[n]) /\ UNCHANGED refVars
    BY <1>2, <1>4, <1>12 DEF NoteRemove
  <2>2. CASE SweepOnly(t, sweptNotes) \/ SweepOnly(t, sweptAll)
    BY <1>5, <2>1, <2>2
  <2>3. ASSUME NEW hd \in DbHandles(t, dbOf[n]), WithDb(t, sweptAll, dbOf[n], hd)
        PROVE  IInv' /\ Turns(t) /\ Outlives /\ Kept
    BY <1>6, <2>1, <2>3
  <2>4. ASSUME entry[t][n] = NoHandle, NEW hd \in DbHandles(t, dbOf[n]), NEW h \in Handles,
               WithNote(t, sweptAll, dbOf[n], hd, n, h), UNCHANGED leaked
        PROVE  IInv' /\ Turns(t) /\ Outlives /\ Kept
    BY <1>0, <1>1, <2>1, <2>4, NoteGetKeeps
  <2>5. QED
    BY <1>12, <2>2, <2>3, <2>4 DEF NoteRemove
<1>13. ASSUME NEW n \in Notes, NEW d \in Dbs, NoteOpen(t, d, n) PROVE IInv' /\ Turns(t) /\ Outlives /\ Kept
  <2>1. LiveDb(d) /\ Unused(n)
    BY <1>3, <1>13 DEF NoteOpen
  <2>2. CASE SweepOnly(t, sweptAll) /\ UNCHANGED refVars
    BY <1>5, <2>2
  <2>3. ASSUME NEW hd \in DbHandles(t, d), WithDb(t, sweptAll, d, hd), UNCHANGED refVars
        PROVE  IInv' /\ Turns(t) /\ Outlives /\ Kept
    BY <1>6, <2>1, <2>3
  <2>4. ASSUME NEW hd \in DbHandles(t, d), NEW h \in Handles,
               WithNote(t, sweptAll, d, hd, n, h),
               holders' = [holders EXCEPT ![n] = {t}], dbOf' = [dbOf EXCEPT ![n] = d],
               UNCHANGED <<names, own, leaked>>
        PROVE  IInv' /\ Turns(t) /\ Outlives /\ Kept
    <3>1. h \in Free /\ h # hd
      BY <2>4 DEF WithNote
    <3>2. Call(t, sweptAll, [o \in {d, n} |-> IF o = n THEN h ELSE hd],
               ({hd} \cap Free) \cup {h}, {h}, hd)
      BY <2>4 DEF WithNote
    <3>3. ({hd} \cap Free) \cup {h} = ({hd} \cap Free) \cup {} \cup {h} /\ {h} = {} \cup {h}
      OBVIOUS
    <3>4. Call(t, sweptAll, [o \in {d, n} |-> IF o = n THEN h ELSE hd],
               ({hd} \cap Free) \cup {} \cup {h}, {} \cup {h}, hd)
      BY <3>2, <3>3
    <3>5. leaked' = leaked \cup {} /\ {} \in SUBSET (Free \ {hd, h})
      BY <2>4
    <3>6. QED
      BY <1>0, <1>1, <2>1, <2>4, <3>1, <3>4, <3>5, NewSavedNoteKeeps
  <2>5. QED
    BY <1>13, <2>2, <2>3, <2>4 DEF NoteOpen
<1>14. ASSUME NEW n \in Notes, NEW d \in Dbs, NoteOpenByUnid(t, d, n)
       PROVE  IInv' /\ Turns(t) /\ Outlives /\ Kept
  <2>1. LiveDb(d) /\ Unused(n)
    BY <1>3, <1>14 DEF NoteOpenByUnid
  <2>2. CASE SweepOnly(t, sweptDbs) /\ UNCHANGED refVars
    BY <1>5, <2>2
  <2>3. ASSUME NEW hd \in DbHandles(t, d), WithDb(t, sweptDbs, d, hd), UNCHANGED refVars
        PROVE  IInv' /\ Turns(t) /\ Outlives /\ Kept
    BY <1>6, <2>1, <2>3
  <2>4. ASSUME NEW hd \in DbHandles(t, d), NEW x \in Free \ {hd},
               leaked' = leaked \cup {x},
               Call(t, sweptAll, [o \in {d} |-> hd], ({hd} \cap Free) \cup {x}, {x}, hd),
               UNCHANGED refVars
        PROVE  IInv' /\ Turns(t) /\ Outlives /\ Kept
    BY <1>0, <1>1, <2>1, <2>4, UnidOnlyKeeps
  <2>5. ASSUME NEW hd \in DbHandles(t, d), NEW x \in Free \ {hd}, NEW h \in Free \ {hd, x},
               leaked' = leaked \cup {x},
               Call(t, sweptAll, [o \in {d, n} |-> IF o = n THEN h ELSE hd],
                    ({hd} \cap Free) \cup {x, h}, {x, h}, hd),
               holders' = [holders EXCEPT ![n] = {t}], dbOf' = [dbOf EXCEPT ![n] = d],
               UNCHANGED <<names, own>>
        PROVE  IInv' /\ Turns(t) /\ Outlives /\ Kept
    <3>1. /\ ({hd} \cap Free) \cup {x, h} = ({hd} \cap Free) \cup {x} \cup {h}
          /\ {x, h} = {x} \cup {h}
      OBVIOUS
    <3>2. Call(t, sweptAll, [o \in {d, n} |-> IF o = n THEN h ELSE hd],
               ({hd} \cap Free) \cup {x} \cup {h}, {x} \cup {h}, hd)
      BY <2>5, <3>1
    <3>3. {x} \in SUBSET (Free \ {hd, h}) /\ h \in Free /\ h # hd
      OBVIOUS
    <3>4. QED
      BY <1>0, <1>1, <2>1, <2>5, <3>2, <3>3, NewSavedNoteKeeps
  <2>6. QED
    BY <1>14, <2>2, <2>3, <2>4, <2>5 DEF NoteOpenByUnid, UnidHandles
<1>15. ASSUME NEW n \in Notes, NEW d \in Dbs, NoteCreate(t, d, n) PROVE IInv' /\ Turns(t) /\ Outlives /\ Kept
  <2>1. LiveDb(d) /\ Unused(n)
    BY <1>3, <1>15 DEF NoteCreate
  <2>2. CASE SweepOnly(t, sweptDbs) /\ UNCHANGED refVars
    BY <1>5, <2>2
  <2>3. ASSUME NEW hd \in DbHandles(t, d), WithDb(t, sweptDbs, d, hd), UNCHANGED refVars
        PROVE  IInv' /\ Turns(t) /\ Outlives /\ Kept
    BY <1>6, <2>1, <2>3
  <2>4. ASSUME NEW hd \in DbHandles(t, d), NEW h \in Free \ {hd},
               Call(t, sweptDbs, [o \in {d} |-> hd], ({hd} \cap Free) \cup {h}, {h}, hd),
               own' = [own EXCEPT ![n] = h],
               holders' = [holders EXCEPT ![n] = {t}], dbOf' = [dbOf EXCEPT ![n] = d],
               UNCHANGED <<names, leaked>>
        PROVE  IInv' /\ Turns(t) /\ Outlives /\ Kept
    BY <1>0, <1>1, <2>1, <2>4, NewUnsavedNoteKeeps
  <2>5. QED
    BY <1>15, <2>2, <2>3, <2>4 DEF NoteCreate
<1>16. QED
  BY <1>7, <1>8, <1>9, <1>10, <1>11, <1>12, <1>13, <1>14, <1>15
     DEF ApiCall, DbCall, NoteCall

\* The last reference to a state dies on a thread that may destroy it.
LEMMA DropKeeps ==
    ASSUME IInv, NEW t \in Threads, NEW o \in Objects, phase = "running", Drop(t, o)
    PROVE  Inv' /\ Turns(t) /\ Outlives /\ Kept
<1> DEFINE hs == [holders EXCEPT ![o] = @ \ {t}]
           closes == o \in Notes /\ hs[o] = {} /\ own[o] # NoHandle
<1>0. TypeOK /\ UNCHANGED <<home, ctx>> /\ t \in holders[o]
  BY DEF IInv, Drop
<1>1. CASE DiesOffThread(t, o, hs)
  <2>1. /\ phase' = "terminated" /\ holders' = hs
        /\ UNCHANGED <<home, ctx, dbOf, names, own, heapVars>>
    BY <1>1 DEF Drop
  <2>2. hs \in [Objects -> SUBSET Threads] /\ \A p \in Objects : hs[p] \subseteq holders[p]
    BY <1>0 DEF TypeOK
  <2>3. \A n \in Notes : LiveNote(n)' => LiveNote(n)
    BY <2>1, <2>2 DEF LiveNote, Objects
  <2> HIDE DEF hs
  <2>4. TypeOK'
    BY <1>0, <2>1, <2>2 DEF TypeOK, heapVars
  <2>5. CachedHandleIsOpenHere' /\ HandleHeldOnce' /\ OnlyUnidOpenLeaks' /\ offThread' = FALSE
    BY <2>1 DEF heapVars, IInv, HeapInv, CachedHandleIsOpenHere, HandleHeldOnce,
                OnlyUnidOpenLeaks, Remembered
  <2>6. RefInv'
    BY <2>1, <2>3 DEF heapVars, IInv, RefInv, LiveNoteHasDb, NoteHandleHasItsDb,
                      NamedDbStaysHome, ViaIsCached, OwnHandleHasItsDb
  <2>7. QED
    BY <2>1, <2>4, <2>5, <2>6 DEF Inv, AbortInv, Turns, Outlives, Kept, heapVars
<1>2. ASSUME ~DiesOffThread(t, o, hs) PROVE IInv' /\ Turns(t) /\ Outlives /\ Kept
  <2>0. holders' = hs /\ UNCHANGED <<dbOf, names, phase>>
    BY <1>2 DEF Drop
  <2>1. /\ hs \in [Objects -> SUBSET Threads]
        /\ \A p \in Objects : p # o => hs[p] = holders[p]
    BY <1>0 DEF TypeOK
  <2>2. \A n \in Notes : /\ LiveNote(n)' => LiveNote(n)
                         /\ n # o => (LiveNote(n)' <=> LiveNote(n))
                         /\ n = o => (LiveNote(n)' <=> hs[o] # {})
    BY <1>0, <2>0, <2>1 DEF LiveNote, Objects
  <2>3. CASE closes
    <3>1. /\ own' = [own EXCEPT ![o] = NoHandle]
          /\ opener' = [opener EXCEPT ![own[o]] = NoThread]
          /\ via' = [via EXCEPT ![own[o]] = NoHandle]
          /\ offThread' = (offThread \/ opener[own[o]] # t)
          /\ UNCHANGED <<entry, leaked>>
      BY <1>2, <2>3 DEF Drop
    <3>2. opener[own[o]] = t
      BY <1>2, <2>3 DEF DiesOffThread
    <3>3. offThread' = FALSE
      BY <3>1, <3>2 DEF IInv, HeapInv
    <3> HIDE DEF hs
    <3>4. QED
      BY <1>0, <2>0, <2>1, <2>2, <2>3, <3>1, <3>2, <3>3, OwnHandleCloses
  <2>4. CASE ~closes
    <3>1. UNCHANGED <<own, heapVars>>
      BY <1>2, <2>4 DEF Drop
    <3>2. \A n \in Notes : own[n] # NoHandle => LiveNote(n)'
      BY <2>2, <2>4 DEF IInv, HeapInv, OwnIsOpen
    <3>3. IInv'
      BY <1>0, <2>0, <2>1, <2>2, <3>1, <3>2, RefsChange DEF TypeOK
    <3>4. QED
      BY <3>1, <3>3 DEF Turns, Outlives, Kept, heapVars
  <2>5. QED
    BY <2>3, <2>4
<1>3. QED
  BY <1>1, <1>2, StrongInv

\* More references to objects that are alive.
LEMMA CopyRefKeeps ==
    ASSUME IInv, NEW t \in Threads, CopyRef(t)
    PROVE  IInv' /\ Turns(t) /\ Outlives /\ Kept
<1>0. TypeOK /\ UNCHANGED <<home, ctx, heapVars, phase>>
  BY DEF IInv, CopyRef
<1>1. PICK o \in Objects, u \in Threads :
          /\ holders' = [holders EXCEPT ![o] = @ \cup {u}]
          /\ o \in Notes => holders[o] # {}
          /\ UNCHANGED <<dbOf, names, own>>
  <2>1. ASSUME NEW n \in Notes, GetDatabase(t, n)
        PROVE  \E o \in Objects, u \in Threads :
                  /\ holders' = [holders EXCEPT ![o] = @ \cup {u}]
                  /\ o \in Notes => holders[o] # {}
                  /\ UNCHANGED <<dbOf, names, own>>
    <3>1. dbOf[n] \in Dbs
      BY <2>1 DEF GetDatabase, IInv, RefInv, LiveNoteHasDb, LiveNote
    <3>2. QED
      BY <2>1, <3>1, NullAssumption DEF GetDatabase, Objects
  <2>2. ASSUME NEW u \in Threads, NEW o \in Objects, Share(t, u, o)
        PROVE  \E p \in Objects, v \in Threads :
                  /\ holders' = [holders EXCEPT ![p] = @ \cup {v}]
                  /\ p \in Notes => holders[p] # {}
                  /\ UNCHANGED <<dbOf, names, own>>
    BY <2>2 DEF Share
  <2>3. QED
    BY <2>1, <2>2 DEF CopyRef
<1>2. holders' \in [Objects -> SUBSET Threads]
  BY <1>0, <1>1 DEF TypeOK
<1>3. \A n \in Notes : LiveNote(n)' <=> LiveNote(n)
  BY <1>0, <1>1 DEF LiveNote, TypeOK, Objects
<1>4. \A n \in Notes : own[n] # NoHandle => LiveNote(n)'
  BY <1>3 DEF IInv, HeapInv, OwnIsOpen
<1>5. IInv'
  BY <1>0, <1>1, <1>2, <1>3, <1>4, RefsChange DEF TypeOK
<1>6. QED
  BY <1>0, <1>5 DEF Turns, Outlives, Kept, heapVars

LEMMA NextKeeps ==
    ASSUME IInv, Next
    PROVE  Inv' /\ Outlives /\ Kept /\ \E t \in Threads : Turns(t)
<1>1. PICK t \in Threads : Step(t) /\ phase = "running"
  BY DEF Next
<1>2. CASE Instance(t)
  <2>1. \A o \in Objects : entry[t][o] = NoHandle
    BY <1>2, NoContextNoEntry DEF Instance
  <2>2. IInv'
    BY <1>2, <2>1, ContextStarts DEF Instance
  <2>3. QED
    BY <1>2, <2>2, StrongInv DEF Instance, Turns, Outlives, Kept, heapVars
<1>3. CASE StartThread(t)
  <2>1. \A o \in Objects : entry[t][o] = NoHandle
    BY <1>3, NoContextNoEntry DEF StartThread
  <2>2. home' \in Threads \cup {NoThread}
    BY <1>3 DEF StartThread, IInv, TypeOK
  <2>3. IInv'
    BY <1>3, <2>1, <2>2, ContextStarts DEF StartThread
  <2>4. QED
    BY <1>3, <2>3, StrongInv DEF StartThread, Turns, Outlives, Kept, heapVars
<1>4. CASE EndThread(t)
  BY <1>4, EndKeeps, StrongInv DEF EndThread
<1>5. CASE Exit(t)
  <2>1. CASE t # home /\ Cached(home) # {}
    <3>1. phase' = "terminated" /\ UNCHANGED <<home, ctx, refVars, heapVars>>
      BY <1>5, <2>1 DEF Exit
    <3>2. \A n \in Notes : /\ LiveNote(n)' <=> LiveNote(n)
                           /\ own[n] # NoHandle => LiveNote(n)
      BY <3>1 DEF LiveNote, refVars, IInv, HeapInv, OwnIsOpen
    <3>3. IInv'
      BY <3>1, <3>2, RefsChange DEF IInv, TypeOK, refVars
    <3>4. QED
      BY <1>1, <3>1, <3>3, StrongInv DEF Turns, Outlives, Kept, heapVars
  <2>2. CASE ~(t # home /\ Cached(home) # {})
    <3>1. home \in Threads
      BY <1>5 DEF Exit, IInv, TypeOK
    <3>2. /\ SweepOnly(home, Cached(home)) /\ phase' = "exited"
          /\ ctx' = [ctx EXCEPT ![home] = "ended"] /\ UNCHANGED <<home, refVars>>
      BY <1>5, <2>2 DEF Exit
    <3>3. IInv' /\ Turns(home) /\ Outlives /\ Kept
      BY <3>1, <3>2, EndKeeps
    <3>4. QED
      BY <3>1, <3>3, StrongInv
  <2>3. QED
    BY <2>1, <2>2
<1>6. CASE ApiCall(t)
  BY <1>6, ApiCallKeeps, StrongInv
<1>7. CASE CopyRef(t)
  BY <1>7, CopyRefKeeps, StrongInv
<1>8. ASSUME NEW o \in Objects, Drop(t, o) PROVE Inv' /\ Turns(t) /\ Outlives /\ Kept
  BY <1>1, <1>8, DropKeeps
<1>9. QED
  BY <1>1, <1>2, <1>3, <1>4, <1>5, <1>6, <1>7, <1>8 DEF Step

LEMMA StutterKeeps ==
    ASSUME UNCHANGED vars
    PROVE  (AbortInv => AbortInv') /\ (IInv => IInv')
<1> USE DEF vars, refVars, heapVars
<1>1. TypeOK => TypeOK'
  BY DEF TypeOK
<1>2. /\ CachedHandleIsOpenHere => CachedHandleIsOpenHere'
      /\ HandleHeldOnce => HandleHeldOnce'
      /\ LeakedIsOpen => LeakedIsOpen'
  BY DEF CachedHandleIsOpenHere, HandleHeldOnce, LeakedIsOpen
<1>3. (OwnIsOpen => OwnIsOpen') /\ (OnlyUnidOpenLeaks => OnlyUnidOpenLeaks')
  BY DEF OwnIsOpen, LiveNote, OnlyUnidOpenLeaks, Remembered
<1>4. RefInv => RefInv'
  BY DEF RefInv, LiveNoteHasDb, LiveNote, NoteHandleHasItsDb, NamedDbStaysHome,
         ViaIsCached, OwnHandleHasItsDb
<1>5. QED
  BY <1>1, <1>2, <1>3, <1>4 DEF AbortInv, IInv, HeapInv

\* A step starts from the strong invariant: nothing happens after an abort.
LEMMA Running == Inv /\ Next => IInv
BY DEF Inv, Next

LEMMA Invariance == Spec => []Inv
<1>1. Init => Inv
  BY InitIInv, StrongInv
<1>2. ASSUME Inv, UNCHANGED vars PROVE Inv'
  <2>1. phase' = phase
    BY <1>2 DEF vars
  <2>2. QED
    BY <1>2, <2>1, StutterKeeps DEF Inv
<1>3. Inv /\ [Next]_vars => Inv'
  BY <1>2, NextKeeps, Running
<1>4. QED
  BY <1>1, <1>3, PTL DEF Spec

-----------------------------------------------------------------------------
\* No variable ever leaves its type; in particular the identity NSFNoteOpenByUNID
\* returns is a handle whenever the call is said to have succeeded.
THEOREM TypeCorrect == Spec => []TypeOK
BY Invariance, PTL DEF Inv, AbortInv

\* thread_handle_store: whatever databases and notes are opened, copied and dropped
\* by whatever threads, a store only holds handles that are open and that its own
\* thread opened, and none once its context has ended.
THEOREM StoresHoldOpenHandles == Spec => []CachedHandleIsOpenHere
BY Invariance, PTL DEF Inv, AbortInv

\* scoped_handle members and store entries: no native handle is in two places, so
\* that none is closed twice.
THEOREM NoHandleHeldTwice == Spec => []HandleHeldOnce
BY Invariance, PTL DEF Inv, AbortInv

\* Every handle the library opens is held somewhere that will close it, with the one
\* exception of note.cpp:86.
THEOREM UnidIsTheOnlyLeak == Spec => []OnlyUnidOpenLeaks
BY Invariance, PTL DEF Inv, AbortInv

\* remove_stale() of the database store never closes the handle through which a live
\* note was opened on the same thread.
THEOREM NotesKeepTheirDb == Spec => []NoteHandleHasItsDb
BY Invariance, PTL DEF Inv, AbortInv, RefInv

\* database::get_handle(): only the thread of the names list ever holds a handle of
\* a database opened with names.
THEOREM NamedDbThreadAffine == Spec => []NamedDbStaysHome
BY Invariance, PTL DEF Inv, AbortInv, RefInv

\* remove_stale() of the two stores: a database handle that a thread closes while its
\* context lasts serves no note that lives on, whether its handle is in a store or, for
\* an unsaved note, in the note itself.
THEOREM DbsOutliveTheirNotes == Spec => DbOutlivesItsNotes
<1>1. Inv /\ [Next]_vars => [Outlives]_vars
  BY NextKeeps, Running
<1> QED
  BY <1>1, Invariance, PTL DEF Spec, DbOutlivesItsNotes, Outlives

\* note::open() and note::create() take the database handle from the store of the
\* thread they run on, so that a native note handle and the native database handle it
\* was opened through belong to one thread, whatever becomes of the database object.
ViaStaysOnThread ==
    \A h \in Handles : via[h] # NoHandle =>
        via[h] \in Handles /\ opener[h] \in Threads /\ opener[via[h]] = opener[h]

THEOREM NoteAndDbShareThread == Spec => []ViaStaysOnThread
<1>1. ASSUME Inv PROVE ViaStaysOnThread
  <2> SUFFICES ASSUME NEW h \in Handles, via[h] # NoHandle
               PROVE  via[h] \in Handles /\ opener[h] \in Threads /\ opener[via[h]] = opener[h]
    BY DEF ViaStaysOnThread
  <2>1. PICK d \in Dbs : opener[h] \in Threads /\ entry[opener[h]][d] = via[h]
    BY <1>1 DEF Inv, AbortInv, RefInv, ViaIsCached
  <2>2. QED
    BY <1>1, <2>1 DEF Inv, AbortInv, TypeOK, CachedHandleIsOpenHere, Objects
<1> QED
  BY <1>1, Invariance, PTL

\* ~thread_context(): what a thread leaves open when its context has ended is the
\* handle of an unsaved note that others still refer to, or one that opening a note by
\* universal id has leaked; and no database handle stands behind it any more.
EndedThreadsOweNothing ==
    phase # "terminated" => \A t \in Threads, h \in Handles :
        ctx[t] # "live" /\ opener[h] = t =>
        /\ via[h] = NoHandle
        /\ h \in leaked \/ \E n \in Notes : own[n] = h /\ LiveNote(n)

THEOREM ContextsCleanUp == Spec => []EndedThreadsOweNothing
<1>1. ASSUME IInv PROVE EndedThreadsOweNothing
  <2> SUFFICES ASSUME NEW t \in Threads, NEW h \in Handles, ctx[t] # "live", opener[h] = t
               PROVE  /\ via[h] = NoHandle
                      /\ h \in leaked \/ \E n \in Notes : own[n] = h /\ LiveNote(n)
    BY DEF EndedThreadsOweNothing
  <2>1. \A o \in Objects : entry[t][o] = NoHandle
    BY <1>1, NoContextNoEntry
  <2>2. via[h] = NoHandle
    BY <1>1, <2>1 DEF IInv, RefInv, ViaIsCached, Objects
  <2>3. \A u \in Threads, o \in Objects : entry[u][o] # h
    BY <1>1, <2>1, NullAssumption DEF IInv, HeapInv, CachedHandleIsOpenHere
  <2>4. h \in leaked \/ \E n \in Notes : own[n] = h
    BY <1>1, <2>3, NullAssumption DEF IInv, HeapInv, OnlyUnidOpenLeaks, Remembered
  <2>5. QED
    BY <1>1, <2>2, <2>4, NullAssumption DEF IInv, HeapInv, OwnIsOpen
<1>2. Inv => EndedThreadsOweNothing
  BY <1>1 DEF Inv, EndedThreadsOweNothing
<1> QED
  BY <1>2, Invariance, PTL

\* thread_handle_store::find() and remove_stale(): whatever the other threads copy and
\* drop, a thread keeps one and the same native handle of an object from the call that
\* opened it until the object dies or the context of the thread ends.  The changes to a
\* note between two calls are therefore all made through one handle.
HandlesStay ==
    [][\A t \in Threads, o \in Objects :
          entry[t][o] # NoHandle /\ Alive(o) /\ ctx'[t] = "live"
          => entry'[t][o] = entry[t][o]]_vars

THEOREM OneHandleForLife == Spec => HandlesStay
<1>1. Inv /\ [Next]_vars => [Kept]_vars
  BY NextKeeps, Running
<1> QED
  BY <1>1, Invariance, PTL DEF Spec, HandlesStay, Kept

\* ~scoped_handle calls std::terminate for what dies with the reference just dropped,
\* when its own thread has let go of it before, and for the static context of another
\* thread; not for saved notes and not for databases opened without names.
THEOREM AbortsAreAffine == Spec => AbortOnlyOverAffineObjects
<1> DEFINE NoteDies(n) == /\ LiveNote(n) /\ ~LiveNote(n)'
                          /\ own[n] # NoHandle /\ opener[own[n]] \notin holders[n]
           NamedDbDies(d) == /\ LiveDb(d) /\ ~LiveDb(d)'
                             /\ names[d] # NoThread /\ names[d] \notin holders[d]
                             /\ \A n \in Notes : dbOf[n] = d => names[d] \notin holders[n]
           Ends == \E t \in Threads \ {home} : Exit(t) /\ Cached(home) # {}
           Cause == (\E n \in Notes : NoteDies(n)) \/ (\E d \in Dbs : NamedDbDies(d)) \/ Ends
<1>1. ASSUME IInv, Next, phase' = "terminated"
      PROVE  Cause
  <2>1. PICK t \in Threads : Step(t) /\ phase = "running"
    BY <1>1 DEF Next
  <2>2. Exit(t) \/ \E o \in Objects : Drop(t, o)
    BY <1>1, <2>1 DEF Step, Instance, StartThread, EndThread, ApiCall, CopyRef
  <2>3. CASE Exit(t)
    <3>1. t # home /\ Cached(home) # {}
      BY <1>1, <2>3 DEF Exit
    <3> HIDE DEF NoteDies, NamedDbDies
    <3>2. QED
      BY <2>3, <3>1
  <2>4. CASE \E o \in Objects : Drop(t, o)
    <3> PICK o \in Objects : Drop(t, o)
      BY <2>4
    <3> DEFINE hs == [holders EXCEPT ![o] = @ \ {t}]
    <3>1. DiesOffThread(t, o, hs) /\ holders' = hs /\ dbOf' = dbOf
      BY <1>1, <2>1 DEF Drop
    <3>2. holders \in [Objects -> SUBSET Threads] /\ t \in holders[o]
      BY <1>1 DEF IInv, TypeOK, Drop
    <3>3. \A p \in Objects : hs[p] = {} => holders[p] \subseteq {t}
      BY <3>2
    <3>4. Notes \subseteq Objects /\ Dbs \subseteq Objects
      BY DEF Objects
    <3> HIDE DEF hs
    <3>5. CASE o \in Notes /\ hs[o] = {} /\ own[o] # NoHandle /\ opener[own[o]] # t
      <4>1. NoteDies(o)
        BY <3>1, <3>2, <3>3, <3>4, <3>5 DEF LiveNote
      <4> HIDE DEF NoteDies
      <4>2. QED
        BY <4>1, <3>5
    <3>6. CASE \E d \in Dbs : LiveDb(d) /\ DbDies(d, hs) /\ names[d] \notin {NoThread, t}
      <4>1. PICK d \in Dbs : LiveDb(d) /\ DbDies(d, hs) /\ names[d] \notin {NoThread, t}
        BY <3>6
      <4>2. hs[d] = {} /\ \A n \in Notes : dbOf[n] = d => hs[n] = {}
        BY <4>1 DEF DbDies
      <4>3. holders'[d] = {} /\ \A n \in Notes : dbOf'[n] = d => holders'[n] = {}
        BY <3>1, <4>2
      <4>4. ~LiveDb(d)'
        BY <4>3 DEF LiveDb, LiveNote
      <4>5. names[d] \notin holders[d] /\ \A n \in Notes : dbOf[n] = d => names[d] \notin holders[n]
        BY <3>3, <3>4, <4>1, <4>2
      <4>6. NamedDbDies(d)
        BY <4>1, <4>4, <4>5
      <4> HIDE DEF NamedDbDies
      <4>7. QED
        BY <4>1, <4>6
    <3> QED
      BY <3>1, <3>5, <3>6 DEF DiesOffThread
  <2> QED
    BY <2>2, <2>3, <2>4
<1>2. Inv /\ [Next]_vars => [phase' = "terminated" => Cause]_vars
  BY <1>1, Running
<1> QED
  BY <1>2, Invariance, PTL DEF Spec, AbortOnlyOverAffineObjects

\* Every step of every thread is a turn of HandleOwnership: no handle is passed to
\* its close function by a thread that did not open it.
THEOREM Refinement == Spec => ImplementsOwnership
<1>1. Init => Ownership!Init
  BY DEF Init, Ownership!Init
<1>2. ASSUME Inv, Inv', [Next]_vars PROVE [Ownership!Next]_(Ownership!ownershipVars)
  <2>1. CASE UNCHANGED vars
    BY <2>1 DEF vars, heapVars, Ownership!ownershipVars
  <2>2. CASE Next
    <3>1. PICK t \in Threads : Turns(t)
      BY <1>2, <2>2, NextKeeps, Running
    <3> DEFINE closed == {h \in Handles : opener[h] = t /\ opener'[h] = NoThread}
               opened == {h \in Handles : opener[h] = NoThread /\ opener'[h] = t}
    <3>2. closed \in SUBSET Ownership!OpenedBy(t) /\ opened \in SUBSET Ownership!Free
      BY DEF Ownership!OpenedBy, Ownership!Free
    <3>3. opener' = Ownership!Turned(t, closed, opened)
      BY <1>2, <3>1 DEF Ownership!Turned, Inv, AbortInv, TypeOK, Turns
    <3>4. UNCHANGED offThread
      BY <1>2 DEF Inv, AbortInv
    <3> HIDE DEF closed, opened
    <3>5. Ownership!Turn(t)
      BY <3>2, <3>3, <3>4 DEF Ownership!Turn
    <3>6. QED
      BY <3>5 DEF Ownership!Next
  <2>3. QED
    BY <1>2, <2>1, <2>2
<1>3. QED
  BY <1>1, <1>2, Invariance, PTL DEF Spec, ImplementsOwnership, Ownership!Spec
=============================================================================
