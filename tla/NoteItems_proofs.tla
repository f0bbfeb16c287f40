-------------------------- MODULE NoteItems_proofs ---------------------------
(***************************************************************************)
(* The properties of NoteItems for any number of threads, names, values    *)
(* and saves.  The inductive invariant adds to them who can reach which    *)
(* copy: the handle in the shared state belongs to its creator, a save in  *)
(* progress keeps it, a note that was never stored has the base 0, and     *)
(* what a thread has set stands in its copy whether or not somebody still  *)
(* holds the note.  For the saves without force it relates a copy to the   *)
(* stored note: a copy of the present version differs from it by the edits *)
(* of its thread and by nothing else.                                      *)
(***************************************************************************)
EXTENDS NoteItems, SequenceTheorems, TLAPS

\* What was set can be read, also in the copy of an expired state.
EditsInCopy ==
    \A t \in Threads, k \in Keys :
        edits[t][k] \in Values =>
            /\ Mine(t) # None /\ Mine(t).items[k] # <<>>
            /\ Convert(Mine(t).items[k][1], edits[t][k].as) = edits[t][k]

\* A value in the handle of the shared state is the creator's.
OwnViews ==
    \A t \in Threads :
        views[t] # None /\ views[t].through = "own" /\ views[t].open =>
            own # None /\ t = creator

\* A save in progress: the creator has not let go of the note and of its handle.
SaveInProgress ==
    /\ saving # "no" => own # None /\ creator \in holders
    /\ saving = "named" => named

\* Versions: only a new note has the base 0, and nothing is stored under it; no copy
\* is of a version to come.
Versions ==
    /\ stored # None => version # 0
    /\ own # None /\ own.base = 0 => stored = None
    /\ own # None => own.base <= version
    /\ \A t \in Threads : copies[t] # None => copies[t].base # 0 /\ copies[t].base <= version

\* While the shared state has a handle no thread has one in its store.
OneKind == own # None => \A t \in Threads : copies[t] = None

\* A copy of the version that is stored now differs from it by the edits of its thread.
EditsOverBase ==
    \A t \in Threads, k \in Keys :
        Mine(t) # None /\ stored # None /\ Mine(t).base = version =>
            Merged(edits[t][k], Mine(t).items[k], stored[k])

IInv ==
    /\ TypeOK /\ ValuesPinned /\ EditsInCopy /\ OwnViews /\ SaveInProgress
    /\ OpensSavedNotes /\ Versions /\ OneKind /\ EditsOverBase

-----------------------------------------------------------------------------
LEMMA AppliedIsItem ==
    ASSUME NEW v \in Values
    PROVE  Apply(v) \in Items
BY DEF Items

\* What is applied and converted to its own type is what it was.
LEMMA RoundTrip ==
    ASSUME NEW v \in Values
    PROVE  Convert(Apply(v), v.as) = v
<1>1. v.as \in DOMAIN ItemType /\ v = [as |-> v.as, data |-> v.data]
    BY NoteItemsAssumption
<1>2. ~(v.as = "list" /\ Apply(v).type = "text")
    BY <1>1 DEF Apply, ItemType
<1>3. Apply(v).type = ItemType[v.as] /\ Apply(v).data = v.data
    BY DEF Apply
<1>4. Convert(Apply(v), v.as) = [as |-> v.as, data |-> v.data]
    BY <1>2, <1>3 DEF Convert
<1> QED BY <1>1, <1>4

\* The items of the name after set(): a value that can be read back comes first.
After(s, v) == IF s # <<>> THEN Modified(s, Apply(v)) ELSE Appended(s, Apply(v))

LEMMA SetItems ==
    ASSUME NEW s \in Seq(Items), NEW v \in Values
    PROVE  /\ After(s, v) \in Seq(Items) /\ After(s, v) # <<>>
           /\ DOMAIN s \subseteq DOMAIN After(s, v)
           /\ After(s, v)[1] = Apply(v)
<1>1. Apply(v) \in Items
    BY AppliedIsItem
<1>2. CASE s # <<>>
    <2> DEFINE r == [s EXCEPT ![1] = Apply(v)]
    <2>1. After(s, v) = r
        BY <1>2 DEF After, Modified
    <2>2. 1 \in 1 .. Len(s) /\ Len(s) \in Nat /\ s \in [1 .. Len(s) -> Items]
        BY <1>2
    <2>3. r \in [1 .. Len(s) -> Items] /\ r[1] = Apply(v) /\ DOMAIN r = DOMAIN s
        BY <1>1, <2>2
    <2>4. r \in Seq(Items)
        BY <2>2, <2>3, SeqDef
    <2>5. r # <<>>
        BY <2>2, <2>3
    <2> QED BY <2>1, <2>3, <2>4, <2>5
<1>3. CASE s = <<>>
    <2>1. After(s, v) = Append(s, Apply(v))
        BY <1>3 DEF After, Appended
    <2>2. DOMAIN s = {} /\ Len(s) = 0
        BY <1>3
    <2>3. Append(s, Apply(v)) \in Seq(Items) /\ Len(Append(s, Apply(v))) = 1
          /\ Append(s, Apply(v))[1] = Apply(v)
        BY <1>1, <1>3, <2>2
    <2> QED BY <2>1, <2>2, <2>3
<1> QED BY <1>2, <1>3

\* What an erase leaves: everything, all but the first items, or nothing.
LEMMA EndsOf ==
    ASSUME NEW s \in Seq(Items)
    PROVE  /\ s \in Ends(s) /\ <<>> \in Ends(s)
           /\ \A r \in Ends(s) : r \in Seq(Items)
           /\ \A r \in Ends(s) : r # <<>> => Tail(r) \in Ends(s)
<1>1. Len(s) \in Nat /\ 1 \in 1 .. Len(s) + 1 /\ Len(s) + 1 \in 1 .. Len(s) + 1
    OBVIOUS
<1>2. s \in Ends(s)
    BY <1>1, SubSeqFull DEF Ends
<1>3. <<>> \in Ends(s)
    <2>1. SubSeq(s, Len(s) + 1, Len(s)) = <<>>
        BY <1>1, SubSeqEmpty
    <2> QED BY <1>1, <2>1 DEF Ends
<1>4. ASSUME NEW r \in Ends(s)
      PROVE  r \in Seq(Items) /\ (r # <<>> => Tail(r) \in Ends(s))
    <2>1. PICK i \in 1 .. Len(s) + 1 : r = SubSeq(s, i, Len(s))
        BY DEF Ends
    <2>2. CASE i = Len(s) + 1
        <3>1. r = <<>>
            BY <1>1, <2>1, <2>2, SubSeqEmpty
        <3> QED BY <3>1, EmptySeq
    <2>3. CASE i \in 1 .. Len(s)
        <3>1. \A q \in i .. Len(s) : s[q] \in Items
            BY <1>1, <2>3
        <3>2. r \in Seq(Items)
            BY <1>1, <2>1, <2>3, <3>1, SubSeqProperties
        <3>3. Len(s) \in i .. Len(s) /\ i + 1 \in 1 .. Len(s) + 1
            BY <1>1, <2>3
        <3>4. Tail(r) = SubSeq(s, i + 1, Len(s))
            BY <2>1, <2>3, <3>3, HeadTailOfSubSeq
        <3> QED BY <3>2, <3>3, <3>4 DEF Ends
    <2> QED BY <1>1, <2>2, <2>3
<1> QED BY <1>2, <1>3, <1>4

\* An edit that stands in the copy is one that the copy as a whole may come from.
LEMMA MergedSame ==
    ASSUME NEW s \in Seq(Items), NEW e \in Values \cup {Erased, None},
           e \in Values => s # <<>> /\ Convert(s[1], e.as) = e
    PROVE  Merged(e, s, s)
BY EndsOf DEF Merged

\* Whatever was done to the name before, less than the first item is not lost.
LEMMA TailMerged ==
    ASSUME NEW s, NEW old \in Seq(Items), NEW e \in Values \cup {Erased, None},
           Merged(e, s, old), s # <<>>
    PROVE  Tail(s) \in Ends(old)
BY EndsOf DEF Merged

LEMMA MergedErase ==
    ASSUME NEW s, NEW old \in Seq(Items), NEW e \in Values \cup {Erased, None},
           Merged(e, s, old), s # <<>>, NEW r \in {<<>>, Tail(s)}
    PROVE  Merged(Erased, r, old)
BY TailMerged, EndsOf, NoteItemsAssumption DEF Merged

LEMMA MergedSet ==
    ASSUME NEW s \in Seq(Items), NEW old \in Seq(Items),
           NEW e \in Values \cup {Erased, None}, Merged(e, s, old), NEW v \in Values
    PROVE  Merged(v, After(s, v), old)
<1>1. After(s, v) # <<>> /\ After(s, v)[1] = Apply(v) /\ After(s, v) \in Seq(Items)
    BY SetItems
<1>2. Convert(After(s, v)[1], v.as) = v
    BY <1>1, RoundTrip
<1>3. Tail(After(s, v)) \in Ends(old)
    <2>1. CASE s = <<>>
        <3>1. Len(After(s, v)) = 1
            BY <2>1 DEF After, Appended
        <3>2. Tail(After(s, v)) \in Seq(Items) /\ Len(Tail(After(s, v))) = 0
            BY <1>1, <3>1, HeadTailProperties
        <3>3. Tail(After(s, v)) = <<>>
            BY <3>2, EmptySeq
        <3> QED BY <3>3, EndsOf
    <2>2. CASE s # <<>>
        <3>1. After(s, v) = [s EXCEPT ![1] = Apply(v)]
            BY <2>2 DEF After, Modified
        <3>2. /\ Len(After(s, v)) = Len(s)
              /\ \A i \in 2 .. Len(s) : After(s, v)[i] = s[i]
            BY <1>1, <3>1, ExceptSeq, AppliedIsItem
        <3>3. /\ Tail(After(s, v)) \in Seq(Items) /\ Tail(s) \in Seq(Items)
              /\ Len(Tail(After(s, v))) = Len(Tail(s)) /\ Len(Tail(s)) = Len(s) - 1
              /\ \A i \in 1 .. Len(Tail(s)) :
                     Tail(After(s, v))[i] = After(s, v)[i + 1] /\ Tail(s)[i] = s[i + 1]
            BY <1>1, <2>2, <3>2, HeadTailProperties
        <3>4. \A i \in 1 .. Len(Tail(s)) : Tail(After(s, v))[i] = Tail(s)[i]
            BY <3>2, <3>3
        <3>5. Tail(After(s, v)) = Tail(s)
            BY <3>3, <3>4, SeqEqual
        <3> QED BY <2>2, <3>5, TailMerged
    <2> QED BY <2>1, <2>2
<1> QED BY <1>1, <1>2, <1>3, NoteItemsAssumption DEF Merged

LEMMA NoneIsNoCopy == \A c \in Copies : c # None
BY NoteItemsAssumption

\* A copy with other items of one name.
LEMMA ChangedCopy ==
    ASSUME NEW c \in Copies, NEW k \in Keys, NEW s \in Seq(Items)
    PROVE  /\ WithItems(c, k, s) \in Copies
           /\ WithItems(c, k, s).base = c.base
           /\ WithItems(c, k, s).items[k] = s
           /\ \A q \in Keys : q # k => WithItems(c, k, s).items[q] = c.items[q]
BY DEF WithItems, Copies, ItemMaps

LEMMA FreshIsCopy ==
    ASSUME TypeOK, stored # None
    PROVE  Fresh \in Copies
BY NoteItemsAssumption DEF TypeOK, Fresh, Copies

\* get_handle() returns the copy of the thread, or a new one when it has none.
LEMMA ReachedCopy ==
    ASSUME TypeOK, NEW t \in Threads, NEW c, Reaches(t, c)
    PROVE  /\ c \in Copies /\ t \in holders
           /\ own # None => t = creator
           /\ saving = "no" \/ t # creator
           /\ Mine(t) # None => c = Mine(t)
           /\ Mine(t) = None => own = None /\ named /\ stored # None /\ c = Fresh
<1>1. own \in Copies \cup {None} /\ copies[t] \in Copies \cup {None}
    BY DEF TypeOK
<1>2. stored # None => Fresh \in Copies
    BY FreshIsCopy
<1> QED BY <1>1, <1>2 DEF Reaches, Mine

\* The copy that a call leaves is the thread's from then on; the others keep theirs.
LEMMA LeftCopy ==
    ASSUME TypeOK, NEW t \in Threads, NEW c, Reaches(t, c), NEW d \in Copies, Leaves(t, d),
           creator' = creator
    PROVE  /\ own' \in Copies \cup {None} /\ copies' \in [Threads -> Copies \cup {None}]
           /\ own' = None <=> own = None
           /\ own # None => own' = d /\ copies' = copies
           /\ own = None => copies' = [copies EXCEPT ![t] = d]
           /\ Mine(t)' = d
           /\ \A u \in Threads : u # t => Mine(u)' = Mine(u)
<1>1. own # None => t = creator
    BY ReachedCopy
<1>2. d # None
    BY NoneIsNoCopy
<1>3. CASE own # None
    <2>1. own' = d /\ copies' = copies
        BY <1>3 DEF Leaves
    <2> QED BY <2>1, <1>1, <1>2, <1>3 DEF Mine, TypeOK
<1>4. CASE own = None
    <2>1. own' = own /\ copies' = [copies EXCEPT ![t] = d]
        BY <1>4 DEF Leaves
    <2> QED BY <2>1, <1>2, <1>4 DEF Mine, TypeOK
<1> QED BY <1>3, <1>4

-----------------------------------------------------------------------------
(* What a call keeps that reaches the copy c and leaves d.                 *)

LEMMA LeftRest ==
    ASSUME IInv, NEW t \in Threads, NEW c, Reaches(t, c), NEW d \in Copies, d.base = c.base,
           Leaves(t, d), UNCHANGED <<stored, version, creator, named, holders, saving>>
    PROVE  SaveInProgress' /\ OpensSavedNotes' /\ Versions' /\ OneKind'
<1>1. /\ own' = None <=> own = None
      /\ own # None => own' = d /\ copies' = copies
      /\ own = None => copies' = [copies EXCEPT ![t] = d]
    BY LeftCopy DEF IInv
<1>2. /\ c \in Copies /\ t \in holders
      /\ own # None => t = creator
      /\ Mine(t) # None => c = Mine(t)
      /\ Mine(t) = None => own = None /\ named /\ stored # None /\ c = Fresh
    BY ReachedCopy DEF IInv
<1>3. SaveInProgress'
    BY <1>1 DEF IInv, SaveInProgress
<1>4. OpensSavedNotes'
    BY <1>1, <1>2 DEF IInv, OpensSavedNotes, Alive
<1>5. Versions'
    <2>0. version \in Nat
        BY DEF IInv, TypeOK
    <2>1. own' # None => (own'.base = 0 => stored' = None) /\ own'.base <= version'
        BY <1>1, <1>2 DEF IInv, Versions, Mine
    <2>2. ASSUME NEW u \in Threads, copies'[u] # None
          PROVE  copies'[u].base # 0 /\ copies'[u].base <= version'
        <3>1. CASE own = None /\ u = t
            <4>1. copies'[u] = d
                BY <1>1, <3>1 DEF IInv, TypeOK
            <4>2. c.base # 0 /\ c.base <= version
                BY <1>2, <2>0, <3>1 DEF IInv, Versions, Mine, Fresh
            <4> QED BY <4>1, <4>2
        <3>2. CASE ~(own = None /\ u = t)
            <4>1. copies'[u] = copies[u]
                BY <1>1, <3>2 DEF IInv, TypeOK
            <4> QED BY <2>2, <4>1 DEF IInv, Versions
        <3> QED BY <3>1, <3>2
    <2>3. stored' # None => version' # 0
        BY DEF IInv, Versions
    <2> QED BY <2>1, <2>2, <2>3 DEF Versions
<1>6. OneKind'
    BY <1>1 DEF IInv, OneKind
<1> QED BY <1>3, <1>4, <1>5, <1>6

\* An edit of the thread is in the copy that it leaves.
Stands(d, k, e) == d.items[k] # <<>> /\ Convert(d.items[k][1], e.as) = e

LEMMA LeftEdits ==
    ASSUME IInv, NEW t \in Threads, NEW c, Reaches(t, c), NEW d \in Copies,
           Leaves(t, d), creator' = creator,
           \A u \in Threads : u # t => edits'[u] = edits[u],
           \A k \in Keys : edits'[t][k] \in Values =>
               \/ edits'[t][k] = edits[t][k] /\ d.items[k] = c.items[k]
               \/ Stands(d, k, edits'[t][k])
    PROVE  EditsInCopy'
<1>1. Mine(t)' = d /\ \A u \in Threads : u # t => Mine(u)' = Mine(u)
    BY LeftCopy DEF IInv
<1>2. /\ Mine(t) # None => c = Mine(t)
      /\ d # None
    BY ReachedCopy, NoneIsNoCopy DEF IInv
<1>3. ASSUME NEW u \in Threads, NEW k \in Keys, edits'[u][k] \in Values
      PROVE  /\ Mine(u)' # None /\ Mine(u)'.items[k] # <<>>
             /\ Convert(Mine(u)'.items[k][1], edits'[u][k].as) = edits'[u][k]
    <2>1. CASE u # t
        BY <1>1, <1>3, <2>1 DEF IInv, EditsInCopy
    <2>2. CASE u = t
        <3>1. CASE edits'[t][k] = edits[t][k] /\ d.items[k] = c.items[k]
            <4>1. /\ Mine(t) # None /\ Mine(t).items[k] # <<>>
                  /\ Convert(Mine(t).items[k][1], edits[t][k].as) = edits[t][k]
                BY <1>3, <2>2, <3>1 DEF IInv, EditsInCopy
            <4> QED BY <1>1, <1>2, <2>2, <3>1, <4>1
        <3>2. CASE Stands(d, k, edits'[t][k])
            BY <1>1, <1>2, <2>2, <3>2 DEF Stands
        <3> QED BY <1>3, <2>2, <3>1, <3>2
    <2> QED BY <2>1, <2>2
<1> QED BY <1>3 DEF EditsInCopy

\* The copy that a call reaches, and the one it leaves, over the stored note.
LEMMA ReachedMerged ==
    ASSUME IInv, NEW t \in Threads, NEW c, Reaches(t, c), stored # None, c.base = version,
           NEW k \in Keys
    PROVE  Merged(edits[t][k], c.items[k], stored[k])
<1>1. CASE Mine(t) # None
    BY <1>1, ReachedCopy DEF IInv, EditsOverBase
<1>2. CASE Mine(t) = None
    <2>1. c.items = stored
        BY <1>2, ReachedCopy DEF IInv, Fresh
    <2>2. stored[k] \in Seq(Items) /\ edits[t][k] \in Values \cup {Erased, None}
        BY DEF IInv, TypeOK, ItemMaps
    <2>3. edits[t][k] \notin Values
        BY <1>2 DEF IInv, EditsInCopy
    <2> QED BY <2>1, <2>2, <2>3, MergedSame
<1> QED BY <1>1, <1>2

LEMMA LeftMerged ==
    ASSUME IInv, NEW t \in Threads, NEW c, Reaches(t, c), NEW d \in Copies, d.base = c.base,
           Leaves(t, d), UNCHANGED <<stored, version, creator>>,
           \A u \in Threads : u # t => edits'[u] = edits[u],
           stored # None => \A k \in Keys :
               Merged(edits[t][k], c.items[k], stored[k]) =>
                   Merged(edits'[t][k], d.items[k], stored[k])
    PROVE  EditsOverBase'
<1>1. Mine(t)' = d /\ \A u \in Threads : u # t => Mine(u)' = Mine(u)
    BY LeftCopy DEF IInv
<1>2. ASSUME NEW u \in Threads, NEW k \in Keys,
             Mine(u)' # None, stored # None, Mine(u)'.base = version
      PROVE  Merged(edits'[u][k], Mine(u)'.items[k], stored[k])
    <2>1. CASE u # t
        BY <1>1, <1>2, <2>1 DEF IInv, EditsOverBase
    <2>2. CASE u = t
        <3>1. Merged(edits[t][k], c.items[k], stored[k])
            BY <1>1, <1>2, <2>2, ReachedMerged
        <3> QED BY <1>1, <1>2, <2>2, <3>1
    <2> QED BY <2>1, <2>2
<1> QED BY <1>2 DEF EditsOverBase

\* The item_value of the thread that leaves d is none, the one it had, changed with the
\* copy, or a new one of d.
LEMMA LeftViews ==
    ASSUME IInv, NEW t \in Threads, NEW c, Reaches(t, c), NEW d \in Copies,
           Leaves(t, d), creator' = creator,
           \A u \in Threads : u # t => views'[u] = views[u] /\ edits'[u] = edits[u],
           \/ views'[t] = None
           \/ /\ views[t] # None /\ views'[t].through = views[t].through
              /\ views'[t].open = views[t].open
              /\ views[t].open /\ Describes(views[t], c, edits[t]) =>
                     Describes(views'[t], d, edits'[t])
           \/ /\ views'[t].through = (IF own # None THEN "own" ELSE "store")
              /\ views'[t].open /\ Describes(views'[t], d, edits'[t])
    PROVE  ValuesPinned' /\ OwnViews'
<1>1. /\ own' = None <=> own = None
      /\ own # None => own' = d /\ copies' = copies
      /\ own = None => copies' = [copies EXCEPT ![t] = d]
    BY LeftCopy DEF IInv
<1>2. /\ own # None => t = creator
      /\ Mine(t) # None => c = Mine(t)
      /\ d # None
    BY ReachedCopy, NoneIsNoCopy DEF IInv
<1>3. OwnViews'
    <2>1. ASSUME NEW u \in Threads, views'[u] # None, views'[u].through = "own", views'[u].open
          PROVE  own' # None /\ u = creator'
        BY <1>1, <1>2, <2>1 DEF IInv, OwnViews
    <2> QED BY <2>1 DEF OwnViews
<1>4. copies'[t] = IF own = None THEN d ELSE copies[t]
    BY <1>1 DEF IInv, TypeOK
<1>5. ASSUME NEW u \in Threads, views'[u] # None, views'[u].through = "store" \/ own' # None
      PROVE  LET w == IF views'[u].through = "own" THEN own' ELSE copies'[u]
             IN  views'[u].open /\ w # None /\ Describes(views'[u], w, edits'[u])
    <2> DEFINE w == IF views'[u].through = "own" THEN own' ELSE copies'[u]
    <2>1. CASE u # t
        <3>1. views'[u] = views[u] /\ copies'[u] = copies[u] /\ edits'[u] = edits[u]
            BY <1>1, <2>1 DEF IInv, TypeOK
        <3>2. /\ views[u].open
              /\ LET x == IF views[u].through = "own" THEN own ELSE copies[u]
                 IN  x # None /\ Describes(views[u], x, edits[u])
            BY <1>1, <1>5, <3>1 DEF IInv, ValuesPinned
        <3>3. views[u].through # "own"
            BY <1>2, <1>5, <2>1, <3>1, <3>2 DEF IInv, OwnViews
        <3> QED BY <3>1, <3>2, <3>3
    <2>2. CASE /\ u = t /\ views[t] # None /\ views'[t].through = views[t].through
               /\ views'[t].open = views[t].open
               /\ views[t].open /\ Describes(views[t], c, edits[t]) =>
                      Describes(views'[t], d, edits'[t])
        <3>1. /\ views[t].open
              /\ LET x == IF views[t].through = "own" THEN own ELSE copies[t]
                 IN  x # None /\ Describes(views[t], x, edits[t])
            BY <1>1, <1>5, <2>2 DEF IInv, ValuesPinned
        <3>2. CASE views[t].through = "own"
            <4>1. own # None /\ c = own
                BY <1>2, <3>1, <3>2 DEF IInv, OwnViews, Mine
            <4> QED BY <1>1, <1>2, <2>2, <3>1, <3>2, <4>1
        <3>3. CASE views[t].through # "own"
            <4>1. copies[t] # None /\ own = None
                BY <3>1, <3>3 DEF IInv, OneKind
            <4>2. c = copies[t] /\ copies'[t] = d
                BY <1>2, <1>4, <4>1 DEF Mine
            <4> QED BY <1>2, <2>2, <3>1, <3>3, <4>2
        <3> QED BY <3>2, <3>3
    <2>3. CASE /\ u = t /\ views'[t].through = (IF own # None THEN "own" ELSE "store")
               /\ views'[t].open /\ Describes(views'[t], d, edits'[t])
        <3>1. w = d
            BY <1>1, <1>4, <2>3
        <3> QED BY <1>2, <2>3, <3>1
    <2> QED BY <1>5, <2>1, <2>2, <2>3
<1>6. ValuesPinned'
    BY <1>5 DEF ValuesPinned
<1> QED BY <1>3, <1>6

\* What set() leaves of an item_value of the copy, and what erase() does.
LEMMA ModifiedView ==
    ASSUME NEW v \in ViewStates, v.open, NEW c \in Copies, NEW d \in Copies, NEW k \in Keys,
           NEW e, NEW f, c.items[k] # <<>>,
           \E item \in Items : d.items[k] = Modified(c.items[k], item),
           v.key # k => d.items[v.key] = c.items[v.key] /\ f[v.key] = e[v.key],
           f[k] # None, Describes(v, c, e)
    PROVE  Describes(AfterModify(v, k), d, f)
<1>1. c.items[k] \in Seq(Items) /\ v.key \in Keys /\ v.index \in Nat
    BY DEF Copies, ItemMaps, ViewStates
<1>2. /\ DOMAIN d.items[k] = DOMAIN c.items[k]
      /\ \A i \in DOMAIN c.items[k] : i # 1 => d.items[k][i] = c.items[k][i]
    BY <1>1 DEF Modified
<1>3. v # None
    BY NoteItemsAssumption
<1>4. CASE v.key = k /\ v.index = 1
    <2>1. AfterModify(v, k) = [v EXCEPT !.read = None]
        BY <1>3, <1>4 DEF AfterModify, OnItem
    <2>2. /\ AfterModify(v, k).index = 1 /\ AfterModify(v, k).key = k
          /\ AfterModify(v, k).read = None
        BY <1>4, <2>1 DEF ViewStates
    <2> QED BY <1>2, <1>4, <2>2 DEF Describes
<1>5. CASE ~(v.key = k /\ v.index = 1)
    <2>1. AfterModify(v, k) = v
        BY <1>5 DEF AfterModify, OnItem
    <2> QED BY <1>1, <1>2, <1>5, <2>1 DEF Describes
<1> QED BY <1>4, <1>5

LEMMA ErasedView ==
    ASSUME NEW v \in ViewStates, v.open, NEW c \in Copies, NEW d \in Copies, NEW k \in Keys,
           NEW e, NEW f, c.items[k] # <<>>, d.items[k] \in {<<>>, Tail(c.items[k])},
           v.key # k => d.items[v.key] = c.items[v.key] /\ f[v.key] = e[v.key],
           f[k] # None, Describes(v, c, e)
    PROVE  Describes(AfterErase(v, k, Len(c.items[k]) - Len(d.items[k])), d, f)
<1> DEFINE n == Len(c.items[k]) - Len(d.items[k])
           w == AfterErase(v, k, n)
<1>1. c.items[k] \in Seq(Items) /\ v.key \in Keys /\ v.index \in Nat /\ v # None
    BY NoteItemsAssumption DEF Copies, ItemMaps, ViewStates
<1>2. \/ d.items[k] = <<>> /\ n = Len(c.items[k])
      \/ /\ n = 1 /\ DOMAIN d.items[k] = 1 .. Len(c.items[k]) - 1
         /\ \A i \in DOMAIN d.items[k] : d.items[k][i] = c.items[k][i + 1]
    <2>1. CASE d.items[k] = <<>>
        BY <1>1, <2>1
    <2>2. CASE d.items[k] = Tail(c.items[k])
        BY <1>1, <2>2, HeadTailProperties
    <2> QED BY <2>1, <2>2
<1>3. n \in Nat /\ Len(c.items[k]) \in Nat /\ DOMAIN c.items[k] = 1 .. Len(c.items[k])
    BY <1>1, <1>2
<1> HIDE DEF n
<1>4. CASE ~(v.key = k /\ v.index # 0)
    <2>1. w = v
        BY <1>4 DEF AfterErase, OnItem
    <2> QED BY <1>1, <1>4, <2>1 DEF Describes, n
<1>5. CASE v.key = k /\ v.index # 0 /\ v.index > n
    <2>1. w = [v EXCEPT !.index = v.index - n]
        BY <1>1, <1>5 DEF AfterErase, OnItem
    <2>2. w.index = v.index - n /\ w.key = k /\ w.read = v.read
        BY <1>5, <2>1 DEF ViewStates
    <2>3. v.index \in 1 .. Len(c.items[k])
        BY <1>3, <1>5 DEF Describes
    <2>4. n = 1 /\ v.index - n \in DOMAIN d.items[k] /\ v.index - n # 0
          /\ d.items[k][v.index - n] = c.items[k][v.index]
        <3>1. n # Len(c.items[k])
            BY <1>3, <1>5, <2>3
        <3>2. /\ n = 1 /\ DOMAIN d.items[k] = 1 .. Len(c.items[k]) - 1
              /\ \A i \in DOMAIN d.items[k] : d.items[k][i] = c.items[k][i + 1]
            BY <1>2, <3>1
        <3>3. v.index - 1 \in 1 .. Len(c.items[k]) - 1 /\ v.index - 1 + 1 = v.index
            BY <1>3, <1>5, <2>3, <3>2
        <3>4. v.index - 1 # 0 /\ v.index - 1 \in DOMAIN d.items[k]
              /\ d.items[k][v.index - 1] = c.items[k][v.index - 1 + 1]
            BY <3>2, <3>3
        <3> QED BY <3>2, <3>3, <3>4
    <2> QED BY <1>5, <2>2, <2>4 DEF Describes, n
<1>6. CASE v.key = k /\ v.index # 0 /\ ~(v.index > n)
    <2>1. w = [v EXCEPT !.index = 0, !.read = None]
        BY <1>1, <1>6 DEF AfterErase, OnItem
    <2>2. w.index = 0 /\ w.key = k /\ w.read = None
        BY <1>6, <2>1 DEF ViewStates
    <2> QED BY <2>2 DEF Describes, n
<1> QED BY <1>4, <1>5, <1>6

\* They keep everything else of it.
LEMMA ChangedViews ==
    ASSUME NEW v \in ViewStates \cup {None}, NEW k \in Keys, NEW n \in Nat,
           NEW w \in {AfterModify(v, k), AfterErase(v, k, n)}
    PROVE  /\ w \in ViewStates \cup {None}
           /\ w = None <=> v = None
           /\ v # None => w.through = v.through /\ w.open = v.open
<1>1. CASE w = v
    BY <1>1
<1>2. CASE v # None /\ v.index # 0 /\ w # v
    <2>1. v.index \in Nat /\ v \in ViewStates
        BY <1>2 DEF ViewStates
    <2>2. \/ w = [v EXCEPT !.read = None]
          \/ v.index > n /\ w = [v EXCEPT !.index = v.index - n]
          \/ w = [v EXCEPT !.index = 0, !.read = None]
        BY <1>2 DEF AfterModify, AfterErase
    <2>3. v.index > n => v.index - n \in Nat
        BY <2>1
    <2>4. w \in ViewStates /\ w.through = v.through /\ w.open = v.open
        <3>1. CASE w = [v EXCEPT !.read = None]
            BY <2>1, <3>1 DEF ViewStates
        <3>2. CASE v.index > n /\ w = [v EXCEPT !.index = v.index - n]
            <4>1. v.index - n \in Nat
                BY <2>3, <3>2
            <4> QED BY <2>1, <3>2, <4>1 DEF ViewStates
        <3>3. CASE w = [v EXCEPT !.index = 0, !.read = None]
            BY <2>1, <3>3 DEF ViewStates
        <3> QED BY <2>2, <3>1, <3>2, <3>3
    <2> QED BY <1>2, <2>4, NoteItemsAssumption
<1> QED BY <1>1, <1>2 DEF AfterModify, AfterErase, OnItem

-----------------------------------------------------------------------------
(* One lemma per call.                                                     *)

LEMMA InitIInv == Init => IInv
<1> SUFFICES ASSUME Init PROVE IInv
    OBVIOUS
<1>1. stored \in ItemMaps \cup {None}
    <2>1. ASSUME NEW f \in [Keys -> {<<>>} \cup {<<i, j>> : i, j \in Items}]
          PROVE  f \in ItemMaps
        <3>1. ASSUME NEW k \in Keys PROVE f[k] \in Seq(Items)
            <4>1. f[k] = <<>> \/ \E i, j \in Items : f[k] = <<i, j>>
                OBVIOUS
            <4>2. CASE f[k] = <<>>
                BY <4>2
            <4>3. CASE \E i, j \in Items : f[k] = <<i, j>>
                <5>1. PICK i \in Items, j \in Items : f[k] = <<i, j>>
                    BY <4>3
                <5> QED BY <5>1
            <4> QED BY <4>1, <4>2, <4>3
        <3> QED BY <2>1, <3>1 DEF ItemMaps
    <2> QED BY <2>1 DEF Init
<1>2. /\ NoEdits \in [Keys -> Values \cup {Erased, None}]
      /\ \A k \in Keys : NoEdits[k] = None /\ NoEdits[k] \notin Values
    BY NoteItemsAssumption DEF NoEdits
<1>3. TypeOK
    <2>1. version \in 0 .. MaxVersion
        BY NoteItemsAssumption DEF Init
    <2>2. /\ creator = None /\ own = None /\ named = FALSE /\ saving = "no" /\ holders = {}
          /\ copies = [t \in Threads |-> None] /\ views = [t \in Threads |-> None]
          /\ edits = [t \in Threads |-> NoEdits]
        BY DEF Init
    <2>3. edits \in [Threads -> [Keys -> Values \cup {Erased, None}]]
        BY <1>2, <2>2
    <2> QED BY <1>1, <2>1, <2>2, <2>3 DEF TypeOK
<1>4. \A t \in Threads : views[t] = None /\ copies[t] = None /\ edits[t] = NoEdits
    BY DEF Init
<1>5. ~Alive
    BY <1>4 DEF Init, Alive
<1>6. ValuesPinned /\ OwnViews /\ EditsInCopy
    BY <1>2, <1>4 DEF ValuesPinned, OwnViews, EditsInCopy
<1>7. SaveInProgress /\ OpensSavedNotes /\ Versions /\ OneKind
    BY <1>4, <1>5 DEF Init, SaveInProgress, OpensSavedNotes, Versions, OneKind
<1>8. EditsOverBase
    BY <1>4 DEF Init, EditsOverBase, Mine
<1> QED BY <1>3, <1>6, <1>7, <1>8 DEF IInv

\* Open, create and sweep happen when nobody holds the state.
LEMMA NotAlive ==
    ASSUME IInv, ~Alive
    PROVE  saving = "no" /\ \A t \in Threads : views[t] = None
BY DEF IInv, Alive, SaveInProgress

LEMMA NoEditsType ==
    /\ NoEdits \in [Keys -> Values \cup {Erased, None}]
    /\ \A k \in Keys : NoEdits[k] = None /\ NoEdits[k] \notin Values
BY NoteItemsAssumption DEF NoEdits

LEMMA OpenStep ==
    ASSUME IInv, NEW t \in Threads, Open(t)
    PROVE  IInv'
<1>1. Fresh \in Copies /\ Fresh # None /\ Fresh.base = version
    BY FreshIsCopy, NoneIsNoCopy DEF IInv, Open, Fresh
<1>2. saving = "no" /\ \A u \in Threads : views[u] = None
    BY NotAlive DEF Open
<1>3. TypeOK'
    BY <1>1, NoEditsType DEF Open, IInv, TypeOK
<1>4. ValuesPinned' /\ OwnViews'
    BY <1>2 DEF Open, ValuesPinned, OwnViews
<1>5. EditsInCopy'
    BY NoEditsType DEF Open, EditsInCopy
<1>6. SaveInProgress' /\ OpensSavedNotes'
    BY <1>2 DEF Open, SaveInProgress, OpensSavedNotes
<1>7. Versions' /\ OneKind'
    BY <1>1 DEF Open, IInv, TypeOK, Versions, OneKind
<1>8. EditsOverBase'
    <2>1. ASSUME NEW u \in Threads, NEW k \in Keys, Mine(u)' # None, stored' # None
          PROVE  Merged(edits'[u][k], Mine(u)'.items[k], stored'[k])
        <3>1. Mine(u)' = Fresh /\ edits'[u][k] = None /\ stored' = stored
            BY <2>1, NoEditsType DEF Open, Mine
        <3>2. stored[k] \in Seq(Items)
            BY <2>1, <3>1 DEF IInv, TypeOK, ItemMaps
        <3> QED BY <3>1, <3>2, MergedSame, NoteItemsAssumption DEF Fresh
    <2> QED BY <2>1 DEF EditsOverBase
<1> QED BY <1>3, <1>4, <1>5, <1>6, <1>7, <1>8 DEF IInv

LEMMA CreateStep ==
    ASSUME IInv, NEW t \in Threads, Create(t)
    PROVE  IInv'
<1>1. [base |-> 0, items |-> NoItems] \in Copies
    BY NoteItemsAssumption DEF Copies, NoItems, ItemMaps
<1>2. saving = "no" /\ \A u \in Threads : views[u] = None
    BY NotAlive DEF Create
<1>3. TypeOK'
    BY <1>1, NoEditsType DEF Create, IInv, TypeOK
<1>4. ValuesPinned' /\ OwnViews'
    BY <1>2 DEF Create, ValuesPinned, OwnViews
<1>5. EditsInCopy'
    BY NoEditsType DEF Create, EditsInCopy
<1>6. SaveInProgress' /\ OpensSavedNotes'
    BY <1>1, <1>2, NoneIsNoCopy DEF Create, SaveInProgress, OpensSavedNotes
<1>7. Versions' /\ OneKind'
    BY <1>1 DEF Create, IInv, TypeOK, Versions, OneKind
<1>8. EditsOverBase'
    BY DEF Create, EditsOverBase
<1> QED BY <1>3, <1>4, <1>5, <1>6, <1>7, <1>8 DEF IInv

\* What the steps of note objects and item values keep that touch no copy.
LEMMA CopiesKept ==
    ASSUME IInv, UNCHANGED <<stored, version, creator, own, copies, edits>>
    PROVE  EditsInCopy' /\ EditsOverBase' /\ OneKind'
BY DEF IInv, EditsInCopy, EditsOverBase, OneKind, Mine

LEMMA ShareStep ==
    ASSUME IInv, NEW t \in Threads, NEW u \in Threads, Share(t, u)
    PROVE  IInv'
<1>1. TypeOK' /\ ValuesPinned' /\ OwnViews' /\ SaveInProgress' /\ Versions'
    BY DEF Share, IInv, TypeOK, ValuesPinned, OwnViews, SaveInProgress, Versions
<1>2. OpensSavedNotes'
    BY DEF Share, IInv, OpensSavedNotes, Alive
<1>3. EditsInCopy' /\ EditsOverBase' /\ OneKind'
    BY CopiesKept DEF Share
<1> QED BY <1>1, <1>2, <1>3 DEF IInv

LEMMA DropStep ==
    ASSUME IInv, NEW t \in Threads, Drop(t)
    PROVE  IInv'
<1>1. TypeOK' /\ ValuesPinned' /\ OwnViews' /\ SaveInProgress' /\ Versions'
    BY DEF Drop, IInv, TypeOK, ValuesPinned, OwnViews, SaveInProgress, Versions
<1>2. OpensSavedNotes'
    BY DEF Drop, IInv, OpensSavedNotes, Alive
<1>3. EditsInCopy' /\ EditsOverBase' /\ OneKind'
    BY CopiesKept DEF Drop
<1> QED BY <1>1, <1>2, <1>3 DEF IInv

LEMMA ForgetStep ==
    ASSUME IInv, NEW t \in Threads, Forget(t)
    PROVE  IInv'
<1>1. TypeOK' /\ SaveInProgress' /\ Versions'
    BY DEF Forget, IInv, TypeOK, SaveInProgress, Versions
<1>2. ValuesPinned' /\ OwnViews'
    BY DEF Forget, IInv, TypeOK, ValuesPinned, OwnViews
<1>3. OpensSavedNotes'
    BY DEF Forget, IInv, TypeOK, OpensSavedNotes, Alive
<1>4. EditsInCopy' /\ EditsOverBase' /\ OneKind'
    BY CopiesKept DEF Forget
<1> QED BY <1>1, <1>2, <1>3, <1>4 DEF IInv

LEMMA SweepStep ==
    ASSUME IInv, NEW t \in Threads, Sweep(t)
    PROVE  IInv'
<1>1. saving = "no" /\ \A u \in Threads : views[u] = None
    BY NotAlive DEF Sweep
<1>2. \A u \in Threads : views'[u] = None
    BY <1>1 DEF Sweep, Closed, IInv, TypeOK
<1>3. TypeOK'
    <2>1. views' \in [Threads -> ViewStates \cup {None}]
        BY <1>2 DEF Sweep, Closed, IInv, TypeOK
    <2> QED BY <2>1, NoEditsType DEF Sweep, IInv, TypeOK
<1>4. ValuesPinned' /\ OwnViews'
    BY <1>2 DEF ValuesPinned, OwnViews
<1>5. EditsInCopy'
    BY NoEditsType DEF Sweep, IInv, TypeOK, EditsInCopy, Mine
<1>6. SaveInProgress'
    BY <1>1 DEF Sweep, SaveInProgress
<1>7. OpensSavedNotes'
    BY <1>2 DEF Sweep, OpensSavedNotes, Alive
<1>8. Versions' /\ OneKind'
    BY DEF Sweep, IInv, TypeOK, Versions, OneKind
<1>9. EditsOverBase'
    <2>1. ASSUME NEW u \in Threads, Mine(u)' # None
          PROVE  Mine(u)' = Mine(u) /\ edits'[u] = edits[u]
        BY <2>1 DEF Sweep, IInv, TypeOK, Mine, OneKind
    <2> QED BY <2>1 DEF Sweep, IInv, EditsOverBase
<1> QED BY <1>3, <1>4, <1>5, <1>6, <1>7, <1>8, <1>9 DEF IInv

-----------------------------------------------------------------------------
(* The calls that reach a copy.                                            *)

\* The variables that Leaves() is about keep their types.
LEMMA LeftTypes ==
    ASSUME IInv, NEW t \in Threads, NEW c, Reaches(t, c), NEW d \in Copies, Leaves(t, d),
           UNCHANGED <<stored, version, creator, named, holders, saving>>,
           views' \in [Threads -> ViewStates \cup {None}],
           edits' \in [Threads -> [Keys -> Values \cup {Erased, None}]]
    PROVE  TypeOK'
<1>1. own' \in Copies \cup {None} /\ copies' \in [Threads -> Copies \cup {None}]
    BY LeftCopy DEF IInv
<1> QED BY <1>1 DEF IInv, TypeOK

LEMMA LookStep ==
    ASSUME IInv, NEW t \in Threads, Look(t)
    PROVE  IInv'
<1>1. PICK c \in {own, copies[t], Fresh} : Reaches(t, c) /\ Leaves(t, c)
    BY DEF Look
<1>2. UNCHANGED <<stored, version, creator, named, holders, views, edits, saving>>
    BY DEF Look
<1>3. c \in Copies
    BY <1>1, ReachedCopy DEF IInv
<1>4. TypeOK'
    BY <1>1, <1>2, <1>3, LeftTypes DEF IInv, TypeOK
<1>5. SaveInProgress' /\ OpensSavedNotes' /\ Versions' /\ OneKind'
    BY <1>1, <1>2, <1>3, LeftRest
<1>6. EditsInCopy' /\ EditsOverBase'
    BY <1>1, <1>2, <1>3, LeftEdits, LeftMerged
<1>7. ValuesPinned' /\ OwnViews'
    BY <1>1, <1>2, <1>3, LeftViews
<1> QED BY <1>4, <1>5, <1>6, <1>7 DEF IInv

LEMMA SetStep ==
    ASSUME IInv, NEW t \in Threads, NEW k \in Keys, NEW v \in Values, Set(t, k, v)
    PROVE  IInv'
<1>1. PICK c \in {own, copies[t], Fresh} :
          /\ Reaches(t, c) /\ Leaves(t, WithItems(c, k, After(c.items[k], v)))
          /\ \/ c.items[k] # <<>> /\ views' = [views EXCEPT ![t] = AfterModify(@, k)]
             \/ c.items[k] = <<>> /\ UNCHANGED views
    BY DEF Set, After
<1> DEFINE d == WithItems(c, k, After(c.items[k], v))
<1>2. /\ UNCHANGED <<stored, version, creator, named, holders, saving>>
      /\ edits' = [edits EXCEPT ![t][k] = v]
    BY DEF Set, Edit
<1>3. c \in Copies /\ c.items[k] \in Seq(Items)
    BY <1>1, ReachedCopy DEF IInv, Copies, ItemMaps
<1>4. /\ After(c.items[k], v) \in Seq(Items) /\ After(c.items[k], v) # <<>>
      /\ DOMAIN c.items[k] \subseteq DOMAIN After(c.items[k], v)
      /\ After(c.items[k], v)[1] = Apply(v)
    BY <1>3, SetItems
<1>5. /\ d \in Copies /\ d.base = c.base /\ d.items[k] = After(c.items[k], v)
      /\ \A q \in Keys : q # k => d.items[q] = c.items[q]
    BY <1>3, <1>4, ChangedCopy
<1> HIDE DEF d
<1>6. edits' \in [Threads -> [Keys -> Values \cup {Erased, None}]]
    BY <1>2 DEF IInv, TypeOK
<1>7. TypeOK'
    <2>1. views[t] \in ViewStates \cup {None} /\ 0 \in Nat
        BY DEF IInv, TypeOK
    <2>2. AfterModify(views[t], k) \in ViewStates \cup {None}
        BY <2>1, ChangedViews
    <2>3. views' \in [Threads -> ViewStates \cup {None}]
        BY <1>1, <2>2 DEF IInv, TypeOK
    <2> QED BY <1>1, <1>2, <1>5, <1>6, <2>3, LeftTypes DEF d
<1>8. SaveInProgress' /\ OpensSavedNotes' /\ Versions' /\ OneKind'
    BY <1>1, <1>2, <1>5, LeftRest DEF d
<1>9. EditsInCopy'
    <2>1. ASSUME NEW q \in Keys, edits'[t][q] \in Values
          PROVE  \/ edits'[t][q] = edits[t][q] /\ d.items[q] = c.items[q]
                 \/ Stands(d, q, edits'[t][q])
        <3>1. CASE q = k
            <4>1. edits'[t][q] = v
                BY <1>2, <3>1 DEF IInv, TypeOK
            <4> QED BY <1>4, <1>5, <3>1, <4>1, RoundTrip DEF Stands
        <3>2. CASE q # k
            BY <1>2, <1>5, <3>2 DEF IInv, TypeOK
        <3> QED BY <3>1, <3>2
    <2>2. \A u \in Threads : u # t => edits'[u] = edits[u]
        BY <1>2 DEF IInv, TypeOK
    <2> QED BY <1>1, <1>2, <1>5, <2>1, <2>2, LeftEdits DEF d
<1>10. ValuesPinned' /\ OwnViews'
    <2>1. /\ edits'[t] \in [Keys -> Values \cup {Erased, None}]
          /\ edits'[t][k] = v /\ v # None
          /\ \A q \in Keys : q # k => edits'[t][q] = edits[t][q]
          /\ \A u \in Threads : u # t => edits'[u] = edits[u] /\ views'[u] = views[u]
        BY <1>1, <1>2, NoteItemsAssumption DEF IInv, TypeOK
    <2>2. views[t] \in ViewStates \cup {None} /\ 0 \in Nat
        BY DEF IInv, TypeOK
    <2>3. CASE c.items[k] # <<>>
        <3>1. views'[t] = AfterModify(views[t], k)
            BY <1>1, <2>3 DEF IInv, TypeOK
        <3>2. /\ views'[t] = None <=> views[t] = None
              /\ views[t] # None =>
                     views'[t].through = views[t].through /\ views'[t].open = views[t].open
            BY <2>2, <3>1, ChangedViews
        <3>3. ASSUME views[t] # None, views[t].open, Describes(views[t], c, edits[t])
              PROVE  Describes(views'[t], d, edits'[t])
            <4>1. \E item \in Items : d.items[k] = Modified(c.items[k], item)
                BY <1>5, <2>3, AppliedIsItem DEF After
            <4>2. views[t] \in ViewStates /\ views[t].open /\ edits'[t][k] # None
                BY <2>1, <2>2, <3>3
            <4>3. views[t].key # k => /\ d.items[views[t].key] = c.items[views[t].key]
                                      /\ edits'[t][views[t].key] = edits[t][views[t].key]
                BY <1>5, <2>1, <4>2 DEF ViewStates
            <4>4. c \in Copies /\ d \in Copies /\ Describes(views[t], c, edits[t])
                BY <1>3, <1>5, <3>3
            <4>5. Describes(AfterModify(views[t], k), d, edits'[t])
                BY <2>3, <4>1, <4>2, <4>3, <4>4, ModifiedView
            <4> QED BY <3>1, <4>5
        <3> QED BY <1>1, <1>2, <1>5, <2>1, <3>2, <3>3, LeftViews DEF d
    <2>4. CASE c.items[k] = <<>>
        <3>1. views'[t] = views[t]
            BY <1>1, <2>4
        <3>2. ASSUME views[t] # None, Describes(views[t], c, edits[t])
              PROVE  Describes(views'[t], d, edits'[t])
            <4>1. views[t].key \in Keys
                BY <2>2, <3>2 DEF ViewStates
            <4>2. CASE views[t].key = k
                BY <2>1, <2>4, <3>1, <3>2, <4>2 DEF Describes
            <4>3. CASE views[t].key # k
                BY <1>5, <2>1, <3>1, <3>2, <4>1, <4>3 DEF Describes
            <4> QED BY <4>2, <4>3
        <3> QED BY <1>1, <1>2, <1>5, <2>1, <3>1, <3>2, LeftViews DEF d
    <2> QED BY <2>3, <2>4
<1>11. EditsOverBase'
    <2>1. ASSUME stored # None, NEW q \in Keys, Merged(edits[t][q], c.items[q], stored[q])
          PROVE  Merged(edits'[t][q], d.items[q], stored[q])
        <3>1. CASE q = k
            <4>1. edits'[t][q] = v /\ edits[t][q] \in Values \cup {Erased, None}
                BY <1>2, <3>1 DEF IInv, TypeOK
            <4>2. stored[q] \in Seq(Items)
                BY <2>1 DEF IInv, TypeOK, ItemMaps
            <4> QED BY <1>3, <1>5, <2>1, <3>1, <4>1, <4>2, MergedSet
        <3>2. CASE q # k
            <4>1. edits'[t][q] = edits[t][q] /\ d.items[q] = c.items[q]
                BY <1>2, <1>5, <3>2 DEF IInv, TypeOK
            <4> QED BY <2>1, <4>1
        <3> QED BY <3>1, <3>2
    <2>2. \A u \in Threads : u # t => edits'[u] = edits[u]
        BY <1>2 DEF IInv, TypeOK
    <2> QED BY <1>1, <1>2, <1>5, <2>1, <2>2, LeftMerged DEF d
<1> QED BY <1>7, <1>8, <1>9, <1>10, <1>11 DEF IInv

LEMMA EraseStep ==
    ASSUME IInv, NEW t \in Threads, NEW k \in Keys, Erase(t, k)
    PROVE  IInv'
<1>1. PICK c \in {own, copies[t], Fresh} :
          /\ Reaches(t, c) /\ c.items[k] # <<>>
          /\ \E s \in {<<>>, Tail(c.items[k])} :
                /\ Leaves(t, WithItems(c, k, s))
                /\ views' = [views EXCEPT ![t] = AfterErase(@, k, Len(c.items[k]) - Len(s))]
    BY DEF Erase
<1>2. PICK s \in {<<>>, Tail(c.items[k])} :
          /\ Leaves(t, WithItems(c, k, s))
          /\ views' = [views EXCEPT ![t] = AfterErase(@, k, Len(c.items[k]) - Len(s))]
    BY <1>1
<1> DEFINE d == WithItems(c, k, s)
<1>3. /\ UNCHANGED <<stored, version, creator, named, holders, saving>>
      /\ edits' = [edits EXCEPT ![t][k] = Erased]
    BY DEF Erase, Edit
<1>4. c \in Copies /\ c.items[k] \in Seq(Items)
    BY <1>1, ReachedCopy DEF IInv, Copies, ItemMaps
<1>5. s \in Seq(Items)
    <2>1. Tail(c.items[k]) \in Seq(Items)
        BY <1>1, <1>4, HeadTailProperties
    <2> QED BY <1>2, <2>1, EmptySeq
<1>6. /\ d \in Copies /\ d.base = c.base /\ d.items[k] = s
      /\ \A q \in Keys : q # k => d.items[q] = c.items[q]
    BY <1>4, <1>5, ChangedCopy
<1> HIDE DEF d
<1>7. /\ edits' \in [Threads -> [Keys -> Values \cup {Erased, None}]]
      /\ views' \in [Threads -> ViewStates \cup {None}]
      /\ views[t] \in ViewStates \cup {None} /\ Len(c.items[k]) - Len(s) \in Nat
    <2>1. views[t] \in ViewStates \cup {None}
        BY DEF IInv, TypeOK
    <2>2. Len(c.items[k]) - Len(s) \in Nat
        BY <1>1, <1>2, <1>4, HeadTailProperties
    <2>3. AfterErase(views[t], k, Len(c.items[k]) - Len(s)) \in ViewStates \cup {None}
        BY <2>1, <2>2, ChangedViews
    <2> QED BY <1>2, <1>3, <2>1, <2>2, <2>3 DEF IInv, TypeOK
<1>8. TypeOK'
    BY <1>1, <1>2, <1>3, <1>6, <1>7, LeftTypes DEF d
<1>9. SaveInProgress' /\ OpensSavedNotes' /\ Versions' /\ OneKind'
    BY <1>1, <1>2, <1>3, <1>6, LeftRest DEF d
<1>10. EditsInCopy'
    <2>1. ASSUME NEW q \in Keys, edits'[t][q] \in Values
          PROVE  edits'[t][q] = edits[t][q] /\ d.items[q] = c.items[q]
        <3>1. q # k
            BY <1>3, <2>1, NoteItemsAssumption DEF IInv, TypeOK
        <3> QED BY <1>3, <1>6, <3>1 DEF IInv, TypeOK
    <2>2. \A u \in Threads : u # t => edits'[u] = edits[u]
        BY <1>3 DEF IInv, TypeOK
    <2> QED BY <1>1, <1>2, <1>3, <1>6, <2>1, <2>2, LeftEdits DEF d
<1>11. ValuesPinned' /\ OwnViews'
    <2>1. /\ edits'[t][k] = Erased /\ Erased # None
          /\ \A q \in Keys : q # k => edits'[t][q] = edits[t][q]
          /\ \A u \in Threads : u # t => edits'[u] = edits[u] /\ views'[u] = views[u]
        BY <1>2, <1>3, NoteItemsAssumption DEF IInv, TypeOK
    <2>2. views'[t] = AfterErase(views[t], k, Len(c.items[k]) - Len(s))
        BY <1>2 DEF IInv, TypeOK
    <2>3. /\ views'[t] = None <=> views[t] = None
          /\ views[t] # None =>
                 views'[t].through = views[t].through /\ views'[t].open = views[t].open
        <3> DEFINE n == Len(c.items[k]) - Len(s)
        <3>1. views[t] \in ViewStates \cup {None} /\ n \in Nat
            BY <1>7
        <3> HIDE DEF n
        <3>2. AfterErase(views[t], k, n) \in {AfterModify(views[t], k), AfterErase(views[t], k, n)}
            OBVIOUS
        <3>3. /\ AfterErase(views[t], k, n) = None <=> views[t] = None
              /\ views[t] # None => /\ AfterErase(views[t], k, n).through = views[t].through
                                    /\ AfterErase(views[t], k, n).open = views[t].open
            BY <3>1, <3>2, ChangedViews
        <3> QED BY <2>2, <3>3 DEF n
    <2>4. ASSUME views[t] # None, views[t].open, Describes(views[t], c, edits[t])
          PROVE  Describes(views'[t], d, edits'[t])
        <3>1. d.items[k] \in {<<>>, Tail(c.items[k])} /\ c.items[k] # <<>>
            BY <1>1, <1>6
        <3>2. Describes(AfterErase(views[t], k, Len(c.items[k]) - Len(d.items[k])), d, edits'[t])
            <4>1. views[t] \in ViewStates /\ views[t].open /\ edits'[t][k] # None
                BY <1>7, <2>1, <2>4
            <4>2. views[t].key # k => /\ d.items[views[t].key] = c.items[views[t].key]
                                      /\ edits'[t][views[t].key] = edits[t][views[t].key]
                BY <1>6, <2>1, <4>1 DEF ViewStates
            <4>3. c \in Copies /\ d \in Copies /\ Describes(views[t], c, edits[t])
                BY <1>4, <1>6, <2>4
            <4> QED BY <3>1, <4>1, <4>2, <4>3, ErasedView
        <3> QED BY <1>6, <2>2, <3>2
    <2> QED BY <1>1, <1>2, <1>3, <1>6, <2>1, <2>3, <2>4, LeftViews DEF d
<1>12. EditsOverBase'
    <2>1. ASSUME stored # None, NEW q \in Keys, Merged(edits[t][q], c.items[q], stored[q])
          PROVE  Merged(edits'[t][q], d.items[q], stored[q])
        <3>1. CASE q = k
            <4>1. edits'[t][q] = Erased /\ edits[t][q] \in Values \cup {Erased, None}
                BY <1>3, <3>1 DEF IInv, TypeOK
            <4>2. stored[q] \in Seq(Items)
                BY <2>1 DEF IInv, TypeOK, ItemMaps
            <4>3. d.items[k] \in {<<>>, Tail(c.items[k])} /\ c.items[k] # <<>>
                BY <1>1, <1>6
            <4> QED BY <2>1, <3>1, <4>1, <4>2, <4>3, MergedErase
        <3>2. CASE q # k
            <4>1. edits'[t][q] = edits[t][q] /\ d.items[q] = c.items[q]
                BY <1>3, <1>6, <3>2 DEF IInv, TypeOK
            <4> QED BY <2>1, <4>1
        <3> QED BY <3>1, <3>2
    <2>2. \A u \in Threads : u # t => edits'[u] = edits[u]
        BY <1>3 DEF IInv, TypeOK
    <2> QED BY <1>1, <1>2, <1>3, <1>6, <2>1, <2>2, LeftMerged DEF d
<1> QED BY <1>8, <1>9, <1>10, <1>11, <1>12 DEF IInv

LEMMA ViewStep ==
    ASSUME IInv, NEW t \in Threads, NEW k \in Keys, View(t, k)
    PROVE  IInv'
<1>1. PICK c \in {own, copies[t], Fresh} :
          /\ Reaches(t, c) /\ c.items[k] # <<>> /\ Leaves(t, c)
          /\ views' = [views EXCEPT ![t] =
                [through |-> IF own # None THEN "own" ELSE "store", open |-> TRUE,
                 key |-> k, index |-> 1, read |-> c.items[k][1]]]
    BY DEF View
<1> DEFINE v == [through |-> IF own # None THEN "own" ELSE "store", open |-> TRUE,
                 key |-> k, index |-> 1, read |-> c.items[k][1]]
<1>2. /\ UNCHANGED <<stored, version, creator, named, holders, edits, saving>>
      /\ views' = [views EXCEPT ![t] = v]
    BY <1>1 DEF View
<1>3. c \in Copies /\ c.items[k] \in Seq(Items)
    BY <1>1, ReachedCopy DEF IInv, Copies, ItemMaps
<1>4. 1 \in DOMAIN c.items[k] /\ c.items[k][1] \in Items
    BY <1>1, <1>3
<1>5. v \in ViewStates
    BY <1>4 DEF ViewStates
<1>6. views' \in [Threads -> ViewStates \cup {None}] /\ views'[t] = v
    BY <1>2, <1>5 DEF IInv, TypeOK
<1>7. TypeOK'
    BY <1>1, <1>2, <1>3, <1>6, LeftTypes DEF IInv, TypeOK
<1>8. SaveInProgress' /\ OpensSavedNotes' /\ Versions' /\ OneKind'
    BY <1>1, <1>2, <1>3, LeftRest
<1>9. EditsInCopy' /\ EditsOverBase'
    BY <1>1, <1>2, <1>3, LeftEdits, LeftMerged
<1>10. ValuesPinned' /\ OwnViews'
    <2>1. \A u \in Threads : u # t => views'[u] = views[u]
        BY <1>2 DEF IInv, TypeOK
    <2>2. /\ views'[t].through = (IF own # None THEN "own" ELSE "store")
          /\ views'[t].open /\ Describes(views'[t], c, edits'[t])
        BY <1>4, <1>6, NoteItemsAssumption DEF Describes
    <2> QED BY <1>1, <1>2, <1>3, <2>1, <2>2, LeftViews
<1> QED BY <1>7, <1>8, <1>9, <1>10 DEF IInv

\* A step of an item_value goes to an item of the copy that it was taken from.
LEMMA StepStep ==
    ASSUME IInv, NEW t \in Threads, NEW b \in BOOLEAN, Step(t, b)
    PROVE  IInv'
<1> DEFINE c == IF views[t].through = "own" THEN own ELSE copies[t]
           i == IF b THEN views[t].index + 1 ELSE views[t].index - 1
<1>1. /\ views[t] # None /\ views[t].open /\ i \in DOMAIN c.items[views[t].key]
      /\ views' = [views EXCEPT ![t].index = i, ![t].read = c.items[views[t].key][i]]
      /\ UNCHANGED <<stored, version, creator, own, named, copies, holders, edits, saving>>
    BY DEF Step
<1>2. views[t] \in ViewStates
    BY <1>1 DEF IInv, TypeOK
<1>3. c \in Copies
    BY <1>1, <1>2 DEF IInv, TypeOK, ValuesPinned, OwnViews, ViewStates
<1>4. i \in Nat \ {0} /\ c.items[views[t].key][i] \in Items
    <2>1. c.items[views[t].key] \in Seq(Items)
        BY <1>2, <1>3 DEF Copies, ItemMaps, ViewStates
    <2> HIDE DEF c, i
    <2> QED BY <1>1, <2>1
<1>5. /\ views'[t].index = i /\ views'[t].read = c.items[views[t].key][i]
      /\ views'[t].through = views[t].through
      /\ views'[t].key = views[t].key /\ views'[t].open = views[t].open
      /\ views'[t] \in ViewStates
      /\ \A u \in Threads : u # t => views'[u] = views[u]
    <2> HIDE DEF i
    <2> QED BY <1>1, <1>2, <1>4 DEF IInv, TypeOK, ViewStates
<1>6. views' \in [Threads -> ViewStates \cup {None}]
    <2> HIDE DEF i
    <2> QED BY <1>1, <1>5 DEF IInv, TypeOK
<1>7. TypeOK' /\ SaveInProgress' /\ Versions'
    BY <1>1, <1>6 DEF IInv, TypeOK, SaveInProgress, Versions
<1>8. OpensSavedNotes'
    BY <1>1 DEF IInv, OpensSavedNotes, Alive
<1>9. EditsInCopy' /\ EditsOverBase' /\ OneKind'
    BY <1>1, CopiesKept
<1>10. OwnViews'
    BY <1>1, <1>5 DEF IInv, OwnViews
<1>11. ValuesPinned'
    <2> DEFINE w(u) == IF views'[u].through = "own" THEN own' ELSE copies'[u]
    <2>1. ASSUME NEW u \in Threads, views'[u] # None,
                 views'[u].through = "store" \/ own' # None
          PROVE  views'[u].open /\ w(u) # None /\ Describes(views'[u], w(u), edits'[u])
        <3>1. CASE u = t
            <4>1. w(u) = c /\ views'[u].open /\ c # None
                BY <1>1, <1>3, <1>5, <3>1, NoneIsNoCopy
            <4>2. Describes(views'[t], c, edits'[t])
                <5> HIDE DEF i, c
                <5> QED BY <1>1, <1>4, <1>5, NoteItemsAssumption DEF Describes
            <4> QED BY <3>1, <4>1, <4>2
        <3>2. CASE u # t
            <4>1. views'[u] = views[u]
                BY <1>5, <3>2
            <4> QED BY <1>1, <2>1, <4>1 DEF IInv, ValuesPinned
        <3> QED BY <3>1, <3>2
    <2> QED BY <2>1 DEF ValuesPinned
<1> QED BY <1>7, <1>8, <1>9, <1>10, <1>11 DEF IInv

-----------------------------------------------------------------------------
(* save() and what happens to the stored note.                             *)

LEMMA SaveStep ==
    ASSUME IInv, NEW t \in Threads, NEW b \in BOOLEAN, Save(t, b)
    PROVE  IInv'
<1>1. PICK c \in {own, copies[t], Fresh} :
          /\ Reaches(t, c) /\ version < MaxVersion /\ stored' = c.items
          /\ Leaves(t, [c EXCEPT !.base = version + 1])
    BY DEF Save
<1> DEFINE d == [c EXCEPT !.base = version + 1]
<1>2. /\ version' = version + 1
      /\ saving' = IF own # None THEN "updated" ELSE saving
      /\ UNCHANGED <<creator, named, holders, views, edits>>
    BY DEF Save
<1>3. /\ c \in Copies /\ t \in holders
      /\ own # None => t = creator
      /\ Mine(t) = None => named
    BY <1>1, ReachedCopy DEF IInv
<1>4. version \in Nat /\ version + 1 \in 0 .. MaxVersion /\ version + 1 # 0
    BY <1>1, NoteItemsAssumption DEF IInv, TypeOK
<1>5. d \in Copies /\ d.base = version + 1 /\ d.items = c.items
    BY <1>3, <1>4 DEF Copies
<1> HIDE DEF d
<1>6. /\ own' \in Copies \cup {None} /\ copies' \in [Threads -> Copies \cup {None}]
      /\ own' = None <=> own = None
      /\ own # None => own' = d /\ copies' = copies
      /\ own = None => copies' = [copies EXCEPT ![t] = d]
    BY <1>1, <1>2, <1>5, LeftCopy DEF IInv, d
<1>7. TypeOK'
    BY <1>1, <1>2, <1>3, <1>4, <1>6 DEF IInv, TypeOK, Copies
<1>8. SaveInProgress'
    BY <1>2, <1>3, <1>6 DEF IInv, SaveInProgress
<1>9. OpensSavedNotes'
    BY <1>2, <1>3, <1>6 DEF IInv, OpensSavedNotes, Alive
<1>10. Versions' /\ OneKind'
    <2>1. \A u \in Threads :
              copies'[u] # None => copies'[u].base # 0 /\ copies'[u].base <= version + 1
        <3>1. ASSUME NEW u \in Threads, copies'[u] # None
              PROVE  copies'[u].base # 0 /\ copies'[u].base <= version + 1
            <4>1. copies'[u] = d \/ copies'[u] = copies[u]
                BY <1>6 DEF IInv, TypeOK
            <4>2. copies'[u] = copies[u] => copies[u].base # 0 /\ copies[u].base <= version
                          /\ copies[u].base \in Nat
                BY <3>1 DEF IInv, Versions, TypeOK, Copies
            <4> QED BY <1>4, <1>5, <4>1, <4>2
        <3> QED BY <3>1
    <2> QED BY <1>2, <1>4, <1>5, <1>6, <2>1 DEF Versions, IInv, OneKind
<1>11. EditsInCopy'
    BY <1>1, <1>2, <1>5, LeftEdits DEF d
<1>12. ValuesPinned' /\ OwnViews'
    <2>1. ASSUME views[t] # None, Describes(views[t], c, edits[t])
          PROVE  Describes(views'[t], d, edits'[t])
        BY <1>2, <1>5, <2>1 DEF Describes
    <2> QED BY <1>1, <1>2, <1>5, <2>1, LeftViews DEF d
<1>13. EditsOverBase'
    <2>1. ASSUME NEW u \in Threads, NEW k \in Keys, Mine(u)' # None, Mine(u)'.base = version'
          PROVE  Merged(edits'[u][k], Mine(u)'.items[k], stored'[k])
        <3>1. Mine(t)' = d /\ (u # t => Mine(u)' = Mine(u))
            BY <1>1, <1>2, <1>5, LeftCopy DEF IInv, d
        <3>2. u # t => Mine(u).base <= version
            BY <2>1, <3>1 DEF IInv, Versions, Mine
        <3>3. u = t
            BY <1>2, <1>4, <2>1, <3>1, <3>2
        <3>4. d.items[k] = stored'[k] /\ d.items[k] \in Seq(Items)
            BY <1>1, <1>3, <1>5 DEF Copies, ItemMaps
        <3>5. edits'[t][k] \in Values \cup {Erased, None}
            BY <1>7 DEF TypeOK
        <3>6. edits'[t][k] \in Values =>
                  d.items[k] # <<>> /\ Convert(d.items[k][1], edits'[t][k].as) = edits'[t][k]
            BY <1>11, <3>1 DEF EditsInCopy
        <3> QED BY <3>1, <3>3, <3>4, <3>5, <3>6, MergedSame
    <2> QED BY <2>1 DEF EditsOverBase
<1> QED BY <1>7, <1>8, <1>9, <1>10, <1>11, <1>12, <1>13 DEF IInv

LEMMA NameNoteStep ==
    ASSUME IInv, NameNote
    PROVE  IInv'
<1>1. TypeOK' /\ ValuesPinned' /\ OwnViews' /\ SaveInProgress' /\ Versions'
    BY DEF NameNote, IInv, TypeOK, ValuesPinned, OwnViews, SaveInProgress, Versions
<1>2. OpensSavedNotes'
    BY DEF NameNote, OpensSavedNotes
<1>3. EditsInCopy' /\ EditsOverBase' /\ OneKind'
    BY CopiesKept DEF NameNote
<1> QED BY <1>1, <1>2, <1>3 DEF IInv

\* The creator goes on with a handle of its store.
LEMMA CloseOwnStep ==
    ASSUME IInv, CloseOwn
    PROVE  IInv'
<1>1. /\ creator \in Threads /\ named
      /\ own' = None /\ saving' = "no"
      /\ views' = Closed(views, creator, "own")
      /\ edits' = [edits EXCEPT ![creator] = NoEdits]
      /\ UNCHANGED <<stored, version, creator, named, copies, holders>>
    <2>1. creator \in Threads /\ named
        BY DEF CloseOwn, IInv, SaveInProgress, TypeOK
    <2> QED BY <2>1 DEF CloseOwn
<1>2. \A u \in Threads :
          views'[u] = IF u = creator /\ views[u] # None /\ views[u].through = "own"
                      THEN [views[u] EXCEPT !.open = FALSE] ELSE views[u]
    BY <1>1 DEF Closed, IInv, TypeOK
<1>3. views' \in [Threads -> ViewStates \cup {None}]
    <2>1. \A u \in Threads : views[u] \in ViewStates \cup {None}
        BY DEF IInv, TypeOK
    <2>2. \A v \in ViewStates : [v EXCEPT !.open = FALSE] \in ViewStates
        BY DEF ViewStates
    <2>3. \A u \in Threads : views'[u] \in ViewStates \cup {None}
        BY <1>2, <2>1, <2>2
    <2>4. DOMAIN views' = Threads /\ views' = [u \in Threads |-> views'[u]]
        BY <1>1 DEF Closed, IInv, TypeOK
    <2> QED BY <2>3, <2>4
<1>4. TypeOK'
    BY <1>1, <1>3, NoEditsType DEF IInv, TypeOK
<1>5. ASSUME NEW u \in Threads, views'[u] # None
      PROVE  /\ views'[u].through = "store" => views'[u] = views[u]
             /\ ~(views'[u].through = "own" /\ views'[u].open)
    <2>1. views[u] # None /\ views[u] \in ViewStates
        BY <1>2, <1>5, NoteItemsAssumption DEF IInv, TypeOK
    <2>2. CASE u = creator /\ views[u].through = "own"
        <3>1. views'[u] = [views[u] EXCEPT !.open = FALSE]
            BY <1>2, <2>1, <2>2
        <3> QED BY <2>1, <2>2, <3>1 DEF ViewStates
    <2>3. CASE ~(u = creator /\ views[u].through = "own")
        BY <1>2, <2>1, <2>3 DEF IInv, OwnViews
    <2> QED BY <2>2, <2>3
<1>6. ValuesPinned' /\ OwnViews'
    <2>1. ASSUME NEW u \in Threads, views'[u] # None, views'[u].through = "store"
          PROVE  copies[u] # None
        BY <1>5, <2>1 DEF IInv, ValuesPinned
    <2>2. \A u \in Threads : copies[u] = None
        BY DEF CloseOwn, IInv, SaveInProgress, OneKind
    <2> QED BY <1>1, <1>5, <2>1, <2>2 DEF ValuesPinned, OwnViews
<1>7. EditsInCopy'
    <2>1. ASSUME NEW u \in Threads, NEW k \in Keys, edits'[u][k] \in Values
          PROVE  edits'[u][k] = edits[u][k] /\ Mine(u)' = Mine(u)
        <3>1. u # creator
            BY <1>1, <2>1, NoEditsType DEF IInv, TypeOK
        <3> QED BY <1>1, <3>1 DEF IInv, TypeOK, Mine
    <2> QED BY <2>1 DEF IInv, EditsInCopy
<1>8. SaveInProgress' /\ OpensSavedNotes'
    BY <1>1 DEF SaveInProgress, OpensSavedNotes
<1>9. Versions' /\ OneKind'
    BY <1>1 DEF IInv, Versions, OneKind
<1>10. EditsOverBase'
    <2>1. \A u \in Threads : Mine(u)' = None
        BY <1>1 DEF CloseOwn, IInv, OneKind, SaveInProgress, Mine
    <2> QED BY <2>1 DEF EditsOverBase
<1> QED BY <1>4, <1>6, <1>7, <1>8, <1>9, <1>10 DEF IInv

LEMMA RemoveStep ==
    ASSUME IInv, NEW t \in Threads, Remove(t)
    PROVE  IInv'
<1>1. PICK c \in {own, copies[t], Fresh} :
          Reaches(t, c) /\ c.base # 0 /\ Leaves(t, c)
    BY DEF Remove
<1>2. /\ UNCHANGED <<version, creator, named, holders, views, edits, saving>>
      /\ stored' = None
    BY DEF Remove
<1>3. /\ c \in Copies /\ t \in holders
      /\ Mine(t) = None => named
    BY <1>1, ReachedCopy DEF IInv
<1>4. /\ own' \in Copies \cup {None} /\ copies' \in [Threads -> Copies \cup {None}]
      /\ own' = None <=> own = None
      /\ own # None => own' = c /\ copies' = copies
      /\ own = None => copies' = [copies EXCEPT ![t] = c]
    BY <1>1, <1>2, <1>3, LeftCopy DEF IInv
<1>5. TypeOK'
    BY <1>2, <1>4 DEF IInv, TypeOK
<1>6. SaveInProgress'
    BY <1>2, <1>4 DEF IInv, SaveInProgress
<1>7. OpensSavedNotes'
    BY <1>2, <1>3, <1>4 DEF IInv, OpensSavedNotes, Alive
<1>8. Versions' /\ OneKind' /\ EditsOverBase'
    <2>1. c.base <= version
        BY <1>1, <1>2, ReachedCopy DEF IInv, Versions, TypeOK, Mine, Fresh
    <2> QED BY <1>1, <1>2, <1>4, <2>1 DEF IInv, TypeOK, Versions, OneKind, EditsOverBase
<1>9. EditsInCopy'
    BY <1>1, <1>2, <1>3, LeftEdits
<1>10. ValuesPinned' /\ OwnViews'
    BY <1>1, <1>2, <1>3, LeftViews
<1> QED BY <1>5, <1>6, <1>7, <1>8, <1>9, <1>10 DEF IInv

LEMMA OtherUserStep ==
    ASSUME IInv, OtherUser
    PROVE  IInv'
<1>1. PICK k \in Keys, i \in Items :
          stored' = [stored EXCEPT ![k] = IF @ = <<>> THEN <<i>> ELSE Modified(@, i)]
    BY DEF OtherUser
<1>2. /\ stored # None /\ version < MaxVersion /\ version' = version + 1
      /\ UNCHANGED <<creator, own, named, copies, holders, views, edits, saving>>
    BY DEF OtherUser
<1>3. stored \in [Keys -> Seq(Items)]
    BY <1>2 DEF IInv, TypeOK, ItemMaps
<1>4. ASSUME stored[k] # <<>>
      PROVE  Modified(stored[k], i) \in Seq(Items)
    <2>1. stored[k] \in Seq(Items) /\ 1 \in 1 .. Len(stored[k])
        BY <1>3, <1>4
    <2> QED BY <2>1, ExceptSeq DEF Modified
<1>5. stored' \in ItemMaps
    BY <1>1, <1>3, <1>4 DEF ItemMaps
<1>6. TypeOK' /\ Versions' /\ OneKind'
    <2>1. \A c \in Copies : c.base <= version => c.base <= version' /\ c.base # version'
        BY <1>2 DEF IInv, TypeOK, Copies
    <2> QED BY <1>2, <1>5, <2>1, NoteItemsAssumption DEF IInv, TypeOK, Versions, OneKind
<1>7. ValuesPinned' /\ OwnViews' /\ SaveInProgress'
    BY <1>2 DEF IInv, ValuesPinned, OwnViews, SaveInProgress
<1>8. OpensSavedNotes'
    BY <1>2 DEF IInv, OpensSavedNotes, Alive
<1>9. EditsInCopy'
    BY <1>2 DEF IInv, EditsInCopy, Mine
<1>10. EditsOverBase'
    <2>1. ASSUME NEW u \in Threads, Mine(u)' # None
          PROVE  Mine(u)'.base # version'
        <3>1. Mine(u)' = Mine(u) /\ Mine(u) \in Copies /\ Mine(u).base <= version
            BY <1>2, <2>1 DEF IInv, TypeOK, Versions, Mine
        <3> QED BY <1>2, <3>1 DEF IInv, TypeOK, Copies
    <2> QED BY <2>1 DEF EditsOverBase
<1> QED BY <1>6, <1>7, <1>8, <1>9, <1>10 DEF IInv

-----------------------------------------------------------------------------
LEMMA StutterStep ==
    ASSUME IInv, UNCHANGED vars
    PROVE  IInv'
BY DEF vars, IInv, TypeOK, ValuesPinned, EditsInCopy, OwnViews, SaveInProgress,
    OpensSavedNotes, Versions, OneKind, EditsOverBase, Mine, Alive

LEMMA NextStep == IInv /\ [Next]_vars => IInv'
<1> SUFFICES ASSUME IInv, [Next]_vars PROVE IInv'
    OBVIOUS
<1>1. ASSUME NEW t \in Threads, Call(t) PROVE IInv'
    BY <1>1, OpenStep, CreateStep, DropStep, SweepStep, LookStep, ForgetStep, RemoveStep,
        ShareStep, ViewStep, EraseStep, SetStep, StepStep, SaveStep DEF Call
<1> QED BY <1>1, NameNoteStep, CloseOwnStep, OtherUserStep, StutterStep DEF Next

\* The inductive invariant holds in every state of every program.
THEOREM Inductive == Spec => []IInv
BY InitIInv, NextStep, PTL DEF Spec

\* Every variable keeps its type.
THEOREM TypeCorrect == Spec => []TypeOK
<1>1. IInv => TypeOK
    BY DEF IInv
<1> QED BY <1>1, Inductive, PTL

\* An item_value keeps an open handle of its thread (item_value::note_), and its place,
\* its block and its size are those of an item of that copy until its own thread changes
\* the name: no other thread, no user, no save and no removal makes them stale.
THEOREM PinnedValues == Spec => []ValuesPinned
<1>1. IInv => ValuesPinned
    BY DEF IInv
<1> QED BY <1>1, Inductive, PTL

\* What was set is read back, of the same type (note::set(), note::get()).
THEOREM SetIsReadBack == Spec => []ReadsBack
<1>1. IInv => ReadsBack
    BY DEF IInv, EditsInCopy, ReadsBack
<1> QED BY <1>1, Inductive, PTL

\* Where there is no handle in the shared state there is a note id (note::save()).
THEOREM SavedNotesOpen == Spec => []OpensSavedNotes
<1>1. IInv => OpensSavedNotes
    BY DEF IInv
<1> QED BY <1>1, Inductive, PTL

\* note::save() without force: what is stored is the stored note with the edits of the
\* thread, whatever other threads and users have stored in between.
THEOREM SavesMerge == Spec => UnforcedSaveMerges
<1>1. ASSUME IInv, NEW t \in Threads, Save(t, FALSE), stored # None, NEW k \in Keys
      PROVE  Merged(edits[t][k], stored'[k], stored[k])
    <2>1. PICK c \in {own, copies[t], Fresh} :
              Reaches(t, c) /\ NSFNoteUpdate(c, Flags(FALSE)) /\ stored' = c.items
        BY <1>1 DEF Save
    <2>2. c.base # 0
        BY <1>1, <2>1, ReachedCopy DEF IInv, Versions, Mine, Fresh
    <2>3. c.base = version
        BY <2>1, <2>2 DEF NSFNoteUpdate, Flags
    <2> QED BY <1>1, <2>1, <2>3, ReachedMerged
<1>2. IInv /\ [Next]_vars =>
          [\A t \in Threads :
              Save(t, FALSE) /\ stored # None =>
                  \A k \in Keys : Merged(edits[t][k], stored'[k], stored[k])]_vars
    BY <1>1
<1> QED BY <1>2, Inductive, PTL DEF Spec, UnforcedSaveMerges

=============================================================================
