------------------------- MODULE ViewIterate_proofs -------------------------
(***************************************************************************)
(* Paging is right for a view of any size, any query options and any way   *)
(* the C API may cut the reading into batches.                             *)
(***************************************************************************)
EXTENDS ViewIterate, TLAPS

\* The position behind the last entry that a call will ask for.
Stop == first + (IF opts.key = "given" THEN MinOf(opts.offset + opts.count, matches)
                                       ELSE opts.count)

\* The next position a running call will look at.
Here == IF pc = "read" THEN pos + skip ELSE batch.next

\* The documents of the page before position p have been seen.
SeenUpTo(p) == \A i \in Page : i < p => i \in called \cup gone

\* What the numbers of a running call mean.
Reading ==
    pc = "read" =>
        /\ remaining >= 1
        /\ opts.key # "empty" => pos + skip + remaining = Stop /\ pos + skip >= 1

Delivering ==
    pc = "deliver" =>
        /\ batch.next >= 1 /\ batch.next <= batch.last + 1
        /\ pos = batch.last + 1 /\ batch.last <= len
        /\ read >= 1 /\ read <= remaining
        /\ opts.key # "empty" => /\ pos + remaining = Stop + read
                                 /\ signal = TRUE \/ pos > len \/ pos = Stop

WithKey ==
    /\ first + matches <= len + 1
    /\ opts.key # "given" => first = 1
    /\ opts.key = "none" => matches = len \/ pc = "idle"

Ordered ==
    /\ called \subseteq 1 .. len
    /\ pc = "idle" => called = {}
    /\ pc \in {"read", "deliver"} => \A i \in called : i < Here

Seen ==
    opts.key # "empty" =>
        /\ pc \in {"read", "deliver"} => Here >= first + opts.offset /\ SeenUpTo(Here)
        /\ pc # "idle" => \A i \in called : i >= first + opts.offset /\ i < Stop

IInv == TypeOK /\ Reading /\ Delivering /\ WithKey /\ Ordered /\ Seen /\ PageIsComplete

LEMMA InitIInv == Init => IInv
<1> SUFFICES ASSUME Init PROVE IInv
  OBVIOUS
<1> USE SizeAssumption DEF Init, NoOptions, NoBatch
<1>1. TypeOK
  <2>1. opts \in Options
    BY DEF Options, Keys, Uint32
  <2>2. batch \in [next : Nat, last : Nat]
    OBVIOUS
  <2>3. len \in 0 .. MaxEntries /\ gone \subseteq 1 .. len /\ called \subseteq Positions
    OBVIOUS
  <2>4. skip \in Uint32 /\ remaining \in Uint32 /\ read \in Uint32
    BY DEF Uint32
  <2>5. first \in Nat \ {0} /\ matches \in 0 .. MaxEntries /\ pos \in Nat
    OBVIOUS
  <2>6. pc = "idle" /\ signal = FALSE
    OBVIOUS
  <2> HIDE DEF Init
  <2>7. QED
    BY <2>1, <2>2, <2>3, <2>4, <2>5, <2>6 DEF TypeOK
<1>2. QED
  BY <1>1 DEF IInv, Reading, Delivering, WithKey, Ordered, Seen, PageIsComplete

\* Stop is the end of what the code reaches.
LEMMA StopBehindPage ==
    ASSUME IInv
    PROVE  /\ \A i \in Reached : i < Stop
           /\ \A i \in Page : i < Stop => i \in Reached
           /\ Reached \subseteq Page
<1>1. /\ opts.count \in Nat /\ opts.offset \in Nat /\ first \in Nat /\ matches \in Nat
  BY DEF IInv, TypeOK, Options, Uint32
<1>2. QED
  BY <1>1 DEF Reached, Page, Stop, MinOf, Positions

\* Where a call starts.
LEMMA IterateKeeps ==
    ASSUME IInv, NEW o \in Options, Iterate(o)
    PROVE  IInv'
<1> USE SizeAssumption
<1>0. /\ TypeOK /\ called = {} /\ called' = {} /\ opts' = o /\ pc = "idle"
      /\ UNCHANGED <<len, gone, batch, read>>
      /\ o.key \in Keys /\ o.count \in Uint32 /\ o.offset \in Uint32
  BY DEF IInv, Iterate, Ordered, Options
<1>1. ASSUME NEW at \in Nat, NEW available \in Uint32, BeginEntries(o, at, available),
             first' \in Nat \ {0}, matches' \in 0 .. MaxEntries, first' + matches' <= len + 1,
             \/ o.key = "given" /\ at = first' /\ available = matches'
             \/ o.key # "given" /\ at = 0 /\ first' = 1 /\ matches' = len
                /\ available = o.count
      PROVE  IInv'
  <2>1. pos' = at /\ signal' = TRUE
    BY <1>1 DEF BeginEntries
  <2>2. CASE o.offset >= available
    <3>1. pc' = "done" /\ UNCHANGED <<skip, remaining>>
      BY <1>1, <2>2 DEF BeginEntries
    <3>2. TypeOK'
      BY <1>0, <1>1, <2>1, <3>1 DEF TypeOK
    <3>3. PageIsComplete'
      BY <1>0, <1>1, <2>2 DEF PageIsComplete, Reached, Page, Uint32, Positions, Keys
    <3>4. QED
      BY <1>0, <1>1, <3>1, <3>2, <3>3
         DEF IInv, Reading, Delivering, WithKey, Ordered, Seen
  <2>3. CASE o.offset < available
    <3>1. /\ remaining' = Remaining(o, available) /\ skip' = Skip(o)
          /\ pc' = IF remaining' = 0 THEN "done" ELSE "read"
      BY <1>0, <1>1, <2>3 DEF BeginEntries, Uint32
    <3>2. remaining' \in Uint32 /\ skip' \in Uint32 /\ available - o.offset \in Nat
      BY <1>0, <2>3, <3>1 DEF Remaining, MinOf, Skip, Uint32
    <3>3. TypeOK'
      BY <1>0, <1>1, <2>1, <3>1, <3>2 DEF TypeOK
    <3>4. skip' = IF o.key = "none" THEN o.offset + 1 ELSE o.offset
      BY <1>0, <2>3, <3>1 DEF Skip, Uint32
    <3>5. o.key # "empty" => pos' + skip' + remaining' = Stop' /\ pos' + skip' >= 1
      <4>1. CASE o.key = "none"
        BY <4>1, <1>0, <1>1, <2>1, <2>3, <3>1, <3>4 DEF Stop, Remaining, MinOf, Uint32
      <4>2. CASE o.key = "given"
        BY <4>2, <1>0, <1>1, <2>1, <2>3, <3>1, <3>4 DEF Stop, Remaining, MinOf, Uint32
      <4>3. QED
        BY <4>1, <4>2, <1>0 DEF Keys
    <3>6. pc' # "deliver" /\ pc' # "idle" /\ (pc' = "read" => remaining' >= 1)
      BY <3>1, <3>2 DEF Uint32
    <3>7. o.key # "empty" => pos' + skip' = first' + o.offset
      BY <1>0, <1>1, <2>1, <3>4 DEF Keys, Uint32
    <3>8. SeenUpTo(first + opts.offset)'
      BY <1>0, <1>1 DEF SeenUpTo, Page, Positions, Uint32
    <3>9. PageIsComplete'
      <4> SUFFICES ASSUME pc' = "done", o.key # "empty", NEW i \in Page'
                   PROVE  FALSE
        BY <1>0 DEF PageIsComplete, Reached
      <4>1. remaining' = 0
        BY <3>1
      <4>2. o.count = 0 \/ available - o.offset = 0
        BY <4>1, <3>1, <3>2 DEF Remaining, MinOf
      <4>3. o.count = 0
        BY <4>2, <1>0, <1>1, <2>3 DEF Uint32
      <4>4. QED
        BY <4>3, <1>0, <1>1 DEF Page, Positions, Uint32
    <3>10. Seen'
      <4>1. ASSUME pc' = "read", o.key # "empty"
            PROVE  Here' = first' + o.offset
        BY <4>1, <3>7 DEF Here
      <4>2. QED
        BY <4>1, <3>6, <3>8, <1>0, <1>1 DEF Seen, Uint32
    <3>11. QED
      BY <1>0, <1>1, <3>3, <3>5, <3>6, <3>9, <3>10
         DEF IInv, Reading, Delivering, WithKey, Ordered
  <2>4. QED
    BY <1>0, <1>1, <2>2, <2>3 DEF Uint32
<1>2. len \in 0 .. MaxEntries
  BY <1>0 DEF TypeOK
<1>3. CASE o.key # "given"
  <2>1. first' = 1 /\ matches' = len /\ BeginEntries(o, 0, o.count)
    BY <1>3 DEF Iterate
  <2>2. QED
    BY <1>0, <1>1, <1>2, <1>3, <2>1
<1>4. ASSUME o.key = "given", NEW f \in 1 .. len, NEW m \in 1 .. (len - f + 1),
             first' = f, matches' = m, BeginEntries(o, f, m)
      PROVE  IInv'
  <2>1. f \in Nat \ {0} /\ m \in 0 .. MaxEntries /\ m \in Uint32 /\ f + m <= len + 1
    BY <1>2, <1>4 DEF Uint32
  <2>2. QED
    BY <1>1, <1>4, <2>1
<1>5. CASE /\ o.key = "given" /\ pc' \in {"done", "failed"}
           /\ first' = 1 /\ matches' = 0
           /\ UNCHANGED <<pos, skip, remaining, signal>>
  <2>1. TypeOK'
    BY <1>0, <1>5 DEF TypeOK
  <2>2. PageIsComplete'
    BY <1>0, <1>5 DEF PageIsComplete, Reached, Page, Positions, Uint32
  <2>3. QED
    BY <1>0, <1>2, <1>5, <2>1, <2>2
       DEF IInv, Reading, Delivering, WithKey, Ordered, Seen
<1>6. QED
  BY <1>3, <1>4, <1>5 DEF Iterate

\* A batch is read.
LEMMA ReadKeeps ==
    ASSUME IInv, ReadEntries
    PROVE  IInv'
<1> USE SizeAssumption
<1>0. /\ TypeOK /\ pc = "read" /\ UNCHANGED <<len, gone, opts, first, matches, skip>>
      /\ UNCHANGED <<remaining, called>>
      /\ remaining >= 1
      /\ opts.key # "empty" => pos + skip + remaining = Stop /\ pos + skip >= 1
  BY DEF IInv, ReadEntries, callVars, Reading
<1>1. Stop' = Stop /\ Reached' = Reached /\ (\A p : SeenUpTo(p)' <=> SeenUpTo(p))
  BY <1>0 DEF Stop, Reached, Page, SeenUpTo
<1>2. Stop \in Nat /\ len \in Nat /\ pos \in Nat /\ skip \in Nat /\ remaining \in Nat
  BY <1>0 DEF Stop, MinOf, TypeOK, Options, Uint32
<1>3. CASE pc' = "failed" /\ UNCHANGED <<pos, batch, read, signal>>
  <2>1. TypeOK'
    BY <1>0, <1>3 DEF TypeOK
  <2>2. QED
    BY <1>0, <1>1, <1>3, <2>1
       DEF IInv, Reading, Delivering, WithKey, Ordered, Seen, PageIsComplete
<1>4. ASSUME NEW start \in Starts, NEW k \in Uint32, read' = k,
             Readable(start) = {}, k = 0, pc' = "done", signal' \in BOOLEAN,
             UNCHANGED <<pos, batch>>
      PROVE  IInv'
  <2>1. TypeOK'
    BY <1>0, <1>4 DEF TypeOK
  <2>2. PageIsComplete'
    <3> SUFFICES ASSUME opts.key # "empty", NEW i \in Reached
                 PROVE  i \in called \cup gone
      BY <1>0, <1>1 DEF PageIsComplete
    <3>0. i < Stop /\ i \in Page
      BY StopBehindPage
    <3>1. start = pos + skip /\ SeenUpTo(start)
      BY <1>0, <1>2, <1>4 DEF Starts, IInv, Seen, Here
    <3>2. i <= len /\ i \in Nat
      BY <1>0, <1>2, <3>0 DEF Page, IInv, WithKey, TypeOK, Positions
    <3>3. CASE i < start
      BY <3>0, <3>1, <3>3 DEF SeenUpTo
    <3>4. CASE i >= start
      <4>1. i >= start + remaining
        BY <1>2, <1>4, <3>0, <3>1, <3>2, <3>4 DEF Readable, Page, Positions
      <4>2. QED
        BY <4>1, <3>0, <3>1, <3>2, <1>0, <1>2
    <3>5. QED
      BY <3>0, <3>1, <3>2, <3>3, <3>4, <1>2
  <2>3. QED
    BY <1>0, <1>1, <1>4, <2>1, <2>2 DEF IInv, Reading, Delivering, WithKey, Ordered, Seen
<1>5. ASSUME NEW start \in Starts, NEW k \in Uint32, read' = k,
             k >= 1, start + k - 1 \in Readable(start), pc' = "deliver",
             batch' = [next |-> start, last |-> start + k - 1], pos' = start + k,
             signal' \in BOOLEAN, start + k \in Readable(start) => signal'
      PROVE  IInv'
  <2>1. /\ start \in Nat /\ start >= 1 /\ k \in Nat
        /\ opts.key # "empty" => start = pos + skip
        /\ start >= pos + skip
    BY <1>0, <1>2, <1>5 DEF Starts, Uint32
  <2>2. /\ start + k - 1 <= len /\ start + k - 1 < start + remaining
        /\ start + k \notin Readable(start) => start + k > len \/ start + k >= start + remaining
    BY <1>2, <1>5, <2>1 DEF Readable
  <2>3. batch'.next = start /\ batch'.last = start + k - 1
    BY <1>5
  <2>4. TypeOK'
    <3>1. batch' \in [next : Nat, last : Nat] /\ pos' \in Nat
      BY <1>5, <2>1
    <3>2. QED
      BY <1>0, <1>5, <3>1 DEF TypeOK
  <2>5. Delivering'
    <3>1. k <= remaining /\ start <= start + k
      BY <1>2, <2>1, <2>2
    <3>2. opts.key # "empty" => /\ start + k + remaining = Stop + k
                                /\ signal' = TRUE \/ start + k > len \/ start + k = Stop
      <4> SUFFICES ASSUME opts.key # "empty"
                   PROVE  /\ start + k + remaining = Stop + k
                          /\ signal' = TRUE \/ start + k > len \/ start + k = Stop
        OBVIOUS
      <4>1. start + remaining = Stop /\ start + k <= Stop
        BY <1>0, <1>2, <2>1, <3>1
      <4>2. start + k \notin Readable(start) => start + k > len \/ start + k = Stop
        BY <1>2, <2>1, <2>2, <4>1
      <4>3. QED
        BY <1>2, <1>5, <2>1, <4>1, <4>2
    <3>3. /\ batch'.next >= 1 /\ batch'.next <= batch'.last + 1
          /\ pos' = batch'.last + 1 /\ batch'.last <= len'
          /\ read' >= 1 /\ read' <= remaining'
      BY <1>0, <1>5, <2>1, <2>2, <2>3, <3>1
    <3>4. opts'.key # "empty" => /\ pos' + remaining' = Stop' + read'
                                 /\ signal' = TRUE \/ pos' > len' \/ pos' = Stop'
      BY <1>0, <1>1, <1>5, <3>2
    <3>5. QED
      BY <3>3, <3>4 DEF Delivering
  <2>6. Here = pos + skip /\ Here' = start
    BY <1>0, <1>5, <2>3 DEF Here
  <2>7. Ordered'
    <3>1. \A i \in called : i \in Nat /\ i < Here
      BY <1>0, <1>2 DEF IInv, Ordered
    <3>2. \A i \in called : i < Here'
      BY <1>2, <2>1, <2>6, <3>1
    <3>3. QED
      BY <1>0, <1>5, <3>2 DEF IInv, Ordered
  <2>8. Seen'
    BY <1>0, <1>1, <1>5, <2>1, <2>6 DEF IInv, Seen
  <2>9. QED
    BY <1>0, <1>5, <2>4, <2>5, <2>7, <2>8 DEF IInv, Reading, WithKey, PageIsComplete
<1>6. QED
  BY <1>3, <1>4, <1>5 DEF ReadEntries

\* One entry of the batch.
LEMMA DeliverKeeps ==
    ASSUME IInv, Deliver
    PROVE  IInv'
<1> USE SizeAssumption
<1> DEFINE n == batch.next
<1>0. /\ TypeOK /\ pc = "deliver" /\ n <= batch.last /\ pc' \in {"deliver", "failed"}
      /\ batch' = [batch EXCEPT !.next = @ + 1]
      /\ called' \in {called, called \cup {n}}
      /\ n \notin gone => called' = called \cup {n}
      /\ UNCHANGED <<len, gone, opts, first, matches, pos, skip, remaining, read, signal>>
  BY DEF IInv, Deliver, callVars
<1>1. Stop' = Stop /\ Page' = Page /\ Stop \in Nat
  BY <1>0 DEF Stop, Page, MinOf, TypeOK, Options, Uint32
<1>2. /\ batch'.next = n + 1 /\ batch'.last = batch.last /\ n \in Nat /\ batch.last \in Nat
      /\ batch' \in [next : Nat, last : Nat]
  BY <1>0 DEF TypeOK
<1>3. n \in 1 .. len /\ len \in 0 .. MaxEntries /\ n \in Positions
  BY <1>0, <1>2 DEF IInv, Delivering, TypeOK, Positions
<1>4. TypeOK'
  BY <1>0, <1>2, <1>3 DEF TypeOK
<1>5. Delivering'
  BY <1>0, <1>1, <1>2 DEF IInv, Delivering
<1>6. Ordered'
  <2>1. \A i \in called : i \in Nat /\ i < n
    BY <1>0, <1>3 DEF IInv, Ordered, Here
  <2>2. \A i \in called' : i < n + 1
    BY <1>0, <1>2, <2>1
  <2>3. QED
    BY <1>0, <1>2, <1>3, <2>2 DEF IInv, Ordered, Here
<1>7. Seen'
  <2> SUFFICES ASSUME opts.key # "empty" PROVE Seen'
    BY <1>0 DEF Seen
  <2>1. n >= first + opts.offset /\ SeenUpTo(n)
    BY <1>0 DEF IInv, Seen, Here
  <2>2. \A i \in Page : i < n + 1 => i \in called' \cup gone
    <3>1. \A i \in Page : i < n + 1 => i < n \/ i = n
      BY <1>2 DEF Page, Positions
    <3>2. QED
      BY <1>0, <2>1, <3>1 DEF SeenUpTo
  <2>3. n < Stop
    BY <1>0, <1>1, <1>2 DEF IInv, Delivering, TypeOK, Uint32
  <2>4. \A i \in called' : i >= first + opts.offset /\ i < Stop
    BY <1>0, <2>1, <2>3 DEF IInv, Seen
  <2>5. first + opts.offset <= n + 1
    BY <1>0, <1>2, <2>1 DEF TypeOK, Options, Uint32
  <2>6. QED
    <3>1. pc' = "deliver" => Here' = n + 1 /\ SeenUpTo(Here)'
      BY <1>0, <1>1, <1>2, <2>2 DEF Here, SeenUpTo
    <3>2. QED
      BY <1>0, <1>1, <2>4, <2>5, <3>1 DEF Seen
<1>8. QED
  BY <1>0, <1>4, <1>5, <1>6, <1>7 DEF IInv, Reading, WithKey, PageIsComplete

\* The end of a batch.
LEMMA NextBatchKeeps ==
    ASSUME IInv, NextBatch
    PROVE  IInv'
<1> USE SizeAssumption
<1>0. /\ TypeOK /\ pc = "deliver" /\ batch.next > batch.last
      /\ UNCHANGED <<len, gone, opts, first, matches, pos, batch, read, signal, called>>
  BY DEF IInv, NextBatch, callVars
<1>1. Stop' = Stop /\ Reached' = Reached /\ (\A p : SeenUpTo(p)' <=> SeenUpTo(p))
      /\ Stop \in Nat
  BY <1>0 DEF Stop, Reached, Page, SeenUpTo, MinOf, TypeOK, Options, Uint32
<1>2. /\ batch.next = batch.last + 1 /\ pos = batch.next /\ pos >= 1
      /\ read >= 1 /\ read <= remaining /\ Here = pos
      /\ read \in Nat /\ remaining \in Nat /\ pos \in Nat /\ len \in Nat
      /\ opts.key # "empty" => /\ pos + remaining = Stop + read
                               /\ signal = TRUE \/ pos > len \/ pos = Stop
  BY <1>0 DEF IInv, Delivering, TypeOK, Uint32, Here
<1>3. ASSUME pc' = "done", opts.key # "empty" => pos > len \/ pos = Stop
      PROVE  PageIsComplete'
  <2> SUFFICES ASSUME opts.key # "empty", NEW i \in Reached
               PROVE  i \in called \cup gone
    BY <1>0, <1>1 DEF PageIsComplete
  <2>1. i < Stop /\ i \in Page /\ SeenUpTo(pos)
    BY <1>0, <1>2, StopBehindPage DEF IInv, Seen
  <2>2. i <= len /\ i \in Nat
    BY <1>0, <1>2, <2>1 DEF Page, IInv, WithKey, TypeOK, Positions
  <2>3. i < pos
    BY <1>1, <1>2, <1>3, <2>1, <2>2
  <2>4. QED
    BY <2>1, <2>3 DEF SeenUpTo
<1>4. CASE remaining <= read
  <2>1. pc' = "done" /\ UNCHANGED <<remaining, skip>>
    BY <1>4 DEF NextBatch
  <2>2. PageIsComplete'
    BY <1>1, <1>2, <1>3, <1>4, <2>1
  <2>3. TypeOK'
    BY <1>0, <2>1 DEF TypeOK
  <2>4. QED
    BY <1>0, <1>1, <2>1, <2>2, <2>3 DEF IInv, Reading, Delivering, WithKey, Ordered, Seen
<1>5. CASE remaining > read
  <2>1. remaining' = remaining - read /\ skip' = 0 /\ pc' = IF signal THEN "read" ELSE "done"
    BY <1>2, <1>5 DEF NextBatch
  <2>2. remaining' \in Uint32 /\ remaining' >= 1
    BY <1>0, <1>2, <1>5, <2>1 DEF TypeOK, Uint32
  <2>3. TypeOK'
    BY <1>0, <2>1, <2>2 DEF TypeOK, Uint32
  <2>4. PageIsComplete'
    <3>1. CASE signal
      BY <2>1, <3>1 DEF PageIsComplete
    <3>2. CASE ~signal
      BY <2>1, <1>2, <1>3, <3>2
    <3>3. QED
      BY <3>1, <3>2
  <2>5. pc' = "read" => Here' = Here
    BY <1>0, <1>2, <2>1 DEF Here
  <2>6. Reading' /\ Delivering'
    BY <1>0, <1>1, <1>2, <2>1, <2>2 DEF Reading, Delivering
  <2>7. Ordered' /\ Seen'
    BY <1>0, <1>1, <2>1, <2>5 DEF IInv, Ordered, Seen
  <2>8. QED
    BY <1>0, <2>1, <2>3, <2>4, <2>6, <2>7 DEF IInv, WithKey
<1>6. QED
  BY <1>2, <1>4, <1>5

LEMMA ReturnKeeps ==
    ASSUME IInv, Return
    PROVE  IInv'
<1> USE SizeAssumption DEF Return, NoOptions, NoBatch
<1>1. opts' \in Options /\ batch' \in [next : Nat, last : Nat] /\ called' \subseteq Positions
  BY DEF Options, Keys, Uint32
<1>2. TypeOK'
  <2>1. skip' \in Uint32 /\ remaining' \in Uint32 /\ read' \in Uint32
    BY DEF Uint32
  <2>2. /\ pc' = "idle" /\ first' \in Nat \ {0} /\ matches' \in 0 .. MaxEntries
        /\ pos' \in Nat /\ signal' = FALSE /\ UNCHANGED <<len, gone>>
    OBVIOUS
  <2> HIDE DEF Return
  <2>3. QED
    BY <1>1, <2>1, <2>2 DEF IInv, TypeOK
<1>3. len \in Nat
  BY DEF IInv, TypeOK
<1>4. QED
  BY <1>2, <1>3 DEF IInv, Reading, Delivering, WithKey, Ordered, Seen, PageIsComplete

LEMMA DeleteKeeps ==
    ASSUME IInv, NEW i \in Positions, Delete(i)
    PROVE  IInv'
<1>0. /\ gone' = gone \cup {i} /\ i \in 1 .. len
      /\ UNCHANGED <<len, pc, opts, first, matches, pos, skip, remaining, batch, read>>
      /\ UNCHANGED <<signal, called>>
  BY DEF Delete, callVars
<1>1. Stop' = Stop /\ Reached' = Reached /\ Here' = Here
      /\ (\A p : SeenUpTo(p) => SeenUpTo(p)')
  BY <1>0 DEF Stop, Reached, Page, Here, SeenUpTo
<1>2. TypeOK'
  BY <1>0 DEF IInv, TypeOK
<1>3. QED
  BY <1>0, <1>1, <1>2
     DEF IInv, Reading, Delivering, WithKey, Ordered, Seen, PageIsComplete

LEMMA Invariance == Spec => []IInv
<1>1. ASSUME IInv, UNCHANGED vars PROVE IInv'
  <2>1. UNCHANGED <<len, gone, pc, opts, first, matches, pos, skip, remaining, batch, read>>
        /\ UNCHANGED <<signal, called>>
    BY <1>1 DEF vars, callVars
  <2>2. Stop' = Stop /\ Reached' = Reached /\ Here' = Here
        /\ (\A p : SeenUpTo(p)' <=> SeenUpTo(p))
    BY <2>1 DEF Stop, Reached, Page, Here, SeenUpTo
  <2>3. QED
    BY <1>1, <2>1, <2>2
       DEF IInv, TypeOK, Reading, Delivering, WithKey, Ordered, Seen, PageIsComplete
<1>2. IInv /\ [Next]_vars => IInv'
  BY <1>1, IterateKeeps, ReadKeeps, DeliverKeeps, NextBatchKeeps, ReturnKeeps, DeleteKeeps
     DEF Next, Running
<1>3. QED
  BY InitIInv, <1>2, PTL DEF Spec

-----------------------------------------------------------------------------
\* The unsigned counters of iterate_entries() stay in their type: no subtraction of
\* the offset or of a batch wraps around.
THEOREM TypeCorrect == Spec => []TypeOK
BY Invariance, PTL DEF IInv

\* Whatever the size of the view, the options and the batches, the callback is only
\* called for entries of the page, and without a key only up to the position count.
THEOREM OnlyThePage == Spec => []OnlyPageIsCalled
<1>1. IInv => OnlyPageIsCalled
  <2> SUFFICES ASSUME IInv, opts.key # "empty", NEW i \in called PROVE i \in Reached
    BY DEF OnlyPageIsCalled
  <2>0. TypeOK
    BY DEF IInv
  <2>1. /\ i >= first + opts.offset /\ i < Stop /\ i \in 1 .. len
        /\ pc # "idle"
    BY DEF IInv, Seen, Ordered
  <2>2. /\ opts.count \in Nat /\ opts.offset \in Nat /\ first \in Nat /\ matches \in Nat
        /\ len \in 0 .. MaxEntries
    BY <2>0 DEF TypeOK, Options, Uint32
  <2>3. i < first + matches /\ i < first + opts.offset + opts.count
    <3>1. CASE opts.key = "given"
      BY <3>1, <2>1, <2>2 DEF Stop, MinOf
    <3>2. CASE opts.key = "none"
      BY <3>2, <2>1, <2>2 DEF Stop, IInv, WithKey
    <3>3. QED
      BY <3>1, <3>2, <2>0 DEF TypeOK, Options, Keys
  <2>4. QED
    BY <2>1, <2>2, <2>3, StopBehindPage, SizeAssumption DEF Page, Positions
<1>2. QED
  BY <1>1, Invariance, PTL

\* No document of the page is lost between two batches; the finding about offsets
\* without a key is exactly that the page ends at the position count.
THEOREM WholePage == Spec => []PageIsComplete
BY Invariance, PTL DEF IInv

\* Entries are taken in the order of the view and none is taken twice.
THEOREM Order == Spec => InViewOrder
<1>1. ASSUME IInv, [Next]_vars
      PROVE  pc = "deliver" /\ batch'.next > batch.next
             => \A j \in called : j < batch.next
  BY <1>1 DEF IInv, Ordered, Here
<1>2. QED
  BY <1>1, Invariance, PTL DEF Spec, InViewOrder

-----------------------------------------------------------------------------
(* The safety half of Terminates.                                          *)

\* What is left to do for a running call: three units for each entry that it may still
\* ask for, one for each entry of the batch, and one or two for where it is.
Work ==
    CASE pc = "read"    -> 3 * remaining + 1
      [] pc = "deliver" -> 3 * (remaining - read) + (batch.last + 1 - batch.next) + 2
      [] OTHER          -> 0

LEMMA WorkIsNat ==
    ASSUME IInv
    PROVE  Work \in Nat
<1>1. CASE pc = "read"
  BY <1>1 DEF IInv, TypeOK, Uint32, Work
<1>2. CASE pc = "deliver"
  <2>1. /\ remaining \in Nat /\ read \in Nat /\ read <= remaining
        /\ batch.next \in Nat /\ batch.last \in Nat /\ batch.next <= batch.last + 1
    BY <1>2 DEF IInv, TypeOK, Uint32, Delivering
  <2>2. QED
    BY <1>2, <2>1 DEF Work
<1>3. CASE pc \notin {"read", "deliver"}
  BY <1>3 DEF Work
<1>4. QED
  BY <1>1, <1>2, <1>3

\* Every step of iterate() leaves less to do.
LEMMA RunningWorks ==
    ASSUME IInv, IInv', Running
    PROVE  Work' < Work
<1> USE SizeAssumption
<1>0. /\ remaining \in Nat /\ read \in Nat /\ Work \in Nat
      /\ batch.next \in Nat /\ batch.last \in Nat
  BY WorkIsNat DEF IInv, TypeOK, Uint32
<1>1. CASE ReadEntries
  <2>1. pc = "read" /\ remaining' = remaining /\ Work = 3 * remaining + 1
    BY <1>1 DEF ReadEntries, Work
  <2>2. CASE pc' # "deliver"
    <3>1. Work' = 0
      BY <1>1, <2>2 DEF ReadEntries, Work
    <3>2. QED
      BY <1>0, <2>1, <3>1
  <2>3. CASE pc' = "deliver"
    <3>1. PICK start \in Starts, k \in Uint32 :
              /\ read' = k /\ batch' = [next |-> start, last |-> start + k - 1]
      BY <1>1, <2>3 DEF ReadEntries
    <3>2. start \in Nat /\ k \in Nat
      BY <3>1 DEF Starts, IInv, TypeOK, Uint32
    <3>3. k >= 1 /\ k <= remaining
      BY <2>1, <2>3, <3>1 DEF IInv, Delivering
    <3>4. batch'.last + 1 - batch'.next = k
      BY <3>1, <3>2
    <3>5. Work' = 3 * (remaining - k) + k + 2
      BY <2>1, <2>3, <3>1, <3>4 DEF Work
    <3>6. QED
      BY <1>0, <2>1, <3>2, <3>3, <3>5
  <2>4. QED
    BY <2>2, <2>3
<1>2. CASE Deliver
  <2>1. /\ pc = "deliver" /\ pc' \in {"deliver", "failed"}
        /\ remaining' = remaining /\ read' = read
        /\ batch'.next = batch.next + 1 /\ batch'.last = batch.last
    BY <1>2 DEF Deliver, IInv, TypeOK
  <2>2. /\ Work = 3 * (remaining - read) + (batch.last + 1 - batch.next) + 2
        /\ batch.next <= batch.last /\ read <= remaining
    BY <1>2, <2>1 DEF Deliver, Work, IInv, Delivering
  <2>3. pc' = "deliver" => Work' = Work - 1
    BY <1>0, <2>1, <2>2 DEF Work
  <2>4. pc' = "failed" => Work' = 0
    BY DEF Work
  <2>5. QED
    BY <1>0, <2>1, <2>2, <2>3, <2>4
<1>3. CASE NextBatch
  <2>1. /\ pc = "deliver" /\ read >= 1 /\ read <= remaining
        /\ batch.next = batch.last + 1
    BY <1>0, <1>3 DEF NextBatch, IInv, Delivering
  <2>2. Work = 3 * (remaining - read) + 2
    BY <1>0, <2>1 DEF Work
  <2>3. pc' = "read" => remaining' = remaining - read
    BY <1>3 DEF NextBatch
  <2>4. pc' = "read" => Work' = 3 * (remaining - read) + 1
    BY <2>3 DEF Work
  <2>5. pc' # "read" => Work' = 0
    BY <1>3 DEF NextBatch, Work
  <2>6. QED
    BY <1>0, <2>1, <2>2, <2>4, <2>5
<1>4. QED
  BY <1>1, <1>2, <1>3 DEF Running

\* iterate() cannot go round in circles: each of its steps, be it a batch, an entry or
\* the end of a batch, makes a natural number smaller that nobody else's step changes
\* while the call runs.  It starts at 3 * count + 1 at most, so that this is a bound for
\* the steps of a call.  With the fairness of FairSpec this is what Terminates says.
THEOREM EveryStepProgresses ==
    Spec => [][/\ Running => Work' < Work
               /\ pc \in {"read", "deliver"} /\ ~Running => Work' = Work
               /\ \A o \in Options : Iterate(o) => Work' <= 3 * o.count + 1]_vars
<1>1. ASSUME IInv, [Next]_vars, pc \in {"read", "deliver"}, ~Running
      PROVE  Work' = Work
  <2>1. CASE UNCHANGED vars
    BY <2>1 DEF vars, Work
  <2>2. CASE \E i \in Positions : Delete(i)
    BY <2>2 DEF Delete, Work
  <2>3. QED
    BY <1>1, <2>1, <2>2 DEF Next, Iterate, Return
<1>2. ASSUME IInv, NEW o \in Options, Iterate(o)
      PROVE  Work' <= 3 * o.count + 1
  <2>1. o.count \in Nat /\ pc' # "deliver"
    BY <1>2 DEF Options, Uint32, Iterate, BeginEntries
  <2>2. CASE pc' = "read"
    <3>1. \E available \in Uint32 \cup Nat :
              o.offset < available /\ remaining' = Remaining(o, available)
      BY <1>2, <2>2 DEF Iterate, BeginEntries, Options, Uint32, IInv, TypeOK
    <3>2. remaining' \in Nat /\ remaining' <= o.count
      BY <2>1, <3>1 DEF Remaining, MinOf, Options, Uint32
    <3>3. QED
      BY <2>1, <2>2, <3>2 DEF Work
  <2>3. CASE pc' # "read"
    BY <2>1, <2>3 DEF Work
  <2>4. QED
    BY <2>2, <2>3
<1>3. IInv /\ IInv' /\ [Next]_vars =>
          [/\ Running => Work' < Work
           /\ pc \in {"read", "deliver"} /\ ~Running => Work' = Work
           /\ \A o \in Options : Iterate(o) => Work' <= 3 * o.count + 1]_vars
  BY <1>1, <1>2, RunningWorks
<1>4. QED
  BY <1>3, Invariance, PTL DEF Spec
=============================================================================
