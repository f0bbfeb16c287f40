------------------------- MODULE DesignView_proofs --------------------------
(***************************************************************************)
(* Designs of any number of columns stay consistent over any number of     *)
(* calls, wherever a save stops.                                           *)
(***************************************************************************)
EXTENDS DesignView, Integers, FiniteSetTheorems, WellFoundedInduction, TLAPS

\* The name is one that the sequence has given before it comes to the number k.
Given(name, k) == \E m \in 1 .. k - 1 : name = Generated(m)

NumbersUsed ==
    \A i \in DOMAIN columns : FromSequence(columns[i]) => Given(columns[i].name, sequence)

\* A call takes at most one number for each column.
Bounds ==
    /\ Len(columns) <= MaxColumns
    /\ sequence <= calls * MaxColumns + 1

IInv == TypeOK /\ Bounds /\ NumbersUsed /\ GeneratedNamesDiffer /\ StoredBelongsTogether

\* A number makes one name, and no empty one.
LEMMA NameParts ==
  /\ \A j, k : Generated(j) = Generated(k) => j = k
  /\ NoName \notin ItemNames /\ NoName # OwnName
<1>1. \A k : Generated(k) # NoName
  BY DEF Generated, NoName
<1>2. \A j, k : Generated(j) = Generated(k) => j = k
  BY DEF Generated
<1>3. NoName # OwnName
  BY DEF NoName, OwnName
<1> QED
  BY <1>1, <1>2, <1>3 DEF ItemNames

\* Numbers up to the bound make names.
LEMMA GeneratedType ==
  ASSUME NEW k \in 1 .. MaxCalls * MaxColumns
  PROVE  Generated(k) \in ItemNames
BY DEF ItemNames

\* One more call has room for the names of all columns.
LEMMA RoomForACall ==
  ASSUME TypeOK, Bounds, calls < MaxCalls
  PROVE  /\ sequence \in Nat \ {0}
         /\ sequence + MaxColumns <= (calls + 1) * MaxColumns + 1
         /\ (calls + 1) * MaxColumns <= MaxCalls * MaxColumns
         /\ (calls + 1) * MaxColumns \in Nat /\ MaxCalls * MaxColumns \in Nat
<1> USE DesignAssumption DEF TypeOK
<1>1. calls \in Nat /\ calls + 1 <= MaxCalls /\ MaxColumns \in Nat /\ MaxCalls \in Nat
  OBVIOUS
<1>2. calls * MaxColumns \in Nat /\ MaxCalls * MaxColumns \in Nat
  BY <1>1
<1>3. (calls + 1) * MaxColumns = calls * MaxColumns + MaxColumns
  BY <1>1
<1>4. (calls + 1) * MaxColumns <= MaxCalls * MaxColumns
  BY <1>1
<1>5. sequence \in Nat \ {0} /\ sequence <= calls * MaxColumns + 1
  BY <1>2 DEF Bounds
<1> QED
  BY <1>1, <1>2, <1>3, <1>4, <1>5

\* The columns without a name up to some column are finitely many.
LEMMA UnnamedFinite ==
  ASSUME NEW i \in Nat
  PROVE  /\ IsFiniteSet(Unnamed(i))
         /\ Cardinality(Unnamed(i)) \in 0 .. i
<1>1. IsFiniteSet(1 .. i) /\ Cardinality(1 .. i) = i
  BY FS_Interval
<1>2. Unnamed(i) \in SUBSET (1 .. i)
  BY DEF Unnamed
<1> QED
  BY <1>1, <1>2, FS_Subset, FS_CardinalityType

\* A column without a name adds to them.
LEMMA UnnamedGrows ==
  ASSUME NEW i \in Nat, NEW j \in Nat, i <= j
  PROVE  /\ Cardinality(Unnamed(i)) <= Cardinality(Unnamed(j))
         /\ i < j /\ columns[j].name = NoName =>
              Cardinality(Unnamed(i)) < Cardinality(Unnamed(j))
<1>1. Unnamed(i) \in SUBSET Unnamed(j)
  BY DEF Unnamed
<1>2. IsFiniteSet(Unnamed(j)) /\ IsFiniteSet(Unnamed(i))
      /\ Cardinality(Unnamed(i)) \in Nat /\ Cardinality(Unnamed(j)) \in Nat
  BY UnnamedFinite
<1>3. i < j /\ columns[j].name = NoName => j \in Unnamed(j) /\ j \notin Unnamed(i)
  BY DEF Unnamed
<1>4. Cardinality(Unnamed(i)) <= Cardinality(Unnamed(j))
      /\ (Cardinality(Unnamed(j)) = Cardinality(Unnamed(i)) => Unnamed(j) = Unnamed(i))
  BY <1>1, <1>2, FS_Subset
<1> QED
  BY <1>2, <1>3, <1>4

\* The number that a column without a name gets in a save.
NumberOf(i) == sequence + Cardinality(Unnamed(i)) - 1

\* The name a column gets in a save.
LEMMA NameOfType ==
  ASSUME IInv, calls < MaxCalls, NEW i \in DOMAIN columns
  PROVE  /\ NameOf(i) \in ItemNames
         /\ columns[i].name = NoName =>
              /\ NameOf(i) = Generated(NumberOf(i))
              /\ NumberOf(i) \in sequence .. SequenceAt(i) - 1
         /\ columns[i].name # NoName => NameOf(i) = columns[i].name
         /\ ~columns[i].chosen => Given(NameOf(i), SequenceAt(i))
<1>1. /\ sequence \in Nat \ {0}
      /\ sequence + MaxColumns <= MaxCalls * MaxColumns + 1
      /\ MaxCalls * MaxColumns \in Nat /\ MaxColumns \in Nat
  BY RoomForACall, DesignAssumption DEF IInv
<1>2. i \in Nat \ {0} /\ i <= MaxColumns /\ columns[i] \in Columns
  BY <1>1 DEF IInv, TypeOK, Bounds
<1>3. Cardinality(Unnamed(i)) \in 0 .. i
  BY <1>2, UnnamedFinite
<1>4. SequenceAt(i) = sequence + Cardinality(Unnamed(i))
  BY DEF SequenceAt
<1>5. CASE columns[i].name = NoName
  <2>1. NameOf(i) = Generated(NumberOf(i))
    BY <1>5 DEF NameOf, NumberOf
  <2>2. Cardinality(Unnamed(0)) < Cardinality(Unnamed(i)) /\ Cardinality(Unnamed(0)) \in 0 .. 0
    BY <1>2, <1>5, UnnamedGrows, UnnamedFinite
  <2>3. /\ NumberOf(i) \in 1 .. MaxCalls * MaxColumns
        /\ NumberOf(i) \in sequence .. SequenceAt(i) - 1
        /\ NumberOf(i) \in 1 .. SequenceAt(i) - 1
    BY <1>1, <1>2, <1>3, <1>4, <2>2 DEF NumberOf
  <2>4. Generated(NumberOf(i)) \in ItemNames
    BY <2>3, GeneratedType
  <2>5. Given(NameOf(i), SequenceAt(i))
    BY <2>1, <2>3 DEF Given
  <2> QED
    BY <1>5, <2>1, <2>3, <2>4, <2>5
<1>6. CASE columns[i].name # NoName
  <2>1. NameOf(i) = columns[i].name /\ columns[i].name \in ItemNames
    BY <1>2, <1>6 DEF NameOf, Columns
  <2>2. ASSUME ~columns[i].chosen PROVE Given(NameOf(i), SequenceAt(i))
    <3>1. Given(NameOf(i), sequence)
      BY <1>6, <2>1, <2>2 DEF IInv, NumbersUsed, FromSequence
    <3>2. \A m \in 1 .. sequence - 1 : m \in 1 .. SequenceAt(i) - 1
      BY <1>1, <1>3, <1>4
    <3> QED
      BY <3>1, <3>2 DEF Given
  <2> QED
    BY <1>6, <2>1, <2>2
<1> QED
  BY <1>5, <1>6

\* A number of the sequence has not been given before.
LEMMA NewNumberIsNew ==
  ASSUME NEW name, NEW k \in Nat, NEW m \in Nat, Given(name, k), k <= m
  PROVE  name # Generated(m)
BY NameParts DEF Given

\* Names that are generated for two columns differ, also from older ones.
LEMMA NewNamesDiffer ==
  ASSUME IInv, calls < MaxCalls, NEW i \in DOMAIN columns, NEW j \in DOMAIN columns, i < j,
         ~columns[i].chosen, ~columns[j].chosen
  PROVE  NameOf(i) # NameOf(j)
<1>1. i \in Nat /\ j \in Nat /\ sequence \in Nat
  BY RoomForACall DEF IInv, TypeOK
<1>2. Cardinality(Unnamed(i)) \in Nat /\ Cardinality(Unnamed(j)) \in Nat
  BY <1>1, UnnamedFinite
<1>3. CASE columns[j].name = NoName
  <2>1. Cardinality(Unnamed(i)) < Cardinality(Unnamed(j))
    BY <1>1, <1>3, UnnamedGrows
  <2>2. NameOf(j) = Generated(NumberOf(j)) /\ Given(NameOf(i), SequenceAt(i))
    BY <1>3, NameOfType
  <2>3. SequenceAt(i) \in Nat /\ NumberOf(j) \in Nat /\ SequenceAt(i) <= NumberOf(j)
    BY <1>1, <1>2, <2>1 DEF SequenceAt, NumberOf
  <2> QED
    BY <2>2, <2>3, NewNumberIsNew
<1>4. CASE columns[j].name # NoName /\ columns[i].name = NoName
  <2>1. NameOf(i) = Generated(NumberOf(i)) /\ NumberOf(i) \in sequence .. SequenceAt(i) - 1
    BY <1>4, NameOfType
  <2>2. Given(NameOf(j), sequence)
    BY <1>4, NameOfType DEF IInv, NumbersUsed, FromSequence
  <2>3. NumberOf(i) \in Nat /\ sequence <= NumberOf(i)
    BY <1>1, <1>2, <2>1 DEF SequenceAt
  <2> QED
    BY <1>1, <2>1, <2>2, <2>3, NewNumberIsNew
<1>5. CASE columns[j].name # NoName /\ columns[i].name # NoName
  BY <1>1, <1>5, NameOfType DEF IInv, GeneratedNamesDiffer, FromSequence
<1> QED
  BY <1>3, <1>4, <1>5

\* The columns of a save that has got to column j.
LEMMA NamedType ==
  ASSUME IInv, calls < MaxCalls, NEW j \in DOMAIN columns \cup {0, Len(columns)},
         NEW i \in 0 .. j
  PROVE  /\ Named(i, j) \in Seq(Columns)
         /\ Len(Named(i, j)) = Len(columns)
         /\ DOMAIN Named(i, j) = DOMAIN columns
         /\ \A k \in DOMAIN columns :
              /\ Named(i, j)[k].name = IF k <= j THEN NameOf(k) ELSE columns[k].name
              /\ Named(i, j)[k].chosen = columns[k].chosen
              /\ Named(i, j)[k].formula.item =
                   IF k <= i THEN NameOf(k) ELSE columns[k].formula.item
<1>1. columns \in Seq(Columns) /\ DOMAIN columns = 1 .. Len(columns) /\ Len(columns) \in Nat
  BY DEF IInv, TypeOK
<1>2. ASSUME NEW k \in DOMAIN columns
      PROVE  /\ Named(i, j)[k] \in Columns
             /\ Named(i, j)[k].name = IF k <= j THEN NameOf(k) ELSE columns[k].name
             /\ Named(i, j)[k].chosen = columns[k].chosen
             /\ Named(i, j)[k].formula.item =
                  IF k <= i THEN NameOf(k) ELSE columns[k].formula.item
  <2>1. columns[k] \in Columns /\ NameOf(k) \in ItemNames
    BY <1>1, NameOfType
  <2> DEFINE name == IF k <= j THEN NameOf(k) ELSE columns[k].name
             item == IF k <= i THEN NameOf(k) ELSE columns[k].formula.item
  <2>2. name \in ItemNames \cup {NoName} /\ item \in ItemNames \cup {NoName, OwnName}
    BY <2>1 DEF Columns
  <2>3. Named(i, j)[k] = [columns[k] EXCEPT !.name = name, !.formula.item = item]
    BY DEF Named
  <2> HIDE DEF name, item
  <2>4. Named(i, j)[k] = [name |-> name, flags |-> columns[k].flags,
                          chosen |-> columns[k].chosen,
                          formula |-> [code |-> columns[k].formula.code, item |-> item]]
    BY <2>1, <2>3 DEF Columns
  <2>5. Named(i, j)[k] \in Columns
    BY <2>1, <2>2, <2>4 DEF Columns
  <2>6. /\ Named(i, j)[k].name = name /\ Named(i, j)[k].formula.item = item
        /\ Named(i, j)[k].chosen = columns[k].chosen
    BY <2>4
  <2> QED
    BY <2>5, <2>6 DEF name, item
<1>3. Named(i, j) = [k \in 1 .. Len(columns) |-> Named(i, j)[k]]
  BY <1>1 DEF Named
<1>4. Named(i, j) \in Seq(Columns)
  BY <1>1, <1>2, <1>3
<1> QED
  BY <1>1, <1>2, <1>3, <1>4

\* The number that a save up to column j leaves.
LEMMA SequenceAtType ==
  ASSUME IInv, calls < MaxCalls, NEW j \in DOMAIN columns \cup {0, Len(columns)}
  PROVE  /\ SequenceAt(j) \in 1 .. MaxCalls * MaxColumns + 1
         /\ SequenceAt(j) <= (calls + 1) * MaxColumns + 1
         /\ sequence <= SequenceAt(j)
         /\ \A k \in DOMAIN columns : k <= j => SequenceAt(k) <= SequenceAt(j)
<1>1. j \in Nat /\ j <= MaxColumns /\ \A k \in DOMAIN columns : k \in Nat
  BY DesignAssumption DEF IInv, TypeOK, Bounds
<1>2. Cardinality(Unnamed(j)) \in 0 .. j
  BY <1>1, UnnamedFinite
<1>3. /\ sequence \in Nat \ {0}
      /\ sequence + MaxColumns <= (calls + 1) * MaxColumns + 1
      /\ (calls + 1) * MaxColumns <= MaxCalls * MaxColumns
      /\ (calls + 1) * MaxColumns \in Nat /\ MaxCalls * MaxColumns \in Nat
  BY RoomForACall DEF IInv
<1>4. MaxColumns \in Nat
  BY DesignAssumption
<1>5. ASSUME NEW k \in DOMAIN columns, k <= j
      PROVE  SequenceAt(k) <= SequenceAt(j)
  <2>1. Cardinality(Unnamed(k)) <= Cardinality(Unnamed(j)) /\ Cardinality(Unnamed(k)) \in Nat
    BY <1>1, <1>5, UnnamedGrows, UnnamedFinite
  <2> QED
    BY <1>2, <1>3, <2>1 DEF SequenceAt
<1> QED
  BY <1>1, <1>2, <1>3, <1>4, <1>5 DEF SequenceAt

\* Names and numbers stay in order in a save that gets to column j.
LEMMA NamingKeepsNames ==
  ASSUME IInv, calls < MaxCalls, NEW j \in DOMAIN columns \cup {0, Len(columns)},
         NEW i \in 0 .. j, columns' = Named(i, j), sequence' = SequenceAt(j),
         calls' = calls + 1
  PROVE  /\ columns' \in Seq(Columns)
         /\ sequence' \in 1 .. MaxCalls * MaxColumns + 1
         /\ calls' \in 0 .. MaxCalls
         /\ Bounds' /\ NumbersUsed' /\ GeneratedNamesDiffer'
<1>1. /\ columns' \in Seq(Columns) /\ Len(columns') = Len(columns)
      /\ DOMAIN columns' = DOMAIN columns
      /\ \A k \in DOMAIN columns :
           /\ columns'[k].name = IF k <= j THEN NameOf(k) ELSE columns[k].name
           /\ columns'[k].chosen = columns[k].chosen
  BY NamedType
<1>0. ASSUME NEW k \in DOMAIN columns
      PROVE  /\ k <= j => columns'[k].name = NameOf(k)
             /\ j < k => columns'[k].name = columns[k].name
  <2>1. k \in Nat /\ j \in Nat
    BY DEF IInv, TypeOK
  <2>2. j < k => ~(k <= j)
    BY <2>1
  <2> QED
    BY <1>1, <2>2
<1>2. /\ sequence' \in 1 .. MaxCalls * MaxColumns + 1
      /\ sequence' <= (calls + 1) * MaxColumns + 1
      /\ sequence <= sequence'
      /\ \A k \in DOMAIN columns : k <= j => SequenceAt(k) <= sequence'
  BY SequenceAtType
<1>3. calls' \in 0 .. MaxCalls
  BY DesignAssumption DEF IInv, TypeOK
<1>4. Bounds'
  BY <1>1, <1>2 DEF IInv, Bounds
<1>5. sequence \in Nat /\ DOMAIN columns \subseteq Nat /\ j \in Nat
  BY RoomForACall DEF IInv, TypeOK
<1>6. \A name : Given(name, sequence) => Given(name, sequence')
  BY <1>2, <1>5 DEF Given
<1>7. NumbersUsed'
  <2> SUFFICES ASSUME NEW k \in DOMAIN columns, columns'[k].name # NoName, ~columns[k].chosen
               PROVE  Given(columns'[k].name, sequence')
    BY <1>1 DEF NumbersUsed, FromSequence
  <2>1. CASE k <= j
    <3>1. Given(NameOf(k), SequenceAt(k))
      BY <2>1, NameOfType
    <3>2. SequenceAt(k) \in Nat /\ SequenceAt(k) <= sequence'
      BY <1>2, <2>1, SequenceAtType
    <3>3. \A m \in 1 .. SequenceAt(k) - 1 : m \in 1 .. sequence' - 1
      BY <1>2, <3>2
    <3> QED
      BY <1>0, <2>1, <3>1, <3>3 DEF Given
  <2>2. CASE j < k
    <3>1. columns'[k].name = columns[k].name
      BY <1>0, <2>2
    <3>2. Given(columns[k].name, sequence)
      BY <3>1 DEF IInv, NumbersUsed, FromSequence
    <3> QED
      BY <1>6, <3>1, <3>2
  <2> QED
    BY <1>5, <2>1, <2>2
<1>8. ASSUME NEW k \in DOMAIN columns, NEW l \in DOMAIN columns, k < l,
             ~columns[k].chosen, ~columns[l].chosen,
             columns'[k].name # NoName, columns'[l].name # NoName
      PROVE  columns'[k].name # columns'[l].name
  <2>1. CASE l <= j
    BY <1>0, <1>5, <1>8, <2>1, NewNamesDiffer
  <2>2. CASE j < k
    BY <1>0, <1>5, <1>8, <2>2 DEF IInv, GeneratedNamesDiffer, FromSequence
  <2>3. CASE k <= j /\ j < l
    <3>1. columns'[k].name = NameOf(k) /\ columns'[l].name = columns[l].name
      BY <1>0, <1>5, <2>3
    <3>2. columns[l].name # NoName /\ NameOf(l) = columns[l].name
      BY <1>8, <3>1, NameOfType
    <3> QED
      BY <1>8, <3>1, <3>2, NewNamesDiffer
  <2> QED
    BY <1>5, <2>1, <2>2, <2>3
<1>9. GeneratedNamesDiffer'
  <2> SUFFICES ASSUME NEW k \in DOMAIN columns, NEW l \in DOMAIN columns,
                      ~columns[k].chosen, ~columns[l].chosen,
                      columns'[k].name # NoName, columns'[l].name # NoName,
                      columns'[k].name = columns'[l].name
               PROVE  k = l
    BY <1>1 DEF GeneratedNamesDiffer, FromSequence
  <2>1. ~(k < l) /\ ~(l < k)
    BY <1>8
  <2> QED
    BY <1>5, <2>1
<1> QED
  BY <1>1, <1>2, <1>3, <1>4, <1>7, <1>9

\* A change of columns that generates no names keeps names and numbers in order.
LEMMA EditKeepsNames ==
  ASSUME IInv, calls < MaxCalls, calls' = calls + 1, sequence' = sequence,
         columns' \in Seq(Columns), Len(columns') <= MaxColumns,
         \A k \in DOMAIN columns' :
            \/ ~FromSequence(columns'[k])
            \/ /\ k \in DOMAIN columns /\ columns'[k].name = columns[k].name
               /\ columns'[k].chosen = columns[k].chosen
  PROVE  /\ columns' \in Seq(Columns)
         /\ sequence' \in 1 .. MaxCalls * MaxColumns + 1
         /\ calls' \in 0 .. MaxCalls
         /\ Bounds' /\ NumbersUsed' /\ GeneratedNamesDiffer'
<1>1. sequence' \in 1 .. MaxCalls * MaxColumns + 1 /\ calls' \in 0 .. MaxCalls
  BY DesignAssumption DEF IInv, TypeOK
<1>2. Bounds'
  BY RoomForACall, DesignAssumption DEF IInv, Bounds
<1>3. NumbersUsed' /\ GeneratedNamesDiffer'
  BY DEF IInv, NumbersUsed, GeneratedNamesDiffer, FromSequence
<1> QED
  BY <1>1, <1>2, <1>3

-----------------------------------------------------------------------------
\* A set of numbers up to i has a largest one.
LEMMA Largest ==
  ASSUME NEW i \in Nat, NEW S \in SUBSET (1 .. i), S # {}
  PROVE  \E k \in S : \A l \in k + 1 .. i : l \notin S
<1> DEFINE Rest == {n \in Nat : i - n \in S}
<1>1. Rest \subseteq Nat /\ Rest # {}
  <2>1. PICK k \in S : TRUE
    OBVIOUS
  <2>2. k \in 1 .. i
    OBVIOUS
  <2>3. i - k \in Nat /\ i - (i - k) = k
    BY <2>2
  <2>4. i - k \in Rest
    BY <2>3
  <2> QED
    BY <2>4
<1>2. \E x \in Rest : \A y \in Rest : ~(<<y, x>> \in OpToRel(<, Nat))
  BY <1>1, NatLessThanWellFounded, WFMin
<1>3. PICK x \in Rest : \A y \in Rest : ~(y < x)
  BY <1>1, <1>2 DEF OpToRel
<1>4. x \in Nat /\ i - x \in S /\ i - x \in 1 .. i
  BY <1>3
<1>5. ASSUME NEW l \in i - x + 1 .. i, l \in S
      PROVE  FALSE
  <2>1. i - l \in Nat /\ i - (i - l) = l /\ i - l < x
    BY <1>4
  <2>2. i - l \in Rest
    BY <1>5, <2>1
  <2> QED
    BY <1>3, <2>1, <2>2
<1> QED
  BY <1>4, <1>5

\* What merging the first columns makes of the selection.
LEMMA MergedType ==
  ASSUME selection \in Selections, NEW cols \in Seq(Columns),
         NEW j \in 0 .. Len(cols), NEW i \in 0 .. j,
         \A k \in 1 .. j : cols[k].name \in ItemNames
  PROVE  /\ Merged(cols, i, j) \in Selections
         /\ \A k \in 1 .. j : cols[k].name \in Merged(cols, i, j).summary
         /\ DistinctNames(cols) => \A k \in 1 .. i :
               Merged(cols, i, j).value[cols[k].name] = cols[k].formula.code
<1> DEFINE Last(n, k) == cols[k].name = n /\ \A l \in k + 1 .. i : cols[l].name # n
           Value(n) == IF \E k \in 1 .. i : cols[k].name = n
                         THEN cols[CHOOSE k \in 1 .. i : Last(n, k)].formula.code
                         ELSE selection.value[n]
<1>1. Merged(cols, i, j) = [summary |-> selection.summary \cup {cols[k].name : k \in 1 .. j},
                            value |-> [n \in ItemNames |-> Value(n)]]
  BY DEF Merged
<1>2. i \in Nat /\ i <= j /\ j <= Len(cols) /\ Len(cols) \in Nat
  OBVIOUS
<1>3. \A k \in 1 .. Len(cols) : cols[k] \in Columns
  OBVIOUS
<1>4. ASSUME NEW n \in ItemNames, NEW m \in 1 .. i, cols[m].name = n
      PROVE  \E k \in 1 .. i : Last(n, k)
  <2> DEFINE S == {k \in 1 .. i : cols[k].name = n}
  <2>1. S \in SUBSET (1 .. i) /\ S # {}
    BY <1>4
  <2>2. PICK k \in S : \A l \in k + 1 .. i : l \notin S
    BY <1>2, <2>1, Largest
  <2>3. ASSUME NEW l \in k + 1 .. i
        PROVE  cols[l].name # n
    <3>1. l \in 1 .. i
      BY <1>2, <2>1
    <3> QED
      BY <2>2, <3>1
  <2> QED
    BY <2>2, <2>3
<1>5. ASSUME NEW n \in ItemNames
      PROVE  Value(n) \in Codes \cup {NoCode}
  <2>1. CASE \E k \in 1 .. i : cols[k].name = n
    <3>1. (CHOOSE k \in 1 .. i : Last(n, k)) \in 1 .. i
      BY <1>4, <2>1
    <3>2. (CHOOSE k \in 1 .. i : Last(n, k)) \in 1 .. Len(cols)
      BY <1>2, <3>1
    <3> HIDE DEF Last
    <3> QED
      BY <1>3, <2>1, <3>2 DEF Columns
  <2>2. CASE ~\E k \in 1 .. i : cols[k].name = n
    BY <2>2 DEF Selections
  <2> QED
    BY <2>1, <2>2
<1>6. ASSUME DistinctNames(cols), NEW k \in 1 .. i
      PROVE  Value(cols[k].name) = cols[k].formula.code
  <2> DEFINE n == cols[k].name
             c == CHOOSE m \in 1 .. i : Last(n, m)
  <2>1. n \in ItemNames
    BY <1>2
  <2>2. c \in 1 .. i /\ Last(n, c)
    BY <1>4, <2>1
  <2>3. c = k
    BY <1>2, <1>6, <2>2 DEF DistinctNames
  <2>4. Value(n) = cols[c].formula.code
    OBVIOUS
  <2> QED
    BY <2>3, <2>4
<1> HIDE DEF Value
<1>7. Merged(cols, i, j) \in Selections
  BY <1>1, <1>5 DEF Selections
<1>8. \A k \in 1 .. j : cols[k].name \in Merged(cols, i, j).summary
  BY <1>1
<1>9. DistinctNames(cols) => \A k \in 1 .. i :
         Merged(cols, i, j).value[cols[k].name] = cols[k].formula.code
  BY <1>1, <1>2, <1>6
<1> QED
  BY <1>7, <1>8, <1>9

\* Setting items of the note keeps their types.
LEMMA SetType ==
  ASSUME IInv, NEW cols \in Seq(Columns), NEW sel \in Selections, NEW k \in Nat,
         items' = Set(cols, sel, k)
  PROVE  /\ DOMAIN items' = {"format", "collation", "formula"}
         /\ items'.format = NoItem \/ items'.format \in Seq(Columns)
         /\ items'.formula = NoItem \/ items'.formula \in Selections
BY DEF IInv, TypeOK, Set

\* What a save that has named all columns knows of them.
LEMMA AllNamedType ==
  ASSUME IInv, calls < MaxCalls, AllNamed
  PROVE  /\ columns' = Named(Len(columns), Len(columns)) /\ columns' \in Seq(Columns)
         /\ Len(columns') = Len(columns) /\ Len(columns) \in Nat
         /\ \A k \in 1 .. Len(columns) :
              columns'[k].name \in ItemNames /\ columns'[k].formula.item = columns'[k].name
<1>1. DOMAIN columns = 1 .. Len(columns) /\ Len(columns) \in Nat
  BY DEF IInv, TypeOK
<1>2. \A k \in DOMAIN columns : k <= Len(columns) /\ NameOf(k) \in ItemNames
  BY <1>1, NameOfType
<1>3. Len(columns) \in 0 .. Len(columns)
  BY <1>1
<1> QED
  BY <1>1, <1>2, <1>3, NamedType DEF AllNamed

\* What a save keeps of the note when the columns got as far as AllNamed.
LEMMA AllNamedKeepsNames ==
  ASSUME IInv, calls < MaxCalls, calls' = calls + 1, AllNamed
  PROVE  /\ columns' \in Seq(Columns)
         /\ sequence' \in 1 .. MaxCalls * MaxColumns + 1
         /\ calls' \in 0 .. MaxCalls
         /\ Bounds' /\ NumbersUsed' /\ GeneratedNamesDiffer'
<1>1. Len(columns) \in 0 .. Len(columns)
  BY DEF IInv, TypeOK
<1> QED
  BY <1>1, NamingKeepsNames DEF AllNamed

LEMMA InitIInv == Init => IInv
<1> SUFFICES ASSUME Init PROVE IInv
  OBVIOUS
<1> USE DesignAssumption DEF Init
<1>1. NewSelection \in Selections
  BY DEF NewSelection, Selections
<1>2. 0 * MaxColumns = 0 /\ MaxCalls * MaxColumns \in Nat
  OBVIOUS
<1>3. columns \in Seq(Columns) /\ Len(columns) = 0 /\ DOMAIN columns = {}
  OBVIOUS
<1>4. TypeOK
  BY <1>1, <1>2, <1>3 DEF TypeOK
<1>5. Bounds
  BY <1>2, <1>3 DEF Bounds
<1>6. NumbersUsed /\ GeneratedNamesDiffer
  BY <1>3 DEF NumbersUsed, GeneratedNamesDiffer
<1>7. StoredBelongsTogether
  BY DEF StoredBelongsTogether
<1> QED
  BY <1>4, <1>5, <1>6, <1>7 DEF IInv

\* A call that does not store the design leaves it consistent.
LEMMA StoredStays ==
  ASSUME IInv, stored' = stored
  PROVE  StoredBelongsTogether'
BY DEF IInv, StoredBelongsTogether

LEMMA NamingStopsKeeps ==
  ASSUME IInv, calls < MaxCalls, calls' = calls + 1, NEW i \in DOMAIN columns, NamingStops(i)
  PROVE  IInv'
<1>1. PICK j \in {i - 1, i} : columns' = Named(i - 1, j) /\ sequence' = SequenceAt(j)
  BY DEF NamingStops
<1>2. j \in DOMAIN columns \cup {0, Len(columns)} /\ i - 1 \in 0 .. j
  BY <1>1 DEF IInv, TypeOK
<1>3. /\ columns' \in Seq(Columns)
      /\ sequence' \in 1 .. MaxCalls * MaxColumns + 1
      /\ calls' \in 0 .. MaxCalls
      /\ Bounds' /\ NumbersUsed' /\ GeneratedNamesDiffer'
  BY <1>1, <1>2, NamingKeepsNames
<1>4. TypeOK'
  BY <1>3 DEF IInv, TypeOK, NamingStops
<1>5. StoredBelongsTogether'
  BY StoredStays DEF NamingStops
<1> QED
  BY <1>3, <1>4, <1>5 DEF IInv

LEMMA MergingStopsKeeps ==
  ASSUME IInv, calls < MaxCalls, calls' = calls + 1,
         NEW i \in 1 .. Len(columns) + 1, MergingStops(i)
  PROVE  IInv'
<1>1. AllNamed /\ UNCHANGED <<items, stored>> /\ result' = "failed"
  BY DEF MergingStops
<1>2. PICK j \in {i - 1, i} : j <= Len(columns) /\ selection' = Merged(columns', i - 1, j)
  BY DEF MergingStops
<1>3. /\ columns' \in Seq(Columns)
      /\ sequence' \in 1 .. MaxCalls * MaxColumns + 1
      /\ calls' \in 0 .. MaxCalls
      /\ Bounds' /\ NumbersUsed' /\ GeneratedNamesDiffer'
  BY <1>1, AllNamedKeepsNames
<1>4. selection' \in Selections
  <2>1. /\ Len(columns') = Len(columns) /\ Len(columns) \in Nat
        /\ \A k \in 1 .. Len(columns) : columns'[k].name \in ItemNames
    BY <1>1, AllNamedType
  <2>2. /\ j \in 0 .. Len(columns') /\ i - 1 \in 0 .. j
        /\ \A k \in 1 .. j : columns'[k].name \in ItemNames
    BY <1>2, <2>1
  <2>3. selection \in Selections
    BY DEF IInv, TypeOK
  <2> QED
    BY <1>2, <1>3, <2>2, <2>3, MergedType
<1>5. TypeOK'
  BY <1>1, <1>3, <1>4 DEF IInv, TypeOK
<1>6. StoredBelongsTogether'
  BY <1>1, StoredStays
<1> QED
  BY <1>3, <1>5, <1>6 DEF IInv

LEMMA AllMerged ==
  ASSUME IInv, calls < MaxCalls, AllNamed,
         selection' = Merged(columns', Len(columns), Len(columns))
  PROVE  /\ selection' \in Selections
         /\ \A k \in 1 .. Len(columns) : columns'[k].name \in selection'.summary
         /\ DistinctNames(columns') => \A k \in 1 .. Len(columns) :
               selection'.value[columns'[k].name] = columns'[k].formula.code
<1>1. /\ columns' \in Seq(Columns) /\ Len(columns') = Len(columns) /\ Len(columns) \in Nat
      /\ \A k \in 1 .. Len(columns) : columns'[k].name \in ItemNames
  BY AllNamedType
<1>2. selection \in Selections
  BY DEF IInv, TypeOK
<1>3. Len(columns) \in 0 .. Len(columns) /\ Len(columns) \in 0 .. Len(columns')
  BY <1>1
<1> QED
  BY <1>1, <1>2, <1>3, MergedType

LEMMA SettingStopsKeeps ==
  ASSUME IInv, calls < MaxCalls, calls' = calls + 1, NEW k \in 0 .. 3, SettingStops(k)
  PROVE  IInv'
<1>1. /\ AllNamed /\ stored' = stored /\ result' = "failed"
      /\ selection' = Merged(columns', Len(columns), Len(columns))
      /\ items' = Set(columns', selection', k)
  BY DEF SettingStops
<1>2. /\ columns' \in Seq(Columns)
      /\ sequence' \in 1 .. MaxCalls * MaxColumns + 1
      /\ calls' \in 0 .. MaxCalls
      /\ Bounds' /\ NumbersUsed' /\ GeneratedNamesDiffer'
  BY <1>1, AllNamedKeepsNames
<1>3. selection' \in Selections
  BY <1>1, AllMerged
<1>4. TypeOK'
  BY <1>1, <1>2, <1>3, SetType DEF TypeOK
<1>5. StoredBelongsTogether'
  BY <1>1, StoredStays
<1> QED
  BY <1>2, <1>4, <1>5 DEF IInv

LEMMA SaveSucceedsKeeps ==
  ASSUME IInv, calls < MaxCalls, calls' = calls + 1, SaveSucceeds
  PROVE  IInv'
<1>1. /\ AllNamed /\ stored' = items' /\ result' = "done"
      /\ selection' = Merged(columns', Len(columns), Len(columns))
      /\ items' = Set(columns', selection', 3)
  BY DEF SaveSucceeds
<1>2. /\ columns' \in Seq(Columns)
      /\ sequence' \in 1 .. MaxCalls * MaxColumns + 1
      /\ calls' \in 0 .. MaxCalls
      /\ Bounds' /\ NumbersUsed' /\ GeneratedNamesDiffer'
  BY <1>1, AllNamedKeepsNames
<1>3. selection' \in Selections
  BY <1>1, AllMerged
<1>4. TypeOK'
  BY <1>1, <1>2, <1>3, SetType DEF TypeOK
<1>5. /\ stored'.format = columns' /\ stored'.formula = selection'
      /\ stored'.collation = Collation(columns')
  BY <1>1 DEF Set
<1>6. DOMAIN columns' = 1 .. Len(columns)
  BY <1>1, AllNamedType
<1>7. \A k \in 1 .. Len(columns) :
         /\ columns'[k].formula.item = columns'[k].name
         /\ columns'[k].name \in selection'.summary
         /\ DistinctNames(columns') =>
              selection'.value[columns'[k].name] = columns'[k].formula.code
  BY <1>1, AllNamedType, AllMerged
<1>8. StoredBelongsTogether'
  BY <1>5, <1>6, <1>7 DEF StoredBelongsTogether
<1> QED
  BY <1>2, <1>4, <1>8 DEF IInv

\* Editing: each change of the columns keeps their types and generates no name.
LEMMA NewColumnType ==
  /\ NewColumn \in Columns /\ NewColumn.name = NoName
  /\ NewSelection \in Selections
BY DesignAssumption DEF NewColumn, Columns, NewSelection, Selections

LEMMA FlagsType ==
  ASSUME NEW s \in Sortings
  PROVE  Flags(s[1], s[2]) \in
            {f \in SUBSET {"sort", "descending", "categorize"} : f = {} \/ "sort" \in f}
BY DesignAssumption DEF Flags

LEMMA AddColumnKeeps ==
  ASSUME IInv, calls < MaxCalls, calls' = calls + 1, AddColumn
  PROVE  IInv'
<1>1. columns \in Seq(Columns) /\ Len(columns) < MaxColumns /\ Len(columns) \in Nat
  BY DEF IInv, TypeOK, AddColumn
<1>2. /\ columns' \in Seq(Columns) /\ Len(columns') = Len(columns) + 1
      /\ \A k \in DOMAIN columns' :
            \/ /\ k \in DOMAIN columns /\ columns'[k].name = columns[k].name
               /\ columns'[k].chosen = columns[k].chosen
            \/ columns'[k].name = NoName
  BY <1>1, NewColumnType DEF AddColumn
<1>3. /\ columns' \in Seq(Columns)
      /\ sequence' \in 1 .. MaxCalls * MaxColumns + 1
      /\ calls' \in 0 .. MaxCalls
      /\ Bounds' /\ NumbersUsed' /\ GeneratedNamesDiffer'
  <2>1. Len(columns') <= MaxColumns /\ sequence' = sequence
    BY <1>1, <1>2, DesignAssumption DEF AddColumn
  <2>2. \A k \in DOMAIN columns' :
            \/ ~FromSequence(columns'[k])
            \/ /\ k \in DOMAIN columns /\ columns'[k].name = columns[k].name
               /\ columns'[k].chosen = columns[k].chosen
    BY <1>2 DEF FromSequence
  <2> QED
    BY <1>2, <2>1, <2>2, EditKeepsNames
<1>4. TypeOK'
  BY <1>3 DEF IInv, TypeOK, AddColumn
<1>5. StoredBelongsTogether'
  BY StoredStays DEF AddColumn
<1> QED
  BY <1>3, <1>4, <1>5 DEF IInv

LEMMA ConfigureKeeps ==
  ASSUME IInv, calls < MaxCalls, calls' = calls + 1,
         NEW i \in DOMAIN columns, NEW col \in Columns,
         \/ ~FromSequence(col)
         \/ col.name = columns[i].name /\ col.chosen = columns[i].chosen,
         Configure(i, col)
  PROVE  IInv'
<1>1. columns \in Seq(Columns) /\ Len(columns) <= MaxColumns
  BY DEF IInv, TypeOK, Bounds
<1>2. /\ columns' \in Seq(Columns) /\ Len(columns') = Len(columns)
      /\ DOMAIN columns' = DOMAIN columns
      /\ \A k \in DOMAIN columns : columns'[k] = IF k = i THEN col ELSE columns[k]
  BY <1>1 DEF Configure
<1>3. /\ columns' \in Seq(Columns)
      /\ sequence' \in 1 .. MaxCalls * MaxColumns + 1
      /\ calls' \in 0 .. MaxCalls
      /\ Bounds' /\ NumbersUsed' /\ GeneratedNamesDiffer'
  <2>1. \A k \in DOMAIN columns' :
            \/ ~FromSequence(columns'[k])
            \/ /\ k \in DOMAIN columns /\ columns'[k].name = columns[k].name
               /\ columns'[k].chosen = columns[k].chosen
    BY <1>2
  <2>2. Len(columns') <= MaxColumns /\ sequence' = sequence
    BY <1>1, <1>2 DEF Configure
  <2> QED
    BY <1>2, <2>1, <2>2, EditKeepsNames
<1>4. TypeOK'
  BY <1>3 DEF IInv, TypeOK, Configure
<1>5. StoredBelongsTogether'
  BY StoredStays DEF Configure
<1> QED
  BY <1>3, <1>4, <1>5 DEF IInv

LEMMA SetItemNameKeeps ==
  ASSUME IInv, calls < MaxCalls, calls' = calls + 1,
         NEW i \in DOMAIN columns, NEW n \in CallerNames, SetItemName(i, n)
  PROVE  IInv'
<1> DEFINE col == [columns[i] EXCEPT !.name = n, !.chosen = (n # NoName)]
<1>1. columns[i] \in Columns
  BY DEF IInv, TypeOK
<1>2. n \in ItemNames \cup {NoName}
  BY DEF ItemNames
<1>3. col.name = n /\ col.chosen = (n # NoName) /\ col \in Columns
  BY <1>1, <1>2 DEF Columns
<1>4. Configure(i, col)
  BY DEF SetItemName
<1> HIDE DEF col
<1>5. ~FromSequence(col)
  BY <1>3 DEF FromSequence
<1> QED
  BY <1>3, <1>4, <1>5, ConfigureKeeps

LEMMA SetFormulaKeeps ==
  ASSUME IInv, calls < MaxCalls, calls' = calls + 1,
         NEW i \in DOMAIN columns, NEW c \in Codes, NEW item \in {NoName, OwnName},
         SetFormula(i, c, item)
  PROVE  IInv'
<1> DEFINE col == [columns[i] EXCEPT !.formula = [code |-> c, item |-> item]]
<1>1. columns[i] \in Columns
  BY DEF IInv, TypeOK
<1>2. col \in Columns /\ col.name = columns[i].name /\ col.chosen = columns[i].chosen
  BY <1>1 DEF Columns
<1>3. Configure(i, col)
  BY DEF SetFormula
<1> HIDE DEF col
<1> QED
  BY <1>2, <1>3, ConfigureKeeps

LEMMA SetSortingKeeps ==
  ASSUME IInv, calls < MaxCalls, calls' = calls + 1,
         NEW i \in DOMAIN columns, NEW s \in Sortings, SetSorting(i, s)
  PROVE  IInv'
<1> DEFINE flags == Flags(s[1], s[2])
           col == [columns[i] EXCEPT !.flags = flags]
<1>1. columns[i] \in Columns
  BY DEF IInv, TypeOK
<1>2. flags \in {f \in SUBSET {"sort", "descending", "categorize"} : f = {} \/ "sort" \in f}
  BY FlagsType
<1>3. Configure(i, col)
  BY DEF SetSorting
<1> HIDE DEF flags
<1>4. col \in Columns /\ col.name = columns[i].name /\ col.chosen = columns[i].chosen
  BY <1>1, <1>2 DEF Columns
<1> HIDE DEF col
<1> QED
  BY <1>3, <1>4, ConfigureKeeps

LEMMA SetSelectionFormulaKeeps ==
  ASSUME IInv, calls < MaxCalls, calls' = calls + 1, SetSelectionFormula
  PROVE  IInv'
<1>1. /\ columns' \in Seq(Columns)
      /\ sequence' \in 1 .. MaxCalls * MaxColumns + 1
      /\ calls' \in 0 .. MaxCalls
      /\ Bounds' /\ NumbersUsed' /\ GeneratedNamesDiffer'
  <2>1. columns' = columns /\ sequence' = sequence
    BY DEF SetSelectionFormula
  <2>2. columns' \in Seq(Columns) /\ Len(columns') <= MaxColumns
    BY <2>1 DEF IInv, TypeOK, Bounds
  <2> QED
    BY <2>1, <2>2, EditKeepsNames
<1>2. TypeOK'
  BY <1>1, NewColumnType DEF IInv, TypeOK, SetSelectionFormula
<1>3. StoredBelongsTogether'
  BY StoredStays DEF SetSelectionFormula
<1> QED
  BY <1>1, <1>2, <1>3 DEF IInv

LEMMA NextIInv == IInv /\ [Next]_vars => IInv'
<1> SUFFICES ASSUME IInv, [Next]_vars PROVE IInv'
  OBVIOUS
<1>1. CASE UNCHANGED vars
  <2>1. TypeOK' /\ Bounds' /\ NumbersUsed' /\ GeneratedNamesDiffer'
    BY <1>1 DEF IInv, TypeOK, Bounds, NumbersUsed, GeneratedNamesDiffer, FromSequence, vars
  <2>2. StoredBelongsTogether'
    BY <1>1, StoredStays DEF vars
  <2> QED
    BY <2>1, <2>2 DEF IInv
<1>2. CASE Next
  <2>1. calls < MaxCalls /\ calls' = calls + 1 /\ (Save \/ Edit)
    BY <1>2 DEF Next
  <2>2. ASSUME NEW i \in DOMAIN columns, NamingStops(i) PROVE IInv'
    BY <2>1, <2>2, NamingStopsKeeps
  <2>3. ASSUME NEW i \in 1 .. Len(columns) + 1, MergingStops(i) PROVE IInv'
    BY <2>1, <2>3, MergingStopsKeeps
  <2>4. ASSUME NEW k \in 0 .. 3, SettingStops(k) PROVE IInv'
    BY <2>1, <2>4, SettingStopsKeeps
  <2>5. CASE SaveSucceeds
    BY <2>1, <2>5, SaveSucceedsKeeps
  <2>6. CASE AddColumn
    BY <2>1, <2>6, AddColumnKeeps
  <2>7. ASSUME NEW i \in DOMAIN columns, NEW n \in CallerNames, SetItemName(i, n) PROVE IInv'
    BY <2>1, <2>7, SetItemNameKeeps
  <2>8. ASSUME NEW i \in DOMAIN columns, NEW c \in Codes, NEW item \in {NoName, OwnName},
               SetFormula(i, c, item)
        PROVE  IInv'
    BY <2>1, <2>8, SetFormulaKeeps
  <2>9. ASSUME NEW i \in DOMAIN columns, NEW s \in Sortings, SetSorting(i, s) PROVE IInv'
    BY <2>1, <2>9, SetSortingKeeps
  <2>10. CASE SetSelectionFormula
    BY <2>1, <2>10, SetSelectionFormulaKeeps
  <2> QED
    BY <2>1, <2>2, <2>3, <2>4, <2>5, <2>6, <2>7, <2>8, <2>9, <2>10 DEF Save, Edit
<1> QED
  BY <1>1, <1>2

LEMMA Inductive == Spec => []IInv
BY InitIInv, NextIInv, PTL DEF Spec

-----------------------------------------------------------------------------
\* The types hold for every number of columns, calls, codes and names: in particular
\* there are enough numbers for the names of columns, and a categorized column is
\* always sorted (design/column.cpp).
THEOREM TypeCorrect == Spec => []TypeOK
<1>1. IInv => TypeOK
  BY DEF IInv
<1> QED
  BY <1>1, Inductive, PTL

\* No two columns have the same generated name, whatever saves failed before
\* (view::build_view_format(), design/view.cpp).
THEOREM GeneratedNamesStayApart == Spec => []GeneratedNamesDiffer
<1>1. IInv => GeneratedNamesDiffer
  BY DEF IInv
<1> QED
  BY <1>1, Inductive, PTL

\* A design in the database is consistent: format, collation and selection formula
\* speak of the same items (view::save(), design/view.cpp).
THEOREM StoredIsConsistent == Spec => []StoredBelongsTogether
<1>1. IInv => StoredBelongsTogether
  BY DEF IInv
<1> QED
  BY <1>1, Inductive, PTL

\* The columns of a stored design have names, and no two of them the same generated one.
StoredNames ==
    stored # NoDesign =>
        \A i, j \in DOMAIN stored.format :
            /\ stored.format[i].name \in ItemNames
            /\ ~stored.format[i].chosen /\ ~stored.format[j].chosen
                   /\ stored.format[i].name = stored.format[j].name => i = j

LEMMA StoredNamesStep ==
  ASSUME IInv, StoredNames, [Next]_vars
  PROVE  StoredNames'
<1>1. CASE stored' = stored
  BY <1>1 DEF StoredNames
<1>2. CASE stored' # stored
  <2>1. calls < MaxCalls /\ calls' = calls + 1 /\ SaveSucceeds
    BY <1>2 DEF Next, Save, Edit, NamingStops, MergingStops, SettingStops, AddColumn, Configure,
                SetItemName, SetFormula, SetSorting, SetSelectionFormula, vars
  <2>2. stored'.format = columns' /\ AllNamed
    BY <2>1 DEF SaveSucceeds, Set
  <2>3. GeneratedNamesDiffer'
    BY <2>1, <2>2, AllNamedKeepsNames
  <2>4. /\ DOMAIN columns' = 1 .. Len(columns)
        /\ \A k \in 1 .. Len(columns) : columns'[k].name \in ItemNames
    BY <2>1, <2>2, AllNamedType
  <2>5. \A k \in DOMAIN columns' : columns'[k].name # NoName
    BY <2>4, NameParts
  <2> QED
    BY <2>2, <2>3, <2>4, <2>5 DEF StoredNames, GeneratedNamesDiffer, FromSequence
<1> QED
  BY <1>1, <1>2

\* No name that a caller chose for a column is the name of another column as well, be
\* that one chosen or generated.
ChosenNamesAreUnique(cols) ==
    \A i, j \in DOMAIN cols : cols[i].chosen /\ cols[i].name = cols[j].name => i = j

\* What a stored view computes is only in the hands of the caller, who must not choose
\* the same name twice nor one like "$1" that the view may generate: view::save() does
\* not compare the names it generates with those.  If he keeps to this, all columns have
\* items of their own, and the selection formula computes each with the formula of its
\* column.
OnlyCallersClash ==
    stored # NoDesign /\ ChosenNamesAreUnique(stored.format) =>
        /\ DistinctNames(stored.format)
        /\ \A i \in DOMAIN stored.format :
              stored.formula.value[stored.format[i].name] = stored.format[i].formula.code

\* Generated names are never given again, whatever saves have failed, and a formula is
\* merged for each column, so that no column shows the values of another unless a name
\* its caller chose is that of another column (view::save(), design/view.cpp).
THEOREM ColumnsShowTheirFormulas == Spec => []OnlyCallersClash
<1>1. ASSUME StoredBelongsTogether, StoredNames
      PROVE  OnlyCallersClash
  <2> SUFFICES ASSUME stored # NoDesign, ChosenNamesAreUnique(stored.format)
               PROVE  /\ DistinctNames(stored.format)
                      /\ \A i \in DOMAIN stored.format :
                            stored.formula.value[stored.format[i].name]
                              = stored.format[i].formula.code
    BY DEF OnlyCallersClash
  <2>1. DistinctNames(stored.format)
    BY <1>1 DEF StoredNames, ChosenNamesAreUnique, DistinctNames
  <2> QED
    BY <1>1, <2>1 DEF StoredBelongsTogether
<1>2. Init => StoredNames
  BY DEF Init, StoredNames
<1>3. IInv => StoredBelongsTogether
  BY DEF IInv
<1> QED
  BY <1>1, <1>2, <1>3, StoredNamesStep, Inductive, PTL DEF Spec
=============================================================================
