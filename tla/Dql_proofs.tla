----------------------------- MODULE Dql_proofs -----------------------------
(***************************************************************************)
(* The rendered text of an expression means what the expression means, for *)
(* any depth of nesting and any terms that can be written; and why the     *)
(* others cannot.                                                          *)
(***************************************************************************)
EXTENDS Dql, FiniteSetTheorems, SequenceTheorems, WellFoundedInduction, TLAPS

-----------------------------------------------------------------------------
(* Induction and recursion over the natural numbers, stated with sets: the *)
(* well-foundedness of the library needs no operator as a parameter.       *)

LEMMA Least ==
    ASSUME NEW T \in SUBSET Nat, T # {}
    PROVE  \E x \in T : \A y \in T : ~ (y < x)
<1> DEFINE R == OpToRel(<, Nat)
<1>1. IsWellFoundedOn(R, Nat)
  BY NatLessThanWellFounded
<1>2. \A x, y \in Nat : x < y => <<x, y>> \in R
  BY DEF OpToRel
<1> HIDE DEF R
<1>3. PICK x \in T : \A y \in T : ~ (<<y, x>> \in R)
  BY <1>1, WFMin
<1>4. \A y \in T : ~ (y < x)
  BY <1>2, <1>3
<1> QED
  BY <1>4

LEMMA Induction ==
    ASSUME NEW S, 0 \in S, \A n \in Nat : n \in S => n + 1 \in S
    PROVE  Nat \subseteq S
<1> DEFINE T == {n \in Nat : n \notin S}
<1> SUFFICES ASSUME T # {} PROVE FALSE
  OBVIOUS
<1>1. PICK x \in T : \A y \in T : ~ (y < x)
  BY Least
<1>2. x # 0 /\ x \in Nat
  OBVIOUS
<1>3. x - 1 \in Nat /\ x - 1 < x /\ (x - 1) + 1 = x
  BY <1>2
<1>4. x - 1 \in S
  BY <1>1, <1>3
<1> QED
  BY <1>3, <1>4

\* The first values of a function that is defined by recursion.
Begins(g, n, base, step) ==
    g[0] = base /\ \A k \in 0 .. n - 1 : g[k + 1] = step[<<k, g[k]>>]

Recursive(f, base, step) == f[0] = base /\ \A n \in Nat : f[n + 1] = step[<<n, f[n]>>]

LEMMA Recursion ==
    ASSUME NEW D, NEW base \in D, NEW step \in [Nat \X D -> D]
    PROVE  \E f \in [Nat -> D] : Recursive(f, base, step)
<1> DEFINE Part(n) == {g \in [0 .. n -> D] : Begins(g, n, base, step)}
           S == {n \in Nat : Part(n) # {}}
           G(n) == CHOOSE g : g \in Part(n)
<1>1. Nat \subseteq S
  <2>1. 0 \in S
    <3>1. [k \in 0 .. 0 |-> base] \in Part(0)
      BY DEF Begins
    <3>2. QED
      BY <3>1
  <2>2. ASSUME NEW n \in Nat, n \in S PROVE n + 1 \in S
    <3>1. PICK g \in [0 .. n -> D] : Begins(g, n, base, step)
      BY <2>2
    <3> DEFINE h == [k \in 0 .. n + 1 |-> IF k = n + 1 THEN step[<<n, g[n]>>] ELSE g[k]]
    <3>2. g[n] \in D /\ step[<<n, g[n]>>] \in D
      BY <3>1
    <3>3. h \in [0 .. n + 1 -> D]
      BY <3>1, <3>2
    <3>4. h[0] = base
      BY <3>1 DEF Begins
    <3>5. \A k \in 0 .. n : h[k] = g[k]
      OBVIOUS
    <3>6. h[n + 1] = step[<<n, g[n]>>]
      OBVIOUS
    <3> HIDE DEF h
    <3>7. ASSUME NEW k \in 0 .. (n + 1) - 1 PROVE h[k + 1] = step[<<k, h[k]>>]
      <4>1. CASE k = n
        BY <4>1, <3>5, <3>6
      <4>2. CASE k # n
        <5>1. k \in 0 .. n - 1 /\ k + 1 \in 0 .. n /\ k \in 0 .. n
          BY <4>2
        <5>2. QED
          BY <5>1, <3>1, <3>5 DEF Begins
      <4>3. QED
        BY <4>1, <4>2
    <3>8. Begins(h, n + 1, base, step)
      BY <3>4, <3>7 DEF Begins
    <3>9. h \in Part(n + 1)
      BY <3>3, <3>8
    <3>10. QED
      BY <3>9
  <2> HIDE DEF S
  <2>3. QED
    BY <2>1, <2>2, Induction
<1>2. \A n \in Nat : G(n) \in [0 .. n -> D] /\ Begins(G(n), n, base, step)
  BY <1>1
<1> HIDE DEF S, G
<1>3. \A k \in Nat : \A n, m \in Nat : k <= n /\ k <= m => G(n)[k] = G(m)[k]
  <2> DEFINE U == {k \in Nat : \A n, m \in Nat : k <= n /\ k <= m => G(n)[k] = G(m)[k]}
  <2>1. 0 \in U
    BY <1>2 DEF Begins
  <2>2. ASSUME NEW k \in Nat, k \in U PROVE k + 1 \in U
    <3> SUFFICES ASSUME NEW n \in Nat, NEW m \in Nat, k + 1 <= n, k + 1 <= m
                 PROVE  G(n)[k + 1] = G(m)[k + 1]
      OBVIOUS
    <3>1. k \in 0 .. n - 1 /\ k \in 0 .. m - 1 /\ k <= n /\ k <= m
      OBVIOUS
    <3>2. G(n)[k] = G(m)[k]
      BY <2>2, <3>1
    <3>3. G(n)[k + 1] = step[<<k, G(n)[k]>>] /\ G(m)[k + 1] = step[<<k, G(m)[k]>>]
      BY <1>2, <3>1 DEF Begins
    <3>4. QED
      BY <3>2, <3>3
  <2> HIDE DEF U
  <2>3. Nat \subseteq U
    BY <2>1, <2>2, Induction
  <2>4. QED
    BY <2>3 DEF U
<1> DEFINE f == [n \in Nat |-> G(n)[n]]
<1>4. f \in [Nat -> D]
  BY <1>2
<1>5. f[0] = base
  BY <1>2 DEF Begins
<1>6. ASSUME NEW n \in Nat PROVE f[n + 1] = step[<<n, f[n]>>]
  <2>1. n + 1 \in Nat /\ n \in 0 .. (n + 1) - 1 /\ n <= n + 1 /\ n <= n
    OBVIOUS
  <2>2. G(n + 1)[n + 1] = step[<<n, G(n + 1)[n]>>]
    BY <1>2, <2>1 DEF Begins
  <2>3. G(n + 1)[n] = G(n)[n]
    BY <1>3, <2>1
  <2>4. QED
    BY <2>1, <2>2, <2>3
<1>7. QED
  BY <1>4, <1>5, <1>6 DEF Recursive

-----------------------------------------------------------------------------
(* Counting the members of a set of positions.                             *)

Upto(P, i) == Cardinality({j \in 1 .. i : j \in P})

LEMMA UptoStep ==
    ASSUME NEW P
    PROVE  /\ Upto(P, 0) = 0
           /\ \A i \in Nat : Upto(P, i) \in Nat
           /\ \A i \in Nat : Upto(P, i + 1) = Upto(P, i) + (IF i + 1 \in P THEN 1 ELSE 0)
<1> DEFINE Q(i) == {j \in 1 .. i : j \in P}
<1>1. ASSUME NEW i \in Nat PROVE IsFiniteSet(Q(i)) /\ Cardinality(Q(i)) \in Nat
  <2>1. IsFiniteSet(1 .. i)
    BY FS_Interval
  <2>2. Q(i) \in SUBSET (1 .. i)
    OBVIOUS
  <2> HIDE DEF Q
  <2>3. QED
    BY <2>1, <2>2, FS_Subset, FS_CardinalityType
<1>2. Q(0) = {}
  OBVIOUS
<1>3. ASSUME NEW i \in Nat
      PROVE  Cardinality(Q(i + 1)) = Cardinality(Q(i)) + (IF i + 1 \in P THEN 1 ELSE 0)
  <2>1. CASE i + 1 \in P
    <3>1. Q(i + 1) = Q(i) \cup {i + 1} /\ i + 1 \notin Q(i)
      BY <2>1
    <3> HIDE DEF Q
    <3>2. QED
      BY <2>1, <3>1, <1>1, FS_AddElement
  <2>2. CASE i + 1 \notin P
    <3>1. Q(i + 1) = Q(i)
      BY <2>2
    <3>2. QED
      BY <2>2, <3>1, <1>1
  <2>3. QED
    BY <2>1, <2>2
<1>4. QED
  BY <1>1, <1>2, <1>3, FS_EmptySet DEF Upto

LEMMA UptoSame ==
    ASSUME NEW P, NEW Q, NEW n \in Nat, \A j \in 1 .. n : j \in P <=> j \in Q
    PROVE  Upto(P, n) = Upto(Q, n)
<1>1. {j \in 1 .. n : j \in P} = {j \in 1 .. n : j \in Q}
  OBVIOUS
<1>2. QED
  BY <1>1 DEF Upto

\* Behind the first m positions P looks as Q does from the start.
Shifted(P, m, Q, n) == \A j \in 1 .. n : m + j \in P <=> j \in Q

LEMMA UptoShift ==
    ASSUME NEW P, NEW Q, NEW m \in Nat, NEW n \in Nat, Shifted(P, m, Q, n)
    PROVE  \A i \in 0 .. n : Upto(P, m + i) = Upto(P, m) + Upto(Q, i)
<1> DEFINE S == {i \in Nat : i <= n => Upto(P, m + i) = Upto(P, m) + Upto(Q, i)}
<1>1. 0 \in S
  <2>1. Upto(P, m) \in Nat
    BY UptoStep
  <2>2. Upto(Q, 0) = 0
    BY UptoStep
  <2>3. m + 0 = m
    OBVIOUS
  <2>4. QED
    BY <2>1, <2>2, <2>3
<1>2. ASSUME NEW i \in Nat, i \in S PROVE i + 1 \in S
  <2> SUFFICES ASSUME i + 1 <= n
               PROVE  Upto(P, m + (i + 1)) = Upto(P, m) + Upto(Q, i + 1)
    OBVIOUS
  <2>1. Upto(P, m + i) = Upto(P, m) + Upto(Q, i)
    BY <1>2
  <2>2. i + 1 \in 1 .. n /\ m + (i + 1) = (m + i) + 1 /\ m + i \in Nat
    OBVIOUS
  <2>3. m + (i + 1) \in P <=> i + 1 \in Q
    BY <2>2 DEF Shifted
  <2>4. Upto(P, (m + i) + 1) = Upto(P, m + i) + (IF (m + i) + 1 \in P THEN 1 ELSE 0)
    BY <2>2, UptoStep
  <2>5. Upto(Q, i + 1) = Upto(Q, i) + (IF i + 1 \in Q THEN 1 ELSE 0)
    BY UptoStep
  <2>6. Upto(P, m) \in Nat /\ Upto(Q, i) \in Nat
    BY UptoStep
  <2>7. QED
    BY <2>1, <2>2, <2>3, <2>4, <2>5, <2>6
<1> HIDE DEF S
<1>3. Nat \subseteq S
  BY <1>1, <1>2, Induction
<1>4. QED
  BY <1>3 DEF S

-----------------------------------------------------------------------------
(* Where a reader of a text is after its first words.                      *)

QuotePlaces(s) == {j \in Nat : s[j] = "'"}
Places(s, p) == {j \in Nat : Outside(s, j) /\ s[j] = p}

LEMMA QuotesUpto ==
    ASSUME NEW s, NEW i \in Nat
    PROVE  Quotes(s, i) = Upto(QuotePlaces(s), i)
<1>1. {j \in 1 .. i : s[j] = "'"} = {j \in 1 .. i : j \in QuotePlaces(s)}
  BY DEF QuotePlaces
<1>2. QED
  BY <1>1 DEF Quotes, Upto

LEMMA CountUpto ==
    ASSUME NEW s, NEW i \in Nat, NEW p
    PROVE  Count(s, i, p) = Upto(Places(s, p), i)
<1>1. {j \in 1 .. i : Outside(s, j) /\ s[j] = p} = {j \in 1 .. i : j \in Places(s, p)}
  BY DEF Places
<1>2. QED
  BY <1>1 DEF Count, Upto

LEMMA Scan ==
    ASSUME NEW s
    PROVE  /\ Quotes(s, 0) = 0
           /\ \A p : Count(s, 0, p) = 0
           /\ \A i \in Nat : Quotes(s, i) \in Nat
           /\ \A i \in Nat : \A p : Count(s, i, p) \in Nat
           /\ \A i \in Nat : Quotes(s, i + 1) = Quotes(s, i) + (IF s[i + 1] = "'" THEN 1 ELSE 0)
           /\ \A i \in Nat : \A p : Count(s, i + 1, p)
                = Count(s, i, p) + (IF Outside(s, i + 1) /\ s[i + 1] = p THEN 1 ELSE 0)
<1>1. \A i \in Nat : Quotes(s, i) = Upto(QuotePlaces(s), i)
  BY QuotesUpto
<1>2. \A i \in Nat : \A p : Count(s, i, p) = Upto(Places(s, p), i)
  BY CountUpto
<1>3. \A i \in Nat : i + 1 \in QuotePlaces(s) <=> s[i + 1] = "'"
  BY DEF QuotePlaces
<1>4. \A i \in Nat : \A p : i + 1 \in Places(s, p) <=> Outside(s, i + 1) /\ s[i + 1] = p
  BY DEF Places
<1>5. \A i \in Nat : Quotes(s, i + 1) = Quotes(s, i) + (IF s[i + 1] = "'" THEN 1 ELSE 0)
  BY <1>1, <1>3, UptoStep
<1>6. ASSUME NEW i \in Nat, NEW p
      PROVE  Count(s, i + 1, p)
                = Count(s, i, p) + (IF Outside(s, i + 1) /\ s[i + 1] = p THEN 1 ELSE 0)
  BY <1>2, <1>4, UptoStep
<1>7. QED
  BY <1>1, <1>2, <1>5, <1>6, UptoStep

LEMMA Parity ==
    ASSUME NEW x \in Nat, NEW y \in Nat, x % 2 = 0
    PROVE  (x + y) % 2 = y % 2
OBVIOUS

\* What follows a text does not change how it is read.
LEMMA ScanFirst ==
    ASSUME NEW a \in Seq(Word), NEW b \in Seq(Word), NEW i \in 0 .. Len(a)
    PROVE  /\ Quotes(a \o b, i) = Quotes(a, i)
           /\ i > 0 => (a \o b)[i] = a[i] /\ (Outside(a \o b, i) <=> Outside(a, i))
           /\ \A p : Count(a \o b, i, p) = Count(a, i, p)
<1>1. \A j \in 1 .. Len(a) : (a \o b)[j] = a[j]
  BY ConcatProperties
<1>2. ASSUME NEW j \in 0 .. Len(a) PROVE Quotes(a \o b, j) = Quotes(a, j)
  <2>1. \A k \in 1 .. j : k \in QuotePlaces(a \o b) <=> k \in QuotePlaces(a)
    BY <1>1 DEF QuotePlaces
  <2>2. Upto(QuotePlaces(a \o b), j) = Upto(QuotePlaces(a), j)
    BY <2>1, UptoSame
  <2>3. QED
    BY <2>2, QuotesUpto
<1>3. \A j \in 1 .. Len(a) : Outside(a \o b, j) <=> Outside(a, j)
  BY <1>1, <1>2 DEF Outside
<1>4. ASSUME NEW p PROVE Count(a \o b, i, p) = Count(a, i, p)
  <2>1. \A j \in 1 .. i : j \in Places(a \o b, p) <=> j \in Places(a, p)
    BY <1>1, <1>3 DEF Places
  <2>2. QED
    BY <2>1, CountUpto, UptoSame
<1>5. QED
  BY <1>1, <1>2, <1>3, <1>4

\* A text that leaves no string open does not change how the next one is read.
LEMMA ScanNext ==
    ASSUME NEW a \in Seq(Word), NEW b \in Seq(Word), Quotes(a, Len(a)) % 2 = 0,
           NEW i \in 0 .. Len(b)
    PROVE  /\ Quotes(a \o b, Len(a) + i) = Quotes(a, Len(a)) + Quotes(b, i)
           /\ i > 0 => /\ (a \o b)[Len(a) + i] = b[i]
                       /\ Outside(a \o b, Len(a) + i) <=> Outside(b, i)
           /\ \A p : Count(a \o b, Len(a) + i, p) = Count(a, Len(a), p) + Count(b, i, p)
<1> DEFINE m == Len(a)
           n == Len(b)
<1>0. m \in Nat /\ n \in Nat
  OBVIOUS
<1>1. \A j \in 1 .. n : (a \o b)[m + j] = b[j]
  BY ConcatProperties
<1>2. ASSUME NEW j \in 0 .. n PROVE Quotes(a \o b, m + j) = Quotes(a, m) + Quotes(b, j)
  <2>1. Shifted(QuotePlaces(a \o b), m, QuotePlaces(b), n)
    BY <1>0, <1>1 DEF QuotePlaces, Shifted
  <2>2. Upto(QuotePlaces(a \o b), m + j)
          = Upto(QuotePlaces(a \o b), m) + Upto(QuotePlaces(b), j)
    BY <1>0, <2>1, UptoShift
  <2>3. Quotes(a \o b, m) = Quotes(a, m)
    BY <1>0, ScanFirst
  <2>4. QED
    BY <1>0, <2>2, <2>3, QuotesUpto
<1>3. ASSUME NEW j \in 1 .. n PROVE Outside(a \o b, m + j) <=> Outside(b, j)
  <2>1. Quotes(a, m) \in Nat /\ Quotes(b, j) \in Nat
    BY <1>0, Scan
  <2>2. (Quotes(a, m) + Quotes(b, j)) % 2 = Quotes(b, j) % 2
    BY <2>1, Parity
  <2>3. Quotes(a \o b, m + j) = Quotes(a, m) + Quotes(b, j)
    BY <1>2
  <2>4. QED
    BY <1>1, <2>2, <2>3 DEF Outside
<1>4. ASSUME NEW p PROVE Count(a \o b, m + i, p) = Count(a, m, p) + Count(b, i, p)
  <2>1. Shifted(Places(a \o b, p), m, Places(b, p), n)
    BY <1>0, <1>1, <1>3 DEF Places, Shifted
  <2>2. Upto(Places(a \o b, p), m + i) = Upto(Places(a \o b, p), m) + Upto(Places(b, p), i)
    BY <1>0, <2>1, UptoShift
  <2>3. Count(a \o b, m, p) = Count(a, m, p)
    BY <1>0, ScanFirst
  <2>4. QED
    BY <1>0, <2>2, <2>3, CountUpto
<1>5. QED
  BY <1>1, <1>2, <1>3, <1>4

-----------------------------------------------------------------------------
(* A neat text closes every string and every parenthesis that it opens, so *)
(* that it is read the same wherever it stands.                            *)

Neat(s) ==
    /\ s \in Seq(Word) /\ s # <<>>
    /\ Quotes(s, Len(s)) % 2 = 0
    /\ Count(s, Len(s), "(") = Count(s, Len(s), ")")
    /\ \A i \in 0 .. Len(s) : Count(s, i, ")") <= Count(s, i, "(")

LEMMA NeatConcat ==
    ASSUME NEW a, NEW b, Neat(a), Neat(b)
    PROVE  /\ Neat(a \o b)
           /\ Len(a \o b) = Len(a) + Len(b)
           /\ \A w : \A i \in 1 .. Len(a) : i \in At(a \o b, w) <=> i \in At(a, w)
           /\ \A w : \A i \in 1 .. Len(b) : Len(a) + i \in At(a \o b, w) <=> i \in At(b, w)
<1> DEFINE c == a \o b
           m == Len(a)
           n == Len(b)
<1>0. /\ a \in Seq(Word) /\ b \in Seq(Word) /\ c \in Seq(Word) /\ m \in Nat /\ n \in Nat
      /\ m > 0 /\ n > 0 /\ Len(c) = m + n /\ c # <<>>
      /\ DOMAIN a = 1 .. m /\ DOMAIN b = 1 .. n /\ DOMAIN c = 1 .. m + n
  BY ConcatProperties DEF Neat
<1>1. ASSUME NEW i \in 0 .. m
      PROVE  /\ Quotes(c, i) = Quotes(a, i)
             /\ i > 0 => c[i] = a[i] /\ (Outside(c, i) <=> Outside(a, i))
             /\ \A p : Count(c, i, p) = Count(a, i, p)
  BY <1>0, ScanFirst
<1>2. ASSUME NEW i \in 0 .. n
      PROVE  /\ Quotes(c, m + i) = Quotes(a, m) + Quotes(b, i)
             /\ i > 0 => c[m + i] = b[i] /\ (Outside(c, m + i) <=> Outside(b, i))
             /\ \A p : Count(c, m + i, p) = Count(a, m, p) + Count(b, i, p)
  <2>1. Quotes(a, Len(a)) % 2 = 0
    BY DEF Neat
  <2>2. QED
    BY <1>0, <2>1, ScanNext
<1> HIDE DEF c, m, n
<1>3. Quotes(c, m + n) % 2 = 0
  <2>1. Quotes(a, m) \in Nat /\ Quotes(b, n) \in Nat
    BY <1>0, Scan
  <2>2. Quotes(c, m + n) = Quotes(a, m) + Quotes(b, n)
    BY <1>0, <1>2
  <2>3. Quotes(a, m) % 2 = 0 /\ Quotes(b, n) % 2 = 0
    BY DEF Neat, m, n
  <2>4. QED
    BY <2>1, <2>2, <2>3, Parity
<1>4. \A s, p : \A i \in Nat : Count(s, i, p) \in Nat
  BY Scan
<1>5. /\ Count(a, m, "(") = Count(a, m, ")") /\ Count(b, n, "(") = Count(b, n, ")")
      /\ \A i \in 0 .. m : Count(a, i, ")") <= Count(a, i, "(")
      /\ \A i \in 0 .. n : Count(b, i, ")") <= Count(b, i, "(")
  BY DEF Neat, m, n
<1>6. Count(c, m + n, "(") = Count(c, m + n, ")")
  <2>1. n \in 0 .. n
    BY <1>0
  <2>2. QED
    BY <1>2, <1>5, <2>1
<1>7. ASSUME NEW i \in 0 .. m + n PROVE Count(c, i, ")") <= Count(c, i, "(")
  <2>1. CASE i \in 0 .. m
    BY <2>1, <1>1, <1>5
  <2>2. CASE i \notin 0 .. m
    <3>1. i - m \in 0 .. n /\ m + (i - m) = i
      BY <1>0, <2>2
    <3>2. \A p : Count(c, i, p) = Count(a, m, p) + Count(b, i - m, p)
      BY <1>2, <3>1
    <3>3. /\ Count(a, m, "(") \in Nat /\ Count(b, i - m, "(") \in Nat
          /\ Count(a, m, ")") \in Nat /\ Count(b, i - m, ")") \in Nat
      BY <1>0, <1>4, <3>1
    <3>4. Count(b, i - m, ")") <= Count(b, i - m, "(")
      BY <1>5, <3>1
    <3>5. QED
      BY <1>5, <3>2, <3>3, <3>4
  <2>3. QED
    BY <2>1, <2>2
<1>8. Neat(c)
  BY <1>0, <1>3, <1>6, <1>7 DEF Neat
<1>9. ASSUME NEW w, NEW i \in 1 .. m PROVE i \in At(c, w) <=> i \in At(a, w)
  <2>1. i \in 0 .. m /\ i > 0 /\ i \in 1 .. m + n
    BY <1>0
  <2>2. QED
    BY <1>0, <1>1, <2>1 DEF At
<1>10. ASSUME NEW w, NEW i \in 1 .. n PROVE m + i \in At(c, w) <=> i \in At(b, w)
  <2>1. i \in 0 .. n /\ i > 0 /\ m + i \in 1 .. m + n
    BY <1>0
  <2>2. /\ Count(b, i, "(") \in Nat /\ Count(b, i, ")") \in Nat
        /\ Count(a, m, "(") \in Nat
    BY <1>0, <1>4, <2>1
  <2>3. (Count(c, m + i, "(") = Count(c, m + i, ")")) <=> (Count(b, i, "(") = Count(b, i, ")"))
    BY <1>2, <1>5, <2>1, <2>2
  <2>4. QED
    BY <1>0, <1>2, <2>1, <2>3 DEF At
<1>11. QED
  BY <1>0, <1>8, <1>9, <1>10 DEF c, m, n

\* Nothing of a string or in parentheses is in the way of the words around it.
Plain(s) == Neat(s) /\ At(s, "and") = {} /\ At(s, "or") = {}

LEMMA PlainConcat ==
    ASSUME NEW a, NEW b, Plain(a), Plain(b)
    PROVE  Plain(a \o b)
<1>1. Neat(a) /\ Neat(b)
  BY DEF Plain
<1>2. /\ Neat(a \o b) /\ Len(a \o b) = Len(a) + Len(b)
      /\ \A w : \A i \in 1 .. Len(a) : i \in At(a \o b, w) <=> i \in At(a, w)
      /\ \A w : \A i \in 1 .. Len(b) : Len(a) + i \in At(a \o b, w) <=> i \in At(b, w)
  BY <1>1, NeatConcat
<1>3. Len(a) \in Nat /\ Len(b) \in Nat /\ DOMAIN (a \o b) = 1 .. Len(a) + Len(b)
  BY <1>1, <1>2, LenProperties DEF Neat
<1>4. ASSUME NEW w, At(a, w) = {}, At(b, w) = {} PROVE At(a \o b, w) = {}
  <2> SUFFICES ASSUME NEW i \in At(a \o b, w) PROVE FALSE
    OBVIOUS
  <2>1. i \in 1 .. Len(a) + Len(b)
    BY <1>3 DEF At
  <2>2. CASE i \in 1 .. Len(a)
    BY <2>2, <1>2, <1>4
  <2>3. CASE i \notin 1 .. Len(a)
    <3>1. i - Len(a) \in 1 .. Len(b) /\ Len(a) + (i - Len(a)) = i
      BY <1>3, <2>1, <2>3
    <3>2. Len(a) + (i - Len(a)) \in At(a \o b, w)
      BY <3>1
    <3>3. i - Len(a) \in At(b, w)
      BY <1>2, <3>1, <3>2
    <3>4. QED
      BY <1>4, <3>3
  <2>4. QED
    BY <2>2, <2>3
<1>5. QED
  BY <1>2, <1>4 DEF Plain

LEMMA Assoc == \A a, b, c \in Seq(Word) : (a \o b) \o c = a \o (b \o c)
BY ConcatAssociative

LEMMA WordSeq ==
    ASSUME NEW S, NEW w \in S
    PROVE  <<w>> \in Seq(S) /\ Len(<<w>>) = 1 /\ <<w>>[1] = w /\ <<w>> # <<>>
OBVIOUS

LEMMA ScanWord ==
    ASSUME NEW w
    PROVE  /\ Quotes(<<w>>, 0) = 0 /\ Quotes(<<w>>, 1) = (IF w = "'" THEN 1 ELSE 0)
           /\ Outside(<<w>>, 1) <=> w # "'"
           /\ \A p : Count(<<w>>, 0, p) = 0
           /\ \A p : Count(<<w>>, 1, p) = IF w # "'" /\ w = p THEN 1 ELSE 0
<1> DEFINE s == <<w>>
<1>1. s[0 + 1] = w
  OBVIOUS
<1> HIDE DEF s
<1>2. 0 \in Nat /\ 0 + 1 = 1
  OBVIOUS
<1>3. Quotes(s, 0) = 0 /\ \A p : Count(s, 0, p) = 0
  BY Scan
<1>4. Quotes(s, 1) = IF w = "'" THEN 1 ELSE 0
  <2>1. Quotes(s, 0 + 1) = Quotes(s, 0) + (IF s[0 + 1] = "'" THEN 1 ELSE 0)
    BY <1>2, Scan
  <2>2. QED
    BY <1>1, <1>2, <1>3, <2>1
<1>5. Outside(s, 1) <=> w # "'"
  BY <1>1, <1>2, <1>4 DEF Outside
<1>6. ASSUME NEW p PROVE Count(s, 1, p) = IF w # "'" /\ w = p THEN 1 ELSE 0
  <2>1. Count(s, 0 + 1, p) = Count(s, 0, p) + (IF Outside(s, 0 + 1) /\ s[0 + 1] = p THEN 1 ELSE 0)
    BY <1>2, Scan
  <2>2. QED
    BY <1>1, <1>2, <1>3, <1>5, <2>1
<1>7. QED
  BY <1>3, <1>4, <1>5, <1>6 DEF s

LEMMA NeatWord ==
    ASSUME NEW w \in Word \ {"'", "(", ")"}
    PROVE  /\ Neat(<<w>>)
           /\ \A x : At(<<w>>, x) = IF w = x THEN {1} ELSE {}
<1> DEFINE s == <<w>>
<1>1. s \in Seq(Word) /\ Len(s) = 1 /\ s[1] = w /\ s # <<>> /\ DOMAIN s = {1}
  BY WordSeq
<1>2. /\ Quotes(s, 1) = 0 /\ Outside(s, 1)
      /\ \A i \in {0, 1} : Count(s, i, "(") = 0 /\ Count(s, i, ")") = 0
  BY ScanWord
<1> HIDE DEF s
<1>3. Neat(s)
  BY <1>1, <1>2 DEF Neat
<1>4. ASSUME NEW x PROVE At(s, x) = IF w = x THEN {1} ELSE {}
  BY <1>1, <1>2 DEF At
<1>5. QED
  BY <1>3, <1>4 DEF s

LEMMA PlainWord ==
    ASSUME NEW w \in Word \ {"'", "(", ")", "and", "or"}
    PROVE  Plain(<<w>>)
BY NeatWord DEF Plain

LEMMA PlainParens ==
    ASSUME NEW a, Neat(a)
    PROVE  Plain(<<"(">> \o a \o <<")">>)
<1> DEFINE l == <<"(">>
           r == <<")">>
           b == l \o a
           c == b \o r
           n == Len(a)
<1>0. "(" \in Word /\ ")" \in Word
  BY DEF Word, Language
<1>1. /\ a \in Seq(Word) /\ n \in Nat /\ n > 0
      /\ l \in Seq(Word) /\ Len(l) = 1 /\ l[1] = "("
      /\ r \in Seq(Word) /\ Len(r) = 1 /\ r[1] = ")"
      /\ b \in Seq(Word) /\ Len(b) = n + 1
      /\ c \in Seq(Word) /\ Len(c) = n + 2 /\ c # <<>> /\ DOMAIN c = 1 .. n + 2
  BY <1>0, WordSeq, ConcatProperties DEF Neat
<1>2. /\ Quotes(l, 1) = 0 /\ Outside(l, 1)
      /\ Count(l, 0, "(") = 0 /\ Count(l, 0, ")") = 0
      /\ Count(l, 1, "(") = 1 /\ Count(l, 1, ")") = 0
  BY ScanWord
<1>3. /\ Quotes(r, 1) = 0 /\ Outside(r, 1)
      /\ Count(r, 0, "(") = 0 /\ Count(r, 0, ")") = 0
      /\ Count(r, 1, "(") = 0 /\ Count(r, 1, ")") = 1
  BY ScanWord
<1> HIDE DEF l, r
<1>4. /\ Quotes(a, n) % 2 = 0 /\ Count(a, n, "(") = Count(a, n, ")")
      /\ \A i \in 0 .. n : Count(a, i, ")") <= Count(a, i, "(")
  BY DEF Neat
<1>5. \A s, p : \A i \in Nat : Count(s, i, p) \in Nat /\ Quotes(s, i) \in Nat
  BY Scan
<1>6. ASSUME NEW i \in 0 .. n
      PROVE  /\ Quotes(b, 1 + i) = Quotes(a, i)
             /\ Count(b, 1 + i, "(") = 1 + Count(a, i, "(")
             /\ Count(b, 1 + i, ")") = Count(a, i, ")")
  <2>1. /\ Quotes(b, 1 + i) = Quotes(l, 1) + Quotes(a, i)
        /\ \A p : Count(b, 1 + i, p) = Count(l, 1, p) + Count(a, i, p)
    BY <1>1, <1>2, ScanNext
  <2>2. Quotes(a, i) \in Nat /\ Count(a, i, "(") \in Nat /\ Count(a, i, ")") \in Nat
    BY <1>5
  <2>3. QED
    BY <1>2, <2>1, <2>2
<1>7. b[1] = "(" /\ Count(b, 0, "(") = 0 /\ Count(b, 0, ")") = 0
  <2>1. b[1] = l[1]
    BY <1>1, ConcatProperties
  <2>2. QED
    BY <1>1, <2>1, Scan
<1> HIDE DEF b
<1>8. ASSUME NEW i \in 0 .. n + 1
      PROVE  /\ Quotes(c, i) = Quotes(b, i)
             /\ i > 0 => c[i] = b[i]
             /\ \A p : Count(c, i, p) = Count(b, i, p)
  BY <1>1, ScanFirst
<1>9. Quotes(b, n + 1) % 2 = 0 /\ Count(b, n + 1, "(") = 1 + Count(b, n + 1, ")")
  <2>1. n \in 0 .. n /\ n + 1 = 1 + n
    BY <1>1
  <2>2. QED
    BY <1>4, <1>6, <2>1
<1>10. /\ Quotes(c, n + 2) = Quotes(b, n + 1) /\ c[n + 2] = ")"
       /\ Count(c, n + 2, "(") = Count(c, n + 2, ")")
  <2>1. /\ Quotes(c, Len(b) + 1) = Quotes(b, Len(b)) + Quotes(r, 1)
        /\ c[Len(b) + 1] = r[1]
        /\ \A p : Count(c, Len(b) + 1, p) = Count(b, Len(b), p) + Count(r, 1, p)
    BY <1>1, <1>9, ScanNext
  <2>2. Len(b) + 1 = n + 2 /\ n + 1 \in Nat
    BY <1>1
  <2>3. /\ Quotes(b, n + 1) \in Nat /\ Count(b, n + 1, "(") \in Nat
        /\ Count(b, n + 1, ")") \in Nat
    BY <1>5, <2>2
  <2>4. /\ Quotes(c, n + 2) = Quotes(b, n + 1) + Quotes(r, 1)
        /\ c[n + 2] = r[1]
        /\ \A p : Count(c, n + 2, p) = Count(b, n + 1, p) + Count(r, 1, p)
    BY <1>1, <2>1, <2>2
  <2>5. QED
    BY <1>1, <1>3, <1>9, <2>3, <2>4
<1> HIDE DEF c
<1>11. ASSUME NEW i \in 0 .. n + 2
       PROVE  /\ Count(c, i, ")") <= Count(c, i, "(")
              /\ i \in 2 .. n + 1 => Count(c, i, ")") < Count(c, i, "(")
  <2>1. CASE i = 0
    BY <2>1, <1>1, <1>7, <1>8
  <2>2. CASE i \in 1 .. n + 1
    <3>1. i - 1 \in 0 .. n /\ 1 + (i - 1) = i /\ i \in 0 .. n + 1 /\ i - 1 \in Nat
      BY <1>1, <2>2
    <3>2. /\ Count(b, i, "(") = 1 + Count(a, i - 1, "(")
          /\ Count(b, i, ")") = Count(a, i - 1, ")")
      BY <1>6, <3>1
    <3>3. Count(a, i - 1, "(") \in Nat /\ Count(a, i - 1, ")") \in Nat
      BY <1>5, <3>1
    <3>4. Count(a, i - 1, ")") <= Count(a, i - 1, "(")
      BY <1>4, <3>1
    <3>5. Count(c, i, ")") = Count(b, i, ")") /\ Count(c, i, "(") = Count(b, i, "(")
      BY <1>8, <3>1
    <3>6. QED
      BY <3>2, <3>3, <3>4, <3>5
  <2>3. CASE i = n + 2
    <3>1. Count(c, n + 2, "(") \in Nat
      BY <1>1, <1>5
    <3>2. QED
      BY <2>3, <3>1, <1>1, <1>10
  <2>4. QED
    BY <1>1, <2>1, <2>2, <2>3
<1>12. Neat(c)
  BY <1>1, <1>9, <1>10, <1>11 DEF Neat
<1>13. ASSUME NEW w \in {"and", "or"}, NEW i \in At(c, w) PROVE FALSE
  <2>1. i \in 1 .. n + 2 /\ c[i] = w /\ Count(c, i, "(") = Count(c, i, ")")
    BY <1>1, <1>13 DEF At
  <2>2. i # 1
    <3>1. c[1] = "("
      BY <1>1, <1>7, <1>8
    <3>2. QED
      BY <2>1, <3>1
  <2>3. i # n + 2
    BY <2>1, <1>10
  <2>4. i \in 2 .. n + 1 /\ i \in 0 .. n + 2 /\ i \in Nat
    BY <1>1, <2>1, <2>2, <2>3
  <2>5. Count(c, i, "(") \in Nat /\ Count(c, i, ")") \in Nat
    BY <1>5, <2>4
  <2>6. QED
    BY <1>11, <2>1, <2>4, <2>5
<1>14. At(c, "and") = {} /\ At(c, "or") = {}
  BY <1>13
<1>15. QED
  BY <1>12, <1>14 DEF Plain, c, b, l, r

-----------------------------------------------------------------------------
(* Texts that are put together from pieces.                                *)

\* F[i] is what the first i pieces make.
Flattening(F, p, D) ==
    /\ F \in [Nat -> Seq(D)] /\ F[0] = <<>>
    /\ \A i \in 1 .. Len(p) : F[i] = F[i - 1] \o p[i]

LEMMA Flatten ==
    ASSUME NEW D, NEW p \in Seq(Seq(D))
    PROVE  \E F : Flattening(F, p, D) /\ FlattenSeq(p) = F[Len(p)]
<1> DEFINE n == Len(p)
           E == Seq(D)
           base == <<>>
           step == [x \in Nat \X E |-> IF x[1] < n THEN x[2] \o p[x[1] + 1] ELSE <<>>]
<1>1. n \in Nat /\ p \in [1 .. n -> E]
  BY LenProperties
<1>2. base \in E
  BY EmptySeq
<1>3. step \in [Nat \X E -> E]
  <2> SUFFICES ASSUME NEW x \in Nat \X E
               PROVE  (IF x[1] < n THEN x[2] \o p[x[1] + 1] ELSE <<>>) \in E
    OBVIOUS
  <2>1. CASE x[1] < n
    <3>1. x[2] \in Seq(D) /\ p[x[1] + 1] \in Seq(D)
      BY <1>1, <2>1
    <3>2. x[2] \o p[x[1] + 1] \in Seq(D)
      BY <3>1, ConcatProperties
    <3>3. QED
      BY <2>1, <3>2
  <2>2. CASE ~ (x[1] < n)
    BY <1>2, <2>2
  <2>3. QED
    BY <2>1, <2>2
<1>4. \A i \in Nat, s \in E : i < n => step[<<i, s>>] = s \o p[i + 1]
  OBVIOUS
<1> HIDE DEF step, base
<1>5. PICK F \in [Nat -> E] : Recursive(F, base, step)
  <2> HIDE DEF E
  <2>1. QED
    BY <1>2, <1>3, Recursion
<1>6. ASSUME NEW i \in 1 .. n PROVE F[i] = F[i - 1] \o p[i]
  <2>1. i - 1 \in Nat /\ (i - 1) + 1 = i /\ i - 1 < n
    BY <1>1
  <2>2. QED
    BY <1>4, <1>5, <2>1 DEF Recursive
<1>7. Flattening(F, p, D)
  BY <1>5, <1>6 DEF Flattening, Recursive, base
<1>8. FlattenSeq(p) = F[n]
  <2>1. CASE n = 0
    <3>1. p = <<>> /\ FlattenSeq(p) = p
      BY <2>1, EmptySeq DEF FlattenSeq
    <3>2. QED
      BY <2>1, <3>1, <1>5 DEF Recursive, base
  <2>2. CASE n # 0
    <3> DEFINE Rule(f) == f = [i \in 1 .. n |-> IF i = 1 THEN p[i] ELSE f[i - 1] \o p[i]]
               G == [i \in 1 .. n |-> F[i]]
               f == CHOOSE f : Rule(f)
    <3>1. FlattenSeq(p) = f[n]
      BY <2>2 DEF FlattenSeq
    <3>2. Rule(G)
      <4>1. ASSUME NEW i \in 1 .. n
            PROVE  G[i] = IF i = 1 THEN p[i] ELSE G[i - 1] \o p[i]
        <5>1. CASE i = 1
          <6>1. F[1] = F[0] \o p[1] /\ p[1] \in Seq(D)
            BY <5>1, <1>1, <1>6, 1 - 1 = 0
          <6>2. F[1] = p[1]
            BY <6>1, <1>5, ConcatEmptySeq DEF Recursive, base
          <6>3. QED
            BY <5>1, <6>2
        <5>2. CASE i # 1
          <6>1. i - 1 \in 1 .. n
            BY <5>2, <1>1
          <6>2. QED
            BY <5>2, <6>1, <1>6
        <5>3. QED
          BY <5>1, <5>2
      <4>2. QED
        BY <4>1
    <3> HIDE DEF G
    <3>3. Rule(f)
      BY <3>2
    <3> HIDE DEF f
    <3>4. \A i \in 1 .. n : f[i] = IF i = 1 THEN p[i] ELSE f[i - 1] \o p[i]
      BY <3>3
    <3>5. \A i \in 1 .. n : G[i] = IF i = 1 THEN p[i] ELSE G[i - 1] \o p[i]
      BY <3>2
    <3> DEFINE S == {i \in Nat : i \in 1 .. n => f[i] = G[i]}
    <3>6. 0 \in S
      BY <1>1
    <3>7. ASSUME NEW i \in Nat, i \in S, i + 1 \in 1 .. n PROVE f[i + 1] = G[i + 1]
      <4>0. n \in Nat /\ i + 1 \in 1 .. n /\ (i \in 1 .. n => f[i] = G[i])
        BY <1>1, <3>7
      <4> HIDE DEF n, S
      <4>1. CASE i = 0
        <5>1. f[1] = p[1] /\ G[1] = p[1]
          BY <3>4, <3>5, <4>0, <4>1, 0 + 1 = 1
        <5>2. QED
          BY <4>1, <5>1
      <4>2. CASE i # 0
        <5>1. i \in 1 .. n /\ (i + 1) - 1 = i /\ i + 1 # 1
          <6>1. i + 1 <= n /\ i >= 1
            BY <4>0, <4>2
          <6>2. QED
            BY <6>1, <4>0
        <5>2. f[i] = G[i]
          BY <4>0, <5>1
        <5>3. f[i + 1] = f[i] \o p[i + 1] /\ G[i + 1] = G[i] \o p[i + 1]
          BY <3>4, <3>5, <4>0, <5>1
        <5>4. QED
          BY <5>2, <5>3
      <4>3. QED
        BY <4>1, <4>2
    <3>8. Nat \subseteq S
      <4>1. ASSUME NEW i \in Nat, i \in S PROVE i + 1 \in S
        <5>1. i + 1 \in Nat
          OBVIOUS
        <5>2. i + 1 \in 1 .. n => f[i + 1] = G[i + 1]
          BY <3>7, <4>1
        <5>3. QED
          BY <5>1, <5>2
      <4> HIDE DEF S
      <4>2. QED
        BY <3>6, <4>1, Induction
    <3>9. f[n] = G[n]
      BY <1>1, <2>2, <3>8
    <3>10. G[n] = F[n]
      BY <1>1, <2>2 DEF G
    <3>11. QED
      BY <3>1, <3>9, <3>10
  <2>3. QED
    BY <2>1, <2>2
<1>9. QED
  BY <1>7, <1>8

-----------------------------------------------------------------------------
(* Strings: quote() makes a plain text, and its data can be read back.     *)

\* All of q belongs to a string, which is still open when r is 1.
InString(q, r) ==
    /\ q \in Seq(Word) /\ Quotes(q, Len(q)) % 2 = r
    /\ \A j \in 1 .. Len(q) : ~ Outside(q, j)

LEMMA ScanAppend ==
    ASSUME NEW q \in Seq(Word), NEW w \in Word
    PROVE  LET s == q \o <<w>>
           IN  /\ s \in Seq(Word) /\ Len(s) = Len(q) + 1 /\ s[Len(q) + 1] = w
               /\ Quotes(s, Len(s)) = Quotes(q, Len(q)) + (IF w = "'" THEN 1 ELSE 0)
               /\ Quotes(q, Len(q)) \in Nat
               /\ \A j \in 1 .. Len(q) : Outside(s, j) <=> Outside(q, j)
<1> DEFINE s == q \o <<w>>
           m == Len(q)
<1>1. <<w>> \in Seq(Word) /\ Len(<<w>>) = 1 /\ <<w>>[1] = w
  BY WordSeq
<1>2. /\ m \in Nat /\ s \in Seq(Word) /\ Len(s) = m + 1 /\ s[m + 1] = w
  BY <1>1, ConcatProperties
<1>3. Quotes(s, m) = Quotes(q, m) /\ \A j \in 1 .. m : Outside(s, j) <=> Outside(q, j)
  <2> DEFINE e == <<w>>
  <2>1. e \in Seq(Word) /\ m \in 0 .. m /\ \A j \in 1 .. m : j \in 0 .. m /\ j > 0
    BY <1>1, <1>2
  <2> HIDE DEF e
  <2>2. \A i \in 0 .. m : /\ Quotes(q \o e, i) = Quotes(q, i)
                          /\ i > 0 => (Outside(q \o e, i) <=> Outside(q, i))
    BY <2>1, ScanFirst
  <2>3. QED
    BY <2>1, <2>2 DEF e
<1> HIDE DEF s
<1>4. Quotes(s, m + 1) = Quotes(s, m) + (IF s[m + 1] = "'" THEN 1 ELSE 0)
  BY <1>2, Scan
<1>5. Quotes(q, m) \in Nat
  BY <1>2, Scan
<1>6. QED
  BY <1>2, <1>3, <1>4, <1>5 DEF s

LEMMA StringWord ==
    ASSUME NEW q, InString(q, 1), NEW w \in Word, w # "'"
    PROVE  InString(q \o <<w>>, 1)
<1> DEFINE s == q \o <<w>>
           m == Len(q)
<1>1. /\ q \in Seq(Word) /\ m \in Nat /\ Quotes(q, m) % 2 = 1
      /\ \A j \in 1 .. m : ~ Outside(q, j)
  BY DEF InString
<1>2. /\ s \in Seq(Word) /\ Len(s) = m + 1 /\ s[m + 1] = w
      /\ Quotes(s, Len(s)) = Quotes(q, m) + 0 /\ Quotes(q, m) \in Nat
      /\ \A j \in 1 .. m : Outside(s, j) <=> Outside(q, j)
  BY <1>1, ScanAppend
<1> HIDE DEF s, m
<1>3. Quotes(s, Len(s)) % 2 = 1 /\ Quotes(s, m + 1) % 2 = 1
  BY <1>1, <1>2
<1>4. ~ Outside(s, m + 1)
  BY <1>3 DEF Outside
<1>5. \A j \in 1 .. m + 1 : ~ Outside(s, j)
  BY <1>1, <1>2, <1>4
<1>6. QED
  BY <1>2, <1>3, <1>5 DEF InString, s

LEMMA StringQuote ==
    ASSUME NEW q, NEW r \in {0, 1}, InString(q, r)
    PROVE  InString(q \o <<"'">>, 1 - r)
<1> DEFINE s == q \o <<"'">>
           m == Len(q)
<1>1. /\ q \in Seq(Word) /\ m \in Nat /\ Quotes(q, m) % 2 = r
      /\ \A j \in 1 .. m : ~ Outside(q, j)
  BY DEF InString
<1>2. "'" \in Word
  BY DEF Word, Language
<1>3. /\ s \in Seq(Word) /\ Len(s) = m + 1 /\ s[m + 1] = "'"
      /\ Quotes(s, Len(s)) = Quotes(q, m) + 1 /\ Quotes(q, m) \in Nat
      /\ \A j \in 1 .. m : Outside(s, j) <=> Outside(q, j)
  BY <1>1, <1>2, ScanAppend
<1> HIDE DEF s, m
<1>4. Quotes(s, Len(s)) % 2 = 1 - r
  BY <1>1, <1>3
<1>5. ~ Outside(s, m + 1)
  BY <1>3 DEF Outside
<1>6. \A j \in 1 .. m + 1 : ~ Outside(s, j)
  BY <1>1, <1>3, <1>5
<1>7. QED
  BY <1>3, <1>4, <1>6 DEF InString, s

LEMMA StringStart == InString(<<"'">>, 1)
<1>1. "'" \in Word
  BY DEF Word, Language
<1>2. <<"'">> \in Seq(Word) /\ Len(<<"'">>) = 1
  BY <1>1, WordSeq
<1>3. Quotes(<<"'">>, 1) = 1 /\ ~ Outside(<<"'">>, 1)
  BY ScanWord
<1>4. QED
  BY <1>2, <1>3 DEF InString

LEMMA StringPlain ==
    ASSUME NEW q, InString(q, 0), q # <<>>
    PROVE  Plain(q)
<1>1. /\ q \in Seq(Word) /\ Len(q) \in Nat /\ DOMAIN q = 1 .. Len(q)
      /\ Quotes(q, Len(q)) % 2 = 0 /\ \A j \in 1 .. Len(q) : ~ Outside(q, j)
  BY DEF InString
<1>2. ASSUME NEW i \in 0 .. Len(q), NEW p PROVE Count(q, i, p) = 0
  <2>1. {j \in 1 .. i : Outside(q, j) /\ q[j] = p} = {}
    BY <1>1
  <2>2. QED
    BY <2>1, FS_EmptySet DEF Count
<1>3. Neat(q)
  <2>1. Len(q) \in 0 .. Len(q)
    BY <1>1
  <2>2. QED
    BY <1>1, <1>2, <2>1 DEF Neat
<1>4. \A w : At(q, w) = {}
  BY <1>1 DEF At
<1>5. QED
  BY <1>3, <1>4 DEF Plain

\* The word w of a string value, as quote() writes it.
LEMMA EscapedWord ==
    ASSUME NEW w \in Word
    PROVE  /\ Escaped(w) \in Seq(Word)
           /\ Len(Escaped(w)) > 0
           /\ w = "'" => Escaped(w) = <<"'">> \o <<"'">>
           /\ w # "'" => \E v \in Word : v # "'" /\ Escaped(w) = <<v>>
<1>1. CASE w = "'"
  <2>1. Escaped(w) = <<"'", "'">>
    BY <1>1 DEF Escaped, Escape
  <2> DEFINE e == <<"'", "'">>
  <2>2. e = <<"'">> \o <<"'">> /\ e \in Seq(Word) /\ Len(e) = 2
    BY <1>1
  <2>3. Escaped(w) = e
    BY <2>1
  <2> HIDE DEF e
  <2>4. Escaped(w) \in Seq(Word) /\ Escaped(w) = <<"'">> \o <<"'">>
    BY <2>2, <2>3
  <2>5. Len(Escaped(w)) > 0
    <3>1. Len(Escaped(w)) = 2
      BY <2>2, <2>3
    <3>2. QED
      BY <3>1
  <2>6. QED
    BY <1>1, <2>4, <2>5
<1>2. CASE w # "'"
  <2>1. PICK v \in Word : v # "'" /\ Escaped(w) = <<v>>
    <3>1. CASE w \in {"\n", "\r", "\t"}
      <4>1. Escaped(w) \in {<<"\\n">>, <<"\\r">>, <<"\\t">>}
        BY <3>1 DEF Escaped, Escape
      <4>2. "\\n" \in Word /\ "\\r" \in Word /\ "\\t" \in Word
        BY DEF Word, Escapes
      <4>3. QED
        BY <4>1, <4>2
    <3>2. CASE w \notin {"\n", "\r", "\t"}
      BY <1>2, <3>2 DEF Escaped, Escape
    <3>3. QED
      BY <3>1, <3>2
  <2>2. <<v>> \in Seq(Word) /\ Len(<<v>>) = 1
    BY WordSeq
  <2>3. QED
    BY <1>2, <2>1, <2>2
<1>3. QED
  BY <1>1, <1>2

LEMMA StringEscaped ==
    ASSUME NEW q, InString(q, 1), NEW w \in Word
    PROVE  InString(q \o Escaped(w), 1)
<1>1. CASE w = "'"
  <2>1. "'" \in Word /\ <<"'">> \in Seq(Word) /\ q \in Seq(Word)
    BY <1>1, WordSeq DEF InString
  <2>2. q \o Escaped(w) = (q \o <<"'">>) \o <<"'">>
    <3> DEFINE e == <<"'">>
    <3>1. e \in Seq(Word) /\ Escaped(w) = e \o e
      BY <1>1, <2>1, EscapedWord
    <3> HIDE DEF e
    <3>2. q \o (e \o e) = (q \o e) \o e
      BY <2>1, <3>1, Assoc
    <3>3. QED
      BY <3>1, <3>2 DEF e
  <2>3. InString(q \o <<"'">>, 0)
    BY StringQuote, 1 - 1 = 0
  <2>4. InString((q \o <<"'">>) \o <<"'">>, 1)
    BY <2>3, StringQuote, 1 - 0 = 1
  <2>5. QED
    BY <2>2, <2>4
<1>2. CASE w # "'"
  BY <1>2, EscapedWord, StringWord
<1>3. QED
  BY <1>1, <1>2

\* The pieces of quote(t).
Pieces(t) == [i \in DOMAIN t |-> Escaped(t[i])]

LEMMA PiecesProperties ==
    ASSUME NEW t \in Seq(Word)
    PROVE  /\ Pieces(t) \in Seq(Seq(Word)) /\ Len(Pieces(t)) = Len(t)
           /\ \A i \in 1 .. Len(t) : Pieces(t)[i] = Escaped(t[i])
<1>1. Len(t) \in Nat /\ DOMAIN t = 1 .. Len(t) /\ \A i \in 1 .. Len(t) : t[i] \in Word
  BY LenProperties, ElementOfSeq
<1>2. \A i \in 1 .. Len(t) : Escaped(t[i]) \in Seq(Word)
  BY <1>1, EscapedWord
<1>3. Pieces(t) = [i \in 1 .. Len(t) |-> Escaped(t[i])]
  BY <1>1 DEF Pieces
<1>4. QED
  BY <1>1, <1>2, <1>3

LEMMA QuoteInString ==
    ASSUME NEW t \in Seq(Word), NEW F, Flattening(F, Pieces(t), Word), NEW i \in 0 .. Len(t)
    PROVE  InString(<<"'">> \o F[i], 1) /\ Len(F[i]) >= i
<1> DEFINE S == {k \in Nat : k <= Len(t) => InString(<<"'">> \o F[k], 1) /\ Len(F[k]) >= k}
<1>0. "'" \in Word /\ Len(t) \in Nat
  BY DEF Word, Language
<1>1. 0 \in S
  <2>1. F[0] = <<>> /\ <<"'">> \o <<>> = <<"'">>
    BY DEF Flattening
  <2>2. Len(F[0]) >= 0
    BY <2>1
  <2>3. QED
    BY <2>1, <2>2, StringStart
<1>2. ASSUME NEW k \in Nat, k \in S, k + 1 <= Len(t)
      PROVE  InString(<<"'">> \o F[k + 1], 1) /\ Len(F[k + 1]) >= k + 1
  <2>1. k + 1 \in 1 .. Len(t) /\ (k + 1) - 1 = k /\ k <= Len(t)
    BY <1>0, <1>2
  <2>2. F[k + 1] = F[k] \o Escaped(t[k + 1])
    BY <2>1, PiecesProperties DEF Flattening
  <2>3. t[k + 1] \in Word
    BY <2>1, ElementOfSeq
  <2>4. F[k] \in Seq(Word)
    BY DEF Flattening
  <2>5. InString(<<"'">> \o F[k], 1) /\ Len(F[k]) >= k
    BY <1>2, <2>1
  <2>6. Escaped(t[k + 1]) \in Seq(Word) /\ Len(Escaped(t[k + 1])) > 0
    BY <2>3, EscapedWord
  <2>7. InString((<<"'">> \o F[k]) \o Escaped(t[k + 1]), 1)
    BY <2>3, <2>5, StringEscaped
  <2>8. <<"'">> \o F[k + 1] = (<<"'">> \o F[k]) \o Escaped(t[k + 1])
    <3> DEFINE e == <<"'">>
    <3>1. e \in Seq(Word)
      BY <1>0, WordSeq
    <3> HIDE DEF e
    <3>2. e \o (F[k] \o Escaped(t[k + 1])) = (e \o F[k]) \o Escaped(t[k + 1])
      <4> DEFINE u == F[k]
                 v == Escaped(t[k + 1])
      <4>1. u \in Seq(Word) /\ v \in Seq(Word)
        BY <2>4, <2>6
      <4> HIDE DEF u, v
      <4>2. e \o (u \o v) = (e \o u) \o v
        BY <3>1, <4>1, Assoc
      <4>3. QED
        BY <4>2 DEF u, v
    <3>3. QED
      BY <2>2, <3>2 DEF e
  <2>9. Len(F[k + 1]) = Len(F[k]) + Len(Escaped(t[k + 1]))
    BY <2>2, <2>4, <2>6, ConcatProperties
  <2>10. Len(F[k]) \in Nat /\ Len(Escaped(t[k + 1])) \in Nat
    BY <2>4, <2>6, LenProperties
  <2>11. Len(F[k + 1]) >= k + 1
    <3> DEFINE x == Len(F[k])
               y == Len(Escaped(t[k + 1]))
    <3>1. Len(F[k + 1]) = x + y /\ x \in Nat /\ y \in Nat /\ y > 0 /\ x >= k
      BY <2>5, <2>6, <2>9, <2>10
    <3> HIDE DEF x, y
    <3>2. x + y >= k + 1
      BY <3>1
    <3>3. QED
      BY <3>1, <3>2
  <2>12. QED
    BY <2>7, <2>8, <2>11
<1>3. \A k \in Nat : k \in S => k + 1 \in S
  BY <1>2
<1>4. Nat \subseteq S
  <2> HIDE DEF S
  <2>1. QED
    BY <1>1, <1>3, Induction
<1>5. i \in Nat /\ i <= Len(t)
  BY <1>0
<1>6. QED
  BY <1>4, <1>5

LEMMA QuoteProperties ==
    ASSUME NEW t \in Seq(Word)
    PROVE  \E F : /\ Flattening(F, Pieces(t), Word)
                  /\ quote(t) = <<"'">> \o F[Len(t)] \o <<"'">>
                  /\ Plain(quote(t))
<1>1. Pieces(t) \in Seq(Seq(Word)) /\ Len(Pieces(t)) = Len(t)
  BY PiecesProperties
<1>2. PICK F : Flattening(F, Pieces(t), Word) /\ FlattenSeq(Pieces(t)) = F[Len(t)]
  BY <1>1, Flatten
<1>3. quote(t) = <<"'">> \o F[Len(t)] \o <<"'">>
  BY <1>2 DEF quote, Pieces
<1>4. InString(<<"'">> \o F[Len(t)], 1)
  <2>1. Len(t) \in 0 .. Len(t)
    BY LenProperties
  <2>2. QED
    BY <1>2, <2>1, QuoteInString
<1>5. InString(quote(t), 0)
  BY <1>3, <1>4, StringQuote, 1 - 1 = 0
<1>6. quote(t) # <<>>
  <2>1. /\ "'" \in Word /\ <<"'">> \in Seq(Word) /\ Len(<<"'">>) = 1
        /\ <<"'">> \o F[Len(t)] \in Seq(Word)
    BY <1>4, WordSeq DEF Word, Language, InString
  <2>2. Len(quote(t)) = Len(<<"'">> \o F[Len(t)]) + 1 /\ Len(<<"'">> \o F[Len(t)]) \in Nat
    BY <1>3, <2>1, ConcatProperties, LenProperties
  <2>3. QED
    BY <2>2, EmptySeq
<1>7. QED
  BY <1>2, <1>3, <1>5, <1>6, StringPlain

-----------------------------------------------------------------------------
(* The data of a string is what unquoted makes of its text.                *)

Data == Seq(Word \cup {"\n", "\r", "\t"})

LEMMA DataAssoc == \A a, b, c \in Data : (a \o b) \o c = a \o (b \o c)
BY ConcatAssociative DEF Data

LEMMA TailOfConcat ==
    ASSUME NEW w \in Word, NEW s \in Seq(Word)
    PROVE  /\ <<w>> \o s \in Seq(Word) /\ Len(<<w>> \o s) = Len(s) + 1
           /\ <<w>> \o s # <<>> /\ (<<w>> \o s)[1] = w
           /\ Tail(<<w>> \o s) = s
<1> DEFINE e == <<w>>
           c == e \o s
<1>1. e \in Seq(Word) /\ Len(e) = 1 /\ e[1] = w /\ Len(s) \in Nat
  BY WordSeq
<1> HIDE DEF e
<1>2. /\ c \in Seq(Word) /\ Len(c) = Len(s) + 1 /\ c[1] = w
      /\ \A i \in 1 .. Len(s) : c[i + 1] = s[i]
  <2>1. /\ c \in Seq(Word) /\ Len(c) = 1 + Len(s)
        /\ \A i \in 1 .. 1 + Len(s) : c[i] = IF i <= 1 THEN e[i] ELSE s[i - 1]
    <3>1. /\ c \in Seq(Word) /\ Len(c) = Len(e) + Len(s)
          /\ \A i \in 1 .. Len(e) + Len(s) : c[i] = IF i <= Len(e) THEN e[i] ELSE s[i - Len(e)]
      BY <1>1, ConcatProperties
    <3> HIDE DEF c
    <3>2. QED
      BY <1>1, <3>1
  <2>2. QED
    BY <1>1, <2>1
<1> HIDE DEF c
<1>3. c # <<>>
  BY <1>1, <1>2, EmptySeq
<1>4. /\ Tail(c) \in Seq(Word) /\ Len(Tail(c)) = Len(s)
      /\ \A i \in 1 .. Len(s) : Tail(c)[i] = s[i]
  <2>1. /\ Tail(c) \in Seq(Word) /\ Len(Tail(c)) = Len(c) - 1
        /\ \A i \in 1 .. Len(Tail(c)) : Tail(c)[i] = c[i + 1]
    BY <1>2, <1>3, HeadTailProperties
  <2>2. QED
    BY <1>1, <1>2, <2>1
<1>5. Tail(c) = s
  BY <1>4, SeqEqual
<1>6. QED
  BY <1>2, <1>3, <1>5 DEF c, e

LEMMA TailTyped ==
    ASSUME NEW s \in Seq(Word), s # <<>>
    PROVE  /\ s[1] \in Word /\ Len(s) \in Nat /\ Len(s) > 0
           /\ Tail(s) \in Seq(Word) /\ Len(Tail(s)) = Len(s) - 1
<1>1. Len(s) \in Nat /\ Len(s) > 0
  BY EmptySeq
<1>2. s[1] \in Word
  BY <1>1, ElementOfSeq
<1>3. Tail(s) \in Seq(Word) /\ Len(Tail(s)) = Len(s) - 1
  BY HeadTailProperties
<1>4. QED
  BY <1>1, <1>2, <1>3

LEMMA DataConcat ==
    ASSUME NEW x \in Word \cup {"\n", "\r", "\t"}, NEW d \in Data
    PROVE  <<x>> \o d \in Data
<1>1. <<x>> \in Data
  BY DEF Data
<1>2. QED
  BY <1>1, ConcatProperties DEF Data

LEMMA UnquotingType ==
    ASSUME NEW g \in [Seq(Word) -> Data], NEW s \in Seq(Word)
    PROVE  Unquoting(g, s) \in Data
<1>1. CASE s = <<>>
  <2>1. Unquoting(g, s) = <<>>
    BY <1>1 DEF Unquoting
  <2>2. QED
    BY <2>1, EmptySeq DEF Data
<1>2. CASE s # <<>> /\ Len(s) > 1 /\ s[1] = "'" /\ s[2] = "'"
  <2>1. Unquoting(g, s) = <<"'">> \o g[Tail(Tail(s))]
    BY <1>2 DEF Unquoting
  <2>2. "'" \in Word
    BY DEF Word, Language
  <2>3. Tail(Tail(s)) \in Seq(Word)
    <3>1. Tail(s) \in Seq(Word) /\ Len(Tail(s)) > 0
      BY <1>2, TailTyped
    <3>2. Tail(s) # <<>>
      <4> DEFINE u == Tail(s)
      <4>1. u \in Seq(Word) /\ Len(u) > 0
        BY <3>1
      <4> HIDE DEF u
      <4>2. u # <<>>
        BY <4>1
      <4>3. QED
        BY <4>2 DEF u
    <3>3. QED
      BY <3>1, <3>2, TailTyped
  <2>4. g[Tail(Tail(s))] \in Data
    BY <2>3
  <2>5. QED
    BY <2>1, <2>2, <2>4, DataConcat
<1>3. CASE s # <<>> /\ ~ (Len(s) > 1 /\ s[1] = "'" /\ s[2] = "'")
  <2> DEFINE x == CASE s[1] = "\\n" -> "\n" [] s[1] = "\\r" -> "\r" [] s[1] = "\\t" -> "\t"
                    [] OTHER -> s[1]
  <2>1. Unquoting(g, s) = <<x>> \o g[Tail(s)]
    BY <1>3 DEF Unquoting
  <2>2. s[1] \in Word /\ Tail(s) \in Seq(Word)
    BY <1>3, TailTyped
  <2>3. x \in Word \cup {"\n", "\r", "\t"}
    BY <2>2
  <2> HIDE DEF x
  <2>4. g[Tail(s)] \in Data
    BY <2>2
  <2>5. QED
    BY <2>1, <2>3, <2>4, DataConcat
<1>4. QED
  BY <1>1, <1>2, <1>3

LEMMA UnquotedRule ==
    /\ unquoted[0] = [s \in Seq(Word) |-> <<>>]
    /\ \A n \in Nat : unquoted[n + 1] = [s \in Seq(Word) |-> Unquoting(unquoted[n], s)]
    /\ unquoted \in [Nat -> [Seq(Word) -> Data]]
<1> DEFINE D == [Seq(Word) -> Data]
           base == [s \in Seq(Word) |-> <<>>]
           step == [x \in Nat \X D |-> [s \in Seq(Word) |-> Unquoting(x[2], s)]]
           Rule(f) == f = [n \in Nat |-> [s \in Seq(Word) |->
                             IF n = 0 THEN <<>> ELSE Unquoting(f[n - 1], s)]]
<1>1. base \in D
  BY EmptySeq DEF Data
<1>2. step \in [Nat \X D -> D]
  <2>1. ASSUME NEW x \in Nat \X D
        PROVE  [s \in Seq(Word) |-> Unquoting(x[2], s)] \in D
    BY UnquotingType
  <2>2. QED
    BY <2>1
<1>3. \A n \in Nat, g \in D : step[<<n, g>>] = [s \in Seq(Word) |-> Unquoting(g, s)]
  OBVIOUS
<1>4. PICK f \in [Nat -> D] : Recursive(f, base, step)
  <2> HIDE DEF D, base, step
  <2>1. QED
    BY <1>1, <1>2, Recursion
<1> HIDE DEF step
<1>5. f[0] = base /\ \A n \in Nat : f[n + 1] = [s \in Seq(Word) |-> Unquoting(f[n], s)]
  <2> HIDE DEF D, base
  <2>1. QED
    BY <1>3, <1>4 DEF Recursive
<1>6. Rule(f)
  <2>1. ASSUME NEW n \in Nat
        PROVE  f[n] = [s \in Seq(Word) |-> IF n = 0 THEN <<>> ELSE Unquoting(f[n - 1], s)]
    <3>1. CASE n = 0
      BY <1>5, <3>1
    <3>2. CASE n # 0
      <4>1. n - 1 \in Nat /\ (n - 1) + 1 = n
        BY <3>2
      <4>2. f[n] = [s \in Seq(Word) |-> Unquoting(f[n - 1], s)]
        BY <1>5, <4>1
      <4>3. QED
        BY <3>2, <4>2
    <3>3. QED
      BY <3>1, <3>2
  <2>2. QED
    BY <1>4, <2>1
<1>7. unquoted = CHOOSE g : Rule(g)
  BY DEF unquoted
<1>8. Rule(unquoted)
  <2> HIDE DEF Rule
  <2>1. QED
    BY <1>6, <1>7
<1>9. \A n \in Nat :
        unquoted[n] = [s \in Seq(Word) |-> IF n = 0 THEN <<>> ELSE Unquoting(unquoted[n - 1], s)]
  BY <1>8
<1>10. unquoted[0] = base
  BY <1>9
<1>11. ASSUME NEW n \in Nat
       PROVE  unquoted[n + 1] = [s \in Seq(Word) |-> Unquoting(unquoted[n], s)]
  <2>1. n + 1 \in Nat /\ n + 1 # 0 /\ (n + 1) - 1 = n
    OBVIOUS
  <2>2. QED
    BY <1>9, <2>1
<1>12. Nat \subseteq {n \in Nat : unquoted[n] \in D}
  <2> DEFINE S == {n \in Nat : unquoted[n] \in D}
  <2>1. 0 \in S
    BY <1>1, <1>10
  <2>2. ASSUME NEW n \in Nat, n \in S PROVE n + 1 \in S
    <3>1. unquoted[n] \in [Seq(Word) -> Data]
      BY <2>2
    <3>2. [s \in Seq(Word) |-> Unquoting(unquoted[n], s)] \in D
      BY <3>1, UnquotingType
    <3>3. unquoted[n + 1] \in D /\ n + 1 \in Nat
      <4>1. unquoted[n + 1] = [s \in Seq(Word) |-> Unquoting(unquoted[n], s)]
        BY <1>11
      <4> HIDE DEF D
      <4>2. QED
        BY <3>2, <4>1
    <3>4. QED
      BY <3>3
  <2> HIDE DEF S
  <2>3. Nat \subseteq S
    BY <2>1, <2>2, Induction
  <2>4. QED
    BY <2>3 DEF S
<1>13. unquoted = [n \in Nat |-> unquoted[n]]
  BY <1>8
<1>14. QED
  BY <1>10, <1>11, <1>12, <1>13

LEMMA UnquotedStep ==
    ASSUME NEW n \in Nat, n > 0, NEW w \in Word \ Escapes, NEW rest \in Seq(Word)
    PROVE  unquoted[n][Escaped(w) \o rest] = <<w>> \o unquoted[n - 1][rest]
<1> DEFINE s == Escaped(w) \o rest
           g == unquoted[n - 1]
<1>1. Escaped(w) \in Seq(Word) /\ s \in Seq(Word)
  BY EscapedWord, ConcatProperties
<1>2. unquoted[n][s] = Unquoting(g, s)
  <2>1. n - 1 \in Nat /\ (n - 1) + 1 = n
    OBVIOUS
  <2>2. unquoted[(n - 1) + 1] = [x \in Seq(Word) |-> Unquoting(unquoted[n - 1], x)]
    BY <2>1, UnquotedRule
  <2>3. unquoted[n] = [x \in Seq(Word) |-> Unquoting(g, x)]
    BY <2>1, <2>2
  <2> HIDE DEF s, g
  <2>4. QED
    BY <1>1, <2>3
<1> HIDE DEF g
<1>3. CASE w = "'"
  <2> DEFINE e == <<"'">>
             r == e \o rest
  <2>1. e \in Seq(Word) /\ Escaped(w) = e \o e /\ "'" \in Word
    BY <1>3, EscapedWord, WordSeq
  <2>2. s = e \o r
    <3> HIDE DEF e
    <3>1. (e \o e) \o rest = e \o (e \o rest)
      BY <2>1, Assoc
    <3>2. QED
      BY <2>1, <3>1
  <2>3. /\ r \in Seq(Word) /\ Len(r) = Len(rest) + 1 /\ r # <<>> /\ r[1] = "'" /\ Tail(r) = rest
        /\ Len(rest) \in Nat
    BY <2>1, TailOfConcat
  <2>4. /\ Len(e \o r) = Len(r) + 1 /\ e \o r # <<>> /\ (e \o r)[1] = "'" /\ Tail(e \o r) = r
    <3> HIDE DEF r
    <3>1. QED
      BY <2>1, <2>3, TailOfConcat
  <2>5. (e \o r)[2] = r[1]
    <3> HIDE DEF r
    <3>1. Len(e) = 1
      BY WordSeq
    <3>2. 2 \in 1 .. Len(e) + Len(r) /\ ~ (2 <= Len(e)) /\ 2 - Len(e) = 1
      BY <2>3, <3>1
    <3> HIDE DEF e
    <3>3. QED
      BY <2>1, <2>3, <3>2, ConcatProperties
  <2> HIDE DEF s, r, e
  <2>6. s # <<>> /\ Len(s) > 1 /\ s[1] = "'" /\ s[2] = "'" /\ Tail(Tail(s)) = rest
    <3>1. Len(s) > 1
      BY <2>2, <2>3, <2>4
    <3>2. s # <<>> /\ s[1] = "'" /\ Tail(s) = r
      BY <2>2, <2>4
    <3>3. s[2] = "'"
      BY <2>2, <2>3, <2>5
    <3>4. QED
      BY <2>3, <3>1, <3>2, <3>3
  <2>7. Unquoting(g, s) = <<"'">> \o g[rest]
    BY <2>6 DEF Unquoting
  <2>8. QED
    BY <1>2, <1>3, <2>7 DEF s, g
<1>4. CASE w # "'"
  <2>1. PICK v \in Word : v # "'" /\ Escaped(w) = <<v>>
    BY <1>4, EscapedWord
  <2>2. s # <<>> /\ s[1] = v /\ Tail(s) = rest
    BY <2>1, TailOfConcat
  <2> DEFINE x == CASE v = "\\n" -> "\n" [] v = "\\r" -> "\r" [] v = "\\t" -> "\t"
                    [] OTHER -> v
  <2>3. x = w
    <3>1. <<v>>[1] = v
      OBVIOUS
    <3>2. CASE w \in {"\n", "\r", "\t"}
      <4>1. CASE w = "\n"
        <5>1. Escaped(w) = <<"\\n">>
          BY <4>1 DEF Escaped, Escape
        <5>2. v = "\\n"
          BY <2>1, <5>1
        <5>3. QED
          BY <4>1, <5>2
      <4>2. CASE w = "\r"
        <5>1. Escaped(w) = <<"\\r">>
          BY <4>2 DEF Escaped, Escape
        <5>2. v = "\\r"
          BY <2>1, <5>1
        <5>3. QED
          BY <4>2, <5>2
      <4>3. CASE w = "\t"
        <5>1. Escaped(w) = <<"\\t">>
          BY <4>3 DEF Escaped, Escape
        <5>2. v = "\\t"
          BY <2>1, <5>1
        <5>3. QED
          BY <4>3, <5>2
      <4>4. QED
        BY <3>2, <4>1, <4>2, <4>3
    <3>3. CASE w \notin {"\n", "\r", "\t"}
      <4>1. Escaped(w) = <<w>>
        BY <1>4, <3>3 DEF Escaped, Escape
      <4>2. v = w
        BY <2>1, <4>1
      <4>3. QED
        BY <4>2 DEF Escapes
    <3>4. QED
      BY <3>2, <3>3
  <2> HIDE DEF s
  <2>4. Unquoting(g, s) = <<x>> \o g[rest]
    BY <2>1, <2>2 DEF Unquoting
  <2>5. QED
    <3> HIDE DEF x
    <3>1. Unquoting(g, s) = <<w>> \o g[rest]
      BY <2>3, <2>4
    <3>2. QED
      BY <1>2, <3>1 DEF s, g
<1>5. QED
  BY <1>3, <1>4

LEMMA UnquotedPieces ==
    ASSUME NEW t \in Seq(Word \ Escapes), NEW F, Flattening(F, Pieces(t), Word),
           NEW n \in Nat, n >= Len(t)
    PROVE  unquoted[n][F[Len(t)]] = t
<1> DEFINE m == Len(t)
           First(k) == SubSeq(t, 1, k)
           S == {k \in Nat : k <= m => \A rest \in Seq(Word) :
                    unquoted[n][F[k] \o rest] = First(k) \o unquoted[n - k][rest]}
<1>0. /\ m \in Nat /\ n >= m /\ t \in Seq(Word)
      /\ \A k \in Nat, s \in Seq(Word) : unquoted[k][s] \in Data
  <2>1. t \in Seq(Word)
    BY SeqMonotonic
  <2>2. m \in Nat
    BY LenProperties
  <2>3. QED
    BY <2>1, <2>2, UnquotedRule
<1>1. \A k \in Nat : F[k] \in Seq(Word)
  BY DEF Flattening
<1>2. 0 \in S
  <2>1. ASSUME NEW rest \in Seq(Word)
        PROVE  unquoted[n][F[0] \o rest] = First(0) \o unquoted[n - 0][rest]
    <3>1. F[0] \o rest = rest
      BY ConcatEmptySeq DEF Flattening
    <3>2. First(0) = <<>>
      BY SubSeqEmpty
    <3>3. unquoted[n][rest] \in Data /\ n - 0 = n
      BY <1>0
    <3>4. <<>> \o unquoted[n][rest] = unquoted[n][rest]
      BY <3>3, ConcatEmptySeq DEF Data
    <3>5. QED
      BY <3>1, <3>2, <3>3, <3>4
  <2>2. QED
    BY <2>1
<1>3. ASSUME NEW k \in Nat, k \in S, k + 1 <= m, NEW rest \in Seq(Word)
      PROVE  unquoted[n][F[k + 1] \o rest] = First(k + 1) \o unquoted[n - (k + 1)][rest]
  <2>1. /\ k + 1 \in 1 .. m /\ (k + 1) - 1 = k /\ k <= m /\ n - k \in Nat /\ n - k > 0
        /\ n - (k + 1) = (n - k) - 1 /\ n - (k + 1) \in Nat
    BY <1>0, <1>3
  <2> DEFINE w == t[k + 1]
             e == Escaped(t[k + 1])
  <2>2. w \in Word \ Escapes
    BY <2>1, ElementOfSeq
  <2>3. F[k + 1] = F[k] \o e
    BY <1>0, <2>1, PiecesProperties DEF Flattening
  <2>4. e \in Seq(Word) /\ F[k] \in Seq(Word) /\ e \o rest \in Seq(Word)
    BY <1>1, <2>2, EscapedWord, ConcatProperties
  <2>5. F[k + 1] \o rest = F[k] \o (e \o rest)
    <3> DEFINE u == F[k]
    <3>1. u \in Seq(Word) /\ e \in Seq(Word)
      BY <2>4
    <3> HIDE DEF e, u
    <3>2. (u \o e) \o rest = u \o (e \o rest)
      BY <3>1, Assoc
    <3>3. QED
      BY <2>3, <3>2 DEF u
  <2>6. unquoted[n][F[k] \o (e \o rest)] = First(k) \o unquoted[n - k][e \o rest]
    <3>1. \A r \in Seq(Word) : unquoted[n][F[k] \o r] = First(k) \o unquoted[n - k][r]
      BY <1>3, <2>1
    <3> HIDE DEF e
    <3>2. QED
      BY <2>4, <3>1
  <2>7. unquoted[n - k][e \o rest] = <<w>> \o unquoted[(n - k) - 1][rest]
    BY <2>1, <2>2, UnquotedStep
  <2>8. First(k + 1) = First(k) \o <<w>>
    <3>1. 1 \in 1 .. m /\ k + 1 \in 1 .. m
      BY <2>1
    <3>2. SubSeq(t, 1, k + 1) = SubSeq(t, 1, (k + 1) - 1) \o <<t[k + 1]>>
      BY <1>0, <3>1, SubSeqRecursiveSecond
    <3>3. QED
      BY <2>1, <3>2
  <2> DEFINE d == unquoted[(n - k) - 1][rest]
             p == First(k)
             o == <<w>>
  <2>9. d \in Data /\ p \in Data /\ o \in Data
    <3>1. d \in Data
      BY <1>0, <2>1
    <3>2. \A i \in 1 .. k : t[i] \in Word
      BY <1>0, <2>1, ElementOfSeq
    <3>3. p \in Seq(Word)
      BY <3>2, SubSeqProperties
    <3>4. p \in Data
      BY <3>3, SeqMonotonic DEF Data
    <3>5. o \in Data
      BY <2>2 DEF Data
    <3>6. QED
      BY <3>1, <3>4, <3>5
  <2>10. unquoted[n][F[k + 1] \o rest] = p \o (o \o d)
    BY <2>5, <2>6, <2>7
  <2>11. p \o (o \o d) = (p \o o) \o d
    <3> HIDE DEF p, o, d
    <3>1. QED
      BY <2>9, DataAssoc
  <2>12. First(k + 1) = p \o o /\ unquoted[n - (k + 1)][rest] = d
    BY <2>1, <2>8
  <2> HIDE DEF p, o, d
  <2>13. QED
    BY <2>10, <2>11, <2>12
<1>4. Nat \subseteq S
  <2>1. \A k \in Nat : k \in S => k + 1 \in S
    <3>1. ASSUME NEW k \in Nat, k \in S PROVE k + 1 \in S
      <4>1. k + 1 \in Nat
        OBVIOUS
      <4>2. k + 1 <= m => \A rest \in Seq(Word) :
              unquoted[n][F[k + 1] \o rest] = First(k + 1) \o unquoted[n - (k + 1)][rest]
        BY <1>3, <3>1
      <4>3. QED
        BY <4>1, <4>2
    <3>2. QED
      BY <3>1
  <2> HIDE DEF S
  <2>2. QED
    BY <1>2, <2>1, Induction
<1>5. <<>> \in Seq(Word)
  BY EmptySeq
<1>6. unquoted[n][F[m] \o <<>>] = First(m) \o unquoted[n - m][<<>>]
  <2>1. m <= m /\ m \in S
    <3> HIDE DEF m, S
    <3>1. QED
      BY <1>0, <1>4
  <2>2. \A rest \in Seq(Word) :
          unquoted[n][F[m] \o rest] = First(m) \o unquoted[n - m][rest]
    BY <2>1
  <2> HIDE DEF First, m, S
  <2>3. QED
    BY <1>5, <2>2
<1>7. unquoted[n - m][<<>>] = <<>>
  <2>1. n - m \in Nat
    BY <1>0
  <2>2. \A k \in Nat : unquoted[k][<<>>] = <<>>
    <3>1. unquoted[0][<<>>] = <<>>
      BY <1>5, UnquotedRule
    <3>2. ASSUME NEW k \in Nat PROVE unquoted[k + 1][<<>>] = <<>>
      <4>1. unquoted[k + 1][<<>>] = Unquoting(unquoted[k], <<>>)
        <5>1. unquoted[k + 1] = [s \in Seq(Word) |-> Unquoting(unquoted[k], s)]
          BY UnquotedRule
        <5>2. QED
          BY <1>5, <5>1
      <4>2. QED
        BY <4>1 DEF Unquoting
    <3>3. ASSUME NEW k \in Nat PROVE unquoted[k][<<>>] = <<>>
      <4>1. k = 0 \/ (k - 1 \in Nat /\ (k - 1) + 1 = k)
        OBVIOUS
      <4>2. QED
        BY <3>1, <3>2, <4>1
    <3>4. QED
      BY <3>3
  <2>3. QED
    BY <2>1, <2>2
<1>8. First(m) = t /\ F[m] \o <<>> = F[m] /\ t \o <<>> = t
  BY <1>0, <1>1, SubSeqFull, ConcatEmptySeq
<1> HIDE DEF S, First
<1>9. QED
  BY <1>6, <1>7, <1>8

-----------------------------------------------------------------------------
(* A value and an atomic term are read back as what they are.              *)

LEMMA TwoWords ==
    ASSUME NEW u \in Word, NEW v \in Word, NEW s \in Seq(Word)
    PROVE  <<u, v>> \o s = <<u>> \o (<<v>> \o s)
<1> DEFINE a == <<u>>
           b == <<v>>
           c == <<u, v>>
<1>1. a \in Seq(Word) /\ b \in Seq(Word) /\ c = a \o b
  <2>1. /\ a \in Seq(Word) /\ Len(a) = 1 /\ a[1] = u
        /\ b \in Seq(Word) /\ Len(b) = 1 /\ b[1] = v
    BY WordSeq
  <2>2. c \in Seq(Word) /\ Len(c) = 2 /\ c[1] = u /\ c[2] = v
    OBVIOUS
  <2> HIDE DEF a, b, c
  <2>3. /\ a \o b \in Seq(Word) /\ Len(a \o b) = Len(a) + Len(b)
        /\ \A i \in 1 .. Len(a) + Len(b) : (a \o b)[i] = IF i <= Len(a) THEN a[i] ELSE b[i - Len(a)]
    BY <2>1, ConcatProperties
  <2>4. \A i \in 1 .. Len(c) : c[i] = (a \o b)[i]
    BY <2>1, <2>2, <2>3
  <2>5. c = a \o b
    BY <2>1, <2>2, <2>3, <2>4, SeqEqual
  <2>6. QED
    BY <2>1, <2>5
<1> HIDE DEF a, b, c
<1>2. (a \o b) \o s = a \o (b \o s)
  BY <1>1, Assoc
<1>3. QED
  BY <1>1, <1>2 DEF a, b, c

LEMMA InnerOf ==
    ASSUME NEW v \in Word, NEW w \in Word, NEW s \in Seq(Word)
    PROVE  LET c == <<v>> \o s \o <<w>>
           IN  /\ c \in Seq(Word) /\ Len(c) = Len(s) + 2 /\ c # <<>> /\ c[1] = v
               /\ Inner(c) = s
<1> DEFINE a == <<v>> \o s
           e == <<w>>
           c == a \o e
           m == Len(s)
<1>1. /\ a \in Seq(Word) /\ Len(a) = m + 1 /\ a[1] = v /\ m \in Nat
      /\ \A i \in 1 .. m : a[i + 1] = s[i]
  <2> DEFINE d == <<v>>
  <2>1. d \in Seq(Word) /\ Len(d) = 1 /\ d[1] = v
    BY WordSeq
  <2> HIDE DEF d
  <2>2. /\ d \o s \in Seq(Word) /\ Len(d \o s) = Len(d) + m
        /\ \A i \in 1 .. Len(d) + m : (d \o s)[i] = IF i <= Len(d) THEN d[i] ELSE s[i - Len(d)]
    BY <2>1, ConcatProperties
  <2>3. m \in Nat
    OBVIOUS
  <2> DEFINE x == d \o s
  <2>4. x = a
    BY DEF d
  <2> HIDE DEF x, a, m
  <2>5. /\ x \in Seq(Word) /\ Len(x) = m + 1 /\ m \in Nat
        /\ \A i \in 1 .. 1 + m : x[i] = IF i <= 1 THEN v ELSE s[i - 1]
    BY <2>1, <2>2, <2>3 DEF x
  <2>6. x[1] = v /\ \A i \in 1 .. m : x[i + 1] = s[i]
    BY <2>5
  <2>7. QED
    BY <2>4, <2>5, <2>6
<1> HIDE DEF a
<1>2. /\ c \in Seq(Word) /\ Len(c) = m + 2
      /\ \A i \in 1 .. m + 1 : c[i] = a[i]
  <2>1. e \in Seq(Word) /\ Len(e) = 1
    BY WordSeq
  <2> HIDE DEF e
  <2>2. /\ c \in Seq(Word) /\ Len(c) = Len(a) + Len(e)
        /\ \A i \in 1 .. Len(a) + Len(e) : c[i] = IF i <= Len(a) THEN a[i] ELSE e[i - Len(a)]
    BY <1>1, <2>1, ConcatProperties
  <2> HIDE DEF c
  <2>3. QED
    BY <1>1, <2>1, <2>2
<1> HIDE DEF c, m
<1>3. c # <<>> /\ c[1] = v
  <2>1. c[1] = v
    BY <1>1, <1>2
  <2>2. Len(c) > 0
    BY <1>1, <1>2
  <2>3. c # <<>>
    BY <2>2
  <2>4. QED
    BY <2>1, <2>3
<1>4. Inner(c) = s
  <2> DEFINE x == SubSeq(c, 2, m + 1)
  <2>1. 2 \in Int /\ m + 1 \in Int /\ \A i \in 2 .. m + 1 : c[i] \in Word
    BY <1>1, <1>2, ElementOfSeq
  <2>2. /\ x \in Seq(Word) /\ Len(x) = IF 2 <= m + 1 THEN (m + 1) - 2 + 1 ELSE 0
        /\ \A i \in 1 .. (m + 1) - 2 + 1 : x[i] = c[2 + i - 1]
    BY <2>1, SubSeqProperties
  <2> HIDE DEF x
  <2>3. Len(x) = m /\ \A i \in 1 .. m : x[i] = s[i]
    <3>1. Len(x) = m
      BY <1>1, <2>2
    <3>2. ASSUME NEW i \in 1 .. m PROVE x[i] = s[i]
      <4>1. i \in 1 .. (m + 1) - 2 + 1 /\ 2 + i - 1 = i + 1 /\ i + 1 \in 1 .. m + 1
        BY <1>1
      <4>2. x[i] = c[i + 1]
        BY <2>2, <4>1
      <4>3. QED
        BY <1>1, <1>2, <4>1, <4>2
    <3>3. QED
      BY <3>1, <3>2
  <2>4. x = s
    BY <2>2, <2>3, SeqEqual DEF m
  <2>5. Len(c) - 1 = m + 1
    BY <1>1, <1>2
  <2>6. QED
    BY <2>4, <2>5 DEF Inner, x
<1>5. QED
  BY <1>2, <1>3, <1>4 DEF c, a, m

LEMMA LanguageWords == Language \subseteq Word /\ Texts \subseteq Seq(Word)
BY DqlAssumption DEF Word

\* A text that can be written has no word that is an escape.
LEMMA WritableText ==
    ASSUME NEW v, v.kind # "plain", Writable(v), v.data \in Texts
    PROVE  v.data \in Seq(Word \ Escapes)
<1> DEFINE t == v.data
<1>1. \A i \in DOMAIN t : t[i] \notin Escapes
  BY DEF Writable
<1>2. t \in Seq(Word)
  BY LanguageWords
<1> HIDE DEF t
<1>3. Len(t) \in Nat /\ t \in [1 .. Len(t) -> Word \ Escapes]
  BY <1>1, <1>2
<1>4. t \in Seq(Word \ Escapes)
  BY <1>3, SeqDef
<1>5. QED
  BY <1>4 DEF t

LEMMA QuoteRead ==
    ASSUME NEW t \in Seq(Word \ Escapes)
    PROVE  /\ Plain(quote(t)) /\ quote(t) \in Seq(Word) /\ quote(t)[1] = "'"
           /\ Quoted(quote(t)) = [kind |-> "string", data |-> t]
<1>1. t \in Seq(Word) /\ Len(t) \in Nat /\ "'" \in Word
  BY SeqMonotonic, LenProperties, LanguageWords DEF Language
<1>2. PICK F : /\ Flattening(F, Pieces(t), Word)
               /\ quote(t) = <<"'">> \o F[Len(t)] \o <<"'">>
               /\ Plain(quote(t))
  BY <1>1, QuoteProperties
<1> DEFINE s == F[Len(t)]
           q == quote(t)
<1>3. s \in Seq(Word) /\ Len(s) >= Len(t)
  <2>1. Len(t) \in 0 .. Len(t)
    BY <1>1
  <2>2. Len(s) >= Len(t)
    BY <1>1, <1>2, <2>1, QuoteInString
  <2>3. QED
    BY <1>1, <1>2, <2>2 DEF Flattening
<1>4. q \in Seq(Word) /\ Len(q) = Len(s) + 2 /\ q[1] = "'" /\ Inner(q) = s
  <2> HIDE DEF s
  <2>1. q = <<"'">> \o s \o <<"'">>
    BY <1>2 DEF s
  <2> HIDE DEF q
  <2>2. QED
    BY <1>1, <1>3, <2>1, InnerOf
<1>5. unquoted[Len(q)][s] = t
  <2>1. Len(q) \in Nat /\ Len(q) >= Len(t)
    <3> HIDE DEF q, s
    <3>1. Len(s) \in Nat
      BY <1>3
    <3>2. QED
      BY <1>1, <1>3, <1>4, <3>1
  <2> HIDE DEF q
  <2>2. QED
    BY <1>2, <2>1, UnquotedPieces
<1>6. Quoted(q) = [kind |-> "string", data |-> t]
  <2> HIDE DEF q, s
  <2>1. QED
    BY <1>4, <1>5 DEF Quoted
<1>7. QED
  BY <1>2, <1>4, <1>6

LEMMA ValueRead ==
    ASSUME NEW v \in Values, Writable(v)
    PROVE  Plain(render_value(v)) /\ ReadValue(render_value(v)) = v
<1>1. CASE v \in Strings
  <2>1. v.kind = "string" /\ v.data \in Texts /\ v = [kind |-> "string", data |-> v.data]
    BY <1>1 DEF Strings
  <2>2. v.data \in Seq(Word \ Escapes) /\ render_value(v) = quote(v.data)
    BY <2>1, WritableText DEF render_value
  <2>3. Plain(quote(v.data)) /\ quote(v.data)[1] = "'"
    BY <2>2, QuoteRead
  <2>4. Quoted(quote(v.data)) = v
    BY <2>1, <2>2, QuoteRead
  <2>5. QED
    BY <2>2, <2>3, <2>4 DEF ReadValue
<1>2. CASE v \in [kind : {"plain"}, data : {<<w>> : w \in Words}]
  <2>1. PICK w \in Words : v.data = <<w>>
    BY <1>2
  <2>2. v.kind = "plain" /\ v = [kind |-> "plain", data |-> v.data]
    BY <1>2
  <2>3. render_value(v) = <<w>>
    <3>1. v.data[1] = w /\ SixDecimals[w] = w
      BY <2>1, <2>2 DEF Writable
    <3>2. QED
      BY <2>2, <3>1 DEF render_value, render_double
  <2>4. w \in Word /\ w \notin Language
    BY DqlAssumption DEF Word
  <2>5. Plain(<<w>>)
    BY <2>4, PlainWord DEF Language
  <2>6. <<w>>[1] = w /\ w # "'" /\ w # "@dt"
    BY <2>4 DEF Language
  <2>7. ReadValue(<<w>>) = [kind |-> "plain", data |-> <<w>>]
    BY <2>6 DEF ReadValue
  <2>8. QED
    BY <2>1, <2>2, <2>3, <2>5, <2>7
<1>3. CASE v \in [kind : {"datetime"}, data : Texts \ {<<>>}]
  <2>1. v.kind = "datetime" /\ v.data \in Texts /\ v = [kind |-> "datetime", data |-> v.data]
    BY <1>3
  <2>2. v.data \in Seq(Word \ Escapes)
    BY <2>1, WritableText
  <2> DEFINE q == quote(v.data)
             p == <<"(">> \o q \o <<")">>
             s == <<"@dt">> \o p
  <2>3. /\ Plain(q) /\ q \in Seq(Word) /\ "(" \in Word /\ ")" \in Word /\ "@dt" \in Word
        /\ Quoted(q) = [kind |-> "string", data |-> v.data]
    BY <2>2, QuoteRead, LanguageWords DEF Language
  <2> HIDE DEF q
  <2>4. Plain(p) /\ p \in Seq(Word) /\ Inner(p) = q
    BY <2>3, PlainParens, InnerOf DEF Plain
  <2>5. render_value(v) = s
    <3>1. render_value(v) = <<"@dt", "(">> \o q \o <<")">>
      BY <2>1 DEF render_value, q
    <3>2. <<"@dt", "(">> \o q = <<"@dt">> \o (<<"(">> \o q)
      BY <2>3, TwoWords
    <3> DEFINE a == <<"@dt">>
               b == <<"(">> \o q
               c == <<")">>
    <3>3. a \in Seq(Word) /\ b \in Seq(Word) /\ c \in Seq(Word)
      BY <2>3, WordSeq, TailOfConcat
    <3>4. (a \o b) \o c = a \o (b \o c)
      <4> HIDE DEF a, b, c
      <4>1. QED
        BY <3>3, Assoc
    <3>5. QED
      BY <3>1, <3>2, <3>4
  <2>6. Plain(s)
    BY <2>3, <2>4, PlainWord, PlainConcat
  <2>7. s[1] = "@dt" /\ Tail(s) = p
    <3> HIDE DEF p
    <3>1. QED
      BY <2>3, <2>4, TailOfConcat
  <2> HIDE DEF s
  <2>8. ReadValue(s) = [Quoted(q) EXCEPT !.kind = "datetime"]
    BY <2>4, <2>7 DEF ReadValue
  <2>9. [Quoted(q) EXCEPT !.kind = "datetime"] = [kind |-> "datetime", data |-> v.data]
    BY <2>3
  <2>10. QED
    BY <2>1, <2>5, <2>6, <2>8, <2>9
<1>4. QED
  BY <1>1, <1>2, <1>3 DEF Values

LEMMA RestOf ==
    ASSUME NEW u \in Word, NEW v \in Word, NEW s \in Seq(Word), s # <<>>
    PROVE  LET c == <<u, v>> \o s
           IN  c \in Seq(Word) /\ c[1] = u /\ c[2] = v /\ SubSeq(c, 3, Len(c)) = s
<1> DEFINE p == <<u, v>>
           c == p \o s
           m == Len(s)
<1>1. p \in Seq(Word) /\ Len(p) = 2 /\ p[1] = u /\ p[2] = v
  OBVIOUS
<1>2. m \in Nat /\ m > 0
  BY EmptySeq
<1> HIDE DEF p
<1>3. /\ c \in Seq(Word) /\ Len(c) = Len(p) + m
      /\ \A i \in 1 .. Len(p) + m : c[i] = IF i <= Len(p) THEN p[i] ELSE s[i - Len(p)]
  BY <1>1, ConcatProperties
<1>4. c \in Seq(Word) /\ Len(c) = 2 + m /\ c[1] = u /\ c[2] = v
  <2> HIDE DEF c, m
  <2>1. QED
    BY <1>1, <1>2, <1>3
<1>5. SubSeq(c, 3, Len(c)) = s
  <2>1. 3 \in Len(p) + 1 .. Len(p) + m /\ Len(c) \in Len(p) + 1 .. Len(p) + m
    <3> HIDE DEF c, m
    <3>1. QED
      BY <1>1, <1>2, <1>4
  <2>2. SubSeq(c, 3, Len(c)) = SubSeq(s, 3 - Len(p), Len(c) - Len(p))
    BY <1>1, <2>1, SubSeqOfConcat2
  <2>3. 3 - Len(p) = 1 /\ Len(c) - Len(p) = m
    <3> HIDE DEF c, m
    <3>1. QED
      BY <1>1, <1>2, <1>4
  <2>4. SubSeq(s, 1, m) = s
    BY SubSeqFull
  <2>5. QED
    BY <2>2, <2>3, <2>4
<1>6. QED
  BY <1>4, <1>5 DEF p

LEMMA ComparisonRead ==
    ASSUME NEW f \in Fields \ Language, NEW op \in Relations, NEW v \in Values, Writable(v)
    PROVE  LET s == <<f, op>> \o render_value(v)
           IN  Plain(s) /\ s[1] = f /\ ReadTerm(s) = <<f, op, v>>
<1> DEFINE r == render_value(v)
           s == <<f, op>> \o r
<1>1. /\ Plain(r) /\ ReadValue(r) = v /\ r \in Seq(Word) /\ r # <<>>
  BY ValueRead DEF Plain, Neat
<1>2. f \in Word /\ op \in Word /\ f \notin Language /\ op \notin Language
  BY DqlAssumption DEF Word
<1> HIDE DEF r
<1>3. Plain(s)
  <2>1. Plain(<<f>>) /\ Plain(<<op>>)
    BY <1>2, PlainWord DEF Language
  <2>2. Plain(<<f>> \o (<<op>> \o r))
    BY <1>1, <2>1, PlainConcat
  <2>3. QED
    BY <1>1, <1>2, <2>2, TwoWords
<1>4. s[1] = f /\ s[2] = op /\ SubSeq(s, 3, Len(s)) = r
  BY <1>1, <1>2, RestOf
<1>5. ReadTerm(s) = <<f, op, v>>
  <2>1. op # "contains"
    BY <1>2 DEF Language
  <2> HIDE DEF s
  <2>2. QED
    BY <1>1, <1>4, <2>1 DEF ReadTerm
<1>6. QED
  BY <1>3, <1>4, <1>5 DEF r

LEMMA ContainsRead ==
    ASSUME NEW f \in Fields \ Language, NEW v \in Strings, Writable(v)
    PROVE  LET s == <<f, "contains", "(">> \o render_value(v) \o <<")">>
           IN  Plain(s) /\ s[1] = f /\ ReadTerm(s) = <<f, "contains", v>>
<1> DEFINE r == render_value(v)
           p == <<"(">> \o r \o <<")">>
           o == <<f, "contains">>
           s == o \o p
<1>1. /\ Plain(r) /\ Neat(r) /\ ReadValue(r) = v /\ r \in Seq(Word)
  BY ValueRead DEF Values, Plain, Neat
<1>2. /\ f \in Word /\ f \notin Language
      /\ "contains" \in Word /\ "(" \in Word /\ ")" \in Word
  BY DqlAssumption DEF Word, Language
<1> HIDE DEF r
<1>3. Plain(p) /\ p \in Seq(Word) /\ p # <<>> /\ Inner(p) = r
  BY <1>1, <1>2, PlainParens, InnerOf
<1>4. <<f, "contains", "(">> \o r \o <<")">> = s
  <2> DEFINE a == <<"(">>
             b == <<")">>
             t == <<f, "contains", "(">>
  <2>1. a \in Seq(Word) /\ b \in Seq(Word) /\ o \in Seq(Word) /\ t \in Seq(Word)
    BY <1>2
  <2>2. Len(a) = 1 /\ Len(b) = 1 /\ Len(o) = 2 /\ Len(t) = 3
    OBVIOUS
  <2>3. a[1] = "(" /\ o[1] = f /\ o[2] = "contains" /\ t[1] = f /\ t[2] = "contains" /\ t[3] = "("
    OBVIOUS
  <2> HIDE DEF a, b, o, t
  <2>4. /\ o \o a \in Seq(Word) /\ Len(o \o a) = Len(o) + Len(a)
        /\ \A i \in 1 .. Len(o) + Len(a) : (o \o a)[i] = IF i <= Len(o) THEN o[i] ELSE a[i - Len(o)]
    BY <2>1, ConcatProperties
  <2>5. \A i \in 1 .. Len(t) : t[i] = (o \o a)[i]
    BY <2>2, <2>3, <2>4
  <2>6. t = o \o a
    BY <2>1, <2>2, <2>4, <2>5, SeqEqual
  <2>7. a \o r \in Seq(Word)
    BY <1>1, <2>1, ConcatProperties
  <2>8. (o \o a) \o r = o \o (a \o r)
    <3>1. o \in Seq(Word) /\ a \in Seq(Word) /\ r \in Seq(Word)
      BY <1>1, <2>1
    <3>2. QED
      BY <3>1, Assoc
  <2>9. (o \o (a \o r)) \o b = o \o ((a \o r) \o b)
    <3>1. o \in Seq(Word) /\ b \in Seq(Word)
      BY <2>1
    <3> DEFINE x == a \o r
    <3>2. x \in Seq(Word)
      BY <2>7
    <3> HIDE DEF x
    <3>3. (o \o x) \o b = o \o (x \o b)
      BY <3>1, <3>2, Assoc
    <3>4. QED
      BY <3>3 DEF x
  <2>10. (t \o r) \o b = o \o ((a \o r) \o b)
    BY <2>6, <2>8, <2>9
  <2>11. QED
    BY <2>10 DEF a, b, o, t
<1> HIDE DEF p
<1>5. Plain(s)
  <2>1. Plain(<<f>>) /\ Plain(<<"contains">>)
    BY <1>2, PlainWord DEF Language
  <2>2. Plain(<<f>> \o (<<"contains">> \o p))
    BY <1>3, <2>1, PlainConcat
  <2>3. QED
    BY <1>2, <1>3, <2>2, TwoWords
<1>6. s[1] = f /\ s[2] = "contains" /\ SubSeq(s, 3, Len(s)) = p
  BY <1>2, <1>3, RestOf
<1>7. ReadTerm(s) = <<f, "contains", v>>
  <2> HIDE DEF s
  <2>1. QED
    BY <1>1, <1>3, <1>6 DEF ReadTerm
<1>8. QED
  BY <1>4, <1>5, <1>6, <1>7 DEF r

-----------------------------------------------------------------------------
(* reads is what its definition says: a text splits at its last separator. *)

LEMMA MaxProperties ==
    ASSUME NEW n \in Nat, NEW S \in SUBSET (1 .. n), S # {}
    PROVE  Max(S) \in S /\ \A y \in S : Max(S) >= y
<1> DEFINE T == {k \in Nat : n - k \in S}
<1>1. PICK y \in S : TRUE
  OBVIOUS
<1>2. y \in 1 .. n
  OBVIOUS
<1>3. n - y \in Nat /\ n - (n - y) = y
  BY <1>2
<1>4. n - y \in T
  BY <1>3
<1>5. PICK k \in T : \A j \in T : ~ (j < k)
  BY <1>4, Least
<1>6. n - k \in S /\ k \in Nat
  BY <1>5
<1>7. \A z \in S : n - k >= z
  <2> SUFFICES ASSUME NEW z \in S PROVE n - k >= z
    OBVIOUS
  <2>1. z \in 1 .. n
    OBVIOUS
  <2>2. n - z \in Nat /\ n - (n - z) = z
    BY <2>1
  <2>3. n - z \in T
    BY <2>2
  <2>4. ~ (n - z < k)
    BY <1>5, <2>3
  <2>5. QED
    BY <1>6, <2>1, <2>4
<1>8. \E x \in S : \A z \in S : x >= z
  BY <1>6, <1>7
<1>9. QED
  BY <1>8 DEF Max

LEMMA PartTyped ==
    ASSUME NEW s \in Seq(Word), NEW i \in Int, NEW j \in Int, i >= 1, j <= Len(s)
    PROVE  SubSeq(s, i, j) \in Seq(Word)
<1>1. Len(s) \in Nat
  OBVIOUS
<1>2. \A k \in i .. j : k \in 1 .. Len(s)
  BY <1>1
<1>3. \A k \in i .. j : s[k] \in Word
  BY <1>2, ElementOfSeq
<1>4. QED
  BY <1>3, SubSeqProperties

LEMMA ReadingType ==
    ASSUME NEW g \in [Seq(Word) -> SUBSET Documents], NEW s \in Seq(Word)
    PROVE  Reading(g, s) \in SUBSET Documents
<1> DEFINE Before(w) == g[SubSeq(s, 1, Max(At(s, w)) - 1)]
           After(w) == g[SubSeq(s, Max(At(s, w)) + 1, Len(s))]
<1>1. CASE s = <<>>
  BY <1>1 DEF Reading
<1>2. CASE s # <<>>
  <2>1. s[1] \in Word /\ Len(s) \in Nat /\ Len(s) > 0 /\ Tail(s) \in Seq(Word)
    BY <1>2, TailTyped
  <2>2. ASSUME NEW w, At(s, w) # {}
        PROVE  Before(w) \in SUBSET Documents /\ After(w) \in SUBSET Documents
    <3> DEFINE m == Max(At(s, w))
    <3>1. At(s, w) \in SUBSET (1 .. Len(s))
      BY <2>1, LenProperties DEF At
    <3>2. m \in 1 .. Len(s)
      BY <2>1, <2>2, <3>1, MaxProperties
    <3> HIDE DEF m
    <3>3. 1 \in Int /\ m - 1 \in Int /\ m - 1 <= Len(s) /\ m + 1 \in Int /\ m + 1 >= 1
          /\ Len(s) \in Int
      BY <2>1, <3>2
    <3>4. SubSeq(s, 1, m - 1) \in Seq(Word) /\ SubSeq(s, m + 1, Len(s)) \in Seq(Word)
      BY <3>3, PartTyped
    <3>5. g[SubSeq(s, 1, m - 1)] \in SUBSET Documents
          /\ g[SubSeq(s, m + 1, Len(s))] \in SUBSET Documents
      BY <3>4
    <3>6. QED
      BY <3>5 DEF m
  <2>3. g[Tail(s)] \in SUBSET Documents
    BY <2>1
  <2>4. g[Inner(s)] \in SUBSET Documents
    <3>1. 2 \in Int /\ Len(s) - 1 \in Int /\ Len(s) - 1 <= Len(s)
      BY <2>1
    <3>2. Inner(s) \in Seq(Word)
      BY <3>1, PartTyped DEF Inner
    <3>3. QED
      BY <3>2
  <2>5. CASE At(s, "or") # {}
    <3>1. Reading(g, s) = Before("or") \cup After("or")
      BY <1>2, <2>5 DEF Reading
    <3>2. QED
      BY <2>2, <2>5, <3>1
  <2>6. CASE At(s, "or") = {} /\ At(s, "and") # {}
    <3>1. Reading(g, s) = Before("and") \cap After("and")
      BY <1>2, <2>6 DEF Reading
    <3>2. QED
      BY <2>2, <2>6, <3>1
  <2>7. CASE At(s, "or") = {} /\ At(s, "and") = {}
    <3>1. Reading(g, s) = IF s[1] = "not" THEN Documents \ g[Tail(s)]
                          ELSE IF s[1] = "(" THEN g[Inner(s)]
                          ELSE {doc \in Documents : ReadTerm(s) \in doc}
      BY <1>2, <2>7 DEF Reading
    <3>2. QED
      BY <2>3, <2>4, <3>1
  <2>8. QED
    BY <2>5, <2>6, <2>7
<1>3. QED
  BY <1>1, <1>2

LEMMA ReadsRule ==
    /\ \A n \in Nat : reads[n + 1] = [s \in Seq(Word) |-> Reading(reads[n], s)]
    /\ reads \in [Nat -> [Seq(Word) -> SUBSET Documents]]
<1> DEFINE D == [Seq(Word) -> SUBSET Documents]
           base == [s \in Seq(Word) |-> {}]
           step == [x \in Nat \X D |-> [s \in Seq(Word) |-> Reading(x[2], s)]]
           Rule(f) == f = [n \in Nat |-> [s \in Seq(Word) |->
                             IF n = 0 THEN {} ELSE Reading(f[n - 1], s)]]
<1>1. base \in D
  OBVIOUS
<1>2. step \in [Nat \X D -> D]
  <2>1. ASSUME NEW x \in Nat \X D
        PROVE  [s \in Seq(Word) |-> Reading(x[2], s)] \in D
    BY ReadingType
  <2>2. QED
    BY <2>1
<1>3. \A n \in Nat, g \in D : step[<<n, g>>] = [s \in Seq(Word) |-> Reading(g, s)]
  OBVIOUS
<1>4. PICK f \in [Nat -> D] : Recursive(f, base, step)
  <2> HIDE DEF D, base, step
  <2>1. QED
    BY <1>1, <1>2, Recursion
<1> HIDE DEF step
<1>5. f[0] = base /\ \A n \in Nat : f[n + 1] = [s \in Seq(Word) |-> Reading(f[n], s)]
  <2> HIDE DEF D, base
  <2>1. QED
    BY <1>3, <1>4 DEF Recursive
<1>6. Rule(f)
  <2>1. ASSUME NEW n \in Nat
        PROVE  f[n] = [s \in Seq(Word) |-> IF n = 0 THEN {} ELSE Reading(f[n - 1], s)]
    <3>1. CASE n = 0
      BY <1>5, <3>1
    <3>2. CASE n # 0
      <4>1. n - 1 \in Nat /\ (n - 1) + 1 = n
        BY <3>2
      <4>2. f[n] = [s \in Seq(Word) |-> Reading(f[n - 1], s)]
        BY <1>5, <4>1
      <4>3. QED
        BY <3>2, <4>2
    <3>3. QED
      BY <3>1, <3>2
  <2>2. QED
    BY <1>4, <2>1
<1>7. reads = CHOOSE g : Rule(g)
  BY DEF reads
<1>8. Rule(reads)
  <2> HIDE DEF Rule
  <2>1. QED
    BY <1>6, <1>7
<1>9. \A n \in Nat :
        reads[n] = [s \in Seq(Word) |-> IF n = 0 THEN {} ELSE Reading(reads[n - 1], s)]
  BY <1>8
<1>10. reads[0] = base
  BY <1>9
<1>11. ASSUME NEW n \in Nat
       PROVE  reads[n + 1] = [s \in Seq(Word) |-> Reading(reads[n], s)]
  <2>1. n + 1 \in Nat /\ n + 1 # 0 /\ (n + 1) - 1 = n
    OBVIOUS
  <2>2. QED
    BY <1>9, <2>1
<1>12. Nat \subseteq {n \in Nat : reads[n] \in D}
  <2> DEFINE S == {n \in Nat : reads[n] \in D}
  <2>1. 0 \in S
    BY <1>1, <1>10
  <2>2. ASSUME NEW n \in Nat, n \in S PROVE n + 1 \in S
    <3>1. reads[n] \in [Seq(Word) -> SUBSET Documents]
      BY <2>2
    <3>2. [s \in Seq(Word) |-> Reading(reads[n], s)] \in D
      BY <3>1, ReadingType
    <3>3. reads[n + 1] \in D /\ n + 1 \in Nat
      <4>1. reads[n + 1] = [s \in Seq(Word) |-> Reading(reads[n], s)]
        BY <1>11
      <4> HIDE DEF D
      <4>2. QED
        BY <3>2, <4>1
    <3>4. QED
      BY <3>3
  <2> HIDE DEF S
  <2>3. Nat \subseteq S
    BY <2>1, <2>2, Induction
  <2>4. QED
    BY <2>3 DEF S
<1>13. reads = [n \in Nat |-> reads[n]]
  BY <1>8
<1>14. QED
  BY <1>11, <1>12, <1>13

\* How a text that is not empty is read, in the order of the cases.
LEMMA ReadsStep ==
    ASSUME NEW n \in Nat, n > 0, NEW s \in Seq(Word)
    PROVE  reads[n][s] = Reading(reads[n - 1], s)
<1>1. n - 1 \in Nat /\ (n - 1) + 1 = n
  OBVIOUS
<1>2. reads[(n - 1) + 1] = [x \in Seq(Word) |-> Reading(reads[n - 1], x)]
  BY <1>1, ReadsRule
<1>3. reads[n] = [x \in Seq(Word) |-> Reading(reads[n - 1], x)]
  BY <1>1, <1>2
<1>4. QED
  BY <1>3

-----------------------------------------------------------------------------
(* A text that is joined from two parts is read part by part.              *)

With(a, op, u) == a \o (<<op>> \o u)

Both(op, x, y) == IF op = "or" THEN x \cup y ELSE x \cap y

\* The reader of s sees a, the word op and u.
SplitsAt(s, op, other, a, u) ==
    /\ Neat(s) /\ Len(s) = Len(a) + Len(u) + 1 /\ Len(a) \in Nat /\ Len(u) \in Nat
    /\ At(s, other) = {} /\ At(s, op) # {}
    /\ Max(At(s, op)) = Len(a) + 1
    /\ SubSeq(s, 1, Len(a)) = a
    /\ SubSeq(s, Len(a) + 2, Len(s)) = u

LEMMA JoinPlaces ==
    ASSUME NEW op \in {"and", "or"}, NEW other \in {"and", "or"}, op # other,
           NEW a, Neat(a), At(a, other) = {}, NEW u, Plain(u)
    PROVE  SplitsAt(With(a, op, u), op, other, a, u)
<1> DEFINE e == <<op>>
           b == e \o u
           s == a \o b
           m == Len(a)
           k == Len(u)
<1>1. /\ a \in Seq(Word) /\ u \in Seq(Word) /\ m \in Nat /\ k \in Nat /\ m > 0 /\ k > 0
      /\ Neat(u) /\ At(u, op) = {} /\ At(u, other) = {}
  BY DEF Plain, Neat
<1>2. /\ Neat(e) /\ At(e, op) = {1} /\ At(e, other) = {} /\ Len(e) = 1 /\ e \in Seq(Word)
  <2>1. op \in Word \ {"'", "(", ")"}
    BY LanguageWords DEF Language
  <2>2. QED
    BY <2>1, NeatWord, WordSeq
<1> HIDE DEF e
<1>3. /\ Neat(b) /\ Len(b) = 1 + k
      /\ \A w : 1 \in At(b, w) <=> 1 \in At(e, w)
      /\ \A w : \A i \in 1 .. k : 1 + i \in At(b, w) <=> i \in At(u, w)
  <2>1. /\ Neat(b) /\ Len(b) = Len(e) + k
        /\ \A w : \A i \in 1 .. Len(e) : i \in At(b, w) <=> i \in At(e, w)
        /\ \A w : \A i \in 1 .. k : Len(e) + i \in At(b, w) <=> i \in At(u, w)
    BY <1>1, <1>2, NeatConcat
  <2> HIDE DEF b, k
  <2>2. QED
    BY <1>1, <1>2, <2>1
<1>4. b \in Seq(Word) /\ DOMAIN b = 1 .. 1 + k /\ b # <<>>
  BY <1>3 DEF Neat
<1>5. \A w : At(b, w) \subseteq 1 .. 1 + k
  BY <1>4 DEF At
<1>6. At(b, op) = {1} /\ At(b, other) = {}
  <2>1. ASSUME NEW w, NEW i \in At(b, w), w \in {op, other} PROVE i = 1
    <3> SUFFICES ASSUME i # 1 PROVE FALSE
      OBVIOUS
    <3>1. i \in 1 .. 1 + k
      BY <1>5
    <3>2. i - 1 \in 1 .. k /\ 1 + (i - 1) = i
      BY <1>1, <3>1
    <3>3. i - 1 \in At(u, w)
      BY <1>3, <3>2
    <3>4. QED
      BY <1>1, <2>1, <3>3
  <2>2. 1 \in At(b, op) /\ ~ (1 \in At(b, other))
    BY <1>2, <1>3
  <2> HIDE DEF b
  <2>3. QED
    BY <2>1, <2>2
<1>7. /\ Neat(s) /\ Len(s) = m + (1 + k)
      /\ \A w : \A i \in 1 .. m : i \in At(s, w) <=> i \in At(a, w)
      /\ \A w : \A i \in 1 .. 1 + k : m + i \in At(s, w) <=> i \in At(b, w)
  <2>1. /\ Neat(s) /\ Len(s) = m + Len(b)
        /\ \A w : \A i \in 1 .. m : i \in At(s, w) <=> i \in At(a, w)
        /\ \A w : \A i \in 1 .. Len(b) : m + i \in At(s, w) <=> i \in At(b, w)
    <3> HIDE DEF b
    <3>1. QED
      BY <1>3, NeatConcat
  <2> HIDE DEF s, b, m, k
  <2>2. QED
    BY <1>3, <2>1
<1>8. s \in Seq(Word) /\ DOMAIN s = 1 .. m + (1 + k)
  BY <1>7 DEF Neat
<1>9. \A w : At(s, w) \subseteq 1 .. m + (1 + k)
  BY <1>8 DEF At
<1>10. SubSeq(s, 1, m) = a /\ SubSeq(s, m + 2, m + (1 + k)) = u
  <2>1. 1 \in 1 .. m /\ m \in 1 .. m
    BY <1>1
  <2>2. SubSeq(s, 1, m) = SubSeq(a, 1, m)
    <3> HIDE DEF b
    <3>1. QED
      BY <1>1, <1>4, <2>1, SubSeqOfConcat1
  <2>3. SubSeq(a, 1, m) = a
    BY <1>1, SubSeqFull
  <2>4. m + 2 \in m + 1 .. m + Len(b) /\ m + (1 + k) \in m + 1 .. m + Len(b)
    <3> HIDE DEF b, m, k
    <3>1. QED
      BY <1>1, <1>3
  <2>5. SubSeq(s, m + 2, m + (1 + k)) = SubSeq(b, (m + 2) - m, (m + (1 + k)) - m)
    <3> HIDE DEF b
    <3>1. QED
      BY <1>1, <1>4, <2>4, SubSeqOfConcat2
  <2>6. (m + 2) - m = 2 /\ (m + (1 + k)) - m = 1 + k
    <3> HIDE DEF m, k
    <3>1. QED
      BY <1>1
  <2>7. SubSeq(b, 2, 1 + k) = SubSeq(u, 1, k)
    <3>1. 2 \in Len(e) + 1 .. Len(e) + k /\ 1 + k \in Len(e) + 1 .. Len(e) + k
      <4> HIDE DEF k
      <4>1. QED
        BY <1>1, <1>2
    <3>2. SubSeq(b, 2, 1 + k) = SubSeq(u, 2 - Len(e), (1 + k) - Len(e))
      <4>1. e \in Seq(Word) /\ u \in Seq(Word)
        BY <1>1, <1>2
      <4> HIDE DEF k
      <4>2. SubSeq(e \o u, 2, 1 + k) = SubSeq(u, 2 - Len(e), (1 + k) - Len(e))
        BY <3>1, <4>1, SubSeqOfConcat2 DEF k
      <4>3. QED
        BY <4>2
    <3>3. 2 - Len(e) = 1 /\ (1 + k) - Len(e) = k
      <4> HIDE DEF k
      <4>1. QED
        BY <1>1, <1>2
    <3>4. QED
      BY <3>2, <3>3
  <2>8. SubSeq(u, 1, k) = u
    BY <1>1, SubSeqFull
  <2>9. QED
    BY <2>2, <2>3, <2>5, <2>6, <2>7, <2>8
<1> HIDE DEF s, b
<1>11. \A w : \A i \in At(s, w) :
          i \in At(a, w) \/ (i - m \in At(b, w) /\ i = m + (i - m))
  <2> SUFFICES ASSUME NEW w, NEW i \in At(s, w), i \notin At(a, w)
               PROVE  i - m \in At(b, w) /\ i = m + (i - m)
    OBVIOUS
  <2>1. i \in 1 .. m + (1 + k)
    BY <1>9
  <2>2. i \notin 1 .. m
    BY <1>7
  <2> HIDE DEF m, k
  <2>3. i - m \in 1 .. 1 + k /\ i = m + (i - m)
    BY <1>1, <2>1, <2>2
  <2>4. QED
    BY <1>7, <2>3
<1>12. At(s, other) = {}
  BY <1>6, <1>11
<1>13. m + 1 \in At(s, op)
  <2>1. 1 \in 1 .. 1 + k
    BY <1>1
  <2>2. QED
    BY <1>6, <1>7, <2>1
<1>14. Max(At(s, op)) = m + 1
  <2>1. At(s, op) \in SUBSET (1 .. m + (1 + k)) /\ m + (1 + k) \in Nat
    BY <1>1, <1>9
  <2>2. Max(At(s, op)) \in At(s, op) /\ \A y \in At(s, op) : Max(At(s, op)) >= y
    BY <1>13, <2>1, MaxProperties
  <2> DEFINE x == Max(At(s, op))
  <2>3. x >= m + 1 /\ x \in 1 .. m + (1 + k)
    BY <1>13, <2>1, <2>2
  <2>4. x \in At(a, op) => x \in 1 .. m
    BY <1>1 DEF At
  <2>5. x \in At(a, op) \/ x = m + 1
    <3>1. x \in At(a, op) \/ (x - m \in At(b, op) /\ x = m + (x - m))
      BY <1>11, <2>2
    <3> HIDE DEF x
    <3>2. QED
      BY <1>6, <3>1
  <2> HIDE DEF x, m, k
  <2>6. x = m + 1
    BY <1>1, <2>3, <2>4, <2>5
  <2>7. QED
    BY <2>6 DEF x
<1>15. Len(s) = m + k + 1 /\ m + (1 + k) = Len(s)
  <2> HIDE DEF m, k
  <2>1. QED
    BY <1>1, <1>7
<1>16. s = With(a, op, u)
  BY DEF s, b, e, With
<1>17. QED
  BY <1>1, <1>7, <1>10, <1>12, <1>13, <1>14, <1>15, <1>16 DEF SplitsAt

LEMMA JoinRead ==
    ASSUME NEW op \in {"and", "or"}, NEW other \in {"and", "or"}, op # other,
           NEW a, Neat(a), At(a, other) = {}, NEW u, Plain(u),
           NEW n \in Nat, n >= Len(With(a, op, u))
    PROVE  /\ n - 1 \in Nat /\ n - 1 >= Len(a) /\ n - 1 >= Len(u)
           /\ reads[n][With(a, op, u)] = Both(op, reads[n - 1][a], reads[n - 1][u])
<1> DEFINE s == With(a, op, u)
           g == reads[n - 1]
<1>1. /\ Neat(s) /\ Len(s) = Len(a) + Len(u) + 1 /\ Len(a) \in Nat /\ Len(u) \in Nat
      /\ At(s, other) = {} /\ At(s, op) # {}
      /\ Max(At(s, op)) = Len(a) + 1
      /\ SubSeq(s, 1, Len(a)) = a
      /\ SubSeq(s, Len(a) + 2, Len(s)) = u
  <2>1. SplitsAt(s, op, other, a, u)
    BY JoinPlaces
  <2> HIDE DEF s
  <2>2. QED
    BY <2>1 DEF SplitsAt
<1> HIDE DEF s
<1>2. n >= Len(s)
  BY DEF s
<1>3. n > 0 /\ n - 1 \in Nat /\ n - 1 >= Len(a) /\ n - 1 >= Len(u)
  <2> DEFINE x == Len(a)
             y == Len(u)
  <2>1. x \in Nat /\ y \in Nat /\ n >= x + y + 1
    BY <1>1, <1>2
  <2> HIDE DEF x, y
  <2>2. n > 0 /\ n - 1 \in Nat /\ n - 1 >= x /\ n - 1 >= y
    BY <2>1
  <2>3. QED
    BY <2>2 DEF x, y
<1>4. s \in Seq(Word) /\ s # <<>>
  BY <1>1 DEF Neat
<1>5. reads[n][s] = Reading(g, s)
  BY <1>3, <1>4, ReadsStep
<1> HIDE DEF g
<1>6. (Len(a) + 1) - 1 = Len(a) /\ (Len(a) + 1) + 1 = Len(a) + 2
  BY <1>1
<1>7. Reading(g, s) = Both(op, g[a], g[u])
  <2>1. CASE op = "or"
    <3>1. Reading(g, s) = g[SubSeq(s, 1, Max(At(s, op)) - 1)]
                            \cup g[SubSeq(s, Max(At(s, op)) + 1, Len(s))]
      BY <1>1, <1>4, <2>1 DEF Reading
    <3>2. QED
      BY <1>1, <1>6, <2>1, <3>1 DEF Both
  <2>2. CASE op = "and" /\ other = "or"
    <3>1. Reading(g, s) = g[SubSeq(s, 1, Max(At(s, op)) - 1)]
                            \cap g[SubSeq(s, Max(At(s, op)) + 1, Len(s))]
      BY <1>1, <1>4, <2>2 DEF Reading
    <3>2. QED
      BY <1>1, <1>6, <2>2, <3>1 DEF Both
  <2>3. QED
    BY <2>1, <2>2
<1>8. QED
  BY <1>3, <1>5, <1>7 DEF s, g

-----------------------------------------------------------------------------
(* The invariant: each expression of terms that can be written has a text  *)
(* that stands on its own and is read, with any number of steps that       *)
(* suffices, as what it selects.                                           *)

Expressions ==
    [mode : {"comparison", "contains", "logical_not", "logical_and", "logical_or"},
     text : Seq(Word), selects : SUBSET Documents, exact : BOOLEAN]

Good(e) ==
    /\ e \in Expressions
    /\ Neat(e.text)
    /\ ~ needs_parens(e) => Plain(e.text)
    /\ \A n \in Nat : n >= Len(e.text) => reads[n][e.text] = e.selects

\* The modes whose text is no combination of texts.
LEMMA PlainRead ==
    ASSUME NEW s, Plain(s), NEW n \in Nat, n >= Len(s)
    PROVE  /\ n - 1 \in Nat /\ s \in Seq(Word) /\ Len(s) \in Nat /\ Len(s) > 0
           /\ reads[n][s] = IF s[1] = "not" THEN Documents \ reads[n - 1][Tail(s)]
                            ELSE IF s[1] = "(" THEN reads[n - 1][Inner(s)]
                            ELSE {doc \in Documents : ReadTerm(s) \in doc}
<1>1. /\ s \in Seq(Word) /\ s # <<>> /\ Len(s) \in Nat /\ Len(s) > 0
      /\ At(s, "or") = {} /\ At(s, "and") = {}
  BY EmptySeq DEF Plain, Neat
<1>2. n > 0 /\ n - 1 \in Nat
  BY <1>1
<1>3. reads[n][s] = Reading(reads[n - 1], s)
  BY <1>1, <1>2, ReadsStep
<1> DEFINE g == reads[n - 1]
<1> HIDE DEF g
<1>4. Reading(g, s) = IF s[1] = "not" THEN Documents \ g[Tail(s)]
                      ELSE IF s[1] = "(" THEN g[Inner(s)]
                      ELSE {doc \in Documents : ReadTerm(s) \in doc}
  BY <1>1 DEF Reading
<1>5. QED
  BY <1>1, <1>2, <1>3, <1>4 DEF g

LEMMA AtomGood ==
    ASSUME NEW e \in Expressions, e.mode \in {"comparison", "contains"}, Plain(e.text),
           e.text[1] \in Fields \ Language, e.selects = {doc \in Documents : ReadTerm(e.text) \in doc}
    PROVE  Good(e)
<1>1. e.text[1] # "not" /\ e.text[1] # "("
  BY DEF Language
<1>2. ASSUME NEW n \in Nat, n >= Len(e.text) PROVE reads[n][e.text] = e.selects
  <2> DEFINE s == e.text
  <2>1. Plain(s) /\ n >= Len(s) /\ s[1] # "not" /\ s[1] # "("
        /\ e.selects = {doc \in Documents : ReadTerm(s) \in doc}
    BY <1>1, <1>2
  <2> HIDE DEF s
  <2>2. reads[n][s] = {doc \in Documents : ReadTerm(s) \in doc}
    BY <2>1, PlainRead
  <2>3. QED
    BY <2>1, <2>2 DEF s
<1>3. QED
  BY <1>2 DEF Good, Plain

LEMMA ComparisonGood ==
    ASSUME NEW f \in Fields \ Language, NEW op \in Relations, NEW v \in Values, Writable(v)
    PROVE  Good(comparison(f, op, v)) /\ comparison(f, op, v).mode = "comparison"
<1> DEFINE e == comparison(f, op, v)
           s == <<f, op>> \o render_value(v)
<1>1. /\ e.mode = "comparison" /\ e.text = s
      /\ e.selects = {doc \in Documents : <<f, op, v>> \in doc}
      /\ e = [mode |-> e.mode, text |-> e.text, selects |-> e.selects, exact |-> e.exact]
  BY DEF comparison, expression, render, Selects
<1>7. e.exact \in BOOLEAN
  BY DEF comparison, expression, Exact, Writable
<1>2. Plain(s) /\ s[1] = f /\ ReadTerm(s) = <<f, op, v>>
  BY ComparisonRead
<1>3. s \in Seq(Word)
  BY <1>2 DEF Plain, Neat
<1> HIDE DEF e, s
<1>4. e \in Expressions
  BY <1>1, <1>3, <1>7 DEF Expressions
<1>5. Good(e)
  BY <1>1, <1>2, <1>4, AtomGood
<1>6. QED
  BY <1>1, <1>5 DEF e

LEMMA ContainsGood ==
    ASSUME NEW f \in Fields \ Language, NEW t \in Texts, Writable([kind |-> "string", data |-> t])
    PROVE  Good(contains(f, t))
<1> DEFINE e == contains(f, t)
           v == [kind |-> "string", data |-> t]
           s == <<f, "contains", "(">> \o render_value(v) \o <<")">>
<1>1. /\ e.mode = "contains" /\ e.text = s
      /\ e.selects = {doc \in Documents : <<f, "contains", v>> \in doc}
      /\ e = [mode |-> e.mode, text |-> e.text, selects |-> e.selects, exact |-> e.exact]
  BY DEF contains, expression, render, Selects
<1>8. e.exact \in BOOLEAN
  BY DEF contains, expression, Exact, Writable
<1>2. v \in Strings /\ Writable(v)
  BY DEF Strings
<1>3. Plain(s) /\ s[1] = f /\ ReadTerm(s) = <<f, "contains", v>>
  <2> HIDE DEF v
  <2>1. QED
    BY <1>2, ContainsRead
<1>4. s \in Seq(Word)
  BY <1>3 DEF Plain, Neat
<1> HIDE DEF e, s, v
<1>5. e \in Expressions
  BY <1>1, <1>4, <1>8 DEF Expressions
<1>6. Good(e)
  BY <1>1, <1>3, <1>5, AtomGood
<1>7. QED
  BY <1>6 DEF e

LEMMA NotGood ==
    ASSUME NEW c, Good(c), c.mode = "comparison"
    PROVE  Good(expression([mode |-> "logical_not", children |-> <<c>>]))
<1> DEFINE node == [mode |-> "logical_not", children |-> <<c>>]
           e == expression(node)
           s == <<"not">> \o c.text
<1>1. /\ e.mode = "logical_not" /\ e.text = s /\ e.selects = Documents \ c.selects
      /\ e = [mode |-> e.mode, text |-> e.text, selects |-> e.selects, exact |-> e.exact]
  BY DEF expression, render, Selects
<1>10. e.exact \in BOOLEAN
  BY DEF expression, Exact
<1>2. Plain(c.text) /\ c.text \in Seq(Word) /\ Len(c.text) \in Nat
  BY DEF Good, needs_parens, Plain, Neat
<1>3. "not" \in Word
  BY LanguageWords DEF Language
<1>4. Plain(s)
  <2>1. Plain(<<"not">>)
    BY <1>3, PlainWord
  <2>2. QED
    BY <1>2, <2>1, PlainConcat
<1>5. s \in Seq(Word) /\ s[1] = "not" /\ Tail(s) = c.text /\ Len(s) = Len(c.text) + 1
  BY <1>2, <1>3, TailOfConcat
<1> HIDE DEF e, s
<1>6. e \in Expressions
  BY <1>1, <1>5, <1>10 DEF Expressions
<1>7. ASSUME NEW n \in Nat, n >= Len(s) PROVE reads[n][s] = Documents \ c.selects
  <2>1. n - 1 \in Nat /\ reads[n][s] = Documents \ reads[n - 1][Tail(s)]
    BY <1>4, <1>5, <1>7, PlainRead
  <2>2. n - 1 >= Len(c.text)
    BY <1>2, <1>5, <1>7
  <2>3. reads[n - 1][c.text] = c.selects
    BY <2>1, <2>2 DEF Good
  <2>4. QED
    BY <1>5, <2>1, <2>3
<1>8. Good(e)
  BY <1>1, <1>4, <1>6, <1>7 DEF Good, Plain
<1>9. QED
  BY <1>8 DEF e

\* A child of "and" or "or" is read as itself, in parentheses or without.
LEMMA JoinableGood ==
    ASSUME NEW c, Good(c)
    PROVE  /\ Plain(Joinable(c))
           /\ \A n \in Nat : n >= Len(Joinable(c)) => reads[n][Joinable(c)] = c.selects
<1>1. CASE ~ needs_parens(c)
  BY <1>1 DEF Good, Joinable
<1>2. CASE needs_parens(c)
  <2> DEFINE t == c.text
             s == <<"(">> \o t \o <<")">>
  <2>1. Neat(t) /\ t \in Seq(Word) /\ Len(t) \in Nat
    BY DEF Good, Neat
  <2>2. "(" \in Word /\ ")" \in Word
    BY LanguageWords DEF Language
  <2>3. Plain(s) /\ s[1] = "(" /\ Len(s) = Len(t) + 2 /\ Inner(s) = t
    <3> HIDE DEF t
    <3>1. QED
      BY <2>1, <2>2, PlainParens, InnerOf
  <2>4. Joinable(c) = s
    BY <1>2 DEF Joinable
  <2> HIDE DEF s
  <2>5. ASSUME NEW n \in Nat, n >= Len(s) PROVE reads[n][s] = c.selects
    <3>1. n - 1 \in Nat /\ reads[n][s] = reads[n - 1][Inner(s)]
      BY <2>3, <2>5, PlainRead
    <3>2. n - 1 >= Len(t)
      BY <2>1, <2>3, <2>5
    <3>3. reads[n - 1][t] = c.selects
      BY <3>1, <3>2 DEF Good
    <3>4. QED
      BY <2>3, <3>1, <3>3
  <2>6. QED
    BY <2>3, <2>4, <2>5
<1>3. QED
  BY <1>1, <1>2

GoodExpressions == {e \in Expressions : Good(e)}

\* What the first k children select together.
Selected(op, children, k) ==
    IF op = "or" THEN {doc \in Documents : \E i \in 1 .. k : doc \in children[i].selects}
    ELSE {doc \in Documents : \A i \in 1 .. k : doc \in children[i].selects}

\* The text a of the first k children is read as they are meant.
Joined(op, other, children, a, k) ==
    /\ Neat(a) /\ At(a, other) = {}
    /\ \A n \in Nat : n >= Len(a) => reads[n][a] = Selected(op, children, k)

LEMMA JoinedStep ==
    ASSUME NEW op \in {"and", "or"}, NEW other \in {"and", "or"}, op # other,
           NEW c \in Seq(GoodExpressions), NEW k \in Nat, k \in 1 .. Len(c), k + 1 \in 1 .. Len(c),
           NEW a, Joined(op, other, c, a, k)
    PROVE  Joined(op, other, c, With(a, op, Joinable(c[k + 1])), k + 1)
<1> DEFINE u == Joinable(c[k + 1])
           s == With(a, op, u)
<1>1. c[k + 1] \in GoodExpressions
  BY ElementOfSeq
<1>2. /\ Plain(u) /\ \A n \in Nat : n >= Len(u) => reads[n][u] = c[k + 1].selects
  BY <1>1, JoinableGood DEF GoodExpressions
<1>3. c[k + 1].selects \in SUBSET Documents
  BY <1>1 DEF GoodExpressions, Expressions
<1> HIDE DEF u
<1>4. Neat(s) /\ At(s, other) = {}
  BY <1>2, JoinPlaces DEF Joined, SplitsAt
<1>5. Both(op, Selected(op, c, k), c[k + 1].selects) = Selected(op, c, k + 1)
  <2>1. \A i : i \in 1 .. k + 1 <=> i \in 1 .. k \/ i = k + 1
    OBVIOUS
  <2> DEFINE x == c[k + 1].selects
  <2>2. CASE op = "or"
    <3>1. {doc \in Documents : \E i \in 1 .. k : doc \in c[i].selects} \cup x
            = {doc \in Documents : \E i \in 1 .. k + 1 : doc \in c[i].selects}
      BY <1>3, <2>1
    <3>2. QED
      BY <2>2, <3>1 DEF Both, Selected
  <2>3. CASE op = "and"
    <3>1. {doc \in Documents : \A i \in 1 .. k : doc \in c[i].selects} \cap x
            = {doc \in Documents : \A i \in 1 .. k + 1 : doc \in c[i].selects}
      BY <1>3, <2>1
    <3>2. QED
      BY <2>3, <3>1 DEF Both, Selected
  <2>4. QED
    BY <2>2, <2>3
<1>6. ASSUME NEW n \in Nat, n >= Len(s) PROVE reads[n][s] = Selected(op, c, k + 1)
  <2>1. /\ n - 1 \in Nat /\ n - 1 >= Len(a) /\ n - 1 >= Len(u)
        /\ reads[n][s] = Both(op, reads[n - 1][a], reads[n - 1][u])
    <3>1. Neat(a) /\ At(a, other) = {} /\ Plain(u)
      BY <1>2 DEF Joined
    <3>2. QED
      BY <1>6, <3>1, JoinRead
  <2>2. reads[n - 1][a] = Selected(op, c, k)
    BY <2>1 DEF Joined
  <2>3. reads[n - 1][u] = c[k + 1].selects
    BY <1>2, <2>1
  <2>4. QED
    BY <1>5, <2>1, <2>2, <2>3
<1>7. QED
  BY <1>4, <1>6 DEF Joined, u

LEMMA JoinedFirst ==
    ASSUME NEW op \in {"and", "or"}, NEW other \in {"and", "or"}, op # other,
           NEW c \in Seq(GoodExpressions), 1 \in 1 .. Len(c)
    PROVE  Joined(op, other, c, Joinable(c[1]), 1)
<1>1. c[1] \in GoodExpressions
  BY ElementOfSeq
<1>2. /\ Plain(Joinable(c[1]))
      /\ \A n \in Nat : n >= Len(Joinable(c[1])) => reads[n][Joinable(c[1])] = c[1].selects
  BY <1>1, JoinableGood DEF GoodExpressions
<1>3. c[1].selects \in SUBSET Documents
  BY <1>1 DEF GoodExpressions, Expressions
<1>4. Selected(op, c, 1) = c[1].selects
  <2>1. 1 .. 1 = {1}
    OBVIOUS
  <2>2. QED
    BY <1>3, <2>1 DEF Selected
<1>5. QED
  BY <1>2, <1>4 DEF Joined, Plain

LEMMA JoinedText ==
    ASSUME NEW op \in {"and", "or"}, NEW other \in {"and", "or"}, op # other,
           NEW c \in Seq(GoodExpressions), c # <<>>
    PROVE  Joined(op, other, c, render_joined(c, op), Len(c))
<1> DEFINE m == Len(c)
           p == [i \in DOMAIN c |-> IF i = 1 THEN Joinable(c[i]) ELSE <<op>> \o Joinable(c[i])]
<1>1. m \in Nat /\ m > 0 /\ DOMAIN c = 1 .. m
  BY EmptySeq, LenProperties
<1>2. op \in Word
  BY LanguageWords DEF Language
<1>3. \A i \in 1 .. m : Joinable(c[i]) \in Seq(Word)
  <2>1. ASSUME NEW i \in 1 .. m PROVE Joinable(c[i]) \in Seq(Word)
    <3>1. Good(c[i])
      BY ElementOfSeq DEF GoodExpressions
    <3>2. QED
      BY <3>1, JoinableGood DEF Plain, Neat
  <2>2. QED
    BY <2>1
<1>4. \A i \in 1 .. m : p[i] \in Seq(Word)
  <2>1. ASSUME NEW i \in 1 .. m PROVE p[i] \in Seq(Word)
    <3>1. Joinable(c[i]) \in Seq(Word) /\ <<op>> \o Joinable(c[i]) \in Seq(Word)
      BY <1>2, <1>3, TailOfConcat
    <3>2. p[i] = IF i = 1 THEN Joinable(c[i]) ELSE <<op>> \o Joinable(c[i])
      BY <1>1
    <3> HIDE DEF p
    <3>3. QED
      BY <3>1, <3>2
  <2>2. QED
    BY <2>1
<1>5. p \in Seq(Seq(Word)) /\ Len(p) = m
  <2>1. p \in [1 .. m -> Seq(Word)]
    <3>1. p = [i \in 1 .. m |-> p[i]]
      BY <1>1
    <3> HIDE DEF p
    <3>2. QED
      BY <1>4, <3>1
  <2> HIDE DEF p
  <2>2. QED
    BY <1>1, <2>1
<1>6. \A i \in 1 .. m : p[i] = IF i = 1 THEN Joinable(c[i]) ELSE <<op>> \o Joinable(c[i])
  BY <1>1
<1>7. render_joined(c, op) = FlattenSeq(p)
  BY DEF render_joined
<1> HIDE DEF p
<1>8. PICK F : Flattening(F, p, Word) /\ FlattenSeq(p) = F[m]
  BY <1>5, Flatten
<1>9. /\ F[0] = <<>> /\ \A k \in Nat : F[k] \in Seq(Word)
      /\ \A i \in 1 .. m : F[i] = F[i - 1] \o p[i]
  BY <1>5, <1>8 DEF Flattening
<1> DEFINE S == {k \in Nat : k \in 1 .. m => Joined(op, other, c, F[k], k)}
<1>10. 0 \in S
  OBVIOUS
<1>11. ASSUME NEW k \in Nat, k \in S, k + 1 \in 1 .. m
       PROVE  Joined(op, other, c, F[k + 1], k + 1)
  <2> DEFINE u == Joinable(c[k + 1])
  <2>1. F[k + 1] = F[k] \o p[k + 1] /\ u \in Seq(Word)
    <3>1. (k + 1) - 1 = k
      OBVIOUS
    <3>2. QED
      BY <1>3, <1>9, <1>11, <3>1
  <2>2. CASE k = 0
    <3>1. p[1] = Joinable(c[1]) /\ 1 \in 1 .. m /\ k + 1 = 1
      BY <1>6, <1>11, <2>2
    <3>2. F[1] = <<>> \o Joinable(c[1]) /\ Joinable(c[1]) \in Seq(Word)
      BY <1>9, <2>1, <2>2, <3>1
    <3>3. F[1] = Joinable(c[1])
      BY <3>2, ConcatEmptySeq
    <3>4. Joined(op, other, c, Joinable(c[1]), 1)
      BY <3>1, JoinedFirst
    <3>5. QED
      BY <3>1, <3>3, <3>4
  <2>3. CASE k # 0
    <3>1. k \in 1 .. m /\ k + 1 # 1
      <4>1. k + 1 <= m /\ k >= 1
        BY <1>1, <1>11, <2>3
      <4> HIDE DEF m, S
      <4>2. QED
        BY <4>1, <1>1
    <3>2. p[k + 1] = <<op>> \o u
      BY <1>6, <1>11, <3>1
    <3>3. Joined(op, other, c, F[k], k)
      BY <1>11, <3>1
    <3>4. Joined(op, other, c, With(F[k], op, u), k + 1)
      BY <1>11, <3>1, <3>3, JoinedStep
    <3>5. F[k + 1] = With(F[k], op, u)
      BY <2>1, <3>2 DEF With
    <3>6. QED
      BY <3>4, <3>5
  <2>4. QED
    BY <2>2, <2>3
<1>12. Nat \subseteq S
  <2>1. ASSUME NEW k \in Nat, k \in S PROVE k + 1 \in S
    <3>1. k + 1 \in Nat
      OBVIOUS
    <3>2. k + 1 \in 1 .. m => Joined(op, other, c, F[k + 1], k + 1)
      BY <1>11, <2>1
    <3>3. QED
      BY <3>1, <3>2
  <2> HIDE DEF S
  <2>2. QED
    BY <1>10, <2>1, Induction
<1>13. Joined(op, other, c, F[m], m)
  <2>1. m \in 1 .. m
    <3> HIDE DEF m
    <3>1. QED
      BY <1>1
  <2>2. m \in S
    <3> HIDE DEF m, S
    <3>1. QED
      BY <1>1, <1>12
  <2>3. QED
    BY <2>1, <2>2
<1>14. QED
  BY <1>7, <1>8, <1>13

LEMMA JoinGood ==
    ASSUME NEW c \in Seq(GoodExpressions), c # <<>>
    PROVE  Good(all(c)) /\ Good(any(c))
<1>1. DOMAIN c = 1 .. Len(c)
  BY LenProperties
<1>2. Good(all(c))
  <2> DEFINE e == all(c)
  <2>1. /\ e.mode = "logical_and" /\ e.text = render_joined(c, "and")
        /\ e.selects = Selected("and", c, Len(c))
        /\ e = [mode |-> e.mode, text |-> e.text, selects |-> e.selects, exact |-> e.exact]
    BY <1>1 DEF all, expression, render, Selects, Selected
  <2>6. e.exact \in BOOLEAN
    BY DEF all, expression, Exact
  <2>2. Joined("and", "or", c, render_joined(c, "and"), Len(c))
    BY JoinedText
  <2>3. e.text \in Seq(Word) /\ e.selects \in SUBSET Documents
    <3>1. e.selects \in SUBSET Documents
      BY <2>1 DEF Selected
    <3>2. QED
      BY <2>1, <2>2, <3>1 DEF Joined, Neat
  <2> HIDE DEF e
  <2>4. e \in Expressions
    BY <2>1, <2>3, <2>6 DEF Expressions
  <2>5. QED
    BY <2>1, <2>2, <2>4 DEF Good, Joined, needs_parens, e
<1>3. Good(any(c))
  <2> DEFINE e == any(c)
  <2>1. /\ e.mode = "logical_or" /\ e.text = render_joined(c, "or")
        /\ e.selects = Selected("or", c, Len(c))
        /\ e = [mode |-> e.mode, text |-> e.text, selects |-> e.selects, exact |-> e.exact]
    BY <1>1 DEF any, expression, render, Selects, Selected
  <2>6. e.exact \in BOOLEAN
    BY DEF any, expression, Exact
  <2>2. Joined("or", "and", c, render_joined(c, "or"), Len(c))
    BY JoinedText
  <2>3. e.text \in Seq(Word) /\ e.selects \in SUBSET Documents
    <3>1. e.selects \in SUBSET Documents
      BY <2>1 DEF Selected
    <3>2. QED
      BY <2>1, <2>2, <3>1 DEF Joined, Neat
  <2> HIDE DEF e
  <2>4. e \in Expressions
    BY <2>1, <2>3, <2>6 DEF Expressions
  <2>5. QED
    BY <2>1, <2>2, <2>4 DEF Good, Joined, needs_parens, e
<1>4. QED
  BY <1>2, <1>3

-----------------------------------------------------------------------------
\* The terms are of some set, in which those that can be written are good.
IInv == \E S : terms \in Seq(S) /\ \A e \in S : e.exact => Good(e)

LEMMA GoodMember ==
    ASSUME NEW e, Good(e)
    PROVE  e \in GoodExpressions
BY DEF Good, GoodExpressions

\* A group of terms that can be written is good.
LEMMA GroupGood ==
    ASSUME NEW S, \A e \in S : e.exact => Good(e), NEW c \in Seq(S), c # <<>>
    PROVE  (all(c).exact => Good(all(c))) /\ (any(c).exact => Good(any(c)))
<1>1. DOMAIN c = 1 .. Len(c) /\ Len(c) \in Nat /\ \A i \in 1 .. Len(c) : c[i] \in S
  BY LenProperties, ElementOfSeq
<1>2. all(c).exact <=> \A i \in DOMAIN c : c[i].exact
  BY DEF all, expression, Exact
<1>3. any(c).exact <=> \A i \in DOMAIN c : c[i].exact
  BY DEF any, expression, Exact
<1>4. ASSUME \A i \in DOMAIN c : c[i].exact
      PROVE  Good(all(c)) /\ Good(any(c))
  <2>1. \A i \in 1 .. Len(c) : c[i] \in GoodExpressions
    BY <1>1, <1>4, GoodMember
  <2>2. c \in [1 .. Len(c) -> GoodExpressions]
    BY <1>1, <2>1
  <2>3. c \in Seq(GoodExpressions)
    BY <1>1, <2>2, SeqDef
  <2>4. QED
    BY <2>3, JoinGood
<1>5. QED
  BY <1>2, <1>3, <1>4

\* What can be added to a list of expressions.
LEMMA Added ==
    ASSUME NEW S, \A e \in S : e.exact => Good(e), NEW rest \in Seq(S),
           NEW e, e.exact => Good(e), terms' = Append(rest, e)
    PROVE  IInv'
<1> DEFINE T == S \cup {e}
<1>1. rest \in Seq(T) /\ e \in T
  BY SeqMonotonic
<1>2. terms' \in Seq(T)
  BY <1>1, AppendProperties
<1>3. \A x \in T : x.exact => Good(x)
  OBVIOUS
<1> HIDE DEF T
<1>4. QED
  BY <1>2, <1>3 DEF IInv

LEMMA Step == IInv /\ [Next]_vars => IInv'
<1> SUFFICES ASSUME IInv, [Next]_vars PROVE IInv'
  OBVIOUS
<1>0. PICK S : terms \in Seq(S) /\ \A e \in S : e.exact => Good(e)
  BY DEF IInv
<1>1. CASE Compare
  <2>1. PICK f \in Fields, op \in Relations, v \in Values :
           terms' = Append(terms, comparison(f, op, v))
    BY <1>1 DEF Compare, Build
  <2>2. ASSUME comparison(f, op, v).exact PROVE Good(comparison(f, op, v))
    <3>1. f \notin Language /\ Writable(v)
      BY <2>2 DEF comparison, expression, Exact
    <3>2. QED
      BY <3>1, ComparisonGood
  <2>3. QED
    BY <1>0, <2>1, <2>2, Added
<1>2. CASE Differ
  <2>1. PICK f \in Fields, v \in Values : terms' = Append(terms, ne(f, v))
    BY <1>2 DEF Differ, Build
  <2>2. ASSUME ne(f, v).exact PROVE Good(ne(f, v))
    <3> DEFINE c == comparison(f, "=", v)
               e == expression([mode |-> "logical_not", children |-> <<c>>])
    <3>1. ne(f, v) = e
      BY DEF ne, eq
    <3>2. e.exact <=> c.exact
      <4> HIDE DEF c
      <4>1. QED
        BY DEF expression, Exact
    <3>3. f \notin Language /\ Writable(v)
      <4>1. c.exact
        BY <2>2, <3>1, <3>2
      <4>2. QED
        BY <4>1 DEF comparison, expression, Exact
    <3>4. Good(c) /\ c.mode = "comparison"
      BY <3>3, DqlAssumption, ComparisonGood
    <3> HIDE DEF c
    <3>5. QED
      BY <3>1, <3>4, NotGood
  <2>3. QED
    BY <1>0, <2>1, <2>2, Added
<1>3. CASE Contain
  <2>1. PICK f \in Fields, t \in Texts \ {<<>>} : terms' = Append(terms, contains(f, t))
    BY <1>3 DEF Contain, Build
  <2>2. ASSUME contains(f, t).exact PROVE Good(contains(f, t))
    <3>1. f \notin Language /\ Writable([kind |-> "string", data |-> t])
      BY <2>2 DEF contains, expression, Exact
    <3>2. QED
      BY <3>1, ContainsGood
  <2>3. QED
    BY <1>0, <2>1, <2>2, Added
<1>4. CASE \E n \in 1 .. MaxTerms : Join(n)
  <2>1. PICK n \in 1 .. MaxTerms : Join(n)
    BY <1>4
  <2> DEFINE m == Len(terms)
             rest == SubSeq(terms, 1, m - n)
             last == SubSeq(terms, m - n + 1, m)
  <2>2. n \in 1 .. m /\ terms' \in {Append(rest, all(last)), Append(rest, any(last))}
    BY <2>1 DEF Join
  <2>3. m \in Nat /\ \A i \in 1 .. m : terms[i] \in S
    BY <1>0, LenProperties, ElementOfSeq
  <2> HIDE DEF m
  <2>4. /\ m - n \in Nat /\ m - n + 1 \in Nat /\ m - n + 1 <= m /\ 1 \in Int /\ m \in Int
        /\ \A i \in 1 .. m - n : terms[i] \in S
        /\ \A i \in m - n + 1 .. m : terms[i] \in S
    BY <2>2, <2>3
  <2>5. rest \in Seq(S)
    BY <2>4, SubSeqProperties
  <2>6. last \in Seq(S) /\ Len(last) = m - (m - n + 1) + 1
    BY <2>4, SubSeqProperties
  <2> HIDE DEF rest, last
  <2>7. last # <<>>
    <3>1. Len(last) > 0
      BY <2>2, <2>3, <2>6
    <3>2. QED
      BY <3>1
  <2>8. (all(last).exact => Good(all(last))) /\ (any(last).exact => Good(any(last)))
    BY <1>0, <2>6, <2>7, GroupGood
  <2>9. QED
    BY <1>0, <2>2, <2>5, <2>8, Added
<1>5. CASE UNCHANGED vars
  BY <1>0, <1>5 DEF IInv, vars
<1>6. QED
  BY <1>1, <1>2, <1>3, <1>4, <1>5 DEF Next

\* The text that render() makes of an expression is read, by the precedence rules of
\* the query language, as what the factories of dql.cpp were called for: with any
\* nesting of all() and any(), and with strings that hold quotes and words of the
\* language.  The terms are those that can be written: no string holds an escape, no
\* field is called like a word of the language, no double has a seventh decimal.
THEOREM MeaningIsKept == Spec => []MeaningKept
<1>1. ASSUME Init
      PROVE  IInv
  <2> DEFINE Members(S) == terms \in Seq(S) /\ \A e \in S : e.exact => Good(e)
  <2>1. terms \in Seq({})
    BY <1>1, EmptySeq DEF Init
  <2>2. Members({})
    BY <2>1
  <2>3. \E S : Members(S)
    <3> HIDE DEF Members
    <3>1. QED
      BY <2>2
  <2>4. QED
    BY <2>3 DEF IInv
<1>2. IInv => MeaningKept
  <2> SUFFICES ASSUME IInv, NEW i \in DOMAIN terms, terms[i].exact
               PROVE  Read(terms[i].text) = terms[i].selects
    BY DEF MeaningKept
  <2>0. PICK S : terms \in Seq(S) /\ \A e \in S : e.exact => Good(e)
    BY DEF IInv
  <2>1. Good(terms[i])
    <3>1. i \in 1 .. Len(terms)
      BY <2>0, LenProperties
    <3>2. terms[i] \in S
      BY <2>0, <3>1, ElementOfSeq
    <3>3. QED
      BY <2>0, <3>2
  <2>2. terms[i].text \in Seq(Word)
    BY <2>1 DEF Good, Neat
  <2>3. Len(terms[i].text) \in Nat /\ Len(terms[i].text) >= Len(terms[i].text)
    BY <2>2, LenProperties
  <2>4. QED
    BY <2>1, <2>2, <2>3 DEF Good, Read
<1>3. QED
  BY <1>1, <1>2, Step, PTL DEF Spec

\* Why only those.  quote() writes a line end as it lets the text of its escape pass, and
\* render_double() writes a number as the rounded one: two values with one text, and no
\* reader of texts, however Domino reads, tells the two comparisons apart.
THEOREM OneTextTwoMeanings ==
    ASSUME NEW f \in Fields, NEW op \in Relations, NEW v \in Values, NEW w \in Values,
           \/ /\ v = [kind |-> "string", data |-> <<"\n">>]
              /\ w = [kind |-> "string", data |-> <<"\\n">>]
           \/ \E x \in Words : /\ v = [kind |-> "plain", data |-> <<x>>]
                              /\ w = [kind |-> "plain", data |-> <<SixDecimals[x]>>]
                              /\ SixDecimals[SixDecimals[x]] = SixDecimals[x],
           NEW doc \in Documents, <<f, op, v>> \in doc, <<f, op, w>> \notin doc,
           NEW Reads
    PROVE  ~(/\ Reads[comparison(f, op, v).text] = comparison(f, op, v).selects
             /\ Reads[comparison(f, op, w).text] = comparison(f, op, w).selects)
<1>1. render_value(v) = render_value(w)
  <2>1. CASE /\ v = [kind |-> "string", data |-> <<"\n">>]
             /\ w = [kind |-> "string", data |-> <<"\\n">>]
    <3>1. Escaped("\n") = <<"\\n">> /\ Escaped("\\n") = <<"\\n">>
      BY DEF Escaped, Escape
    <3>2. [i \in DOMAIN <<"\n">> |-> Escaped(<<"\n">>[i])]
            = [i \in DOMAIN <<"\\n">> |-> Escaped(<<"\\n">>[i])]
      BY <3>1
    <3>3. quote(<<"\n">>) = quote(<<"\\n">>)
      BY <3>2 DEF quote
    <3>4. QED
      BY <2>1, <3>3 DEF render_value
  <2>2. CASE \E x \in Words : /\ v = [kind |-> "plain", data |-> <<x>>]
                            /\ w = [kind |-> "plain", data |-> <<SixDecimals[x]>>]
                            /\ SixDecimals[SixDecimals[x]] = SixDecimals[x]
    BY <2>2 DEF render_value, render_double
  <2>3. QED
    BY <2>1, <2>2
<1>2. comparison(f, op, v).text = comparison(f, op, w).text
  BY <1>1 DEF comparison, expression, render
<1>3. comparison(f, op, v).selects # comparison(f, op, w).selects
  <2>1. /\ comparison(f, op, v).selects = {d \in Documents : <<f, op, v>> \in d}
        /\ comparison(f, op, w).selects = {d \in Documents : <<f, op, w>> \in d}
    BY DEF comparison, expression, Selects
  <2>2. QED
    BY <2>1
<1>4. QED
  BY <1>2, <1>3
=============================================================================
