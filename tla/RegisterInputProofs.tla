------------------------- MODULE RegisterInputProofs -------------------------
(***************************************************************************)
(* What becomes of the two fields of a registration, for every form and    *)
(* every bound.                                                            *)
(***************************************************************************)
EXTENDS RegisterInput, SequenceTheorems, FiniteSetTheorems,
        WellFoundedInduction, TLAPS

-----------------------------------------------------------------------------
(***************************************************************************)
(* The least and the greatest of a set of naturals, and what TrimSpace     *)
(* returns.                                                                *)
(***************************************************************************)
LEMMA LeastExists ==
  ASSUME NEW S \in SUBSET Nat, S # {}
  PROVE  \E m \in S : \A n \in S : m <= n
<1>1. PICK m \in S : \A n \in S : <<n, m>> \notin OpToRel(<, Nat)
  BY NatLessThanWellFounded, WFMin
<1>2. \A n \in S : ~ (n < m)
  BY <1>1 DEF OpToRel
<1> QED BY <1>2

LEMMA GreatestExists ==
  ASSUME NEW n \in Nat, NEW S \in SUBSET (0 .. n), S # {}
  PROVE  \E m \in S : \A x \in S : m >= x
<1> DEFINE T == {n - x : x \in S}
<1>1. T \in SUBSET Nat /\ T # {}
  <2>1. \A x \in S : n - x \in Nat
    OBVIOUS
  <2> QED BY <2>1
<1>2. PICK t \in T : \A u \in T : t <= u
  BY <1>1, LeastExists
<1>3. PICK m \in S : t = n - m
  BY <1>2
<1>4. ASSUME NEW x \in S PROVE m >= x
  <2>1. n - m <= n - x
    BY <1>2, <1>3
  <2> QED BY <2>1
<1> QED BY <1>4

LEMMA Extremes ==
  ASSUME NEW n \in Nat, NEW S \in SUBSET (1 .. n), S # {}
  PROVE  Min(S) \in S /\ Max(S) \in S /\ Min(S) <= Max(S)
<1> S \in SUBSET Nat /\ S \in SUBSET (0 .. n)
  OBVIOUS
<1>1. \E m \in S : \A x \in S : m <= x
  BY LeastExists
<1>2. Min(S) \in S /\ \A x \in S : Min(S) <= x
  BY <1>1 DEF Min
<1>3. \E m \in S : \A x \in S : m >= x
  BY GreatestExists
<1>4. Max(S) \in S
  BY <1>3 DEF Max
<1> QED BY <1>2, <1>4

\* Trimming returns runes of the field, in one piece.
LEMMA TrimmedTyped ==
  ASSUME NEW s \in Seq(Rune)
  PROVE  Trimmed(s) \in Seq(Rune)
<1> DEFINE text == {i \in DOMAIN s : s[i] # "space"}
<1>1. CASE text = {}
  BY <1>1 DEF Trimmed
<1>2. CASE text # {}
  <2>1. Min(text) \in 1 .. Len(s) /\ Max(text) \in 1 .. Len(s)
    <3>1. text \in SUBSET (1 .. Len(s)) /\ Len(s) \in Nat
      OBVIOUS
    <3> QED BY <1>2, <3>1, Extremes
  <2>2. \A i \in Min(text) .. Max(text) : s[i] \in Rune
    BY <2>1
  <2>3. SubSeq(s, Min(text), Max(text)) \in Seq(Rune)
    BY <2>1, <2>2, SubSeqProperties
  <2> QED BY <1>2, <2>3 DEF Trimmed
<1> QED BY <1>1, <1>2

-----------------------------------------------------------------------------
(***************************************************************************)
(* Runes of several bytes.                                                 *)
(***************************************************************************)
LEMMA SizeRange ==
  ASSUME NEW b
  PROVE  /\ Size(b) \in 1 .. 4
         /\ b \in Leads <=> Size(b) > 1
BY DEF Size, Leads

LEMMA WideBytes ==
  ASSUME NEW s \in Seq(Byte), NEW i \in Nat \ {0}, IsWide(s, i)
  PROVE  /\ s[i] \in Leads
         /\ Size(s[i]) \in 2 .. 4
         /\ i + Size(s[i]) - 1 <= Len(s)
         /\ \A j \in i + 1 .. i + Size(s[i]) - 1 : s[j] = "cont"
BY SizeRange DEF IsWide

LEMMA ContinuesBytes ==
  ASSUME NEW s \in Seq(Byte), NEW i \in Nat, Continues(s, i)
  PROVE  i \in 2 .. Len(s) /\ s[i] = "cont"
<1>1. PICK j \in 1 .. i - 1 : IsWide(s, j) /\ i < j + Size(s[j])
  BY DEF Continues
<1> QED BY <1>1, WideBytes, SizeRange

\* A rune that begins where none goes on, ends where none goes on.
LEMMA NextBegins ==
  ASSUME NEW s \in Seq(Byte), NEW i \in 1 .. Len(s), ~ Continues(s, i),
         NEW n \in Nat, n = IF IsWide(s, i) THEN Size(s[i]) ELSE 1
  PROVE  ~ Continues(s, i + n)
<1> SUFFICES ASSUME NEW j \in 1 .. i + n - 1,
                    IsWide(s, j), i + n < j + Size(s[j])
             PROVE  FALSE
  BY SizeRange DEF Continues
<1>1. n >= 1
  BY SizeRange
<1>2. CASE j < i
  BY <1>1, <1>2, SizeRange DEF Continues
<1>3. CASE j = i
  BY <1>3, SizeRange
<1>4. CASE j > i
  <2>1. IsWide(s, i) /\ s[j] = "cont"
    BY <1>4, SizeRange DEF IsWide
  <2> QED BY <2>1 DEF IsWide, Leads
<1> QED BY <1>2, <1>3, <1>4

-----------------------------------------------------------------------------
(***************************************************************************)
(* Text that a header can carry, and what one rune is mapped to.           *)
(***************************************************************************)
LEMMA WideInConcat ==
  ASSUME NEW s \in Seq(Byte), NEW t \in Seq(Byte)
  PROVE  /\ \A i \in 1 .. Len(s) : IsWide(s, i) => IsWide(s \o t, i)
         /\ \A i \in 1 .. Len(t) : IsWide(t, i) => IsWide(s \o t, Len(s) + i)
<1>1. \A i \in 1 .. Len(s) : (s \o t)[i] = s[i]
  BY ConcatProperties
<1>2. \A i \in 1 .. Len(t) : (s \o t)[Len(s) + i] = t[i]
  BY ConcatProperties
<1>3. Len(s \o t) = Len(s) + Len(t)
  BY ConcatProperties
<1>4. ASSUME NEW i \in 1 .. Len(s), IsWide(s, i) PROVE IsWide(s \o t, i)
  BY <1>1, <1>3, <1>4, SizeRange DEF IsWide
<1>5. ASSUME NEW i \in 1 .. Len(t), IsWide(t, i)
      PROVE  IsWide(s \o t, Len(s) + i)
  <2>1. (s \o t)[Len(s) + i] = t[i]
    BY <1>2
  <2>2. Size(t[i]) \in 1 .. 4
    BY SizeRange
  <2>3. ASSUME NEW j \in Len(s) + i + 1 .. Len(s) + i + Size(t[i]) - 1
        PROVE  (s \o t)[j] = "cont"
    <3>1. j - Len(s) \in i + 1 .. i + Size(t[i]) - 1
      BY <2>2, <2>3
    <3>2. j - Len(s) \in 1 .. Len(t) /\ t[j - Len(s)] = "cont"
      BY <1>5, <2>2, <3>1 DEF IsWide
    <3>3. (s \o t)[Len(s) + (j - Len(s))] = t[j - Len(s)]
      BY <1>2, <3>2
    <3> QED BY <3>2, <3>3
  <2> QED BY <1>3, <1>5, <2>1, <2>2, <2>3 DEF IsWide
<1> QED BY <1>4, <1>5

LEMMA TextConcat ==
  ASSUME NEW s \in Seq(Byte), NEW t \in Seq(Byte), IsText(s), IsText(t)
  PROVE  IsText(s \o t)
<1> SUFFICES ASSUME NEW i \in 1 .. Len(s) + Len(t),
                    (s \o t)[i] \notin {"control", "plain"},
                    ~ IsWide(s \o t, i)
             PROVE  Continues(s \o t, i)
  BY ConcatProperties DEF IsText
<1>1. CASE i <= Len(s)
  <2>1. Continues(s, i)
    BY <1>1, ConcatProperties, WideInConcat DEF IsText
  <2>2. PICK j \in 1 .. i - 1 : IsWide(s, j) /\ i < j + Size(s[j])
    BY <2>1 DEF Continues
  <2>3. IsWide(s \o t, j) /\ (s \o t)[j] = s[j]
    BY <1>1, <2>2, WideInConcat, ConcatProperties
  <2> QED BY <2>2, <2>3 DEF Continues
<1>2. CASE i > Len(s)
  <2>1. i - Len(s) \in 1 .. Len(t) /\ (s \o t)[i] = t[i - Len(s)]
    BY <1>2, ConcatProperties
  <2>2. IsWide(t, i - Len(s)) => IsWide(s \o t, Len(s) + (i - Len(s)))
    BY <2>1, WideInConcat
  <2>3. Continues(t, i - Len(s))
    BY <2>1, <2>2 DEF IsText
  <2>4. PICK j \in 1 .. i - Len(s) - 1 :
          IsWide(t, j) /\ i - Len(s) < j + Size(t[j])
    BY <2>3 DEF Continues
  <2>5. IsWide(s \o t, Len(s) + j) /\ (s \o t)[Len(s) + j] = t[j]
    BY <2>1, <2>4, WideInConcat, ConcatProperties
  <2>6. Len(s) + j \in 1 .. i - 1 /\ i < Len(s) + j + Size(t[j])
    BY <1>2, <2>4, SizeRange
  <2> QED BY <2>5, <2>6 DEF Continues
<1> QED BY <1>1, <1>2

LEMMA SendableConcat ==
  ASSUME NEW s \in Seq(Byte), NEW t \in Seq(Byte), Sendable(s), Sendable(t)
  PROVE  Sendable(s \o t)
BY ConcatProperties DEF Sendable
\* A rune takes at least one byte of what is left and no more than there are.
LEMMA RuneLenRange ==
  ASSUME NEW s \in Seq(Byte), s # <<>>
  PROVE  /\ RuneLen(s) \in 1 .. Len(s)
         /\ IsWide(s, 1) => RuneLen(s) = Size(s[1])
         /\ Head(s) = s[1]
<1>1. Len(s) \in Nat \ {0}
  BY EmptySeq
<1>2. Head(s) = s[1]
  BY <1>1
<1>3. Size(s[1]) \in 1 .. 4 /\ (IsWide(s, 1) => Size(s[1]) <= Len(s))
  BY SizeRange DEF IsWide
<1> QED BY <1>1, <1>2, <1>3 DEF RuneLen

LEMMA ReplacementSound ==
  /\ Replacement \in Seq(Byte)
  /\ Len(Replacement) = 3
  /\ IsText(Replacement) /\ Sendable(Replacement)
<1> DEFINE r == <<"lead3", "cont", "cont">>
<1>1. r \in Seq(Byte) /\ Len(r) = 3 /\ DOMAIN r = 1 .. 3
      /\ r[1] = "lead3" /\ r[2] = "cont" /\ r[3] = "cont"
  BY DEF Byte
<1> HIDE DEF r
<1>2. Size("lead3") = 3
  BY DEF Size
<1>3. IsWide(r, 1)
  BY <1>1, <1>2 DEF IsWide, Leads
<1>4. Continues(r, 2) /\ Continues(r, 3)
  BY <1>1, <1>2, <1>3 DEF Continues
<1>5. IsText(r)
  BY <1>1, <1>3, <1>4 DEF IsText
<1>6. Sendable(r)
  BY <1>1 DEF Sendable
<1>7. Replacement = r
  BY DEF Replacement, r
<1> QED BY <1>1, <1>5, <1>6, <1>7

\* Whatever is mapped, what is written is text without control characters,
\* three bytes at most for each byte that was read.
LEMMA MappedSound ==
  ASSUME NEW s \in Seq(Byte), s # <<>>
  PROVE  /\ Mapped(s) \in Seq(Byte)
         /\ IsText(Mapped(s)) /\ Sendable(Mapped(s))
         /\ Len(Mapped(s)) <= 3 * RuneLen(s)
<1> Head(s) \in {"control", "plain"} => ~ IsWide(s, 1)
  BY RuneLenRange DEF IsWide, Leads
<1>1. CASE Head(s) = "control"
  <2>1. Mapped(s) = <<>>
    BY <1>1 DEF Mapped
  <2> QED BY <2>1, RuneLenRange DEF IsText, Sendable
<1>2. CASE Head(s) = "plain"
  <2>1. Mapped(s) = <<"plain">>
    BY <1>2 DEF Mapped
  <2>2. <<"plain">> \in Seq(Byte)
    BY DEF Byte
  <2> QED BY <2>1, <2>2, RuneLenRange DEF IsText, Sendable
<1>3. CASE Head(s) \notin {"control", "plain"} /\ IsWide(s, 1)
  <2> DEFINE n == RuneLen(s)
             w == SubSeq(s, 1, n)
  <2>1. n \in 2 .. Len(s) /\ n = Size(s[1]) /\ s[1] \in Leads
        /\ \A j \in 2 .. n : s[j] = "cont"
    <3>1. s[1] \in Leads /\ Size(s[1]) \in 2 .. 4
          /\ \A j \in 2 .. Size(s[1]) : s[j] = "cont"
      BY <1>3, WideBytes
    <3>2. n = Size(s[1]) /\ n \in 1 .. Len(s)
      BY <1>3, RuneLenRange
    <3> QED BY <3>1, <3>2
  <2>2. w \in Seq(Byte) /\ Len(w) = n /\ \A i \in 1 .. n : w[i] = s[i]
    BY <2>1, SubSeqProperties
  <2>3. Mapped(s) = w
    BY <1>3 DEF Mapped
  <2> HIDE DEF n, w
  <2>4. IsWide(w, 1)
    BY <2>1, <2>2 DEF IsWide
  <2>5. \A i \in 2 .. n : Continues(w, i)
    BY <2>1, <2>2, <2>4 DEF Continues
  <2>6. IsText(w)
    BY <2>1, <2>2, <2>4, <2>5 DEF IsText
  <2>7. Sendable(w)
    BY <2>1, <2>2 DEF Sendable, Leads
  <2> QED BY <2>1, <2>2, <2>3, <2>6, <2>7 DEF n
<1>4. CASE Head(s) \notin {"control", "plain"} /\ ~ IsWide(s, 1)
  <2>1. Mapped(s) = Replacement
    BY <1>4 DEF Mapped
  <2> QED BY <2>1, ReplacementSound, RuneLenRange
<1> QED BY <1>1, <1>2, <1>3, <1>4

-----------------------------------------------------------------------------
(***************************************************************************)
(* Counting the bytes that are kept.                                       *)
(***************************************************************************)
LEMMA PrintedCounted ==
  ASSUME NEW s, NEW n \in Nat
  PROVE  /\ IsFiniteSet(Printed(s, n))
         /\ Cardinality(Printed(s, n)) \in 0 .. n
<1>1. IsFiniteSet(1 .. n) /\ Cardinality(1 .. n) = n
  BY FS_Interval
<1>2. Printed(s, n) \in SUBSET (1 .. n)
  BY DEF Printed
<1> QED BY <1>1, <1>2, FS_Subset, FS_CardinalityType

LEMMA PrintedNothing ==
  ASSUME NEW s
  PROVE  Printed(s, 0) = {} /\ Cardinality(Printed(s, 0)) = 0
BY FS_EmptySet DEF Printed

\* A control character is not counted.
LEMMA PrintedSkips ==
  ASSUME NEW s, NEW n \in Nat, s[n + 1] = "control"
  PROVE  Printed(s, n + 1) = Printed(s, n)
BY DEF Printed

\* The others are, one by one.
LEMMA PrintedRun ==
  ASSUME NEW s, NEW n \in Nat, NEW k \in Nat,
         \A i \in n + 1 .. n + k : s[i] # "control"
  PROVE  /\ Printed(s, n + k) = Printed(s, n) \cup (n + 1 .. n + k)
         /\ Cardinality(Printed(s, n + k)) = Cardinality(Printed(s, n)) + k
<1>1. Printed(s, n + k) = Printed(s, n) \cup (n + 1 .. n + k)
  BY DEF Printed
<1>2. Printed(s, n) \cap (n + 1 .. n + k) = {}
  BY DEF Printed
<1>3. IsFiniteSet(n + 1 .. n + k) /\ Cardinality(n + 1 .. n + k) = k
  BY FS_Interval
<1>4. IsFiniteSet(Printed(s, n)) /\ Cardinality(Printed(s, n)) \in Nat
  BY PrintedCounted
<1>5. Cardinality(Printed(s, n) \cup (n + 1 .. n + k))
        = Cardinality(Printed(s, n)) + Cardinality(n + 1 .. n + k)
          - Cardinality(Printed(s, n) \cap (n + 1 .. n + k))
  BY <1>3, <1>4, FS_Union
<1>6. Cardinality({}) = 0
  BY FS_EmptySet
<1>7. Cardinality(Printed(s, n + k)) = Cardinality(Printed(s, n)) + k - 0
  BY <1>1, <1>2, <1>3, <1>5, <1>6
<1> QED BY <1>1, <1>4, <1>7

\* Every kept byte has a place among them.
LEMMA PrintedPlaces ==
  ASSUME NEW s, NEW n \in Nat, NEW i \in Printed(s, n)
  PROVE  Cardinality(Printed(s, i)) \in 1 .. Cardinality(Printed(s, n))
<1>1. i \in 1 .. n /\ Printed(s, i) \in SUBSET Printed(s, n)
      /\ Printed(s, i) # {}
  BY DEF Printed
<1>2. IsFiniteSet(Printed(s, i)) /\ IsFiniteSet(Printed(s, n))
      /\ Cardinality(Printed(s, i)) \in Nat
      /\ Cardinality(Printed(s, n)) \in Nat
  BY <1>1, PrintedCounted
<1> QED BY <1>1, <1>2, FS_Subset, FS_EmptySet

\* The whole runes before a cut end at one place.
LEMMA WholeBytesEnd ==
  ASSUME NEW s \in Seq(Byte), NEW n \in 0 .. Len(s)
  PROVE  /\ WholeBytes(s, n) \in 0 .. n
         /\ ~ Continues(s, WholeBytes(s, n) + 1)
         /\ \A m \in WholeBytes(s, n) + 2 .. n + 1 : Continues(s, m)
<1> DEFINE End(k) == /\ ~ Continues(s, k + 1)
                     /\ \A m \in k + 2 .. n + 1 : Continues(s, m)
<1>1. \E k \in 0 .. n : End(k)
  <2>1. CASE ~ Continues(s, n + 1)
    BY <2>1
  <2>2. CASE Continues(s, n + 1)
    <3>1. PICK j \in 1 .. n : IsWide(s, j) /\ n + 1 < j + Size(s[j])
      BY <2>2 DEF Continues
    <3>2. ~ Continues(s, j)
      BY <3>1, ContinuesBytes DEF IsWide, Leads
    <3>3. \A m \in j + 1 .. n + 1 : Continues(s, m)
      BY <3>1, SizeRange DEF Continues
    <3>4. j - 1 \in 0 .. n /\ End(j - 1)
      BY <3>2, <3>3
    <3> QED BY <3>4
  <2> QED BY <2>1, <2>2
<1> QED BY <1>1 DEF WholeBytes
-----------------------------------------------------------------------------
(***************************************************************************)
(* Mapping one rune of a detail that was text.                             *)
(***************************************************************************)

\* n bytes of the cut detail s are mapped, and a whole rune begins next if
\* there is one left.
Mapping(d, s, cut, n) ==
  /\ KeepsBytes(d, s, cut, n)
  /\ n < WholeBytes(s, cut) => ~ Continues(s, n + 1)

\* KeepsBytes while whole runes are mapped, and after the last of them.
LEMMA KeepsWhole ==
  ASSUME NEW d, NEW s, NEW cut, NEW n \in Nat,
         WholeBytes(s, cut) \in Nat, n <= WholeBytes(s, cut)
  PROVE  KeepsBytes(d, s, cut, n) <=>
           /\ Len(d) = Cardinality(Printed(s, n))
           /\ \A i \in Printed(s, n) : d[Cardinality(Printed(s, i))] = s[i]
<1>1. Cardinality(Printed(s, n)) + 3 * (n - n) = Cardinality(Printed(s, n))
  BY PrintedCounted
<1>2. 0 .. n - n - 1 = {}
  OBVIOUS
<1>3. (IF n < WholeBytes(s, cut) THEN n ELSE WholeBytes(s, cut)) = n
  OBVIOUS
<1> QED BY <1>1, <1>2, <1>3 DEF KeepsBytes

LEMMA KeepsSplit ==
  ASSUME NEW d, NEW s, NEW cut, NEW n \in Nat, NEW whole \in Nat,
         whole = WholeBytes(s, cut), whole <= n, KeepsBytes(d, s, cut, n)
  PROVE  /\ Len(d) = Cardinality(Printed(s, whole)) + 3 * (n - whole)
         /\ \A i \in Printed(s, whole) : d[Cardinality(Printed(s, i))] = s[i]
         /\ \A k \in 0 .. n - whole - 1 : \A b \in 1 .. 3 :
              d[Cardinality(Printed(s, whole)) + 3 * k + b] = Replacement[b]
<1>1. (IF n < whole THEN n ELSE whole) = whole
  OBVIOUS
<1> QED BY <1>1 DEF KeepsBytes

LEMMA SplitKeeps ==
  ASSUME NEW d, NEW s, NEW cut, NEW n \in Nat, NEW whole \in Nat,
         whole = WholeBytes(s, cut), whole <= n,
         Len(d) = Cardinality(Printed(s, whole)) + 3 * (n - whole),
         \A i \in Printed(s, whole) : d[Cardinality(Printed(s, i))] = s[i],
         \A k \in 0 .. n - whole - 1 : \A b \in 1 .. 3 :
           d[Cardinality(Printed(s, whole)) + 3 * k + b] = Replacement[b]
  PROVE  KeepsBytes(d, s, cut, n)
<1>1. (IF n < whole THEN n ELSE whole) = whole
  OBVIOUS
<1> QED BY <1>1 DEF KeepsBytes

\* A control character is dropped.
LEMMA DropsControl ==
  ASSUME NEW s \in Seq(Byte), NEW cut \in 0 .. Len(s), NEW n \in Nat,
         n < WholeBytes(s, cut), NEW d \in Seq(Byte),
         KeepsBytes(d, s, cut, n), s[n + 1] = "control"
  PROVE  KeepsBytes(d, s, cut, n + 1)
<1>1. WholeBytes(s, cut) \in Nat
  BY WholeBytesEnd
<1>2. Printed(s, n + 1) = Printed(s, n)
  BY PrintedSkips
<1> QED BY <1>1, <1>2, KeepsWhole

\* Any other rune that is whole is copied.
LEMMA CopiesRune ==
  ASSUME NEW s \in Seq(Byte), NEW cut \in 0 .. Len(s),
         NEW n \in Nat, NEW k \in Nat \ {0}, n + k <= WholeBytes(s, cut),
         NEW d \in Seq(Byte), KeepsBytes(d, s, cut, n),
         NEW w \in Seq(Byte), Len(w) = k,
         \A i \in 1 .. k : w[i] = s[n + i] /\ w[i] # "control"
  PROVE  KeepsBytes(d \o w, s, cut, n + k)
<1> DEFINE Place(i) == Cardinality(Printed(s, i))
<1>1. WholeBytes(s, cut) \in Nat
  BY WholeBytesEnd
<1>2. Len(d) = Place(n) /\ \A i \in Printed(s, n) : d[Place(i)] = s[i]
  BY <1>1, KeepsWhole
<1>3. \A i \in n + 1 .. n + k : s[i] # "control"
  <2>1. ASSUME NEW i \in n + 1 .. n + k PROVE s[i] # "control"
    <3>1. i - n \in 1 .. k /\ n + (i - n) = i
      OBVIOUS
    <3> QED BY <3>1
  <2> QED BY <2>1
<1>4. Printed(s, n + k) = Printed(s, n) \cup (n + 1 .. n + k)
      /\ Place(n + k) = Place(n) + k
  BY <1>3, PrintedRun
<1>5. Len(d \o w) = Place(n + k)
  <2>1. Len(d \o w) = Len(d) + k
    BY ConcatProperties
  <2> QED BY <1>2, <1>4, <2>1
<1>6. ASSUME NEW i \in Printed(s, n) PROVE (d \o w)[Place(i)] = s[i]
  <2>1. Place(i) \in 1 .. Place(n)
    BY PrintedPlaces
  <2> QED BY <1>2, <2>1, ConcatProperties
<1>7. ASSUME NEW i \in n + 1 .. n + k PROVE (d \o w)[Place(i)] = s[i]
  <2>1. i - n \in 1 .. k /\ n + (i - n) = i
    OBVIOUS
  <2>2. Place(n + (i - n)) = Place(n) + (i - n)
    <3>1. \A j \in n + 1 .. n + (i - n) : s[j] # "control"
      BY <1>3
    <3> QED BY <2>1, <3>1, PrintedRun
  <2>3. Place(n) \in Nat
    BY PrintedCounted
  <2>4. (d \o w)[Len(d) + (i - n)] = w[i - n]
    BY <2>1, ConcatProperties
  <2> QED BY <1>2, <2>1, <2>2, <2>3, <2>4
<1>8. n + k \in Nat
  OBVIOUS
<1> QED BY <1>1, <1>4, <1>5, <1>6, <1>7, <1>8, KeepsWhole

\* A byte of the rune that was split becomes a U+FFFD.
LEMMA ReplacesByte ==
  ASSUME NEW s \in Seq(Byte), NEW cut \in 0 .. Len(s), NEW n \in Nat,
         WholeBytes(s, cut) <= n, NEW d \in Seq(Byte),
         KeepsBytes(d, s, cut, n)
  PROVE  KeepsBytes(d \o Replacement, s, cut, n + 1)
<1>0. SUFFICES ASSUME NEW whole, whole = WholeBytes(s, cut),
                      NEW printed, printed = Cardinality(Printed(s, whole)),
                      NEW e, e = d \o Replacement
               PROVE  KeepsBytes(e, s, cut, n + 1)
  OBVIOUS
<1>1. whole \in Nat /\ whole <= n /\ whole <= n + 1
  BY <1>0, WholeBytesEnd
<1>2. printed \in Nat
  BY <1>0, <1>1, PrintedCounted
<1>3. /\ Len(d) = printed + 3 * (n - whole)
      /\ \A i \in Printed(s, whole) : d[Cardinality(Printed(s, i))] = s[i]
      /\ \A k \in 0 .. n - whole - 1 : \A b \in 1 .. 3 :
           d[printed + 3 * k + b] = Replacement[b]
  <2>1. KeepsBytes(d, s, cut, n)
    OBVIOUS
  <2>2. n \in Nat /\ whole \in Nat /\ whole <= n /\ whole = WholeBytes(s, cut)
    BY <1>0, <1>1
  <2>3. Len(d) = Cardinality(Printed(s, whole)) + 3 * (n - whole)
        /\ (\A i \in Printed(s, whole) : d[Cardinality(Printed(s, i))] = s[i])
        /\ (\A k \in 0 .. n - whole - 1 : \A b \in 1 .. 3 :
             d[Cardinality(Printed(s, whole)) + 3 * k + b] = Replacement[b])
    BY <2>1, <2>2, KeepsSplit
  <2> QED BY <1>0, <2>3
<1>4. /\ Len(e) = Len(d) + 3
      /\ \A i \in 1 .. Len(d) : e[i] = d[i]
      /\ \A b \in 1 .. 3 : e[Len(d) + b] = Replacement[b]
  <2>1. Replacement \in Seq(Byte) /\ Len(Replacement) = 3
    BY ReplacementSound
  <2>2. /\ Len(e) = Len(d) + Len(Replacement)
        /\ \A i \in 1 .. Len(d) + Len(Replacement) :
             e[i] = IF i <= Len(d) THEN d[i] ELSE Replacement[i - Len(d)]
    BY <1>0, <2>1, ConcatProperties
  <2>3. Len(d) \in Nat
    OBVIOUS
  <2>4. ASSUME NEW b \in 1 .. 3 PROVE e[Len(d) + b] = Replacement[b]
    <3>1. /\ Len(d) + b \in 1 .. Len(d) + Len(Replacement)
          /\ ~ (Len(d) + b <= Len(d))
          /\ (Len(d) + b) - Len(d) = b
      BY <2>1, <2>3
    <3> QED BY <2>2, <3>1
  <2> QED BY <2>1, <2>2, <2>3, <2>4
<1>5. \A i \in Printed(s, whole) :
        Cardinality(Printed(s, i)) \in 1 .. printed
  BY <1>0, <1>1, PrintedPlaces
<1>6. Len(e) = printed + 3 * (n + 1 - whole)
  BY <1>1, <1>2, <1>3, <1>4
<1>7. ASSUME NEW i \in Printed(s, whole)
      PROVE  e[Cardinality(Printed(s, i))] = s[i]
  <2>1. Cardinality(Printed(s, i)) \in 1 .. Len(d)
    BY <1>1, <1>2, <1>3, <1>5
  <2> QED BY <1>3, <1>4, <2>1
<1>8. ASSUME NEW k \in 0 .. n + 1 - whole - 1, NEW b \in 1 .. 3
      PROVE  e[printed + 3 * k + b] = Replacement[b]
  <2>1. CASE k = n - whole
    BY <1>1, <1>2, <1>3, <1>4, <2>1
  <2>2. CASE k # n - whole
    <3>1. k \in 0 .. n - whole - 1
      BY <1>1, <2>2
    <3>2. printed + 3 * k + b \in 1 .. Len(d)
      BY <1>1, <1>2, <1>3, <3>1
    <3> QED BY <1>3, <1>4, <3>1, <3>2
  <2> QED BY <2>1, <2>2
<1>9. KeepsBytes(e, s, cut, n + 1)
  <2> SUFFICES ASSUME NEW m \in Nat, m = n + 1
               PROVE  KeepsBytes(e, s, cut, m)
    OBVIOUS
  <2>1. whole \in Nat /\ whole <= m /\ whole = WholeBytes(s, cut)
    BY <1>0, <1>1
  <2>2. Len(e) = Cardinality(Printed(s, whole)) + 3 * (m - whole)
    <3>1. n + 1 - whole = m - whole
      BY <2>1
    <3> QED BY <1>0, <1>6, <3>1
  <2>3. ASSUME NEW k \in 0 .. m - whole - 1, NEW b \in 1 .. 3
        PROVE  e[Cardinality(Printed(s, whole)) + 3 * k + b] = Replacement[b]
    <3>1. k \in 0 .. n + 1 - whole - 1
      BY <2>1
    <3>2. e[printed + 3 * k + b] = Replacement[b]
      BY <1>8, <3>1
    <3> QED BY <1>0, <3>2
  <2> QED BY <1>7, <2>1, <2>2, <2>3, SplitKeeps
<1> QED BY <1>9

\* What is left of the cut detail begins with the same bytes as the rest of
\* the whole one, and with the same rune if that is not split.
LEMMA RestBegins ==
  ASSUME NEW s \in Seq(Byte), NEW cut \in 0 .. Len(s), NEW n \in 0 .. cut - 1,
         NEW r, r = SubSeq(s, n + 1, cut)
  PROVE  /\ r \in Seq(Byte) /\ r # <<>> /\ Len(r) = cut - n
         /\ \A i \in 1 .. cut - n : r[i] = s[n + i]
         /\ Head(r) = s[n + 1]
         /\ IsWide(r, 1) => IsWide(s, n + 1) /\ n + Size(s[n + 1]) <= cut
         /\ IsWide(s, n + 1) /\ n + Size(s[n + 1]) <= cut => IsWide(r, 1)
<1>1. /\ r \in Seq(Byte) /\ Len(r) = cut - n
      /\ \A i \in 1 .. cut - n : r[i] = s[n + i]
  <2>1. \A i \in n + 1 .. cut : s[i] \in Byte
    OBVIOUS
  <2>2. n + 1 \in Int /\ cut \in Int /\ n + 1 <= cut
    OBVIOUS
  <2>3. /\ SubSeq(s, n + 1, cut) \in Seq(Byte)
        /\ Len(SubSeq(s, n + 1, cut)) = cut - (n + 1) + 1
        /\ \A i \in 1 .. cut - (n + 1) + 1 :
             SubSeq(s, n + 1, cut)[i] = s[n + 1 + i - 1]
    BY <2>1, <2>2, SubSeqProperties
  <2> QED BY <2>2, <2>3
<1>2. r # <<>> /\ Head(r) = s[n + 1] /\ r[1] = s[n + 1]
  <2>1. Len(r) > 0 /\ r[1] = s[n + 1]
    BY <1>1
  <2>2. r # <<>>
    BY <2>1
  <2> QED BY <1>1, <2>1, <2>2, RuneLenRange
<1>3. Size(s[n + 1]) \in 1 .. 4
  BY SizeRange
<1>4. ASSUME IsWide(r, 1)
      PROVE  IsWide(s, n + 1) /\ n + Size(s[n + 1]) <= cut
  <2>1. /\ s[n + 1] \in Leads /\ Size(s[n + 1]) <= cut - n
        /\ \A i \in 2 .. Size(s[n + 1]) : r[i] = "cont"
    BY <1>1, <1>2, <1>3, <1>4 DEF IsWide
  <2>2. ASSUME NEW j \in n + 2 .. n + Size(s[n + 1]) PROVE s[j] = "cont"
    <3>1. j - n \in 2 .. Size(s[n + 1]) /\ j - n \in 1 .. cut - n
          /\ n + (j - n) = j
      BY <1>3, <2>1
    <3> QED BY <1>1, <2>1, <3>1
  <2> QED BY <1>3, <2>1, <2>2 DEF IsWide
<1>5. ASSUME IsWide(s, n + 1), n + Size(s[n + 1]) <= cut
      PROVE  IsWide(r, 1)
  <2>1. ASSUME NEW i \in 2 .. Size(s[n + 1]) PROVE r[i] = "cont"
    <3>1. n + i \in n + 2 .. n + Size(s[n + 1]) /\ i \in 1 .. cut - n
      BY <1>3, <1>5
    <3>2. s[n + i] = "cont"
      BY <1>3, <1>5, <3>1 DEF IsWide
    <3> QED BY <1>1, <3>1, <3>2
  <2> QED BY <1>1, <1>2, <1>3, <1>5, <2>1 DEF IsWide
<1> QED BY <1>1, <1>2, <1>4, <1>5

\* What follows the whole runes of a cut text is a rune that is split.
LEMMA RestIsSplit ==
  ASSUME NEW s \in Seq(Byte), NEW cut \in 0 .. Len(s),
         NEW i \in WholeBytes(s, cut) + 1 .. cut
  PROVE  /\ s[i] \notin {"control", "plain"}
         /\ ~ (IsWide(s, i) /\ i + Size(s[i]) - 1 <= cut)
<1> DEFINE whole == WholeBytes(s, cut)
<1>1. /\ whole \in 0 .. cut /\ ~ Continues(s, whole + 1)
      /\ \A m \in whole + 2 .. cut + 1 : Continues(s, m)
  BY WholeBytesEnd
<1> HIDE DEF whole
<1>2. whole < cut /\ whole \in Nat /\ i \in whole + 1 .. cut
  BY <1>1 DEF whole
<1>3. CASE i > whole + 1
  <2>1. i \in whole + 2 .. cut + 1 /\ i \in Nat
    BY <1>2, <1>3
  <2>2. s[i] = "cont"
    BY <1>1, <2>1, ContinuesBytes
  <2> QED BY <2>2 DEF IsWide, Leads
<1>4. CASE i = whole + 1
  <2>1. \A j \in 1 .. whole, b \in Nat :
          IsWide(s, j) /\ b = j + Size(s[j]) => b <= whole + 1
    BY <1>1, <1>2, SizeRange DEF Continues
  <2>2. \A m \in whole + 2 .. cut + 1 :
          IsWide(s, whole + 1) /\ m < whole + 1 + Size(s[whole + 1])
    <3> SUFFICES ASSUME NEW m \in whole + 2 .. cut + 1
                 PROVE  IsWide(s, whole + 1)
                        /\ m < whole + 1 + Size(s[whole + 1])
      OBVIOUS
    <3>1. PICK j \in 1 .. m - 1 : IsWide(s, j) /\ m < j + Size(s[j])
      BY <1>1 DEF Continues
    <3>2. CASE j <= whole
      <4>1. j + Size(s[j]) \in Nat /\ j \in 1 .. whole
        BY <1>2, <3>2, SizeRange
      <4>2. j + Size(s[j]) <= whole + 1
        BY <2>1, <3>1, <4>1
      <4> QED BY <1>2, <3>1, <4>1, <4>2
    <3>3. CASE j > whole + 1
      <4>1. j \in whole + 2 .. cut + 1 /\ j \in Nat
        BY <1>2, <3>3
      <4>2. s[j] = "cont"
        BY <1>1, <4>1, ContinuesBytes
      <4> QED BY <3>1, <4>2 DEF IsWide, Leads
    <3>4. CASE j = whole + 1
      BY <3>1, <3>4
    <3> QED BY <1>2, <3>2, <3>3, <3>4
  <2>3. /\ IsWide(s, whole + 1)
        /\ cut + 1 < whole + 1 + Size(s[whole + 1])
    BY <1>2, <2>2
  <2>4. Size(s[whole + 1]) \in 1 .. 4 /\ s[whole + 1] \in Leads
    BY <2>3, SizeRange DEF IsWide
  <2> QED BY <1>2, <1>4, <2>3, <2>4 DEF Leads
<1> QED BY <1>2, <1>3, <1>4

\* Mapping the next rune of a cut text.
LEMMA MappingStep ==
  ASSUME NEW s \in Seq(Byte), IsText(s), NEW cut \in 0 .. Len(s),
         NEW n \in 0 .. cut - 1, NEW d \in Seq(Byte), Mapping(d, s, cut, n),
         NEW r, r = SubSeq(s, n + 1, cut)
  PROVE  Mapping(d \o Mapped(r), s, cut, n + RuneLen(r))
<1> DEFINE whole == WholeBytes(s, cut)
           k == RuneLen(r)
           w == Mapped(r)
<1>1. /\ whole \in 0 .. cut /\ ~ Continues(s, whole + 1)
      /\ \A m \in whole + 2 .. cut + 1 : Continues(s, m)
  BY WholeBytesEnd
<1>2. /\ r \in Seq(Byte) /\ r # <<>> /\ Len(r) = cut - n
      /\ \A i \in 1 .. cut - n : r[i] = s[n + i]
      /\ Head(r) = s[n + 1]
      /\ IsWide(r, 1) <=> IsWide(s, n + 1) /\ n + Size(s[n + 1]) <= cut
  <2>1. r \in Seq(Byte) /\ Len(r) = cut - n /\ Head(r) = s[n + 1]
    BY RestBegins
  <2>2. \A i \in 1 .. cut - n : r[i] = s[n + i]
    BY RestBegins
  <2>3. /\ IsWide(r, 1) => IsWide(s, n + 1) /\ n + Size(s[n + 1]) <= cut
        /\ IsWide(s, n + 1) /\ n + Size(s[n + 1]) <= cut => IsWide(r, 1)
    BY RestBegins
  <2>4. r # <<>>
    <3>1. Len(r) > 0
      BY <2>1
    <3> QED BY <3>1
  <2> QED BY <2>1, <2>2, <2>3, <2>4
<1>3. k \in 1 .. cut - n /\ (IsWide(r, 1) => k = Size(s[n + 1]))
      /\ (~ IsWide(r, 1) => k = 1)
  BY <1>2, RuneLenRange DEF RuneLen
<1>4. KeepsBytes(d, s, cut, n) /\ (n < whole => ~ Continues(s, n + 1))
  BY DEF Mapping
<1>5. w \in Seq(Byte) /\ Sendable(w)
  BY <1>2, MappedSound
<1>6. Size(s[n + 1]) \in 1 .. 4
  BY SizeRange
<1> HIDE DEF k, w
<1>7. CASE n < whole
  <2>1. s[n + 1] \in {"control", "plain"} \/ IsWide(s, n + 1)
    BY <1>4, <1>7 DEF IsText
  <2>2. ASSUME IsWide(s, n + 1)
        PROVE  n + Size(s[n + 1]) <= whole /\ IsWide(r, 1)
               /\ k = Size(s[n + 1])
    <3>1. ASSUME whole < n + Size(s[n + 1]) PROVE FALSE
      <4>1. n + 1 \in 1 .. (whole + 1) - 1
            /\ whole + 1 < (n + 1) + Size(s[n + 1])
        BY <1>1, <1>6, <1>7, <3>1
      <4> QED BY <1>1, <2>2, <4>1 DEF Continues
    <3> QED BY <1>1, <1>2, <1>3, <1>6, <2>2, <3>1
  <2>3. ~ IsWide(s, n + 1) => k = 1
    BY <1>2, <1>3
  <2>4. n + k <= whole /\ n + k \in Nat /\ k \in Nat \ {0}
    BY <1>1, <1>3, <1>6, <1>7, <2>2, <2>3
  <2>5. ~ Continues(s, (n + 1) + k)
    <3>1. k = IF IsWide(s, n + 1) THEN Size(s[n + 1]) ELSE 1
      BY <2>2, <2>3
    <3>2. n + 1 \in 1 .. Len(s) /\ ~ Continues(s, n + 1)
      BY <1>1, <1>4, <1>7
    <3> QED BY <2>4, <3>1, <3>2, NextBegins
  <2>6. (n + 1) + k = (n + k) + 1
    BY <1>3
  <2>7. KeepsBytes(d \o w, s, cut, n + k)
    <3>1. CASE s[n + 1] = "control"
      <4>1. ~ IsWide(s, n + 1) /\ ~ IsWide(r, 1)
        BY <1>2, <3>1 DEF IsWide, Leads
      <4>2. w = <<>>
        BY <1>2, <3>1, <4>1 DEF w, Mapped
      <4>3. d \o w = d
        BY <4>2
      <4>4. KeepsBytes(d, s, cut, n + 1)
        BY <1>4, <1>7, <3>1, DropsControl
      <4> QED BY <2>3, <4>1, <4>3, <4>4
    <3>2. CASE s[n + 1] # "control"
      <4>1. Len(w) = k /\ \A i \in 1 .. k : w[i] = s[n + i]
        <5>1. CASE IsWide(s, n + 1)
          <6>1. Head(r) \notin {"control", "plain"}
            BY <1>2, <5>1 DEF IsWide, Leads
          <6>2. w = SubSeq(r, 1, k)
            BY <2>2, <5>1, <6>1 DEF w, k, Mapped
          <6>3. k \in 1 .. Len(r)
            BY <1>2, <1>3
          <6>4. Len(w) = k /\ \A i \in 1 .. k : w[i] = r[i]
            BY <1>2, <6>2, <6>3, SubSeqProperties
          <6> QED BY <1>2, <1>3, <6>4
        <5>2. CASE ~ IsWide(s, n + 1)
          <6>1. s[n + 1] = "plain" /\ ~ IsWide(r, 1)
            BY <1>2, <2>1, <3>2, <5>2
          <6>2. w = <<"plain">>
            BY <1>2, <6>1 DEF w, Mapped
          <6> QED BY <2>3, <5>2, <6>1, <6>2
        <5> QED BY <5>1, <5>2
      <4>2. \A i \in 1 .. k : w[i] # "control"
        BY <1>5, <4>1 DEF Sendable
      <4>3. n \in Nat /\ n + k <= WholeBytes(s, cut)
            /\ \A i \in 1 .. k : w[i] = s[n + i] /\ w[i] # "control"
        BY <2>4, <4>1, <4>2
      <4> HIDE DEF whole
      <4> QED BY <1>4, <1>5, <2>4, <4>1, <4>3, CopiesRune
    <3> QED BY <3>1, <3>2
  <2> QED BY <2>5, <2>6, <2>7 DEF Mapping, w, k
<1>8. CASE n >= whole
  <2>1. n + 1 \in whole + 1 .. cut
    BY <1>1, <1>8
  <2>2. s[n + 1] \notin {"control", "plain"}
        /\ ~ (IsWide(s, n + 1) /\ (n + 1) + Size(s[n + 1]) - 1 <= cut)
    BY <2>1, RestIsSplit
  <2>3. ~ IsWide(r, 1)
    BY <1>2, <1>6, <2>2
  <2>4. w = Replacement /\ k = 1
    BY <1>2, <1>3, <2>2, <2>3 DEF w, Mapped
  <2>5. KeepsBytes(d \o Replacement, s, cut, n + 1)
    BY <1>1, <1>4, <1>8, ReplacesByte
  <2>6. ~ (n + 1 < whole)
    BY <1>1, <1>8
  <2> QED BY <2>4, <2>5, <2>6 DEF Mapping, w, k
<1> QED BY <1>1, <1>7, <1>8
-----------------------------------------------------------------------------
(***************************************************************************)
(* The invariant of a registration.                                        *)
(***************************************************************************)
Accepted == {"minting", "mapping", "registered", "duplicate", "failed"}
Reading == {"mapping", "registered", "duplicate"}

\* How many bytes of a detail are looked at.
Limit(s) == IF Len(s) < MaxDetailLen THEN Len(s) ELSE MaxDetailLen

FormSent == form \in Forms

NonceChecked ==
  stage \in Accepted =>
    nonce # <<>> /\ Len(nonce) <= MaxNonceLen /\ IsSafeNonce(nonce)

DetailSound == IsText(detail) /\ Sendable(detail)

DetailStarts == stage \notin Reading => detail = <<>>

\* The bytes before the rest are mapped, to three each at most, and what they
\* were mapped to is what they should be if the detail was text.
DetailReads ==
  stage \in Reading =>
    LET cut == Limit(form.detail)
        n == cut - Len(rest)
    IN /\ n \in 0 .. cut
       /\ rest = SubSeq(form.detail, n + 1, cut)
       /\ Len(detail) <= 3 * n
       /\ IsText(form.detail) => Mapping(detail, form.detail, cut, n)

ReadToTheEnd == stage \in Reading \ {"mapping"} => rest = <<>>

RegisterInv ==
  /\ TypeOK
  /\ FormSent
  /\ NonceChecked
  /\ DetailSound
  /\ DetailStarts
  /\ DetailReads
  /\ ReadToTheEnd

LEMMA Bounds ==
  /\ MaxNonceLen \in Nat /\ MaxDetailLen \in Nat /\ MaxNonceRunes \in Nat
  /\ MaxNonceLen <= MaxNonceRunes
BY RegisterInputAssumption DEF RegisterInputAssumption

LEMMA LimitRange ==
  ASSUME NEW s \in Seq(Byte)
  PROVE  Limit(s) \in 0 .. Len(s) /\ Limit(s) <= MaxDetailLen
BY Bounds DEF Limit

LEMMA CutIsSubSeq ==
  ASSUME NEW s \in Seq(Byte)
  PROVE  Cut(s) = SubSeq(s, 1, Limit(s)) /\ Cut(s) \in Seq(Byte)
         /\ Len(Cut(s)) = Limit(s)
<1>1. Cut(s) = SubSeq(s, 1, Limit(s))
  <2>1. CASE Len(s) > MaxDetailLen
    BY <2>1, Bounds DEF Cut, Limit
  <2>2. CASE ~ (Len(s) > MaxDetailLen)
    <3>1. Limit(s) = Len(s)
      BY <2>2, Bounds DEF Limit
    <3> QED BY <2>2, <3>1, SubSeqFull DEF Cut
  <2> QED BY <2>1, <2>2
<1>2. Limit(s) \in 0 .. Len(s)
  BY LimitRange
<1>3. \A i \in 1 .. Limit(s) : s[i] \in Byte
  BY <1>2
<1>4. /\ SubSeq(s, 1, Limit(s)) \in Seq(Byte)
      /\ Len(SubSeq(s, 1, Limit(s)))
           = IF 1 <= Limit(s) THEN Limit(s) - 1 + 1 ELSE 0
  BY <1>2, <1>3, SubSeqProperties
<1> QED BY <1>1, <1>2, <1>4

LEMMA EmptyIsSound == IsText(<<>>) /\ Sendable(<<>>) /\ <<>> \in Seq(Byte)
BY DEF IsText, Sendable

\* Nothing is mapped yet.
LEMMA MappingStarts ==
  ASSUME NEW s \in Seq(Byte)
  PROVE  Mapping(<<>>, s, Limit(s), 0)
<1>1. WholeBytes(s, Limit(s)) \in Nat /\ 0 <= WholeBytes(s, Limit(s))
  BY LimitRange, WholeBytesEnd
<1>2. Len(<<>>) = Cardinality(Printed(s, 0)) /\ Printed(s, 0) = {}
  BY PrintedNothing
<1>3. KeepsBytes(<<>>, s, Limit(s), 0)
  BY <1>1, <1>2, KeepsWhole
<1>4. ~ Continues(s, 1)
  BY DEF Continues
<1> QED BY <1>3, <1>4 DEF Mapping

LEMMA InitRegister == Init => RegisterInv
<1> SUFFICES ASSUME Init PROVE RegisterInv
  OBVIOUS
<1>1. form \in Forms /\ form.nonce \in Seq(Rune) /\ form.detail \in Seq(Byte)
  BY RegisterInputAssumption DEF Init, RegisterInputAssumption
<1>2. TypeOK
  BY <1>1 DEF Init, TypeOK, Stages
<1> QED BY <1>1, <1>2, EmptyIsSound DEF Init, RegisterInv, FormSent,
     NonceChecked, DetailSound, DetailStarts, DetailReads, ReadToTheEnd,
     Accepted, Reading
\* Decoding and the ways to fail change nothing the invariant is about but
\* the stage.
LEMMA StagesOnly ==
  ASSUME RegisterInv, UNCHANGED <<form, nonce, rest, detail>>,
         stage' \in Stages,
         stage' \in Accepted => stage \in Accepted,
         stage' \in Reading <=> stage \in Reading,
         stage' \in Reading \ {"mapping"} => rest = <<>>
  PROVE  RegisterInv'
<1>1. TypeOK'
  BY DEF RegisterInv, TypeOK
<1>2. FormSent' /\ NonceChecked' /\ DetailSound' /\ ReadToTheEnd'
  BY DEF RegisterInv, FormSent, NonceChecked, DetailSound, ReadToTheEnd
<1>3. DetailStarts' /\ DetailReads'
  BY DEF RegisterInv, DetailStarts, DetailReads
<1> QED BY <1>1, <1>2, <1>3 DEF RegisterInv

LEMMA DecodeStep == RegisterInv /\ Decode => RegisterInv'
<1> SUFFICES ASSUME RegisterInv, Decode PROVE RegisterInv'
  OBVIOUS
<1>1. stage = "decoding" /\ stage' \in {"checking", "undecodable"}
      /\ UNCHANGED <<form, nonce, rest, detail>>
  BY DEF Decode
<1> QED BY <1>1, StagesOnly DEF Stages, Accepted, Reading

LEMMA MintFailsStep == RegisterInv /\ MintFails => RegisterInv'
<1> SUFFICES ASSUME RegisterInv, MintFails PROVE RegisterInv'
  OBVIOUS
<1>1. stage = "minting" /\ stage' = "failed"
      /\ UNCHANGED <<form, nonce, rest, detail>>
  BY DEF MintFails
<1> QED BY <1>1, StagesOnly DEF Stages, Accepted, Reading

LEMMA RegisterStep == RegisterInv /\ Register => RegisterInv'
<1> SUFFICES ASSUME RegisterInv, Register PROVE RegisterInv'
  OBVIOUS
<1>1. stage = "mapping" /\ stage' \in {"registered", "duplicate"}
      /\ rest = <<>> /\ UNCHANGED <<form, nonce, rest, detail>>
  BY DEF Register
<1> QED BY <1>1, StagesOnly DEF Stages, Accepted, Reading

\* A nonce that is refused is kept nowhere; one that passes is safe.
LEMMA CheckStep == RegisterInv /\ Check => RegisterInv'
<1> SUFFICES ASSUME RegisterInv, Check PROVE RegisterInv'
  OBVIOUS
<1> DEFINE trimmed == Trimmed(form.nonce)
<1>1. stage = "checking" /\ UNCHANGED <<form, rest, detail>>
      /\ \/ /\ stage' = "minting" /\ nonce' = trimmed
            /\ trimmed # <<>> /\ Len(trimmed) <= MaxNonceLen
            /\ IsSafeNonce(trimmed)
         \/ stage' = "badNonce" /\ nonce' = nonce
  BY DEF Check
<1>2. trimmed \in Seq(Rune)
  BY TrimmedTyped DEF RegisterInv, TypeOK
<1> HIDE DEF trimmed
<1>3. TypeOK'
  BY <1>1, <1>2 DEF RegisterInv, TypeOK, Stages
<1>4. FormSent' /\ DetailSound' /\ ReadToTheEnd'
  BY <1>1 DEF RegisterInv, FormSent, DetailSound, ReadToTheEnd, Reading
<1>5. NonceChecked'
  BY <1>1 DEF NonceChecked, Accepted
<1>6. DetailStarts' /\ DetailReads'
  BY <1>1 DEF RegisterInv, DetailStarts, DetailReads, Reading
<1> QED BY <1>3, <1>4, <1>5, <1>6 DEF RegisterInv

LEMMA MintStep == RegisterInv /\ Mint => RegisterInv'
<1> SUFFICES ASSUME RegisterInv, Mint PROVE RegisterInv'
  OBVIOUS
<1> DEFINE s == form.detail
<1>1. stage = "minting" /\ stage' = "mapping" /\ rest' = Cut(s)
      /\ UNCHANGED <<form, nonce, detail>>
  BY DEF Mint
<1>2. s \in Seq(Byte) /\ detail = <<>>
  BY <1>1 DEF RegisterInv, TypeOK, DetailStarts, Reading
<1>3. Cut(s) = SubSeq(s, 1, Limit(s)) /\ Cut(s) \in Seq(Byte)
      /\ Len(Cut(s)) = Limit(s)
  BY <1>2, CutIsSubSeq
<1>4. TypeOK'
  BY <1>1, <1>3 DEF RegisterInv, TypeOK, Stages
<1>5. FormSent' /\ NonceChecked' /\ DetailSound' /\ ReadToTheEnd'
      /\ DetailStarts'
  BY <1>1 DEF RegisterInv, FormSent, NonceChecked, DetailSound, ReadToTheEnd,
     DetailStarts, Accepted, Reading
<1>6. DetailReads'
  <2>1. Limit(s) \in Nat
    BY <1>2, LimitRange
  <2>2. Limit(s) - Len(Cut(s)) = 0
    BY <1>3, <2>1
  <2>3. Mapping(<<>>, s, Limit(s), 0)
    BY <1>2, MappingStarts
  <2>4. Len(<<>>) = 0
    OBVIOUS
  <2> QED BY <1>1, <1>2, <1>3, <2>1, <2>2, <2>3, <2>4 DEF DetailReads
<1> QED BY <1>4, <1>5, <1>6 DEF RegisterInv

\* What is left after a rune is a piece of the same detail.
LEMMA RestOfRest ==
  ASSUME NEW s \in Seq(Byte), NEW cut \in 0 .. Len(s), NEW n \in 0 .. cut - 1,
         NEW r, r = SubSeq(s, n + 1, cut), NEW k \in 1 .. cut - n
  PROVE  /\ SubSeq(r, k + 1, Len(r)) = SubSeq(s, n + k + 1, cut)
         /\ SubSeq(r, k + 1, Len(r)) \in Seq(Byte)
         /\ Len(SubSeq(r, k + 1, Len(r))) = cut - (n + k)
<1> DEFINE a == SubSeq(r, k + 1, Len(r))
           b == SubSeq(s, n + k + 1, cut)
<1>1. r \in Seq(Byte) /\ Len(r) = cut - n
  BY RestBegins
<1>2. \A i \in 1 .. cut - n : r[i] = s[n + i]
  BY RestBegins
<1>3. /\ a \in Seq(Byte) /\ Len(a) = cut - (n + k)
      /\ \A i \in 1 .. Len(a) : a[i] = r[k + i]
  <2>1. \A i \in k + 1 .. Len(r) : r[i] \in Byte
    BY <1>1
  <2>2. /\ a \in Seq(Byte)
        /\ Len(a) = IF k + 1 <= Len(r) THEN Len(r) - (k + 1) + 1 ELSE 0
        /\ \A i \in 1 .. Len(r) - (k + 1) + 1 : a[i] = r[k + 1 + i - 1]
    BY <1>1, <2>1, SubSeqProperties
  <2>3. Len(a) = cut - (n + k) /\ Len(r) - (k + 1) + 1 = cut - (n + k)
    BY <1>1, <2>2
  <2>4. ASSUME NEW i \in 1 .. Len(a) PROVE a[i] = r[k + i]
    <3>1. k + 1 + i - 1 = k + i
      BY <2>3
    <3> QED BY <2>2, <2>3, <3>1
  <2> QED BY <2>2, <2>3, <2>4
<1>4. /\ b \in Seq(Byte) /\ Len(b) = cut - (n + k)
      /\ \A i \in 1 .. Len(b) : b[i] = s[n + k + i]
  <2>1. \A i \in n + k + 1 .. cut : s[i] \in Byte
    OBVIOUS
  <2>2. /\ b \in Seq(Byte)
        /\ Len(b) = IF n + k + 1 <= cut THEN cut - (n + k + 1) + 1 ELSE 0
        /\ \A i \in 1 .. cut - (n + k + 1) + 1 : b[i] = s[n + k + 1 + i - 1]
    BY <2>1, SubSeqProperties
  <2>3. Len(b) = cut - (n + k) /\ cut - (n + k + 1) + 1 = cut - (n + k)
    BY <2>2
  <2>4. ASSUME NEW i \in 1 .. Len(b) PROVE b[i] = s[n + k + i]
    <3>1. n + k + 1 + i - 1 = n + k + i
      BY <2>3
    <3> QED BY <2>2, <2>3, <3>1
  <2> QED BY <2>2, <2>3, <2>4
<1> HIDE DEF a, b
<1>5. ASSUME NEW i \in 1 .. Len(a) PROVE a[i] = b[i]
  <2>1. k + i \in 1 .. cut - n /\ n + (k + i) = n + k + i
    BY <1>3
  <2> QED BY <1>2, <1>3, <1>4, <2>1
<1>6. a = b
  BY <1>3, <1>4, <1>5, SeqEqual
<1> QED BY <1>3, <1>6 DEF a, b

LEMMA MapRuneStep == RegisterInv /\ MapRune => RegisterInv'
<1> SUFFICES ASSUME RegisterInv, MapRune PROVE RegisterInv'
  OBVIOUS
<1> DEFINE s == form.detail
           cut == Limit(s)
           n == cut - Len(rest)
           k == RuneLen(rest)
           w == Mapped(rest)
<1>1. stage = "mapping" /\ rest # <<>> /\ detail' = detail \o w
      /\ rest' = SubSeq(rest, k + 1, Len(rest))
      /\ UNCHANGED <<form, stage, nonce>>
  BY DEF MapRune
<1>2. s \in Seq(Byte) /\ rest \in Seq(Byte) /\ detail \in Seq(Byte)
  BY DEF RegisterInv, TypeOK
<1>3. /\ n \in 0 .. cut /\ rest = SubSeq(s, n + 1, cut)
      /\ Len(detail) <= 3 * n
      /\ IsText(s) => Mapping(detail, s, cut, n)
  BY <1>1 DEF RegisterInv, DetailReads, Reading
<1>4. cut \in 0 .. Len(s)
  BY <1>2, LimitRange
<1>5. k \in 1 .. Len(rest) /\ Len(rest) \in Nat \ {0}
  BY <1>1, <1>2, RuneLenRange, EmptySeq
<1>6. /\ w \in Seq(Byte) /\ IsText(w) /\ Sendable(w) /\ Len(w) <= 3 * k
  BY <1>1, <1>2, MappedSound
<1> HIDE DEF s, cut, k, w
<1>7. n \in 0 .. cut - 1 /\ k \in 1 .. cut - n /\ cut \in Nat
  BY <1>3, <1>4, <1>5
<1>8. /\ rest' = SubSeq(s, n + k + 1, cut) /\ rest' \in Seq(Byte)
      /\ Len(rest') = cut - (n + k)
  <2> HIDE DEF n
  <2> QED BY <1>1, <1>2, <1>3, <1>4, <1>7, RestOfRest
<1>9. detail' \in Seq(Byte) /\ Len(detail') = Len(detail) + Len(w)
  BY <1>1, <1>2, <1>6, ConcatProperties
<1>10. s' = s /\ cut' = cut
  BY <1>1 DEF s, cut, Limit
<1>11. TypeOK'
  BY <1>1, <1>8, <1>9 DEF RegisterInv, TypeOK
<1>12. FormSent' /\ NonceChecked' /\ DetailStarts' /\ ReadToTheEnd'
  BY <1>1 DEF RegisterInv, FormSent, NonceChecked, DetailStarts,
     ReadToTheEnd, Reading
<1>13. DetailSound'
  BY <1>1, <1>2, <1>6, TextConcat, SendableConcat
     DEF RegisterInv, DetailSound
<1>14. DetailReads'
  <2>1. n' = n + k
    <3>1. n' = cut - Len(rest')
      BY <1>10
    <3>2. n \in Nat /\ k \in Nat /\ cut \in Nat
      BY <1>7
    <3> HIDE DEF n
    <3> QED BY <1>8, <3>1, <3>2
  <2>2. n' \in 0 .. cut
    BY <1>7, <2>1
  <2>3. rest' = SubSeq(s, n' + 1, cut)
    BY <1>8, <2>1
  <2>4. Len(detail') <= 3 * n'
    <3>1. Len(detail) \in Nat /\ Len(w) \in Nat
      BY <1>2, <1>6
    <3> QED BY <1>3, <1>6, <1>7, <1>9, <2>1, <3>1
  <2>5. ASSUME IsText(s) PROVE Mapping(detail', s, cut, n')
    <3>1. Mapping(detail \o w, s, cut, n + k)
      <4> HIDE DEF n
      <4> QED BY <1>2, <1>3, <1>4, <1>7, <2>5, MappingStep DEF w, k
    <3> QED BY <1>1, <2>1, <3>1
  <2> QED BY <1>10, <2>2, <2>3, <2>4, <2>5 DEF DetailReads, s, cut
<1> QED BY <1>11, <1>12, <1>13, <1>14 DEF RegisterInv
LEMMA StepRegister == RegisterInv /\ [Next]_vars => RegisterInv'
<1> SUFFICES ASSUME RegisterInv, [Next]_vars PROVE RegisterInv'
  OBVIOUS
<1>1. CASE UNCHANGED vars
  BY <1>1, StagesOnly DEF vars, RegisterInv, TypeOK, ReadToTheEnd
<1>2. CASE Next
  BY <1>2, DecodeStep, CheckStep, MintFailsStep, MintStep, MapRuneStep,
     RegisterStep DEF Next
<1> QED BY <1>1, <1>2

LEMMA RegisterAlways == Spec => []RegisterInv
<1>1. Init => RegisterInv
  BY InitRegister
<1>2. RegisterInv /\ [Next]_vars => RegisterInv'
  BY StepRegister
<1> QED BY <1>1, <1>2, PTL DEF Spec

-----------------------------------------------------------------------------
(***************************************************************************)
(* What a cut can split off, and the theorems.                             *)
(***************************************************************************)

\* At most three bytes of a rune are left of a cut.
LEMMA FewAreSplit ==
  ASSUME NEW s \in Seq(Byte), NEW cut \in 0 .. Len(s)
  PROVE  cut - WholeBytes(s, cut) <= 3
<1> SUFFICES ASSUME NEW whole, whole = WholeBytes(s, cut)
             PROVE  cut - whole <= 3
  OBVIOUS
<1>1. /\ whole \in 0 .. cut /\ ~ Continues(s, whole + 1)
      /\ \A m \in whole + 2 .. cut + 1 : Continues(s, m)
  BY WholeBytesEnd
<1>2. CASE whole = cut
  BY <1>1, <1>2
<1>3. CASE whole # cut
  <2>1. cut + 1 \in whole + 2 .. cut + 1
    BY <1>1, <1>3
  <2>2. PICK j \in 1 .. cut : IsWide(s, j) /\ cut + 1 < j + Size(s[j])
    BY <1>1, <2>1 DEF Continues
  <2>3. Size(s[j]) \in 1 .. 4 /\ s[j] \in Leads
    BY <2>2, SizeRange DEF IsWide
  <2>4. j <= whole + 1
    <3>1. ASSUME j > whole + 1 PROVE FALSE
      <4>1. j \in whole + 2 .. cut + 1 /\ j \in Nat
        BY <1>1, <3>1
      <4>2. s[j] = "cont"
        BY <1>1, <4>1, ContinuesBytes
      <4> QED BY <2>3, <4>2 DEF Leads
    <3> QED BY <1>1, <3>1
  <2> QED BY <1>1, <2>2, <2>3, <2>4
<1> QED BY <1>2, <1>3

\* When a registration is over, its detail was read to the cut.
LEMMA RegisteredDetail ==
  ASSUME RegisterInv, stage = "registered"
  PROVE  LET cut == Limit(form.detail)
         IN /\ form.detail \in Seq(Byte) /\ cut \in 0 .. Len(form.detail)
            /\ cut <= MaxDetailLen
            /\ Len(detail) <= 3 * cut
            /\ IsText(form.detail) => KeepsBytes(detail, form.detail, cut, cut)
<1> DEFINE cut == Limit(form.detail)
<1>1. form.detail \in Seq(Byte)
  BY DEF RegisterInv, TypeOK
<1>2. cut \in 0 .. Len(form.detail) /\ cut <= MaxDetailLen
  BY <1>1, LimitRange
<1>3. Len(rest) = 0
  BY DEF RegisterInv, ReadToTheEnd, Reading
<1>4. /\ Len(detail) <= 3 * (cut - Len(rest))
      /\ IsText(form.detail)
           => Mapping(detail, form.detail, cut, cut - Len(rest))
  BY DEF RegisterInv, DetailReads, Reading
<1> HIDE DEF cut
<1>5. cut - Len(rest) = cut
  BY <1>2, <1>3
<1>6. IsText(form.detail) => KeepsBytes(detail, form.detail, cut, cut)
  BY <1>4, <1>5 DEF Mapping
<1> QED BY <1>1, <1>2, <1>4, <1>5, <1>6 DEF cut

\* The fields, and what becomes of them, are bytes and runes.
THEOREM RegisterTypeCorrect == Spec => []TypeOK
<1>1. RegisterInv => TypeOK
  BY DEF RegisterInv
<1> QED BY <1>1, RegisterAlways, PTL

\* A publish can carry every detail that is registered, whatever was sent and
\* wherever it was cut: server.register cuts bytes and maps runes.
THEOREM DetailSendableHolds == Spec => []DetailSendable
<1>1. RegisterInv => DetailSendable
  BY DEF RegisterInv, DetailSound, DetailSendable
<1> QED BY <1>1, RegisterAlways, PTL

\* The cut changes nothing before the rune it splits.
THEOREM DetailKeptHolds == Spec => []DetailKept
<1>1. RegisterInv => DetailKept
  BY RegisteredDetail DEF DetailKept, Limit
<1> QED BY <1>1, RegisterAlways, PTL

\* A registered detail is three times its bound at most, and six bytes over it
\* if it was text.
THEOREM DetailBoundedHolds == Spec => []DetailBounded
<1>1. RegisterInv => DetailBounded
  <2> SUFFICES ASSUME RegisterInv, stage = "registered"
               PROVE  /\ Len(detail) <= 3 * MaxDetailLen
                      /\ IsText(form.detail) => Len(detail) <= MaxDetailLen + 6
    BY DEF DetailBounded
  <2>1. PICK s, cut :
          /\ s = form.detail /\ s \in Seq(Byte) /\ cut \in 0 .. Len(s)
          /\ cut <= MaxDetailLen /\ Len(detail) <= 3 * cut
          /\ IsText(s) => KeepsBytes(detail, s, cut, cut)
    BY RegisteredDetail
  <2>2. Len(detail) \in Nat /\ MaxDetailLen \in Nat
    BY Bounds DEF RegisterInv, TypeOK
  <2>3. ASSUME IsText(s) PROVE Len(detail) <= MaxDetailLen + 6
    <3>1. PICK whole \in 0 .. cut :
            whole = WholeBytes(s, cut) /\ cut - whole <= 3
      BY <2>1, WholeBytesEnd, FewAreSplit
    <3>2. KeepsBytes(detail, s, cut, cut) /\ cut \in Nat /\ whole \in Nat
      BY <2>1, <2>3, <3>1
    <3>3. Len(detail) = Cardinality(Printed(s, whole)) + 3 * (cut - whole)
      BY <3>1, <3>2, KeepsSplit
    <3>4. Cardinality(Printed(s, whole)) \in 0 .. whole
      BY <3>2, PrintedCounted
    <3> QED BY <2>1, <2>2, <3>1, <3>2, <3>3, <3>4
  <2> QED BY <2>1, <2>2, <2>3
<1> QED BY <1>1, RegisterAlways, PTL

\* The links of a nonce that is accepted lead back to it, whatever white space
\* surrounded it and whatever else was in it.
THEOREM LinksOpenHolds == Spec => []LinksOpen
<1>1. RegisterInv => LinksOpen
  <2> SUFFICES ASSUME RegisterInv, stage = "registered"
               PROVE  Routed(nonce) /\ Len(nonce) <= MaxNonceRunes
    BY DEF LinksOpen
  <2>1. nonce \in Seq(Rune) /\ nonce # <<>> /\ Len(nonce) <= MaxNonceLen
        /\ IsSafeNonce(nonce)
    BY DEF RegisterInv, TypeOK, NonceChecked, Accepted
  <2>2. 1 \in DOMAIN nonce /\ nonce[1] = "safe"
    <3>1. Len(nonce) \in Nat \ {0}
      BY <2>1, EmptySeq
    <3> QED BY <2>1, <3>1 DEF IsSafeNonce
  <2>3. Routed(nonce)
    BY <2>1, <2>2 DEF Routed
  <2>4. Len(nonce) <= MaxNonceRunes
    BY <2>1, Bounds
  <2> QED BY <2>3, <2>4
<1> QED BY <1>1, RegisterAlways, PTL
=============================================================================
