---------------------- MODULE TransactionParsingProofs ----------------------
(***************************************************************************)
(* What TLAPS proves of TransactionParsing, for any transactions, tasks    *)
(* and table of parsers that satisfy the assumptions.                      *)
(***************************************************************************)
EXTENDS Integers, FiniteSetTheorems, FunctionTheorems, SequenceTheorems, TransactionParsing, TLAPS

(***************************************************************************)
(* Induction, in terms of a set.                                           *)
(***************************************************************************)

\* A set of naturals that holds 0 and the successor of each of its elements holds
\* every one: were n missing, adding one would be an injection of the part of the
\* set up to n into itself that does not reach 0.
LEMMA SetInduction ==
  ASSUME NEW S, 0 \in S, \A n \in Nat : n \in S => n + 1 \in S
  PROVE  \A n \in Nat : n \in S
<1> SUFFICES ASSUME NEW n \in Nat, n \notin S PROVE FALSE
  OBVIOUS
<1> DEFINE T == {i \in 0 .. n : i \in S}
           f == [i \in T |-> i + 1]
<1>1. IsFiniteSet(T)
  <2>1. IsFiniteSet(0 .. n) /\ T \in SUBSET (0 .. n)
    BY FS_Interval
  <2>2. QED BY <2>1, FS_Subset
<1>2. f \in Injection(T, T)
  <2>1. f \in [T -> T]
    OBVIOUS
  <2>2. \A i, j \in T : f[i] = f[j] => i = j
    OBVIOUS
  <2>3. QED BY <2>1, <2>2, Fun_IsInj
<1>3. f \in Surjection(T, T)
  BY <1>1, <1>2, FS_Injection
<1>4. 0 \in T
  OBVIOUS
<1>5. \E i \in T : f[i] = 0
  <2> HIDE DEF f, T
  <2>1. QED BY <1>3, <1>4, Fun_SurjectionProperties
<1>6. QED BY <1>5

(***************************************************************************)
(* Kept.                                                                   *)
(***************************************************************************)

\* The equation by which Kept is defined, for the first n elements.
KeptUpTo(s, S, n, g) ==
  g = [i \in 0 .. n |-> IF i = 0 THEN <<>>
                        ELSE IF s[i] \in S THEN Append(g[i - 1], s[i]) ELSE g[i - 1]]

\* It has a solution,
LEMMA KeptDefined ==
  ASSUME NEW s, NEW S
  PROVE  \A n \in Nat : \E g : KeptUpTo(s, S, n, g)
<1> DEFINE Good == {n \in Nat : \E g : KeptUpTo(s, S, n, g)}
<1>1. 0 \in Good
  <2> DEFINE h == [i \in 0 .. 0 |-> <<>>]
  <2>1. KeptUpTo(s, S, 0, h)
    BY DEF KeptUpTo
  <2>2. QED BY <2>1
<1>2. ASSUME NEW n \in Nat, n \in Good PROVE n + 1 \in Good
  <2>1. PICK g : KeptUpTo(s, S, n, g)
    BY <1>2
  <2> DEFINE last == IF s[n + 1] \in S THEN Append(g[n], s[n + 1]) ELSE g[n]
             h == [i \in 0 .. n + 1 |-> IF i = n + 1 THEN last ELSE g[i]]
  <2>2. \A i \in 0 .. n : g[i] = IF i = 0 THEN <<>>
                        ELSE IF s[i] \in S THEN Append(g[i - 1], s[i]) ELSE g[i - 1]
    BY <2>1 DEF KeptUpTo
  <2>3. KeptUpTo(s, S, n + 1, h)
    BY <2>2 DEF KeptUpTo
  <2>4. QED BY <2>3
<1> HIDE DEF Good
<1>3. \A n \in Nat : n \in Good
  BY <1>1, <1>2, SetInduction
<1>4. QED BY <1>3 DEF Good

\* What the equation says of each place.
LEMMA KeptAt ==
  ASSUME NEW s, NEW S, NEW n \in Nat, NEW g, KeptUpTo(s, S, n, g)
  PROVE  /\ g[0] = <<>>
         /\ \A i \in 0 .. n : i > 0 =>
              g[i] = IF s[i] \in S THEN Append(g[i - 1], s[i]) ELSE g[i - 1]
<1>1. \A i \in 0 .. n : g[i] = IF i = 0 THEN <<>>
                        ELSE IF s[i] \in S THEN Append(g[i - 1], s[i]) ELSE g[i - 1]
  BY DEF KeptUpTo
<1>2. QED BY <1>1

\* and only one, as far as two sequences agree.
LEMMA KeptUnique ==
  ASSUME NEW S, NEW s, NEW r, NEW n \in Nat, NEW m \in Nat, n <= m,
         \A i \in 1 .. n : s[i] = r[i],
         NEW g, KeptUpTo(s, S, n, g), NEW h, KeptUpTo(r, S, m, h)
  PROVE  \A i \in 0 .. n : g[i] = h[i]
<1> DEFINE Good == {i \in Nat : i <= n => g[i] = h[i]}
<1>0. /\ g[0] = <<>> /\ h[0] = <<>>
      /\ \A i \in 0 .. n : i > 0 =>
           /\ g[i] = IF s[i] \in S THEN Append(g[i - 1], s[i]) ELSE g[i - 1]
           /\ h[i] = IF r[i] \in S THEN Append(h[i - 1], r[i]) ELSE h[i - 1]
  BY KeptAt
<1>1. 0 \in Good
  BY <1>0
<1>2. ASSUME NEW i \in Nat, i \in Good PROVE i + 1 \in Good
  <2>1. CASE i + 1 <= n
    <3>1. i + 1 \in 1 .. n /\ i + 1 \in 0 .. n /\ i + 1 > 0 /\ (i + 1) - 1 = i /\ i <= n
      BY <2>1
    <3>2. s[i + 1] = r[i + 1] /\ g[i] = h[i]
      BY <1>2, <3>1
    <3>3. /\ g[i + 1] = IF s[i + 1] \in S THEN Append(g[i], s[i + 1]) ELSE g[i]
          /\ h[i + 1] = IF r[i + 1] \in S THEN Append(h[i], r[i + 1]) ELSE h[i]
      BY <1>0, <3>1
    <3>4. QED BY <3>2, <3>3
  <2>2. QED BY <2>1
<1> HIDE DEF Good
<1>3. \A i \in Nat : i \in Good
  BY <1>1, <1>2, SetInduction
<1>4. QED BY <1>3 DEF Good

\* What is kept of the first n elements.
KeptOf(s, S, n) == (CHOOSE g : KeptUpTo(s, S, n, g))[n]

\* Of no elements none is kept.
LEMMA KeptOfNone ==
  ASSUME NEW s, NEW S
  PROVE  KeptOf(s, S, 0) = <<>>
<1>1. PICK g : KeptUpTo(s, S, 0, g)
  BY 0 \in Nat, KeptDefined
<1>2. KeptUpTo(s, S, 0, CHOOSE h : KeptUpTo(s, S, 0, h))
  BY <1>1
<1>3. QED
  BY <1>2, KeptAt DEF KeptOf

\* What is kept of n elements depends on these alone.
LEMMA KeptOfAgree ==
  ASSUME NEW S, NEW s, NEW r, NEW n \in Nat, \A i \in 1 .. n : s[i] = r[i]
  PROVE  KeptOf(s, S, n) = KeptOf(r, S, n)
<1>1. PICK g : KeptUpTo(s, S, n, g)
  BY KeptDefined
<1>2. PICK h : KeptUpTo(r, S, n, h)
  BY KeptDefined
<1>3. KeptUpTo(s, S, n, CHOOSE f : KeptUpTo(s, S, n, f))
  BY <1>1
<1>4. KeptUpTo(r, S, n, CHOOSE f : KeptUpTo(r, S, n, f))
  BY <1>2
<1>5. n <= n /\ n \in 0 .. n
  OBVIOUS
<1>6. QED
  BY <1>3, <1>4, <1>5, KeptUnique DEF KeptOf

\* The last step of the equation.
LEMMA KeptLast ==
  ASSUME NEW S, NEW s, NEW m \in Nat, m > 0, NEW h, KeptUpTo(s, S, m, h)
  PROVE  h[m] = IF s[m] \in S THEN Append(h[m - 1], s[m]) ELSE h[m - 1]
<1>1. \A i \in 0 .. m : h[i] = IF i = 0 THEN <<>>
                        ELSE IF s[i] \in S THEN Append(h[i - 1], s[i]) ELSE h[i - 1]
  BY DEF KeptUpTo
<1>2. m \in 0 .. m
  OBVIOUS
<1>3. QED BY <1>1, <1>2

\* Of one element more that one is kept too, if it is in the set.
LEMMA KeptOfMore ==
  ASSUME NEW S, NEW s, NEW n \in Nat
  PROVE  KeptOf(s, S, n + 1) = IF s[n + 1] \in S THEN Append(KeptOf(s, S, n), s[n + 1])
                                                 ELSE KeptOf(s, S, n)
<1> DEFINE m == n + 1
           g == CHOOSE f : KeptUpTo(s, S, n, f)
           h == CHOOSE f : KeptUpTo(s, S, m, f)
<1>1. KeptUpTo(s, S, n, g)
  BY KeptDefined
<1>2. m \in Nat /\ n <= m /\ n \in 0 .. n /\ m \in 0 .. m /\ m > 0 /\ m - 1 = n
  OBVIOUS
<1> HIDE DEF m
<1>3. KeptUpTo(s, S, m, h)
  BY <1>2, KeptDefined
<1>4. KeptOf(s, S, n) = g[n] /\ KeptOf(s, S, m) = h[m]
  BY DEF KeptOf
<1> HIDE DEF g, h
<1>5. g[n] = h[n]
  BY <1>1, <1>2, <1>3, KeptUnique
<1>6. h[m] = IF s[m] \in S THEN Append(h[n], s[m]) ELSE h[n]
  <2>1. h[m] = IF s[m] \in S THEN Append(h[m - 1], s[m]) ELSE h[m - 1]
    BY <1>2, <1>3, KeptLast
  <2>2. QED BY <1>2, <2>1
<1>7. QED
  BY <1>4, <1>5, <1>6 DEF m

\* Kept is KeptOf all of them.
LEMMA KeptIsOf == ASSUME NEW s, NEW S PROVE Kept(s, S) = KeptOf(s, S, Len(s))
  BY DEF Kept, KeptOf, KeptUpTo

LEMMA KeptEmpty == ASSUME NEW S PROVE Kept(<<>>, S) = <<>>
<1>1. Len(<<>>) = 0
  OBVIOUS
<1>2. QED BY <1>1, KeptIsOf, KeptOfNone

\* One element more.
LEMMA KeptAppend ==
  ASSUME NEW S, NEW A, NEW s \in Seq(A), NEW e \in A
  PROVE  Kept(Append(s, e), S) = IF e \in S THEN Append(Kept(s, S), e) ELSE Kept(s, S)
<1> DEFINE r == Append(s, e)
           n == Len(s)
<1>1. /\ Len(r) = n + 1 /\ n \in Nat
      /\ r[n + 1] = e /\ \A i \in 1 .. n : r[i] = s[i]
  OBVIOUS
<1>2. Kept(r, S) = KeptOf(r, S, Len(r)) /\ Kept(s, S) = KeptOf(s, S, n)
  BY KeptIsOf
<1> HIDE DEF r, n
<1>3. KeptOf(r, S, n) = KeptOf(s, S, n)
  BY <1>1, KeptOfAgree
<1>4. KeptOf(r, S, n + 1) = IF r[n + 1] \in S THEN Append(KeptOf(r, S, n), r[n + 1])
                                               ELSE KeptOf(r, S, n)
  BY <1>1, KeptOfMore
<1>5. QED
  BY <1>1, <1>2, <1>3, <1>4 DEF r

\* It is a sequence of the same elements.
LEMMA KeptType ==
  ASSUME NEW S, NEW A, NEW s \in Seq(A)
  PROVE  Kept(s, S) \in Seq(A)
<1> DEFINE Good == {n \in Nat : n <= Len(s) => KeptOf(s, S, n) \in Seq(A)}
<1>1. 0 \in Good
  <2>1. KeptOf(s, S, 0) = <<>>
    BY KeptOfNone
  <2>2. <<>> \in Seq(A)
    OBVIOUS
  <2>3. QED BY <2>1, <2>2
<1>2. ASSUME NEW n \in Nat, n \in Good PROVE n + 1 \in Good
  <2>1. n + 1 <= Len(s) => s[n + 1] \in A
    OBVIOUS
  <2>2. KeptOf(s, S, n + 1) = IF s[n + 1] \in S THEN Append(KeptOf(s, S, n), s[n + 1])
                                                ELSE KeptOf(s, S, n)
    BY KeptOfMore
  <2>3. ASSUME n + 1 <= Len(s) PROVE KeptOf(s, S, n + 1) \in Seq(A)
    <3>1. n <= Len(s)
      BY <2>3
    <3>2. KeptOf(s, S, n) \in Seq(A) /\ s[n + 1] \in A
      BY <1>2, <2>1, <2>3, <3>1
    <3> DEFINE k == KeptOf(s, S, n)
               e == s[n + 1]
    <3> HIDE DEF k, e
    <3>3. Append(k, e) \in Seq(A)
      BY <3>2 DEF k, e
    <3>4. QED BY <2>2, <3>2, <3>3 DEF k, e
  <2>4. QED BY <2>3
<1> HIDE DEF Good
<1>3. \A n \in Nat : n \in Good
  BY <1>1, <1>2, SetInduction
<1>4. Len(s) \in Good /\ Len(s) <= Len(s)
  BY <1>3
<1>5. QED
  BY <1>4, KeptIsOf DEF Good

\* If all are in the set, all are kept.
LEMMA KeptAll ==
  ASSUME NEW S, NEW A, NEW s \in Seq(A), \A i \in 1 .. Len(s) : s[i] \in S
  PROVE  Kept(s, S) = s
<1> DEFINE Good == {n \in Nat : n <= Len(s) => KeptOf(s, S, n) = SubSeq(s, 1, n)}
<1>1. 0 \in Good
  <2>1. KeptOf(s, S, 0) = <<>>
    BY KeptOfNone
  <2>2. SubSeq(s, 1, 0) = <<>>
    OBVIOUS
  <2>3. QED BY <2>1, <2>2
<1>2. ASSUME NEW n \in Nat, n \in Good PROVE n + 1 \in Good
  <2> SUFFICES ASSUME n + 1 <= Len(s) PROVE KeptOf(s, S, n + 1) = SubSeq(s, 1, n + 1)
    OBVIOUS
  <2>1. KeptOf(s, S, n + 1) = IF s[n + 1] \in S THEN Append(KeptOf(s, S, n), s[n + 1])
                                                ELSE KeptOf(s, S, n)
    BY KeptOfMore
  <2>2. s[n + 1] \in S /\ KeptOf(s, S, n) = SubSeq(s, 1, n)
    BY <1>2
  <2>3. SubSeq(s, 1, n + 1) = Append(SubSeq(s, 1, n), s[n + 1])
    OBVIOUS
  <2>4. QED
    BY <2>1, <2>2, <2>3
<1> HIDE DEF Good
<1>3. \A n \in Nat : n \in Good
  BY <1>1, <1>2, SetInduction
<1>4. Len(s) \in Good /\ Len(s) <= Len(s) /\ SubSeq(s, 1, Len(s)) = s
  BY <1>3
<1>5. QED
  BY <1>4, KeptIsOf DEF Good

\* What is kept of the beginning of a sequence.
LEMMA KeptBeginning ==
  ASSUME NEW S, NEW A, NEW s \in Seq(A), NEW n \in 0 .. Len(s)
  PROVE  Kept(SubSeq(s, 1, n), S) = KeptOf(s, S, n)
<1> DEFINE r == SubSeq(s, 1, n)
<1>1. Len(r) = n /\ \A i \in 1 .. n : r[i] = s[i]
  OBVIOUS
<1>2. Kept(r, S) = KeptOf(r, S, Len(r))
  BY KeptIsOf
<1> HIDE DEF r
<1>3. KeptOf(r, S, n) = KeptOf(s, S, n)
  BY <1>1, KeptOfAgree
<1>4. QED
  BY <1>1, <1>2, <1>3 DEF r

\* The part of a sequence up to n, and the part before it.
LEMMA KeptNext ==
  ASSUME NEW S, NEW A, NEW s \in Seq(A), NEW n \in 1 .. Len(s)
  PROVE  Kept(SubSeq(s, 1, n), S)
           = IF s[n] \in S THEN Append(Kept(SubSeq(s, 1, n - 1), S), s[n])
                           ELSE Kept(SubSeq(s, 1, n - 1), S)
<1>1. n - 1 \in Nat /\ n - 1 \in 0 .. Len(s) /\ n \in 0 .. Len(s) /\ (n - 1) + 1 = n
  OBVIOUS
<1>2. /\ Kept(SubSeq(s, 1, n), S) = KeptOf(s, S, n)
      /\ Kept(SubSeq(s, 1, n - 1), S) = KeptOf(s, S, n - 1)
  BY <1>1, KeptBeginning
<1>3. \A k \in Nat : KeptOf(s, S, k + 1) = IF s[k + 1] \in S THEN Append(KeptOf(s, S, k), s[k + 1])
                                                                 ELSE KeptOf(s, S, k)
  BY KeptOfMore
<1>4. KeptOf(s, S, n) = IF s[n] \in S THEN Append(KeptOf(s, S, n - 1), s[n])
                                       ELSE KeptOf(s, S, n - 1)
  BY <1>1, <1>3
<1>5. QED
  BY <1>2, <1>4

\* What is kept of the beginning is the beginning of what is kept.
LEMMA KeptPrefix ==
  ASSUME NEW S, NEW A, NEW s \in Seq(A), NEW n \in 0 .. Len(s)
  PROVE  IsPrefix(Kept(SubSeq(s, 1, n), S), Kept(s, S))
<1> DEFINE k == Kept(SubSeq(s, 1, n), S)
           Good == {m \in Nat : n + m <= Len(s) => IsPrefix(k, Kept(SubSeq(s, 1, n + m), S))}
<1>0. k \in Seq(A)
  <2>1. SubSeq(s, 1, n) \in Seq(A)
    OBVIOUS
  <2>2. QED BY <2>1, KeptType
<1> HIDE DEF k
<1>1. 0 \in Good
  BY <1>0 DEF IsPrefix, k
<1>2. ASSUME NEW m \in Nat, m \in Good PROVE m + 1 \in Good
  <2> SUFFICES ASSUME n + (m + 1) <= Len(s)
               PROVE  IsPrefix(k, Kept(SubSeq(s, 1, n + (m + 1)), S))
    OBVIOUS
  <2> DEFINE j == n + (m + 1)
             before == Kept(SubSeq(s, 1, j - 1), S)
  <2>1. j \in 1 .. Len(s) /\ j - 1 = n + m /\ s[j] \in A /\ SubSeq(s, 1, j - 1) \in Seq(A)
    OBVIOUS
  <2>2. before \in Seq(A)
    BY <2>1, KeptType
  <2>3. IsPrefix(k, before)
    BY <1>2, <2>1
  <2>4. Kept(SubSeq(s, 1, j), S) = IF s[j] \in S THEN Append(before, s[j]) ELSE before
    BY <2>1, KeptNext
  <2> HIDE DEF j, before
  <2>5. IsPrefix(k, Append(before, s[j]))
    BY <1>0, <2>1, <2>2, <2>3 DEF IsPrefix
  <2>6. QED
    BY <2>3, <2>4, <2>5 DEF j
<1> HIDE DEF Good
<1>3. \A m \in Nat : m \in Good
  BY <1>1, <1>2, SetInduction
<1>4. Len(s) - n \in Nat /\ n + (Len(s) - n) = Len(s) /\ SubSeq(s, 1, Len(s)) = s /\ Len(s) <= Len(s)
  OBVIOUS
<1>5. QED
  BY <1>3, <1>4 DEF Good, k

\* A first part with nothing to keep makes no difference.
LEMMA KeptSkips ==
  ASSUME NEW S, NEW A, NEW r \in Seq(A), NEW s \in Seq(A), \A i \in 1 .. Len(r) : r[i] \notin S
  PROVE  Kept(r \o s, S) = Kept(s, S)
<1> DEFINE c == r \o s
           n == Len(r)
           None0 == {i \in Nat : i <= n => KeptOf(c, S, i) = <<>>}
           Good == {i \in Nat : i <= Len(s) => KeptOf(c, S, n + i) = KeptOf(s, S, i)}
<1>0. /\ n \in Nat /\ Len(s) \in Nat /\ Len(c) = n + Len(s)
      /\ \A i \in 1 .. n : c[i] \notin S
      /\ \A i \in 1 .. Len(s) : c[n + i] = s[i]
  OBVIOUS
<1> HIDE DEF c, n
<1>1. \A i \in Nat : i \in None0
  <2>1. 0 \in None0
    BY KeptOfNone
  <2>2. ASSUME NEW i \in Nat, i \in None0 PROVE i + 1 \in None0
    <3>1. KeptOf(c, S, i + 1) = IF c[i + 1] \in S THEN Append(KeptOf(c, S, i), c[i + 1])
                                                  ELSE KeptOf(c, S, i)
      BY KeptOfMore
    <3>2. QED
      BY <1>0, <2>2, <3>1
  <2> HIDE DEF None0
  <2>3. QED BY <2>1, <2>2, SetInduction
<1>2. \A i \in Nat : i \in Good
  <2>1. 0 \in Good
    BY <1>0, <1>1, KeptOfNone
  <2>2. ASSUME NEW i \in Nat, i \in Good PROVE i + 1 \in Good
    <3>0. \A k \in Nat : KeptOf(c, S, k + 1) = IF c[k + 1] \in S THEN Append(KeptOf(c, S, k), c[k + 1])
                                                                  ELSE KeptOf(c, S, k)
      BY KeptOfMore
    <3>1. KeptOf(c, S, (n + i) + 1)
            = IF c[(n + i) + 1] \in S THEN Append(KeptOf(c, S, n + i), c[(n + i) + 1])
                                      ELSE KeptOf(c, S, n + i)
      <4>1. n + i \in Nat
        BY <1>0
      <4> HIDE DEF Good
      <4>2. QED BY <3>0, <4>1
    <3>2. KeptOf(s, S, i + 1) = IF s[i + 1] \in S THEN Append(KeptOf(s, S, i), s[i + 1])
                                                  ELSE KeptOf(s, S, i)
      BY KeptOfMore
    <3>3. (n + i) + 1 = n + (i + 1) /\ (i + 1 <= Len(s) => i <= Len(s) /\ i + 1 \in 1 .. Len(s))
      BY <1>0
    <3>4. i + 1 <= Len(s) => c[(n + i) + 1] = s[i + 1]
      BY <1>0, <3>3
    <3>5. QED
      BY <2>2, <3>1, <3>2, <3>3, <3>4
  <2> HIDE DEF Good
  <2>3. QED BY <2>1, <2>2, SetInduction
<1>3. KeptOf(c, S, n + Len(s)) = KeptOf(s, S, Len(s))
  BY <1>0, <1>2
<1>4. QED
  BY <1>0, <1>3, KeptIsOf DEF c

(***************************************************************************)
(* The walk.                                                               *)
(***************************************************************************)

\* The equation by which FlattenSeq is defined, for the first n sequences.
FlatUpTo(seqs, n, g) ==
  g = [i \in 1 .. n |-> IF i = 1 THEN seqs[i] ELSE g[i - 1] \o seqs[i]]

LEMMA FlatDefined ==
  ASSUME NEW seqs
  PROVE  \A n \in Nat : \E g : FlatUpTo(seqs, n, g)
<1> DEFINE Good == {n \in Nat : \E g : FlatUpTo(seqs, n, g)}
<1>1. 0 \in Good
  <2> DEFINE h == [i \in 1 .. 0 |-> <<>>]
  <2>1. FlatUpTo(seqs, 0, h)
    BY DEF FlatUpTo
  <2>2. QED BY <2>1
<1>2. ASSUME NEW n \in Nat, n \in Good PROVE n + 1 \in Good
  <2>1. PICK g : FlatUpTo(seqs, n, g)
    BY <1>2
  <2> DEFINE last == IF n = 0 THEN seqs[n + 1] ELSE g[n] \o seqs[n + 1]
             h == [i \in 1 .. n + 1 |-> IF i = n + 1 THEN last ELSE g[i]]
  <2>2. \A i \in 1 .. n : g[i] = IF i = 1 THEN seqs[i] ELSE g[i - 1] \o seqs[i]
    BY <2>1 DEF FlatUpTo
  <2>3. ASSUME NEW i \in 1 .. n + 1
        PROVE  h[i] = IF i = 1 THEN seqs[i] ELSE h[i - 1] \o seqs[i]
    <3>1. CASE i = n + 1 /\ n # 0
      <4>1. i - 1 = n /\ i - 1 \in 1 .. n + 1 /\ i # 1
        BY <3>1
      <4>2. h[i] = g[n] \o seqs[i]
        BY <3>1
      <4>3. h[i - 1] = g[n]
        BY <4>1
      <4> HIDE DEF h
      <4>4. QED BY <4>1, <4>2, <4>3
    <3>2. CASE i = n + 1 /\ n = 0
      BY <3>2
    <3>3. CASE i # n + 1
      <4>1. i \in 1 .. n /\ (i # 1 => i - 1 \in 1 .. n + 1 /\ i - 1 # n + 1)
        BY <3>3
      <4>2. h[i] = g[i] /\ (i # 1 => h[i - 1] = g[i - 1])
        BY <3>3, <4>1
      <4> HIDE DEF h
      <4>3. QED BY <2>2, <4>1, <4>2
    <3>4. QED BY <3>1, <3>2, <3>3
  <2>4. h = [i \in 1 .. n + 1 |-> h[i]]
    OBVIOUS
  <2> HIDE DEF h
  <2>5. h = [i \in 1 .. n + 1 |-> IF i = 1 THEN seqs[i] ELSE h[i - 1] \o seqs[i]]
    BY <2>3, <2>4
  <2>6. FlatUpTo(seqs, n + 1, h)
    BY <2>5 DEF FlatUpTo
  <2>7. QED BY <2>6
<1> HIDE DEF Good
<1>3. \A n \in Nat : n \in Good
  BY <1>1, <1>2, SetInduction
<1>4. QED BY <1>3 DEF Good

\* Flattened, sequences of something are a sequence of it.
LEMMA FlattenType ==
  ASSUME NEW A, NEW seqs \in Seq(Seq(A))
  PROVE  FlattenSeq(seqs) \in Seq(A)
<1> DEFINE n == Len(seqs)
           g == CHOOSE f : FlatUpTo(seqs, n, f)
           Good == {i \in Nat : i + 1 <= n => g[i + 1] \in Seq(A)}
<1>0. n \in Nat /\ \A i \in 1 .. n : seqs[i] \in Seq(A)
  OBVIOUS
<1>a. FlattenSeq(seqs) = IF n = 0 THEN seqs ELSE g[n]
  BY DEF FlattenSeq, FlatUpTo
<1>b. n = 0 => seqs = <<>>
  OBVIOUS
<1> HIDE DEF n
<1>1. FlatUpTo(seqs, n, g)
  BY <1>0, FlatDefined
<1> HIDE DEF g
<1>2. \A i \in 1 .. n : g[i] = IF i = 1 THEN seqs[i] ELSE g[i - 1] \o seqs[i]
  BY <1>1 DEF FlatUpTo
<1>3. 0 \in Good
  BY <1>0, <1>2
<1>4. ASSUME NEW i \in Nat, i \in Good PROVE i + 1 \in Good
  <2>1. ASSUME (i + 1) + 1 <= n PROVE g[(i + 1) + 1] \in Seq(A)
    <3>1. (i + 1) + 1 \in 1 .. n /\ ((i + 1) + 1) - 1 = i + 1 /\ i + 1 <= n /\ (i + 1) + 1 # 1
      BY <1>0, <2>1
    <3>2. g[i + 1] \in Seq(A) /\ seqs[(i + 1) + 1] \in Seq(A)
      BY <1>0, <1>4, <3>1
    <3>3. g[(i + 1) + 1] = g[i + 1] \o seqs[(i + 1) + 1]
      BY <1>2, <3>1
    <3> DEFINE a == g[i + 1]
               b == seqs[(i + 1) + 1]
    <3> HIDE DEF a, b
    <3>4. a \o b \in Seq(A)
      BY <3>2 DEF a, b
    <3>5. QED BY <3>3, <3>4 DEF a, b
  <2>2. QED BY <2>1
<1> HIDE DEF Good
<1>5. \A i \in Nat : i \in Good
  BY <1>3, <1>4, SetInduction
<1>6. CASE n = 0
  BY <1>6, <1>a, <1>b
<1>7. CASE n # 0
  <2>1. n - 1 \in Nat /\ (n - 1) + 1 = n /\ n <= n
    BY <1>0, <1>7
  <2>2. g[n] \in Seq(A)
    BY <1>5, <2>1 DEF Good
  <2>3. QED BY <1>7, <1>a, <2>2
<1>8. QED BY <1>6, <1>7

\* The positions a transaction has.
Outers(x) == {at \in Position : at.inner = 0 /\ at.nth \in DOMAIN x.outer}
Inners(x) ==
  {at \in Position : /\ at.inner # 0 /\ at.nth \in DOMAIN x.groups
                     /\ at.inner \in DOMAIN x.groups[at.nth].instructions}

\* The parts of a transaction.
LEMMA TransactionType ==
  ASSUME NEW x \in Transactions
  PROVE  /\ x.full \in BOOLEAN /\ x.static \in Seq(Keys) /\ x.loaded \in Seq(Keys)
         /\ x.outer \in Seq(Instructions)
         /\ x.groups \in Seq(Groups)
         /\ \A g \in DOMAIN x.groups : x.groups[g].instructions \in Seq(Instructions)
         /\ Resolved(x) \in Seq(Keys)
<1>1. /\ x.full \in BOOLEAN /\ x.static \in Seq(Keys) /\ x.loaded \in Seq(Keys)
      /\ x.outer \in Seq(Instructions) /\ x.groups \in Seq(Groups)
  BY DEF Transactions
<1>2. ASSUME NEW g \in DOMAIN x.groups PROVE x.groups[g].instructions \in Seq(Instructions)
  <2>1. x.groups[g] \in Groups
    BY <1>1
  <2>2. QED BY <2>1 DEF Groups
<1>3. Resolved(x) \in Seq(Keys)
  BY <1>1 DEF Resolved
<1>4. QED BY <1>1, <1>2, <1>3

\* Where the walks lead: to outer instructions,
LEMMA OuterWalkType ==
  ASSUME NEW x \in Transactions
  PROVE  OuterWalk(x) \in Seq(Outers(x)) /\ OuterWalk(x) \in Seq(Position)
<1>1. x.outer \in Seq(Instructions)
  BY TransactionType
<1>2. Len(x.outer) \in Nat /\ DOMAIN x.outer = 1 .. Len(x.outer)
  BY <1>1
<1>3. \A i \in 1 .. Len(x.outer) : [nth |-> i, inner |-> 0] \in Outers(x)
  BY <1>2 DEF Outers, Position
<1>4. OuterWalk(x) = [i \in 1 .. Len(x.outer) |-> [nth |-> i, inner |-> 0]]
  BY <1>2 DEF OuterWalk
<1> DEFINE n == Len(x.outer)
           w == OuterWalk(x)
<1>5. n \in Nat /\ \A i \in 1 .. n : w[i] \in Outers(x)
  BY <1>2, <1>3, <1>4
<1>6. w = [i \in 1 .. n |-> w[i]]
  BY <1>4
<1> HIDE DEF n, w
<1>7. w \in Seq(Outers(x))
  BY <1>5, <1>6
<1>8. \A i \in 1 .. n : w[i] \in Position
  BY <1>5 DEF Outers
<1>9. w \in Seq(Position)
  BY <1>5, <1>6, <1>8
<1>10. QED BY <1>7, <1>9 DEF w

\* and to instructions of the groups.
LEMMA InnerWalkType ==
  ASSUME NEW x \in Transactions
  PROVE  InnerWalk(x) \in Seq(Inners(x)) /\ InnerWalk(x) \in Seq(Position)
<1> DEFINE each == [g \in DOMAIN x.groups |->
                [j \in DOMAIN x.groups[g].instructions |-> [nth |-> g, inner |-> j]]]
<1>1. ASSUME NEW g \in DOMAIN x.groups
      PROVE  [j \in DOMAIN x.groups[g].instructions |-> [nth |-> g, inner |-> j]] \in Seq(Inners(x))
  <2> DEFINE s == x.groups[g].instructions
             e == [j \in DOMAIN s |-> [nth |-> g, inner |-> j]]
  <2>1. s \in Seq(Instructions) /\ x.groups \in Seq(Groups)
    BY TransactionType
  <2>2. Len(s) \in Nat /\ DOMAIN s = 1 .. Len(s) /\ g \in Nat
    BY <2>1
  <2>3. \A j \in 1 .. Len(s) : e[j] \in Inners(x)
    BY <2>2 DEF Inners, Position
  <2>4. e = [j \in 1 .. Len(s) |-> e[j]]
    BY <2>2
  <2> HIDE DEF e
  <2>5. e \in Seq(Inners(x))
    BY <2>2, <2>3, <2>4
  <2>6. QED BY <2>5 DEF e
<1>2. x.groups \in Seq(Groups)
  BY TransactionType
<1>3. Len(x.groups) \in Nat /\ DOMAIN x.groups = 1 .. Len(x.groups)
  BY <1>2
<1>4. each \in Seq(Seq(Inners(x)))
  <2>1. \A g \in 1 .. Len(x.groups) : each[g] \in Seq(Inners(x))
    BY <1>1, <1>3
  <2>2. each = [g \in 1 .. Len(x.groups) |-> each[g]]
    BY <1>3
  <2> HIDE DEF each
  <2>3. QED BY <1>3, <2>1, <2>2
<1>5. InnerWalk(x) = FlattenSeq(each)
  BY DEF InnerWalk
<1> HIDE DEF each
<1>6. InnerWalk(x) \in Seq(Inners(x))
  BY <1>4, <1>5, FlattenType
<1>7. \A i \in DOMAIN InnerWalk(x) : InnerWalk(x)[i] \in Position
  BY <1>6 DEF Inners
<1>8. InnerWalk(x) \in Seq(Position)
  <2> DEFINE w == InnerWalk(x)
  <2> HIDE DEF w
  <2>1. Len(w) \in Nat /\ w = [i \in 1 .. Len(w) |-> w[i]] /\ DOMAIN w = 1 .. Len(w)
    BY <1>6 DEF w
  <2>2. w \in Seq(Position)
    BY <2>1, <1>7 DEF w
  <2>3. QED BY <2>2 DEF w
<1>9. QED BY <1>6, <1>8

\* Every position of the walk is one of the transaction.
LEMMA WalkType ==
  ASSUME NEW x \in Transactions
  PROVE  /\ Walk(x) \in Seq(Position)
         /\ \A i \in 1 .. Len(Walk(x)) :
              \/ Walk(x)[i] \in Outers(x)
              \/ x.full /\ Walk(x)[i] \in Inners(x)
<1> DEFINE a == IF HasProgram(x) THEN OuterWalk(x) ELSE <<>>
           b == IF x.full THEN InnerWalk(x) ELSE <<>>
<1>1. a \in Seq(Outers(x)) /\ a \in Seq(Position)
  BY OuterWalkType
<1>2. b \in Seq(Inners(x)) /\ b \in Seq(Position) /\ (b # <<>> => x.full)
  BY InnerWalkType
<1>3. Walk(x) = a \o b
  BY DEF Walk
<1> HIDE DEF a, b
<1>4. Walk(x) \in Seq(Position)
  BY <1>1, <1>2, <1>3
<1>5. ASSUME NEW i \in 1 .. Len(Walk(x))
      PROVE  Walk(x)[i] \in Outers(x) \/ (x.full /\ Walk(x)[i] \in Inners(x))
  <2>1. CASE i \in 1 .. Len(a)
    BY <1>1, <1>2, <1>3, <2>1
  <2>2. CASE i \notin 1 .. Len(a)
    <3>1. i - Len(a) \in 1 .. Len(b) /\ Walk(x)[i] = b[i - Len(a)]
      BY <1>1, <1>2, <1>3, <2>2
    <3>2. b # <<>>
      BY <3>1
    <3>3. QED BY <1>2, <3>1, <3>2
  <2>3. QED BY <2>1, <2>2
<1>6. QED BY <1>4, <1>5

\* Any place in the walk is one of these; inner ones are of a block.
LEMMA PositionType ==
  ASSUME NEW x \in Transactions, NEW i \in Nat \ {0}, i <= Len(Walk(x))
  PROVE  /\ Walk(x)[i] \in Outers(x) \cup Inners(x)
         /\ Walk(x)[i] \in Position
         /\ Walk(x)[i].inner # 0 => x.full /\ Walk(x)[i] \in Inners(x)
<1>1. Walk(x) \in Seq(Position)
  BY WalkType
<1>2. i \in 1 .. Len(Walk(x))
  BY <1>1
<1>3. Walk(x)[i] \in Outers(x) \/ (x.full /\ Walk(x)[i] \in Inners(x))
  BY <1>2, WalkType
<1>4. Walk(x)[i] \in Position
  BY <1>1, <1>2
<1>5. QED BY <1>3, <1>4 DEF Outers

\* The same, of the set of positions.
LEMMA PositionsType ==
  ASSUME NEW x \in Transactions, NEW at \in Positions(x)
  PROVE  at \in Outers(x) \cup Inners(x) /\ (at.inner # 0 => x.full /\ at \in Inners(x))
<1>1. PICK i \in DOMAIN Walk(x) : at = Walk(x)[i]
  BY DEF Positions
<1>2. i \in Nat \ {0} /\ i <= Len(Walk(x))
  BY WalkType
<1>3. QED BY <1>1, <1>2, PositionType

\* What is at such a position is an instruction.
LEMMA InstructionType ==
  ASSUME NEW x \in Transactions, NEW at \in Outers(x) \cup Inners(x)
  PROVE  InstructionAt(x, at) \in Instructions
<1>1. CASE at \in Outers(x)
  <2>1. at.inner = 0 /\ at.nth \in DOMAIN x.outer /\ x.outer \in Seq(Instructions)
    BY <1>1, TransactionType DEF Outers
  <2>2. x.outer[at.nth] \in Instructions
    BY <2>1
  <2>3. QED BY <2>1, <2>2 DEF InstructionAt
<1>2. CASE at \in Inners(x)
  <2> DEFINE s == x.groups[at.nth].instructions
  <2>1. at.inner # 0 /\ at.nth \in DOMAIN x.groups /\ at.inner \in DOMAIN s
    BY <1>2 DEF Inners
  <2>2. s \in Seq(Instructions)
    BY <2>1, TransactionType
  <2>3. InstructionAt(x, at) = s[at.inner]
    BY <2>1 DEF InstructionAt
  <2> HIDE DEF s
  <2>4. s[at.inner] \in Instructions
    BY <2>1, <2>2
  <2>5. QED BY <2>3, <2>4
<1>3. QED BY <1>1, <1>2


(***************************************************************************)
(* The parsers.                                                            *)
(***************************************************************************)

\* What the guard of a parser must cover.
Guarded(p) ==
  /\ p.data \in Nat /\ p.bytes \in Nat /\ p.accounts \in Nat
  /\ p.bytes <= p.data
  /\ p.keys <= p.accounts
  /\ p.text \in {"none", "checked"}

\* What the table must be like for the rest: a parser of launches belongs to a
\* platform, and reads the keys of the people it announces.
Described(p, program, first) ==
  /\ p.program = program
  /\ p.disc \in Seq(Nat) /\ p.disc # <<>> /\ p.disc[1] = first
  /\ p.keys \in Nat
  /\ p.event # "none"
  /\ p.event = "PumpFunCreateToken" => program = "PumpFun" /\ p.keys >= 8
  /\ p.event \in {"BonkInitialize", "BonkInitializeV2"} => program = "Bonk" /\ p.keys >= 2
  /\ p.event \in UnderGuarded \/ Guarded(p)

LEMMA PumpFunDescribed ==
  /\ Described(PumpFunCreateToken, "PumpFun", 24)
  /\ Described(PumpFunBuy, "PumpFun", 102)
  /\ Described(PumpFunSell, "PumpFun", 51)
  /\ Described(PumpFunMigrate, "PumpFun", 155)
<1> USE DEF Described, Guarded, UnderGuarded, Parser
<1>1. Described(PumpFunCreateToken, "PumpFun", 24)
  BY DEF PumpFunCreateToken
<1>2. Described(PumpFunBuy, "PumpFun", 102)
  BY DEF PumpFunBuy
<1>3. Described(PumpFunSell, "PumpFun", 51)
  BY DEF PumpFunSell
<1>4. Described(PumpFunMigrate, "PumpFun", 155)
  BY DEF PumpFunMigrate
<1>5. QED BY <1>1, <1>2, <1>3, <1>4

LEMMA PumpSwapDescribed ==
  /\ Described(PumpSwapBuy, "PumpSwap", 102)
  /\ Described(PumpSwapSell, "PumpSwap", 51)
  /\ Described(PumpSwapCreatePool, "PumpSwap", 233)
  /\ Described(PumpSwapDeposit, "PumpSwap", 242)
  /\ Described(PumpSwapWithdraw, "PumpSwap", 183)
<1> USE DEF Described, Guarded, UnderGuarded, Parser
<1>1. Described(PumpSwapBuy, "PumpSwap", 102)
  BY DEF PumpSwapBuy
<1>2. Described(PumpSwapSell, "PumpSwap", 51)
  BY DEF PumpSwapSell
<1>3. Described(PumpSwapCreatePool, "PumpSwap", 233)
  BY DEF PumpSwapCreatePool
<1>4. Described(PumpSwapDeposit, "PumpSwap", 242)
  BY DEF PumpSwapDeposit
<1>5. Described(PumpSwapWithdraw, "PumpSwap", 183)
  BY DEF PumpSwapWithdraw
<1>6. QED BY <1>1, <1>2, <1>3, <1>4, <1>5

LEMMA BonkDescribed ==
  /\ Described(BonkBuyExactIn, "Bonk", 250)
  /\ Described(BonkBuyExactOut, "Bonk", 24)
  /\ Described(BonkSellExactIn, "Bonk", 149)
  /\ Described(BonkSellExactOut, "Bonk", 95)
  /\ Described(BonkInitialize, "Bonk", 175)
  /\ Described(BonkInitializeV2, "Bonk", 67)
  /\ Described(BonkMigrateToAmm, "Bonk", 207)
  /\ Described(BonkMigrateToCpswap, "Bonk", 136)
<1> USE DEF Described, Guarded, UnderGuarded, Parser
<1>1. Described(BonkBuyExactIn, "Bonk", 250)
  BY DEF BonkBuyExactIn
<1>2. Described(BonkBuyExactOut, "Bonk", 24)
  BY DEF BonkBuyExactOut
<1>3. Described(BonkSellExactIn, "Bonk", 149)
  BY DEF BonkSellExactIn
<1>4. Described(BonkSellExactOut, "Bonk", 95)
  BY DEF BonkSellExactOut
<1>5. Described(BonkInitialize, "Bonk", 175)
  BY DEF BonkInitialize
<1>6. Described(BonkInitializeV2, "Bonk", 67)
  BY DEF BonkInitializeV2
<1>7. Described(BonkMigrateToAmm, "Bonk", 207)
  BY DEF BonkMigrateToAmm
<1>8. Described(BonkMigrateToCpswap, "Bonk", 136)
  BY DEF BonkMigrateToCpswap
<1>9. QED BY <1>1, <1>2, <1>3, <1>4, <1>5, <1>6, <1>7, <1>8

LEMMA CpmmDescribed ==
  /\ Described(CpmmSwapBaseInput, "Cpmm", 143)
  /\ Described(CpmmSwapBaseOutput, "Cpmm", 55)
  /\ Described(CpmmDeposit, "Cpmm", 242)
  /\ Described(CpmmInitialize, "Cpmm", 175)
  /\ Described(CpmmWithdraw, "Cpmm", 183)
<1> USE DEF Described, Guarded, UnderGuarded, Parser
<1>1. Described(CpmmSwapBaseInput, "Cpmm", 143)
  BY DEF CpmmSwapBaseInput
<1>2. Described(CpmmSwapBaseOutput, "Cpmm", 55)
  BY DEF CpmmSwapBaseOutput
<1>3. Described(CpmmDeposit, "Cpmm", 242)
  BY DEF CpmmDeposit
<1>4. Described(CpmmInitialize, "Cpmm", 175)
  BY DEF CpmmInitialize
<1>5. Described(CpmmWithdraw, "Cpmm", 183)
  BY DEF CpmmWithdraw
<1>6. QED BY <1>1, <1>2, <1>3, <1>4, <1>5

LEMMA ClmmDescribed ==
  /\ Described(ClmmSwap, "Clmm", 248)
  /\ Described(ClmmSwapV2, "Clmm", 43)
  /\ Described(ClmmClosePosition, "Clmm", 123)
  /\ Described(ClmmDecreaseLiquidityV2, "Clmm", 58)
  /\ Described(ClmmCreatePool, "Clmm", 233)
  /\ Described(ClmmIncreaseLiquidityV2, "Clmm", 133)
  /\ Described(ClmmOpenPositionWithToken22Nft, "Clmm", 77)
  /\ Described(ClmmOpenPositionV2, "Clmm", 77)
<1> USE DEF Described, Guarded, UnderGuarded, Parser
<1>1. Described(ClmmSwap, "Clmm", 248)
  BY DEF ClmmSwap
<1>2. Described(ClmmSwapV2, "Clmm", 43)
  BY DEF ClmmSwapV2
<1>3. Described(ClmmClosePosition, "Clmm", 123)
  BY DEF ClmmClosePosition
<1>4. Described(ClmmDecreaseLiquidityV2, "Clmm", 58)
  BY DEF ClmmDecreaseLiquidityV2
<1>5. Described(ClmmCreatePool, "Clmm", 233)
  BY DEF ClmmCreatePool
<1>6. Described(ClmmIncreaseLiquidityV2, "Clmm", 133)
  BY DEF ClmmIncreaseLiquidityV2
<1>7. Described(ClmmOpenPositionWithToken22Nft, "Clmm", 77)
  BY DEF ClmmOpenPositionWithToken22Nft
<1>8. Described(ClmmOpenPositionV2, "Clmm", 77)
  BY DEF ClmmOpenPositionV2
<1>9. QED BY <1>1, <1>2, <1>3, <1>4, <1>5, <1>6, <1>7, <1>8

LEMMA AmmV4Described ==
  /\ Described(AmmV4SwapBaseInput, "AmmV4", 9)
  /\ Described(AmmV4SwapBaseOutput, "AmmV4", 11)
  /\ Described(AmmV4Deposit, "AmmV4", 3)
  /\ Described(AmmV4Initialize2, "AmmV4", 1)
  /\ Described(AmmV4Withdraw, "AmmV4", 4)
  /\ Described(AmmV4WithdrawPnl, "AmmV4", 7)
<1> USE DEF Described, Guarded, UnderGuarded, Parser
<1>1. Described(AmmV4SwapBaseInput, "AmmV4", 9)
  BY DEF AmmV4SwapBaseInput
<1>2. Described(AmmV4SwapBaseOutput, "AmmV4", 11)
  BY DEF AmmV4SwapBaseOutput
<1>3. Described(AmmV4Deposit, "AmmV4", 3)
  BY DEF AmmV4Deposit
<1>4. Described(AmmV4Initialize2, "AmmV4", 1)
  BY DEF AmmV4Initialize2
<1>5. Described(AmmV4Withdraw, "AmmV4", 4)
  BY DEF AmmV4Withdraw
<1>6. Described(AmmV4WithdrawPnl, "AmmV4", 7)
  BY DEF AmmV4WithdrawPnl
<1>7. QED BY <1>1, <1>2, <1>3, <1>4, <1>5, <1>6

\* The parsers of a program.
OfProgram(program) ==
  CASE program = "PumpFun"  -> {PumpFunCreateToken, PumpFunBuy, PumpFunSell, PumpFunMigrate}
    [] program = "PumpSwap" -> {PumpSwapBuy, PumpSwapSell, PumpSwapCreatePool, PumpSwapDeposit,
                                PumpSwapWithdraw}
    [] program = "Bonk"     -> {BonkBuyExactIn, BonkBuyExactOut, BonkSellExactIn, BonkSellExactOut,
                                BonkInitialize, BonkInitializeV2, BonkMigrateToAmm,
                                BonkMigrateToCpswap}
    [] program = "Cpmm"     -> {CpmmSwapBaseInput, CpmmSwapBaseOutput, CpmmDeposit, CpmmInitialize,
                                CpmmWithdraw}
    [] program = "Clmm"     -> {ClmmSwap, ClmmSwapV2, ClmmClosePosition, ClmmDecreaseLiquidityV2,
                                ClmmCreatePool, ClmmIncreaseLiquidityV2,
                                ClmmOpenPositionWithToken22Nft, ClmmOpenPositionV2}
    [] program = "AmmV4"    -> {AmmV4SwapBaseInput, AmmV4SwapBaseOutput, AmmV4Deposit,
                                AmmV4Initialize2, AmmV4Withdraw, AmmV4WithdrawPnl}

\* Every parser is in the list of its program.
LEMMA ParsersListed ==
  ASSUME NEW p \in AllParsers
  PROVE  p.program \in Protocols /\ p \in OfProgram(p.program)
<1>1. PICK protocol \in Protocols : \E i \in DOMAIN ParsersOf(protocol) : p = ParsersOf(protocol)[i]
  BY DEF AllParsers
<1> USE DEF OfProgram, ParsersOf, Described
<1>2. CASE protocol = "PumpFun"
  <2>1. p \in OfProgram("PumpFun")
    BY <1>1, <1>2 DEF PumpFunParsers
  <2>2. p.program = "PumpFun"
    BY <2>1, PumpFunDescribed
  <2>3. QED BY <1>2, <2>1, <2>2
<1>3. CASE protocol = "PumpSwap"
  <2>1. p \in OfProgram("PumpSwap")
    BY <1>1, <1>3 DEF PumpSwapParsers
  <2>2. p.program = "PumpSwap"
    BY <2>1, PumpSwapDescribed
  <2>3. QED BY <1>3, <2>1, <2>2
<1>4. CASE protocol = "Bonk"
  <2>1. p \in OfProgram("Bonk")
    BY <1>1, <1>4 DEF BonkParsers
  <2>2. p.program = "Bonk"
    BY <2>1, BonkDescribed
  <2>3. QED BY <1>4, <2>1, <2>2
<1>5. CASE protocol = "Cpmm"
  <2>1. p \in OfProgram("Cpmm")
    BY <1>1, <1>5 DEF CpmmParsers
  <2>2. p.program = "Cpmm"
    BY <2>1, CpmmDescribed
  <2>3. QED BY <1>5, <2>1, <2>2
<1>6. CASE protocol = "Clmm"
  <2>1. p \in OfProgram("Clmm")
    BY <1>1, <1>6 DEF ClmmParsers
  <2>2. p.program = "Clmm"
    BY <2>1, ClmmDescribed
  <2>3. QED BY <1>6, <2>1, <2>2
<1>7. CASE protocol = "AmmV4"
  <2>1. p \in OfProgram("AmmV4")
    BY <1>1, <1>7 DEF AmmV4Parsers
  <2>2. p.program = "AmmV4"
    BY <2>1, AmmV4Described
  <2>3. QED BY <1>7, <2>1, <2>2
<1>8. QED BY <1>1, <1>2, <1>3, <1>4, <1>5, <1>6, <1>7 DEF Protocols

\* The parser of a kind of events.
NamedBy ==
  [PumpFunCreateToken |-> PumpFunCreateToken, PumpFunBuy |-> PumpFunBuy,
   PumpFunSell |-> PumpFunSell, PumpFunMigrate |-> PumpFunMigrate,
   PumpSwapBuy |-> PumpSwapBuy, PumpSwapSell |-> PumpSwapSell,
   PumpSwapCreatePool |-> PumpSwapCreatePool, PumpSwapDeposit |-> PumpSwapDeposit,
   PumpSwapWithdraw |-> PumpSwapWithdraw, BonkBuyExactIn |-> BonkBuyExactIn,
   BonkBuyExactOut |-> BonkBuyExactOut, BonkSellExactIn |-> BonkSellExactIn,
   BonkSellExactOut |-> BonkSellExactOut, BonkInitialize |-> BonkInitialize,
   BonkInitializeV2 |-> BonkInitializeV2, BonkMigrateToAmm |-> BonkMigrateToAmm,
   BonkMigrateToCpswap |-> BonkMigrateToCpswap,
   RaydiumCpmmSwapBaseInput |-> CpmmSwapBaseInput,
   RaydiumCpmmSwapBaseOutput |-> CpmmSwapBaseOutput, RaydiumCpmmDeposit |-> CpmmDeposit,
   RaydiumCpmmInitialize |-> CpmmInitialize, RaydiumCpmmWithdraw |-> CpmmWithdraw,
   RaydiumClmmSwap |-> ClmmSwap, RaydiumClmmSwapV2 |-> ClmmSwapV2,
   RaydiumClmmClosePosition |-> ClmmClosePosition,
   RaydiumClmmDecreaseLiquidityV2 |-> ClmmDecreaseLiquidityV2,
   RaydiumClmmCreatePool |-> ClmmCreatePool,
   RaydiumClmmIncreaseLiquidityV2 |-> ClmmIncreaseLiquidityV2,
   RaydiumClmmOpenPositionWithToken22Nft |-> ClmmOpenPositionWithToken22Nft,
   RaydiumClmmOpenPositionV2 |-> ClmmOpenPositionV2,
   RaydiumAmmV4SwapBaseIn |-> AmmV4SwapBaseInput,
   RaydiumAmmV4SwapBaseOut |-> AmmV4SwapBaseOutput, RaydiumAmmV4Deposit |-> AmmV4Deposit,
   RaydiumAmmV4Initialize2 |-> AmmV4Initialize2, RaydiumAmmV4Withdraw |-> AmmV4Withdraw,
   RaydiumAmmV4WithdrawPnl |-> AmmV4WithdrawPnl]

\* Every parser makes a kind of events of its own.
LEMMA EventsTell ==
  ASSUME NEW p \in AllParsers, NEW q \in AllParsers, p.event = q.event
  PROVE  p = q
<1>1. \A r \in OfProgram("PumpFun") : r = NamedBy[r.event]
  <2>1. PumpFunCreateToken.event = "PumpFunCreateToken"
    BY DEF PumpFunCreateToken, Parser
  <2>2. PumpFunBuy.event = "PumpFunBuy"
    BY DEF PumpFunBuy, Parser
  <2>3. PumpFunSell.event = "PumpFunSell"
    BY DEF PumpFunSell, Parser
  <2>4. PumpFunMigrate.event = "PumpFunMigrate"
    BY DEF PumpFunMigrate, Parser
  <2>5. QED BY <2>1, <2>2, <2>3, <2>4 DEF OfProgram, NamedBy
<1>2. \A r \in OfProgram("PumpSwap") : r = NamedBy[r.event]
  <2>1. PumpSwapBuy.event = "PumpSwapBuy"
    BY DEF PumpSwapBuy, Parser
  <2>2. PumpSwapSell.event = "PumpSwapSell"
    BY DEF PumpSwapSell, Parser
  <2>3. PumpSwapCreatePool.event = "PumpSwapCreatePool"
    BY DEF PumpSwapCreatePool, Parser
  <2>4. PumpSwapDeposit.event = "PumpSwapDeposit"
    BY DEF PumpSwapDeposit, Parser
  <2>5. PumpSwapWithdraw.event = "PumpSwapWithdraw"
    BY DEF PumpSwapWithdraw, Parser
  <2>6. QED BY <2>1, <2>2, <2>3, <2>4, <2>5 DEF OfProgram, NamedBy
<1>3. \A r \in OfProgram("Bonk") : r = NamedBy[r.event]
  <2>1. BonkBuyExactIn.event = "BonkBuyExactIn"
    BY DEF BonkBuyExactIn, Parser
  <2>2. BonkBuyExactOut.event = "BonkBuyExactOut"
    BY DEF BonkBuyExactOut, Parser
  <2>3. BonkSellExactIn.event = "BonkSellExactIn"
    BY DEF BonkSellExactIn, Parser
  <2>4. BonkSellExactOut.event = "BonkSellExactOut"
    BY DEF BonkSellExactOut, Parser
  <2>5. BonkInitialize.event = "BonkInitialize"
    BY DEF BonkInitialize, Parser
  <2>6. BonkInitializeV2.event = "BonkInitializeV2"
    BY DEF BonkInitializeV2, Parser
  <2>7. BonkMigrateToAmm.event = "BonkMigrateToAmm"
    BY DEF BonkMigrateToAmm, Parser
  <2>8. BonkMigrateToCpswap.event = "BonkMigrateToCpswap"
    BY DEF BonkMigrateToCpswap, Parser
  <2>9. QED BY <2>1, <2>2, <2>3, <2>4, <2>5, <2>6, <2>7, <2>8 DEF OfProgram, NamedBy
<1>4. \A r \in OfProgram("Cpmm") : r = NamedBy[r.event]
  <2>1. CpmmSwapBaseInput.event = "RaydiumCpmmSwapBaseInput"
    BY DEF CpmmSwapBaseInput, Parser
  <2>2. CpmmSwapBaseOutput.event = "RaydiumCpmmSwapBaseOutput"
    BY DEF CpmmSwapBaseOutput, Parser
  <2>3. CpmmDeposit.event = "RaydiumCpmmDeposit"
    BY DEF CpmmDeposit, Parser
  <2>4. CpmmInitialize.event = "RaydiumCpmmInitialize"
    BY DEF CpmmInitialize, Parser
  <2>5. CpmmWithdraw.event = "RaydiumCpmmWithdraw"
    BY DEF CpmmWithdraw, Parser
  <2>6. QED BY <2>1, <2>2, <2>3, <2>4, <2>5 DEF OfProgram, NamedBy
<1>5. \A r \in OfProgram("Clmm") : r = NamedBy[r.event]
  <2>1. ClmmSwap.event = "RaydiumClmmSwap"
    BY DEF ClmmSwap, Parser
  <2>2. ClmmSwapV2.event = "RaydiumClmmSwapV2"
    BY DEF ClmmSwapV2, Parser
  <2>3. ClmmClosePosition.event = "RaydiumClmmClosePosition"
    BY DEF ClmmClosePosition, Parser
  <2>4. ClmmDecreaseLiquidityV2.event = "RaydiumClmmDecreaseLiquidityV2"
    BY DEF ClmmDecreaseLiquidityV2, Parser
  <2>5. ClmmCreatePool.event = "RaydiumClmmCreatePool"
    BY DEF ClmmCreatePool, Parser
  <2>6. ClmmIncreaseLiquidityV2.event = "RaydiumClmmIncreaseLiquidityV2"
    BY DEF ClmmIncreaseLiquidityV2, Parser
  <2>7. ClmmOpenPositionWithToken22Nft.event = "RaydiumClmmOpenPositionWithToken22Nft"
    BY DEF ClmmOpenPositionWithToken22Nft, Parser
  <2>8. ClmmOpenPositionV2.event = "RaydiumClmmOpenPositionV2"
    BY DEF ClmmOpenPositionV2, Parser
  <2>9. QED BY <2>1, <2>2, <2>3, <2>4, <2>5, <2>6, <2>7, <2>8 DEF OfProgram, NamedBy
<1>6. \A r \in OfProgram("AmmV4") : r = NamedBy[r.event]
  <2>1. AmmV4SwapBaseInput.event = "RaydiumAmmV4SwapBaseIn"
    BY DEF AmmV4SwapBaseInput, Parser
  <2>2. AmmV4SwapBaseOutput.event = "RaydiumAmmV4SwapBaseOut"
    BY DEF AmmV4SwapBaseOutput, Parser
  <2>3. AmmV4Deposit.event = "RaydiumAmmV4Deposit"
    BY DEF AmmV4Deposit, Parser
  <2>4. AmmV4Initialize2.event = "RaydiumAmmV4Initialize2"
    BY DEF AmmV4Initialize2, Parser
  <2>5. AmmV4Withdraw.event = "RaydiumAmmV4Withdraw"
    BY DEF AmmV4Withdraw, Parser
  <2>6. AmmV4WithdrawPnl.event = "RaydiumAmmV4WithdrawPnl"
    BY DEF AmmV4WithdrawPnl, Parser
  <2>7. QED BY <2>1, <2>2, <2>3, <2>4, <2>5, <2>6 DEF OfProgram, NamedBy
<1>7. p.program \in Protocols /\ q.program \in Protocols
      /\ p \in OfProgram(p.program) /\ q \in OfProgram(q.program)
  BY ParsersListed
<1>8. p = NamedBy[p.event]
  BY <1>1, <1>2, <1>3, <1>4, <1>5, <1>6, <1>7 DEF Protocols
<1>9. q = NamedBy[q.event]
  BY <1>1, <1>2, <1>3, <1>4, <1>5, <1>6, <1>7 DEF Protocols
<1>10. QED BY <1>8, <1>9

LEMMA AllDescribed ==
  \A program \in Protocols : \A p \in OfProgram(program) : \E first : Described(p, program, first)
<1>1. \A p \in OfProgram("PumpFun") : \E first : Described(p, "PumpFun", first)
  BY PumpFunDescribed DEF OfProgram
<1>2. \A p \in OfProgram("PumpSwap") : \E first : Described(p, "PumpSwap", first)
  BY PumpSwapDescribed DEF OfProgram
<1>3. \A p \in OfProgram("Bonk") : \E first : Described(p, "Bonk", first)
  BY BonkDescribed DEF OfProgram
<1>4. \A p \in OfProgram("Cpmm") : \E first : Described(p, "Cpmm", first)
  BY CpmmDescribed DEF OfProgram
<1>5. \A p \in OfProgram("Clmm") : \E first : Described(p, "Clmm", first)
  BY ClmmDescribed DEF OfProgram
<1>6. \A p \in OfProgram("AmmV4") : \E first : Described(p, "AmmV4", first)
  BY AmmV4Described DEF OfProgram
<1>7. QED BY <1>1, <1>2, <1>3, <1>4, <1>5, <1>6 DEF Protocols

\* Of two discriminators that an instruction may both start with, the first bytes agree.
LEMMA FirstByte ==
  ASSUME NEW p \in Seq(Nat), NEW q \in Seq(Nat), q # <<>>, DiscriminatorMatches(p, q)
  PROVE  /\ p[1] = q[1]
         /\ Len(q) > 1 => p[2] = q[2]
<1>1. Len(q) \in Nat /\ Len(q) >= 1 /\ Len(p) >= Len(q) /\ SubSeq(p, 1, Len(q)) = q
  BY DEF DiscriminatorMatches
<1>2. \A i \in 1 .. Len(q) : p[i] = q[i]
  BY <1>1
<1>3. QED BY <1>1, <1>2

\* A program's parsers are told apart by the first byte, but for two of Clmm's,
\* which differ in the second.
LEMMA DiscriminatorsTell ==
  ASSUME NEW p \in AllParsers, NEW q \in AllParsers,
         p.program = q.program, DiscriminatorMatches(p.disc, q.disc)
  PROVE  p = q
<1>1. p.program \in Protocols /\ p \in OfProgram(p.program) /\ q \in OfProgram(p.program)
  BY ParsersListed
<1>2. CASE p.program = "PumpFun"
  <2>1. p \in OfProgram("PumpFun") /\ q \in OfProgram("PumpFun")
    BY <1>1, <1>2
  <2>2. \A r \in OfProgram("PumpFun") : r.disc \in Seq(Nat) /\ r.disc # <<>>
    BY AllDescribed DEF Protocols, Described
  <2>3. p.disc[1] = q.disc[1] /\ (Len(q.disc) > 1 => p.disc[2] = q.disc[2])
    BY <2>1, <2>2, FirstByte
  <2>4. /\ PumpFunCreateToken.disc[1] = 24 /\ PumpFunBuy.disc[1] = 102
        /\ PumpFunSell.disc[1] = 51 /\ PumpFunMigrate.disc[1] = 155
    BY PumpFunDescribed DEF Described
  <2>5. QED BY <2>1, <2>3, <2>4 DEF OfProgram
<1>3. CASE p.program = "PumpSwap"
  <2>1. p \in OfProgram("PumpSwap") /\ q \in OfProgram("PumpSwap")
    BY <1>1, <1>3
  <2>2. \A r \in OfProgram("PumpSwap") : r.disc \in Seq(Nat) /\ r.disc # <<>>
    BY AllDescribed DEF Protocols, Described
  <2>3. p.disc[1] = q.disc[1] /\ (Len(q.disc) > 1 => p.disc[2] = q.disc[2])
    BY <2>1, <2>2, FirstByte
  <2>4. /\ PumpSwapBuy.disc[1] = 102 /\ PumpSwapSell.disc[1] = 51
        /\ PumpSwapCreatePool.disc[1] = 233 /\ PumpSwapDeposit.disc[1] = 242
        /\ PumpSwapWithdraw.disc[1] = 183
    BY PumpSwapDescribed DEF Described
  <2>5. QED BY <2>1, <2>3, <2>4 DEF OfProgram
<1>4. CASE p.program = "Bonk"
  <2>1. p \in OfProgram("Bonk") /\ q \in OfProgram("Bonk")
    BY <1>1, <1>4
  <2>2. \A r \in OfProgram("Bonk") : r.disc \in Seq(Nat) /\ r.disc # <<>>
    BY AllDescribed DEF Protocols, Described
  <2>3. p.disc[1] = q.disc[1] /\ (Len(q.disc) > 1 => p.disc[2] = q.disc[2])
    BY <2>1, <2>2, FirstByte
  <2>4. /\ BonkBuyExactIn.disc[1] = 250 /\ BonkBuyExactOut.disc[1] = 24
        /\ BonkSellExactIn.disc[1] = 149 /\ BonkSellExactOut.disc[1] = 95
        /\ BonkInitialize.disc[1] = 175 /\ BonkInitializeV2.disc[1] = 67
        /\ BonkMigrateToAmm.disc[1] = 207 /\ BonkMigrateToCpswap.disc[1] = 136
    BY BonkDescribed DEF Described
  <2>5. QED BY <2>1, <2>3, <2>4 DEF OfProgram
<1>5. CASE p.program = "Cpmm"
  <2>1. p \in OfProgram("Cpmm") /\ q \in OfProgram("Cpmm")
    BY <1>1, <1>5
  <2>2. \A r \in OfProgram("Cpmm") : r.disc \in Seq(Nat) /\ r.disc # <<>>
    BY AllDescribed DEF Protocols, Described
  <2>3. p.disc[1] = q.disc[1] /\ (Len(q.disc) > 1 => p.disc[2] = q.disc[2])
    BY <2>1, <2>2, FirstByte
  <2>4. /\ CpmmSwapBaseInput.disc[1] = 143 /\ CpmmSwapBaseOutput.disc[1] = 55
        /\ CpmmDeposit.disc[1] = 242 /\ CpmmInitialize.disc[1] = 175
        /\ CpmmWithdraw.disc[1] = 183
    BY CpmmDescribed DEF Described
  <2>5. QED BY <2>1, <2>3, <2>4 DEF OfProgram
<1>6. CASE p.program = "Clmm"
  <2>1. p \in OfProgram("Clmm") /\ q \in OfProgram("Clmm")
    BY <1>1, <1>6
  <2>2. \A r \in OfProgram("Clmm") : r.disc \in Seq(Nat) /\ r.disc # <<>>
    BY AllDescribed DEF Protocols, Described
  <2>3. p.disc[1] = q.disc[1] /\ (Len(q.disc) > 1 => p.disc[2] = q.disc[2])
    BY <2>1, <2>2, FirstByte
  <2>4. /\ ClmmSwap.disc[1] = 248 /\ ClmmSwapV2.disc[1] = 43
        /\ ClmmClosePosition.disc[1] = 123 /\ ClmmDecreaseLiquidityV2.disc[1] = 58
        /\ ClmmCreatePool.disc[1] = 233 /\ ClmmIncreaseLiquidityV2.disc[1] = 133
        /\ ClmmOpenPositionWithToken22Nft.disc[1] = 77 /\ ClmmOpenPositionV2.disc[1] = 77
        /\ ClmmOpenPositionV2.disc[2] = 184 /\ ClmmOpenPositionWithToken22Nft.disc[2] = 255
        /\ Len(ClmmOpenPositionV2.disc) = 8 /\ Len(ClmmOpenPositionWithToken22Nft.disc) = 8
    BY ClmmDescribed DEF Described, ClmmOpenPositionV2, ClmmOpenPositionWithToken22Nft, Parser
  <2>5. QED BY <2>1, <2>3, <2>4 DEF OfProgram
<1>7. CASE p.program = "AmmV4"
  <2>1. p \in OfProgram("AmmV4") /\ q \in OfProgram("AmmV4")
    BY <1>1, <1>7
  <2>2. \A r \in OfProgram("AmmV4") : r.disc \in Seq(Nat) /\ r.disc # <<>>
    BY AllDescribed DEF Protocols, Described
  <2>3. p.disc[1] = q.disc[1] /\ (Len(q.disc) > 1 => p.disc[2] = q.disc[2])
    BY <2>1, <2>2, FirstByte
  <2>4. /\ AmmV4SwapBaseInput.disc[1] = 9 /\ AmmV4SwapBaseOutput.disc[1] = 11
        /\ AmmV4Deposit.disc[1] = 3 /\ AmmV4Initialize2.disc[1] = 1
        /\ AmmV4Withdraw.disc[1] = 4 /\ AmmV4WithdrawPnl.disc[1] = 7
    BY AmmV4Described DEF Described
  <2>5. QED BY <2>1, <2>3, <2>4 DEF OfProgram
<1>8. QED BY <1>1, <1>2, <1>3, <1>4, <1>5, <1>6, <1>7 DEF Protocols

\* What the table is like, without the bytes.
LEMMA TableDescribed ==
  ASSUME NEW p \in AllParsers
  PROVE  /\ p.disc \in Seq(Nat) /\ p.disc # <<>>
         /\ p.keys \in Nat
         /\ p.event # "none"
         /\ p.event = "PumpFunCreateToken" => p.program = "PumpFun" /\ p.keys >= 8
         /\ p.event \in {"BonkInitialize", "BonkInitializeV2"} => p.program = "Bonk" /\ p.keys >= 2
         /\ p.event \in UnderGuarded \/ Guarded(p)
<1>1. p.program \in Protocols /\ p \in OfProgram(p.program)
  BY ParsersListed
<1>2. \E first : Described(p, p.program, first)
  BY <1>1, AllDescribed
<1>3. QED BY <1>2 DEF Described

\* A guarded parser never indexes past what it was given.
LEMMA GuardedNeverPanics ==
  ASSUME NEW p, Guarded(p), p.keys \in Nat, NEW d \in Int, NEW n \in Nat, NEW text \in Nat
  PROVE  Outcome(p, d, n, text) # "panic"
  BY DEF Guarded, Outcome

\* However short the data and the accounts and however long the strings, a parser
\* that is not one of the nine gives an event or nothing and does not panic.
THEOREM OnlyUnderGuardedPanic ==
  \A p \in AllParsers : p.event \notin UnderGuarded =>
    \A d \in Int, n, text \in Nat : Outcome(p, d, n, text) # "panic"
  BY TableDescribed, GuardedNeverPanics

(***************************************************************************)
(* Resolving accounts.                                                     *)
(***************************************************************************)

\* A set of naturals has a first element.
LEMMA FirstIn ==
  ASSUME NEW T \in SUBSET Nat, T # {}
  PROVE  First(T) \in T /\ \A k \in T : First(T) <= k
<1>1. \E i \in T : \A k \in T : i <= k
  <2> SUFFICES ASSUME \A i \in T : \E k \in T : ~(i <= k) PROVE FALSE
    OBVIOUS
  <2> DEFINE Good == {n \in Nat : \A k \in T : k > n}
  <2>1. 0 \in Good
    OBVIOUS
  <2>2. ASSUME NEW n \in Nat, n \in Good PROVE n + 1 \in Good
    BY <2>2
  <2> HIDE DEF Good
  <2>3. \A n \in Nat : n \in Good
    BY <2>1, <2>2, SetInduction
  <2>4. PICK k \in T : TRUE
    OBVIOUS
  <2>5. k \in Good
    BY <2>3
  <2>6. QED BY <2>5 DEF Good
<1>2. QED BY <1>1 DEF First

\* The largest index is below the range of an index.
LEMMA LargestType ==
  ASSUME NEW indices \in Seq(Indices)
  PROVE  Largest(indices) \in Nat /\ Largest(indices) < IndexRange
<1> DEFINE U == {n \in Nat : \A i \in DOMAIN indices : indices[i] <= n}
           some == {0} \cup {indices[i] : i \in DOMAIN indices}
<1>1. \A i \in DOMAIN indices : indices[i] \in Nat /\ indices[i] < IndexRange
  BY RangeAssumption DEF Indices
<1>2. IndexRange \in U
  BY <1>1, RangeAssumption
<1>3. PICK u \in U : \A n \in U : u <= n
  BY <1>2, FirstIn
<1>4. u \in some
  <2>1. CASE u = 0
    BY <2>1
  <2>2. CASE u # 0
    <3>1. u - 1 \in Nat /\ u - 1 \notin U
      BY <1>3, <2>2
    <3>2. PICK i \in DOMAIN indices : ~(indices[i] <= u - 1)
      BY <3>1
    <3>3. indices[i] = u
      BY <1>1, <1>3, <3>2
    <3>4. QED BY <3>3
  <2>3. QED BY <2>1, <2>2
<1>5. Largest(indices) \in some
  BY <1>3, <1>4 DEF Largest
<1>6. QED
  BY <1>1, <1>5, RangeAssumption

\* A vector that VectorOK allows for a transaction.
Fits(v, x) ==
  /\ v \in Seq(Keys)
  /\ Len(Resolved(x)) <= Len(v)
  /\ Len(v) < IndexRange
  /\ \A i \in DOMAIN v : v[i] = IF i <= Len(Resolved(x)) THEN Resolved(x)[i] ELSE Default

\* The keys of the transaction are such a vector,
LEMMA ResolvedFits ==
  ASSUME NEW x \in Transactions, Wellformed(x)
  PROVE  Fits(Resolved(x), x)
<1>1. Resolved(x) \in Seq(Keys)
  BY TransactionType
<1> DEFINE v == Resolved(x)
<1>2. Len(v) < IndexRange
  BY DEF Wellformed
<1> HIDE DEF v
<1>3. v \in Seq(Keys) /\ Len(v) <= Len(v) /\ \A i \in DOMAIN v : i <= Len(v)
  BY <1>1 DEF v
<1>4. QED BY <1>2, <1>3 DEF Fits, v

\* and padding leaves it one.
LEMMA PaddedFits ==
  ASSUME NEW x \in Transactions, NEW v, Fits(v, x), NEW indices \in Seq(Indices)
  PROVE  Fits(Padded(v, indices), x)
<1> DEFINE m == Largest(indices)
           n == IF m > Len(v) THEN m - Len(v) ELSE 0
           pad == [i \in 1 .. n |-> Default]
           w == v \o pad
           len == Len(Resolved(x))
           keys == Resolved(x)
<1>1. m \in Nat /\ m < IndexRange
  BY LargestType
<1>2. /\ v \in Seq(Keys) /\ len <= Len(v) /\ Len(v) < IndexRange
      /\ \A i \in DOMAIN v : v[i] = IF i <= len THEN keys[i] ELSE Default
  BY DEF Fits
<1>2a. len \in Nat
  BY TransactionType
<1> HIDE DEF m
<1>3. n \in Nat /\ Len(v) + n < IndexRange
  BY <1>1, <1>2
<1> HIDE DEF n
<1>4. pad \in Seq(Keys) /\ Len(pad) = n /\ \A i \in 1 .. n : pad[i] = Default
  BY <1>3, KeysAssumption
<1> HIDE DEF pad, len, keys
<1>5. w \in Seq(Keys) /\ Len(w) = Len(v) + n
  BY <1>2, <1>3, <1>4
<1>6. ASSUME NEW i \in DOMAIN w PROVE w[i] = IF i <= len THEN keys[i] ELSE Default
  <2>1. CASE i <= Len(v)
    BY <1>2, <1>4, <1>5, <2>1
  <2>2. CASE i > Len(v)
    <3>1. i - Len(v) \in 1 .. n /\ w[i] = pad[i - Len(v)] /\ ~(i <= len)
      BY <1>2, <1>2a, <1>3, <1>4, <1>5, <2>2
    <3>2. QED BY <1>4, <3>1
  <2>3. QED BY <1>2, <1>5, <2>1, <2>2
<1>7. Padded(v, indices) = w
  BY DEF Padded, w, pad, n, m
<1> HIDE DEF w
<1>8. len <= Len(w)
  BY <1>2, <1>2a, <1>3, <1>5
<1>9. QED
  BY <1>3, <1>5, <1>6, <1>7, <1>8 DEF Fits, len, keys

\* Padding names no program that is handled.
LEMMA HandlesSame ==
  ASSUME NEW x \in Transactions, NEW v, Fits(v, x), NEW idx \in Nat
  PROVE  /\ Handles(v, idx) <=> Handles(Resolved(x), idx)
         /\ Handles(v, idx) => v[idx + 1] = Resolved(x)[idx + 1]
<1> DEFINE keys == Resolved(x)
<1>1. keys \in Seq(Keys)
  BY TransactionType
<1> HIDE DEF keys
<1>2. /\ v \in Seq(Keys) /\ Len(keys) <= Len(v)
      /\ \A i \in DOMAIN v : v[i] = IF i <= Len(keys) THEN keys[i] ELSE Default
  BY DEF Fits, keys
<1>3. idx < Len(v) => idx + 1 \in DOMAIN v
  BY <1>2
<1>4. CASE idx < Len(keys)
  <2>1. idx < Len(v) /\ idx + 1 <= Len(keys)
    BY <1>1, <1>2, <1>4
  <2>2. v[idx + 1] = keys[idx + 1]
    BY <1>2, <1>3, <2>1
  <2>3. QED BY <1>4, <2>1, <2>2 DEF Handles, keys
<1>5. CASE ~(idx < Len(keys))
  <2>1. idx < Len(v) => v[idx + 1] = Default
    BY <1>1, <1>2, <1>3, <1>5
  <2>2. QED BY <1>5, <2>1, KeysAssumption DEF Handles, keys
<1>6. QED BY <1>4, <1>5

\* A cast cuts nothing off a number below its range.
LEMMA ModSmall ==
  ASSUME NEW a \in Nat, NEW b \in Nat \ {0}, a < b
  PROVE  a % b = a
  OBVIOUS

\* The table holds parsers of those there are.
LEMMA TableType ==
  Table \subseteq AllParsers
  BY DEF Table

\* A number that an i8 holds is left alone by the cast.
LEMMA AsI8Same ==
  ASSUME NEW n \in Int, -1 <= n, n < Half
  PROVE  AsI8(n) = n
<1>1. Half \in Nat \ {0} /\ Half + Half <= IndexRange /\ IndexRange \in Nat \ {0}
  BY RangeAssumption DEF Half
<1>2. n + Half \in Nat /\ n + Half < IndexRange
  BY <1>1
<1>3. (n + Half) % IndexRange = n + Half
  BY <1>1, <1>2, ModSmall
<1>4. QED BY <1>1, <1>3 DEF AsI8

\* The place of an inner instruction in its group comes through the casts unharmed.
LEMMA SkippedIs ==
  ASSUME NEW x \in Transactions, Wellformed(x), NEW at \in Outers(x) \cup Inners(x)
  PROVE  Skipped(at, GroupAt(x, at)) = at.inner
<1>1. Half \in Nat \ {0}
  BY RangeAssumption DEF Half
<1>2. at.inner \in Nat /\ at.inner < Half
  <2>1. CASE at \in Outers(x)
    BY <1>1, <2>1 DEF Outers
  <2>2. CASE at \in Inners(x)
    <3> DEFINE s == x.groups[at.nth].instructions
    <3>1. at.nth \in DOMAIN x.groups /\ at.inner \in DOMAIN s
      BY <2>2 DEF Inners
    <3>2. s \in Seq(Instructions)
      BY <3>1, TransactionType
    <3>3. Len(s) < Half
      BY <3>1 DEF Wellformed
    <3> HIDE DEF s
    <3>4. QED BY <1>1, <3>1, <3>2, <3>3
  <2>3. QED BY <2>1, <2>2
<1>3. AsI8(at.inner - 1) = at.inner - 1
  BY <1>1, <1>2, AsI8Same
<1>4. AsI8((at.inner - 1) + 1) = at.inner
  BY <1>1, <1>2, AsI8Same
<1>5. AsI8(AsI8(at.inner - 1) + 1) = at.inner
  BY <1>3, <1>4
<1>6. ~(at.inner < 0)
  BY <1>2
<1>7. QED BY <1>5, <1>6 DEF Skipped

\* Indices that were validated are all looked up.
LEMMA NamedAll ==
  ASSUME NEW x \in Transactions, NEW v, Fits(v, x),
         NEW indices \in Seq(Indices), ValidIndices(indices, Len(v))
  PROVE  /\ Named(v, indices) \in Seq(Keys)
         /\ Len(Named(v, indices)) = Len(indices)
         /\ \A i \in DOMAIN indices :
              Named(v, indices)[i] = IF indices[i] < Len(Resolved(x))
                                       THEN Resolved(x)[indices[i] + 1] ELSE Default
<1> DEFINE keys == Resolved(x)
           n == Len(v)
<1>0. Len(keys) \in Nat
  BY TransactionType
<1> HIDE DEF keys
<1>1. /\ v \in Seq(Keys) /\ n \in Nat /\ n < IndexRange
      /\ \A i \in 1 .. n : v[i] = IF i <= Len(keys) THEN keys[i] ELSE Default
  BY DEF Fits, keys
<1>2. n % IndexRange = n
  BY <1>1, ModSmall, RangeAssumption
<1>3. \A i \in 1 .. Len(indices) : indices[i] \in Nat /\ indices[i] < n
  <2>1. \A i \in DOMAIN indices : indices[i] < n % IndexRange
    BY DEF ValidIndices
  <2> HIDE DEF n
  <2>2. \A i \in DOMAIN indices : indices[i] < n
    BY <1>2, <2>1
  <2>3. \A i \in DOMAIN indices : indices[i] \in Nat
    BY RangeAssumption DEF Indices
  <2>4. QED BY <2>2, <2>3
<1> HIDE DEF n
<1>4. \A i \in 1 .. Len(indices) : indices[i] \in 0 .. n - 1
  BY <1>1, <1>3
<1>5. Kept(indices, 0 .. n - 1) = indices
  BY <1>4, KeptAll
<1>6. Named(v, indices) = [i \in DOMAIN indices |-> v[indices[i] + 1]]
  BY <1>5 DEF Named, n
<1>7. DOMAIN indices = 1 .. Len(indices) /\ Len(indices) \in Nat
  OBVIOUS
<1>8. \A i \in DOMAIN indices : indices[i] + 1 \in 1 .. n /\ v[indices[i] + 1] \in Keys
  BY <1>1, <1>3, <1>7 DEF n
<1>9. ASSUME NEW i \in DOMAIN indices
      PROVE  Named(v, indices)[i] = IF indices[i] < Len(keys) THEN keys[indices[i] + 1] ELSE Default
  <2>1. indices[i] + 1 <= Len(keys) <=> indices[i] < Len(keys)
    BY <1>0, <1>3, <1>7
  <2>2. QED BY <1>1, <1>6, <1>8, <2>1
<1>10. Named(v, indices) \in Seq(Keys) /\ Len(Named(v, indices)) = Len(indices)
  BY <1>6, <1>7, <1>8
<1>11. QED BY <1>9, <1>10 DEF keys

\* The parsers that give an event of an instruction whose accounts are all there
\* are those that accept it, whatever the vector was padded with.
LEMMA GivenAsAccepted ==
  ASSUME NEW x \in Transactions, NEW v, Fits(v, x), NEW instr \in Instructions,
         \A i \in DOMAIN instr.accounts : instr.accounts[i] < Len(Resolved(x))
  PROVE  Accepts(x, instr) <=> Giving("event", instr, v) # {}
<1> DEFINE n == Len(Named(v, instr.accounts))
           keys == Resolved(x)
<1>1. instr.accounts \in Seq(Indices) /\ instr.prog \in Nat
  BY RangeAssumption DEF Instructions, Indices
<1>2. ValidIndices(instr.accounts, Len(v))
  <2>1. Len(v) \in Nat /\ Len(v) < IndexRange /\ Len(Resolved(x)) <= Len(v) /\ Len(Resolved(x)) \in Nat
    BY TransactionType DEF Fits
  <2>2. Len(v) % IndexRange = Len(v)
    BY <2>1, ModSmall, RangeAssumption
  <2> DEFINE a == instr.accounts
             lv == Len(v)
             lr == Len(Resolved(x))
  <2>4. (\A i \in DOMAIN a : a[i] < lr) /\ a \in Seq(Indices)
    BY <1>1
  <2> HIDE DEF a, lv, lr
  <2>3. \A i \in DOMAIN a : a[i] \in Nat
    BY <2>4, RangeAssumption DEF Indices
  <2>5. \A i \in DOMAIN a : a[i] < lv
    BY <2>1, <2>3, <2>4 DEF a, lv, lr
  <2>6. QED BY <2>2, <2>5 DEF ValidIndices, a, lv
<1>3. n = Len(instr.accounts)
  BY <1>1, <1>2, NamedAll
<1> HIDE DEF n
<1>4. /\ Handles(v, instr.prog) <=> Handles(keys, instr.prog)
      /\ Handles(v, instr.prog) => v[instr.prog + 1] = keys[instr.prog + 1]
  BY <1>1, HandlesSame
<1> HIDE DEF keys
<1>5. ASSUME Accepts(x, instr) PROVE Giving("event", instr, v) # {}
  <2>1. PICK p \in Table : /\ instr.prog < Len(keys)
                           /\ p.program = ProgramOf[keys[instr.prog + 1]]
                           /\ DiscriminatorMatches(instr.head, p.disc)
                           /\ OutcomeOf(p, instr, Len(instr.accounts)) = "event"
    BY <1>5 DEF Accepts, IsFor, keys
  <2>2. instr.prog < Len(keys)
    BY <2>1
  <2>3. Handles(keys, instr.prog)
    BY <2>1, <2>2 DEF Handles, Table
  <2>4. p \in Candidates(instr, v)
    BY <1>2, <1>4, <2>1, <2>3 DEF Candidates
  <2>5. p \in Giving("event", instr, v)
    BY <1>3, <2>1, <2>4 DEF Giving, n
  <2>6. QED BY <2>5
<1>6. ASSUME Giving("event", instr, v) # {} PROVE Accepts(x, instr)
  <2>1. PICK p \in Candidates(instr, v) : OutcomeOf(p, instr, n) = "event"
    BY <1>6 DEF Giving, n
  <2>2. /\ p \in Table /\ Handles(v, instr.prog)
        /\ p.program = ProgramOf[v[instr.prog + 1]]
        /\ DiscriminatorMatches(instr.head, p.disc)
    BY DEF Candidates
  <2>3. instr.prog < Len(keys) /\ p.program = ProgramOf[keys[instr.prog + 1]]
    BY <1>4, <2>2 DEF Handles
  <2>4. QED BY <1>3, <2>1, <2>2, <2>3 DEF Accepts, IsFor, keys
<1>7. QED BY <1>5, <1>6

(***************************************************************************)
(* Reading transfers.                                                      *)
(***************************************************************************)

\* A parser is given a sequence of instructions.
LEMMA GroupType ==
  ASSUME NEW x \in Transactions, NEW at \in Outers(x) \cup Inners(x)
  PROVE  GroupAt(x, at) \in Seq(Instructions)
<1> DEFINE same == {g \in DOMAIN x.groups : x.groups[g].index = (at.nth - 1) % IndexRange}
<1>1. x.groups \in Seq(Groups) /\ \A g \in DOMAIN x.groups : x.groups[g].instructions \in Seq(Instructions)
  BY TransactionType
<1>2. same \in SUBSET Nat /\ same \subseteq DOMAIN x.groups
  BY <1>1
<1>3. at.inner # 0 => at.nth \in DOMAIN x.groups
  BY DEF Outers, Inners
<1>4. GroupAt(x, at) = IF ~x.full THEN <<>>
                       ELSE IF at.inner # 0 THEN x.groups[at.nth].instructions
                       ELSE IF same = {} THEN <<>> ELSE x.groups[First(same)].instructions
  BY DEF GroupAt
<1>5. same # {} => First(same) \in same
  BY <1>2, FirstIn
<1> HIDE DEF same
<1>6. <<>> \in Seq(Instructions)
  OBVIOUS
<1>7. QED BY <1>1, <1>2, <1>3, <1>4, <1>5, <1>6

\* One place of the loop of SwapOf.
SeenStep(kind, keys, group, j, v, i, acc) ==
  IF i \notin Followers(group, j, v) THEN acc
  ELSE NotedUntil(acc, group[i], v, Side(kind, keys, 1), Side(kind, keys, 2))

SeenFirst(kind, keys) ==
  LET mints == StatedMints(kind, keys)
  IN [swap |-> [NothingTold EXCEPT !.fromMint = mints[1], !.toMint = mints[2]], over |-> FALSE]

\* The equation by which SwapOf is defined, for the first n places.
SeenUpTo(kind, keys, group, j, v, n, g) ==
  g = [i \in 0 .. n |-> IF i = 0 THEN SeenFirst(kind, keys)
                        ELSE SeenStep(kind, keys, group, j, v, i, g[i - 1])]

\* It has a solution,
LEMMA SeenDefined ==
  ASSUME NEW kind, NEW keys, NEW group, NEW j, NEW v
  PROVE  \A n \in Nat : \E g : SeenUpTo(kind, keys, group, j, v, n, g)
<1> DEFINE Good == {n \in Nat : \E g : SeenUpTo(kind, keys, group, j, v, n, g)}
<1>1. 0 \in Good
  <2> DEFINE h == [i \in 0 .. 0 |-> SeenFirst(kind, keys)]
  <2>1. SeenUpTo(kind, keys, group, j, v, 0, h)
    BY DEF SeenUpTo
  <2>2. QED BY <2>1
<1>2. ASSUME NEW n \in Nat, n \in Good PROVE n + 1 \in Good
  <2>1. PICK g : SeenUpTo(kind, keys, group, j, v, n, g)
    BY <1>2
  <2> DEFINE h == [i \in 0 .. n + 1 |->
                     IF i = n + 1 THEN SeenStep(kind, keys, group, j, v, n + 1, g[n]) ELSE g[i]]
  <2>2. \A i \in 0 .. n : g[i] = IF i = 0 THEN SeenFirst(kind, keys)
                                 ELSE SeenStep(kind, keys, group, j, v, i, g[i - 1])
    BY <2>1 DEF SeenUpTo
  <2>3. SeenUpTo(kind, keys, group, j, v, n + 1, h)
    BY <2>2 DEF SeenUpTo
  <2>4. QED BY <2>3
<1> HIDE DEF Good
<1>3. \A n \in Nat : n \in Good
  BY <1>1, <1>2, SetInduction
<1>4. QED BY <1>3 DEF Good

\* What the loop has seen after the first n places.
Seen(kind, keys, group, j, v, n) ==
  (CHOOSE g : SeenUpTo(kind, keys, group, j, v, n, g))

\* which goes from place to place by SeenStep.
LEMMA SeenAt ==
  ASSUME NEW kind, NEW keys, NEW group, NEW j, NEW v, NEW n \in Nat
  PROVE  LET seen == Seen(kind, keys, group, j, v, n) IN
         /\ seen[0] = SeenFirst(kind, keys)
         /\ \A i \in 1 .. n : seen[i] = SeenStep(kind, keys, group, j, v, i, seen[i - 1])
<1> DEFINE seen == Seen(kind, keys, group, j, v, n)
<1>1. \E g : SeenUpTo(kind, keys, group, j, v, n, g)
  BY SeenDefined
<1>2. SeenUpTo(kind, keys, group, j, v, n, seen)
  BY <1>1 DEF Seen
<1> HIDE DEF seen
<1>3. \A i \in 0 .. n : seen[i] = IF i = 0 THEN SeenFirst(kind, keys)
                                  ELSE SeenStep(kind, keys, group, j, v, i, seen[i - 1])
  BY <1>2 DEF SeenUpTo
<1>4. QED BY <1>3 DEF seen

\* SwapOf is what has been seen in the end.
LEMMA SwapIsSeen ==
  ASSUME NEW kind, NEW keys, NEW group, NEW j, NEW v
  PROVE  SwapOf(kind, keys, group, j, v)
           = LET swap == Seen(kind, keys, group, j, v, Len(group))[Len(group)].swap
             IN IF swap = NothingTold THEN None ELSE swap
  BY DEF SwapOf, Seen, SeenUpTo, SeenStep, SeenFirst

\* The inner instructions a parser is given name keys of the transaction.
LEMMA GroupInRange ==
  ASSUME NEW x \in Transactions, Wellformed(x), NEW at \in Outers(x) \cup Inners(x),
         NEW i \in DOMAIN GroupAt(x, at)
  PROVE  LET instr == GroupAt(x, at)[i] IN
         /\ instr \in Instructions
         /\ instr.prog < Len(Resolved(x))
         /\ \A k \in DOMAIN instr.accounts : instr.accounts[k] < Len(Resolved(x))
<1> DEFINE group == GroupAt(x, at)
           instr == group[i]
           keys == Resolved(x)
<1>1. group \in Seq(Instructions)
  BY GroupType
<1>2. group = <<>> \/ \E g \in DOMAIN x.groups : group = x.groups[g].instructions
  <2> DEFINE same == {g \in DOMAIN x.groups : x.groups[g].index = (at.nth - 1) % IndexRange}
  <2>1. same \in SUBSET Nat /\ same \subseteq DOMAIN x.groups
    BY TransactionType
  <2>2. at.inner # 0 => at.nth \in DOMAIN x.groups
    BY DEF Outers, Inners
  <2>3. group = IF ~x.full THEN <<>>
                ELSE IF at.inner # 0 THEN x.groups[at.nth].instructions
                ELSE IF same = {} THEN <<>> ELSE x.groups[First(same)].instructions
    BY DEF GroupAt
  <2>4. same # {} => First(same) \in same
    BY <2>1, FirstIn
  <2> HIDE DEF same, group
  <2>5. QED BY <2>1, <2>2, <2>3, <2>4
<1>3. PICK g \in DOMAIN x.groups : group = x.groups[g].instructions
  BY <1>2
<1>4. \A k \in DOMAIN x.groups[g].instructions :
        /\ x.groups[g].instructions[k].prog < Len(keys)
        /\ \A a \in DOMAIN x.groups[g].instructions[k].accounts :
             x.groups[g].instructions[k].accounts[a] < Len(keys)
  BY DEF Wellformed
<1>5. instr \in Instructions
  BY <1>1
<1> HIDE DEF group, keys
<1>6. instr.prog < Len(keys) /\ \A a \in DOMAIN instr.accounts : instr.accounts[a] < Len(keys)
  BY <1>3, <1>4 DEF group
<1>7. QED BY <1>5, <1>6 DEF group, keys

\* so that padding makes no difference to what they do,
LEMMA SameRead ==
  ASSUME NEW x \in Transactions, Wellformed(x), NEW at \in Outers(x) \cup Inners(x),
         NEW v, Fits(v, x), NEW i \in DOMAIN GroupAt(x, at)
  PROVE  LET instr == GroupAt(x, at)[i] IN
         /\ IsSystem(instr, v) = IsSystem(instr, Resolved(x))
         /\ IsTransfer(instr) => /\ Source(instr, v) = Source(instr, Resolved(x))
                                 /\ Destination(instr, v) = Destination(instr, Resolved(x))
<1> DEFINE instr == GroupAt(x, at)[i]
           keys == Resolved(x)
<1>1. /\ instr \in Instructions /\ instr.prog < Len(keys)
      /\ \A k \in DOMAIN instr.accounts : instr.accounts[k] < Len(keys)
  BY GroupInRange
<1>2. keys \in Seq(Keys)
  BY TransactionType
<1>3. /\ v \in Seq(Keys) /\ Len(keys) <= Len(v)
      /\ \A k \in DOMAIN v : v[k] = IF k <= Len(keys) THEN keys[k] ELSE Default
  BY DEF Fits
<1> HIDE DEF instr, keys
<1>4. ASSUME NEW n \in Nat, n < Len(keys) PROVE v[n + 1] = keys[n + 1]
  <2>1. n + 1 \in DOMAIN v /\ n + 1 <= Len(keys)
    BY <1>2, <1>3, <1>4
  <2>2. QED BY <1>3, <2>1
<1>5. instr.prog \in Nat /\ instr.accounts \in Seq(Indices) /\ Indices \subseteq Nat
  BY <1>1, RangeAssumption DEF Instructions, Indices
<1>6. IsSystem(instr, v) = IsSystem(instr, keys)
  BY <1>1, <1>4, <1>5 DEF IsSystem
<1>7. ASSUME IsTransfer(instr)
      PROVE  Source(instr, v) = Source(instr, keys) /\ Destination(instr, v) = Destination(instr, keys)
  <2>1. /\ Len(instr.accounts) >= 2 /\ (Tag(instr) = 12 => Len(instr.accounts) >= 4)
        /\ Len(instr.accounts) \in Nat
    BY <1>5, <1>7 DEF IsTransfer
  <2>2. /\ 1 \in DOMAIN instr.accounts /\ 2 \in DOMAIN instr.accounts
        /\ Tag(instr) = 12 => 3 \in DOMAIN instr.accounts
    BY <1>5, <2>1
  <2>3. ASSUME NEW k \in DOMAIN instr.accounts
        PROVE  v[instr.accounts[k] + 1] = keys[instr.accounts[k] + 1]
    <3> DEFINE a == instr.accounts
               n == a[k]
    <3>0. a \in Seq(Indices) /\ k \in DOMAIN a /\ n < Len(keys)
      BY <1>1, <1>5
    <3> HIDE DEF a
    <3>0a. n \in Indices
      BY <3>0
    <3> HIDE DEF n
    <3>1. n \in Nat /\ n < Len(keys)
      BY <1>5, <3>0, <3>0a
    <3>2. v[n + 1] = keys[n + 1]
      BY <1>4, <3>1
    <3>3. QED BY <3>2 DEF n, a
  <2>4. QED BY <2>2, <2>3 DEF Source, Destination
<1>8. QED BY <1>6, <1>7 DEF instr, keys

\* nor to the swap data read off them.
LEMMA SwapSame ==
  ASSUME NEW x \in Transactions, Wellformed(x), NEW at \in Outers(x) \cup Inners(x),
         NEW v, Fits(v, x), NEW kind, NEW names
  PROVE  LET group == GroupAt(x, at) IN
         SwapOf(kind, names, group, at.inner, v) = SwapOf(kind, names, group, at.inner, Resolved(x))
<1> DEFINE group == GroupAt(x, at)
           keys == Resolved(x)
           j == at.inner
           n == Len(group)
           a == Side(kind, names, 1)
           b == Side(kind, names, 2)
<1>1. \A i \in DOMAIN group :
        /\ IsSystem(group[i], v) = IsSystem(group[i], keys)
        /\ IsTransfer(group[i]) => /\ Source(group[i], v) = Source(group[i], keys)
                                   /\ Destination(group[i], v) = Destination(group[i], keys)
  BY SameRead
<1>2. group \in Seq(Instructions) /\ j \in Nat
  BY GroupType DEF Outers, Inners, Position
<1>3. n \in Nat /\ DOMAIN group = 1 .. n
  BY <1>2
<1> HIDE DEF group, keys, j, n
<1>4. Followers(group, j, v) = Followers(group, j, keys)
  <2>1. \A i \in j + 1 .. n : j + 1 .. i \subseteq DOMAIN group
    BY <1>2, <1>3
  <2>2. QED BY <1>1, <2>1 DEF Followers, n
<1> HIDE DEF a, b
<1>5. ASSUME NEW i \in 1 .. n, NEW acc
      PROVE  NotedUntil(acc, group[i], v, a, b) = NotedUntil(acc, group[i], keys, a, b)
  <2>1. CASE ~IsTransfer(group[i])
    BY <2>1 DEF NotedUntil
  <2>2. CASE IsTransfer(group[i])
    <3>1. Source(group[i], v) = Source(group[i], keys) /\ Destination(group[i], v) = Destination(group[i], keys)
      BY <1>1, <1>3, <2>2
    <3>2. Noted(acc.swap, group[i], v, a, b) = Noted(acc.swap, group[i], keys, a, b)
      BY <3>1 DEF Noted
    <3>3. QED BY <3>2 DEF NotedUntil
  <2>3. QED BY <2>1, <2>2
<1>6. \A i \in 1 .. n : \A acc : SeenStep(kind, names, group, j, v, i, acc)
                                   = SeenStep(kind, names, group, j, keys, i, acc)
  BY <1>4, <1>5 DEF SeenStep, a, b
<1>7. ASSUME NEW g
      PROVE  SeenUpTo(kind, names, group, j, v, n, g) <=> SeenUpTo(kind, names, group, j, keys, n, g)
  <2> DEFINE left == [i \in 0 .. n |-> IF i = 0 THEN SeenFirst(kind, names)
                                       ELSE SeenStep(kind, names, group, j, v, i, g[i - 1])]
             right == [i \in 0 .. n |-> IF i = 0 THEN SeenFirst(kind, names)
                                        ELSE SeenStep(kind, names, group, j, keys, i, g[i - 1])]
  <2>1. \A i \in 0 .. n : i # 0 => i \in 1 .. n
    BY <1>3
  <2>2. left = right
    BY <1>6, <2>1
  <2>3. QED BY <2>2 DEF SeenUpTo
<1>8. Seen(kind, names, group, j, v, n) = Seen(kind, names, group, j, keys, n)
  BY <1>7, Zenon DEF Seen
<1>9. QED BY <1>8, SwapIsSeen DEF group, keys, j, n

(***************************************************************************)
(* Completing an event.                                                    *)
(***************************************************************************)

\* The log chosen is one of the group.
LEMMA LogForType ==
  ASSUME NEW parser, NEW group \in Seq(Instructions)
  PROVE  LogFor(parser, group) # 0 => LogFor(parser, group) \in DOMAIN group
<1> DEFINE fits == {j \in DOMAIN group : LogDecodes(parser, group[j])}
<1>1. fits \in SUBSET Nat
  OBVIOUS
<1>2. fits # {} => First(fits) \in fits
  BY <1>1, FirstIn
<1>3. QED BY <1>2 DEF LogFor

Shape == {"kind", "program", "tx", "at", "keys", "user", "creator", "paid", "got",
          "swap", "log", "dev", "bot"}

\* Two events that say the same of where they come from, and name the same people and
\* the same log.
SameOrigin(e, f) ==
  /\ DOMAIN f = Shape
  /\ f.kind = e.kind /\ f.program = e.program
  /\ f.tx = e.tx /\ f.at = e.at /\ f.keys = e.keys

SamePeople(e, f) == f.user = e.user /\ f.creator = e.creator /\ f.log = e.log

\* The swap data of a trade with a pool are made once.
SameSwap(e, f) == e.kind \in PoolTrades => f.swap = e.swap

\* Swap data, a log and a mark leave alone where an event comes from.
LEMMA WithSwapSame ==
  ASSUME NEW e, DOMAIN e = Shape, NEW group, NEW v
  PROVE  /\ SameOrigin(e, WithSwap(e, group, v)) /\ SamePeople(e, WithSwap(e, group, v))
         /\ WithSwap(e, group, v).swap = IF group = <<>> THEN e.swap
                                         ELSE SwapOf(e.kind, e.keys, group, Skipped(e.at, group), v)
<1> DEFINE s == SwapOf(e.kind, e.keys, group, Skipped(e.at, group), v)
<1>1. WithSwap(e, group, v) = IF group = <<>> THEN e ELSE [e EXCEPT !.swap = s]
  BY DEF WithSwap
<1> HIDE DEF s
<1>2. /\ SameOrigin(e, WithSwap(e, group, v)) /\ SamePeople(e, WithSwap(e, group, v))
      /\ WithSwap(e, group, v).swap = IF group = <<>> THEN e.swap ELSE s
  BY <1>1 DEF SameOrigin, SamePeople, Shape
<1>3. QED BY <1>2 DEF s

LEMMA MergedSame ==
  ASSUME NEW e, DOMAIN e = Shape, NEW j, NEW log
  PROVE  /\ SameOrigin(e, Merged(e, j, log)) /\ SameSwap(e, Merged(e, j, log))
         /\ Merged(e, j, log).log = j
         /\ Merged(e, j, log).user = IF e.kind \in PumpFunTrades \cup {"PumpFunCreateToken"}
                                       THEN log.user ELSE e.user
         /\ Merged(e, j, log).creator = IF e.kind \in PumpFunTrades \cup Launches
                                          THEN log.creator ELSE e.creator
<1> DEFINE user == IF e.kind \in PumpFunTrades \cup {"PumpFunCreateToken"} THEN log.user ELSE e.user
           creator == IF e.kind \in PumpFunTrades \cup Launches THEN log.creator ELSE e.creator
           paid == IF e.kind \in PumpFunTrades \cup PumpSwapTrades THEN log.paid ELSE e.paid
           got == IF e.kind \in PumpFunTrades \cup PumpSwapTrades THEN log.got ELSE e.got
<1>1. Merged(e, j, log) = [e EXCEPT !.log = j, !.user = user, !.creator = creator,
                                    !.paid = paid, !.got = got]
  BY DEF Merged, Shape
<1> HIDE DEF user, creator, paid, got
<1>2. /\ SameOrigin(e, Merged(e, j, log)) /\ SameSwap(e, Merged(e, j, log))
      /\ Merged(e, j, log).log = j
      /\ Merged(e, j, log).user = user /\ Merged(e, j, log).creator = creator
  BY <1>1 DEF SameOrigin, SameSwap, Shape
<1>3. QED BY <1>2 DEF user, creator

LEMMA MarkedSame ==
  ASSUME NEW e, DOMAIN e = Shape, NEW known
  PROVE  /\ SameOrigin(e, Marked(e, known)) /\ SamePeople(e, Marked(e, known))
         /\ SameSwap(e, Marked(e, known))
         /\ Marked(e, known).dev = (LookedUp(e) \cap known # {})
         /\ Marked(e, known) # NoEvent
<1>1. DOMAIN Priced(e) = Shape /\ SameOrigin(e, Priced(e)) /\ SamePeople(e, Priced(e))
  BY DEF Priced, SameOrigin, SamePeople, Shape
<1>1a. SameSwap(e, Priced(e))
  <2>1. e.kind \in PoolTrades => e.kind \notin PumpFunTrades \cup PumpSwapTrades
    BY DEF PoolTrades, BonkTrades, BonkBuys, CpmmSwaps, AmmV4Swaps, PumpFunTrades, PumpSwapTrades
  <2>2. e.kind \in PoolTrades => Priced(e) = e
    BY <2>1 DEF Priced
  <2>3. QED BY <2>2 DEF SameSwap
<1> DEFINE p == Priced(e)
           dev == LookedUp(e) \cap known # {}
           bot == e.kind \in PumpFunTrades \cup BonkTrades /\ ~dev /\ e.user = BotWallet
<1>2. Marked(e, known) = [p EXCEPT !.dev = dev, !.bot = bot]
  BY DEF Marked
<1> HIDE DEF p, dev, bot
<1>3. /\ DOMAIN p = Shape /\ SameOrigin(p, Marked(e, known)) /\ SamePeople(p, Marked(e, known))
      /\ Marked(e, known).swap = p.swap
      /\ Marked(e, known).dev = dev
  BY <1>1, <1>2 DEF SameOrigin, SamePeople, Shape, p
<1>3a. SameSwap(e, Marked(e, known))
  BY <1>1a, <1>3 DEF SameSwap, p
<1>4. SameOrigin(e, Marked(e, known)) /\ SamePeople(e, Marked(e, known))
  BY <1>1, <1>3 DEF SameOrigin, SamePeople, p
<1>5. Marked(e, known) # NoEvent
  <2>1. "dev" \in DOMAIN Marked(e, known)
    BY <1>3 DEF SameOrigin, Shape
  <2>2. "dev" \notin DOMAIN NoEvent
    BY DEF NoEvent
  <2>3. QED BY <2>1, <2>2
<1>6. QED BY <1>3, <1>3a, <1>4, <1>5 DEF dev

\* Whom an event announces, and whom it is looked up by, is a matter of its kind
\* and its people.
LEMMA SameTold ==
  ASSUME NEW e, NEW f, SameOrigin(e, f), SamePeople(e, f)
  PROVE  Announced(f) = Announced(e) /\ LookedUp(f) = LookedUp(e)
  BY DEF SameOrigin, SamePeople, Announced, LookedUp

\* The parser of an instruction is in the table, and was given the keys it reads.
LEMMA GivingType ==
  ASSUME NEW instr \in Instructions, NEW v, NEW outcome, NEW p \in Giving(outcome, instr, v)
  PROVE  /\ p \in Table /\ p \in AllParsers
         /\ Handles(v, instr.prog) /\ ValidIndices(instr.accounts, Len(v))
         /\ p.program = ProgramOf[v[instr.prog + 1]]
         /\ DiscriminatorMatches(instr.head, p.disc)
         /\ OutcomeOf(p, instr, Len(Named(v, instr.accounts))) = outcome
<1>1. p \in Candidates(instr, v) /\ OutcomeOf(p, instr, Len(Named(v, instr.accounts))) = outcome
  BY DEF Giving
<1>2. Handles(v, instr.prog) /\ ValidIndices(instr.accounts, Len(v))
  BY <1>1 DEF Candidates
<1>3. QED BY <1>1, <1>2, TableType DEF Candidates

\* Where a parser makes an event, there are the keys it reads.
LEMMA EnoughKeys ==
  ASSUME NEW p \in AllParsers, NEW instr, NEW n \in Nat, OutcomeOf(p, instr, n) = "event"
  PROVE  n >= p.keys
<1>1. p.keys \in Nat
  BY TableDescribed
<1>2. ~(n < p.keys)
  BY DEF OutcomeOf, Outcome
<1>3. QED BY <1>1, <1>2

\* An event is about the instruction it was parsed from, and announces keys.
LEMMA CompletedIs ==
  ASSUME NEW x \in Txs, NEW at \in Positions(x), NEW v, Fits(v, x),
         NEW p \in Giving("event", InstructionAt(x, at), v)
  PROVE  LET e == Completed(p, x, at, v) IN
         /\ DOMAIN e = Shape
         /\ Genuine(e)
         /\ e.kind = p.event /\ e.program = p.program
         /\ Announced(e) \subseteq Keys
<1> DEFINE instr == InstructionAt(x, at)
           named == Named(v, instr.accounts)
           group == GroupAt(x, at)
           j == LogFor(p, group)
           start == Event(p, x, at, v)
           swapped == WithSwap(start, group, v)
           e == Completed(p, x, at, v)
<1>0. x \in Transactions /\ at \in Outers(x) \cup Inners(x)
  BY TxsAssumption, PositionsType
<1>1. instr \in Instructions /\ group \in Seq(Instructions)
  BY <1>0, InstructionType, GroupType
<1>2. instr.accounts \in Seq(Indices) /\ instr.creator \in Keys
  BY <1>1 DEF Instructions
<1>3. /\ p \in Table /\ p \in AllParsers
      /\ ValidIndices(instr.accounts, Len(v))
      /\ OutcomeOf(p, instr, Len(named)) = "event"
  BY <1>1, GivingType
<1>3a. IsFor(x, instr, p)
  <2>1. /\ Handles(v, instr.prog) /\ p.program = ProgramOf[v[instr.prog + 1]]
        /\ DiscriminatorMatches(instr.head, p.disc)
    BY <1>1, GivingType
  <2>2. instr.prog \in Nat
    BY <1>1, RangeAssumption DEF Instructions, Indices
  <2>3. Handles(Resolved(x), instr.prog) /\ v[instr.prog + 1] = Resolved(x)[instr.prog + 1]
    BY <1>0, <2>1, <2>2, HandlesSame
  <2>4. QED BY <2>1, <2>3 DEF IsFor, Handles
<1>4. /\ named \in Seq(Keys) /\ Len(named) = Len(instr.accounts)
      /\ \A i \in DOMAIN instr.accounts :
           named[i] = IF instr.accounts[i] < Len(Resolved(x))
                        THEN Resolved(x)[instr.accounts[i] + 1] ELSE Default
  BY <1>0, <1>2, <1>3, NamedAll
<1>4a. named = KeysOf(x, at)
  <2>1. DOMAIN named = DOMAIN instr.accounts
    BY <1>2, <1>4
  <2> HIDE DEF named
  <2>2. named = [i \in DOMAIN instr.accounts |-> named[i]]
    BY <1>4, <2>1
  <2>3. QED BY <1>4, <2>2 DEF KeysOf, instr
<1>5. Len(named) \in Nat /\ Len(named) >= p.keys
  BY <1>3, <1>4, EnoughKeys
<1>6. /\ DOMAIN start = Shape
      /\ start.kind = p.event /\ start.program = p.program /\ start.tx = x /\ start.at = at
      /\ start.keys = named /\ start.log = 0 /\ start.swap = None
      /\ start.user = UserNamed(p, named) /\ start.creator = CreatorNamed(p, instr, named)
  BY DEF Event, Shape
<1>7. e = IF j = 0 THEN swapped ELSE Merged(swapped, j, group[j])
  BY DEF Completed
<1>8. j # 0 => group[j] \in Instructions
  <2>1. j # 0 => j \in DOMAIN group
    BY <1>1, LogForType
  <2> HIDE DEF j, group
  <2>2. QED BY <1>1, <2>1
<1>9. j # 0 => group[j].user \in Keys /\ group[j].creator \in Keys
  BY <1>8 DEF Instructions
<1> DEFINE log == group[j]
           merged == Merged(swapped, j, log)
<1> HIDE DEF start, named, instr, j, swapped, group, e
<1>10. SameOrigin(start, swapped) /\ SamePeople(start, swapped)
  BY <1>6, WithSwapSame DEF swapped
<1>10a. swapped.swap = IF group = <<>> THEN None
                       ELSE SwapOf(p.event, named, group, at.inner, Resolved(x))
  <2>1. swapped.swap = IF group = <<>> THEN start.swap
                       ELSE SwapOf(start.kind, start.keys, group, Skipped(start.at, group), v)
    BY <1>6, WithSwapSame DEF swapped
  <2>1a. Skipped(at, group) = at.inner
    BY <1>0, TxsAssumption, SkippedIs DEF group
  <2>2. SwapOf(p.event, named, group, at.inner, v) = SwapOf(p.event, named, group, at.inner, Resolved(x))
    BY <1>0, TxsAssumption, SwapSame DEF group
  <2>3. QED BY <1>6, <2>1, <2>1a, <2>2
<1>11. j # 0 => /\ e = merged /\ SameOrigin(swapped, e) /\ SameSwap(swapped, e) /\ e.log = j
                /\ e.user = IF p.event \in PumpFunTrades \cup {"PumpFunCreateToken"}
                              THEN log.user ELSE start.user
                /\ e.creator = IF p.event \in PumpFunTrades \cup Launches
                                 THEN log.creator ELSE start.creator
  <2>1. DOMAIN swapped = Shape /\ swapped.kind = p.event /\ SamePeople(start, swapped)
    BY <1>6, <1>10 DEF SameOrigin
  <2>2. SameOrigin(swapped, merged) /\ SameSwap(swapped, merged)
    BY <2>1, MergedSame
  <2>3. /\ merged.log = j
        /\ merged.user = IF p.event \in PumpFunTrades \cup {"PumpFunCreateToken"}
                              THEN log.user ELSE swapped.user
        /\ merged.creator = IF p.event \in PumpFunTrades \cup Launches
                                 THEN log.creator ELSE swapped.creator
    BY <2>1, MergedSame
  <2> HIDE DEF log, merged
  <2>4. j # 0 => e = merged
    BY <1>7 DEF merged, log
  <2>5. QED BY <2>1, <2>2, <2>3, <2>4 DEF SamePeople
<1> HIDE DEF log, merged
<1>12. j = 0 => e = swapped
  BY <1>7
<1>13. SameOrigin(start, e)
  BY <1>6, <1>10, <1>11, <1>12 DEF SameOrigin
<1>14. /\ DOMAIN e = Shape
       /\ e.kind = p.event /\ e.program = p.program /\ e.tx = x /\ e.at = at /\ e.keys = named
  BY <1>6, <1>13 DEF SameOrigin
<1>15. Genuine(e)
  <2>1. e.log = j
    BY <1>6, <1>10, <1>11, <1>12 DEF SamePeople
  <2>2. e.log = LogFor(p, GroupAt(x, at))
    BY <2>1 DEF j, group
  <2>3. e.kind \in PoolTrades => e.swap = swapped.swap
    BY <1>6, <1>10, <1>11, <1>12, <1>14 DEF SameOrigin, SameSwap
  <2>4. e.kind \in PoolTrades =>
          e.swap = IF GroupAt(e.tx, e.at) = <<>> THEN None
                   ELSE SwapOf(e.kind, e.keys, GroupAt(e.tx, e.at), e.at.inner, Resolved(e.tx))
    BY <1>10a, <1>14, <2>3 DEF group
  <2>5. e.keys = KeysOf(e.tx, e.at)
    BY <1>4a, <1>14
  <2>6. \E q \in Table : /\ e.kind = q.event /\ e.program = q.program
                         /\ IsFor(e.tx, InstructionAt(e.tx, e.at), q)
                         /\ e.log = LogFor(q, GroupAt(e.tx, e.at))
    BY <1>3, <1>3a, <1>14, <2>2 DEF instr
  <2>7. QED BY <1>14, <2>4, <2>5, <2>6 DEF Genuine
<1>16. p.event = "PumpFunCreateToken" => start.user \in Keys
  <2>1. p.event = "PumpFunCreateToken" => p.keys >= 8 /\ p.keys \in Nat
    BY <1>3, TableDescribed
  <2>2. Len(named) >= 8 => named[8] \in Keys
    BY <1>4
  <2>3. p.event = "PumpFunCreateToken" => UserNamed(p, named) = named[8]
    BY DEF UserNamed, PumpFunTrades, BonkTrades, BonkBuys
  <2>4. QED BY <1>5, <1>6, <2>1, <2>2, <2>3
<1>17. p.event \in Launches => start.creator \in Keys
  <2>1. p.event \in Launches \ {"PumpFunCreateToken"} => p.keys >= 2 /\ p.keys \in Nat
    BY <1>3, TableDescribed DEF Launches, BonkLaunches
  <2>2. Len(named) >= 2 => named[2] \in Keys
    BY <1>4
  <2>3. p.event \in Launches =>
          CreatorNamed(p, instr, named) = IF p.event = "PumpFunCreateToken" THEN instr.creator ELSE named[2]
    BY DEF CreatorNamed, Launches, BonkLaunches
  <2>4. QED BY <1>2, <1>5, <1>6, <2>1, <2>2, <2>3
<1>18. p.event = "PumpFunCreateToken" => e.user \in Keys
  <2>1. CASE j = 0
    BY <1>10, <1>12, <1>16, <2>1 DEF SamePeople
  <2>2. CASE j # 0
    BY <1>9, <1>11, <2>2 DEF log
  <2>3. QED BY <2>1, <2>2
<1>19. p.event \in Launches => e.creator \in Keys
  <2>1. CASE j = 0
    BY <1>10, <1>12, <1>17, <2>1 DEF SamePeople
  <2>2. CASE j # 0
    BY <1>9, <1>11, <2>2 DEF log
  <2>3. QED BY <2>1, <2>2
<1>20. Announced(e) \subseteq Keys
  BY <1>14, <1>18, <1>19 DEF Announced, Launches, BonkLaunches
<1>21. QED BY <1>14, <1>15, <1>20 DEF e

\* Only an event of a platform announces anyone.
LEMMA AnnouncedOnPlatform ==
  ASSUME NEW e, Genuine(e), Announced(e) # {}
  PROVE  e.program \in Platforms
<1>1. PICK p \in Table : e.kind = p.event /\ e.program = p.program
  BY DEF Genuine
<1>2. e.kind \in Launches
  BY DEF Announced, Launches, BonkLaunches
<1>3. QED
  BY <1>1, <1>2, TableType, TableDescribed DEF Launches, BonkLaunches, Platforms

\* What makes an event genuine is where it comes from.
LEMMA SameGenuine ==
  ASSUME NEW e, NEW f, Genuine(e), SameOrigin(e, f), SameSwap(e, f), f.log = e.log
  PROVE  Genuine(f)
  BY DEF Genuine, SameOrigin, SameSwap

(***************************************************************************)
(* Where a task is.                                                        *)
(***************************************************************************)

\* The transaction a task has is one of those given.
LEMMA TxType ==
  ASSUME TypeOK, NEW t \in Tasks, tx[t] # None
  PROVE  tx[t] \in Txs /\ tx[t] \in Transactions /\ Wellformed(tx[t])
  BY TxsAssumption DEF TypeOK

\* The instruction a task is at.
LEMMA HereType ==
  ASSUME TypeOK, NEW t \in Tasks, tx[t] # None, cursor[t] <= Len(Walk(tx[t]))
  PROVE  /\ Here(t) \in Outers(tx[t]) \cup Inners(tx[t])
         /\ Here(t) \in Position
         /\ Here(t).inner # 0 => tx[t].full /\ Here(t) \in Inners(tx[t])
         /\ Current(t) \in Instructions
<1>1. tx[t] \in Transactions /\ cursor[t] \in Nat \ {0}
  BY TxType DEF TypeOK
<1>2. /\ Here(t) \in Outers(tx[t]) \cup Inners(tx[t])
      /\ Here(t) \in Position
      /\ Here(t).inner # 0 => tx[t].full /\ Here(t) \in Inners(tx[t])
  BY <1>1, PositionType DEF Here
<1>3. QED BY <1>1, <1>2, InstructionType DEF Current

LEMMA HereInWalk ==
  ASSUME TypeOK, NEW t \in Tasks, tx[t] # None, cursor[t] <= Len(Walk(tx[t]))
  PROVE  Here(t) \in Positions(tx[t])
<1> DEFINE w == Walk(tx[t])
<1>1. w \in Seq(Position) /\ cursor[t] \in Nat \ {0} /\ cursor[t] <= Len(w)
  BY TxType, WalkType DEF TypeOK
<1> HIDE DEF w
<1>2. cursor[t] \in DOMAIN w
  BY <1>1
<1>3. QED BY <1>2 DEF Here, Positions, w

\* The vectors a task has and uses are keys and default keys.
LEMMA VecFits ==
  ASSUME TypeOK, VectorOK, NEW t \in Tasks, tx[t] # None
  PROVE  Fits(vec[t], tx[t])
  BY DEF TypeOK, VectorOK, Fits

LEMMA VectorFits ==
  ASSUME TypeOK, VectorOK, NEW t \in Tasks, tx[t] # None, cursor[t] <= Len(Walk(tx[t]))
  PROVE  Fits(Vector(t), tx[t])
<1>1. tx[t] \in Transactions /\ Wellformed(tx[t])
  BY TxType
<1>2. Current(t) \in Instructions
  BY HereType
<1>3. Current(t).accounts \in Seq(Indices)
  BY <1>2 DEF Instructions
<1>4. Fits(Resolved(tx[t]), tx[t])
  BY <1>1, ResolvedFits
<1>5. Fits(vec[t], tx[t])
  BY VecFits
<1>6. Fits(Padded(vec[t], Current(t).accounts), tx[t])
  BY <1>1, <1>3, <1>5, PaddedFits
<1>7. QED BY <1>4, <1>5, <1>6 DEF Vector

\* The program of an inner instruction is a key of its transaction.
LEMMA InnerProgram ==
  ASSUME NEW x \in Transactions, Wellformed(x), NEW at \in Inners(x)
  PROVE  InstructionAt(x, at).prog < Len(Resolved(x))
  BY DEF Wellformed, Inners, InstructionAt

\* Why a task panics: a parser of the nine, for nothing else is out of range.
LEMMA PanicsWhy ==
  ASSUME TypeOK, VectorOK, NEW t \in Tasks, tx[t] # None,
         cursor[t] <= Len(Walk(tx[t])), Panics(t)
  PROVE  \E p \in Table : p.event \in UnderGuarded /\ DiscriminatorMatches(Current(t).head, p.disc)
<1> DEFINE v == Vector(t)
           named == Named(v, Current(t).accounts)
<1>1. Fits(v, tx[t]) /\ Current(t) \in Instructions /\ tx[t] \in Transactions /\ Wellformed(tx[t])
  BY VectorFits, HereType, TxType
<1>2. Here(t).inner # 0 => Current(t).prog < Len(v)
  <2>1. Here(t).inner # 0 => Current(t).prog < Len(Resolved(tx[t]))
    BY <1>1, HereType, InnerProgram DEF Current
  <2>2. Current(t).prog \in Nat /\ Len(Resolved(tx[t])) \in Nat /\ Len(v) \in Nat
        /\ Len(Resolved(tx[t])) <= Len(v)
    BY <1>1, TransactionType, RangeAssumption DEF Instructions, Indices, Fits
  <2>3. QED BY <2>1, <2>2
<1>3. Current(t).prog \in Nat /\ Len(v) \in Nat
  BY <1>1, RangeAssumption DEF Instructions, Indices, Fits
<1>4. PICK p : p \in Giving("panic", Current(t), v)
  BY <1>2, <1>3 DEF Panics
<1> HIDE DEF v
<1>5. /\ p \in Table /\ p \in AllParsers
      /\ ValidIndices(Current(t).accounts, Len(v))
      /\ DiscriminatorMatches(Current(t).head, p.disc)
      /\ OutcomeOf(p, Current(t), Len(named)) = "panic"
  BY <1>1, <1>4, GivingType
<1>6. Len(named) \in Nat
  <2>1. Current(t).accounts \in Seq(Indices)
    BY <1>1 DEF Instructions
  <2>2. named \in Seq(Keys)
    BY <1>1, <1>5, <2>1, NamedAll
  <2> HIDE DEF named
  <2>3. QED BY <2>2
<1>7. /\ Current(t).bytes - Len(p.disc) \in Int /\ Current(t).text \in Nat
  <2>1. p.disc \in Seq(Nat)
    BY <1>5, TableDescribed
  <2>2. QED BY <1>1, <2>1 DEF Instructions
<1>8. p.event \in UnderGuarded
  BY <1>5, <1>6, <1>7, OnlyUnderGuardedPanic DEF OutcomeOf
<1>9. QED BY <1>5, <1>8

\* Of two discriminators an instruction starts with one is the beginning of the other.
LEMMA BothMatch ==
  ASSUME NEW head \in Seq(Nat), NEW a \in Seq(Nat), NEW b \in Seq(Nat),
         DiscriminatorMatches(head, a), DiscriminatorMatches(head, b), Len(b) <= Len(a)
  PROVE  DiscriminatorMatches(a, b)
<1>1. /\ Len(a) \in Nat /\ Len(b) \in Nat /\ Len(head) \in Nat
      /\ Len(a) <= Len(head) /\ SubSeq(head, 1, Len(a)) = a
      /\ Len(b) <= Len(head) /\ SubSeq(head, 1, Len(b)) = b
  BY DEF DiscriminatorMatches
<1>2. \A i \in 1 .. Len(b) : a[i] = b[i]
  <2>1. \A i \in 1 .. Len(a) : a[i] = head[i]
    BY <1>1
  <2>2. \A i \in 1 .. Len(b) : b[i] = head[i]
    BY <1>1
  <2>3. \A i \in 1 .. Len(b) : i \in 1 .. Len(a)
    <3> DEFINE la == Len(a)
               lb == Len(b)
    <3>1. la \in Nat /\ lb \in Nat /\ lb <= la
      BY <1>1
    <3> HIDE DEF la, lb
    <3>2. \A i \in 1 .. lb : i \in 1 .. la
      BY <3>1
    <3>3. QED BY <3>2 DEF la, lb
  <2>4. QED BY <2>1, <2>2, <2>3
<1>3. SubSeq(a, 1, Len(b)) = b
  <2> DEFINE c == SubSeq(a, 1, Len(b))
  <2>1. c \in Seq(Nat) /\ Len(c) = Len(b) /\ \A i \in 1 .. Len(b) : c[i] = a[i]
    BY <1>1
  <2> HIDE DEF c
  <2>2. c = b
    BY <1>2, <2>1, SeqEqual
  <2>3. QED BY <2>2 DEF c
<1>4. QED BY <1>1, <1>3 DEF DiscriminatorMatches

\* Two parsers that give something of the same instruction are one.
LEMMA OneGiven ==
  ASSUME NEW instr \in Instructions, NEW v, NEW outcome,
         NEW p \in Giving(outcome, instr, v), NEW q \in Giving(outcome, instr, v)
  PROVE  p = q
<1>1. /\ p \in AllParsers /\ q \in AllParsers /\ p.program = q.program
      /\ DiscriminatorMatches(instr.head, p.disc) /\ DiscriminatorMatches(instr.head, q.disc)
  BY GivingType
<1>2. p.disc \in Seq(Nat) /\ q.disc \in Seq(Nat)
  BY <1>1, TableDescribed
<1>3. instr.head \in Seq(Nat)
  <2>1. instr.head \in Seq(Bytes)
    BY DEF Instructions
  <2>2. Bytes \subseteq Nat
    BY DEF Bytes
  <2> DEFINE head == instr.head
  <2>3. head \in Seq(Bytes)
    BY <2>1
  <2> HIDE DEF head
  <2>4. Len(head) \in Nat /\ head = [i \in 1 .. Len(head) |-> head[i]]
        /\ \A i \in 1 .. Len(head) : head[i] \in Nat
    BY <2>2, <2>3
  <2>5. head \in Seq(Nat)
    BY <2>4
  <2>6. QED BY <2>5 DEF head
<1>4. DiscriminatorMatches(p.disc, q.disc) \/ DiscriminatorMatches(q.disc, p.disc)
  <2>1. Len(p.disc) \in Nat /\ Len(q.disc) \in Nat
    BY <1>2
  <2>2. Len(q.disc) <= Len(p.disc) \/ Len(p.disc) <= Len(q.disc)
    BY <2>1
  <2>3. QED BY <1>1, <1>2, <1>3, <2>2, BothMatch
<1>5. QED BY <1>1, <1>4, DiscriminatorsTell

(***************************************************************************)
(* The inductive invariant holds at first.                                 *)
(***************************************************************************)

\* At first nothing has been taken, announced or sent.
LEMMA InitIInv == Init => IInv
<1> SUFFICES ASSUME Init PROVE IInv
  OBVIOUS
<1> USE DEF Init
<1>1. TypeOK
  <2>1. delivered \in Seq({delivered[n] : n \in DOMAIN delivered}) /\ Len(delivered) = 0
    OBVIOUS
  <2>2. vec \in [Tasks -> Seq(Keys)] /\ sent \in [Tasks -> Seq(Position)]
    OBVIOUS
  <2>3. QED BY <2>1, <2>2 DEF TypeOK
<1>2. WalkOK /\ VectorOK /\ SentOK
  BY DEF WalkOK, VectorOK, SentOK
<1>3. OneEventEach
  BY DEF OneEventEach
<1>4. Events = {} /\ Known = {}
  BY DEF Events, Known
<1>5. DevsOK
  BY <1>4 DEF DevsOK
<1>6. DevMarksExact /\ PanicOnlyUnderGuarded
  BY DEF DevMarksExact, PanicOnlyUnderGuarded
<1>7. QED BY <1>1, <1>2, <1>3, <1>5, <1>6 DEF IInv

(***************************************************************************)
(* Every step keeps it, part by part.                                      *)
(***************************************************************************)

\* A sequence is one of its own elements.
LEMMA OfItsOwn ==
  ASSUME NEW A, NEW r \in Seq(A)
  PROVE  r \in Seq({r[n] : n \in DOMAIN r})
<1> DEFINE B == {r[n] : n \in DOMAIN r}
<1>1. Len(r) \in Nat /\ DOMAIN r = 1 .. Len(r) /\ r = [i \in 1 .. Len(r) |-> r[i]]
  OBVIOUS
<1>2. \A i \in 1 .. Len(r) : r[i] \in B
  BY <1>1
<1> HIDE DEF B
<1>3. r \in Seq(B)
  BY <1>1, <1>2
<1>4. QED BY <1>3 DEF B

\* A sequence of anything, with one thing more.
LEMMA OneMore ==
  ASSUME NEW s, s \in Seq({s[n] : n \in DOMAIN s}), NEW e, NEW r, r = Append(s, e)
  PROVE  /\ r \in Seq({r[n] : n \in DOMAIN r})
         /\ Len(s) \in Nat /\ Len(r) = Len(s) + 1 /\ r[Len(s) + 1] = e
         /\ DOMAIN s = 1 .. Len(s) /\ DOMAIN r = 1 .. Len(s) + 1
         /\ \A n \in 1 .. Len(s) : r[n] = s[n]
<1> DEFINE A == {s[n] : n \in DOMAIN s} \cup {e}
<1>1. s \in Seq(A) /\ e \in A
  <2>1. /\ Len(s) \in Nat /\ DOMAIN s = 1 .. Len(s)
        /\ s = [i \in 1 .. Len(s) |-> s[i]] /\ \A i \in 1 .. Len(s) : s[i] \in A
    OBVIOUS
  <2> HIDE DEF A
  <2>2. s \in Seq(A)
    BY <2>1
  <2>3. QED BY <2>2 DEF A
<1> HIDE DEF A
<1>2. /\ r \in Seq(A) /\ Len(s) \in Nat /\ Len(r) = Len(s) + 1 /\ r[Len(s) + 1] = e
      /\ DOMAIN s = 1 .. Len(s) /\ DOMAIN r = 1 .. Len(s) + 1
      /\ \A n \in 1 .. Len(s) : r[n] = s[n]
  BY <1>1
<1>3. r \in Seq({r[n] : n \in DOMAIN r})
  BY <1>2, OfItsOwn
<1>4. QED BY <1>2, <1>3

\* Steps keep the types.
LEMMA TypeOKNext == IInv /\ [Next]_vars => TypeOK'
<1> SUFFICES ASSUME IInv, [Next]_vars PROVE TypeOK'
  OBVIOUS
<1>0. TypeOK /\ WalkOK /\ VectorOK /\ OneEventEach
  BY DEF IInv
<1>1. ASSUME NEW t \in Tasks, NEW x \in queue, Begin(t, x) PROVE TypeOK'
  <2>1. x \in Txs /\ Resolved(x) \in Seq(Keys)
    BY <1>0, TxsAssumption, TransactionType DEF TypeOK
  <2>2. delivered \in Seq({delivered[n] : n \in DOMAIN delivered})
    BY <1>0 DEF TypeOK
  <2>3. Len(delivered) \in 0 .. Len(delivered)
    BY <2>2
  <2>4. <<>> \in Seq(Position)
    OBVIOUS
  <2>5. /\ queue' \subseteq Txs
        /\ tx' \in [Tasks -> Txs \cup {None}]
        /\ pc' \in [Tasks -> {"idle", "parse", "merge", "callback", "panicked"}]
        /\ cursor' \in [Tasks -> Nat \ {0}]
    BY <1>0, <1>1, <2>1 DEF Begin, TypeOK
  <2>6. vec' \in [Tasks -> Seq(Keys)]
    BY <1>0, <1>1, <2>1 DEF Begin, TypeOK
  <2>7. begun' \in [Tasks -> 0 .. Len(delivered)]
    BY <1>0, <1>1, <2>3 DEF Begin, TypeOK
  <2>8. sent' \in [Tasks -> Seq(Position)]
    BY <1>0, <1>1, <2>4 DEF Begin, TypeOK
  <2>9. UNCHANGED <<found, ready, devs, delivered>>
    BY <1>1 DEF Begin
  <2>10. QED BY <1>0, <2>5, <2>6, <2>7, <2>8, <2>9 DEF TypeOK
<1>2. ASSUME NEW t \in Tasks, Parse(t) PROVE TypeOK'
  <2>1. tx[t] # None /\ cursor[t] <= Len(Walk(tx[t]))
    BY <1>0, <1>2 DEF Parse, AtInstruction, WalkOK
  <2>2. Vector(t) \in Seq(Keys)
    BY <1>0, <2>1, VectorFits DEF Fits
  <2>3. Giving("event", Current(t), Vector(t)) \subseteq Table
    BY DEF Giving, Candidates
  <2>4. vec' \in [Tasks -> Seq(Keys)] /\ found' \in [Tasks -> SUBSET Table]
    BY <1>0, <1>2, <2>2, <2>3 DEF Parse, TypeOK
  <2>5. /\ pc' \in [Tasks -> {"idle", "parse", "merge", "callback", "panicked"}]
        /\ cursor' \in [Tasks -> Nat \ {0}]
    <3>1. /\ pc \in [Tasks -> {"idle", "parse", "merge", "callback", "panicked"}]
          /\ cursor \in [Tasks -> Nat \ {0}]
      BY <1>0 DEF TypeOK
    <3>2. \/ pc' = pc /\ cursor' = [cursor EXCEPT ![t] = @ + 1]
          \/ pc' = [pc EXCEPT ![t] = "merge"] /\ cursor' = cursor
      BY <1>2 DEF Parse
    <3>3. QED BY <3>1, <3>2
  <2>6. QED BY <1>0, <1>2, <2>4, <2>5 DEF Parse, TypeOK
<1>3. ASSUME NEW t \in Tasks, ParsePanics(t) PROVE TypeOK'
  BY <1>0, <1>3 DEF ParsePanics, TypeOK
<1>4. ASSUME NEW t \in Tasks, NEW parser \in found[t], Merge(t, parser) PROVE TypeOK'
  <2> DEFINE e == Completed(parser, tx[t], Here(t), vec[t])
  <2>1. pc[t] = "merge" /\ tx[t] # None /\ cursor[t] <= Len(Walk(tx[t]))
    BY <1>0, <1>4 DEF Merge, WalkOK
  <2>2. parser \in Giving("event", Current(t), vec[t])
    BY <1>0, <2>1 DEF OneEventEach
  <2>3. Announced(e) \subseteq Keys
    BY <1>0, <2>1, <2>2, TxType, HereInWalk, VecFits, CompletedIs DEF Current
  <2> HIDE DEF e
  <2>4. devs' = [p \in Platforms |-> IF p = e.program THEN devs[p] \cup Announced(e) ELSE devs[p]]
    BY <1>4 DEF Merge, e
  <2>5. devs' \in [Platforms -> SUBSET Keys]
    BY <1>0, <2>3, <2>4 DEF TypeOK
  <2>6. DOMAIN ready' = Tasks
    BY <1>0, <1>4 DEF Merge, TypeOK
  <2>7. /\ pc' \in [Tasks -> {"idle", "parse", "merge", "callback", "panicked"}]
        /\ found' \in [Tasks -> SUBSET Table]
    BY <1>0, <1>4 DEF Merge, TypeOK
  <2>8. QED BY <1>0, <1>4, <2>5, <2>6, <2>7 DEF Merge, TypeOK
<1>5. ASSUME NEW t \in Tasks, Callback(t) PROVE TypeOK'
  <2> DEFINE e == [body |-> ready[t], task |-> t, begun |-> begun[t]]
  <2>0. tx[t] # None /\ cursor[t] <= Len(Walk(tx[t]))
    BY <1>0, <1>5 DEF Callback, WalkOK
  <2>1. delivered' = Append(delivered, e)
    BY <1>5 DEF Callback
  <2> HIDE DEF e
  <2>2. /\ delivered' \in Seq({delivered'[n] : n \in DOMAIN delivered'})
        /\ Len(delivered) \in Nat /\ Len(delivered') = Len(delivered) + 1
    <3>1. delivered \in Seq({delivered[n] : n \in DOMAIN delivered})
      BY <1>0 DEF TypeOK
    <3>2. QED BY <2>1, <3>1, OneMore
  <2>3. begun' \in [Tasks -> 0 .. Len(delivered')]
    <3>1. begun' = begun /\ begun \in [Tasks -> 0 .. Len(delivered)]
      BY <1>0, <1>5 DEF Callback, TypeOK
    <3>2. 0 .. Len(delivered) \subseteq 0 .. Len(delivered')
      BY <2>2
    <3>3. QED BY <3>1, <3>2
  <2>4. Here(t) \in Position
    BY <1>0, <2>0, HereType
  <2>5. sent' \in [Tasks -> Seq(Position)]
    <3>1. sent \in [Tasks -> Seq(Position)] /\ sent' = [sent EXCEPT ![t] = Append(@, Here(t))]
      BY <1>0, <1>5 DEF Callback, TypeOK
    <3>2. Append(sent[t], Here(t)) \in Seq(Position)
      BY <2>4, <3>1
    <3>3. QED BY <3>1, <3>2
  <2>6. DOMAIN ready' = Tasks
    BY <1>0, <1>5 DEF Callback, TypeOK
  <2>7. /\ pc' \in [Tasks -> {"idle", "parse", "merge", "callback", "panicked"}]
        /\ cursor' \in [Tasks -> Nat \ {0}]
    <3>1. /\ pc \in [Tasks -> {"idle", "parse", "merge", "callback", "panicked"}]
          /\ cursor \in [Tasks -> Nat \ {0}]
      BY <1>0 DEF TypeOK
    <3>2. \/ pc' = [pc EXCEPT ![t] = "parse"] /\ cursor' = [cursor EXCEPT ![t] = @ + 1]
          \/ pc' = [pc EXCEPT ![t] = "merge"] /\ cursor' = cursor
      BY <1>5 DEF Callback
    <3>3. QED BY <3>1, <3>2
  <2>8. UNCHANGED <<queue, tx, vec, found, devs>>
    BY <1>5 DEF Callback
  <2>9. QED BY <1>0, <2>2, <2>3, <2>5, <2>6, <2>7, <2>8 DEF TypeOK
<1>6. ASSUME NEW t \in Tasks, Finish(t) PROVE TypeOK'
  BY <1>0, <1>6 DEF Finish, TypeOK
<1>7. CASE UNCHANGED vars
  BY <1>0, <1>7 DEF vars, TypeOK
<1>8. QED BY <1>1, <1>2, <1>3, <1>4, <1>5, <1>6, <1>7 DEF Next

\* A step of one task leaves the others where they were.
StepOf(t) ==
  \/ \E x \in queue : Begin(t, x)
  \/ \E parser \in found[t] : Merge(t, parser)
  \/ Parse(t) \/ ParsePanics(t) \/ Callback(t) \/ Finish(t)

SameTask(u) ==
  /\ tx'[u] = tx[u] /\ pc'[u] = pc[u] /\ cursor'[u] = cursor[u] /\ vec'[u] = vec[u]
  /\ found'[u] = found[u] /\ ready'[u] = ready[u] /\ begun'[u] = begun[u] /\ sent'[u] = sent[u]

\* Every step is one of a task,
LEMMA NextIsStep == Next <=> \E t \in Tasks : StepOf(t)
  BY DEF Next, StepOf

\* and leaves the others as they are.
LEMMA OthersStay ==
  ASSUME TypeOK, NEW t \in Tasks, StepOf(t), NEW u \in Tasks, u # t
  PROVE  SameTask(u)
<1>0. /\ DOMAIN tx = Tasks /\ DOMAIN pc = Tasks /\ DOMAIN cursor = Tasks /\ DOMAIN vec = Tasks
      /\ DOMAIN found = Tasks /\ DOMAIN ready = Tasks /\ DOMAIN begun = Tasks /\ DOMAIN sent = Tasks
  BY DEF TypeOK
<1>1. ASSUME NEW x \in queue, Begin(t, x) PROVE SameTask(u)
  BY <1>0, <1>1 DEF Begin, SameTask
<1>2. ASSUME NEW parser \in found[t], Merge(t, parser) PROVE SameTask(u)
  BY <1>0, <1>2 DEF Merge, SameTask
<1>3. CASE Parse(t)
  BY <1>0, <1>3 DEF Parse, SameTask
<1>4. CASE ParsePanics(t)
  BY <1>0, <1>4 DEF ParsePanics, SameTask
<1>5. CASE Callback(t)
  BY <1>0, <1>5 DEF Callback, SameTask
<1>6. CASE Finish(t)
  BY <1>0, <1>6 DEF Finish, SameTask
<1>7. QED BY <1>1, <1>2, <1>3, <1>4, <1>5, <1>6 DEF StepOf

\* WalkOK of one task.
WalkAt(t) ==
    /\ pc[t] # "idle" => tx[t] # None
    /\ tx[t] # None =>
         /\ cursor[t] <= Len(Walk(tx[t])) + 1
         /\ pc[t] = "idle" => cursor[t] = Len(Walk(tx[t])) + 1
         /\ pc[t] \in {"merge", "callback", "panicked"} => cursor[t] <= Len(Walk(tx[t]))

LEMMA WalkOKNext == IInv /\ [Next]_vars => WalkOK'
<1> SUFFICES ASSUME IInv, [Next]_vars, NEW u \in Tasks PROVE WalkAt(u)'
  BY DEF WalkOK, WalkAt
<1>0. TypeOK /\ WalkAt(u)
  BY DEF IInv, WalkOK, WalkAt
<1>1. CASE UNCHANGED vars
  BY <1>0, <1>1 DEF vars, WalkAt
<1>2. ASSUME NEW t \in Tasks, StepOf(t), u # t PROVE WalkAt(u)'
  BY <1>0, <1>2, OthersStay DEF SameTask, WalkAt
<1> DEFINE n == Len(Walk(tx[u]))
<1>3. ASSUME NEW x \in queue, Begin(u, x) PROVE WalkAt(u)'
  <2>1. x # None /\ Len(Walk(x)) \in Nat
    BY <1>0, TxsAssumption, WalkType DEF TypeOK
  <2>2. tx'[u] = x /\ pc'[u] = "parse" /\ cursor'[u] = 1
    BY <1>0, <1>3 DEF Begin, TypeOK
  <2>3. QED BY <2>1, <2>2 DEF WalkAt
<1>a. tx[u] # None => n \in Nat /\ cursor[u] \in Nat
  BY <1>0, TxType, WalkType DEF TypeOK
<1>4. ASSUME NEW parser \in found[u], Merge(u, parser) PROVE WalkAt(u)'
  <2>1. tx'[u] = tx[u] /\ pc'[u] = "callback" /\ cursor'[u] = cursor[u] /\ pc[u] = "merge"
    BY <1>0, <1>4 DEF Merge, TypeOK
  <2>2. QED BY <1>0, <2>1 DEF WalkAt
<1>5. CASE Parse(u)
  <2>1. /\ tx'[u] = tx[u] /\ pc[u] = "parse" /\ cursor[u] <= n
        /\ \/ pc'[u] = "parse" /\ cursor'[u] = cursor[u] + 1
           \/ pc'[u] = "merge" /\ cursor'[u] = cursor[u]
    BY <1>0, <1>5 DEF Parse, AtInstruction, TypeOK
  <2>2. QED BY <1>0, <1>a, <2>1 DEF WalkAt
<1>6. CASE ParsePanics(u)
  <2>1. tx'[u] = tx[u] /\ pc[u] = "parse" /\ cursor[u] <= n /\ pc'[u] = "panicked" /\ cursor'[u] = cursor[u]
    BY <1>0, <1>6 DEF ParsePanics, AtInstruction, TypeOK
  <2>2. QED BY <1>0, <1>a, <2>1 DEF WalkAt
<1>7. CASE Callback(u)
  <2>1. /\ tx'[u] = tx[u] /\ pc[u] = "callback"
        /\ \/ pc'[u] = "parse" /\ cursor'[u] = cursor[u] + 1
           \/ pc'[u] = "merge" /\ cursor'[u] = cursor[u]
    BY <1>0, <1>7 DEF Callback, TypeOK
  <2>2. QED BY <1>0, <1>a, <2>1 DEF WalkAt
<1>8. CASE Finish(u)
  <2>1. tx'[u] = tx[u] /\ pc[u] = "parse" /\ cursor[u] > n /\ pc'[u] = "idle" /\ cursor'[u] = cursor[u]
    BY <1>0, <1>8 DEF Finish, TypeOK
  <2>2. QED BY <1>0, <1>a, <2>1 DEF WalkAt
<1>9. QED
  BY <1>1, <1>2, <1>3, <1>4, <1>5, <1>6, <1>7, <1>8, NextIsStep DEF StepOf

LEMMA VectorOKNext == IInv /\ [Next]_vars => VectorOK'
<1> SUFFICES ASSUME IInv, [Next]_vars, NEW u \in Tasks
             PROVE  tx'[u] # None => Fits(vec'[u], tx'[u])
  BY DEF VectorOK, Fits
<1>0. TypeOK /\ WalkOK /\ VectorOK /\ (tx[u] # None => Fits(vec[u], tx[u]))
  BY VecFits DEF IInv
<1>1. CASE UNCHANGED vars
  BY <1>0, <1>1 DEF vars
<1>2. ASSUME NEW t \in Tasks, StepOf(t), u # t PROVE tx'[u] # None => Fits(vec'[u], tx'[u])
  BY <1>0, <1>2, OthersStay DEF SameTask
<1>3. ASSUME NEW x \in queue, Begin(u, x) PROVE Fits(vec'[u], tx'[u])
  <2>1. tx'[u] = x /\ vec'[u] = Resolved(x)
    BY <1>0, <1>3 DEF Begin, TypeOK
  <2>2. QED BY <1>0, <2>1, TxsAssumption, ResolvedFits DEF TypeOK
<1>4. ASSUME NEW parser \in found[u], Merge(u, parser) PROVE UNCHANGED <<tx, vec>>
  BY <1>4 DEF Merge
<1>5. CASE Parse(u)
  <2>1. tx' = tx /\ vec'[u] = Vector(u) /\ tx[u] # None /\ cursor[u] <= Len(Walk(tx[u]))
    BY <1>0, <1>5 DEF Parse, AtInstruction, TypeOK, WalkOK
  <2>2. QED BY <1>0, <2>1, VectorFits
<1>6. ASSUME ParsePanics(u) \/ Callback(u) \/ Finish(u) PROVE UNCHANGED <<tx, vec>>
  BY <1>6 DEF ParsePanics, Callback, Finish
<1>7. QED
  BY <1>0, <1>1, <1>2, <1>3, <1>4, <1>5, <1>6, NextIsStep DEF StepOf

\* PanicOnlyUnderGuarded of one task.
PanicAt(t) ==
  pc[t] = "panicked" =>
    \E p \in Table : p.event \in UnderGuarded /\ DiscriminatorMatches(Current(t).head, p.disc)

LEMMA PanicNext == IInv /\ [Next]_vars => PanicOnlyUnderGuarded'
<1> SUFFICES ASSUME IInv, [Next]_vars, NEW u \in Tasks PROVE PanicAt(u)'
  BY DEF PanicOnlyUnderGuarded, PanicAt
<1>0. TypeOK /\ WalkOK /\ VectorOK /\ PanicAt(u)
  BY DEF IInv, PanicOnlyUnderGuarded, PanicAt
<1>1. CASE UNCHANGED vars
  BY <1>0, <1>1 DEF vars, PanicAt, Current, Here
<1>2. ASSUME NEW t \in Tasks, StepOf(t), u # t PROVE PanicAt(u)'
  BY <1>0, <1>2, OthersStay DEF SameTask, PanicAt, Current, Here
<1>3. ASSUME NEW x \in queue, Begin(u, x) PROVE pc'[u] # "panicked"
  BY <1>0, <1>3 DEF Begin, TypeOK
<1>4. ASSUME NEW parser \in found[u], Merge(u, parser) PROVE pc'[u] # "panicked"
  BY <1>0, <1>4 DEF Merge, TypeOK
<1>5. CASE Parse(u)
  <2>1. pc'[u] # "panicked"
    BY <1>0, <1>5 DEF Parse, AtInstruction, TypeOK
  <2>2. QED BY <2>1 DEF PanicAt
<1>6. CASE ParsePanics(u)
  <2>1. tx' = tx /\ cursor' = cursor /\ Panics(u) /\ tx[u] # None /\ cursor[u] <= Len(Walk(tx[u]))
    BY <1>0, <1>6 DEF ParsePanics, AtInstruction, WalkOK
  <2>2. \E p \in Table : p.event \in UnderGuarded /\ DiscriminatorMatches(Current(u).head, p.disc)
    BY <1>0, <2>1, PanicsWhy
  <2>3. Current(u)' = Current(u)
    BY <2>1 DEF Current, Here
  <2>4. QED BY <2>2, <2>3 DEF PanicAt
<1>7. CASE Callback(u)
  <2>1. pc'[u] # "panicked"
    BY <1>0, <1>7 DEF Callback, TypeOK
  <2>2. QED BY <2>1 DEF PanicAt
<1>8. CASE Finish(u)
  <2>1. pc'[u] # "panicked"
    BY <1>0, <1>8 DEF Finish, TypeOK
  <2>2. QED BY <2>1 DEF PanicAt
<1>9. QED
  BY <1>1, <1>2, <1>3, <1>4, <1>5, <1>6, <1>7, <1>8, NextIsStep DEF StepOf, PanicAt

\* OneEventEach of one task.
EventAt(t) ==
    /\ pc[t] \in {"merge", "callback"} => Giving("event", Current(t), vec[t]) # {}
    /\ IF pc[t] = "merge" THEN \E p \in Giving("event", Current(t), vec[t]) : found[t] = {p}
                          ELSE found[t] = {}
    /\ IF pc[t] = "callback" THEN Genuine(ready[t]) ELSE ready[t] = NoEvent

\* What a task makes of the instruction it is at.
LEMMA MergedIs ==
  ASSUME TypeOK, WalkOK, VectorOK, OneEventEach,
         NEW t \in Tasks, NEW parser \in found[t], Merge(t, parser)
  PROVE  LET e == Completed(parser, tx[t], Here(t), vec[t]) IN
         /\ found[t] = {parser} /\ pc[t] = "merge" /\ ready[t] = NoEvent
         /\ DOMAIN e = Shape /\ Genuine(e) /\ Announced(e) \subseteq Keys
         /\ ready' = [ready EXCEPT ![t] = Marked(e, KnownOn(e.program))]
         /\ devs' = [p \in Platforms |-> IF p = e.program THEN devs[p] \cup Announced(e) ELSE devs[p]]
<1> DEFINE e == Completed(parser, tx[t], Here(t), vec[t])
<1>1. pc[t] = "merge"
  BY DEF Merge
<1>2. tx[t] # None /\ cursor[t] <= Len(Walk(tx[t]))
  BY <1>1 DEF WalkOK
<1>3. PICK p \in Giving("event", Current(t), vec[t]) : found[t] = {p}
  BY <1>1 DEF OneEventEach
<1>4. parser = p /\ found[t] = {parser} /\ ready[t] = NoEvent
  BY <1>1, <1>3 DEF OneEventEach
<1>5. DOMAIN e = Shape /\ Genuine(e) /\ Announced(e) \subseteq Keys
  <2>1. tx[t] \in Txs /\ Here(t) \in Positions(tx[t]) /\ Fits(vec[t], tx[t])
    BY <1>2, TxType, HereInWalk, VecFits
  <2>2. parser \in Giving("event", InstructionAt(tx[t], Here(t)), vec[t])
    BY <1>3, <1>4 DEF Current
  <2>3. QED BY <2>1, <2>2, CompletedIs
<1>6. /\ ready' = [ready EXCEPT ![t] = Marked(e, KnownOn(e.program))]
      /\ devs' = [q \in Platforms |-> IF q = e.program THEN devs[q] \cup Announced(e) ELSE devs[q]]
  BY DEF Merge
<1>7. QED BY <1>1, <1>4, <1>5, <1>6

LEMMA OneEventNext == IInv /\ [Next]_vars => OneEventEach'
<1> SUFFICES ASSUME IInv, [Next]_vars, NEW u \in Tasks PROVE EventAt(u)'
  BY DEF OneEventEach, EventAt
<1>0. TypeOK /\ WalkOK /\ VectorOK /\ OneEventEach /\ EventAt(u)
  BY DEF IInv, OneEventEach, EventAt
<1> USE DEF EventAt
<1>1. CASE UNCHANGED vars
  BY <1>0, <1>1 DEF vars, Current, Here
<1>2. ASSUME NEW t \in Tasks, StepOf(t), u # t PROVE EventAt(u)'
  BY <1>0, <1>2, OthersStay DEF SameTask, Current, Here
<1>3. ASSUME NEW x \in queue, Begin(u, x) PROVE EventAt(u)'
  <2>1. pc[u] = "idle" /\ pc'[u] = "parse" /\ found' = found /\ ready' = ready
    BY <1>0, <1>3 DEF Begin, TypeOK
  <2>2. QED BY <1>0, <2>1
<1>4. ASSUME NEW parser \in found[u], Merge(u, parser) PROVE EventAt(u)'
  <2> DEFINE e == Completed(parser, tx[u], Here(u), vec[u])
             m == Marked(e, KnownOn(e.program))
  <2>1. /\ found[u] = {parser} /\ pc[u] = "merge"
        /\ DOMAIN e = Shape /\ Genuine(e)
        /\ ready' = [ready EXCEPT ![u] = m]
    BY <1>0, <1>4, MergedIs
  <2>2. SameOrigin(e, m) /\ SameSwap(e, m) /\ m.log = e.log
    BY <2>1, MarkedSame DEF SamePeople
  <2>3. Genuine(m)
    BY <2>1, <2>2, SameGenuine
  <2> HIDE DEF m, e
  <2>4. /\ tx' = tx /\ cursor' = cursor /\ vec' = vec /\ pc'[u] = "callback"
        /\ found'[u] = found[u] \ {parser} /\ ready'[u] = m
    BY <1>0, <1>4, <2>1 DEF Merge, TypeOK
  <2>5. Giving("event", Current(u), vec[u])' = Giving("event", Current(u), vec[u])
    BY <2>4 DEF Current, Here
  <2>6. Genuine(ready[u])'
    BY <2>3, <2>4 DEF Genuine
  <2>7. found'[u] = {}
    BY <2>1, <2>4
  <2>8. QED BY <1>0, <2>1, <2>4, <2>5, <2>6, <2>7
<1>5. CASE Parse(u)
  <2> DEFINE results == Giving("event", Current(u), Vector(u))
  <2>1. /\ tx' = tx /\ ready' = ready /\ pc[u] = "parse" /\ vec'[u] = Vector(u) /\ found'[u] = results
        /\ tx[u] # None /\ cursor[u] <= Len(Walk(tx[u]))
    BY <1>0, <1>5 DEF Parse, AtInstruction, TypeOK, WalkOK
  <2>2. CASE results = {}
    <3>1. pc'[u] = "parse"
      BY <1>0, <1>5, <2>1, <2>2 DEF Parse
    <3>2. QED BY <1>0, <2>1, <2>2, <3>1
  <2>3. CASE results # {}
    <3>1. pc'[u] = "merge" /\ cursor' = cursor
      BY <1>0, <1>5, <2>3 DEF Parse, TypeOK
    <3>2. Giving("event", Current(u), vec[u])' = results
      BY <2>1, <3>1 DEF Current, Here
    <3>3. Current(u) \in Instructions
      BY <1>0, <2>1, HereType
    <3>4. \A p, q \in results : p = q
      BY <3>3, OneGiven
    <3> HIDE DEF results
    <3>5. \E p \in results : results = {p}
      BY <2>3, <3>4
    <3>6. QED BY <1>0, <2>1, <2>3, <3>1, <3>2, <3>5
  <2>4. QED BY <2>2, <2>3
<1>6. CASE ParsePanics(u) \/ Finish(u)
  <2>1. /\ found' = found /\ ready' = ready /\ pc[u] = "parse" /\ pc'[u] \in {"panicked", "idle"}
    BY <1>0, <1>6 DEF ParsePanics, Finish, AtInstruction, TypeOK
  <2>2. QED BY <1>0, <2>1
<1>7. CASE Callback(u)
  <2>1. pc[u] = "callback" /\ found[u] = {}
    BY <1>0, <1>7 DEF Callback
  <2>2. pc'[u] = "parse" /\ found' = found /\ ready'[u] = NoEvent
    BY <1>0, <1>7, <2>1 DEF Callback, TypeOK
  <2>3. QED BY <2>1, <2>2
<1>8. QED
  BY <1>1, <1>2, <1>3, <1>4, <1>5, <1>6, <1>7, NextIsStep DEF StepOf

\* Most steps touch neither the developers nor an event.
Quiet ==
  /\ devs' = devs /\ ready' = ready /\ delivered' = delivered
  /\ \A u \in Tasks : pc'[u] = "callback" => pc[u] = "callback" /\ begun'[u] = begun[u]

\* Only a merge and a callback change what is known of events and developers.
LEMMA QuietSteps ==
  ASSUME IInv, [Next]_vars
  PROVE  \/ Quiet
         \/ \E t \in Tasks : \E parser \in found[t] : Merge(t, parser)
         \/ \E t \in Tasks : Callback(t)
<1>0. TypeOK
  BY DEF IInv
<1>1. ASSUME NEW t \in Tasks, NEW x \in queue, Begin(t, x) PROVE Quiet
  BY <1>0, <1>1 DEF Begin, TypeOK, Quiet
<1>2. ASSUME NEW t \in Tasks, Parse(t) PROVE Quiet
  <2>1. /\ devs' = devs /\ ready' = ready /\ delivered' = delivered /\ begun' = begun
        /\ (pc' = pc \/ pc' = [pc EXCEPT ![t] = "merge"])
    BY <1>2 DEF Parse
  <2>2. QED BY <1>0, <2>1 DEF TypeOK, Quiet
<1>3. ASSUME NEW t \in Tasks, ParsePanics(t) \/ Finish(t) PROVE Quiet
  BY <1>0, <1>3 DEF ParsePanics, Finish, TypeOK, Quiet
<1>4. CASE UNCHANGED vars
  BY <1>4 DEF vars, Quiet
<1>5. QED BY <1>1, <1>2, <1>3, <1>4 DEF Next

\* A callback only moves its event from the known ones to those handed over.
LEMMA CallbackMoves ==
  ASSUME IInv, NEW t \in Tasks, Callback(t)
  PROVE  LET e == [body |-> ready[t], task |-> t, begun |-> begun[t]] IN
         /\ pc[t] = "callback" /\ ready[t] \in Known
         /\ Len(delivered) \in Nat /\ DOMAIN delivered = 1 .. Len(delivered)
         /\ DOMAIN delivered' = 1 .. Len(delivered) + 1
         /\ delivered'[Len(delivered) + 1] = e
         /\ \A n \in 1 .. Len(delivered) : delivered'[n] = delivered[n]
         /\ Events' = Events \cup {ready[t]}
         /\ Known' = Known
         /\ devs' = devs /\ begun' = begun
         /\ \A u \in Tasks : u # t => pc'[u] = pc[u] /\ ready'[u] = ready[u]
         /\ pc'[t] # "callback"
<1> DEFINE e == [body |-> ready[t], task |-> t, begun |-> begun[t]]
<1>0. TypeOK /\ OneEventEach
  BY DEF IInv
<1>1. delivered' = Append(delivered, e) /\ pc[t] = "callback" /\ devs' = devs /\ begun' = begun
      /\ ready' = [ready EXCEPT ![t] = NoEvent]
  BY DEF Callback
<1>2. e.body = ready[t]
  OBVIOUS
<1>3. delivered \in Seq({delivered[n] : n \in DOMAIN delivered})
  BY <1>0 DEF TypeOK
<1> HIDE DEF e
<1>4. /\ Len(delivered) \in Nat /\ DOMAIN delivered = 1 .. Len(delivered)
      /\ DOMAIN delivered' = 1 .. Len(delivered) + 1
      /\ delivered'[Len(delivered) + 1] = e
      /\ \A n \in 1 .. Len(delivered) : delivered'[n] = delivered[n]
  BY <1>1, <1>3, OneMore
<1> DEFINE k == Len(delivered)
<1> HIDE DEF k
<1>5. Events' = Events \cup {ready[t]}
  <2>1. /\ k \in Nat /\ DOMAIN delivered = 1 .. k /\ DOMAIN delivered' = 1 .. k + 1
        /\ delivered'[k + 1].body = ready[t] /\ \A n \in 1 .. k : delivered'[n] = delivered[n]
    BY <1>2, <1>4 DEF k
  <2>2. Events' \subseteq Events \cup {ready[t]}
    <3> SUFFICES ASSUME NEW n \in 1 .. k + 1
                 PROVE  delivered'[n].body \in Events \cup {ready[t]}
      BY <2>1 DEF Events
    <3>1. n \in 1 .. k \/ n = k + 1
      BY <2>1
    <3>2. QED BY <2>1, <3>1 DEF Events
  <2>3. Events \subseteq Events'
    <3> SUFFICES ASSUME NEW n \in 1 .. k
                 PROVE  delivered[n].body \in Events'
      BY <2>1 DEF Events
    <3>1. n \in 1 .. k + 1 /\ delivered[n].body = delivered'[n].body
      BY <2>1
    <3>2. QED BY <2>1, <3>1 DEF Events
  <2>4. ready[t] \in Events'
    <3>1. k + 1 \in 1 .. k + 1
      BY <2>1
    <3>2. QED BY <2>1, <3>1 DEF Events
  <2>5. QED BY <2>2, <2>3, <2>4
<1>6. ready[t] # NoEvent
  <2>1. Genuine(ready[t])
    BY <1>0, <1>1 DEF OneEventEach
  <2>2. PICK p \in AllParsers : ready[t].kind = p.event
    BY <2>1, TableType DEF Genuine
  <2>3. p.event # "none"
    BY TableDescribed
  <2>4. QED BY <2>2, <2>3 DEF NoEvent
<1>7. \A u \in Tasks : ready'[u] = IF u = t THEN NoEvent ELSE ready[u]
  BY <1>0, <1>1 DEF TypeOK
<1>8. ready[t] \in Known
  BY <1>6 DEF Known
<1>9. Known' = Known
  BY <1>5, <1>6, <1>7 DEF Known
<1>10. /\ \A u \in Tasks : u # t => pc'[u] = pc[u] /\ ready'[u] = ready[u]
       /\ pc'[t] # "callback"
  BY <1>0, <1>7 DEF Callback, TypeOK
<1>11. QED BY <1>1, <1>4, <1>5, <1>8, <1>9, <1>10 DEF e

\* A merge makes one event known.
LEMMA MergeAdds ==
  ASSUME IInv, NEW t \in Tasks, NEW parser \in found[t], Merge(t, parser),
         NEW e, e = Completed(parser, tx[t], Here(t), vec[t]),
         NEW m, m = Marked(e, KnownOn(e.program))
  PROVE  /\ Genuine(m) /\ m.program = e.program
         /\ Announced(m) = Announced(e) /\ LookedUp(m) = LookedUp(e)
         /\ m.dev = (LookedUp(m) \cap KnownOn(m.program) # {})
         /\ delivered' = delivered /\ Events' = Events
         /\ Known' = Known \cup {m}
         /\ devs' = [p \in Platforms |-> IF p = m.program THEN devs[p] \cup Announced(m) ELSE devs[p]]
         /\ begun' = begun
         /\ ready'[t] = m
         /\ \A u \in Tasks : u # t => pc'[u] = pc[u] /\ ready'[u] = ready[u]
<1>0. TypeOK /\ WalkOK /\ VectorOK /\ OneEventEach
  BY DEF IInv
<1>1. /\ found[t] = {parser} /\ pc[t] = "merge" /\ ready[t] = NoEvent
      /\ DOMAIN e = Shape /\ Genuine(e) /\ Announced(e) \subseteq Keys
      /\ ready' = [ready EXCEPT ![t] = m]
      /\ devs' = [p \in Platforms |-> IF p = e.program THEN devs[p] \cup Announced(e) ELSE devs[p]]
  BY <1>0, MergedIs
<1>2. /\ SameOrigin(e, m) /\ SamePeople(e, m) /\ SameSwap(e, m)
      /\ m.dev = (LookedUp(e) \cap KnownOn(e.program) # {})
      /\ m # NoEvent
  BY <1>1, MarkedSame
<1>3. Genuine(m) /\ m.program = e.program /\ Announced(m) = Announced(e) /\ LookedUp(m) = LookedUp(e)
  BY <1>1, <1>2, SameGenuine, SameTold DEF SameOrigin, SamePeople
<1>4. delivered' = delivered /\ begun' = begun /\ pc' = [pc EXCEPT ![t] = "callback"]
  BY DEF Merge
<1>5. Events' = Events
  BY <1>4 DEF Events
<1>6. \A u \in Tasks : ready'[u] = IF u = t THEN m ELSE ready[u]
  BY <1>0, <1>1 DEF TypeOK
<1>7. Known' = Known \cup {m}
  BY <1>1, <1>2, <1>5, <1>6 DEF Known
<1>8. \A u \in Tasks : u # t => pc'[u] = pc[u] /\ ready'[u] = ready[u]
  BY <1>0, <1>4, <1>6 DEF TypeOK
<1>9. QED BY <1>1, <1>2, <1>3, <1>4, <1>5, <1>6, <1>7, <1>8

\* A trade of someone a launch announced is marked, if the launch is known.
LEMMA ToldIsMarked ==
  ASSUME DevsOK, NEW launch \in Known, NEW trade, Tells(launch, trade),
         trade.dev = (LookedUp(trade) \cap KnownOn(trade.program) # {})
  PROVE  trade.dev
<1>1. Genuine(launch) /\ Announced(launch) # {} /\ launch.program = trade.program
      /\ Announced(launch) \cap LookedUp(trade) # {}
  BY DEF DevsOK, Tells
<1>2. trade.program \in Platforms
  BY <1>1, AnnouncedOnPlatform
<1>3. Announced(launch) \subseteq KnownOn(trade.program)
  BY <1>1, <1>2 DEF DevsOK, KnownOn
<1>4. QED BY <1>1, <1>3

LEMMA DevsOKNext == IInv /\ [Next]_vars => DevsOK'
<1> SUFFICES ASSUME IInv, [Next]_vars PROVE DevsOK'
  OBVIOUS
<1>0. TypeOK /\ DevsOK
  BY DEF IInv
<1>1. CASE Quiet
  <2>1. Events' = Events /\ Known' = Known
    BY <1>1 DEF Quiet, Events, Known
  <2>2. QED BY <1>0, <1>1, <2>1 DEF Quiet, DevsOK, Tells
<1>2. ASSUME NEW t \in Tasks, NEW parser \in found[t], Merge(t, parser) PROVE DevsOK'
  <2> DEFINE e == Completed(parser, tx[t], Here(t), vec[t])
             m == Marked(e, KnownOn(e.program))
  <2>1. /\ Genuine(m)
        /\ m.dev = (LookedUp(m) \cap KnownOn(m.program) # {})
        /\ delivered' = delivered /\ Events' = Events /\ Known' = Known \cup {m}
        /\ devs' = [p \in Platforms |-> IF p = m.program THEN devs[p] \cup Announced(m) ELSE devs[p]]
        /\ begun' = begun /\ ready'[t] = m
        /\ \A u \in Tasks : u # t => pc'[u] = pc[u] /\ ready'[u] = ready[u]
    BY <1>2, MergeAdds
  <2> HIDE DEF e, m
  <2>2. ASSUME NEW f \in Known'
        PROVE  Genuine(f) /\ (f.program \in Platforms => Announced(f) \subseteq devs'[f.program])
    BY <1>0, <2>1 DEF DevsOK
  <2>3. ASSUME NEW p \in Platforms, NEW d \in devs'[p]
        PROVE  \E f \in Known' : f.program = p /\ d \in Announced(f)
    BY <1>0, <2>1 DEF DevsOK
  <2>4. ASSUME NEW u \in Tasks, pc'[u] = "callback", u # t
        PROVE  /\ (\E n \in DOMAIN delivered' :
                      /\ Tells(delivered'[n].body, ready'[u])
                      /\ n <= begun'[u] \/ delivered'[n].task = u) => ready'[u].dev
               /\ ready'[u].dev => \E f \in Known' : Tells(f, ready'[u])
    BY <1>0, <2>1, <2>4 DEF DevsOK
  <2>5. (\E n \in DOMAIN delivered' : Tells(delivered'[n].body, m)) => m.dev
    <3> SUFFICES ASSUME NEW n \in DOMAIN delivered, Tells(delivered[n].body, m) PROVE m.dev
      BY <2>1
    <3>1. delivered[n].body \in Known
      BY DEF Known, Events
    <3>2. QED BY <1>0, <2>1, <3>1, ToldIsMarked
  <2>6. m.dev => \E f \in Known' : Tells(f, m)
    <3> SUFFICES ASSUME m.dev PROVE \E f \in Known' : Tells(f, m)
      OBVIOUS
    <3>1. LookedUp(m) \cap KnownOn(m.program) # {}
      BY <2>1
    <3>2. PICK d \in LookedUp(m) : m.program \in Platforms /\ d \in devs[m.program]
      BY <3>1 DEF KnownOn
    <3>3. PICK f \in Known : f.program = m.program /\ d \in Announced(f)
      BY <1>0, <3>2 DEF DevsOK
    <3>4. QED BY <2>1, <3>2, <3>3 DEF Tells
  <2>7. \A f \in Known' : (Genuine(f) /\ (f.program \in Platforms => Announced(f) \subseteq devs[f.program]))'
    BY <2>2 DEF Genuine, Announced
  <2>8. QED
    BY <2>1, <2>2, <2>3, <2>4, <2>5, <2>6 DEF DevsOK
<1>3. ASSUME NEW t \in Tasks, Callback(t) PROVE DevsOK'
  <2> DEFINE k == Len(delivered)
             e == [body |-> ready[t], task |-> t, begun |-> begun[t]]
  <2>0. e.task = t
    OBVIOUS
  <2> HIDE DEF k, e
  <2>1. /\ k \in Nat /\ DOMAIN delivered = 1 .. k /\ DOMAIN delivered' = 1 .. k + 1
        /\ delivered'[k + 1] = e
        /\ \A n \in 1 .. k : delivered'[n] = delivered[n]
        /\ Known' = Known /\ devs' = devs /\ begun' = begun
        /\ \A u \in Tasks : u # t => pc'[u] = pc[u] /\ ready'[u] = ready[u]
        /\ pc'[t] # "callback"
    BY <1>3, CallbackMoves DEF k, e
  <2>2. ASSUME NEW u \in Tasks, pc'[u] = "callback"
        PROVE  /\ (\E n \in DOMAIN delivered' :
                      /\ Tells(delivered'[n].body, ready'[u])
                      /\ n <= begun'[u] \/ delivered'[n].task = u) => ready'[u].dev
               /\ ready'[u].dev => \E f \in Known' : Tells(f, ready'[u])
    <3>1. u # t /\ pc[u] = "callback" /\ ready'[u] = ready[u] /\ begun'[u] = begun[u]
      BY <2>1, <2>2
    <3>2. begun[u] \in Nat /\ begun[u] <= k
      BY <1>0 DEF TypeOK, k
    <3>3. ASSUME NEW n \in 1 .. k + 1, n <= begun[u] \/ delivered'[n].task = u
          PROVE  n \in 1 .. k /\ delivered'[n] = delivered[n]
      <4>1. n # k + 1
        BY <2>0, <2>1, <3>1, <3>2, <3>3
      <4>2. QED BY <2>1, <4>1
    <3>4. ASSUME NEW n \in DOMAIN delivered', Tells(delivered'[n].body, ready[u]),
                 n <= begun[u] \/ delivered'[n].task = u
          PROVE  ready[u].dev
      <4>1. n \in DOMAIN delivered /\ delivered'[n] = delivered[n]
        BY <2>1, <3>3, <3>4
      <4>2. QED BY <1>0, <3>1, <3>4, <4>1 DEF DevsOK
    <3>5. ready[u].dev => \E f \in Known : Tells(f, ready[u])
      BY <1>0, <3>1 DEF DevsOK
    <3>6. QED BY <2>1, <3>1, <3>4, <3>5
  <2>3. QED BY <1>0, <2>1, <2>2 DEF DevsOK
<1>4. QED BY <1>1, <1>2, <1>3, QuietSteps

\* DevMarksExact of one event handed over.
MarkAt(n) ==
    LET trade == delivered[n] IN
    /\ (\E m \in 1 .. n - 1 : /\ Tells(delivered[m].body, trade.body)
                              /\ m <= trade.begun \/ delivered[m].task = trade.task)
         => trade.body.dev
    /\ trade.body.dev => \E e \in Known : Tells(e, trade.body)

LEMMA DevMarksNext == IInv /\ [Next]_vars => DevMarksExact'
<1> SUFFICES ASSUME IInv, [Next]_vars, NEW n \in DOMAIN delivered' PROVE MarkAt(n)'
  BY DEF DevMarksExact, MarkAt, Known
<1>0. TypeOK /\ DevsOK /\ OneEventEach /\ \A i \in DOMAIN delivered : MarkAt(i)
  BY DEF IInv, DevMarksExact, MarkAt, Known
<1>1. CASE Quiet
  <2>1. Known' = Known
    BY <1>1 DEF Quiet, Events, Known
  <2>2. QED BY <1>0, <1>1, <2>1 DEF Quiet, MarkAt
<1>2. ASSUME NEW t \in Tasks, NEW parser \in found[t], Merge(t, parser) PROVE MarkAt(n)'
  <2>1. delivered' = delivered /\ Known \subseteq Known'
    BY <1>2, MergeAdds
  <2>2. QED BY <1>0, <2>1 DEF MarkAt
<1>3. ASSUME NEW t \in Tasks, Callback(t) PROVE MarkAt(n)'
  <2> DEFINE k == Len(delivered)
             e == [body |-> ready[t], task |-> t, begun |-> begun[t]]
  <2>0. e.body = ready[t] /\ e.task = t /\ e.begun = begun[t]
    OBVIOUS
  <2> HIDE DEF k, e
  <2>1. /\ k \in Nat /\ DOMAIN delivered = 1 .. k /\ DOMAIN delivered' = 1 .. k + 1
        /\ delivered'[k + 1] = e /\ pc[t] = "callback"
        /\ \A i \in 1 .. k : delivered'[i] = delivered[i]
        /\ Known' = Known
    BY <1>3, CallbackMoves DEF k, e
  <2>2. CASE n \in 1 .. k
    <3>1. delivered'[n] = delivered[n] /\ \A i \in 1 .. n - 1 : delivered'[i] = delivered[i]
      BY <2>1, <2>2
    <3>2. MarkAt(n)
      BY <1>0, <2>1, <2>2
    <3>3. QED BY <2>1, <3>1, <3>2 DEF MarkAt
  <2>3. CASE n = k + 1
    <3>1. delivered'[n] = e
      BY <2>1, <2>3
    <3>2. /\ (\E m \in DOMAIN delivered :
                   /\ Tells(delivered[m].body, ready[t])
                   /\ m <= begun[t] \/ delivered[m].task = t) => ready[t].dev
          /\ ready[t].dev => \E f \in Known : Tells(f, ready[t])
      BY <1>0, <2>1 DEF DevsOK
    <3>3. \A i \in 1 .. n - 1 : i \in DOMAIN delivered /\ delivered'[i] = delivered[i]
      BY <2>1, <2>3
    <3>4. QED BY <2>0, <2>1, <3>1, <3>2, <3>3 DEF MarkAt
  <2>4. QED BY <2>1, <2>2, <2>3
<1>4. QED BY <1>1, <1>2, <1>3, QuietSteps

\* What there is to be found in a transaction.
Found(x) == {at \in Resolvables(x) : Accepts(x, InstructionAt(x, at))}

\* SentOK of one task.
SentAt(t) ==
  tx[t] # None =>
    Kept(sent[t], Resolvables(tx[t])) = Kept(SubSeq(Walk(tx[t]), 1, cursor[t] - 1), Found(tx[t]))

\* An instruction is of those to be found exactly if the task finds an event in it.
LEMMA HereFound ==
  ASSUME TypeOK, NEW t \in Tasks, tx[t] # None, cursor[t] <= Len(Walk(tx[t])),
         NEW v, Fits(v, tx[t])
  PROVE  /\ Giving("event", Current(t), v) = {} => Here(t) \notin Found(tx[t])
         /\ Giving("event", Current(t), v) # {} =>
              (Here(t) \in Resolvables(tx[t]) <=> Here(t) \in Found(tx[t]))
<1>1. tx[t] \in Transactions /\ Current(t) \in Instructions
  BY TxType, HereType
<1>2. Here(t) \in Resolvables(tx[t]) =>
        \A i \in DOMAIN Current(t).accounts : Current(t).accounts[i] < Len(Resolved(tx[t]))
  BY DEF Resolvables, Resolvable, Current
<1>3. Here(t) \in Resolvables(tx[t]) => (Accepts(tx[t], Current(t)) <=> Giving("event", Current(t), v) # {})
  BY <1>1, <1>2, GivenAsAccepted
<1>4. Here(t) \in Found(tx[t]) <=> Here(t) \in Resolvables(tx[t]) /\ Accepts(tx[t], Current(t))
  BY DEF Found, Current
<1>5. QED BY <1>3, <1>4

\* One instruction further on.
LEMMA WalkedOn ==
  ASSUME TypeOK, NEW t \in Tasks, tx[t] # None, cursor[t] <= Len(Walk(tx[t]))
  PROVE  LET so == Kept(SubSeq(Walk(tx[t]), 1, cursor[t] - 1), Found(tx[t]))
         IN  Kept(SubSeq(Walk(tx[t]), 1, (cursor[t] + 1) - 1), Found(tx[t]))
               = IF Here(t) \in Found(tx[t]) THEN Append(so, Here(t)) ELSE so
<1> DEFINE w == Walk(tx[t])
           c == cursor[t]
<1>1. w \in Seq(Position)
  BY TxType, WalkType
<1>2. c \in Nat \ {0} /\ c <= Len(w)
  BY DEF TypeOK
<1>3. Here(t) = w[c]
  BY DEF Here
<1> HIDE DEF w, c
<1>4. c \in 1 .. Len(w) /\ (c + 1) - 1 = c
  BY <1>1, <1>2
<1>5. Kept(SubSeq(w, 1, c), Found(tx[t]))
        = IF w[c] \in Found(tx[t]) THEN Append(Kept(SubSeq(w, 1, c - 1), Found(tx[t])), w[c])
                                   ELSE Kept(SubSeq(w, 1, c - 1), Found(tx[t]))
  BY <1>1, <1>4, KeptNext
<1>6. QED BY <1>3, <1>4, <1>5 DEF w, c

\* One event more sent.
LEMMA SentOneMore ==
  ASSUME TypeOK, NEW t \in Tasks, Here(t) \in Position, NEW R
  PROVE  Kept(Append(sent[t], Here(t)), R)
           = IF Here(t) \in R THEN Append(Kept(sent[t], R), Here(t)) ELSE Kept(sent[t], R)
<1> DEFINE s == sent[t]
           h == Here(t)
<1>1. s \in Seq(Position) /\ h \in Position
  BY DEF TypeOK
<1> HIDE DEF s, h
<1>2. Kept(Append(s, h), R) = IF h \in R THEN Append(Kept(s, R), h) ELSE Kept(s, R)
  BY <1>1, KeptAppend
<1>3. QED BY <1>2 DEF s, h

LEMMA SentOKNext == IInv /\ [Next]_vars => SentOK'
<1> SUFFICES ASSUME IInv, [Next]_vars, NEW u \in Tasks PROVE SentAt(u)'
  BY DEF SentOK, SentAt, Found
<1>0. TypeOK /\ WalkOK /\ VectorOK /\ OneEventEach /\ SentAt(u)
  BY DEF IInv, SentOK, SentAt, Found
<1>1. CASE UNCHANGED vars
  BY <1>0, <1>1 DEF vars, SentAt
<1>2. ASSUME NEW t \in Tasks, StepOf(t), u # t PROVE SentAt(u)'
  BY <1>0, <1>2, OthersStay DEF SameTask, SentAt
<1>3. ASSUME NEW x \in queue, Begin(u, x) PROVE SentAt(u)'
  <2>1. tx'[u] = x /\ cursor'[u] = 1 /\ sent'[u] = <<>> /\ x \in Transactions
    BY <1>0, <1>3, TxsAssumption DEF Begin, TypeOK
  <2>2. SubSeq(Walk(x), 1, 1 - 1) = <<>>
    <3>1. Walk(x) \in Seq(Position)
      BY <2>1, WalkType
    <3>2. QED BY <3>1
  <2>3. Kept(<<>>, Resolvables(x)) = <<>> /\ Kept(<<>>, Found(x)) = <<>>
    BY KeptEmpty
  <2>4. QED BY <2>1, <2>2, <2>3 DEF SentAt
<1>4. ASSUME NEW parser \in found[u], Merge(u, parser) PROVE SentAt(u)'
  BY <1>0, <1>4 DEF Merge, SentAt
<1>5. CASE Parse(u)
  <2> DEFINE results == Giving("event", Current(u), Vector(u))
  <2>1. tx' = tx /\ sent' = sent /\ tx[u] # None /\ cursor[u] <= Len(Walk(tx[u]))
    BY <1>0, <1>5 DEF Parse, AtInstruction, WalkOK
  <2>2. CASE results # {}
    <3>1. cursor' = cursor
      BY <1>5, <2>2 DEF Parse
    <3>2. QED BY <1>0, <2>1, <3>1 DEF SentAt
  <2>3. CASE results = {}
    <3>1. cursor'[u] = cursor[u] + 1
      BY <1>0, <1>5, <2>3 DEF Parse, TypeOK
    <3>2. Here(u) \notin Found(tx[u])
      BY <1>0, <2>1, <2>3, VectorFits, HereFound
    <3>3. Kept(SubSeq(Walk(tx[u]), 1, (cursor[u] + 1) - 1), Found(tx[u]))
            = Kept(SubSeq(Walk(tx[u]), 1, cursor[u] - 1), Found(tx[u]))
      BY <1>0, <2>1, <3>2, WalkedOn
    <3>4. QED BY <1>0, <2>1, <3>1, <3>3 DEF SentAt
  <2>4. QED BY <2>2, <2>3
<1>6. CASE ParsePanics(u) \/ Finish(u)
  BY <1>0, <1>6 DEF ParsePanics, Finish, SentAt
<1>7. CASE Callback(u)
  <2>1. /\ tx' = tx /\ pc[u] = "callback" /\ found[u] = {}
        /\ sent'[u] = Append(sent[u], Here(u)) /\ sent[u] \in Seq(Position)
    BY <1>0, <1>7 DEF Callback, TypeOK, OneEventEach
  <2>2. cursor'[u] = cursor[u] + 1 /\ tx[u] # None /\ cursor[u] <= Len(Walk(tx[u]))
    BY <1>0, <1>7, <2>1 DEF Callback, TypeOK, WalkOK
  <2>3. Giving("event", Current(u), vec[u]) # {}
    BY <1>0, <2>1 DEF OneEventEach
  <2>4. Here(u) \in Resolvables(tx[u]) <=> Here(u) \in Found(tx[u])
    BY <1>0, <2>2, <2>3, VecFits, HereFound
  <2>5. Here(u) \in Position
    BY <1>0, <2>2, HereType
  <2>6. Kept(Append(sent[u], Here(u)), Resolvables(tx[u]))
          = IF Here(u) \in Resolvables(tx[u]) THEN Append(Kept(sent[u], Resolvables(tx[u])), Here(u))
                                              ELSE Kept(sent[u], Resolvables(tx[u]))
    BY <1>0, <2>5, SentOneMore
  <2> DEFINE so == Kept(SubSeq(Walk(tx[u]), 1, cursor[u] - 1), Found(tx[u]))
  <2>7. Kept(SubSeq(Walk(tx[u]), 1, (cursor[u] + 1) - 1), Found(tx[u]))
          = IF Here(u) \in Found(tx[u]) THEN Append(so, Here(u)) ELSE so
    BY <1>0, <2>2, WalkedOn
  <2>8. Kept(sent[u], Resolvables(tx[u])) = so
    BY <1>0, <2>2 DEF SentAt
  <2> HIDE DEF so
  <2>9. Kept(Append(sent[u], Here(u)), Resolvables(tx[u]))
          = Kept(SubSeq(Walk(tx[u]), 1, (cursor[u] + 1) - 1), Found(tx[u]))
    BY <2>4, <2>6, <2>7, <2>8
  <2>10. QED BY <2>1, <2>2, <2>9 DEF SentAt
<1>8. QED
  BY <1>1, <1>2, <1>3, <1>4, <1>5, <1>6, <1>7, NextIsStep DEF StepOf

(***************************************************************************)
(* Theorems.                                                               *)
(***************************************************************************)

\* The invariant is inductive.
LEMMA NextIInv == IInv /\ [Next]_vars => IInv'
  BY TypeOKNext, WalkOKNext, VectorOKNext, OneEventNext, DevsOKNext, DevMarksNext,
     SentOKNext, PanicNext DEF IInv

\* Whatever transactions the tasks parse, and however they take turns: the types of
\* the variables, and with them what a task is at, the vector it resolves accounts
\* with, the single parser and event of an instruction, and whom the developer
\* table has.
THEOREM Invariance == Spec => []IInv
  BY InitIInv, NextIInv, PTL DEF Spec

\* Every reachable state is well typed.
THEOREM TypeCorrect == Spec => []TypeOK
<1>1. IInv => TypeOK
  BY DEF IInv
<1>2. QED BY <1>1, Invariance, PTL

\* A task panics only where one of the nine parsers reads more than its guard asks
\* for: the unchecked program index of an inner instruction is always in range, and
\* every other parser's guard covers its reads.
THEOREM PanicOnlyThere == Spec => []PanicOnlyUnderGuarded
<1>1. IInv => PanicOnlyUnderGuarded
  BY DEF IInv
<1>2. QED BY <1>1, Invariance, PTL

\* A trade is marked as a developer's if a launch announced him before its
\* transaction was begun or in it, and only if one did, whichever tasks parse
\* meanwhile.
THEOREM DevMarksAreExact == Spec => []DevMarksExact
<1>1. IInv => DevMarksExact
  BY DEF IInv
<1>2. QED BY <1>1, Invariance, PTL

\* The keys of an event are those its instruction names, in their places.
THEOREM KeysOfEvents == Spec => []KeysAreNamed
<1>1. IInv => KeysAreNamed
  <2> SUFFICES ASSUME IInv, NEW e \in Events PROVE /\ Genuine(e)
                                                  /\ Len(KeysOf(e.tx, e.at)) = Len(InstructionAt(e.tx, e.at).accounts)
    BY DEF KeysAreNamed, Genuine, KeysOf
  <2>1. Genuine(e)
    BY DEF IInv, DevsOK, Known
  <2>2. InstructionAt(e.tx, e.at).accounts \in Seq(Indices)
    BY <2>1, TxsAssumption, PositionsType, InstructionType DEF Genuine, Instructions
  <2>3. QED BY <2>1, <2>2 DEF KeysOf
<1>2. QED BY <1>1, Invariance, PTL

\* The outer instructions are left out of the walk only if none of them is of a
\* program that is handled.
LEMMA WantedIsWalked ==
  ASSUME NEW x \in Transactions
  PROVE  Wanted(x) = Kept(Walk(x), Found(x))
<1> DEFINE inner == IF x.full THEN InnerWalk(x) ELSE <<>>
           outer == OuterWalk(x)
<1>1. Wanted(x) = Kept(outer \o inner, Found(x))
  BY DEF Wanted, Found, AllPositions
<1>2. outer \in Seq(Outers(x)) /\ outer \in Seq(Position)
  BY OuterWalkType
<1>3. inner \in Seq(Position)
  BY InnerWalkType
<1>4. Walk(x) = (IF HasProgram(x) THEN outer ELSE <<>>) \o inner
  BY DEF Walk
<1> HIDE DEF inner, outer
<1>5. CASE HasProgram(x)
  BY <1>1, <1>4, <1>5
<1>6. CASE ~HasProgram(x)
  <2>1. Walk(x) = inner
    BY <1>3, <1>4, <1>6
  <2>2. ASSUME NEW i \in 1 .. Len(outer) PROVE outer[i] \notin Found(x)
    <3> DEFINE instr == InstructionAt(x, outer[i])
    <3>1. outer[i] \in Outers(x)
      BY <1>2
    <3>2. instr \in Instructions
      BY <3>1, InstructionType
    <3> HIDE DEF instr
    <3>3. instr.prog \in Nat
      BY <3>2, RangeAssumption DEF Instructions, Indices
    <3>4. ~Accepts(x, instr)
      <4> SUFFICES ASSUME Accepts(x, instr) PROVE HasProgram(x)
        BY <1>6
      <4>1. instr.prog < Len(Resolved(x)) /\ ProgramOf[Resolved(x)[instr.prog + 1]] \in Programs
        BY DEF Accepts, IsFor, Table
      <4>2. Resolved(x) \in Seq(Keys)
        BY TransactionType
      <4>3. instr.prog + 1 \in DOMAIN Resolved(x) /\ (instr.prog + 1) - 1 = instr.prog
        BY <3>3, <4>1, <4>2
      <4>4. Handles(Resolved(x), (instr.prog + 1) - 1)
        BY <4>1, <4>3 DEF Handles
      <4>5. QED BY <4>3, <4>4 DEF HasProgram
    <3>5. QED BY <3>4 DEF Found, instr
  <2>3. QED BY <1>1, <1>2, <1>3, <2>1, <2>2, KeptSkips
<1>7. QED BY <1>5, <1>6

\* One event for every instruction whose accounts are there and that a parser
\* accepts, in order: all of them once a transaction is parsed to its end, the first
\* of them at any time before, in particular where a panic ended it.
THEOREM NothingIsMissed == Spec => []NothingMissed
<1>1. IInv => NothingMissed
  <2> SUFFICES ASSUME IInv, NEW t \in Tasks, tx[t] # None
               PROVE  LET got == Kept(sent[t], Resolvables(tx[t])) IN
                      /\ IsPrefix(got, Wanted(tx[t]))
                      /\ pc[t] = "idle" => got = Wanted(tx[t])
    BY DEF NothingMissed
  <2> DEFINE got == Kept(sent[t], Resolvables(tx[t]))
             w == Walk(tx[t])
             F == Found(tx[t])
             n == cursor[t] - 1
  <2>0. TypeOK /\ WalkOK /\ SentAt(t) /\ tx[t] \in Transactions
    BY TxType DEF IInv, SentOK, SentAt, Found
  <2>1. got = Kept(SubSeq(w, 1, n), F)
    BY <2>0 DEF SentAt
  <2>2. Wanted(tx[t]) = Kept(w, F)
    BY <2>0, WantedIsWalked
  <2>3. w \in Seq(Position)
    BY <2>0, WalkType
  <2>4. cursor[t] \in Nat \ {0} /\ cursor[t] <= Len(w) + 1 /\ (pc[t] = "idle" => cursor[t] = Len(w) + 1)
    BY <2>0 DEF TypeOK, WalkOK
  <2> HIDE DEF w, F, got
  <2>5. n \in 0 .. Len(w) /\ (pc[t] = "idle" => n = Len(w))
    BY <2>3, <2>4
  <2> HIDE DEF n
  <2>6. IsPrefix(Kept(SubSeq(w, 1, n), F), Kept(w, F))
    BY <2>3, <2>5, KeptPrefix
  <2>7. SubSeq(w, 1, Len(w)) = w
    BY <2>3
  <2>8. QED BY <2>1, <2>2, <2>5, <2>6, <2>7 DEF got
<1>2. QED BY <1>1, Invariance, PTL

(***************************************************************************)
(* Logs.                                                                   *)
(***************************************************************************)

\* The inner instructions a parser is given are one group, or none, and it is the
\* only one with the index of the outer instruction.
LEMMA GroupIsOnly ==
  ASSUME NEW e, e.tx \in Transactions, Wellformed(e.tx), e.tx.full,
         e.at \in Outers(e.tx) \cup Inners(e.tx)
  PROVE  LET same == {h \in DOMAIN e.tx.groups : e.tx.groups[h].index = OuterIndex(e)} IN
         \/ same = {} /\ GroupAt(e.tx, e.at) = <<>>
         \/ \E g \in DOMAIN e.tx.groups :
              same = {g} /\ GroupAt(e.tx, e.at) = e.tx.groups[g].instructions
<1> DEFINE x == e.tx
           at == e.at
           same == {h \in DOMAIN x.groups : x.groups[h].index = OuterIndex(e)}
           given == {g \in DOMAIN x.groups : x.groups[g].index = (at.nth - 1) % IndexRange}
<1>1. x.outer \in Seq(Instructions) /\ x.groups \in Seq(Groups)
  BY TransactionType
<1>2. \A g, h \in DOMAIN x.groups : x.groups[g].index = x.groups[h].index => g = h
  BY DEF Wellformed
<1>3. CASE at.inner # 0
  <2>1. at.nth \in DOMAIN x.groups
    BY <1>3 DEF Outers, Inners
  <2>2. OuterIndex(e) = x.groups[at.nth].index /\ GroupAt(x, at) = x.groups[at.nth].instructions
    BY <1>3 DEF OuterIndex, GroupAt
  <2>3. same = {at.nth}
    BY <1>2, <2>1, <2>2
  <2>4. QED BY <2>1, <2>2, <2>3
<1>4. CASE at.inner = 0
  <2>1. at.nth \in DOMAIN x.outer
    BY <1>4 DEF Outers, Inners
  <2>2. GroupAt(x, at) = IF given = {} THEN <<>> ELSE x.groups[First(given)].instructions
    BY <1>4 DEF GroupAt
  <2>3. OuterIndex(e) = at.nth - 1
    BY <1>4 DEF OuterIndex
  <2>4. CASE x.groups = <<>>
    BY <2>2, <2>4
  <2>5. CASE x.groups # <<>>
    <3> DEFINE n == Len(x.outer)
    <3>1. n <= IndexRange
      BY <2>5 DEF Wellformed
    <3>2. n \in Nat /\ at.nth \in 1 .. n
      BY <1>1, <2>1
    <3> HIDE DEF n
    <3>3. at.nth - 1 \in Nat /\ at.nth - 1 < IndexRange
      BY <3>1, <3>2, RangeAssumption
    <3>4. (at.nth - 1) % IndexRange = at.nth - 1
      BY <3>3, ModSmall, RangeAssumption
    <3>5. given = same
      BY <2>3, <3>4
    <3>6. given \in SUBSET Nat
      BY <1>1
    <3>7. given # {} => First(given) \in given
      BY <3>6, FirstIn
    <3>8. given # {} => First(given) \in DOMAIN x.groups /\ same = {First(given)}
      BY <1>2, <3>5, <3>7
    <3>9. QED BY <2>2, <3>5, <3>8
  <2>6. QED BY <2>4, <2>5
<1>5. at.inner \in Nat
  BY DEF Outers, Inners, Position
<1>6. QED BY <1>3, <1>4

\* So the logs an event may be completed with are those of its group.
LEMMA LogsAreOfGroup ==
  ASSUME NEW e, Genuine(e), NEW p \in Table, e.kind = p.event
  PROVE  LET group == GroupAt(e.tx, e.at)
             fits == {j \in DOMAIN group : LogDecodes(p, group[j])}
         IN /\ group \in Seq(Instructions)
            /\ \/ fits = {} /\ LogsFor(e) = {}
               \/ \E g \in DOMAIN e.tx.groups :
                    /\ group = e.tx.groups[g].instructions
                    /\ LogsFor(e) = {<<g, j>> : j \in fits}
<1> DEFINE x == e.tx
           group == GroupAt(x, e.at)
           fits == {j \in DOMAIN group : LogDecodes(p, group[j])}
           same == {h \in DOMAIN x.groups : x.groups[h].index = OuterIndex(e)}
           of(g) == {<<g, j>> : j \in {k \in DOMAIN x.groups[g].instructions :
                                         LogDecodes(p, x.groups[g].instructions[k])}}
<1>1. x \in Transactions /\ Wellformed(x) /\ e.at \in Outers(x) \cup Inners(x)
  BY TxsAssumption, PositionsType DEF Genuine
<1>2. group \in Seq(Instructions)
  BY <1>1, GroupType
<1>3. (CHOOSE q \in Table : q.event = e.kind) = p
  <2>1. \A q \in Table : q.event = e.kind => q = p
    BY TableType, EventsTell
  <2>2. QED BY <2>1
<1>4. LogsFor(e) = UNION {of(g) : g \in {h \in DOMAIN x.groups : x.full /\ x.groups[h].index = OuterIndex(e)}}
  <2> DEFINE parser == CHOOSE q \in Table : q.event = e.kind
         logs(q) ==
           UNION {{<<g, j>> : j \in {k \in DOMAIN e.tx.groups[g].instructions :
                                      LogDecodes(q, e.tx.groups[g].instructions[k])}} :
                  g \in {h \in DOMAIN e.tx.groups : e.tx.full /\ e.tx.groups[h].index = OuterIndex(e)}}
  <2>1. LogsFor(e) = logs(parser)
    BY Zenon DEF LogsFor
  <2>2. parser = p
    BY <1>3
  <2> HIDE DEF parser, logs
  <2>3. LogsFor(e) = logs(p)
    BY <2>1, <2>2
  <2>4. QED BY <2>3 DEF logs
<1>5. CASE ~x.full
  <2>1. group = <<>>
    BY <1>5 DEF GroupAt
  <2>2. fits = {}
    BY <2>1
  <2>3. LogsFor(e) = {}
    BY <1>4, <1>5
  <2>4. QED BY <1>2, <2>2, <2>3
<1>6. CASE x.full
  <2>1. LogsFor(e) = UNION {of(g) : g \in same}
    BY <1>4, <1>6
  <2>2. \/ same = {} /\ group = <<>>
        \/ \E g \in DOMAIN x.groups : same = {g} /\ group = x.groups[g].instructions
    BY <1>1, <1>6, GroupIsOnly
  <2>3. CASE same = {} /\ group = <<>>
    BY <1>2, <2>1, <2>3
  <2>4. ASSUME NEW g \in DOMAIN x.groups, same = {g}, group = x.groups[g].instructions
        PROVE  LogsFor(e) = {<<g, j>> : j \in fits}
    <3>1. of(g) = {<<g, j>> : j \in fits}
      BY <2>4
    <3> HIDE DEF of, same
    <3>2. LogsFor(e) = of(g)
      BY <2>1, <2>4
    <3>3. QED BY <3>1, <3>2
  <2>5. QED BY <1>2, <2>2, <2>3, <2>4
<1>7. QED BY <1>5, <1>6

\* One log of its kind, and it is the instruction's own.
LEMMA AloneIsOwn ==
  ASSUME LogsAreLeft, NEW e, Genuine(e)
  PROVE  /\ Cardinality(LogsFor(e)) = 1 =>
              \E log \in LogsFor(e) : e.log = log[2] /\ EmitterOf(e, log) = e.at.inner
         /\ LogsFor(e) = {} => e.log = 0
<1>1. PICK p \in Table : /\ e.kind = p.event /\ e.program = p.program
                         /\ IsFor(e.tx, InstructionAt(e.tx, e.at), p)
                         /\ e.log = LogFor(p, GroupAt(e.tx, e.at))
  BY DEF Genuine
<1> DEFINE group == GroupAt(e.tx, e.at)
           fits == {j \in DOMAIN group : LogDecodes(p, group[j])}
<1>2. group \in Seq(Instructions)
  BY <1>1, LogsAreOfGroup
<1>3. \/ fits = {} /\ LogsFor(e) = {}
      \/ \E g \in DOMAIN e.tx.groups : group = e.tx.groups[g].instructions
                                       /\ LogsFor(e) = {<<g, j>> : j \in fits}
  BY <1>1, LogsAreOfGroup
<1>4. e.log = IF fits = {} THEN 0 ELSE First(fits)
  BY <1>1 DEF LogFor
<1>5. fits # {} => \E j \in fits : group[j].of = e.at.inner
  BY <1>1 DEF LogsAreLeft, Genuine
<1>6. fits \in SUBSET Nat /\ IsFiniteSet(fits)
  <2>1. DOMAIN group = 1 .. Len(group) /\ Len(group) \in Nat
    BY <1>2
  <2>2. IsFiniteSet(1 .. Len(group))
    BY <2>1, FS_Interval
  <2>3. fits \subseteq 1 .. Len(group)
    BY <2>1
  <2>4. QED BY <2>2, <2>3, FS_Subset
<1>7. fits # {} => First(fits) \in fits
  BY <1>6, FirstIn
<1> HIDE DEF fits, group
<1>8. LogsFor(e) = {} => e.log = 0
  BY <1>3, <1>4
<1>9. ASSUME Cardinality(LogsFor(e)) = 1
      PROVE  \E log \in LogsFor(e) : e.log = log[2] /\ EmitterOf(e, log) = e.at.inner
  <2>1. Cardinality({}) = 0
    BY FS_EmptySet
  <2>2. PICK g \in DOMAIN e.tx.groups : group = e.tx.groups[g].instructions
                                        /\ LogsFor(e) = {<<g, j>> : j \in fits}
    BY <1>3, <1>9, <2>1
  <2> DEFINE logs == {<<g, j>> : j \in fits}
  <2>3. IsFiniteSet(logs)
    <3>1. IsFiniteSet({g} \X fits)
      BY <1>6, FS_Singleton, FS_Product
    <3>2. logs \subseteq {g} \X fits
      OBVIOUS
    <3>3. QED BY <3>1, <3>2, FS_Subset
  <2>4. Cardinality(logs) = 1
    BY <1>9, <2>2
  <2> HIDE DEF logs
  <2>5. PICK one : logs = {one}
    BY <2>3, <2>4, FS_Singleton
  <2> USE DEF logs
  <2>6. PICK j \in fits : one = <<g, j>>
    BY <2>5
  <2>7. fits = {j}
    <3>1. ASSUME NEW k \in fits PROVE k = j
      <4>1. <<g, k>> \in logs
        OBVIOUS
      <4>2. <<g, k>> = <<g, j>>
        BY <2>5, <2>6, <4>1
      <4>3. QED BY <4>2
    <3>2. QED BY <3>1
  <2>8. e.log = j /\ group[j].of = e.at.inner
    BY <1>4, <1>5, <1>7, <2>7
  <2>9. EmitterOf(e, <<g, j>>) = e.at.inner
    BY <2>2, <2>8 DEF EmitterOf
  <2>10. QED BY <2>2, <2>6, <2>8, <2>9
<1>10. QED BY <1>8, <1>9

\* If instructions leave their logs, an event whose outer instruction left a single log
\* that decodes for its parser (of its kind, of a layout that fits and, on Bonk, of its
\* direction) is completed with that log and it is its own; without any it keeps what
\* the instruction says.
THEOREM AloneLogIsOwn ==
  ASSUME LogsAreLeft
  PROVE  Spec => []LogWhenAlone
<1>1. IInv => LogWhenAlone
  BY AloneIsOwn DEF IInv, DevsOK, Known, LogWhenAlone
<1>2. QED BY <1>1, Invariance, PTL

(***************************************************************************)
(* Swap data.                                                              *)
(***************************************************************************)

\* The transfers that were read by the ith place for one side of a trade.
ReadOf(e, i, role) ==
  LET group == GroupAt(e.tx, e.at)
  IN {k \in Followers(group, e.at.inner, Resolved(e.tx)) :
        k <= i /\ IsTransfer(group[k]) /\ TakenFor(e, k).role = role}

\* One side of a trade is what one of these told, or not told at all.
SideRead(e, i, role, mint, amount) ==
  IF amount = 0 THEN mint = Default
  ELSE \E k \in ReadOf(e, i, role) : /\ amount = GroupAt(e.tx, e.at)[k].amount
                                     /\ mint = TakenFor(e, k).mint

\* The loop is over only with both sides told; until then one is told that was read.
SeenOK(e, i, seen) ==
  LET s == seen.swap IN
  /\ s = [fromMint |-> s.fromMint, toMint |-> s.toMint, paid |-> s.paid, got |-> s.got]
  /\ seen.over \in BOOLEAN
  /\ SideRead(e, i, "in", s.fromMint, s.paid)
  /\ SideRead(e, i, "out", s.toMint, s.got)
  /\ seen.over => s.paid # 0 /\ s.got # 0
  /\ ~seen.over => /\ ReadOf(e, i, "in") # {} => s.paid # 0
                   /\ ReadOf(e, i, "out") # {} => s.got # 0

\* A transfer is noted for the side it is taken for.
LEMMA NotedFor ==
  ASSUME NEW e, NEW i, NEW swap
  PROVE  LET taken == TakenFor(e, i)
             instr == GroupAt(e.tx, e.at)[i]
         IN Noted(swap, instr, Resolved(e.tx), Side(e.kind, e.keys, 1), Side(e.kind, e.keys, 2))
              = CASE taken.role = "in"  -> [swap EXCEPT !.paid = instr.amount, !.fromMint = taken.mint]
                  [] taken.role = "out" -> [swap EXCEPT !.got = instr.amount, !.toMint = taken.mint]
                  [] OTHER              -> swap
<1> DEFINE a == Side(e.kind, e.keys, 1)
           b == Side(e.kind, e.keys, 2)
           instr == GroupAt(e.tx, e.at)[i]
           from == Source(instr, Resolved(e.tx))
           to == Destination(instr, Resolved(e.tx))
<1> HIDE DEF a, b, instr, from, to
<1>1. TakenFor(e, i) = IF <<from, to>> \in PaysIn(a, b)
                         THEN [role |-> "in", mint |-> IF from = b.user THEN b.mint ELSE a.mint]
                       ELSE IF <<from, to>> \in PaysOut(a, b)
                         THEN [role |-> "out", mint |-> IF to = a.user THEN a.mint ELSE b.mint]
                       ELSE [role |-> "none", mint |-> Default]
  BY DEF TakenFor, a, b, instr, from, to
<1>2. Noted(swap, instr, Resolved(e.tx), a, b)
        = IF <<from, to>> \in PaysIn(a, b)
            THEN [swap EXCEPT !.paid = instr.amount, !.fromMint = IF from = b.user THEN b.mint ELSE a.mint]
          ELSE IF <<from, to>> \in PaysOut(a, b)
            THEN [swap EXCEPT !.got = instr.amount, !.toMint = IF to = a.user THEN a.mint ELSE b.mint]
          ELSE swap
  BY DEF Noted, from, to
<1>3. CASE <<from, to>> \in PaysIn(a, b)
  BY <1>1, <1>2, <1>3 DEF a, b, instr
<1>4. CASE <<from, to>> \notin PaysIn(a, b) /\ <<from, to>> \in PaysOut(a, b)
  <2>1. TakenFor(e, i).role = "out" /\ TakenFor(e, i).mint = IF to = a.user THEN a.mint ELSE b.mint
    BY <1>1, <1>4
  <2>2. Noted(swap, instr, Resolved(e.tx), a, b)
          = [swap EXCEPT !.got = instr.amount, !.toMint = IF to = a.user THEN a.mint ELSE b.mint]
    BY <1>2, <1>4
  <2>3. QED BY <2>1, <2>2 DEF a, b, instr
<1>5. CASE <<from, to>> \notin PaysIn(a, b) /\ <<from, to>> \notin PaysOut(a, b)
  <2>1. TakenFor(e, i).role = "none"
    BY <1>1, <1>5
  <2>2. Noted(swap, instr, Resolved(e.tx), a, b) = swap
    BY <1>2, <1>5
  <2>3. QED BY <2>1, <2>2 DEF a, b, instr
<1>6. QED BY <1>3, <1>4, <1>5

\* What the hypothesis on the chain says of an event of a trade with a pool.
MadeFor(e) ==
  LET group == GroupAt(e.tx, e.at) IN
  /\ group \in Seq(Instructions) /\ e.at.inner \in Nat
  /\ \A i \in OwnTransfers(e) : i > e.at.inner
  /\ \A i \in OwnTransfers(e) \cup Followers(group, e.at.inner, Resolved(e.tx)) :
       IsTransfer(group[i]) =>
         /\ TakenFor(e, i).role = IF i \in OwnTransfers(e) THEN group[i].role ELSE "none"
         /\ TakenFor(e, i).role # "none" =>
              group[i].amount # 0 /\ TakenFor(e, i).mint \in {Default, group[i].mint}

LEMMA PoolEvent ==
  ASSUME TransfersAreMade, NEW e, Genuine(e), e.kind \in PoolTrades
  PROVE  MadeFor(e)
<1> DEFINE x == e.tx
           at == e.at
           group == GroupAt(x, at)
<1>1. x \in Txs /\ at \in Positions(x) /\ e.keys = KeysOf(x, at)
  BY DEF Genuine
<1>2. PICK p \in Table : e.kind = p.event /\ IsFor(x, InstructionAt(x, at), p)
  BY DEF Genuine
<1>3. x \in Transactions /\ at \in Outers(x) \cup Inners(x)
  BY <1>1, TxsAssumption, PositionsType
<1>4. group \in Seq(Instructions) /\ at.inner \in Nat
  BY <1>3, GroupType DEF Outers, Inners, Position
<1> DEFINE f == [kind |-> p.event, tx |-> x, at |-> at, keys |-> KeysOf(x, at)]
           after == {i \in DOMAIN group : i > at.inner /\ \A k \in at.inner + 1 .. i :
                                                         IsSystem(group[k], Resolved(x))}
<1>5. f.kind = e.kind /\ f.tx = x /\ f.at = at /\ f.keys = e.keys
  BY <1>1, <1>2
<1>6. /\ \A i \in OwnTransfers(f) : i > at.inner
      /\ \A i \in OwnTransfers(f) \cup after : IsTransfer(group[i]) =>
           /\ TakenFor(f, i).role = IF i \in OwnTransfers(f) THEN group[i].role ELSE "none"
           /\ TakenFor(f, i).role # "none" =>
                group[i].amount # 0 /\ TakenFor(f, i).mint \in {Default, group[i].mint}
  BY <1>1, <1>2, Zenon DEF TransfersAreMade
<1> HIDE DEF f
<1>7. OwnTransfers(f) = OwnTransfers(e)
  BY <1>5 DEF OwnTransfers
<1>8. \A i : TakenFor(f, i) = TakenFor(e, i)
  BY <1>5 DEF TakenFor
<1>9. Followers(group, at.inner, Resolved(x)) = after
  <2> DEFINE n == Len(group)
             j == at.inner
  <2>1. n \in Nat /\ DOMAIN group = 1 .. n /\ j \in Nat
    BY <1>4
  <2>2. \A i : i \in j + 1 .. n <=> i \in 1 .. n /\ i > j
    BY <2>1
  <2>3. Followers(group, j, Resolved(x))
          = {i \in j + 1 .. n : \A k \in j + 1 .. i : IsSystem(group[k], Resolved(x))}
    BY DEF Followers
  <2>4. after = {i \in 1 .. n : i > j /\ \A k \in j + 1 .. i : IsSystem(group[k], Resolved(x))}
    BY <2>1
  <2> HIDE DEF n, j
  <2>5. QED BY <2>2, <2>3, <2>4 DEF j
<1> HIDE DEF after
<1>10. QED BY <1>4, <1>6, <1>7, <1>8, <1>9 DEF MadeFor

\* A transfer read for a side is one that moved tokens on that side.
LEMMA ReadMoves ==
  ASSUME NEW e, MadeFor(e), NEW i, NEW role \in {"in", "out"}, NEW k \in ReadOf(e, i, role)
  PROVE  LET instr == GroupAt(e.tx, e.at)[k] IN
         /\ k \in Moves(e, role)
         /\ instr.amount \in Nat \ {0}
         /\ TakenFor(e, k).mint \in {Default, instr.mint} /\ instr.mint \in Keys
<1> DEFINE group == GroupAt(e.tx, e.at)
<1>1. /\ k \in Followers(group, e.at.inner, Resolved(e.tx))
      /\ IsTransfer(group[k]) /\ TakenFor(e, k).role = role
  BY DEF ReadOf
<1>2. /\ role = IF k \in OwnTransfers(e) THEN group[k].role ELSE "none"
      /\ group[k].amount # 0 /\ TakenFor(e, k).mint \in {Default, group[k].mint}
  BY <1>1 DEF MadeFor
<1>3. k \in OwnTransfers(e) /\ group[k].role = role
  BY <1>2
<1>4. k \in Moves(e, role)
  BY <1>1, <1>3 DEF Moves
<1>5. group \in Seq(Instructions) /\ k \in DOMAIN group
  BY <1>3 DEF MadeFor, OwnTransfers
<1> HIDE DEF group
<1>6. group[k] \in Instructions
  BY <1>5
<1>7. group[k].amount \in Nat /\ group[k].mint \in Keys
  BY <1>6 DEF Instructions
<1>8. QED BY <1>2, <1>4, <1>7 DEF group

\* What was read grows by the place looked at, if it is of a transfer for that side.
LEMMA ReadGrows ==
  ASSUME NEW e, NEW i \in Nat, e.at.inner \in Nat, NEW role
  PROVE  ReadOf(e, i + 1, role)
           = ReadOf(e, i, role)
               \cup {k \in {i + 1} : /\ k \in Followers(GroupAt(e.tx, e.at), e.at.inner, Resolved(e.tx))
                                     /\ IsTransfer(GroupAt(e.tx, e.at)[k])
                                     /\ TakenFor(e, k).role = role}
<1> DEFINE group == GroupAt(e.tx, e.at)
           after == Followers(group, e.at.inner, Resolved(e.tx))
           good(k) == IsTransfer(group[k]) /\ TakenFor(e, k).role = role
<1>1. after \subseteq Nat
  BY DEF Followers
<1>2. \A m : ReadOf(e, m, role) = {k \in after : k <= m /\ good(k)}
  BY DEF ReadOf
<1> HIDE DEF after, good
<1>3. {k \in after : k <= i + 1 /\ good(k)}
        = {k \in after : k <= i /\ good(k)} \cup {k \in {i + 1} : k \in after /\ good(k)}
  <2> DEFINE n == i + 1
  <2>1. \A k \in after : k <= n <=> k <= i \/ k = n
    BY <1>1
  <2> HIDE DEF n
  <2>2. {k \in after : k <= n /\ good(k)}
          = {k \in after : k <= i /\ good(k)} \cup {k \in {n} : k \in after /\ good(k)}
    BY <2>1
  <2>3. QED BY <2>2 DEF n
<1>4. QED BY <1>2, <1>3 DEF after, good, group

\* A side of which no more was read is told as before.
LEMMA SideStays ==
  ASSUME NEW e, NEW i, NEW k, NEW role, NEW mint, NEW amount, SideRead(e, i, role, mint, amount),
         ReadOf(e, i, role) \subseteq ReadOf(e, k, role)
  PROVE  SideRead(e, k, role, mint, amount)
  BY DEF SideRead

\* If whatever was read is told, the loop may go on or be over.
LEMMA SeenOver ==
  ASSUME NEW e, NEW i, NEW s,
         s = [fromMint |-> s.fromMint, toMint |-> s.toMint, paid |-> s.paid, got |-> s.got],
         SideRead(e, i, "in", s.fromMint, s.paid), SideRead(e, i, "out", s.toMint, s.got),
         ReadOf(e, i, "in") # {} => s.paid # 0, ReadOf(e, i, "out") # {} => s.got # 0
  PROVE  SeenOK(e, i, [swap |-> s, over |-> Complete(s)])
<1> DEFINE seen == [swap |-> s, over |-> Complete(s)]
<1>1. seen.swap = s /\ seen.over = Complete(s)
  OBVIOUS
<1>2. Complete(s) \in BOOLEAN
  BY DEF Complete
<1>3. s.paid = 0 => s.fromMint = Default
  BY DEF SideRead
<1>4. s.got = 0 => s.toMint = Default
  BY DEF SideRead
<1>5. Complete(s) => s.paid # 0 /\ s.got # 0
  BY <1>3, <1>4 DEF Complete
<1> HIDE DEF seen
<1>6. SeenOK(e, i, seen)
  BY <1>1, <1>2, <1>5 DEF SeenOK
<1>7. QED BY <1>6 DEF seen

\* What was seen goes on with one more place.
LEMMA SeenGoesOn ==
  ASSUME NEW e, MadeFor(e), NEW i \in Nat, NEW seen, SeenOK(e, i, seen)
  PROVE  SeenOK(e, i + 1, SeenStep(e.kind, e.keys, GroupAt(e.tx, e.at), e.at.inner,
                                   Resolved(e.tx), i + 1, seen))
<1> DEFINE group == GroupAt(e.tx, e.at)
           keys == Resolved(e.tx)
           k == i + 1
           instr == group[k]
           after == Followers(group, e.at.inner, keys)
           a == Side(e.kind, e.keys, 1)
           b == Side(e.kind, e.keys, 2)
           next == SeenStep(e.kind, e.keys, group, e.at.inner, keys, k, seen)
           s == seen.swap
           taken == TakenFor(e, k)
           read == k \in after /\ IsTransfer(instr)
<1>0. k \in Nat /\ e.at.inner \in Nat
  BY DEF MadeFor
<1>1. next = IF k \notin after THEN seen ELSE NotedUntil(seen, instr, keys, a, b)
  BY DEF SeenStep
<1>2. \A role : ReadOf(e, k, role)
                  = ReadOf(e, i, role) \cup (IF read /\ taken.role = role THEN {k} ELSE {})
  <2> SUFFICES ASSUME NEW role
               PROVE  ReadOf(e, k, role)
                        = ReadOf(e, i, role) \cup (IF read /\ taken.role = role THEN {k} ELSE {})
    OBVIOUS
  <2>1. ReadOf(e, k, role)
          = ReadOf(e, i, role) \cup {m \in {k} : m \in after /\ IsTransfer(group[m])
                                                  /\ TakenFor(e, m).role = role}
    BY <1>0, ReadGrows
  <2> HIDE DEF k, after, group
  <2>2. QED BY <2>1
<1>3. Noted(s, instr, keys, a, b)
        = CASE taken.role = "in"  -> [s EXCEPT !.paid = instr.amount, !.fromMint = taken.mint]
            [] taken.role = "out" -> [s EXCEPT !.got = instr.amount, !.toMint = taken.mint]
            [] OTHER              -> s
  BY NotedFor
<1>4. taken.role \in {"in", "out", "none"}
  BY DEF TakenFor
<1>5. read /\ taken.role # "none" => instr.amount # 0
  BY DEF MadeFor
<1> DEFINE noted == Noted(s, instr, keys, a, b)
<1>6. next = IF ~read \/ seen.over THEN seen ELSE [swap |-> noted, over |-> Complete(noted)]
  BY <1>1 DEF NotedUntil
<1> HIDE DEF k, group, keys, after, a, b, next, s, taken, instr, read, noted
<1>7. /\ s = [fromMint |-> s.fromMint, toMint |-> s.toMint, paid |-> s.paid, got |-> s.got]
      /\ seen.over \in BOOLEAN
      /\ SideRead(e, i, "in", s.fromMint, s.paid) /\ SideRead(e, i, "out", s.toMint, s.got)
      /\ seen.over => s.paid # 0 /\ s.got # 0
      /\ ~seen.over => /\ ReadOf(e, i, "in") # {} => s.paid # 0
                       /\ ReadOf(e, i, "out") # {} => s.got # 0
  BY DEF SeenOK, s
<1>8. SideRead(e, k, "in", s.fromMint, s.paid) /\ SideRead(e, k, "out", s.toMint, s.got)
  BY <1>2, <1>7, SideStays
<1>9. CASE ~read
  <2>1. ReadOf(e, k, "in") = ReadOf(e, i, "in") /\ ReadOf(e, k, "out") = ReadOf(e, i, "out")
    BY <1>2, <1>9
  <2>2. SeenOK(e, k, seen)
    BY <1>7, <1>8, <2>1 DEF SeenOK, s
  <2>3. QED BY <1>6, <1>9, <2>2 DEF next, k, group, keys
<1>10. CASE seen.over
  <2>1. SeenOK(e, k, seen)
    BY <1>7, <1>8, <1>10 DEF SeenOK, s
  <2>2. QED BY <1>6, <1>10, <2>1 DEF next, k, group, keys
<1>11. CASE read /\ ~seen.over
  <2>1. next = [swap |-> noted, over |-> Complete(noted)]
    BY <1>6, <1>11
  <2>2. /\ noted = [fromMint |-> noted.fromMint, toMint |-> noted.toMint,
                    paid |-> noted.paid, got |-> noted.got]
        /\ SideRead(e, k, "in", noted.fromMint, noted.paid)
        /\ SideRead(e, k, "out", noted.toMint, noted.got)
        /\ ReadOf(e, k, "in") # {} => noted.paid # 0
        /\ ReadOf(e, k, "out") # {} => noted.got # 0
    <3>1. CASE taken.role = "in"
      <4>1. noted = [fromMint |-> taken.mint, toMint |-> s.toMint, paid |-> instr.amount, got |-> s.got]
        BY <1>3, <1>7, <3>1 DEF noted
      <4>2. k \in ReadOf(e, k, "in") /\ ReadOf(e, k, "out") = ReadOf(e, i, "out")
        BY <1>2, <1>11, <3>1
      <4>3. instr.amount # 0
        BY <1>5, <1>11, <3>1
      <4>4. SideRead(e, k, "in", taken.mint, instr.amount)
        BY <4>2, <4>3 DEF SideRead, instr, group, taken
      <4>5. QED BY <1>7, <1>8, <1>11, <4>1, <4>2, <4>3, <4>4
    <3>2. CASE taken.role = "out"
      <4>1. noted = [fromMint |-> s.fromMint, toMint |-> taken.mint, paid |-> s.paid, got |-> instr.amount]
        BY <1>3, <1>7, <3>2 DEF noted
      <4>2. k \in ReadOf(e, k, "out") /\ ReadOf(e, k, "in") = ReadOf(e, i, "in")
        BY <1>2, <1>11, <3>2
      <4>3. instr.amount # 0
        BY <1>5, <1>11, <3>2
      <4>4. SideRead(e, k, "out", taken.mint, instr.amount)
        BY <4>2, <4>3 DEF SideRead, instr, group, taken
      <4>5. QED BY <1>7, <1>8, <1>11, <4>1, <4>2, <4>3, <4>4
    <3>3. CASE taken.role = "none"
      <4>1. noted = s
        BY <1>3, <3>3 DEF noted
      <4>2. ReadOf(e, k, "in") = ReadOf(e, i, "in") /\ ReadOf(e, k, "out") = ReadOf(e, i, "out")
        BY <1>2, <3>3
      <4>3. QED BY <1>7, <1>8, <1>11, <4>1, <4>2
    <3>4. QED BY <1>4, <3>1, <3>2, <3>3
  <2>3. SeenOK(e, k, [swap |-> noted, over |-> Complete(noted)])
    BY <2>2, SeenOver
  <2>4. QED BY <2>1, <2>3 DEF next, k, group, keys
<1>12. QED BY <1>9, <1>10, <1>11, <1>7

\* What was seen in the end, of a trade with a pool.
LEMMA SeenInTheEnd ==
  ASSUME NEW e, MadeFor(e), e.kind \in PoolTrades
  PROVE  LET group == GroupAt(e.tx, e.at)
             n == Len(group)
         IN SeenOK(e, n, Seen(e.kind, e.keys, group, e.at.inner, Resolved(e.tx), n)[n])
<1> DEFINE group == GroupAt(e.tx, e.at)
           n == Len(group)
           seen == Seen(e.kind, e.keys, group, e.at.inner, Resolved(e.tx), n)
           Good == {i \in Nat : i <= n => SeenOK(e, i, seen[i])}
<1>1. n \in Nat /\ e.at.inner \in Nat
  BY DEF MadeFor
<1>2. /\ seen[0] = SeenFirst(e.kind, e.keys)
      /\ \A i \in 1 .. n : seen[i] = SeenStep(e.kind, e.keys, group, e.at.inner, Resolved(e.tx), i, seen[i - 1])
  BY <1>1, SeenAt
<1> HIDE DEF seen, n, group
<1>3. SeenFirst(e.kind, e.keys) = [swap |-> NothingTold, over |-> FALSE]
  <2>1. StatedMints(e.kind, e.keys) = <<Default, Default>>
    BY DEF StatedMints, PoolTrades, BonkTrades, BonkBuys, CpmmSwaps, AmmV4Swaps
  <2> DEFINE from == <<Default, Default>>[1]
             to == <<Default, Default>>[2]
             start == [NothingTold EXCEPT !.fromMint = from, !.toMint = to]
  <2>2. from = Default /\ to = Default
    OBVIOUS
  <2>3. SeenFirst(e.kind, e.keys)
          = [swap |-> start, over |-> FALSE]
    BY <2>1 DEF SeenFirst
  <2> HIDE DEF from, to
  <2>4. NothingTold = [fromMint |-> Default, toMint |-> Default, paid |-> 0, got |-> 0]
    BY DEF NothingTold
  <2>5. start = [NothingTold EXCEPT !.fromMint = from, !.toMint = to]
    OBVIOUS
  <2> HIDE DEF start
  <2>6. start = [fromMint |-> from, toMint |-> to, paid |-> 0, got |-> 0]
    BY <2>4, <2>5
  <2>7. QED BY <2>2, <2>3, <2>4, <2>6
<1>4. \A role : ReadOf(e, 0, role) = {}
  <2>1. \A k \in Followers(group, e.at.inner, Resolved(e.tx)) : k \in Nat /\ k > 0
    BY <1>1 DEF Followers, n
  <2>2. QED BY <2>1 DEF ReadOf, group
<1>5. 0 \in Good
  <2>1. SeenOK(e, 0, [swap |-> NothingTold, over |-> FALSE])
    BY <1>4 DEF SeenOK, SideRead, NothingTold
  <2>2. QED BY <1>2, <1>3, <2>1
<1>6. ASSUME NEW i \in Nat, i \in Good PROVE i + 1 \in Good
  <2> SUFFICES ASSUME i + 1 <= n PROVE SeenOK(e, i + 1, seen[i + 1])
    OBVIOUS
  <2>1. i <= n /\ i + 1 \in 1 .. n /\ (i + 1) - 1 = i
    BY <1>1
  <2>2. SeenOK(e, i, seen[i])
    BY <1>6, <2>1
  <2>3. seen[i + 1] = SeenStep(e.kind, e.keys, group, e.at.inner, Resolved(e.tx), i + 1, seen[i])
    BY <1>2, <2>1
  <2>4. QED BY <2>2, <2>3, SeenGoesOn DEF group
<1> HIDE DEF Good
<1>7. \A i \in Nat : i \in Good
  BY <1>5, <1>6, SetInduction
<1>8. SeenOK(e, n, seen[n])
  BY <1>1, <1>7 DEF Good
<1>9. QED BY <1>8 DEF seen, n, group

\* A transfer an instruction made is read, if nothing comes before it.
LEMMA MovesAreRead ==
  ASSUME NEW e, MadeFor(e), TransfersFollow(e), NEW role \in {"in", "out"}, Moves(e, role) # {}
  PROVE  ReadOf(e, Len(GroupAt(e.tx, e.at)), role) # {}
<1> DEFINE group == GroupAt(e.tx, e.at)
           n == Len(group)
           j == e.at.inner
<1>1. n \in Nat /\ DOMAIN group = 1 .. n /\ j \in Nat
  BY DEF MadeFor
<1>2. PICK i \in Moves(e, role) : TRUE
  OBVIOUS
<1>3. i \in OwnTransfers(e) /\ group[i].role = role /\ IsTransfer(group[i])
  BY <1>2 DEF Moves
<1>4. TakenFor(e, i).role = role /\ i > j
  BY <1>3 DEF MadeFor
<1>5. i \in DOMAIN group
  BY <1>3 DEF OwnTransfers
<1>6. \A k \in j + 1 .. i : IsSystem(group[k], Resolved(e.tx))
  BY <1>3 DEF TransfersFollow, OwnTransfers
<1> HIDE DEF n, j
<1>7. i \in j + 1 .. n /\ i <= n
  BY <1>1, <1>4, <1>5
<1>8. i \in Followers(group, j, Resolved(e.tx))
  BY <1>6, <1>7 DEF Followers, n
<1>9. i \in ReadOf(e, n, role)
  BY <1>3, <1>4, <1>7, <1>8 DEF ReadOf, j
<1>10. QED BY <1>9 DEF n

\* A side that is told as one of the transfers read tells it, is told as SwapIsOwn
\* has it.
LEMMA SideOwn ==
  ASSUME NEW e, MadeFor(e), NEW role \in {"in", "out"}, NEW mint, NEW amount,
         SideRead(e, Len(GroupAt(e.tx, e.at)), role, mint, amount),
         ReadOf(e, Len(GroupAt(e.tx, e.at)), role) # {} => amount # 0
  PROVE  SideTold(e, role, mint, amount) /\ mint \in Keys /\ amount \in Nat
<1> DEFINE n == Len(GroupAt(e.tx, e.at))
<1> HIDE DEF n
<1>1. CASE amount = 0
  <2>1. mint = Default /\ mint \in Keys
    BY <1>1, KeysAssumption DEF SideRead
  <2>2. ~(Moves(e, role) # {} /\ TransfersFollow(e))
    BY <1>1, MovesAreRead
  <2>3. QED BY <1>1, <2>1, <2>2 DEF SideTold
<1>2. CASE amount # 0
  <2>1. PICK k \in ReadOf(e, n, role) : /\ amount = GroupAt(e.tx, e.at)[k].amount
                                        /\ mint = TakenFor(e, k).mint
    BY <1>2 DEF SideRead, n
  <2>2. /\ k \in Moves(e, role)
        /\ amount \in Nat \ {0}
        /\ mint \in {Default, GroupAt(e.tx, e.at)[k].mint} /\ GroupAt(e.tx, e.at)[k].mint \in Keys
    BY <2>1, ReadMoves
  <2>3. QED BY <1>2, <2>1, <2>2, KeysAssumption DEF SideTold
<1>3. QED BY <1>1, <1>2

\* SwapIsOwn of one event.
LEMMA SwapOfEvent ==
  ASSUME TransfersAreMade, NEW e, Genuine(e), e.kind \in PoolTrades
  PROVE  IF e.swap = None
           THEN TransfersFollow(e) => Moves(e, "in") \cup Moves(e, "out") = {}
           ELSE /\ SideTold(e, "in", e.swap.fromMint, e.swap.paid)
                /\ SideTold(e, "out", e.swap.toMint, e.swap.got)
<1> DEFINE group == GroupAt(e.tx, e.at)
           n == Len(group)
           seen == Seen(e.kind, e.keys, group, e.at.inner, Resolved(e.tx), n)[n]
           swap == seen.swap
<1>1. MadeFor(e)
  BY PoolEvent
<1>2. e.swap = IF group = <<>> THEN None
               ELSE SwapOf(e.kind, e.keys, group, e.at.inner, Resolved(e.tx))
  BY DEF Genuine
<1>3. SwapOf(e.kind, e.keys, group, e.at.inner, Resolved(e.tx))
        = IF swap = NothingTold THEN None ELSE swap
  BY SwapIsSeen
<1>4. SeenOK(e, n, seen)
  BY <1>1, SeenInTheEnd
<1>5. group = <<>> => Moves(e, "in") \cup Moves(e, "out") = {}
  BY DEF Moves, OwnTransfers
<1> HIDE DEF n, seen
<1>6. /\ swap = [fromMint |-> swap.fromMint, toMint |-> swap.toMint, paid |-> swap.paid, got |-> swap.got]
      /\ SideRead(e, n, "in", swap.fromMint, swap.paid)
      /\ SideRead(e, n, "out", swap.toMint, swap.got)
      /\ ReadOf(e, n, "in") # {} => swap.paid # 0
      /\ ReadOf(e, n, "out") # {} => swap.got # 0
  BY <1>4 DEF SeenOK
<1> HIDE DEF swap
<1>7. /\ SideTold(e, "in", swap.fromMint, swap.paid) /\ swap.fromMint \in Keys /\ swap.paid \in Nat
      /\ SideTold(e, "out", swap.toMint, swap.got) /\ swap.toMint \in Keys /\ swap.got \in Nat
  BY <1>1, <1>6, SideOwn DEF n
<1>8. swap # None
  BY <1>6, <1>7, NoneAssumption
<1>9. swap = NothingTold => (TransfersFollow(e) => Moves(e, "in") \cup Moves(e, "out") = {})
  <2>1. swap = NothingTold => swap.paid = 0 /\ swap.got = 0
    BY DEF NothingTold
  <2>2. QED BY <1>7, <2>1 DEF SideTold
<1> HIDE DEF group
<1>10. CASE group = <<>> \/ swap = NothingTold
  BY <1>2, <1>3, <1>5, <1>9, <1>10
<1>11. CASE ~(group = <<>> \/ swap = NothingTold)
  BY <1>2, <1>3, <1>7, <1>8, <1>11
<1>12. QED BY <1>10, <1>11

\* If an instruction of a pool moves tokens between the accounts it names and what else
\* follows it directly does not, the swap data of its event are those of its own
\* transfers on both sides, and tell each side it has a transfer of.
THEOREM SwapsAreOwn ==
  ASSUME TransfersAreMade
  PROVE  Spec => []SwapIsOwn
<1>1. IInv => SwapIsOwn
  BY SwapOfEvent, Zenon DEF IInv, DevsOK, Known, SwapIsOwn
<1>2. QED BY <1>1, Invariance, PTL
=============================================================================
