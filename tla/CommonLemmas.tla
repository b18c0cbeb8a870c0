---------------------------- MODULE CommonLemmas ----------------------------
(***************************************************************************)
(* Facts that the proofs of several components use: numbers, and sequences *)
(* of sequences one behind the other.                                      *)
(***************************************************************************)
EXTENDS Integers, Sequences, SequencesExt, WellFoundedInduction, SequenceTheorems, TLAPS

-----------------------------------------------------------------------------
(* Numbers.                                                                *)

\* Division with remainder.
LEMMA Division ==
  ASSUME NEW n \in Nat, NEW d \in Nat \ {0}
  PROVE  /\ n \div d \in Nat /\ n % d \in 0 .. d - 1
         /\ n = (n \div d) * d + (n % d)
OBVIOUS

\* Its quotient and remainder are the only ones.
LEMMA DivisionIsUnique ==
  ASSUME NEW q \in Nat, NEW d \in Nat \ {0}, NEW r \in 0 .. d - 1
  PROVE  (q * d + r) \div d = q /\ (q * d + r) % d = r
OBVIOUS

\* A set of naturals that is not empty has a least element.
LEMMA Least ==
  ASSUME NEW T, T \subseteq Nat, T # {}
  PROVE  \E m \in T : \A n \in T : m <= n
<1> DEFINE R == OpToRel(<, Nat)
<1>1. \A x, y \in Nat : <<y, x>> \in R <=> y < x
  BY DEF OpToRel
<1>2. \E x \in T : \A y \in T : ~(<<y, x>> \in R)
  <2>1. IsWellFoundedOn(R, Nat)
    BY NatLessThanWellFounded, Zenon
  <2> HIDE DEF R
  <2> QED BY <2>1, WFMin
<1> HIDE DEF R
<1>3. \A x, y \in Nat : x <= y <=> ~(y < x)
  OBVIOUS
<1> QED BY <1>1, <1>2, <1>3

\* A set with 0 in it and the successor of each of its elements has all naturals.
LEMMA AllNaturals ==
  ASSUME NEW T, 0 \in T, \A n \in Nat : n \in T => n + 1 \in T
  PROVE  Nat \subseteq T
<1> SUFFICES ASSUME Nat \ T # {} PROVE FALSE
  OBVIOUS
<1>1. PICK m \in Nat \ T : \A n \in Nat \ T : m <= n
  BY Least
<1>2. m # 0 /\ m - 1 \in Nat
  BY <1>1
<1>3. m - 1 \in T
  BY <1>1, <1>2
<1>4. (m - 1) + 1 = m
  BY <1>1
<1> QED BY <1>1, <1>2, <1>3, <1>4

\* Min is the least element.
LEMMA MinOfNaturals ==
  ASSUME NEW T, T \subseteq Nat, T # {}
  PROVE  Min(T) \in T /\ \A n \in T : Min(T) <= n
<1>1. \E m \in T : \A n \in T : m <= n
  BY Least
<1> QED BY <1>1 DEF Min

-----------------------------------------------------------------------------
(* Functions on the naturals that are defined by recursion.                *)

\* A function on the naturals may be defined by what it is for 0 and, from that,
\* for the next.  f is it up to n.
DefinedUpTo(f, S, a, g, n) ==
  /\ f \in [0 .. n -> S] /\ f[0] = a
  /\ \A m \in 0 .. n - 1 : f[m + 1] = g[<<m, f[m]>>]

LEMMA DefinedOnce ==
  ASSUME NEW S, NEW a, NEW g, NEW f, NEW h, NEW k \in Nat, NEW n \in Nat, k <= n,
         DefinedUpTo(f, S, a, g, k), DefinedUpTo(h, S, a, g, n)
  PROVE  f[k] = h[k]
<1> DEFINE T == {m \in Nat : m <= k => f[m] = h[m]}
<1>1. 0 \in T
  BY DEF DefinedUpTo
<1>2. ASSUME NEW m \in Nat, m \in T PROVE m + 1 \in T
  <2>1. SUFFICES ASSUME m + 1 <= k PROVE f[m + 1] = h[m + 1]
    OBVIOUS
  <2>2. m \in 0 .. k - 1 /\ m \in 0 .. n - 1 /\ f[m] = h[m]
    BY <2>1, <1>2
  <2>3. f[m + 1] = g[<<m, f[m]>>] /\ h[m + 1] = g[<<m, h[m]>>]
    BY <2>2 DEF DefinedUpTo
  <2> QED BY <2>2, <2>3
<1> HIDE DEF T
<1>3. k \in T
  BY <1>1, <1>2, AllNaturals
<1> QED BY <1>3 DEF T

\* f is it for all of them.
DefinedBy(f, S, a, g) ==
  f \in [Nat -> S] /\ f[0] = a /\ \A n \in Nat : f[n + 1] = g[<<n, f[n]>>]

Defines(S, a, g) == a \in S /\ g \in [Nat \X S -> S]

LEMMA Recursion ==
  ASSUME NEW S, NEW a, NEW g, Defines(S, a, g)
  PROVE  \E f : DefinedBy(f, S, a, g)
<1>0. a \in S /\ g \in [Nat \X S -> S]
  BY DEF Defines
<1> DEFINE T == {n \in Nat : \E f : DefinedUpTo(f, S, a, g, n)}
<1>1. 0 \in T
  <2>1. DefinedUpTo([m \in 0 .. 0 |-> a], S, a, g, 0)
    BY <1>0 DEF DefinedUpTo
  <2> QED BY <2>1
<1>2. ASSUME NEW n \in Nat, n \in T PROVE n + 1 \in T
  <2>1. PICK f : DefinedUpTo(f, S, a, g, n)
    BY <1>2
  <2> DEFINE e == g[<<n, f[n]>>]
             h == [m \in 0 .. n + 1 |-> IF m = n + 1 THEN e ELSE f[m]]
  <2>2. e \in S
    BY <1>0, <2>1 DEF DefinedUpTo
  <2> HIDE DEF e
  <2>3. h \in [0 .. n + 1 -> S] /\ h[0] = a
    BY <2>1, <2>2 DEF DefinedUpTo
  <2>4. ASSUME NEW m \in 0 .. (n + 1) - 1 PROVE h[m + 1] = g[<<m, h[m]>>]
    <3>1. CASE m = n
      <4>1. h[n + 1] = e /\ h[n] = f[n]
        OBVIOUS
      <4> HIDE DEF h
      <4> QED BY <3>1, <4>1 DEF e
    <3>2. CASE m # n
      <4>1. m \in 0 .. n - 1
        BY <3>2
      <4>2. h[m] = f[m] /\ h[m + 1] = f[m + 1]
        BY <4>1
      <4>3. f[m + 1] = g[<<m, f[m]>>]
        BY <2>1, <4>1 DEF DefinedUpTo
      <4> QED BY <4>2, <4>3
    <3> QED BY <3>1, <3>2
  <2>5. DefinedUpTo(h, S, a, g, n + 1)
    BY <2>3, <2>4 DEF DefinedUpTo
  <2> QED BY <2>5
<1>3. \A n \in Nat : \E f : DefinedUpTo(f, S, a, g, n)
  <2> HIDE DEF T
  <2>1. Nat \subseteq T
    BY <1>1, <1>2, AllNaturals
  <2> QED BY <2>1 DEF T
<1> DEFINE part(n) == CHOOSE f : DefinedUpTo(f, S, a, g, n)
           F == [n \in Nat |-> part(n)[n]]
<1>4. \A n \in Nat : DefinedUpTo(part(n), S, a, g, n)
  BY <1>3
<1> HIDE DEF part
<1>5. F \in [Nat -> S]
  <2>1. \A n \in Nat : part(n)[n] \in S
    BY <1>4 DEF DefinedUpTo
  <2> QED BY <2>1
<1>6. F[0] = a
  <2>1. part(0)[0] = a
    BY <1>4 DEF DefinedUpTo
  <2> QED BY <2>1
<1>7. ASSUME NEW n \in Nat PROVE F[n + 1] = g[<<n, F[n]>>]
  <2>1. DefinedUpTo(part(n), S, a, g, n) /\ DefinedUpTo(part(n + 1), S, a, g, n + 1)
    BY <1>4
  <2>2. n + 1 \in Nat /\ n <= n + 1 /\ n \in 0 .. (n + 1) - 1
    OBVIOUS
  <2>3. part(n)[n] = part(n + 1)[n]
    <3> DEFINE k == n + 1
    <3>1. k \in Nat /\ n <= k /\ DefinedUpTo(part(n), S, a, g, n) /\ DefinedUpTo(part(k), S, a, g, k)
      BY <2>1
    <3> HIDE DEF k
    <3>2. part(n)[n] = part(k)[n]
      BY <3>1, DefinedOnce
    <3> QED BY <3>2 DEF k
  <2>4. part(n + 1)[n + 1] = g[<<n, part(n + 1)[n]>>]
    BY <2>1, <2>2 DEF DefinedUpTo
  <2> QED BY <2>2, <2>3, <2>4
<1> HIDE DEF F
<1> QED BY <1>5, <1>6, <1>7 DEF DefinedBy

-----------------------------------------------------------------------------
(* Sequences of sequences, one behind the other.                           *)

\* f is what FlattenSeq makes of the first n elements of s, one by one.
Flattens(f, s, n) == f = [i \in 1 .. n |-> IF i = 1 THEN s[i] ELSE f[i - 1] \o s[i]]

\* There is such an f for every sequence, by the least n for which there is none.
LEMMA FlatteningExists ==
  ASSUME NEW S, NEW s \in Seq(Seq(S))
  PROVE  \E f : Flattens(f, s, Len(s))
<1> DEFINE T == {n \in Nat : \E f : Flattens(f, s, n)}
<1>1. 0 \in T
  <2>1. Flattens([i \in 1 .. 0 |-> <<>>], s, 0)
    BY DEF Flattens
  <2> QED BY <2>1
<1>2. ASSUME NEW n \in Nat, n \in T PROVE n + 1 \in T
  <2>1. PICK f : Flattens(f, s, n)
    BY <1>2
  <2> DEFINE g == [i \in 1 .. n + 1 |-> IF i = 1 THEN s[i] ELSE f[i - 1] \o s[i]]
  <2>2. \A i \in 1 .. n : f[i] = IF i = 1 THEN s[i] ELSE f[i - 1] \o s[i]
    BY <2>1, Zenon DEF Flattens
  <2>3. \A i \in 1 .. n : f[i] = g[i]
    BY <2>2
  <2>4. \A i \in 1 .. n + 1 : i # 1 => f[i - 1] = g[i - 1]
    <3> HIDE DEF g
    <3>1. \A i \in 1 .. n + 1 : i # 1 => i - 1 \in 1 .. n
      OBVIOUS
    <3> QED BY <2>3, <3>1
  <2>5. \A i \in 1 .. n + 1 :
          (IF i = 1 THEN s[i] ELSE f[i - 1] \o s[i]) = (IF i = 1 THEN s[i] ELSE g[i - 1] \o s[i])
    <3> HIDE DEF g
    <3> QED BY <2>4
  <2>6. Flattens(g, s, n + 1)
    BY <2>5, Zenon DEF Flattens
  <2> QED BY <2>6
<1> HIDE DEF T
<1>3. Len(s) \in T
  BY <1>1, <1>2, AllNaturals
<1> QED BY <1>3 DEF T

\* FlattenSeq is the last value of such an f.
LEMMA FlatteningIs ==
  ASSUME NEW S, NEW s \in Seq(Seq(S)), s # <<>>
  PROVE  \E f : Flattens(f, s, Len(s)) /\ FlattenSeq(s) = f[Len(s)]
<1> DEFINE F == CHOOSE f : f = [i \in 1 .. Len(s) |-> IF i = 1 THEN s[i] ELSE f[i - 1] \o s[i]]
<1>1. \E f : f = [i \in 1 .. Len(s) |-> IF i = 1 THEN s[i] ELSE f[i - 1] \o s[i]]
  BY FlatteningExists DEF Flattens
<1>2. F = [i \in 1 .. Len(s) |-> IF i = 1 THEN s[i] ELSE F[i - 1] \o s[i]]
  BY <1>1, Zenon
<1>3. Len(s) # 0
  OBVIOUS
<1>4. FlattenSeq(s) = F[Len(s)]
  BY <1>3, Zenon DEF FlattenSeq
<1> QED BY <1>2, <1>4, Zenon DEF Flattens

\* f depends on the first elements of s only.
LEMMA FlatteningIsUnique ==
  ASSUME NEW S, NEW s \in Seq(Seq(S)), NEW t, NEW f, NEW g, NEW m \in Nat, NEW n \in Nat,
         Flattens(f, s, m), Flattens(g, t, n), m <= n,
         \A i \in 1 .. m : s[i] = t[i]
  PROVE  \A i \in 1 .. m : f[i] = g[i]
<1> DEFINE T == {i \in Nat : i \in 1 .. m => f[i] = g[i]}
<1>1. 0 \in T
  OBVIOUS
<1>2. ASSUME NEW i \in Nat, i \in T PROVE i + 1 \in T
  <2>1. SUFFICES ASSUME i + 1 <= m PROVE f[i + 1] = g[i + 1]
    OBVIOUS
  <2>2. i + 1 \in 1 .. m /\ i + 1 \in 1 .. n /\ (i + 1) - 1 = i /\ s[i + 1] = t[i + 1]
    BY <2>1
  <2>3. /\ f[i + 1] = IF i + 1 = 1 THEN s[i + 1] ELSE f[(i + 1) - 1] \o s[i + 1]
        /\ g[i + 1] = IF i + 1 = 1 THEN t[i + 1] ELSE g[(i + 1) - 1] \o t[i + 1]
    BY <2>2, Zenon DEF Flattens
  <2>4. i # 0 => f[i] = g[i]
    BY <1>2, <2>1
  <2> QED BY <2>2, <2>3, <2>4
<1> HIDE DEF T
<1>3. Nat \subseteq T
  BY <1>1, <1>2, AllNaturals
<1> QED BY <1>3 DEF T

\* Nothing flattened is nothing.
LEMMA FlattenNone == FlattenSeq(<<>>) = <<>>
BY DEF FlattenSeq

\* One more element is put behind.
LEMMA FlattenAppend ==
  ASSUME NEW S, NEW s \in Seq(Seq(S)), NEW x \in Seq(S)
  PROVE  FlattenSeq(Append(s, x)) = IF s = <<>> THEN x ELSE FlattenSeq(s) \o x
<1> DEFINE t == Append(s, x)
           n == Len(s)
<1>1. t \in Seq(Seq(S)) /\ t # <<>> /\ Len(t) = n + 1 /\ t[n + 1] = x
  BY AppendProperties
<1>2. \A i \in 1 .. n : s[i] = t[i]
  BY AppendProperties
<1>3. n \in Nat /\ n + 1 \in Nat /\ n <= n + 1 /\ n + 1 \in 1 .. n + 1 /\ (n + 1) - 1 = n
  OBVIOUS
<1> HIDE DEF t
<1>4. PICK g : Flattens(g, t, n + 1) /\ FlattenSeq(t) = g[n + 1]
  BY <1>1, FlatteningIs, Zenon
<1> HIDE DEF n
<1>5. g[n + 1] = IF n + 1 = 1 THEN t[n + 1] ELSE g[(n + 1) - 1] \o t[n + 1]
  BY <1>3, <1>4, Zenon DEF Flattens
<1>6. CASE s = <<>>
  <2>1. n = 0
    BY <1>6 DEF n
  <2> QED BY <2>1, <1>1, <1>4, <1>5, <1>6 DEF t
<1>7. CASE s # <<>>
  <2>1. n # 0 /\ n \in 1 .. n
    BY <1>7, <1>3 DEF n
  <2>2. PICK f : Flattens(f, s, n) /\ FlattenSeq(s) = f[n]
    BY <1>7, FlatteningIs, Zenon DEF n
  <2>3. \A i \in 1 .. n : f[i] = g[i]
    BY <2>2, <1>4, <1>2, <1>3, FlatteningIsUnique
  <2>4. FlattenSeq(s) = g[n]
    BY <2>1, <2>2, <2>3
  <2>5. g[n + 1] = g[n] \o x
    BY <2>1, <1>1, <1>3, <1>5
  <2> QED BY <2>4, <2>5, <1>4, <1>7 DEF t
<1> QED BY <1>6, <1>7

\* One element flattened is itself.
LEMMA FlattenOne ==
  ASSUME NEW S, NEW x \in Seq(S)
  PROVE  FlattenSeq(<<x>>) = x
<1>1. <<>> \in Seq(Seq(S)) /\ Append(<<>>, x) = <<x>>
  OBVIOUS
<1> QED BY <1>1, FlattenAppend

\* What is proved of the empty sequence, and of one with an element more, is so
\* for all: the sequences of one length at a time.
LEMMA FlattenIsSequence ==
  ASSUME NEW S, NEW s \in Seq(Seq(S))
  PROVE  FlattenSeq(s) \in Seq(S)
<1> DEFINE T == {n \in Nat : \A r \in Seq(Seq(S)) : Len(r) = n => FlattenSeq(r) \in Seq(S)}
<1>1. 0 \in T
  <2>1. \A r \in Seq(Seq(S)) : Len(r) = 0 => r = <<>>
    OBVIOUS
  <2> QED BY <2>1, FlattenNone
<1>2. ASSUME NEW n \in Nat, n \in T PROVE n + 1 \in T
  <2>1. SUFFICES ASSUME NEW r \in Seq(Seq(S)), Len(r) = n + 1 PROVE FlattenSeq(r) \in Seq(S)
    OBVIOUS
  <2> DEFINE q == SubSeq(r, 1, n)
             x == r[n + 1]
  <2>2. q \in Seq(Seq(S)) /\ Len(q) = n /\ x \in Seq(S) /\ r = Append(q, x)
    BY <2>1
  <2>3. FlattenSeq(q) \in Seq(S)
    BY <2>2, <1>2
  <2> HIDE DEF q, x
  <2>4. FlattenSeq(Append(q, x)) = IF q = <<>> THEN x ELSE FlattenSeq(q) \o x
    BY <2>2, FlattenAppend
  <2> QED BY <2>2, <2>3, <2>4
<1> HIDE DEF T
<1>3. Len(s) \in T
  BY <1>1, <1>2, AllNaturals
<1> QED BY <1>3 DEF T

\* One more element is put behind, also the first.
LEMMA FlattenGrows ==
  ASSUME NEW S, NEW s \in Seq(Seq(S)), NEW x \in Seq(S)
  PROVE  FlattenSeq(Append(s, x)) = FlattenSeq(s) \o x
<1>1. FlattenSeq(s) \in Seq(S)
  BY FlattenIsSequence
<1>2. <<>> \o x = x
  OBVIOUS
<1> QED BY <1>1, <1>2, FlattenAppend, FlattenNone

\* Two sequences flattened are one behind the other.
LEMMA FlattenJoin ==
  ASSUME NEW S, NEW s \in Seq(Seq(S)), NEW t \in Seq(Seq(S))
  PROVE  FlattenSeq(s \o t) = FlattenSeq(s) \o FlattenSeq(t)
<1> DEFINE T == {n \in Nat : \A r \in Seq(Seq(S)) :
                   Len(r) = n => FlattenSeq(s \o r) = FlattenSeq(s) \o FlattenSeq(r)}
<1>1. FlattenSeq(s) \in Seq(S)
  BY FlattenIsSequence
<1>2. 0 \in T
  <2>1. \A r \in Seq(Seq(S)) : Len(r) = 0 => r = <<>>
    OBVIOUS
  <2>2. s \o <<>> = s /\ FlattenSeq(s) \o <<>> = FlattenSeq(s)
    BY <1>1
  <2> QED BY <2>1, <2>2, FlattenNone
<1>3. ASSUME NEW n \in Nat, n \in T PROVE n + 1 \in T
  <2>1. SUFFICES ASSUME NEW r \in Seq(Seq(S)), Len(r) = n + 1
                 PROVE  FlattenSeq(s \o r) = FlattenSeq(s) \o FlattenSeq(r)
    OBVIOUS
  <2> DEFINE q == SubSeq(r, 1, n)
             x == r[n + 1]
  <2>2. q \in Seq(Seq(S)) /\ Len(q) = n /\ x \in Seq(S) /\ r = Append(q, x)
    BY <2>1
  <2>3. FlattenSeq(s \o q) = FlattenSeq(s) \o FlattenSeq(q)
    BY <2>2, <1>3
  <2> HIDE DEF q, x
  <2>4. s \o r = Append(s \o q, x) /\ s \o q \in Seq(Seq(S))
    BY <2>2
  <2>5. FlattenSeq(s \o r) = FlattenSeq(s \o q) \o x
    BY <2>2, <2>4, FlattenGrows
  <2>6. FlattenSeq(r) = FlattenSeq(q) \o x
    BY <2>2, FlattenGrows
  <2>7. FlattenSeq(q) \in Seq(S)
    BY <2>2, FlattenIsSequence
  <2>8. (FlattenSeq(s) \o FlattenSeq(q)) \o x = FlattenSeq(s) \o (FlattenSeq(q) \o x)
    <3> DEFINE a == FlattenSeq(s)
               b == FlattenSeq(q)
    <3>1. a \in Seq(S) /\ b \in Seq(S) /\ x \in Seq(S)
      BY <2>7, <2>2, <1>1
    <3> HIDE DEF a, b
    <3>2. (a \o b) \o x = a \o (b \o x)
      BY <3>1, ConcatAssociative
    <3> QED BY <3>2 DEF a, b
  <2> QED BY <2>3, <2>5, <2>6, <2>8
<1> HIDE DEF T
<1>4. Nat \subseteq T
  BY <1>2, <1>3, AllNaturals
<1>5. Len(t) \in Nat
  OBVIOUS
<1> QED BY <1>4, <1>5 DEF T
=============================================================================
