------------------------------ MODULE IpcProofs ------------------------------
(* The requests of a socket, for streams that are cut in any way, any number *)
(* of clients, requests and connects, and any limits: the daemon sees them   *)
(* once and in order, and its counters are exact.                            *)
EXTENDS Ipc, FiniteSetTheorems, SequenceTheorems, NaturalsInduction, WellFoundedInduction, TLAPS

-----------------------------------------------------------------------------
(* Rows of sequences that are joined: FlattenSeq, by induction.              *)
\* Induction up to a number, for membership in a set: the library states induction for
\* operators. The least number that is not in the set would be one step behind one that is.
LEMMA CountingUp ==
    ASSUME NEW Good, NEW N \in Nat, 0 \in Good,
           \A n \in 0..(N - 1) : n \in Good => n + 1 \in Good
    PROVE  \A n \in 0..N : n \in Good
<1> DEFINE Bad == (0..N) \ Good
           R == {p \in Nat \X Nat : p[1] < p[2]}
<1>1. IsWellFoundedOn(R, Nat)
  BY NatLessThanWellFounded, Zenon DEF OpToRel
<1>2. \A m, n \in Nat : n < m => <<n, m>> \in R
  OBVIOUS
<1>3. Bad \subseteq Nat  OBVIOUS
<1>4. CASE Bad # {}
  <2> HIDE DEF R, Bad
  <2>1. PICK m \in Bad : \A n \in Bad : ~(<<n, m>> \in R)
    BY <1>1, <1>3, <1>4, WFMin
  <2>2. m \in 1..N  BY <2>1 DEF Bad
  <2>3. m - 1 \in Nat /\ m \in Nat /\ m - 1 < m  BY <2>2
  <2>4. <<m - 1, m>> \in R  BY <1>2, <2>3
  <2>5. m - 1 \notin Bad  BY <2>1, <2>4
  <2>6. m - 1 \in 0..(N - 1) /\ (m - 1) + 1 = m  BY <2>2
  <2>7. m - 1 \in Good  BY <2>5, <2>6 DEF Bad
  <2>8. m \in Good  BY <2>6, <2>7
  <2> QED  BY <2>1, <2>8 DEF Bad
<1> QED  BY <1>4

Flattens(s, n, f) == f = [i \in 1..n |-> IF i = 1 THEN s[i] ELSE f[i - 1] \o s[i]]

\* One more sequence is joined to those before it.
LEMMA FlatteningGoesOn ==
    ASSUME NEW s, NEW n \in Nat, NEW f, Flattens(s, n, f)
    PROVE  \E g : Flattens(s, n + 1, g)
<1> DEFINE g == [i \in 1..(n + 1) |->
                   IF i = n + 1 THEN IF n = 0 THEN s[1] ELSE f[n] \o s[n + 1] ELSE f[i]]
<1>1. \A i \in 1..n : f[i] = IF i = 1 THEN s[i] ELSE f[i - 1] \o s[i]
  BY DEF Flattens
<1>2. \A i \in 1..n : i \in 1..(n + 1) /\ i # n + 1  OBVIOUS
<1>3. \A i \in 1..n : g[i] = f[i]  BY <1>2
<1>4. g[n + 1] = IF n = 0 THEN s[1] ELSE f[n] \o s[n + 1]  OBVIOUS
<1>5. g = [i \in 1..(n + 1) |-> g[i]]  OBVIOUS
<1> HIDE DEF g
<1>6. ASSUME NEW i \in 1..(n + 1)
      PROVE  g[i] = IF i = 1 THEN s[i] ELSE g[i - 1] \o s[i]
  <2>1. CASE i = n + 1 /\ n = 0
    <3>1. i = 1  BY <2>1
    <3>2. g[i] = s[1]  BY <1>4, <2>1
    <3> QED  BY <3>1, <3>2
  <2>2. CASE i = n + 1 /\ n # 0
    <3>1. n \in 1..n /\ i - 1 = n /\ i # 1  BY <2>2
    <3>2. g[n] = f[n]  BY <1>3, <3>1
    <3>3. g[i] = g[n] \o s[i]  BY <1>4, <2>2, <3>2
    <3> QED  BY <3>1, <3>3
  <2>3. CASE i \in 1..n
    <3>1. g[i] = f[i] /\ f[i] = IF i = 1 THEN s[i] ELSE f[i - 1] \o s[i]  BY <1>1, <1>3, <2>3
    <3>2. i # 1 => i - 1 \in 1..n  BY <2>3
    <3>3. i # 1 => g[i - 1] = f[i - 1]  BY <1>3, <3>2
    <3> QED  BY <3>1, <3>3
  <2>4. i \in 1..n \/ i = n + 1  OBVIOUS
  <2> QED  BY <2>1, <2>2, <2>3, <2>4
<1>7. g = [i \in 1..(n + 1) |-> IF i = 1 THEN s[i] ELSE g[i - 1] \o s[i]]
  BY <1>5, <1>6
<1> QED  BY <1>7 DEF Flattens

\* What FlattenSeq computes, by induction: its recursion comes to the end.
LEMMA FlattenSeqIs ==
    ASSUME NEW s, Len(s) \in Nat \ {0}
    PROVE  \E f : /\ FlattenSeq(s) = f[Len(s)]
                  /\ \A i \in 1..Len(s) : f[i] = IF i = 1 THEN s[i] ELSE f[i - 1] \o s[i]
<1> DEFINE Flat == {n \in Nat : \E f : Flattens(s, n, f)}
<1>1. 0 \in Flat
  <2>1. Flattens(s, 0, [i \in 1..0 |-> <<>>])  BY DEF Flattens
  <2> QED  BY <2>1
<1>2. ASSUME NEW n \in 0..(Len(s) - 1), n \in Flat PROVE n + 1 \in Flat
  <2>1. PICK f : Flattens(s, n, f)  BY <1>2
  <2>2. n \in Nat /\ n + 1 \in Nat  OBVIOUS
  <2> QED  BY <2>1, <2>2, FlatteningGoesOn
<1> HIDE DEF Flat
<1>3. \A n \in 0..Len(s) : n \in Flat  BY <1>1, <1>2, CountingUp
<1>4. Len(s) \in Flat  BY <1>3
<1>5. \E f : Flattens(s, Len(s), f)  BY <1>4 DEF Flat
<1> DEFINE f == CHOOSE f : Flattens(s, Len(s), f)
<1>6. FlattenSeq(s) = f[Len(s)]  BY DEF FlattenSeq, Flattens
<1>7. Flattens(s, Len(s), f)  BY <1>5
<1> HIDE DEF f
<1>8. \A i \in 1..Len(s) : f[i] = IF i = 1 THEN s[i] ELSE f[i - 1] \o s[i]
  BY <1>7 DEF Flattens
<1> QED  BY <1>6, <1>8

\* f joins the sequences of s, one after the other.
Joins(f, s, N) ==
    \A n \in 0..(N - 1) : f[n + 1] = IF n = 0 THEN s[n + 1] ELSE f[n] \o s[n + 1]

LEMMA FlattenSeqJoins ==
    ASSUME NEW N \in Nat \ {0}, NEW s, Len(s) = N
    PROVE  \E f : FlattenSeq(s) = f[N] /\ Joins(f, s, N)
<1>1. PICK f : /\ FlattenSeq(s) = f[N]
               /\ \A i \in 1..N : f[i] = IF i = 1 THEN s[i] ELSE f[i - 1] \o s[i]
  BY FlattenSeqIs
<1>2. ASSUME NEW n \in 0..(N - 1)
      PROVE  f[n + 1] = IF n = 0 THEN s[n + 1] ELSE f[n] \o s[n + 1]
  <2>1. n + 1 \in 1..N /\ (n + 1) - 1 = n /\ (n + 1 = 1 <=> n = 0)  OBVIOUS
  <2>2. f[n + 1] = IF n + 1 = 1 THEN s[n + 1] ELSE f[(n + 1) - 1] \o s[n + 1]
    BY <1>1, <2>1
  <2> QED  BY <2>1, <2>2
<1> QED  BY <1>1, <1>2 DEF Joins

\* A row of sequences.
LEMMA RowIs ==
    ASSUME NEW N \in Nat, NEW S, NEW s \in [1..N -> S]
    PROVE  Len(s) = N
<1>1. s \in Seq(S)  BY SeqDef
<1>2. Len(s) \in Nat /\ DOMAIN s = 1..Len(s)  BY <1>1, LenProperties
<1>3. 1..Len(s) = 1..N  BY <1>2
<1> QED  BY <1>2, <1>3

\* The first ones of a row of sequences are sequences when joined; empty ones join to
\* an empty one.
LEMMA JoinedIsSeq ==
    ASSUME NEW S, NEW N \in Nat \ {0}, NEW s, \A i \in 1..N : s[i] \in Seq(S), NEW f,
           Joins(f, s, N)
    PROVE  \A i \in 1..N : f[i] \in Seq(S)
<1> DEFINE Good == {n \in Nat : n = 0 \/ f[n] \in Seq(S)}
<1>1. ASSUME NEW n \in 0..(N - 1), n \in Good PROVE n + 1 \in Good
  <2>1. n + 1 \in 1..N /\ n + 1 \in Nat  OBVIOUS
  <2>2. f[n + 1] = IF n = 0 THEN s[n + 1] ELSE f[n] \o s[n + 1]  BY DEF Joins
  <2>3. s[n + 1] \in Seq(S) /\ (n # 0 => f[n] \in Seq(S))  BY <1>1, <2>1
  <2>4. n # 0 => f[n] \o s[n + 1] \in Seq(S)  BY <2>3, ConcatProperties
  <2>5. f[n + 1] \in Seq(S)  BY <2>2, <2>3, <2>4
  <2> QED  BY <2>1, <2>5
<1>2. 0 \in Good  OBVIOUS
<1> HIDE DEF Good
<1>3. \A n \in 0..N : n \in Good  BY <1>1, <1>2, CountingUp
<1>4. \A i \in 1..N : i \in 0..N /\ i # 0  OBVIOUS
<1> QED  BY <1>3, <1>4 DEF Good

LEMMA FlattenedIsSeq ==
    ASSUME NEW S, NEW N \in Nat \ {0}, NEW s, Len(s) = N, \A i \in 1..N : s[i] \in Seq(S)
    PROVE  FlattenSeq(s) \in Seq(S)
<1>1. PICK f : FlattenSeq(s) = f[N] /\ Joins(f, s, N)  BY FlattenSeqJoins
<1>2. \A i \in 1..N : f[i] \in Seq(S)  BY <1>1, JoinedIsSeq
<1> QED  BY <1>1, <1>2

LEMMA FlattenNone == FlattenSeq(<<>>) = <<>>
BY EmptySeq DEF FlattenSeq

LEMMA FlattenTyped ==
    ASSUME NEW S, NEW s \in Seq(Seq(S))
    PROVE  FlattenSeq(s) \in Seq(S)
<1>1. Len(s) \in Nat /\ \A i \in 1..Len(s) : s[i] \in Seq(S)  BY LenProperties, ElementOfSeq
<1>2. CASE s = <<>>  BY <1>2, FlattenNone, EmptySeq
<1>3. CASE s # <<>>
  <2>1. Len(s) \in Nat \ {0}  BY <1>3, EmptySeq
  <2> QED  BY <1>1, <2>1, FlattenedIsSeq
<1> QED  BY <1>2, <1>3

\* Two rows in a row.
LEMMA FlattenBoth ==
    ASSUME NEW S, NEW s \in Seq(Seq(S)), NEW t \in Seq(Seq(S))
    PROVE  FlattenSeq(s \o t) = FlattenSeq(s) \o FlattenSeq(t)
<1>1. FlattenSeq(s) \in Seq(S) /\ FlattenSeq(t) \in Seq(S)  BY FlattenTyped
<1>2. CASE s = <<>>
  <2>1. s \o t = t  BY <1>2, ConcatEmptySeq
  <2>2. <<>> \o FlattenSeq(t) = FlattenSeq(t)  BY <1>1, ConcatEmptySeq
  <2> QED  BY <1>2, <2>1, <2>2, FlattenNone
<1>3. CASE t = <<>>
  <2>1. s \o t = s  BY <1>3, ConcatEmptySeq
  <2>2. FlattenSeq(s) \o <<>> = FlattenSeq(s)  BY <1>1, ConcatEmptySeq
  <2> QED  BY <1>3, <2>1, <2>2, FlattenNone
<1>4. CASE s # <<>> /\ t # <<>>
  <2>1. PICK n, m, u : n = Len(s) /\ m = Len(t) /\ u = s \o t  OBVIOUS
  <2>2. n \in Nat \ {0} /\ m \in Nat \ {0}  BY <1>4, <2>1, EmptySeq
  <2>3. /\ u \in Seq(Seq(S)) /\ Len(u) = n + m
        /\ \A i \in 1..(n + m) : u[i] = IF i <= n THEN s[i] ELSE t[i - n]
    BY <2>1, ConcatProperties
  <2>4. /\ \A i \in 1..n : s[i] \in Seq(S) /\ u[i] = s[i]
        /\ \A i \in 1..m : t[i] \in Seq(S) /\ u[n + i] = t[i]
    <3>1. \A i \in 1..n : i \in 1..(n + m) /\ i <= n  BY <2>2
    <3>2. \A i \in 1..m : n + i \in 1..(n + m) /\ ~(n + i <= n) /\ (n + i) - n = i  BY <2>2
    <3>3. \A i \in 1..n : s[i] \in Seq(S)  BY <2>1, ElementOfSeq
    <3>4. \A i \in 1..m : t[i] \in Seq(S)  BY <2>1, ElementOfSeq
    <3> QED  BY <2>3, <3>1, <3>2, <3>3, <3>4
  <2>5. PICK f : FlattenSeq(s) = f[n] /\ Joins(f, s, n)  BY <2>1, <2>2, FlattenSeqJoins
  <2>6. PICK g : FlattenSeq(t) = g[m] /\ Joins(g, t, m)  BY <2>1, <2>2, FlattenSeqJoins
  <2>7. n + m \in Nat \ {0}  BY <2>2
  <2>8. PICK h : FlattenSeq(u) = h[n + m] /\ Joins(h, u, n + m)  BY <2>3, <2>7, FlattenSeqJoins
  <2>9. (\A i \in 1..n : f[i] \in Seq(S)) /\ (\A i \in 1..m : g[i] \in Seq(S))
    <3>1. \A i \in 1..n : f[i] \in Seq(S)  BY <2>2, <2>4, <2>5, JoinedIsSeq
    <3>2. \A i \in 1..m : g[i] \in Seq(S)  BY <2>2, <2>4, <2>6, JoinedIsSeq
    <3> QED  BY <3>1, <3>2
  <2>10. h[n] = f[n]
    <3> DEFINE Good == {i \in Nat : i = 0 \/ h[i] = f[i]}
    <3>1. ASSUME NEW i \in 0..(n - 1), i \in Good PROVE i + 1 \in Good
      <4>1. i \in 0..((n + m) - 1) /\ i + 1 \in 1..n /\ i + 1 \in Nat  BY <2>2
      <4>2. h[i + 1] = IF i = 0 THEN u[i + 1] ELSE h[i] \o u[i + 1]  BY <2>8, <4>1 DEF Joins
      <4>3. f[i + 1] = IF i = 0 THEN s[i + 1] ELSE f[i] \o s[i + 1]  BY <2>5 DEF Joins
      <4>4. u[i + 1] = s[i + 1]  BY <2>4, <4>1
      <4>5. i # 0 => h[i] = f[i]  BY <3>1
      <4>6. h[i + 1] = f[i + 1]  BY <4>2, <4>3, <4>4, <4>5
      <4> QED  BY <4>1, <4>6
    <3>2. 0 \in Good  OBVIOUS
    <3> HIDE DEF Good
    <3>3. \A i \in 0..n : i \in Good  BY <2>2, <3>1, <3>2, CountingUp
    <3>4. n \in Good /\ n # 0  BY <2>2, <3>3
    <3> QED  BY <3>4 DEF Good
  <2>11. h[n + m] = f[n] \o g[m]
    <3> DEFINE Good == {i \in Nat : i = 0 \/ h[n + i] = f[n] \o g[i]}
    <3>1. ASSUME NEW i \in 0..(m - 1), i \in Good PROVE i + 1 \in Good
      <4>1. /\ n + i \in 0..((n + m) - 1) /\ (n + i) + 1 = n + (i + 1) /\ n + i # 0
            /\ i + 1 \in 1..m /\ i + 1 \in Nat /\ n \in 1..n /\ (i = 0 => n + i = n)
            /\ (i # 0 => i \in 1..m)
        BY <2>2
      <4>2. h[(n + i) + 1] = h[n + i] \o u[(n + i) + 1]  BY <2>8, <4>1 DEF Joins
      <4>3. h[n + (i + 1)] = h[n + i] \o t[i + 1]  BY <2>4, <4>1, <4>2
      <4>4. g[i + 1] = IF i = 0 THEN t[i + 1] ELSE g[i] \o t[i + 1]  BY <2>6 DEF Joins
      <4>5. CASE i = 0
        <5>1. h[n + i] = f[n]  BY <2>10, <4>1, <4>5
        <5>2. h[n + (i + 1)] = f[n] \o g[i + 1]  BY <4>3, <4>4, <4>5, <5>1
        <5> QED  BY <4>1, <5>2
      <4>6. CASE i # 0
        <5>1. PICK a, b, c : a = f[n] /\ b = g[i] /\ c = t[i + 1]  OBVIOUS
        <5>2. a \in Seq(S) /\ b \in Seq(S) /\ c \in Seq(S)  BY <2>4, <2>9, <4>1, <4>6, <5>1
        <5>3. (a \o b) \o c = a \o (b \o c)  BY <5>2, ConcatAssociative, SMTT(30)
        <5>4. h[n + i] = a \o b  BY <3>1, <4>6, <5>1
        <5>5. h[n + (i + 1)] = f[n] \o g[i + 1]  BY <4>3, <4>4, <4>6, <5>1, <5>3, <5>4
        <5> QED  BY <4>1, <5>5
      <4> QED  BY <4>5, <4>6
    <3>2. 0 \in Good  OBVIOUS
    <3> HIDE DEF Good
    <3>3. \A i \in 0..m : i \in Good  BY <2>2, <3>1, <3>2, CountingUp
    <3>4. m \in Good /\ m # 0  BY <2>2, <3>3
    <3> QED  BY <3>4 DEF Good
  <2> QED  BY <2>1, <2>5, <2>6, <2>8, <2>11
<1> QED  BY <1>2, <1>3, <1>4

LEMMA FlattenOne ==
    ASSUME NEW S, NEW w \in Seq(S)
    PROVE  <<w>> \in Seq(Seq(S)) /\ Len(<<w>>) = 1 /\ FlattenSeq(<<w>>) = w
<1>1. <<w>> \in Seq(Seq(S)) /\ Len(<<w>>) = 1 /\ <<w>>[1] = w  OBVIOUS
<1>2. PICK s : s = <<w>>  OBVIOUS
<1>3. 1 \in Nat \ {0} /\ Len(s) = 1 /\ s[1] = w  BY <1>1, <1>2
<1>4. PICK f : FlattenSeq(s) = f[1] /\ Joins(f, s, 1)  BY <1>3, FlattenSeqJoins
<1>5. 0 \in 0..(1 - 1) /\ 0 + 1 = 1  OBVIOUS
<1>6. f[0 + 1] = s[0 + 1]  BY <1>4, <1>5 DEF Joins
<1> QED  BY <1>1, <1>2, <1>3, <1>4, <1>5, <1>6

-----------------------------------------------------------------------------
(* What is left of a sequence without its first elements.                    *)
Rest(s, n) == SubSeq(s, n + 1, Len(s))

LEMMA RestIs ==
    ASSUME NEW S, NEW s \in Seq(S), NEW n \in 0..Len(s)
    PROVE  /\ Rest(s, n) \in Seq(S) /\ Len(Rest(s, n)) = Len(s) - n
           /\ \A i \in 1..(Len(s) - n) : Rest(s, n)[i] = s[n + i]
<1>1. PICK l : l = Len(s)  OBVIOUS
<1>2. l \in Nat /\ n \in 0..l  BY <1>1, LenProperties
<1>3. n + 1 \in Int /\ l \in Int  BY <1>2
<1>4. \A i \in (n + 1)..l : s[i] \in S
  <2>1. \A i \in (n + 1)..l : i \in 1..Len(s)  BY <1>1, <1>2
  <2> QED  BY <2>1, ElementOfSeq
<1>5. /\ SubSeq(s, n + 1, l) \in Seq(S)
      /\ Len(SubSeq(s, n + 1, l)) = IF n + 1 <= l THEN l - (n + 1) + 1 ELSE 0
      /\ \A i \in 1..(l - (n + 1) + 1) : SubSeq(s, n + 1, l)[i] = s[n + 1 + i - 1]
  BY <1>3, <1>4, SubSeqProperties
<1>6. l - (n + 1) + 1 = l - n /\ (~(n + 1 <= l) => l - n = 0)  BY <1>2
<1>7. \A i \in 1..(l - n) : n + 1 + i - 1 = n + i  BY <1>2
<1> QED  BY <1>1, <1>5, <1>6, <1>7 DEF Rest

LEMMA FirstIs ==
    ASSUME NEW S, NEW s \in Seq(S), NEW n \in 0..Len(s)
    PROVE  /\ SubSeq(s, 1, n) \in Seq(S) /\ Len(SubSeq(s, 1, n)) = n
           /\ \A i \in 1..n : SubSeq(s, 1, n)[i] = s[i]
<1>1. PICK l : l = Len(s)  OBVIOUS
<1>2. l \in Nat /\ n \in 0..l  BY <1>1, LenProperties
<1>3. \A i \in 1..n : s[i] \in S
  <2>1. \A i \in 1..n : i \in 1..Len(s)  BY <1>1, <1>2
  <2> QED  BY <2>1, ElementOfSeq
<1>4. /\ SubSeq(s, 1, n) \in Seq(S)
      /\ Len(SubSeq(s, 1, n)) = IF 1 <= n THEN n - 1 + 1 ELSE 0
      /\ \A i \in 1..(n - 1 + 1) : SubSeq(s, 1, n)[i] = s[1 + i - 1]
  BY <1>2, <1>3, SubSeqProperties
<1>5. n - 1 + 1 = n /\ (~(1 <= n) => n = 0)  BY <1>2
<1>6. \A i \in 1..n : 1 + i - 1 = i  BY <1>2
<1> QED  BY <1>4, <1>5, <1>6

LEMMA FirstAndRest ==
    ASSUME NEW S, NEW s \in Seq(S), NEW n \in 0..Len(s)
    PROVE  s = SubSeq(s, 1, n) \o Rest(s, n)
<1>1. PICK a, b, l, u : a = SubSeq(s, 1, n) /\ b = Rest(s, n) /\ l = Len(s) /\ u = a \o b
  OBVIOUS
<1>2. l \in Nat /\ n \in 0..l  BY <1>1, LenProperties
<1>3. a \in Seq(S) /\ Len(a) = n /\ \A i \in 1..n : a[i] = s[i]  BY <1>1, FirstIs
<1>4. b \in Seq(S) /\ Len(b) = l - n /\ \A i \in 1..(l - n) : b[i] = s[n + i]
  BY <1>1, RestIs
<1>5. /\ u \in Seq(S) /\ Len(u) = n + (l - n)
      /\ \A i \in 1..(n + (l - n)) : u[i] = IF i <= n THEN a[i] ELSE b[i - n]
  BY <1>1, <1>3, <1>4, ConcatProperties
<1>6. n + (l - n) = l  BY <1>2
<1>7. \A i \in 1..l : u[i] = s[i]
  <2>1. TAKE i \in 1..l
  <2>2. CASE i <= n
    <3>1. i \in 1..n  BY <2>2, <1>2
    <3> QED  BY <1>3, <1>5, <1>6, <2>2, <3>1
  <2>3. CASE ~(i <= n)
    <3>1. i - n \in 1..(l - n) /\ n + (i - n) = i  BY <2>3, <1>2
    <3>2. u[i] = b[i - n]  BY <1>5, <1>6, <2>3
    <3> QED  BY <1>4, <3>1, <3>2
  <2> QED  BY <2>2, <2>3
<1>8. u = s  BY <1>1, <1>5, <1>6, <1>7, SeqEqual
<1> QED  BY <1>1, <1>8

LEMMA RestOfRest ==
    ASSUME NEW S, NEW s \in Seq(S), NEW n \in 0..Len(s), NEW m \in 0..(Len(s) - n)
    PROVE  Rest(Rest(s, n), m) = Rest(s, n + m)
<1>1. PICK l, a, b, c :
        l = Len(s) /\ a = Rest(s, n) /\ b = Rest(a, m) /\ c = Rest(s, n + m)
  OBVIOUS
<1>2. l \in Nat /\ n \in 0..l /\ m \in 0..(l - n) /\ n + m \in 0..l /\ l - (n + m) = (l - n) - m
  <2>1. l \in Nat /\ n \in 0..l /\ m \in 0..(l - n)  BY <1>1, LenProperties
  <2> QED  BY <2>1
<1>3. a \in Seq(S) /\ Len(a) = l - n /\ \A i \in 1..(l - n) : a[i] = s[n + i]
  BY <1>1, RestIs
<1>4. m \in 0..Len(a)  BY <1>2, <1>3
<1>5. b \in Seq(S) /\ Len(b) = Len(a) - m /\ \A i \in 1..(Len(a) - m) : b[i] = a[m + i]
  BY <1>1, <1>3, <1>4, RestIs
<1>6. c \in Seq(S) /\ Len(c) = l - (n + m) /\ \A i \in 1..(l - (n + m)) : c[i] = s[(n + m) + i]
  BY <1>1, <1>2, RestIs
<1>7. Len(b) = Len(c)  BY <1>2, <1>3, <1>5, <1>6
<1>8. \A i \in 1..Len(b) : b[i] = c[i]
  <2>1. TAKE i \in 1..Len(b)
  <2>2. i \in 1..((l - n) - m)  BY <1>3, <1>5
  <2>3. m + i \in 1..(l - n) /\ n + (m + i) = (n + m) + i  BY <1>2, <2>2
  <2>4. b[i] = a[m + i]  BY <1>3, <1>5, <2>2
  <2>5. c[i] = s[(n + m) + i]  BY <1>2, <1>6, <2>2
  <2> QED  BY <1>3, <2>3, <2>4, <2>5
<1>9. b = c  BY <1>5, <1>6, <1>7, <1>8, SeqEqual
<1> QED  BY <1>1, <1>9

LEMMA RestOfBoth ==
    ASSUME NEW S, NEW s \in Seq(S), NEW t \in Seq(S), NEW n \in 0..Len(s)
    PROVE  Rest(s \o t, n) = Rest(s, n) \o t
<1>1. PICK l, m, u, a, b, c : /\ l = Len(s) /\ m = Len(t) /\ u = s \o t
                              /\ a = Rest(u, n) /\ b = Rest(s, n) /\ c = b \o t
  OBVIOUS
<1>2. l \in Nat /\ m \in Nat /\ n \in 0..l  BY <1>1, LenProperties
<1>3. /\ u \in Seq(S) /\ Len(u) = l + m
      /\ \A i \in 1..(l + m) : u[i] = IF i <= l THEN s[i] ELSE t[i - l]
  BY <1>1, ConcatProperties
<1>4. n \in 0..Len(u)  BY <1>2, <1>3
<1>5. a \in Seq(S) /\ Len(a) = (l + m) - n /\ \A i \in 1..((l + m) - n) : a[i] = u[n + i]
  <2>1. /\ Rest(u, n) \in Seq(S) /\ Len(Rest(u, n)) = Len(u) - n
        /\ \A i \in 1..(Len(u) - n) : Rest(u, n)[i] = u[n + i]
    BY <1>3, <1>4, RestIs
  <2> QED  BY <1>1, <1>3, <2>1
<1>6. b \in Seq(S) /\ Len(b) = l - n /\ \A i \in 1..(l - n) : b[i] = s[n + i]
  BY <1>1, RestIs
<1>7. /\ c \in Seq(S) /\ Len(c) = (l - n) + m
      /\ \A i \in 1..((l - n) + m) : c[i] = IF i <= l - n THEN b[i] ELSE t[i - (l - n)]
  <2>1. /\ c \in Seq(S) /\ Len(c) = Len(b) + Len(t)
        /\ \A i \in 1..(Len(b) + Len(t)) : c[i] = IF i <= Len(b) THEN b[i] ELSE t[i - Len(b)]
    BY <1>1, <1>6, ConcatProperties
  <2> QED  BY <1>1, <1>6, <2>1
<1>8. (l - n) + m = (l + m) - n  BY <1>2
<1>9. \A i \in 1..Len(a) : a[i] = c[i]
  <2>1. TAKE i \in 1..Len(a)
  <2>2. i \in 1..((l + m) - n) /\ n + i \in 1..(l + m)  BY <1>2, <1>5
  <2>3. a[i] = u[n + i]  BY <1>5, <2>2
  <2>4. CASE i <= l - n
    <3>1. i \in 1..(l - n) /\ n + i <= l  BY <1>2, <2>2, <2>4
    <3>2. u[n + i] = s[n + i]  BY <1>3, <2>2, <3>1
    <3>3. c[i] = b[i]  BY <1>7, <1>8, <2>2, <2>4
    <3> QED  BY <1>6, <2>3, <3>1, <3>2, <3>3
  <2>5. CASE ~(i <= l - n)
    <3>1. ~(n + i <= l) /\ (n + i) - l = i - (l - n)  BY <1>2, <2>2, <2>5
    <3>2. u[n + i] = t[(n + i) - l]  BY <1>3, <2>2, <3>1
    <3>3. c[i] = t[i - (l - n)]  BY <1>7, <1>8, <2>2, <2>5
    <3> QED  BY <2>3, <3>1, <3>2, <3>3
  <2> QED  BY <2>4, <2>5
<1>10. a = c  BY <1>5, <1>7, <1>8, <1>9, SeqEqual
<1> QED  BY <1>1, <1>10

LEMMA RestOfAll ==
    ASSUME NEW S, NEW s \in Seq(S)
    PROVE  Rest(s, Len(s)) = <<>> /\ Rest(s, 0) = s
<1>1. PICK l : l = Len(s) /\ l \in Nat  BY LenProperties
<1>2. l + 1 \in Int /\ l \in Int /\ l < l + 1  BY <1>1
<1>3. SubSeq(s, l + 1, l) = <<>>  BY <1>2, SubSeqEmpty
<1>4. SubSeq(s, 1, l) = s  BY <1>1, SubSeqFull
<1>5. 0 + 1 = 1  OBVIOUS
<1> QED  BY <1>1, <1>3, <1>4, <1>5 DEF Rest

LEMMA RestOfSecond ==
    ASSUME NEW S, NEW s \in Seq(S), NEW t \in Seq(S), NEW n \in 0..Len(t)
    PROVE  Rest(s \o t, Len(s) + n) = Rest(t, n)
<1>1. PICK l, m, u : l = Len(s) /\ m = Len(t) /\ u = s \o t  OBVIOUS
<1>2. l \in Nat /\ m \in Nat /\ n \in 0..m  BY <1>1, LenProperties
<1>3. u \in Seq(S) /\ Len(u) = l + m  BY <1>1, ConcatProperties
<1>4. l \in 0..Len(s)  BY <1>1, <1>2
<1>5. Rest(u, l) = Rest(s, l) \o t  BY <1>1, <1>4, RestOfBoth
<1>6. Rest(s, l) = <<>>  BY <1>1, RestOfAll
<1>7. Rest(u, l) = t  BY <1>5, <1>6, ConcatEmptySeq
<1>8. l \in 0..Len(u) /\ n \in 0..(Len(u) - l)  BY <1>2, <1>3
<1>9. Rest(Rest(u, l), n) = Rest(u, l + n)  BY <1>3, <1>8, RestOfRest
<1> QED  BY <1>1, <1>7, <1>9

-----------------------------------------------------------------------------
(* The stream of frames of some lines.                                       *)
Text == Messages \X BOOLEAN
Bytes == Text \cup {Newline}
Framed(ls) == [i \in 1..Len(ls) |-> Append(ls[i], Newline)]
Stream(ls) == FlattenSeq(Framed(ls))

LEMMA BytesAre == Text \subseteq Bytes /\ Newline \in Bytes /\ Newline \notin Text
BY NewlineAssumption DEF Bytes, Text

LEMMA FrameIs ==
    ASSUME NEW w \in Seq(Text)
    PROVE  /\ Append(w, Newline) \in Seq(Bytes) /\ w \in Seq(Bytes)
           /\ Len(Append(w, Newline)) = Len(w) + 1
           /\ \A i \in 1..Len(w) : Append(w, Newline)[i] = w[i]
           /\ Append(w, Newline)[Len(w) + 1] = Newline
<1>1. w \in Seq(Bytes)  BY BytesAre, SeqMonotonic
<1> QED  BY <1>1, BytesAre, AppendProperties

LEMMA FramedIs ==
    ASSUME NEW ls \in Seq(Seq(Text))
    PROVE  /\ Framed(ls) \in Seq(Seq(Bytes)) /\ Len(Framed(ls)) = Len(ls)
           /\ \A i \in 1..Len(ls) : Framed(ls)[i] = Append(ls[i], Newline)
<1>1. PICK n, h : n = Len(ls) /\ h = Framed(ls)  OBVIOUS
<1>2. n \in Nat  BY <1>1, LenProperties
<1>3. \A i \in 1..n : ls[i] \in Seq(Text)  BY <1>1, ElementOfSeq
<1>4. \A i \in 1..n : Append(ls[i], Newline) \in Seq(Bytes)  BY <1>3, FrameIs
<1>5. h = [i \in 1..n |-> Append(ls[i], Newline)]  BY <1>1 DEF Framed
<1>6. h \in [1..n -> Seq(Bytes)]  BY <1>4, <1>5
<1>7. h \in Seq(Seq(Bytes))  BY <1>2, <1>6, SeqDef
<1>8. Len(h) = n  BY <1>2, <1>6, RowIs
<1> QED  BY <1>1, <1>5, <1>7, <1>8

LEMMA StreamIs ==
    ASSUME NEW ls \in Seq(Seq(Text))
    PROVE  Stream(ls) \in Seq(Bytes)
BY FramedIs, FlattenTyped DEF Stream

LEMMA StreamOfNone == Stream(<<>>) = <<>>
<1>1. Len(<<>>) = 0 /\ <<>> \in Seq(Seq(Text))  BY EmptySeq
<1>2. Framed(<<>>) \in Seq(Seq(Bytes)) /\ Len(Framed(<<>>)) = 0  BY <1>1, FramedIs
<1>3. Framed(<<>>) = <<>>  BY <1>2, EmptySeq
<1> QED  BY <1>3, FlattenNone DEF Stream

LEMMA StreamOfBoth ==
    ASSUME NEW ls \in Seq(Seq(Text)), NEW ms \in Seq(Seq(Text))
    PROVE  Stream(ls \o ms) = Stream(ls) \o Stream(ms)
<1>1. PICK l, m, u, a, b, c, d : /\ l = Len(ls) /\ m = Len(ms) /\ u = ls \o ms
                                 /\ a = Framed(ls) /\ b = Framed(ms) /\ c = Framed(u)
                                 /\ d = a \o b
  OBVIOUS
<1>2. l \in Nat /\ m \in Nat  BY <1>1, LenProperties
<1>3. /\ u \in Seq(Seq(Text)) /\ Len(u) = l + m
      /\ \A i \in 1..(l + m) : u[i] = IF i <= l THEN ls[i] ELSE ms[i - l]
  BY <1>1, ConcatProperties
<1>4. /\ a \in Seq(Seq(Bytes)) /\ Len(a) = l
      /\ \A i \in 1..l : a[i] = Append(ls[i], Newline)
  BY <1>1, FramedIs
<1>5. /\ b \in Seq(Seq(Bytes)) /\ Len(b) = m
      /\ \A i \in 1..m : b[i] = Append(ms[i], Newline)
  BY <1>1, FramedIs
<1>6. /\ c \in Seq(Seq(Bytes)) /\ Len(c) = l + m
      /\ \A i \in 1..(l + m) : c[i] = Append(u[i], Newline)
  <2>1. /\ Framed(u) \in Seq(Seq(Bytes)) /\ Len(Framed(u)) = Len(u)
        /\ \A i \in 1..Len(u) : Framed(u)[i] = Append(u[i], Newline)
    BY <1>3, FramedIs
  <2> QED  BY <1>1, <1>3, <2>1
<1>7. /\ d \in Seq(Seq(Bytes)) /\ Len(d) = l + m
      /\ \A i \in 1..(l + m) : d[i] = IF i <= l THEN a[i] ELSE b[i - l]
  <2>1. /\ a \o b \in Seq(Seq(Bytes)) /\ Len(a \o b) = Len(a) + Len(b)
        /\ \A i \in 1..(Len(a) + Len(b)) : (a \o b)[i] = IF i <= Len(a) THEN a[i] ELSE b[i - Len(a)]
    BY <1>4, <1>5, ConcatProperties
  <2> QED  BY <1>1, <1>4, <1>5, <2>1
<1>8. \A i \in 1..Len(c) : c[i] = d[i]
  <2>1. TAKE i \in 1..Len(c)
  <2>2. i \in 1..(l + m)  BY <1>6
  <2>3. CASE i <= l
    <3>1. i \in 1..l  BY <1>2, <2>2, <2>3
    <3> QED  BY <1>3, <1>4, <1>6, <1>7, <2>2, <2>3, <3>1
  <2>4. CASE ~(i <= l)
    <3>1. i - l \in 1..m  BY <1>2, <2>2, <2>4
    <3>2. c[i] = Append(ms[i - l], Newline)  BY <1>3, <1>6, <2>2, <2>4
    <3>3. d[i] = b[i - l]  BY <1>7, <2>2, <2>4
    <3> QED  BY <1>5, <3>1, <3>2, <3>3
  <2> QED  BY <2>3, <2>4
<1>9. c = d  BY <1>6, <1>7, <1>8, SeqEqual
<1>10. FlattenSeq(d) = FlattenSeq(a) \o FlattenSeq(b)  BY <1>1, <1>4, <1>5, FlattenBoth
<1> QED  BY <1>1, <1>9, <1>10 DEF Stream

LEMMA StreamOfOne ==
    ASSUME NEW w \in Seq(Text)
    PROVE  <<w>> \in Seq(Seq(Text)) /\ Stream(<<w>>) = Append(w, Newline)
<1>1. <<w>> \in Seq(Seq(Text)) /\ Len(<<w>>) = 1 /\ <<w>>[1] = w  OBVIOUS
<1>2. PICK ls, a, f : ls = <<w>> /\ a = Append(w, Newline) /\ f = Framed(ls)  OBVIOUS
<1>3. ls \in Seq(Seq(Text)) /\ Len(ls) = 1 /\ ls[1] = w  BY <1>1, <1>2
<1>4. f \in Seq(Seq(Bytes)) /\ Len(f) = 1
  BY <1>2, <1>3, FramedIs
<1>5. f[1] = a
  <2>1. 1 \in 1..Len(ls)  BY <1>3
  <2>2. Framed(ls)[1] = Append(ls[1], Newline)  BY <1>3, <2>1, FramedIs
  <2> QED  BY <1>2, <1>3, <2>2
<1>6. a \in Seq(Bytes)  BY <1>2, FrameIs
<1>7. <<a>> \in Seq(Seq(Bytes)) /\ Len(<<a>>) = 1 /\ <<a>>[1] = a  BY <1>6
<1>8. \A i \in 1..Len(f) : f[i] = <<a>>[i]  BY <1>4, <1>5, <1>7
<1>9. f = <<a>>  BY <1>4, <1>7, <1>8, SeqEqual
<1>10. FlattenSeq(<<a>>) = a  BY <1>6, FlattenOne
<1> QED  BY <1>1, <1>2, <1>9, <1>10 DEF Stream

\* The first line of a stream.
LEMMA FirstFrame ==
    ASSUME NEW ls \in Seq(Seq(Text)), ls # <<>>
    PROVE  /\ Head(ls) \in Seq(Text) /\ Tail(ls) \in Seq(Seq(Text))
           /\ ls = <<Head(ls)>> \o Tail(ls)
           /\ Stream(ls) = Append(Head(ls), Newline) \o Stream(Tail(ls))
<1>1. PICK w, ms, one : w = Head(ls) /\ ms = Tail(ls) /\ one = <<w>>  OBVIOUS
<1>2. /\ w \in Seq(Text) /\ ms \in Seq(Seq(Text)) /\ Len(ms) = Len(ls) - 1
      /\ \A i \in 1..Len(ms) : ms[i] = ls[i + 1]
  BY <1>1, HeadTailProperties
<1>3. one \in Seq(Seq(Text)) /\ Stream(one) = Append(w, Newline)  BY <1>1, <1>2, StreamOfOne
<1>4. Len(one) = 1 /\ one[1] = w  BY <1>1
<1>5. /\ one \o ms \in Seq(Seq(Text)) /\ Len(one \o ms) = 1 + Len(ms)
      /\ \A i \in 1..(1 + Len(ms)) : (one \o ms)[i] = IF i <= 1 THEN one[i] ELSE ms[i - 1]
  <2>1. /\ one \o ms \in Seq(Seq(Text)) /\ Len(one \o ms) = Len(one) + Len(ms)
        /\ \A i \in 1..(Len(one) + Len(ms)) :
              (one \o ms)[i] = IF i <= Len(one) THEN one[i] ELSE ms[i - Len(one)]
    BY <1>2, <1>3, ConcatProperties
  <2> QED  BY <1>4, <2>1
<1>6. Len(ls) \in Nat \ {0}  BY EmptySeq
<1>7. ls[1] = w  BY <1>1
<1>8. \A i \in 1..Len(ls) : ls[i] = (one \o ms)[i]
  <2>1. TAKE i \in 1..Len(ls)
  <2>2. i \in 1..(1 + Len(ms))  BY <1>2, <1>6
  <2>3. CASE i = 1
    <3>1. (one \o ms)[1] = one[1]  BY <1>5, <2>2, <2>3
    <3> QED  BY <1>4, <1>7, <2>3, <3>1
  <2>4. CASE i # 1
    <3>1. ~(i <= 1) /\ i - 1 \in 1..Len(ms) /\ (i - 1) + 1 = i  BY <1>2, <1>6, <2>4
    <3>2. (one \o ms)[i] = ms[i - 1]  BY <1>5, <2>2, <3>1
    <3> QED  BY <1>2, <3>1, <3>2
  <2> QED  BY <2>3, <2>4
<1>9. Len(one \o ms) = Len(ls)  BY <1>2, <1>5, <1>6
<1>10. ls = one \o ms  BY <1>5, <1>8, <1>9, SeqEqual
<1>11. Stream(one \o ms) = Stream(one) \o Stream(ms)  BY <1>2, <1>3, StreamOfBoth
<1> QED  BY <1>1, <1>2, <1>3, <1>10, <1>11

\* The first newline of b is behind e bytes; b and what comes later begin with the line w.
NewlineIn(b, e) ==
    /\ e \in 0..(Len(b) - 1) /\ b[e + 1] = Newline
    /\ \A i \in 1..e : b[i] # Newline
Begins(b, later, w, more) ==
    /\ b \in Seq(Bytes) /\ later \in Seq(Bytes) /\ w \in Seq(Text) /\ more \in Seq(Bytes)
    /\ b \o later = Append(w, Newline) \o more

\* The bytes in front of the first newline are the first line.
LEMMA LineIsFirst ==
    ASSUME NEW b, NEW later, NEW w, NEW more, Begins(b, later, w, more),
           NEW e, NewlineIn(b, e)
    PROVE  SubSeq(b, 1, e) = w /\ Rest(b, e + 1) \o later = more
<1> USE DEF NewlineIn, Begins
<1>1. PICK l, m, z, f : l = Len(b) /\ m = Len(w) /\ z = b \o later /\ f = Append(w, Newline)
  OBVIOUS
<1>2. l \in Nat /\ m \in Nat /\ e \in 0..(l - 1) /\ e + 1 \in 0..l /\ Len(later) \in Nat
      /\ Len(more) \in Nat
  <2>1. l \in Nat /\ m \in Nat /\ e \in 0..(l - 1) /\ Len(later) \in Nat /\ Len(more) \in Nat
    BY <1>1, LenProperties
  <2> QED  BY <2>1
<1>3. /\ f \in Seq(Bytes) /\ w \in Seq(Bytes) /\ Len(f) = m + 1
      /\ (\A i \in 1..m : f[i] = w[i]) /\ f[m + 1] = Newline
  BY <1>1, FrameIs
<1>4. \A i \in 1..m : w[i] # Newline
  <2>1. \A i \in 1..m : w[i] \in Text  BY <1>1, ElementOfSeq
  <2> QED  BY <2>1, BytesAre
<1>5. \A i \in 1..l : z[i] = b[i]
  <2>1. \A i \in 1..(Len(b) + Len(later)) : (b \o later)[i] = IF i <= Len(b) THEN b[i] ELSE later[i - Len(b)]
    BY ConcatProperties
  <2>2. \A i \in 1..l : i \in 1..(Len(b) + Len(later)) /\ i <= Len(b)  BY <1>1, <1>2
  <2> QED  BY <1>1, <2>1, <2>2
<1>6. \A i \in 1..(m + 1) : z[i] = f[i]
  <2>1. \A i \in 1..(Len(f) + Len(more)) : (f \o more)[i] = IF i <= Len(f) THEN f[i] ELSE more[i - Len(f)]
    BY <1>3, ConcatProperties
  <2>2. \A i \in 1..(m + 1) : i \in 1..(Len(f) + Len(more)) /\ i <= Len(f)  BY <1>2, <1>3
  <2> QED  BY <1>1, <2>1, <2>2
<1>7. m = e
  <2>1. CASE m < e
    <3>1. m + 1 \in 1..e /\ m + 1 \in 1..l /\ m + 1 \in 1..(m + 1)  BY <1>2, <2>1
    <3>2. z[m + 1] = Newline  BY <1>3, <1>6, <3>1
    <3>3. z[m + 1] = b[m + 1]  BY <1>5, <3>1
    <3> QED  BY <3>1, <3>2, <3>3
  <2>2. CASE m > e
    <3>1. e + 1 \in 1..m /\ e + 1 \in 1..l /\ e + 1 \in 1..(m + 1)  BY <1>2, <2>2
    <3>2. z[e + 1] = Newline  BY <1>5, <3>1
    <3>3. z[e + 1] = w[e + 1]  BY <1>3, <1>6, <3>1
    <3> QED  BY <1>4, <3>1, <3>2, <3>3
  <2> QED  BY <1>2, <2>1, <2>2
<1>8. SubSeq(b, 1, e) = w
  <2>1. e \in 0..Len(b)  BY <1>1, <1>2
  <2>2. /\ SubSeq(b, 1, e) \in Seq(Bytes) /\ Len(SubSeq(b, 1, e)) = e
        /\ \A i \in 1..e : SubSeq(b, 1, e)[i] = b[i]
    BY <2>1, FirstIs
  <2>3. \A i \in 1..e : b[i] = w[i]
    <3>1. \A i \in 1..e : i \in 1..l /\ i \in 1..m /\ i \in 1..(m + 1)  BY <1>2, <1>7
    <3> QED  BY <1>3, <1>5, <1>6, <3>1
  <2>4. \A i \in 1..Len(SubSeq(b, 1, e)) : SubSeq(b, 1, e)[i] = w[i]  BY <2>2, <2>3
  <2>5. Len(SubSeq(b, 1, e)) = Len(w)  BY <1>1, <1>7, <2>2
  <2> QED  BY <1>3, <2>2, <2>4, <2>5, SeqEqual
<1>9. Rest(z, e + 1) = Rest(b, e + 1) \o later
  <2>1. e + 1 \in 0..Len(b)  BY <1>1, <1>2
  <2> QED  BY <1>1, <2>1, RestOfBoth
<1>10. Rest(z, e + 1) = more
  <2>1. 0 \in 0..Len(more)  BY <1>2
  <2>2. Rest(f \o more, Len(f) + 0) = Rest(more, 0)  BY <1>3, <2>1, RestOfSecond
  <2>3. Len(f) + 0 = e + 1  BY <1>2, <1>3, <1>7
  <2>4. Rest(more, 0) = more  BY RestOfAll
  <2> QED  BY <1>1, <2>2, <2>3, <2>4
<1> QED  BY <1>8, <1>9, <1>10

-----------------------------------------------------------------------------
(* The parser.                                                               *)
ParserFields == [chunks : Seq(Seq(Bytes)), offset : Nat, total : Nat, scanned : Nat]
IsBuffer(p) == p \in ParserFields /\ p.offset <= Len(Joined(p.chunks))
IsParser(p) == IsBuffer(p) /\ p.total = Len(Buffered(p))
Searched(p, n) == \A i \in 1..n : Buffered(p)[i] # Newline
\* Between two chunks: everything was searched.
AtRest(p) == IsParser(p) /\ p.scanned = p.total /\ Searched(p, p.total)

LEMMA BufferIs ==
    ASSUME NEW p, IsBuffer(p)
    PROVE  /\ Joined(p.chunks) \in Seq(Bytes) /\ p.offset \in 0..Len(Joined(p.chunks))
           /\ Buffered(p) = Rest(Joined(p.chunks), p.offset)
           /\ Buffered(p) \in Seq(Bytes) /\ Len(Buffered(p)) = Len(Joined(p.chunks)) - p.offset
           /\ Len(Buffered(p)) \in Nat
<1>1. Joined(p.chunks) \in Seq(Bytes)
  BY FlattenTyped DEF IsBuffer, ParserFields, Joined
<1>2. Len(Joined(p.chunks)) \in Nat  BY <1>1, LenProperties
<1>3. p.offset \in 0..Len(Joined(p.chunks))  BY <1>2 DEF IsBuffer, ParserFields
<1>4. Buffered(p) = Rest(Joined(p.chunks), p.offset)  BY DEF Buffered, Rest
<1>5. Buffered(p) \in Seq(Bytes) /\ Len(Buffered(p)) = Len(Joined(p.chunks)) - p.offset
  BY <1>1, <1>3, <1>4, RestIs
<1>6. Len(Buffered(p)) \in Nat  BY <1>5, LenProperties
<1> QED  BY <1>1, <1>3, <1>4, <1>5, <1>6

LEMMA EmptyAtRest == AtRest(EmptyParser) /\ Buffered(EmptyParser) = <<>>
<1>1. EmptyParser \in ParserFields
  <2>1. <<>> \in Seq(Seq(Bytes)) /\ 0 \in Nat  BY EmptySeq
  <2> QED  BY <2>1 DEF EmptyParser, ParserFields
<1>2. /\ EmptyParser.chunks = <<>> /\ EmptyParser.offset = 0
      /\ EmptyParser.total = 0 /\ EmptyParser.scanned = 0
  BY DEF EmptyParser
<1>3. Joined(<<>>) = <<>> /\ Len(<<>>) = 0  BY FlattenNone, EmptySeq DEF Joined
<1>4. IsBuffer(EmptyParser)  BY <1>1, <1>2, <1>3 DEF IsBuffer
<1>5. Len(Buffered(EmptyParser)) = 0 /\ Buffered(EmptyParser) \in Seq(Bytes)
  BY <1>2, <1>3, <1>4, BufferIs
<1>6. Buffered(EmptyParser) = <<>>  BY <1>5, EmptySeq
<1> QED  BY <1>2, <1>4, <1>5, <1>6 DEF AtRest, IsParser, Searched

\* The greatest of some numbers up to N.
LEMMA GreatestOf ==
    ASSUME NEW Q, NEW N \in Nat, 0 \in Q
    PROVE  \E k \in 0..N : k \in Q /\ \A j \in (k + 1)..N : j \notin Q
<1> DEFINE Good == {n \in Nat : \E k \in 0..n : k \in Q /\ \A j \in (k + 1)..n : j \notin Q}
<1>1. 0 \in Good  OBVIOUS
<1>2. ASSUME NEW n \in 0..(N - 1), n \in Good PROVE n + 1 \in Good
  <2>1. PICK k \in 0..n : k \in Q /\ \A j \in (k + 1)..n : j \notin Q  BY <1>2
  <2>2. CASE n + 1 \in Q  BY <2>2
  <2>3. CASE n + 1 \notin Q
    <3>1. k \in 0..(n + 1)  OBVIOUS
    <3>2. \A j \in (k + 1)..(n + 1) : j \in (k + 1)..n \/ j = n + 1  OBVIOUS
    <3>3. \A j \in (k + 1)..(n + 1) : j \notin Q  BY <2>1, <2>3, <3>2
    <3> QED  BY <2>1, <3>1, <3>3
  <2> QED  BY <2>2, <2>3
<1> HIDE DEF Good
<1>3. \A n \in 0..N : n \in Good  BY <1>1, <1>2, CountingUp
<1> QED  BY <1>3 DEF Good

LEMMA WholeChunksIs ==
    ASSUME NEW p, IsBuffer(p), NEW count \in Nat
    PROVE  /\ WholeChunks(p, count) \in 0..Len(p.chunks)
           /\ Upto(p, WholeChunks(p, count)) <= p.offset + count
<1>1. p.chunks \in Seq(Seq(Bytes)) /\ p.offset \in Nat  BY DEF IsBuffer, ParserFields
<1>2. Len(p.chunks) \in Nat  BY <1>1, LenProperties
<1> DEFINE Q == {k \in 0..Len(p.chunks) : Upto(p, k) <= p.offset + count}
<1>3. 0 \in Q
  <2>1. SubSeq(p.chunks, 1, 0) = <<>>  BY SubSeqEmpty
  <2>2. Upto(p, 0) = 0  BY <2>1, FlattenNone, EmptySeq DEF Upto, Joined
  <2> QED  BY <1>1, <1>2, <2>2
<1>4. \E k \in 0..Len(p.chunks) : k \in Q /\ \A j \in (k + 1)..Len(p.chunks) : j \notin Q
  <2> HIDE DEF Q
  <2> QED  BY <1>2, <1>3, GreatestOf
<1>5. \A k \in 0..Len(p.chunks) : Upto(p, k) \in Nat
  <2>1. TAKE k \in 0..Len(p.chunks)
  <2>2. SubSeq(p.chunks, 1, k) \in Seq(Seq(Bytes))  BY <1>1, FirstIs
  <2>3. Joined(SubSeq(p.chunks, 1, k)) \in Seq(Bytes)  BY <2>2, FlattenTyped DEF Joined
  <2> QED  BY <2>3, LenProperties DEF Upto
<1>6. \E k \in 0..Len(p.chunks) : /\ Upto(p, k) <= p.offset + count
                                  /\ \A j \in (k + 1)..Len(p.chunks) : Upto(p, j) > p.offset + count
  <2>1. PICK k \in 0..Len(p.chunks) : k \in Q /\ \A j \in (k + 1)..Len(p.chunks) : j \notin Q
    BY <1>4
  <2>2. ASSUME NEW j \in (k + 1)..Len(p.chunks) PROVE Upto(p, j) > p.offset + count
    <3>1. j \in 0..Len(p.chunks)  BY <1>2
    <3>2. ~(Upto(p, j) <= p.offset + count)  BY <2>1, <3>1
    <3> QED  BY <1>1, <1>5, <3>1, <3>2
  <2> QED  BY <2>1, <2>2
<1> HIDE DEF Q
<1> QED  BY <1>6 DEF WholeChunks

\* consumeFront drops that many bytes and no other, wherever the chunks are cut.
LEMMA consumeFrontDrops ==
    ASSUME NEW p, IsBuffer(p), NEW count \in 0..Len(Buffered(p))
    PROVE  /\ IsBuffer(consumeFront(p, count))
           /\ consumeFront(p, count).total = p.total
           /\ Buffered(consumeFront(p, count)) = Rest(Buffered(p), count)
<1>1. PICK q, k, x, o, c, pre, suf :
        /\ q = consumeFront(p, count) /\ k = WholeChunks(p, count) /\ x = p.chunks
        /\ o = p.offset /\ c = o + count /\ pre = SubSeq(x, 1, k) /\ suf = Rest(x, k)
  OBVIOUS
<1>2. x \in Seq(Seq(Bytes)) /\ o \in Nat /\ count \in Nat /\ c \in Nat
  <2>1. Len(Buffered(p)) \in Nat  BY BufferIs
  <2> QED  BY <1>1, <2>1 DEF IsBuffer, ParserFields
<1>3. k \in 0..Len(x) /\ Len(Joined(pre)) <= c
  BY <1>1, <1>2, WholeChunksIs DEF Upto
<1>4. pre \in Seq(Seq(Bytes)) /\ suf \in Seq(Seq(Bytes)) /\ x = pre \o suf
  BY <1>1, <1>2, <1>3, FirstIs, RestIs, FirstAndRest
<1>5. PICK a, b, z, n : a = Joined(pre) /\ b = Joined(suf) /\ z = Joined(x) /\ n = Len(a)
  OBVIOUS
<1>6. a \in Seq(Bytes) /\ b \in Seq(Bytes) /\ z = a \o b
  <2>1. a \in Seq(Bytes) /\ b \in Seq(Bytes)  BY <1>4, <1>5, FlattenTyped DEF Joined
  <2>2. FlattenSeq(pre \o suf) = FlattenSeq(pre) \o FlattenSeq(suf)  BY <1>4, FlattenBoth
  <2> QED  BY <1>4, <1>5, <2>1, <2>2 DEF Joined
<1>7. n \in Nat /\ Len(b) \in Nat /\ Len(z) = n + Len(b) /\ z \in Seq(Bytes)
  BY <1>5, <1>6, LenProperties, ConcatProperties
<1>8. c <= Len(z) /\ n <= c /\ c - n \in 0..Len(b) /\ n + (c - n) = c /\ o \in 0..Len(z)
      /\ count \in 0..(Len(z) - o)
  <2>1. /\ p.offset \in 0..Len(Joined(p.chunks))
        /\ Len(Buffered(p)) = Len(Joined(p.chunks)) - p.offset
    BY BufferIs
  <2>2. o \in 0..Len(z) /\ count \in 0..(Len(z) - o)  BY <1>1, <1>5, <2>1
  <2>3. c = o + count /\ n <= c  BY <1>1, <1>3, <1>5
  <2> QED  BY <1>2, <1>7, <2>2, <2>3
<1>9. Rest(b, c - n) = Rest(z, c)
  <2>1. Rest(a \o b, Len(a) + (c - n)) = Rest(b, c - n)  BY <1>6, <1>8, RestOfSecond
  <2> QED  BY <1>5, <1>6, <1>8, <2>1
<1>10. Rest(z, c) = Rest(Buffered(p), count)
  <2>1. Buffered(p) = Rest(z, o)  BY <1>1, <1>5, BufferIs
  <2>2. Rest(Rest(z, o), count) = Rest(z, o + count)  BY <1>7, <1>8, RestOfRest
  <2> QED  BY <1>1, <2>1, <2>2
<1>11. /\ q.chunks = suf /\ q.offset = c - n /\ q.total = p.total
       /\ q \in ParserFields
  <2>1. Upto(p, k) = n  BY <1>1, <1>5 DEF Upto
  <2>2. q = [p EXCEPT !.chunks = suf, !.offset = c - n]
    <3>1. q = [p EXCEPT !.chunks = SubSeq(x, k + 1, Len(x)), !.offset = o + count - n]
      BY <1>1, <2>1 DEF consumeFront
    <3>2. o + count - n = c - n  BY <1>1, <1>2, <1>7
    <3>3. SubSeq(x, k + 1, Len(x)) = suf  BY <1>1 DEF Rest
    <3> QED  BY <3>1, <3>2, <3>3
  <2>3. p \in ParserFields  BY DEF IsBuffer
  <2>4. c - n \in Nat  BY <1>2, <1>7, <1>8
  <2> QED  BY <1>4, <2>2, <2>3, <2>4 DEF ParserFields
<1>12. IsBuffer(q)  BY <1>5, <1>7, <1>8, <1>11 DEF IsBuffer
<1>13. Buffered(q) = Rest(b, c - n)  BY <1>5, <1>11 DEF Buffered, Rest
<1> QED  BY <1>1, <1>9, <1>10, <1>11, <1>12, <1>13

LEMMA LeastOf ==
    ASSUME NEW Q, Q \subseteq Nat, Q # {}
    PROVE  \E m \in Q : \A n \in Q : m <= n
<1> DEFINE R == {x \in Nat \X Nat : x[1] < x[2]}
<1>1. IsWellFoundedOn(R, Nat)
  BY NatLessThanWellFounded, Zenon DEF OpToRel
<1>2. \A m, n \in Nat : n < m => <<n, m>> \in R
  OBVIOUS
<1> HIDE DEF R
<1>3. PICK m \in Q : \A n \in Q : ~(<<n, m>> \in R)
  BY <1>1, WFMin
<1>4. \A n \in Q : ~(n < m)  BY <1>2, <1>3
<1>5. \A n \in Q : m <= n  BY <1>4
<1> QED  BY <1>5

LEMMA findNewlineIs ==
    ASSUME NEW p, IsParser(p), NEW from \in 0..p.total, Searched(p, from),
           NEW e, e = findNewline(p, from)
    PROVE  \/ e = -1 /\ Searched(p, p.total)
           \/ /\ e \in 0..(Len(Buffered(p)) - 1) /\ Buffered(p)[e + 1] = Newline
              /\ \A i \in 1..e : Buffered(p)[i] # Newline
<1>1. PICK b, l : b = Buffered(p) /\ l = Len(b)  OBVIOUS
<1>2. l \in Nat /\ from \in 0..l /\ p.total = l  BY <1>1, BufferIs DEF IsParser
<1>3. PICK found : found = {i \in from..(l - 1) : b[i + 1] = Newline}  OBVIOUS
<1>4. e = IF found = {} THEN -1 ELSE CHOOSE i \in found : \A j \in found : i <= j
  BY <1>1, <1>3 DEF findNewline
<1>5. \A i \in 1..from : b[i] # Newline  BY <1>1 DEF Searched
<1>6. CASE found = {}
  <2>1. ASSUME NEW i \in 1..l PROVE b[i] # Newline
    <3>1. CASE i \in 1..from  BY <1>5, <3>1
    <3>2. CASE i \notin 1..from
      <4>1. i - 1 \in from..(l - 1) /\ (i - 1) + 1 = i  BY <1>2, <3>2
      <4> QED  BY <1>3, <1>6, <4>1
    <3> QED  BY <3>1, <3>2
  <2>2. Searched(p, p.total)  BY <1>1, <1>2, <2>1 DEF Searched
  <2> QED  BY <1>4, <1>6, <2>2
<1>7. CASE found # {}
  <2>1. found \subseteq Nat  BY <1>2, <1>3
  <2>2. \E i \in found : \A j \in found : i <= j  BY <1>7, <2>1, LeastOf
  <2>3. e \in found /\ \A j \in found : e <= j
    <3> HIDE <1>3
    <3> QED  BY <1>4, <1>7, <2>2
  <2>4. e \in 0..(l - 1) /\ b[e + 1] = Newline  BY <1>2, <1>3, <2>3
  <2>5. ASSUME NEW i \in 1..e PROVE b[i] # Newline
    <3>1. CASE i \in 1..from  BY <1>5, <3>1
    <3>2. CASE i \notin 1..from
      <4>1. i - 1 \in from..(l - 1) /\ (i - 1) + 1 = i /\ ~(e <= i - 1)  BY <1>2, <2>4, <3>2
      <4>2. i - 1 \notin found  BY <2>3, <4>1
      <4> QED  BY <1>3, <4>1, <4>2
    <3> QED  BY <3>1, <3>2
  <2> QED  BY <1>1, <2>4, <2>5
<1> QED  BY <1>6, <1>7

(* The loop of push. *)
PassStart(p, from, lines) == [parser |-> p, from |-> from, lines |-> lines]
PassStep(s) ==
    IF findNewline(s.parser, s.from) < 0 THEN s
    ELSE lineOut(s, findNewline(s.parser, s.from))
SearchedAll(q) == [q EXCEPT !.scanned = q.total]
PassesTo(start, N, f) == f = [n \in 0..N |-> IF n = 0 THEN start ELSE PassStep(f[n - 1])]

LEMMA PassesGoOn ==
    ASSUME NEW start, NEW n \in Nat, NEW f, PassesTo(start, n, f)
    PROVE  \E g : PassesTo(start, n + 1, g)
<1> DEFINE g == [i \in 0..(n + 1) |-> IF i = n + 1 THEN PassStep(f[n]) ELSE f[i]]
<1>1. \A i \in 0..n : f[i] = IF i = 0 THEN start ELSE PassStep(f[i - 1])
  BY DEF PassesTo
<1>2. \A i \in 0..n : i \in 0..(n + 1) /\ i # n + 1  OBVIOUS
<1>3. \A i \in 0..n : g[i] = f[i]  BY <1>2
<1>4. g[n + 1] = PassStep(f[n])  OBVIOUS
<1>5. g = [i \in 0..(n + 1) |-> g[i]]  OBVIOUS
<1> HIDE DEF g
<1>6. ASSUME NEW i \in 0..(n + 1)
      PROVE  g[i] = IF i = 0 THEN start ELSE PassStep(g[i - 1])
  <2>1. CASE i = n + 1
    <3>1. n \in 0..n /\ i - 1 = n /\ i # 0  BY <2>1
    <3>2. g[n] = f[n]  BY <1>3, <3>1
    <3>3. g[i] = PassStep(g[n])  BY <1>4, <2>1, <3>2
    <3> QED  BY <3>1, <3>3
  <2>2. CASE i \in 0..n
    <3>1. g[i] = f[i] /\ f[i] = IF i = 0 THEN start ELSE PassStep(f[i - 1])  BY <1>1, <1>3, <2>2
    <3>2. i # 0 => i - 1 \in 0..n  BY <2>2
    <3>3. i # 0 => g[i - 1] = f[i - 1]  BY <1>3, <3>2
    <3> QED  BY <3>1, <3>3
  <2>3. i \in 0..n \/ i = n + 1  OBVIOUS
  <2> QED  BY <2>1, <2>2, <2>3
<1>7. g = [i \in 0..(n + 1) |-> IF i = 0 THEN start ELSE PassStep(g[i - 1])]
  BY <1>5, <1>6
<1> QED  BY <1>7 DEF PassesTo

LEMMA PassesAre ==
    ASSUME NEW start, NEW N \in Nat
    PROVE  \E f : PassesTo(start, N, f)
<1> DEFINE Good == {n \in Nat : \E f : PassesTo(start, n, f)}
<1>1. 0 \in Good
  <2> DEFINE f == [n \in 0..0 |-> start]
  <2>1. f = [n \in 0..0 |-> IF n = 0 THEN start ELSE PassStep(f[n - 1])]
    <3>1. \A n \in 0..0 : n = 0  OBVIOUS
    <3> QED  BY <3>1
  <2>2. PassesTo(start, 0, f)  BY <2>1 DEF PassesTo
  <2> QED  BY <2>2
<1>2. ASSUME NEW n \in 0..(N - 1), n \in Good PROVE n + 1 \in Good
  <2>1. PICK f : PassesTo(start, n, f)  BY <1>2
  <2>2. n \in Nat /\ n + 1 \in Nat  OBVIOUS
  <2> QED  BY <2>1, <2>2, PassesGoOn
<1> HIDE DEF Good
<1>3. \A n \in 0..N : n \in Good  BY <1>1, <1>2, CountingUp
<1>4. N \in Good  BY <1>3
<1> QED  BY <1>4 DEF Good

\* f is what scan computes, pass after pass.
ScansBy(p, from, lines, T, f) ==
    /\ f[0] = PassStart(p, from, lines)
    /\ \A n \in 0..(T - 1) : f[n + 1] = PassStep(f[n])
    /\ scan(p, from, lines) =
         [parser |-> SearchedAll(f[T].parser), lines |-> f[T].lines, thrown |-> FALSE]

LEMMA scanIs ==
    ASSUME NEW p, NEW T \in Nat, T = p.total, NEW from, NEW lines
    PROVE  \E f : ScansBy(p, from, lines, T, f)
<1> DEFINE f == CHOOSE f : PassesTo(PassStart(p, from, lines), p.total, f)
<1>1. PassesTo(PassStart(p, from, lines), p.total, f)  BY PassesAre
<1>2. scan(p, from, lines) =
        [parser |-> SearchedAll(f[p.total].parser),
         lines |-> f[p.total].lines, thrown |-> FALSE]
  BY DEF scan, PassesTo, PassStart, PassStep, SearchedAll
<1> HIDE DEF f
<1>3. \A n \in 0..p.total : f[n] = IF n = 0 THEN PassStart(p, from, lines) ELSE PassStep(f[n - 1])
  BY <1>1 DEF PassesTo
<1>4. f[0] = PassStart(p, from, lines)  BY <1>3
<1>5. ASSUME NEW n \in 0..(p.total - 1) PROVE f[n + 1] = PassStep(f[n])
  <2>1. n + 1 \in 0..p.total /\ n + 1 # 0 /\ (n + 1) - 1 = n  OBVIOUS
  <2> QED  BY <1>3, <2>1
<1> QED  BY <1>2, <1>4, <1>5 DEF ScansBy

\* After n passes of T: the lines are the first ones of the stream, the rest is still in
\* the buffer or on its way, and every pass that found a newline made the buffer shorter.
PassOK(s, n, T, ls, later) ==
    \E todo \in Seq(Seq(Text)) :
        /\ s.lines \in Seq(Seq(Text)) /\ ls = s.lines \o todo
        /\ IsParser(s.parser) /\ s.from \in 0..s.parser.total
        /\ Searched(s.parser, s.from)
        /\ Buffered(s.parser) \o later = Stream(todo)
        /\ findNewline(s.parser, s.from) = -1 \/ s.parser.total + n <= T

LEMMA PassKeeps ==
    ASSUME NEW s, NEW n \in Nat, NEW T \in Nat, NEW ls, NEW later \in Seq(Bytes),
           PassOK(s, n, T, ls, later)
    PROVE  PassOK(PassStep(s), n + 1, T, ls, later)
<1>1. PICK todo \in Seq(Seq(Text)) :
        /\ s.lines \in Seq(Seq(Text)) /\ ls = s.lines \o todo
        /\ IsParser(s.parser) /\ s.from \in 0..s.parser.total
        /\ Searched(s.parser, s.from)
        /\ Buffered(s.parser) \o later = Stream(todo)
        /\ findNewline(s.parser, s.from) = -1 \/ s.parser.total + n <= T
  BY DEF PassOK
<1>2. PICK p, e, b : p = s.parser /\ e = findNewline(p, s.from) /\ b = Buffered(p)  OBVIOUS
<1>3. \/ e = -1 /\ Searched(p, p.total)
      \/ /\ e \in 0..(Len(b) - 1) /\ b[e + 1] = Newline
         /\ \A i \in 1..e : b[i] # Newline
  BY <1>1, <1>2, findNewlineIs
<1>4. CASE e = -1
  <2>1. PassStep(s) = s  BY <1>2, <1>4 DEF PassStep
  <2> QED  BY <1>1, <1>2, <1>4, <2>1 DEF PassOK
<1>5. CASE e # -1
  <2>1. /\ e \in 0..(Len(b) - 1) /\ b[e + 1] = Newline
        /\ \A i \in 1..e : b[i] # Newline
    BY <1>3, <1>5
  <2>2. b \in Seq(Bytes) /\ Len(b) \in Nat /\ p.total = Len(b) /\ IsBuffer(p)
    BY <1>1, <1>2, BufferIs DEF IsParser
  <2>3. todo # <<>>
    <3>1. SUFFICES ASSUME todo = <<>> PROVE FALSE  OBVIOUS
    <3>2. b \o later = <<>>  BY <1>1, <1>2, <3>1, StreamOfNone
    <3>3. b = <<>>  BY <2>2, <3>2, ConcatEqualIffEmpty
    <3> QED  BY <2>1, <3>3, EmptySeq
  <2>4. PICK w, more : w = Head(todo) /\ more = Tail(todo)  OBVIOUS
  <2>5. /\ w \in Seq(Text) /\ more \in Seq(Seq(Text)) /\ todo = <<w>> \o more
        /\ Stream(todo) = Append(w, Newline) \o Stream(more)
    BY <2>3, <2>4, FirstFrame
  <2>6. PICK z : z = Stream(more)  OBVIOUS
  <2>7. z \in Seq(Bytes)  BY <2>5, <2>6, StreamIs
  <2>8. b \o later = Append(w, Newline) \o z  BY <1>1, <1>2, <2>5, <2>6
  <2>9. SubSeq(b, 1, e) = w /\ Rest(b, e + 1) \o later = z
    <3>1. NewlineIn(b, e)  BY <2>1 DEF NewlineIn
    <3>2. Begins(b, later, w, z)  BY <2>2, <2>5, <2>7, <2>8 DEF Begins
    <3> QED  BY <3>1, <3>2, LineIsFirst
  <2>10. PICK q, u : q = consumeFront(p, e + 1) /\ u = [q EXCEPT !.total = @ - (e + 1), !.scanned = 0]
    OBVIOUS
  <2>11. e + 1 \in 0..Len(Buffered(p)) /\ e + 1 \in 1..Len(b)  BY <1>2, <2>1, <2>2
  <2>12. IsBuffer(q) /\ q.total = p.total /\ Buffered(q) = Rest(b, e + 1)
    BY <1>2, <2>2, <2>10, <2>11, consumeFrontDrops
  <2>13. /\ u.chunks = q.chunks /\ u.offset = q.offset /\ u.total = q.total - (e + 1)
         /\ u \in ParserFields
    <3>1. q.total - (e + 1) \in Nat  BY <2>2, <2>11, <2>12
    <3> QED  BY <2>10, <2>12, <3>1 DEF IsBuffer, ParserFields
  <2>14. IsBuffer(u) /\ Buffered(u) = Rest(b, e + 1)
    BY <2>12, <2>13 DEF IsBuffer, Buffered
  <2>15. Len(Rest(b, e + 1)) = Len(b) - (e + 1)
    <3>1. e + 1 \in 0..Len(b)  BY <2>11
    <3> QED  BY <2>2, <3>1, RestIs
  <2>16. IsParser(u)  BY <2>2, <2>12, <2>13, <2>14, <2>15 DEF IsParser
  <2>17. u.total \in Nat /\ u.total + (n + 1) <= T
    <3>1. p.total + n <= T  BY <1>1, <1>2, <1>5
    <3>2. u.total = Len(b) - (e + 1)  BY <2>2, <2>12, <2>13
    <3> QED  BY <2>2, <2>11, <3>1, <3>2
  <2>18. PICK v : v = PassStep(s)  OBVIOUS
  <2>19. v = [parser |-> u, from |-> 0, lines |-> Append(s.lines, w)]
    <3>1. ~(e < 0)  BY <2>1
    <3> QED  BY <1>2, <2>9, <2>10, <2>18, <3>1 DEF PassStep, lineOut, sliceRange
  <2>20. v.parser = u /\ v.from = 0 /\ v.lines = Append(s.lines, w)  BY <2>19
  <2>21. v.lines \in Seq(Seq(Text)) /\ ls = v.lines \o more
    <3>1. PICK x, one : x = s.lines /\ one = <<w>>  OBVIOUS
    <3>2. x \in Seq(Seq(Text)) /\ one \in Seq(Seq(Text))  BY <1>1, <2>5, <3>1, StreamOfOne
    <3>3. v.lines = x \o one /\ v.lines \in Seq(Seq(Text))
      <4>1. v.lines = Append(x, w)  BY <2>20, <3>1
      <4>2. x \in Seq(Seq(Text)) /\ w \in Seq(Text)  BY <2>5, <3>2
      <4>3. Append(x, w) = x \o <<w>>  BY ONLY <4>2, AppendIsConcat
      <4>4. Append(x, w) \in Seq(Seq(Text))  BY ONLY <4>2, AppendProperties
      <4> QED  BY <3>1, <4>1, <4>3, <4>4
    <3>4. (x \o one) \o more = x \o (one \o more)  BY <2>5, <3>2, ConcatAssociative, SMTT(30)
    <3> QED  BY <1>1, <2>5, <3>1, <3>3, <3>4
  <2>22. v.from \in 0..v.parser.total /\ Searched(v.parser, v.from)
    BY <2>17, <2>20 DEF Searched
  <2>23. Buffered(v.parser) \o later = Stream(more)  BY <2>6, <2>9, <2>14, <2>20
  <2>24. PassOK(v, n + 1, T, ls, later)
    BY <2>5, <2>16, <2>17, <2>20, <2>21, <2>22, <2>23 DEF PassOK
  <2> QED  BY <2>18, <2>24
<1> QED  BY <1>4, <1>5

\* After as many passes as there are bytes there is no newline left.
Parsed(q, lines, ls, later) ==
    \E todo \in Seq(Seq(Text)) :
        /\ lines \in Seq(Seq(Text)) /\ ls = lines \o todo
        /\ AtRest(q) /\ Buffered(q) \o later = Stream(todo)

LEMMA PassEnds ==
    ASSUME NEW s, NEW T \in Nat, NEW ls, NEW later \in Seq(Bytes),
           PassOK(s, T, T, ls, later), NEW q, q = SearchedAll(s.parser)
    PROVE  Parsed(q, s.lines, ls, later)
<1>1. PICK todo \in Seq(Seq(Text)) :
        /\ s.lines \in Seq(Seq(Text)) /\ ls = s.lines \o todo
        /\ IsParser(s.parser) /\ s.from \in 0..s.parser.total
        /\ Searched(s.parser, s.from)
        /\ Buffered(s.parser) \o later = Stream(todo)
        /\ findNewline(s.parser, s.from) = -1 \/ s.parser.total + T <= T
  BY DEF PassOK
<1>2. PICK p : p = s.parser  OBVIOUS
<1>3. IsBuffer(p) /\ p.total = Len(Buffered(p)) /\ p.total \in Nat
  BY <1>1, <1>2, BufferIs DEF IsParser
<1>4. Searched(p, p.total)
  <2>1. CASE p.total = 0  BY <2>1 DEF Searched
  <2>2. CASE p.total # 0
    <3>1. findNewline(p, s.from) = -1  BY <1>1, <1>2, <1>3, <2>2
    <3>2. PICK e : e = findNewline(p, s.from)  OBVIOUS
    <3>3. ~(e \in 0..(Len(Buffered(p)) - 1))  BY <3>1, <3>2
    <3> QED  BY <1>1, <1>2, <3>2, <3>3, findNewlineIs
  <2> QED  BY <2>1, <2>2
<1>5. /\ q.chunks = p.chunks /\ q.offset = p.offset /\ q.total = p.total
      /\ q.scanned = p.total /\ q \in ParserFields
  BY <1>2, <1>3 DEF IsBuffer, ParserFields, SearchedAll
<1>6. IsBuffer(q) /\ Buffered(q) = Buffered(p)  BY <1>3, <1>5 DEF IsBuffer, Buffered
<1>7. AtRest(q)  BY <1>3, <1>4, <1>5, <1>6 DEF AtRest, IsParser, Searched
<1> QED  BY <1>1, <1>2, <1>6, <1>7 DEF Parsed

\* A chunk in a stream of frames, however it is cut: the lines that push emits are the
\* next ones of the stream, and what is left of it is in the buffer and on its way.
LEMMA pushParses ==
    ASSUME NEW p, AtRest(p), NEW chunk \in Seq(Bytes), NEW later \in Seq(Bytes),
           NEW ls \in Seq(Seq(Text)), (Buffered(p) \o chunk) \o later = Stream(ls),
           ~push(p, chunk).thrown
    PROVE  Parsed(push(p, chunk).parser, push(p, chunk).lines, ls, later)
<1>1. PICK g : g = [p EXCEPT !.total = @ + Len(chunk), !.chunks = Append(@, chunk)]  OBVIOUS
<1>2. IsBuffer(p) /\ IsParser(p) /\ Searched(p, p.total) /\ p.scanned = p.total
      /\ p \in ParserFields
  BY DEF AtRest, IsParser, IsBuffer
<1>3. Len(chunk) \in Nat /\ p.total \in Nat  BY <1>2, LenProperties DEF ParserFields
<1>4. /\ g.total = p.total + Len(chunk) /\ g.chunks = Append(p.chunks, chunk)
      /\ g.offset = p.offset /\ g \in ParserFields
  <2>1. PICK c, t : c = Append(p.chunks, chunk) /\ t = p.total + Len(chunk)  OBVIOUS
  <2>2. c \in Seq(Seq(Bytes)) /\ t \in Nat
    BY <1>2, <1>3, <2>1, AppendProperties DEF ParserFields
  <2>3. g = [p EXCEPT !.total = t, !.chunks = c]  BY <1>1, <2>1
  <2>4. g.total = t /\ g.chunks = c /\ g.offset = p.offset /\ g \in ParserFields
    BY <1>2, <2>2, <2>3 DEF ParserFields
  <2> QED  BY <2>1, <2>4
<1>5. Joined(g.chunks) = Joined(p.chunks) \o chunk
  <2>1. p.chunks \in Seq(Seq(Bytes))  BY <1>2 DEF ParserFields
  <2>2. PICK one : one = <<chunk>>  OBVIOUS
  <2>3. one \in Seq(Seq(Bytes)) /\ FlattenSeq(one) = chunk  BY <2>2, FlattenOne
  <2>4. Append(p.chunks, chunk) = p.chunks \o one  BY <2>1, <2>2, AppendIsConcat
  <2>5. FlattenSeq(p.chunks \o one) = FlattenSeq(p.chunks) \o FlattenSeq(one)
    BY <2>1, <2>3, FlattenBoth
  <2> QED  BY <1>4, <2>3, <2>4, <2>5 DEF Joined
<1>6. PICK z : z = Joined(p.chunks)  OBVIOUS
<1>7. /\ z \in Seq(Bytes) /\ p.offset \in 0..Len(z) /\ Buffered(p) = Rest(z, p.offset)
      /\ Len(Buffered(p)) = Len(z) - p.offset /\ Buffered(p) \in Seq(Bytes)
  BY <1>2, <1>6, BufferIs
<1>8. Len(z) \in Nat /\ z \o chunk \in Seq(Bytes) /\ Len(z \o chunk) = Len(z) + Len(chunk)
  BY <1>7, LenProperties, ConcatProperties
<1>9. Buffered(g) = Buffered(p) \o chunk
  <2>1. Buffered(g) = Rest(z \o chunk, p.offset)  BY <1>4, <1>5, <1>6 DEF Buffered, Rest
  <2>2. Rest(z \o chunk, p.offset) = Rest(z, p.offset) \o chunk  BY <1>7, RestOfBoth
  <2> QED  BY <1>7, <2>1, <2>2
<1>10. IsBuffer(g)
  <2>1. p.offset <= Len(z) + Len(chunk)  BY <1>3, <1>7, <1>8
  <2> QED  BY <1>4, <1>5, <1>6, <1>8, <2>1 DEF IsBuffer
<1>11. Len(Buffered(g)) = Len(Buffered(p)) + Len(chunk)
  BY <1>7, <1>9, ConcatProperties
<1>12. IsParser(g)  BY <1>2, <1>4, <1>10, <1>11 DEF IsParser
<1>13. Searched(g, p.scanned) /\ p.scanned \in 0..g.total
  <2>1. ASSUME NEW i \in 1..p.total PROVE Buffered(g)[i] # Newline
    <3>1. i \in 1..(Len(Buffered(p)) + Len(chunk)) /\ i <= Len(Buffered(p))
      BY <1>2, <1>3 DEF IsParser
    <3>2. (Buffered(p) \o chunk)[i] = Buffered(p)[i]  BY <1>7, <3>1, ConcatProperties
    <3> QED  BY <1>2, <1>9, <3>2 DEF Searched
  <2>2. p.total \in 0..g.total  BY <1>3, <1>4
  <2> QED  BY <1>2, <2>1, <2>2 DEF Searched
<1>14. push(p, chunk) = scan(g, p.scanned, <<>>)
  BY <1>1 DEF push
<1>15. PICK T : T = g.total  OBVIOUS
<1>16. T \in Nat  BY <1>3, <1>4, <1>15
<1>17. PICK f : ScansBy(g, p.scanned, <<>>, T, f)  BY <1>15, <1>16, scanIs
<1> DEFINE Good == {n \in Nat : PassOK(f[n], n, T, ls, later)}
<1>18. 0 \in Good
  <2>1. f[0].parser = g /\ f[0].from = p.scanned /\ f[0].lines = <<>>
    BY <1>17 DEF PassStart, ScansBy
  <2>2. <<>> \in Seq(Seq(Text)) /\ ls = <<>> \o ls  BY EmptySeq, ConcatEmptySeq
  <2>3. g.total + 0 <= T  BY <1>15, <1>16
  <2>4. Buffered(g) \o later = Stream(ls)  BY <1>9
  <2>5. PassOK(f[0], 0, T, ls, later)
    BY <1>12, <1>13, <2>1, <2>2, <2>3, <2>4 DEF PassOK
  <2> QED  BY <2>5
<1>19. ASSUME NEW n \in 0..(T - 1), n \in Good PROVE n + 1 \in Good
  <2>1. n \in Nat /\ n + 1 \in Nat  OBVIOUS
  <2>2. PassOK(f[n], n, T, ls, later)  BY <1>19
  <2>3. PassOK(PassStep(f[n]), n + 1, T, ls, later)  BY <1>16, <2>1, <2>2, PassKeeps
  <2>4. f[n + 1] = PassStep(f[n])  BY <1>17 DEF ScansBy
  <2> QED  BY <2>1, <2>3, <2>4
<1> HIDE DEF Good
<1>20. \A n \in 0..T : n \in Good  BY <1>16, <1>18, <1>19, CountingUp
<1>21. T \in Good  BY <1>16, <1>20
<1>22. PassOK(f[T], T, T, ls, later)  BY <1>21 DEF Good
<1>23. PICK r, q : r = f[T] /\ q = SearchedAll(r.parser)  OBVIOUS
<1>24. Parsed(q, r.lines, ls, later)
  <2>1. PassOK(r, T, T, ls, later)  BY <1>22, <1>23
  <2>2. q = SearchedAll(r.parser)  BY <1>23
  <2> QED  BY <1>16, <2>1, <2>2, PassEnds
<1>25. push(p, chunk).parser = q /\ push(p, chunk).lines = r.lines
  BY <1>14, <1>17, <1>23 DEF ScansBy
<1> QED  BY <1>24, <1>25

-----------------------------------------------------------------------------
(* Lines of requests.                                                        *)
LEMMA LineIs ==
    ASSUME NEW m \in Messages, NEW n \in Nat
    PROVE  /\ Line(m, n) \in Seq(Text) /\ Len(Line(m, n)) = n
           /\ \A i \in 1..n : Line(m, n)[i] = <<m, i = n>>
<1>1. \A i \in 1..n : <<m, i = n>> \in Text
  BY DEF Text
<1>2. PICK w : w = Line(m, n)  OBVIOUS
<1>3. w = [i \in 1..n |-> <<m, i = n>>]  BY <1>2 DEF Line
<1>4. w \in [1..n -> Text]  BY <1>1, <1>3
<1>5. w \in Seq(Text)  BY <1>4, SeqDef
<1>6. Len(w) = n  BY <1>4, RowIs
<1>7. \A i \in 1..n : w[i] = <<m, i = n>>  BY <1>3
<1> QED  BY ONLY <1>2, <1>5, <1>6, <1>7

LEMMA emitLineIs ==
    ASSUME NEW r \in Requests, NEW n \in Lengths[r]
    PROVE  /\ <<r, "request">> \in Messages /\ n \in Nat \ {0}
           /\ emitLine(Line(<<r, "request">>, n)) = {<<r, "request">>}
<1>1. PICK m : m = <<r, "request">>  OBVIOUS
<1>2. m \in Messages /\ m[1] = r /\ m[2] = "request"  BY <1>1 DEF Messages
<1>3. n \in Nat \ {0}  BY RequestsAssumption
<1>4. LengthsOf(m) = Lengths[r]  BY <1>2 DEF LengthsOf
<1>5. m \in emitLine(Line(m, n))  BY <1>2, <1>4 DEF emitLine
<1>6. ASSUME NEW x \in emitLine(Line(m, n)) PROVE x = m
  <2>1. x \in Messages  BY DEF emitLine
  <2>2. PICK j \in LengthsOf(x) : Line(m, n) = Line(x, j)  BY DEF emitLine
  <2>3. j \in Nat \ {0}
    <3>1. x[1] \in Requests  BY <2>1 DEF Messages
    <3>2. Lengths[x[1]] \subseteq Nat \ {0}  BY <3>1, RequestsAssumption
    <3> QED  BY <2>2, <3>2 DEF LengthsOf
  <2>4. Len(Line(m, n)) = n /\ Len(Line(x, j)) = j  BY <1>2, <1>3, <2>1, <2>3, LineIs
  <2>5. j = n  BY <2>2, <2>4
  <2>6. 1 \in 1..n  BY <1>3
  <2>7. Line(m, n)[1] = <<m, 1 = n>>  BY <1>2, <1>3, <2>6, LineIs
  <2>8. Line(x, n)[1] = <<x, 1 = n>>  BY <1>3, <2>1, <2>6, LineIs
  <2>9. <<m, 1 = n>> = <<x, 1 = n>>  BY <2>2, <2>5, <2>7, <2>8
  <2> QED  BY <2>9
<1> QED  BY <1>1, <1>2, <1>3, <1>5, <1>6

LEMMA SetToSeqOne ==
    ASSUME NEW x
    PROVE  SetToSeq({x}) = <<x>>
<1>1. Cardinality({x}) = 1  BY FS_Singleton
<1>2. PICK one : one = <<x>>  OBVIOUS
<1>3. one \in [1..1 -> {x}] /\ one[1] = x /\ DOMAIN one = 1..1  BY <1>2
<1>4. IsInjective(one)
  <2>1. \A i \in 1..1 : i = 1  OBVIOUS
  <2> QED  BY <1>3, <2>1 DEF IsInjective
<1>5. ASSUME NEW f \in [1..1 -> {x}] PROVE f = one
  <2>1. \A i \in 1..1 : f[i] = one[i]  BY <1>3
  <2> QED  BY <1>3, <2>1
<1>6. (CHOOSE f \in [1..1 -> {x}] : IsInjective(f)) = one  BY <1>3, <1>4, <1>5
<1> QED  BY <1>1, <1>2, <1>6 DEF SetToSeq

LEMMA FlattenSingles ==
    ASSUME NEW S, NEW ms \in Seq(S), NEW s, Len(s) = Len(ms),
           \A i \in 1..Len(ms) : s[i] = <<ms[i]>>, s \in Seq(Seq(S))
    PROVE  FlattenSeq(s) = ms
<1>1. PICK N : N = Len(ms)  OBVIOUS
<1>2. N \in Nat /\ Len(s) = N  BY <1>1, LenProperties
<1>3. CASE N = 0
  <2>1. s = <<>> /\ ms = <<>>  BY <1>1, <1>2, <1>3, EmptySeq
  <2> QED  BY <2>1, FlattenNone
<1>4. CASE N # 0
  <2>1. N \in Nat \ {0}  BY <1>2, <1>4
  <2>2. PICK f : FlattenSeq(s) = f[N] /\ Joins(f, s, N)  BY <1>2, <2>1, FlattenSeqJoins
  <2> DEFINE Good == {n \in Nat : n = 0 \/ f[n] = SubSeq(ms, 1, n)}
  <2>3. ASSUME NEW n \in 0..(N - 1), n \in Good PROVE n + 1 \in Good
    <3>1. n + 1 \in 1..N /\ n + 1 \in Nat /\ (n + 1) - 1 = n /\ 1 \in 1..N
      BY <2>1
    <3>2. f[n + 1] = IF n = 0 THEN s[n + 1] ELSE f[n] \o s[n + 1]  BY <2>2 DEF Joins
    <3>3. s[n + 1] = <<ms[n + 1]>>  BY <1>1, <3>1
    <3>4. SubSeq(ms, 1, n + 1) = SubSeq(ms, 1, n) \o <<ms[n + 1]>>
      <4>1. n + 1 \in 1..Len(ms) /\ 1 \in 1..Len(ms)  BY <1>1, <3>1
      <4> QED  BY <3>1, <4>1, SubSeqRecursiveSecond
    <3>5. CASE n = 0
      <4>1. SubSeq(ms, 1, 0) = <<>>  BY SubSeqEmpty
      <4>2. PICK t : t = <<ms[n + 1]>>  OBVIOUS
      <4>3. t \in Seq(S)
        <5>1. ms[n + 1] \in S  BY <1>1, <3>1, ElementOfSeq
        <5> QED  BY <4>2, <5>1
      <4>4. <<>> \o t = t  BY <4>3, ConcatEmptySeq
      <4>5. f[n + 1] = SubSeq(ms, 1, n + 1)  BY <3>2, <3>3, <3>4, <3>5, <4>1, <4>2, <4>4
      <4> QED  BY <3>1, <4>5
    <3>6. CASE n # 0
      <4>1. f[n] = SubSeq(ms, 1, n)  BY <2>3, <3>6
      <4>2. f[n + 1] = SubSeq(ms, 1, n + 1)  BY <3>2, <3>3, <3>4, <3>6, <4>1
      <4> QED  BY <3>1, <4>2
    <3> QED  BY <3>5, <3>6
  <2>4. 0 \in Good  OBVIOUS
  <2> HIDE DEF Good
  <2>5. \A n \in 0..N : n \in Good  BY <1>2, <2>3, <2>4, CountingUp
  <2>6. N \in Good  BY <1>2, <2>5
  <2>7. f[N] = SubSeq(ms, 1, N)  BY <1>4, <2>6 DEF Good
  <2> QED  BY <1>1, <2>2, <2>7, SubSeqFull
<1> QED  BY <1>3, <1>4

\* Each line is the request in its place.
LinesOf(ls, rs) ==
    /\ ls \in Seq(Seq(Text)) /\ rs \in Seq(Requests) /\ Len(ls) = Len(rs)
    /\ \A i \in 1..Len(rs) : \E n \in Lengths[rs[i]] : ls[i] = Line(<<rs[i], "request">>, n)

Asked(rs) == [i \in 1..Len(rs) |-> <<rs[i], "request">>]

LEMMA AskedIs ==
    ASSUME NEW rs \in Seq(Requests)
    PROVE  /\ Asked(rs) \in Seq(Messages) /\ Len(Asked(rs)) = Len(rs)
           /\ \A i \in 1..Len(rs) : Asked(rs)[i] = <<rs[i], "request">> /\ rs[i] \in Requests
<1>1. PICK n, a : n = Len(rs) /\ a = Asked(rs)  OBVIOUS
<1>2. n \in Nat /\ \A i \in 1..n : rs[i] \in Requests  BY <1>1, LenProperties, ElementOfSeq
<1>3. a = [i \in 1..n |-> <<rs[i], "request">>]  BY <1>1 DEF Asked
<1>4. a \in [1..n -> Messages]  BY <1>2, <1>3 DEF Messages
<1>5. a \in Seq(Messages) /\ Len(a) = n  BY <1>2, <1>4, SeqDef, RowIs
<1> QED  BY <1>1, <1>2, <1>3, <1>5

LEMMA EmittedIs ==
    ASSUME NEW ls, NEW rs, LinesOf(ls, rs)
    PROVE  Emitted(ls) = Asked(rs)
<1>1. PICK n, a, s : /\ n = Len(rs) /\ a = Asked(rs)
                     /\ s = [i \in DOMAIN ls |-> SetToSeq(emitLine(ls[i]))]
  OBVIOUS
<1>2. ls \in Seq(Seq(Text)) /\ rs \in Seq(Requests) /\ Len(ls) = n  BY <1>1 DEF LinesOf
<1>3. n \in Nat /\ DOMAIN ls = 1..n  BY <1>2, LenProperties
<1>4. a \in Seq(Messages) /\ Len(a) = n
      /\ \A i \in 1..n : a[i] = <<rs[i], "request">> /\ rs[i] \in Requests
  BY <1>1, <1>2, AskedIs
<1>5. ASSUME NEW i \in 1..n PROVE s[i] = <<a[i]>> /\ <<a[i]>> \in Seq(Messages)
  <2>1. PICK j \in Lengths[rs[i]] : ls[i] = Line(<<rs[i], "request">>, j)
    BY <1>1 DEF LinesOf
  <2>2. emitLine(ls[i]) = {<<rs[i], "request">>} /\ a[i] \in Messages
    BY <1>4, <2>1, emitLineIs
  <2>3. PICK x : x = a[i]  OBVIOUS
  <2>4. x \in Messages /\ emitLine(ls[i]) = {x}  BY <1>4, <2>2, <2>3
  <2>5. SetToSeq({x}) = <<x>>  BY SetToSeqOne
  <2>7. <<x>> \in Seq(Messages)  BY <2>4
  <2>6. s[i] = SetToSeq(emitLine(ls[i]))  BY <1>1, <1>3
  <2> QED  BY <2>3, <2>4, <2>5, <2>6, <2>7
<1>6. s \in [1..n -> Seq(Messages)]  BY <1>1, <1>3, <1>5
<1>7. s \in Seq(Seq(Messages)) /\ Len(s) = n  BY <1>3, <1>6, SeqDef, RowIs
<1>8. FlattenSeq(s) = a
  <2>1. Len(s) = Len(a) /\ \A i \in 1..Len(a) : s[i] = <<a[i]>>  BY <1>4, <1>5, <1>7
  <2> QED  BY <1>4, <1>7, <2>1, FlattenSingles
<1> QED  BY <1>1, <1>8 DEF Emitted

LEMMA LinesOfNone == LinesOf(<<>>, <<>>)
BY EmptySeq DEF LinesOf

\* Lines that are cut in two, and two that are put together.
LEMMA LinesOfFirst ==
    ASSUME NEW ls, NEW ms, NEW rs, ls \in Seq(Seq(Text)), ms \in Seq(Seq(Text)),
           LinesOf(ls \o ms, rs)
    PROVE  /\ Len(ls) \in 0..Len(rs)
           /\ LinesOf(ls, SubSeq(rs, 1, Len(ls))) /\ LinesOf(ms, Rest(rs, Len(ls)))
<1>1. PICK n, m, l, u, a, b : /\ n = Len(rs) /\ m = Len(ms) /\ l = Len(ls) /\ u = ls \o ms
                              /\ a = SubSeq(rs, 1, l) /\ b = Rest(rs, l)
  OBVIOUS
<1>2. rs \in Seq(Requests) /\ Len(u) = n  BY <1>1 DEF LinesOf
<1>3. /\ u \in Seq(Seq(Text)) /\ Len(u) = l + m
      /\ \A i \in 1..(l + m) : u[i] = IF i <= l THEN ls[i] ELSE ms[i - l]
  BY <1>1, ConcatProperties
<1>4. n \in Nat /\ m \in Nat /\ l \in Nat /\ n = l + m /\ l \in 0..n
  <2>1. n \in Nat /\ m \in Nat /\ l \in Nat  BY <1>1, <1>2, LenProperties
  <2> QED  BY <1>2, <1>3, <2>1
<1>5. /\ a \in Seq(Requests) /\ Len(a) = l /\ \A i \in 1..l : a[i] = rs[i]
  <2>1. l \in 0..Len(rs)  BY <1>1, <1>4
  <2>2. /\ SubSeq(rs, 1, l) \in Seq(Requests) /\ Len(SubSeq(rs, 1, l)) = l
        /\ \A i \in 1..l : SubSeq(rs, 1, l)[i] = rs[i]
    BY <1>2, <2>1, FirstIs
  <2> QED  BY <1>1, <2>2
<1>6. /\ b \in Seq(Requests) /\ Len(b) = m /\ \A i \in 1..m : b[i] = rs[l + i]
  <2>1. /\ Rest(rs, l) \in Seq(Requests) /\ Len(Rest(rs, l)) = Len(rs) - l
        /\ \A i \in 1..(Len(rs) - l) : Rest(rs, l)[i] = rs[l + i]
    <3>1. l \in 0..Len(rs)  BY <1>1, <1>4
    <3> QED  BY <1>2, <3>1, RestIs
  <2>2. Len(rs) - l = m  BY <1>1, <1>4
  <2> QED  BY <1>1, <2>1, <2>2
<1>7. \A i \in 1..n : \E j \in Lengths[rs[i]] : u[i] = Line(<<rs[i], "request">>, j)
  BY <1>1 DEF LinesOf
<1>8. LinesOf(ls, a)
  <2>1. ASSUME NEW i \in 1..l PROVE \E j \in Lengths[a[i]] : ls[i] = Line(<<a[i], "request">>, j)
    <3>1. i \in 1..n /\ i \in 1..(l + m) /\ i <= l  BY <1>4
    <3> QED  BY <1>3, <1>5, <1>7, <3>1
  <2> QED  BY <1>1, <1>5, <2>1 DEF LinesOf
<1>9. LinesOf(ms, b)
  <2>1. ASSUME NEW i \in 1..m PROVE \E j \in Lengths[b[i]] : ms[i] = Line(<<b[i], "request">>, j)
    <3>1. l + i \in 1..n /\ l + i \in 1..(l + m) /\ ~(l + i <= l) /\ (l + i) - l = i  BY <1>4
    <3>2. u[l + i] = ms[i] /\ b[i] = rs[l + i]  BY <1>3, <1>6, <3>1
    <3> QED  BY <1>7, <3>1, <3>2
  <2> QED  BY <1>1, <1>6, <2>1 DEF LinesOf
<1> QED  BY <1>1, <1>4, <1>8, <1>9

LEMMA LinesOfBoth ==
    ASSUME NEW ls, NEW ms, NEW rs, NEW qs, LinesOf(ls, rs), LinesOf(ms, qs)
    PROVE  LinesOf(ls \o ms, rs \o qs)
<1>1. PICK l, m, u, v : l = Len(rs) /\ m = Len(qs) /\ u = ls \o ms /\ v = rs \o qs  OBVIOUS
<1>2. /\ ls \in Seq(Seq(Text)) /\ ms \in Seq(Seq(Text)) /\ rs \in Seq(Requests)
      /\ qs \in Seq(Requests) /\ Len(ls) = l /\ Len(ms) = m /\ l \in Nat /\ m \in Nat
  BY <1>1, LenProperties DEF LinesOf
<1>3. /\ u \in Seq(Seq(Text)) /\ Len(u) = l + m
      /\ \A i \in 1..(l + m) : u[i] = IF i <= l THEN ls[i] ELSE ms[i - l]
  <2>1. /\ ls \o ms \in Seq(Seq(Text)) /\ Len(ls \o ms) = Len(ls) + Len(ms)
        /\ \A i \in 1..(Len(ls) + Len(ms)) :
              (ls \o ms)[i] = IF i <= Len(ls) THEN ls[i] ELSE ms[i - Len(ls)]
    BY <1>2, ConcatProperties
  <2> QED  BY <1>1, <1>2, <2>1
<1>4. /\ v \in Seq(Requests) /\ Len(v) = l + m
      /\ \A i \in 1..(l + m) : v[i] = IF i <= l THEN rs[i] ELSE qs[i - l]
  BY <1>1, <1>2, ConcatProperties
<1>5. ASSUME NEW i \in 1..(l + m)
      PROVE  \E j \in Lengths[v[i]] : u[i] = Line(<<v[i], "request">>, j)
  <2>1. CASE i <= l
    <3>1. i \in 1..l  BY <1>2, <2>1
    <3>2. \E j \in Lengths[rs[i]] : ls[i] = Line(<<rs[i], "request">>, j)  BY <1>1, <3>1 DEF LinesOf
    <3>3. u[i] = ls[i] /\ v[i] = rs[i]  BY <1>3, <1>4, <2>1
    <3> QED  BY <3>2, <3>3
  <2>2. CASE ~(i <= l)
    <3>1. i - l \in 1..m  BY <1>2, <2>2
    <3>2. \E j \in Lengths[qs[i - l]] : ms[i - l] = Line(<<qs[i - l], "request">>, j)
      BY <1>1, <3>1 DEF LinesOf
    <3>3. u[i] = ms[i - l] /\ v[i] = qs[i - l]  BY <1>3, <1>4, <2>2
    <3> QED  BY <3>2, <3>3
  <2> QED  BY <2>1, <2>2
<1>6. LinesOf(u, v)  BY <1>3, <1>4, <1>5 DEF LinesOf
<1> QED  BY <1>1, <1>6

-----------------------------------------------------------------------------
(* A socket: what was sent is what the daemon has seen and what its parser   *)
(* holds or is on its way.                                                   *)
LinkFields(k) ==
    [open : BOOLEAN, served : BOOLEAN, toDaemon : Seq(Bytes), toClient : {k.toClient},
     daemonParser : {k.daemonParser}, clientParser : {k.clientParser}, inflight : Int,
     sent : Seq(Requests), seen : Seq(Requests)]
IsLink(k) == k \in LinkFields(k)
Arrives(k, rest) ==
    \E ls : /\ LinesOf(ls, rest) /\ AtRest(k.daemonParser)
            /\ Buffered(k.daemonParser) \o k.toDaemon = Stream(ls)
LinkOK(k) ==
    /\ IsLink(k)
    /\ \E rest \in Seq(Requests) : k.sent = k.seen \o rest /\ (k.served => Arrives(k, rest))

\* No line is left where there is no newline.
LEMMA NothingLeft ==
    ASSUME NEW p, AtRest(p), NEW ls \in Seq(Seq(Text)), Buffered(p) = Stream(ls)
    PROVE  ls = <<>>
<1>1. SUFFICES ASSUME ls # <<>> PROVE FALSE  OBVIOUS
<1>2. PICK w, z, f, b : w = Head(ls) /\ z = Stream(Tail(ls)) /\ f = Append(w, Newline) /\ b = Buffered(p)
  OBVIOUS
<1>3. w \in Seq(Text) /\ Tail(ls) \in Seq(Seq(Text)) /\ b = f \o z
  BY <1>1, <1>2, FirstFrame
<1>4. z \in Seq(Bytes)  BY <1>2, <1>3, StreamIs
<1>5. f \in Seq(Bytes) /\ Len(f) = Len(w) + 1 /\ f[Len(w) + 1] = Newline
  BY <1>2, <1>3, FrameIs
<1>6. Len(w) \in Nat /\ Len(z) \in Nat  BY <1>3, <1>4, LenProperties
<1>7. /\ Len(b) = Len(f) + Len(z)
      /\ \A i \in 1..(Len(f) + Len(z)) : b[i] = IF i <= Len(f) THEN f[i] ELSE z[i - Len(f)]
  BY <1>3, <1>4, <1>5, ConcatProperties
<1>8. /\ Len(w) + 1 \in 1..(Len(f) + Len(z)) /\ Len(w) + 1 <= Len(f)
  BY <1>5, <1>6
<1>9. b[Len(w) + 1] = Newline  BY <1>5, <1>7, <1>8
<1>10. p.total = Len(b)  BY <1>2 DEF AtRest, IsParser
<1>11. Len(w) + 1 \in 1..p.total  BY <1>7, <1>8, <1>10
<1> QED  BY <1>2, <1>9, <1>11 DEF AtRest, Searched

LEMMA LinkIsOrdered ==
    ASSUME NEW k, LinkOK(k)
    PROVE  /\ IsPrefix(k.seen, k.sent)
           /\ k.served /\ k.toDaemon = <<>> => k.seen = k.sent
<1>1. PICK rest \in Seq(Requests) : k.sent = k.seen \o rest /\ (k.served => Arrives(k, rest))
  BY DEF LinkOK
<1>2. PICK a, b : a = k.seen /\ b = k.sent  OBVIOUS
<1>3. a \in Seq(Requests) /\ b \in Seq(Requests) /\ b = a \o rest
  BY <1>1, <1>2 DEF LinkOK, IsLink, LinkFields
<1>4. Len(a) \in Nat /\ Len(rest) \in Nat /\ Len(b) = Len(a) + Len(rest)
  BY <1>3, LenProperties, ConcatProperties
<1>5. IsPrefix(a, b)
  <2>1. Len(a) <= Len(b) /\ Len(a) \in 0..Len(a) /\ Len(a) \in 0..Len(b)  BY <1>4
  <2>2. PICK n, x, y : n = Len(a) /\ x = SubSeq(a, 1, n) /\ y = SubSeq(b, 1, n)  OBVIOUS
  <2>3. x \in Seq(Requests) /\ Len(x) = n /\ \A i \in 1..n : x[i] = a[i]
    BY <1>3, <2>1, <2>2, FirstIs
  <2>4. y \in Seq(Requests) /\ Len(y) = n /\ \A i \in 1..n : y[i] = b[i]
    BY <1>3, <2>1, <2>2, FirstIs
  <2>5. \A i \in 1..n : b[i] = a[i]
    <3>1. \A i \in 1..(Len(a) + Len(rest)) : (a \o rest)[i] = IF i <= Len(a) THEN a[i] ELSE rest[i - Len(a)]
      BY <1>3, ConcatProperties
    <3>2. \A i \in 1..n : i \in 1..(Len(a) + Len(rest)) /\ i <= Len(a)  BY <1>4, <2>2
    <3> QED  BY <1>3, <3>1, <3>2
  <2>6. x = y  BY <2>3, <2>4, <2>5, SeqEqual
  <2> QED  BY <2>1, <2>2, <2>6 DEF IsPrefix
<1>6. ASSUME k.served, k.toDaemon = <<>> PROVE a = b
  <2>1. PICK ls : /\ LinesOf(ls, rest) /\ AtRest(k.daemonParser)
                  /\ Buffered(k.daemonParser) \o k.toDaemon = Stream(ls)
    BY <1>1, <1>6 DEF Arrives
  <2>2. Buffered(k.daemonParser) \in Seq(Bytes)  BY <2>1, BufferIs DEF AtRest, IsParser
  <2>3. Buffered(k.daemonParser) = Stream(ls)  BY <1>6, <2>1, <2>2, ConcatEmptySeq
  <2>4. ls \in Seq(Seq(Text)) /\ Len(rest) = Len(ls)  BY <2>1 DEF LinesOf
  <2>5. ls = <<>>  BY <2>1, <2>3, <2>4, NothingLeft
  <2>6. rest = <<>>  BY <2>4, <2>5, EmptySeq
  <2> QED  BY <1>3, <2>6, ConcatEmptySeq
<1> QED  BY <1>2, <1>5, <1>6

LEMMA NoLinkOK == LinkOK(NoLink) /\ NoLink.inflight = 0 /\ NoLink.sent = <<>> /\ NoLink.seen = <<>>
<1>1. NoLink.inflight = 0 /\ NoLink.sent = <<>> /\ NoLink.seen = <<>> /\ NoLink.served = FALSE
  BY DEF NoLink
<1>2. <<>> \in Seq(Requests) /\ <<>> \in Seq(Bytes)  BY EmptySeq
<1>3. IsLink(NoLink)  BY <1>2 DEF IsLink, LinkFields, NoLink
<1>4. <<>> = <<>> \o <<>>  BY <1>2, ConcatEmptySeq
<1> QED  BY <1>1, <1>2, <1>3, <1>4 DEF LinkOK

\* The daemon's end is as it was.
SameEnd(j, k) ==
    /\ j.served = k.served /\ j.toDaemon = k.toDaemon /\ j.daemonParser = k.daemonParser
    /\ j.sent = k.sent /\ j.seen = k.seen

LEMMA SameEndOK ==
    ASSUME NEW k, LinkOK(k), NEW j, IsLink(j), SameEnd(j, k)
    PROVE  LinkOK(j)
BY DEF LinkOK, SameEnd, Arrives

\* Requests are written: their frames go on their way.
LEMMA WrittenIs ==
    ASSUME NEW k, NEW rs \in Seq(Requests), NEW size \in Sizes
    PROVE  \E ms : /\ LinesOf(ms, rs)
                   /\ Written(k, rs, size) = [k EXCEPT !.toDaemon = @ \o Stream(ms), !.sent = @ \o rs]
<1> DEFINE ms == [i \in 1..Len(rs) |-> Line(<<rs[i], "request">>, size[rs[i]])]
<1>1. Len(rs) \in Nat /\ DOMAIN rs = 1..Len(rs) /\ \A i \in 1..Len(rs) : rs[i] \in Requests
  BY LenProperties, ElementOfSeq
<1>2. \A i \in 1..Len(rs) : size[rs[i]] \in Lengths[rs[i]] /\ size[rs[i]] \in Nat
  BY <1>1, RequestsAssumption DEF Sizes
<1>3. \A i \in 1..Len(rs) : ms[i] \in Seq(Text)
  BY <1>1, <1>2, LineIs DEF Messages
<1>4. ms \in [1..Len(rs) -> Seq(Text)]  BY <1>3
<1>5. \A i \in 1..Len(rs) : ms[i] = Line(<<rs[i], "request">>, size[rs[i]])  OBVIOUS
<1>6. ms = [i \in 1..Len(rs) |-> ms[i]]  OBVIOUS
<1> HIDE DEF ms
<1>7. ms \in Seq(Seq(Text)) /\ Len(ms) = Len(rs)  BY <1>1, <1>4, SeqDef, RowIs
<1>8. LinesOf(ms, rs)  BY <1>2, <1>5, <1>7 DEF LinesOf
<1>9. [i \in DOMAIN rs |-> encodeMessage(<<rs[i], "request">>, size[rs[i]])] = Framed(ms)
  BY <1>1, <1>5, <1>7 DEF Framed, encodeMessage
<1>10. Written(k, rs, size) = [k EXCEPT !.toDaemon = @ \o Stream(ms), !.sent = @ \o rs]
  BY <1>9 DEF Written, Stream
<1> QED  BY <1>8, <1>10

LEMMA WrittenOK ==
    ASSUME NEW k, LinkOK(k), NEW rs \in Seq(Requests), NEW size \in Sizes,
           NEW j, j = Written(k, rs, size)
    PROVE  /\ LinkOK(j) /\ j.sent = k.sent \o rs /\ j.seen = k.seen
           /\ j.inflight = k.inflight /\ j.served = k.served
<1>1. PICK ms : /\ LinesOf(ms, rs)
                /\ j = [k EXCEPT !.toDaemon = @ \o Stream(ms), !.sent = @ \o rs]
  BY WrittenIs
<1>2. PICK rest \in Seq(Requests) : k.sent = k.seen \o rest /\ (k.served => Arrives(k, rest))
  BY DEF LinkOK
<1>3. PICK z, t, d : z = Stream(ms) /\ t = k.toDaemon /\ d = t \o z  OBVIOUS
<1>4. PICK a, b, e : a = k.seen /\ b = k.sent /\ e = b \o rs  OBVIOUS
<1>5. k \in LinkFields(k) /\ t \in Seq(Bytes) /\ a \in Seq(Requests) /\ b \in Seq(Requests)
  BY <1>3, <1>4 DEF LinkOK, IsLink, LinkFields
<1>6. z \in Seq(Bytes) /\ ms \in Seq(Seq(Text))  BY <1>1, <1>3, StreamIs DEF LinesOf
<1>7. d \in Seq(Bytes) /\ e \in Seq(Requests)  BY <1>3, <1>4, <1>5, <1>6, ConcatProperties
<1>8. j = [k EXCEPT !.toDaemon = d, !.sent = e]  BY <1>1, <1>3, <1>4
<1>9. /\ j.toDaemon = d /\ j.sent = e /\ j.seen = a /\ j.served = k.served
      /\ j.daemonParser = k.daemonParser /\ j.inflight = k.inflight /\ IsLink(j)
  BY <1>4, <1>5, <1>7, <1>8 DEF IsLink, LinkFields
<1>10. PICK r2 : r2 = rest \o rs  OBVIOUS
<1>11. r2 \in Seq(Requests)  BY <1>10, ConcatProperties
<1>12. e = a \o r2
  <2>1. (a \o rest) \o rs = a \o (rest \o rs)  BY <1>5, ConcatAssociative, SMTT(30)
  <2> QED  BY <1>2, <1>4, <1>10, <2>1
<1>13. ASSUME j.served PROVE Arrives(j, r2)
  <2>1. PICK ls : /\ LinesOf(ls, rest) /\ AtRest(k.daemonParser)
                  /\ Buffered(k.daemonParser) \o t = Stream(ls)
    BY <1>2, <1>3, <1>9, <1>13 DEF Arrives
  <2>2. PICK b2 : b2 = Buffered(k.daemonParser)  OBVIOUS
  <2>3. b2 \in Seq(Bytes)  BY <2>1, <2>2, BufferIs DEF AtRest, IsParser
  <2>4. (b2 \o t) \o z = b2 \o (t \o z)  BY <1>5, <1>6, <2>3, ConcatAssociative, SMTT(30)
  <2>5. ls \in Seq(Seq(Text))  BY <2>1 DEF LinesOf
  <2>6. Stream(ls \o ms) = Stream(ls) \o z  BY <1>3, <1>6, <2>5, StreamOfBoth
  <2>7. LinesOf(ls \o ms, r2)  BY <1>1, <1>10, <2>1, LinesOfBoth
  <2>8. b2 \o d = Stream(ls \o ms)  BY <1>3, <2>1, <2>2, <2>4, <2>6
  <2> QED  BY <1>9, <2>1, <2>2, <2>7, <2>8 DEF Arrives
<1>14. LinkOK(j)  BY <1>9, <1>11, <1>12, <1>13 DEF LinkOK
<1> QED  BY <1>4, <1>9, <1>14

LEMMA ConnectedLinkOK ==
    ASSUME NEW j, j = [NoLink EXCEPT !.open = TRUE, !.served = TRUE]
    PROVE  LinkOK(j) /\ j.sent = <<>> /\ j.seen = <<>> /\ j.inflight = 0
<1>1. /\ j.sent = <<>> /\ j.seen = <<>> /\ j.inflight = 0 /\ j.toDaemon = <<>>
      /\ j.daemonParser = EmptyParser
  BY DEF NoLink
<1>2. <<>> \in Seq(Requests) /\ <<>> \in Seq(Bytes)  BY EmptySeq
<1>3. IsLink(j)
  <2>1. NoLink \in LinkFields(NoLink)  BY NoLinkOK DEF LinkOK, IsLink
  <2> QED  BY <2>1 DEF IsLink, LinkFields
<1>4. <<>> = <<>> \o <<>>  BY <1>2, ConcatEmptySeq
<1>5. <<>> \o <<>> = <<>>  BY <1>2, ConcatEmptySeq
<1>6. Buffered(EmptyParser) \o <<>> = Stream(<<>>)
  BY <1>5, EmptyAtRest, StreamOfNone
<1>7. Arrives(j, <<>>)  BY <1>1, <1>6, EmptyAtRest, LinesOfNone DEF Arrives
<1> QED  BY <1>1, <1>2, <1>3, <1>4, <1>7 DEF LinkOK

LEMMA AnsweredOK ==
    ASSUME NEW k, LinkOK(k), NEW r, NEW tag, NEW j, j = Answered(k, r, tag)
    PROVE  /\ LinkOK(j) /\ SameEnd(j, k) /\ j.inflight = k.inflight
<1>1. k \in LinkFields(k)  BY DEF LinkOK, IsLink
<1>2. PICK x : x = k.toClient \o encodeMessage(<<r, tag>>, 1)  OBVIOUS
<1>3. j = k \/ j = [k EXCEPT !.toClient = x]  BY <1>2 DEF Answered
<1>4. SameEnd(j, k) /\ IsLink(j) /\ j.inflight = k.inflight
  BY <1>1, <1>3 DEF SameEnd, IsLink, LinkFields
<1> QED  BY <1>4, SameEndOK

ClientEnd(j, k, t, q) ==
    \/ j = [k EXCEPT !.open = FALSE, !.toClient = t, !.clientParser = q]
    \/ j = [k EXCEPT !.toClient = t, !.clientParser = q]

LEMMA ClientEndOK ==
    ASSUME NEW k, LinkOK(k), NEW t, NEW q, NEW j, ClientEnd(j, k, t, q)
    PROVE  LinkOK(j) /\ SameEnd(j, k) /\ j.inflight = k.inflight
<1>1. k \in LinkFields(k)  BY DEF LinkOK, IsLink
<1>2. SameEnd(j, k) /\ IsLink(j) /\ j.inflight = k.inflight
  BY <1>1 DEF SameEnd, IsLink, LinkFields, ClientEnd
<1> QED  BY <1>2, SameEndOK

LEMMA ReleasedOK ==
    ASSUME NEW k, LinkOK(k), NEW n \in Int, NEW j, j = [k EXCEPT !.inflight = n]
    PROVE  LinkOK(j) /\ SameEnd(j, k) /\ j.inflight = n
<1>1. k \in LinkFields(k)  BY DEF LinkOK, IsLink
<1>2. SameEnd(j, k) /\ IsLink(j) /\ j.inflight = n
  BY <1>1 DEF SameEnd, IsLink, LinkFields
<1> QED  BY <1>2, SameEndOK

LEMMA closedByDaemonOK ==
    ASSUME NEW k, LinkOK(k), NEW j, j = closedByDaemon(k)
    PROVE  LinkOK(j) /\ j.sent = k.sent /\ j.seen = k.seen /\ j.inflight = k.inflight
<1>1. k \in LinkFields(k) /\ <<>> \in Seq(Bytes)  BY EmptySeq DEF LinkOK, IsLink
<1>2. j = [k EXCEPT !.served = FALSE, !.toDaemon = <<>>, !.daemonParser = EmptyParser]
  BY DEF closedByDaemon
<1>3. PICK q : q = EmptyParser  OBVIOUS
<1>4. /\ j.served = FALSE /\ j.sent = k.sent /\ j.seen = k.seen /\ j.inflight = k.inflight
      /\ IsLink(j)
  BY <1>1, <1>2, <1>3 DEF IsLink, LinkFields
<1> QED  BY <1>4 DEF LinkOK

-----------------------------------------------------------------------------
(* The data event: the requests of a chunk, one after the other.             *)
IsTurn(s) ==
    /\ s = [link |-> s.link, lane |-> s.lane, taken |-> s.taken, refused |-> s.refused]
    /\ IsLink(s.link) /\ s.lane \in [Lanes -> Int]
SameStream(j, k) ==
    /\ j.served = k.served /\ j.toDaemon = k.toDaemon /\ j.daemonParser = k.daemonParser
    /\ j.sent = k.sent
Refuses(s, t, r) ==
    /\ t.link.inflight = s.link.inflight /\ t.lane = s.lane
    /\ t.taken = s.taken /\ t.refused = s.refused \cup {r}
Takes(s, t, r) ==
    /\ t.link.inflight = s.link.inflight + 1
    /\ t.lane = [s.lane EXCEPT ![LaneOf[r]] = @ + 1]
    /\ t.taken = s.taken \cup {r} /\ t.refused = s.refused

LEMMA tryAcquireIs ==
    ASSUME NEW s, IsTurn(s), NEW r \in Requests, NEW t, t = tryAcquire(s, r)
    PROVE  /\ IsTurn(t) /\ SameStream(t.link, s.link) /\ t.link.seen = Append(s.link.seen, r)
           /\ Refuses(s, t, r) \/ Takes(s, t, r)
<1>1. PICK k, a : a = Append(s.link.seen, r) /\ k = [s.link EXCEPT !.seen = a]  OBVIOUS
<1>2. s.link \in LinkFields(s.link)  BY DEF IsTurn, IsLink
<1>3. a \in Seq(Requests)
  <2>1. s.link.seen \in Seq(Requests)  BY <1>2 DEF LinkFields
  <2> QED  BY <1>1, <2>1, AppendProperties
<1>4. /\ IsLink(k) /\ SameStream(k, s.link) /\ k.seen = a /\ k.inflight = s.link.inflight
      /\ k.inflight \in Int
  BY <1>1, <1>2, <1>3 DEF IsLink, LinkFields, SameStream
<1>5. LaneOf[r] \in Lanes  BY RequestsAssumption
<1>6. CASE k.inflight >= MaxPerSocket \/ LaneFull(LaneOf[r], s.lane)
  <2>1. PICK j : j = Answered(k, r, "refused")  OBVIOUS
  <2>2. t = [s EXCEPT !.link = j, !.refused = @ \cup {r}]
    BY <1>1, <1>6, <2>1 DEF tryAcquire
  <2>3. t = [link |-> j, lane |-> s.lane, taken |-> s.taken, refused |-> s.refused \cup {r}]
    BY <2>2 DEF IsTurn
  <2>4. /\ t.link = j /\ t.lane = s.lane /\ t.taken = s.taken /\ t.refused = s.refused \cup {r}
        /\ t = [link |-> t.link, lane |-> t.lane, taken |-> t.taken, refused |-> t.refused]
    BY <2>3
  <2>5. PICK x : x = k.toClient \o encodeMessage(<<r, "refused">>, 1)  OBVIOUS
  <2>6. j = k \/ j = [k EXCEPT !.toClient = x]  BY <2>1, <2>5 DEF Answered
  <2>7. IsLink(j) /\ SameStream(j, k) /\ j.seen = k.seen /\ j.inflight = k.inflight
    BY <1>4, <2>6 DEF IsLink, LinkFields, SameStream
  <2>8. IsTurn(t)  BY <2>4, <2>7 DEF IsTurn
  <2>9. SameStream(t.link, s.link) /\ t.link.seen = a  BY <1>4, <2>4, <2>7 DEF SameStream
  <2>10. Refuses(s, t, r)  BY <1>4, <2>4, <2>7 DEF Refuses
  <2> QED  BY <1>1, <2>8, <2>9, <2>10
<1>7. CASE ~(k.inflight >= MaxPerSocket \/ LaneFull(LaneOf[r], s.lane))
  <2>1. PICK j : j = [k EXCEPT !.inflight = @ + 1]  OBVIOUS
  <2>2. t = [s EXCEPT !.link = j, !.lane[LaneOf[r]] = @ + 1, !.taken = @ \cup {r}]
    BY <1>1, <1>7, <2>1 DEF tryAcquire
  <2>3. PICK m : m = [s.lane EXCEPT ![LaneOf[r]] = @ + 1]  OBVIOUS
  <2>4. t = [link |-> j, lane |-> m, taken |-> s.taken \cup {r}, refused |-> s.refused]
    BY <2>2, <2>3 DEF IsTurn
  <2>5. /\ t.link = j /\ t.lane = m /\ t.taken = s.taken \cup {r} /\ t.refused = s.refused
        /\ t = [link |-> t.link, lane |-> t.lane, taken |-> t.taken, refused |-> t.refused]
    BY <2>4
  <2>6. m \in [Lanes -> Int]
    <3>1. s.lane \in [Lanes -> Int]  BY DEF IsTurn
    <3> QED  BY <1>5, <2>3, <3>1
  <2>7. IsLink(j) /\ SameStream(j, k) /\ j.seen = k.seen /\ j.inflight = k.inflight + 1
    <3>1. PICK q : q = k.inflight + 1  OBVIOUS
    <3>2. q \in Int /\ j = [k EXCEPT !.inflight = q]  BY <1>4, <2>1, <3>1
    <3>3. IsLink(j) /\ SameStream(j, k) /\ j.seen = k.seen /\ j.inflight = q
      BY <1>4, <3>2 DEF IsLink, LinkFields, SameStream
    <3> QED  BY <3>1, <3>3
  <2>8. IsTurn(t)  BY <2>5, <2>6, <2>7 DEF IsTurn
  <2>9. SameStream(t.link, s.link) /\ t.link.seen = a  BY <1>4, <2>5, <2>7 DEF SameStream
  <2>10. Takes(s, t, r)  BY <1>4, <2>3, <2>5, <2>7 DEF Takes
  <2> QED  BY <1>1, <2>8, <2>9, <2>10
<1> QED  BY <1>6, <1>7

InLane(rs, l) == {r \in rs : LaneOf[r] = l}
Once(rs) == \A i, j \in 1..Len(rs) : rs[i] = rs[j] => i = j
\* s is where the first i requests of rs got to from b.
Counted(s, b) ==
    /\ s.link.inflight = b.link.inflight + Cardinality(s.taken)
    /\ \A l \in Lanes : s.lane[l] = b.lane[l] + Cardinality(InLane(s.taken, l))
TurnOK(s, b, rs, i) ==
    /\ IsTurn(s) /\ SameStream(s.link, b.link)
    /\ s.link.seen = b.link.seen \o SubSeq(rs, 1, i)
    /\ s.taken \cup s.refused \subseteq {rs[x] : x \in 1..i} /\ IsFiniteSet(s.taken)
    /\ Once(rs) => Counted(s, b)

LEMMA TurnKeeps ==
    ASSUME NEW b, IsTurn(b), NEW rs \in Seq(Requests), NEW i \in 0..(Len(rs) - 1),
           NEW s, TurnOK(s, b, rs, i), NEW t, t = tryAcquire(s, rs[i + 1])
    PROVE  TurnOK(t, b, rs, i + 1)
<1>1. PICK r, n : r = rs[i + 1] /\ n = Len(rs)  OBVIOUS
<1>2. n \in Nat /\ i \in 0..(n - 1) /\ i + 1 \in 1..n /\ i \in 0..n /\ i \in Nat /\ (i + 1) - 1 = i
  <2>1. n \in Nat  BY <1>1, LenProperties
  <2> QED  BY <1>1, <2>1
<1>3. r \in Requests  BY <1>1, <1>2, ElementOfSeq
<1>4. IsTurn(s) /\ SameStream(s.link, b.link)  BY DEF TurnOK
<1>5. /\ IsTurn(t) /\ SameStream(t.link, s.link) /\ t.link.seen = Append(s.link.seen, r)
      /\ Refuses(s, t, r) \/ Takes(s, t, r)
  BY <1>1, <1>3, <1>4, tryAcquireIs
<1>6. SameStream(t.link, b.link)  BY <1>4, <1>5 DEF SameStream
<1>7. t.link.seen = b.link.seen \o SubSeq(rs, 1, i + 1)
  <2>1. PICK x, y, z, one : /\ x = b.link.seen /\ y = SubSeq(rs, 1, i) /\ one = <<r>>
                            /\ z = SubSeq(rs, 1, i + 1)
    OBVIOUS
  <2>2. x \in Seq(Requests)  BY <2>1 DEF IsTurn, IsLink, LinkFields
  <2>3. i \in 0..Len(rs) /\ i + 1 \in 1..Len(rs) /\ 1 \in 1..Len(rs)  BY <1>1, <1>2
  <2>4. y \in Seq(Requests)  BY <2>1, <2>3, FirstIs
  <2>5. one \in Seq(Requests)  BY <1>3, <2>1
  <2>6. z = y \o one
    <3>1. SubSeq(rs, 1, i + 1) = SubSeq(rs, 1, (i + 1) - 1) \o <<rs[i + 1]>>
      BY <2>3, SubSeqRecursiveSecond
    <3> QED  BY <1>1, <1>2, <2>1, <3>1
  <2>7. s.link.seen = x \o y /\ x \o y \in Seq(Requests)
    BY <2>1, <2>2, <2>4, ConcatProperties DEF TurnOK
  <2>8. t.link.seen = (x \o y) \o one
    <3>1. Append(x \o y, r) = (x \o y) \o <<r>>  BY <1>3, <2>7, AppendIsConcat
    <3> QED  BY <1>5, <2>1, <2>7, <3>1
  <2>9. (x \o y) \o one = x \o (y \o one)  BY <2>2, <2>4, <2>5, ConcatAssociative, SMTT(30)
  <2> QED  BY <2>1, <2>6, <2>8, <2>9
<1>8. t.taken \cup t.refused \subseteq {rs[x] : x \in 1..(i + 1)}
  <2>1. {rs[x] : x \in 1..i} \subseteq {rs[x] : x \in 1..(i + 1)}
    <3>1. \A x \in 1..i : x \in 1..(i + 1)  BY <1>2
    <3> QED  BY <3>1
  <2>2. r \in {rs[x] : x \in 1..(i + 1)}
    <3>1. i + 1 \in 1..(i + 1)  BY <1>2
    <3> QED  BY <1>1, <3>1
  <2>3. s.taken \cup s.refused \subseteq {rs[x] : x \in 1..i}  BY DEF TurnOK
  <2>4. t.taken \cup t.refused \subseteq s.taken \cup s.refused \cup {r}
    BY <1>5 DEF Refuses, Takes
  <2> QED  BY <2>1, <2>2, <2>3, <2>4
<1>9. IsFiniteSet(s.taken) /\ IsFiniteSet(s.taken \cup {r})
  BY FS_AddElement DEF TurnOK
<1>10. IsFiniteSet(t.taken)  BY <1>5, <1>9 DEF Refuses, Takes
<1>11. ASSUME Once(rs) PROVE Counted(t, b)
  <2>1. Counted(s, b)  BY <1>11 DEF TurnOK
  <2>2. CASE Refuses(s, t, r)  BY <2>1, <2>2 DEF Refuses, Counted
  <2>3. CASE Takes(s, t, r)
    <3>1. r \notin s.taken
      <4>1. ASSUME r \in s.taken PROVE FALSE
        <5>1. PICK x \in 1..i : r = rs[x]  BY <4>1 DEF TurnOK
        <5>2. x \in 1..n /\ x # i + 1  BY <1>2
        <5> QED  BY <1>1, <1>2, <1>11, <5>1, <5>2 DEF Once
      <4> QED  BY <4>1
    <3>2. Cardinality(t.taken) = Cardinality(s.taken) + 1
      BY <1>9, <2>3, <3>1, FS_AddElement DEF Takes
    <3>3. Cardinality(s.taken) \in Nat  BY <1>9, FS_CardinalityType
    <3>4. s.link.inflight \in Int /\ b.link.inflight \in Int
      BY <1>4 DEF IsTurn, IsLink, LinkFields
    <3>5. t.link.inflight = b.link.inflight + Cardinality(t.taken)
      BY <2>1, <2>3, <3>2, <3>3, <3>4 DEF Counted, Takes
    <3>6. s.lane \in [Lanes -> Int] /\ b.lane \in [Lanes -> Int] /\ LaneOf[r] \in Lanes
      BY <1>3, <1>4, RequestsAssumption DEF IsTurn
    <3>7. ASSUME NEW l \in Lanes PROVE t.lane[l] = b.lane[l] + Cardinality(InLane(t.taken, l))
      <4>1. PICK a : a = InLane(s.taken, l)  OBVIOUS
      <4>2. a \subseteq s.taken  BY <4>1 DEF InLane
      <4>3. IsFiniteSet(a)  BY <1>9, <4>2, FS_Subset
      <4>4. Cardinality(a) \in Nat  BY <4>3, FS_CardinalityType
      <4>5. s.lane[l] = b.lane[l] + Cardinality(a)  BY <2>1, <4>1 DEF Counted
      <4>6. CASE LaneOf[r] = l
        <5>1. InLane(t.taken, l) = a \cup {r}  BY <2>3, <4>1, <4>6 DEF InLane, Takes
        <5>2. Cardinality(a \cup {r}) = Cardinality(a) + 1  BY <3>1, <4>2, <4>3, FS_AddElement
        <5>3. t.lane[l] = s.lane[l] + 1  BY <2>3, <3>6, <4>6 DEF Takes
        <5>4. PICK x, y, z, u : /\ x = s.lane[l] /\ y = b.lane[l] /\ z = Cardinality(a)
                                /\ u = Cardinality(InLane(t.taken, l))
          OBVIOUS
        <5>5. x \in Int /\ y \in Int /\ z \in Nat /\ x = y + z /\ u = z + 1
          BY <3>6, <4>4, <4>5, <5>1, <5>2, <5>4
        <5>6. x + 1 = y + u  BY <5>5
        <5> QED  BY <5>3, <5>4, <5>6
      <4>7. CASE LaneOf[r] # l
        <5>1. InLane(t.taken, l) = a  BY <2>3, <4>1, <4>7 DEF InLane, Takes
        <5>2. t.lane[l] = s.lane[l]  BY <2>3, <3>6, <4>7 DEF Takes
        <5> QED  BY <4>5, <5>1, <5>2
      <4> QED  BY <4>6, <4>7
    <3> QED  BY <3>5, <3>7 DEF Counted
  <2> QED  BY <1>5, <2>2, <2>3
<1> QED  BY <1>5, <1>6, <1>7, <1>8, <1>10, <1>11 DEF TurnOK

Acquires(b, messages, N, f) ==
    f = [i \in 0..N |-> IF i = 0 THEN b ELSE tryAcquire(f[i - 1], messages[i][1])]

LEMMA AcquiresGoOn ==
    ASSUME NEW b, NEW messages, NEW n \in Nat, NEW f, Acquires(b, messages, n, f)
    PROVE  \E g : Acquires(b, messages, n + 1, g)
<1> DEFINE g == [i \in 0..(n + 1) |->
                   IF i = n + 1 THEN tryAcquire(f[n], messages[n + 1][1]) ELSE f[i]]
<1>1. \A i \in 0..n : f[i] = IF i = 0 THEN b ELSE tryAcquire(f[i - 1], messages[i][1])
  BY DEF Acquires
<1>2. \A i \in 0..n : i \in 0..(n + 1) /\ i # n + 1  OBVIOUS
<1>3. \A i \in 0..n : g[i] = f[i]  BY <1>2
<1>4. g[n + 1] = tryAcquire(f[n], messages[n + 1][1])  OBVIOUS
<1>5. g = [i \in 0..(n + 1) |-> g[i]]  OBVIOUS
<1> HIDE DEF g
<1>6. ASSUME NEW i \in 0..(n + 1)
      PROVE  g[i] = IF i = 0 THEN b ELSE tryAcquire(g[i - 1], messages[i][1])
  <2>1. CASE i = n + 1
    <3>1. n \in 0..n /\ i - 1 = n /\ i # 0  BY <2>1
    <3>2. g[n] = f[n]  BY <1>3, <3>1
    <3>3. g[i] = tryAcquire(g[n], messages[i][1])  BY <1>4, <2>1, <3>2
    <3> QED  BY <3>1, <3>3
  <2>2. CASE i \in 0..n
    <3>1. g[i] = f[i] /\ f[i] = IF i = 0 THEN b ELSE tryAcquire(f[i - 1], messages[i][1])
      BY <1>1, <1>3, <2>2
    <3>2. i # 0 => i - 1 \in 0..n  BY <2>2
    <3>3. i # 0 => g[i - 1] = f[i - 1]  BY <1>3, <3>2
    <3> QED  BY <3>1, <3>3
  <2>3. i \in 0..n \/ i = n + 1  OBVIOUS
  <2> QED  BY <2>1, <2>2, <2>3
<1>7. g = [i \in 0..(n + 1) |-> IF i = 0 THEN b ELSE tryAcquire(g[i - 1], messages[i][1])]
  BY <1>5, <1>6
<1> QED  BY <1>7 DEF Acquires

LEMMA AcquiresAre ==
    ASSUME NEW b, NEW messages, NEW N \in Nat
    PROVE  \E f : Acquires(b, messages, N, f)
<1> DEFINE Good == {n \in Nat : \E f : Acquires(b, messages, n, f)}
<1>1. 0 \in Good
  <2> DEFINE f == [n \in 0..0 |-> b]
  <2>1. f = [n \in 0..0 |-> IF n = 0 THEN b ELSE tryAcquire(f[n - 1], messages[n][1])]
    <3>1. \A n \in 0..0 : n = 0  OBVIOUS
    <3> QED  BY <3>1
  <2>2. Acquires(b, messages, 0, f)  BY <2>1 DEF Acquires
  <2> QED  BY <2>2
<1>2. ASSUME NEW n \in 0..(N - 1), n \in Good PROVE n + 1 \in Good
  <2>1. PICK f : Acquires(b, messages, n, f)  BY <1>2
  <2>2. n \in Nat /\ n + 1 \in Nat  OBVIOUS
  <2> QED  BY <2>1, <2>2, AcquiresGoOn
<1> HIDE DEF Good
<1>3. \A n \in 0..N : n \in Good  BY <1>1, <1>2, CountingUp
<1>4. N \in Good  BY <1>3
<1> QED  BY <1>4 DEF Good

\* What becomes of a socket, of the lanes and of the requests of n bytes.
Got(k, n) == push(k.daemonParser, SubSeq(k.toDaemon, 1, n))
Before(k, n, counts) ==
    [link |-> [k EXCEPT !.toDaemon = SubSeq(@, n + 1, Len(@)), !.daemonParser = Got(k, n).parser],
     lane |-> counts, taken |-> {}, refused |-> {}]
After(k, n, counts) ==
    LET messages == Emitted(Got(k, n).lines)
    IN  (CHOOSE f : Acquires(Before(k, n, counts), messages, Len(messages), f))[Len(messages)]

LEMMA ReceiveIs ==
    ASSUME NEW c, NEW g, NEW n, Receive(c, g, n)
    PROVE  /\ up /\ link[c][g].served /\ n <= Len(link[c][g].toDaemon)
           /\ ~Got(link[c][g], n).thrown
           /\ link' = [link EXCEPT ![c][g] = After(link[c][g], n, lane).link]
           /\ lane' = After(link[c][g], n, lane).lane
           /\ work' = [r \in Requests |->
                IF r \in After(link[c][g], n, lane).taken THEN [state |-> "handling", on |-> g]
                ELSE IF r \in After(link[c][g], n, lane).refused
                     THEN [state |-> "refused", on |-> g] ELSE work[r]]
           /\ UNCHANGED <<up, client, send>>
BY DEF Receive, After, Before, Got, Acquires

\* f is what Receive computes, request after request.
TurnsBy(b, rs, f) ==
    /\ f[0] = b
    /\ \A i \in 0..(Len(rs) - 1) : f[i + 1] = tryAcquire(f[i], rs[i + 1])

LEMMA AfterIs ==
    ASSUME NEW k, NEW n, NEW counts, NEW rs \in Seq(Requests),
           Emitted(Got(k, n).lines) = Asked(rs)
    PROVE  \E f : TurnsBy(Before(k, n, counts), rs, f) /\ After(k, n, counts) = f[Len(rs)]
<1>1. PICK b, a, N : b = Before(k, n, counts) /\ a = Asked(rs) /\ N = Len(rs)  OBVIOUS
<1>2. N \in Nat /\ Len(a) = N /\ \A i \in 1..N : a[i] = <<rs[i], "request">>
  BY <1>1, LenProperties, AskedIs
<1> DEFINE f == CHOOSE f : Acquires(b, a, N, f)
<1>3. Acquires(b, a, N, f)  BY <1>2, AcquiresAre
<1>4. After(k, n, counts) = f[N]  BY <1>1, <1>2 DEF After
<1> HIDE DEF f
<1>5. \A i \in 0..N : f[i] = IF i = 0 THEN b ELSE tryAcquire(f[i - 1], a[i][1])
  BY <1>3 DEF Acquires
<1>6. f[0] = b
  <2>1. 0 \in 0..N  BY <1>2
  <2>2. PICK x : x = tryAcquire(f[0 - 1], a[0][1])  OBVIOUS
  <2>3. f[0] = IF 0 = 0 THEN b ELSE x  BY <1>5, <2>1, <2>2, Zenon
  <2> QED  BY <2>3
<1>7. ASSUME NEW i \in 0..(N - 1) PROVE f[i + 1] = tryAcquire(f[i], rs[i + 1])
  <2>1. i + 1 \in 0..N /\ i + 1 \in 1..N /\ i + 1 # 0 /\ (i + 1) - 1 = i  BY <1>2
  <2>2. a[i + 1][1] = rs[i + 1]  BY <1>2, <2>1
  <2> QED  BY <1>5, <2>1, <2>2
<1>8. TurnsBy(b, rs, f)  BY <1>1, <1>6, <1>7 DEF TurnsBy
<1> QED  BY <1>1, <1>4, <1>8

LEMMA TurnsEnd ==
    ASSUME NEW b, IsTurn(b), b.taken = {}, b.refused = {}, NEW rs \in Seq(Requests),
           NEW f, TurnsBy(b, rs, f)
    PROVE  TurnOK(f[Len(rs)], b, rs, Len(rs))
<1>1. PICK N : N = Len(rs)  OBVIOUS
<1>2. N \in Nat  BY <1>1, LenProperties
<1> DEFINE Good == {n \in Nat : TurnOK(f[n], b, rs, n)}
<1>3. 0 \in Good
  <2>1. f[0] = b  BY DEF TurnsBy
  <2>2. SameStream(b.link, b.link)  BY DEF SameStream
  <2>3. b.link.seen = b.link.seen \o SubSeq(rs, 1, 0)
    <3>1. SubSeq(rs, 1, 0) = <<>>  BY SubSeqEmpty
    <3>2. b.link.seen \in Seq(Requests)  BY DEF IsTurn, IsLink, LinkFields
    <3> QED  BY <3>1, <3>2, ConcatEmptySeq
  <2>4. IsFiniteSet({}) /\ Cardinality({}) = 0  BY FS_EmptySet
  <2>5. Counted(b, b)
    <3>1. b.link.inflight \in Int  BY DEF IsTurn, IsLink, LinkFields
    <3>2. \A l \in Lanes : b.lane[l] \in Int  BY DEF IsTurn
    <3>3. \A l \in Lanes : InLane({}, l) = {}  BY DEF InLane
    <3>4. b.link.inflight = b.link.inflight + Cardinality({})  BY <2>4, <3>1
    <3>5. \A l \in Lanes : b.lane[l] = b.lane[l] + Cardinality({})  BY <2>4, <3>2
    <3> QED  BY <3>3, <3>4, <3>5 DEF Counted
  <2>6. TurnOK(b, b, rs, 0)  BY <2>2, <2>3, <2>4, <2>5 DEF TurnOK
  <2> QED  BY <2>1, <2>6
<1>4. ASSUME NEW n \in 0..(N - 1), n \in Good PROVE n + 1 \in Good
  <2>1. n + 1 \in Nat /\ n \in 0..(Len(rs) - 1)  BY <1>1
  <2>2. TurnOK(f[n], b, rs, n)  BY <1>4
  <2>3. f[n + 1] = tryAcquire(f[n], rs[n + 1])  BY <2>1 DEF TurnsBy
  <2>4. TurnOK(f[n + 1], b, rs, n + 1)  BY <2>1, <2>2, <2>3, TurnKeeps
  <2> QED  BY <2>1, <2>4
<1> HIDE DEF Good
<1>5. \A n \in 0..N : n \in Good  BY <1>2, <1>3, <1>4, CountingUp
<1>6. N \in Good  BY <1>2, <1>5
<1> QED  BY <1>1, <1>6 DEF Good

\* v is what becomes of a socket k when the requests of now are heard, those of rest are
\* still to come.
Heard(k, counts, v, now, rest) ==
    /\ k.sent = (k.seen \o now) \o rest
    /\ LinkOK(v.link) /\ v.link.sent = k.sent /\ v.link.seen = k.seen \o now
    /\ v.taken \cup v.refused \subseteq {now[x] : x \in 1..Len(now)} /\ IsFiniteSet(v.taken)
    /\ v.lane \in [Lanes -> Int]
    /\ Once(now) => /\ v.link.inflight = k.inflight + Cardinality(v.taken)
                    /\ \A l \in Lanes : v.lane[l] = counts[l] + Cardinality(InLane(v.taken, l))

\* The bytes of a chunk, however it is cut, are the next requests of the socket.
LEMMA NextAreHeard ==
    ASSUME NEW k, LinkOK(k), k.served, NEW n \in Nat, n <= Len(k.toDaemon),
           ~Got(k, n).thrown, NEW counts \in [Lanes -> Int]
    PROVE  \E now, rest \in Seq(Requests) : Heard(k, counts, After(k, n, counts), now, rest)
<1>1. PICK all \in Seq(Requests) : k.sent = k.seen \o all /\ Arrives(k, all)
  BY DEF LinkOK
<1>2. PICK ls : /\ LinesOf(ls, all) /\ AtRest(k.daemonParser)
                /\ Buffered(k.daemonParser) \o k.toDaemon = Stream(ls)
  BY <1>1 DEF Arrives
<1>3. PICK p, t, chunk, later, b0 :
        /\ p = k.daemonParser /\ t = k.toDaemon /\ chunk = SubSeq(t, 1, n)
        /\ later = Rest(t, n) /\ b0 = Buffered(p)
  OBVIOUS
<1>4. k \in LinkFields(k) /\ t \in Seq(Bytes) /\ Len(t) \in Nat /\ n \in 0..Len(t)
  <2>1. k \in LinkFields(k) /\ t \in Seq(Bytes)  BY <1>3 DEF LinkOK, IsLink, LinkFields
  <2>2. Len(t) \in Nat  BY <2>1, LenProperties
  <2> QED  BY <1>3, <2>1, <2>2
<1>5. chunk \in Seq(Bytes) /\ later \in Seq(Bytes) /\ t = chunk \o later
  BY <1>3, <1>4, FirstIs, RestIs, FirstAndRest
<1>6. b0 \in Seq(Bytes) /\ AtRest(p)  BY <1>2, <1>3, BufferIs DEF AtRest, IsParser
<1>7. (b0 \o chunk) \o later = Stream(ls)
  <2>1. (b0 \o chunk) \o later = b0 \o (chunk \o later)
    BY <1>5, <1>6, ConcatAssociative, SMTT(30)
  <2> QED  BY <1>2, <1>3, <1>5, <2>1
<1>8. PICK got : got = push(p, chunk)  OBVIOUS
<1>9. got = Got(k, n) /\ ~got.thrown  BY <1>3, <1>8 DEF Got
<1>10. ls \in Seq(Seq(Text))  BY <1>2 DEF LinesOf
<1>11. Parsed(got.parser, got.lines, ls, later)
  BY <1>3, <1>5, <1>6, <1>7, <1>8, <1>9, <1>10, pushParses
<1>12. PICK todo \in Seq(Seq(Text)) :
         /\ got.lines \in Seq(Seq(Text)) /\ ls = got.lines \o todo
         /\ AtRest(got.parser) /\ Buffered(got.parser) \o later = Stream(todo)
  BY <1>11 DEF Parsed
<1>13. PICK j, now, rest : j = Len(got.lines) /\ now = SubSeq(all, 1, j) /\ rest = Rest(all, j)
  OBVIOUS
<1>14. j \in 0..Len(all) /\ LinesOf(got.lines, now) /\ LinesOf(todo, rest)
  BY <1>2, <1>12, <1>13, LinesOfFirst
<1>15. now \in Seq(Requests) /\ rest \in Seq(Requests) /\ all = now \o rest
  BY <1>13, <1>14, FirstIs, RestIs, FirstAndRest
<1>16. Emitted(Got(k, n).lines) = Asked(now)  BY <1>9, <1>14, EmittedIs
<1>17. PICK b, v, N : b = Before(k, n, counts) /\ v = After(k, n, counts) /\ N = Len(now)
  OBVIOUS
<1>18. PICK f : TurnsBy(b, now, f) /\ v = f[N]  BY <1>15, <1>16, <1>17, AfterIs
<1>19. /\ b.taken = {} /\ b.refused = {} /\ b.lane = counts
       /\ b.link = [k EXCEPT !.toDaemon = later, !.daemonParser = got.parser]
       /\ b = [link |-> b.link, lane |-> b.lane, taken |-> b.taken, refused |-> b.refused]
  BY <1>3, <1>9, <1>17 DEF Before, Rest
<1>20. PICK q, d : q = b.link /\ d = got.parser  OBVIOUS
<1>21. /\ IsLink(q) /\ q.served = TRUE /\ q.toDaemon = later /\ q.daemonParser = d
       /\ q.sent = k.sent /\ q.seen = k.seen /\ q.inflight = k.inflight
  BY <1>4, <1>5, <1>19, <1>20 DEF IsLink, LinkFields
<1>22. IsTurn(b)  BY <1>19, <1>20, <1>21 DEF IsTurn
<1>23. TurnOK(v, b, now, N)
  <2>1. TurnOK(f[Len(now)], b, now, Len(now))  BY <1>15, <1>18, <1>19, <1>22, TurnsEnd
  <2> QED  BY <1>17, <1>18, <2>1
<1>24. SubSeq(now, 1, N) = now  BY <1>15, <1>17, SubSeqFull
<1>25. /\ IsLink(v.link) /\ SameStream(v.link, q) /\ v.link.seen = k.seen \o now
       /\ v.lane \in [Lanes -> Int] /\ v.taken \cup v.refused \subseteq {now[x] : x \in 1..N}
       /\ IsFiniteSet(v.taken) /\ (Once(now) => Counted(v, b))
  BY <1>20, <1>21, <1>23, <1>24 DEF TurnOK, IsTurn
<1>26. k.sent = (k.seen \o now) \o rest
  <2>1. PICK x : x = k.seen  OBVIOUS
  <2>2. x \in Seq(Requests)  BY <1>4, <2>1 DEF LinkFields
  <2>3. (x \o now) \o rest = x \o (now \o rest)  BY <1>15, <2>2, ConcatAssociative, SMTT(30)
  <2> QED  BY <1>1, <1>15, <2>1, <2>3
<1>27. v.link.sent = k.sent /\ v.link.daemonParser = d /\ v.link.toDaemon = later
  BY <1>21, <1>25 DEF SameStream
<1>28. Arrives(v.link, rest)  BY <1>12, <1>14, <1>20, <1>27 DEF Arrives
<1>29. LinkOK(v.link)  BY <1>15, <1>25, <1>26, <1>27, <1>28 DEF LinkOK
<1>30. Heard(k, counts, v, now, rest)
  BY <1>17, <1>19, <1>20, <1>21, <1>25, <1>26, <1>27, <1>29 DEF Heard, Counted
<1> QED  BY <1>15, <1>17, <1>30

-----------------------------------------------------------------------------
(* The inductive invariant.                                                  *)
Conns == {"off", "connecting", "on"}
LinkShape == link = [c \in Clients |-> [g \in Links(c) |-> link[c][g]]]
TypesOK ==
    /\ up \in BOOLEAN
    /\ client \in [Clients -> [conn : Conns, links : Nat, joining : Seq(Requests)]]
    /\ send \in [Requests -> Sends]
    /\ work \in [Requests -> [state : {"none", "refused", "handling", "done"}, on : Nat]]
    /\ lane \in [Lanes -> Int]
    /\ LinkShape

StreamsOK == \A c \in Clients : \A g \in Links(c) : LinkOK(link[c][g])

\* The socket of a connect that is under way, and those after it, were never used.
Unused(c, g) == g > client[c].links \/ (g = client[c].links /\ client[c].conn = "connecting")
ConnectsOK ==
    \A c \in Clients :
        /\ client[c].links <= MaxLinks[c]
        /\ client[c].conn # "off" => client[c].links \in Links(c)
        /\ client[c].conn # "connecting" => client[c].joining = <<>>
        /\ \A g \in Links(c) : Unused(c, g) => link[c][g] = NoLink

\* A request is sent once, on one socket of its client.
Unsent == {"new", "joining"}
SentOK ==
    \A c \in Clients : \A g \in Links(c) : \A i \in 1..Len(link[c][g].sent) :
        /\ ClientOf[link[c][g].sent[i]] = c /\ send[link[c][g].sent[i]] \notin Unsent
        /\ \A h \in Links(c) : \A j \in 1..Len(link[c][h].sent) :
              link[c][g].sent[i] = link[c][h].sent[j] => g = h /\ i = j

\* Those that wait for a connect wait once.
JoiningOK ==
    \A c \in Clients :
        /\ Once(client[c].joining)
        /\ \A i \in 1..Len(client[c].joining) :
              ClientOf[client[c].joining[i]] = c /\ send[client[c].joining[i]] = "joining"

\* What the daemon worked on it saw on that socket.
WorkOK ==
    \A r \in Requests : work[r].state # "none" =>
        /\ work[r].on \in Links(ClientOf[r])
        /\ \E i \in 1..Len(link[ClientOf[r]][work[r].on].seen) :
              link[ClientOf[r]][work[r].on].seen[i] = r

CountsOK ==
    up => /\ \A l \in Lanes :
               IsFiniteSet(HandledInLane(l)) /\ lane[l] = Cardinality(HandledInLane(l))
          /\ \A c \in Clients : \A g \in Links(c) :
               /\ IsFiniteSet(HandledOnLink(c, g))
               /\ link[c][g].inflight = Cardinality(HandledOnLink(c, g))

IInv == TypesOK /\ StreamsOK /\ ConnectsOK /\ SentOK /\ JoiningOK /\ WorkOK /\ CountsOK

LEMMA LinksAre ==
    ASSUME NEW c \in Clients
    PROVE  /\ MaxLinks[c] \in Nat \ {0} /\ Links(c) = 1..MaxLinks[c]
           /\ Links(c) \subseteq Nat \ {0}
BY LimitsAssumption DEF Links

LEMMA Starts == Init => IInv
<1> SUFFICES ASSUME Init PROVE IInv  OBVIOUS
<1>1. <<>> \in Seq(Requests) /\ Len(<<>>) = 0  BY EmptySeq
<1>2. \A c \in Clients : client[c] = [conn |-> "off", links |-> 0, joining |-> <<>>]
  BY DEF Init
<1>3. \A c \in Clients : client[c].conn = "off" /\ client[c].links = 0 /\ client[c].joining = <<>>
  BY <1>2
<1>4. \A c \in Clients : \A g \in Links(c) : link[c][g] = NoLink  BY DEF Init
<1>5. TypesOK
  <2>1. client \in [Clients -> [conn : Conns, links : Nat, joining : Seq(Requests)]]
    BY <1>1 DEF Init, Conns
  <2>2. LinkShape  BY DEF Init, LinkShape
  <2>3. up \in BOOLEAN /\ send \in [Requests -> Sends] /\ lane \in [Lanes -> Int]
    BY DEF Init, Sends
  <2>4. work \in [Requests -> [state : {"none", "refused", "handling", "done"}, on : Nat]]
    BY DEF Init
  <2> QED  BY <2>1, <2>2, <2>3, <2>4 DEF TypesOK
<1>6. StreamsOK  BY <1>4, NoLinkOK DEF StreamsOK
<1>7. ConnectsOK  BY <1>3, <1>4, LinksAre DEF ConnectsOK
<1>8. SentOK
  <2>1. \A c \in Clients : \A g \in Links(c) : Len(link[c][g].sent) = 0
    BY <1>1, <1>4, NoLinkOK
  <2>2. 1..0 = {}  OBVIOUS
  <2> QED  BY <2>1, <2>2 DEF SentOK
<1>9. JoiningOK  BY <1>1, <1>3 DEF JoiningOK, Once
<1>10. \A r \in Requests : work[r].state = "none"  BY DEF Init
<1>11. WorkOK  BY <1>10 DEF WorkOK
<1>12. CountsOK
  <2>1. \A l \in Lanes : HandledInLane(l) = {}  BY <1>10 DEF HandledInLane
  <2>2. \A c \in Clients : \A g \in Links(c) : HandledOnLink(c, g) = {}
    BY <1>10 DEF HandledOnLink
  <2>3. IsFiniteSet({}) /\ Cardinality({}) = 0  BY FS_EmptySet
  <2>4. \A l \in Lanes : lane[l] = 0  BY DEF Init
  <2>5. \A c \in Clients : \A g \in Links(c) : link[c][g].inflight = 0  BY <1>4, NoLinkOK
  <2> QED  BY <2>1, <2>2, <2>3, <2>4, <2>5 DEF CountsOK
<1> QED  BY <1>5, <1>6, <1>7, <1>8, <1>9, <1>11, <1>12 DEF IInv

\* One socket changes.
Changes(c, g, j) == link' = [link EXCEPT ![c][g] = j]
LEMMA ChangedIs ==
    ASSUME LinkShape, NEW c \in Clients, NEW g \in Links(c), NEW j, Changes(c, g, j)
    PROVE  /\ LinkShape' /\ link'[c][g] = j
           /\ \A d \in Clients : \A h \in Links(d) :
                 (d # c \/ h # g) => link'[d][h] = link[d][h]
BY DEF LinkShape, Changes, Links

\* What a socket counts and has seen stays.
Kept(j, k) == j.sent = k.sent /\ j.seen = k.seen /\ j.inflight = k.inflight
AllKept == \A c \in Clients : \A g \in Links(c) : Kept(link'[c][g], link[c][g])
Quiet ==
    /\ AllKept /\ UNCHANGED <<work, lane>> /\ (up' => up)
    /\ \A r \in Requests : send[r] \notin Unsent => send'[r] \notin Unsent

LEMMA SentStays ==
    ASSUME StreamsOK, SentOK,
           \A c \in Clients : \A g \in Links(c) : link'[c][g].sent = link[c][g].sent,
           \A r \in Requests : send[r] \notin Unsent => send'[r] \notin Unsent
    PROVE  SentOK'
<1>1. \A c \in Clients : \A g \in Links(c) : \A i \in 1..Len(link[c][g].sent) :
        link[c][g].sent[i] \in Requests
  BY ElementOfSeq DEF StreamsOK, LinkOK, IsLink, LinkFields
<1>2. ASSUME NEW c \in Clients, NEW g \in Links(c), NEW i \in 1..Len(link'[c][g].sent)
      PROVE  /\ ClientOf[link'[c][g].sent[i]] = c /\ send'[link'[c][g].sent[i]] \notin Unsent
             /\ \A h \in Links(c) : \A j \in 1..Len(link'[c][h].sent) :
                   link'[c][g].sent[i] = link'[c][h].sent[j] => g = h /\ i = j
  <2>1. PICK s : s = link[c][g].sent  OBVIOUS
  <2>2. link'[c][g].sent = s /\ i \in 1..Len(s)  BY <2>1
  <2>3. s[i] \in Requests /\ ClientOf[s[i]] = c /\ send[s[i]] \notin Unsent
    BY <1>1, <2>1, <2>2 DEF SentOK
  <2>4. send'[s[i]] \notin Unsent  BY <2>3
  <2>5. ASSUME NEW h \in Links(c), NEW j \in 1..Len(link'[c][h].sent), s[i] = link'[c][h].sent[j]
        PROVE  g = h /\ i = j
    <3>1. link'[c][h].sent = link[c][h].sent  OBVIOUS
    <3>2. j \in 1..Len(link[c][h].sent) /\ s[i] = link[c][h].sent[j]  BY <2>5, <3>1
    <3> QED  BY <2>1, <2>2, <3>2 DEF SentOK
  <2> QED  BY <2>2, <2>3, <2>4, <2>5
<1> QED  BY <1>2 DEF SentOK, Links

LEMMA QuietKeeps ==
    ASSUME StreamsOK, SentOK, WorkOK, CountsOK, Quiet
    PROVE  SentOK' /\ WorkOK' /\ CountsOK'
<1>1. \A c \in Clients : \A g \in Links(c) :
        /\ link'[c][g].sent = link[c][g].sent /\ link'[c][g].seen = link[c][g].seen
        /\ link'[c][g].inflight = link[c][g].inflight
  BY DEF Quiet, AllKept, Kept
<1>2. \A r \in Requests : send[r] \notin Unsent => send'[r] \notin Unsent  BY DEF Quiet
<1>3. SentOK'  BY <1>1, <1>2, SentStays
<1>4. work' = work /\ lane' = lane /\ (up' => up)  BY DEF Quiet
<1>5. WorkOK'
  <2>1. ASSUME NEW r \in Requests, work'[r].state # "none"
        PROVE  /\ work'[r].on \in Links(ClientOf[r])
               /\ \E i \in 1..Len(link'[ClientOf[r]][work'[r].on].seen) :
                     link'[ClientOf[r]][work'[r].on].seen[i] = r
    <3>1. work'[r] = work[r] /\ work[r].state # "none"  BY <1>4, <2>1
    <3>2. PICK d, h : d = ClientOf[r] /\ h = work[r].on  OBVIOUS
    <3>3. h \in Links(d) /\ \E i \in 1..Len(link[d][h].seen) : link[d][h].seen[i] = r
      BY <3>1, <3>2 DEF WorkOK
    <3>4. d \in Clients  BY <3>2, RequestsAssumption
    <3>5. link'[d][h].seen = link[d][h].seen  BY <1>1, <3>3, <3>4
    <3> QED  BY <3>1, <3>2, <3>3, <3>5
  <2> QED  BY <2>1 DEF WorkOK, Links
<1>6. CountsOK'
  <2>1. \A l \in Lanes : HandledInLane(l)' = HandledInLane(l)  BY <1>4 DEF HandledInLane
  <2>2. \A c \in Clients : \A g \in Links(c) : HandledOnLink(c, g)' = HandledOnLink(c, g)
    BY <1>4 DEF HandledOnLink
  <2> QED  BY <1>1, <1>4, <2>1, <2>2 DEF CountsOK, Links
<1> QED  BY <1>3, <1>5, <1>6

LEMMA OneChanges ==
    ASSUME TypesOK, StreamsOK, NEW c \in Clients, NEW g \in Links(c), NEW j, Changes(c, g, j),
           LinkOK(j)
    PROVE  /\ LinkShape' /\ StreamsOK' /\ link'[c][g] = j
           /\ \A d \in Clients : \A h \in Links(d) :
                 (d # c \/ h # g) => link'[d][h] = link[d][h]
           /\ Kept(j, link[c][g]) => AllKept
<1>1. /\ LinkShape' /\ link'[c][g] = j
      /\ \A d \in Clients : \A h \in Links(d) : (d # c \/ h # g) => link'[d][h] = link[d][h]
  BY ChangedIs DEF TypesOK
<1>2. StreamsOK'
  <2>1. ASSUME NEW d \in Clients, NEW h \in Links(d) PROVE LinkOK(link'[d][h])
    <3>1. CASE d = c /\ h = g  BY <1>1, <3>1
    <3>2. CASE d # c \/ h # g
      <4>1. link'[d][h] = link[d][h]  BY <1>1, <3>2
      <4> QED  BY <4>1 DEF StreamsOK
    <3> QED  BY <3>1, <3>2
  <2> QED  BY <2>1 DEF StreamsOK, Links
<1>3. ASSUME Kept(j, link[c][g]) PROVE AllKept
  <2>1. ASSUME NEW d \in Clients, NEW h \in Links(d) PROVE Kept(link'[d][h], link[d][h])
    <3>1. CASE d = c /\ h = g  BY <1>1, <1>3, <3>1
    <3>2. CASE d # c \/ h # g  BY <1>1, <3>2 DEF Kept
    <3> QED  BY <3>1, <3>2
  <2> QED  BY <2>1 DEF AllKept
<1> QED  BY <1>1, <1>2, <1>3

LEMMA NoneChanges ==
    ASSUME TypesOK, StreamsOK, UNCHANGED link
    PROVE  LinkShape' /\ StreamsOK' /\ AllKept
<1>1. LinkShape'  BY DEF TypesOK, LinkShape, Links
<1>2. StreamsOK'  BY DEF StreamsOK, Links
<1>3. AllKept  BY DEF AllKept, Kept
<1> QED  BY <1>1, <1>2, <1>3

\* Connects stay as they are or are given up.
GivesUp(d) ==
    /\ client'[d].links = client[d].links
    /\ \/ client'[d].conn = client[d].conn /\ client'[d].joining = client[d].joining
       \/ client'[d].conn = "off" /\ client'[d].joining = <<>>

LEMMA ConnectsKeep ==
    ASSUME TypesOK, ConnectsOK, \A d \in Clients : GivesUp(d),
           \A d \in Clients : \A h \in Links(d) :
              Unused(d, h) /\ link[d][h] = NoLink => link'[d][h] = NoLink
    PROVE  ConnectsOK'
<1>1. ASSUME NEW d \in Clients
      PROVE  /\ client'[d].links <= MaxLinks[d]
             /\ client'[d].conn # "off" => client'[d].links \in Links(d)
             /\ client'[d].conn # "connecting" => client'[d].joining = <<>>
             /\ \A g \in Links(d) : Unused(d, g)' => link'[d][g] = NoLink
  <2>1. GivesUp(d)  OBVIOUS
  <2>2. \A g \in Links(d) : Unused(d, g)' => Unused(d, g)  BY <2>1 DEF Unused, GivesUp
  <2>3. /\ client[d].links <= MaxLinks[d]
        /\ client[d].conn # "off" => client[d].links \in Links(d)
        /\ client[d].conn # "connecting" => client[d].joining = <<>>
        /\ \A g \in Links(d) : Unused(d, g) => link[d][g] = NoLink
    BY DEF ConnectsOK
  <2> QED  BY <2>1, <2>2, <2>3 DEF GivesUp
<1> QED  BY <1>1 DEF ConnectsOK, Links, Unused

LEMMA JoiningAre ==
    ASSUME TypesOK, JoiningOK, NEW c \in Clients
    PROVE  /\ \A i \in 1..Len(client[c].joining) : client[c].joining[i] \in Requests
           /\ \A r \in Joining(c) : r \in Requests /\ ClientOf[r] = c /\ send[r] = "joining"
<1>1. client[c].joining \in Seq(Requests)  BY DEF TypesOK
<1>2. \A i \in 1..Len(client[c].joining) : client[c].joining[i] \in Requests
  BY <1>1, ElementOfSeq
<1>3. DOMAIN client[c].joining = 1..Len(client[c].joining)  BY <1>1, LenProperties
<1>4. \A i \in 1..Len(client[c].joining) :
        ClientOf[client[c].joining[i]] = c /\ send[client[c].joining[i]] = "joining"
  BY DEF JoiningOK
<1> QED  BY <1>2, <1>3, <1>4 DEF Joining, ToSet

LEMMA closeTransportIs ==
    ASSUME TypesOK, JoiningOK, NEW c \in Clients, closeTransport(c)
    PROVE  /\ client' \in [Clients -> [conn : Conns, links : Nat, joining : Seq(Requests)]]
           /\ send' \in [Requests -> Sends]
           /\ \A d \in Clients : GivesUp(d)
           /\ client'[c].conn = "off"
           /\ JoiningOK'
           /\ \A r \in Requests : send[r] \notin Unsent => send'[r] \notin Unsent
<1>1. <<>> \in Seq(Requests) /\ Len(<<>>) = 0  BY EmptySeq
<1>2. client' = [client EXCEPT ![c].conn = "off", ![c].joining = <<>>]
  BY DEF closeTransport
<1>3. client \in [Clients -> [conn : Conns, links : Nat, joining : Seq(Requests)]]  BY DEF TypesOK
<1>4. /\ client'[c].conn = "off" /\ client'[c].joining = <<>> /\ client'[c].links = client[c].links
      /\ \A d \in Clients : d # c => client'[d] = client[d]
  BY <1>2, <1>3
<1>5. client' \in [Clients -> [conn : Conns, links : Nat, joining : Seq(Requests)]]
  BY <1>1, <1>2, <1>3 DEF Conns
<1>6. \A d \in Clients : GivesUp(d)  BY <1>4 DEF GivesUp
<1>7. \A r \in Requests :
        send'[r] = IF r \in Pending(c) \cup Joining(c) THEN "closed" ELSE send[r]
  BY DEF closeTransport
<1>8. send' \in [Requests -> Sends]
  <2>1. send \in [Requests -> Sends]  BY DEF TypesOK
  <2> QED  BY <2>1 DEF closeTransport, Sends
<1>9. \A r \in Requests : send[r] \notin Unsent => send'[r] \notin Unsent
  BY <1>7 DEF Unsent
<1>10. JoiningOK'
  <2>1. ASSUME NEW d \in Clients
        PROVE  /\ Once(client'[d].joining)
               /\ \A i \in 1..Len(client'[d].joining) :
                     ClientOf[client'[d].joining[i]] = d /\ send'[client'[d].joining[i]] = "joining"
    <3>1. CASE d = c  BY <1>1, <1>4, <3>1 DEF Once
    <3>2. CASE d # c
      <4>1. client'[d].joining = client[d].joining  BY <1>4, <3>2
      <4>2. Once(client[d].joining)  BY DEF JoiningOK
      <4>3. ASSUME NEW i \in 1..Len(client[d].joining)
            PROVE  /\ ClientOf[client[d].joining[i]] = d
                   /\ send'[client[d].joining[i]] = "joining"
        <5>1. PICK r : r = client[d].joining[i]  OBVIOUS
        <5>2. r \in Requests /\ ClientOf[r] = d /\ send[r] = "joining"
          BY <5>1, JoiningAre DEF JoiningOK
        <5>3. r \notin Pending(c) /\ r \notin Joining(c)
          BY <3>2, <5>2, JoiningAre DEF Pending
        <5> QED  BY <1>7, <5>1, <5>2, <5>3
      <4> QED  BY <4>1, <4>2, <4>3
    <3> QED  BY <3>1, <3>2
  <2> QED  BY <2>1 DEF JoiningOK
<1> QED  BY <1>4, <1>5, <1>6, <1>8, <1>9, <1>10

LEMMA ClosedIsNone == closedByDaemon(NoLink) = NoLink
<1>1. PICK q, e, k : q = EmptyParser /\ e = <<>> /\ k = NoLink  OBVIOUS
<1>2. k = [open |-> FALSE, served |-> FALSE, toDaemon |-> e, toClient |-> e,
           daemonParser |-> q, clientParser |-> q, inflight |-> 0, sent |-> e, seen |-> e]
  BY <1>1 DEF NoLink
<1>3. PICK j : j = [k EXCEPT !.served = FALSE, !.toDaemon = e, !.daemonParser = q]  OBVIOUS
<1>4. j = [open |-> FALSE, served |-> FALSE, toDaemon |-> e, toClient |-> e,
           daemonParser |-> q, clientParser |-> q, inflight |-> 0, sent |-> e, seen |-> e]
  BY <1>2, <1>3
<1> QED  BY <1>1, <1>2, <1>3, <1>4 DEF closedByDaemon

LEMMA NoLinkServed == NoLink.served = FALSE
BY DEF NoLink

\* The whole, for the steps that neither send nor hear a request.
LEMMA QuietStep ==
    ASSUME IInv, Quiet, LinkShape', StreamsOK', JoiningOK', up' \in BOOLEAN,
           client' \in [Clients -> [conn : Conns, links : Nat, joining : Seq(Requests)]],
           send' \in [Requests -> Sends], ConnectsOK'
    PROVE  IInv'
<1>1. StreamsOK /\ SentOK /\ WorkOK /\ CountsOK  BY DEF IInv
<1>2. SentOK' /\ WorkOK' /\ CountsOK'  BY <1>1, QuietKeeps
<1>3. TypesOK'  BY DEF IInv, TypesOK, Quiet
<1> QED  BY <1>2, <1>3 DEF IInv

LEMMA TimeoutKeeps ==
    ASSUME IInv, NEW r \in Requests, Timeout(r)
    PROVE  IInv'
<1>1. TypesOK /\ StreamsOK /\ ConnectsOK /\ JoiningOK  BY DEF IInv
<1>2. UNCHANGED <<up, client, link, work, lane>> /\ send[r] = "pending"
      /\ send' = [send EXCEPT ![r] = "timeout"]
  BY DEF Timeout
<1>3. LinkShape' /\ StreamsOK' /\ AllKept  BY <1>1, <1>2, NoneChanges
<1>4. send' \in [Requests -> Sends]  BY <1>1, <1>2 DEF TypesOK, Sends
<1>5. \A q \in Requests : send'[q] = IF q = r THEN "timeout" ELSE send[q]
  BY <1>1, <1>2 DEF TypesOK
<1>6. Quiet  BY <1>2, <1>3, <1>5 DEF Quiet, Unsent
<1>7. JoiningOK'
  <2>1. \A c \in Clients : \A i \in 1..Len(client[c].joining) :
          /\ client[c].joining[i] \in Requests /\ send[client[c].joining[i]] = "joining"
    BY <1>1, JoiningAre DEF JoiningOK
  <2>2. \A q \in Requests : send[q] = "joining" => send'[q] = "joining"  BY <1>2, <1>5
  <2> QED  BY <1>1, <1>2, <2>1, <2>2 DEF JoiningOK
<1>8. ConnectsOK'
  <2>1. \A d \in Clients : GivesUp(d)  BY <1>2 DEF GivesUp
  <2> QED  BY <1>1, <1>2, <2>1, ConnectsKeep
<1>9. up' \in BOOLEAN /\ client' \in [Clients -> [conn : Conns, links : Nat, joining : Seq(Requests)]]
  BY <1>1, <1>2 DEF TypesOK
<1> QED  BY <1>3, <1>4, <1>6, <1>7, <1>8, <1>9, QuietStep

LEMMA ConnectFailsKeeps ==
    ASSUME IInv, NEW c \in Clients, ConnectFails(c)
    PROVE  IInv'
<1>1. TypesOK /\ StreamsOK /\ ConnectsOK /\ JoiningOK  BY DEF IInv
<1>2. closeTransport(c) /\ UNCHANGED <<up, link, work, lane>>  BY DEF ConnectFails
<1>3. LinkShape' /\ StreamsOK' /\ AllKept  BY <1>1, <1>2, NoneChanges
<1>4. /\ client' \in [Clients -> [conn : Conns, links : Nat, joining : Seq(Requests)]]
      /\ send' \in [Requests -> Sends]
      /\ \A d \in Clients : GivesUp(d)
      /\ JoiningOK'
      /\ \A r \in Requests : send[r] \notin Unsent => send'[r] \notin Unsent
  BY <1>1, <1>2, closeTransportIs
<1>5. Quiet  BY <1>2, <1>3, <1>4 DEF Quiet
<1>6. ConnectsOK'  BY <1>1, <1>2, <1>4, ConnectsKeep
<1>7. up' \in BOOLEAN  BY <1>1, <1>2 DEF TypesOK
<1> QED  BY <1>3, <1>4, <1>5, <1>6, <1>7, QuietStep

\* The client's end of one socket changes.
LEMMA ClientEndChanges ==
    ASSUME TypesOK, StreamsOK, NEW c \in Clients, NEW g \in Links(c), NEW t, NEW q,
           NEW j, ClientEnd(j, link[c][g], t, q), Changes(c, g, j)
    PROVE  /\ LinkShape' /\ StreamsOK' /\ AllKept
           /\ \A d \in Clients : \A h \in Links(d) :
                 (d # c \/ h # g) => link'[d][h] = link[d][h]
<1>1. PICK k : k = link[c][g]  OBVIOUS
<1>2. LinkOK(k)  BY <1>1 DEF StreamsOK
<1>3. ClientEnd(j, k, t, q)  BY <1>1
<1>4. LinkOK(j) /\ SameEnd(j, k) /\ j.inflight = k.inflight  BY <1>2, <1>3, ClientEndOK
<1>5. Kept(j, link[c][g])  BY <1>1, <1>4 DEF Kept, SameEnd
<1> QED  BY <1>4, <1>5, OneChanges

LEMMA DisconnectKeeps ==
    ASSUME IInv, NEW c \in Clients, Disconnect(c)
    PROVE  IInv'
<1>1. TypesOK /\ StreamsOK /\ ConnectsOK /\ JoiningOK  BY DEF IInv
<1>2. closeTransport(c) /\ UNCHANGED <<up, work, lane>> /\ client[c].conn # "off"
  BY DEF Disconnect
<1>3. /\ client' \in [Clients -> [conn : Conns, links : Nat, joining : Seq(Requests)]]
      /\ send' \in [Requests -> Sends]
      /\ \A d \in Clients : GivesUp(d)
      /\ JoiningOK'
      /\ \A r \in Requests : send[r] \notin Unsent => send'[r] \notin Unsent
  BY <1>1, <1>2, closeTransportIs
<1>4. /\ LinkShape' /\ StreamsOK' /\ AllKept
      /\ \A d \in Clients : \A h \in Links(d) :
            Unused(d, h) /\ link[d][h] = NoLink => link'[d][h] = NoLink
  <2>1. CASE client[c].conn = "on"
    <3>1. PICK g : g = client[c].links  OBVIOUS
    <3>2. g \in Links(c)  BY <1>1, <1>2, <3>1 DEF ConnectsOK
    <3>3. PICK e, q : e = <<>> /\ q = EmptyParser  OBVIOUS
    <3>4. PICK k : k = link[c][g]  OBVIOUS
    <3>5. /\ LinkShape' /\ StreamsOK' /\ AllKept
          /\ \A d \in Clients : \A h \in Links(d) :
                (d # c \/ h # g) => link'[d][h] = link[d][h]
      <4>1. link' = [link EXCEPT ![c][g] = [@ EXCEPT !.open = FALSE, !.toClient = e,
                                                     !.clientParser = q]]
        BY <2>1, <3>1, <3>3 DEF Disconnect, Current
      <4>2. PICK x : x = [k EXCEPT !.open = FALSE, !.toClient = e, !.clientParser = q]
        OBVIOUS
      <4>3. link' = [link EXCEPT ![c][g] = x]
        BY <1>1, <3>2, <3>4, <4>1, <4>2 DEF TypesOK, LinkShape
      <4>4. Changes(c, g, x) /\ ClientEnd(x, link[c][g], e, q)
        BY <3>4, <4>2, <4>3 DEF Changes, ClientEnd
      <4> QED  BY <1>1, <3>2, <3>4, <4>4, ClientEndChanges
    <3>6. g \in Nat  BY <3>2, LinksAre
    <3>7. ~Unused(c, g)  BY <2>1, <3>1, <3>6 DEF Unused
    <3> QED  BY <3>5, <3>7
  <2>2. CASE client[c].conn # "on"
    <3>1. link' = link  BY <2>2 DEF Disconnect
    <3> QED  BY <1>1, <3>1, NoneChanges
  <2> QED  BY <2>1, <2>2
<1>5. Quiet  BY <1>2, <1>3, <1>4 DEF Quiet
<1>6. ConnectsOK'  BY <1>1, <1>3, <1>4, ConnectsKeep
<1>7. up' \in BOOLEAN  BY <1>1, <1>2 DEF TypesOK
<1> QED  BY <1>3, <1>4, <1>5, <1>6, <1>7, QuietStep

LEMMA ClientReadsKeeps ==
    ASSUME IInv, NEW c \in Clients, NEW n \in Nat, ClientReads(c, n)
    PROVE  IInv'
<1>1. TypesOK /\ StreamsOK /\ ConnectsOK /\ JoiningOK  BY DEF IInv
<1>2. UNCHANGED <<up, client, work, lane>> /\ client[c].conn = "on"
  BY DEF ClientReads
<1>3. PICK g : g = client[c].links  OBVIOUS
<1>4. g \in Links(c)  BY <1>1, <1>2, <1>3 DEF ConnectsOK
<1>5. PICK t, q : /\ t = SubSeq(link[c][g].toClient, n + 1, Len(link[c][g].toClient))
                  /\ q = push(link[c][g].clientParser, SubSeq(link[c][g].toClient, 1, n)).parser
  OBVIOUS
<1>6. PICK k : k = link[c][g]  OBVIOUS
<1>7. /\ LinkShape' /\ StreamsOK' /\ AllKept
      /\ \A d \in Clients : \A h \in Links(d) :
            (d # c \/ h # g) => link'[d][h] = link[d][h]
  <2>1. PICK j : j = [k EXCEPT !.toClient = t, !.clientParser = q]  OBVIOUS
  <2>2. link' = [link EXCEPT ![c][g] = [k EXCEPT !.toClient = SubSeq(@, n + 1, Len(@)),
                                                 !.clientParser = q]]
    BY <1>3, <1>5, <1>6 DEF ClientReads, Current
  <2>3. link' = [link EXCEPT ![c][g] = j]  BY <1>5, <1>6, <2>1, <2>2
  <2>4. Changes(c, g, j) /\ ClientEnd(j, link[c][g], t, q)
    BY <1>6, <2>1, <2>3 DEF Changes, ClientEnd
  <2> QED  BY <1>1, <1>4, <2>4, ClientEndChanges
<1>8. \A r \in Requests : send'[r] = send[r] \/ (send[r] = "pending" /\ send'[r] \in {"answered", "refused"})
  <2>1. PICK answers : answers = ToSet(Emitted(push(link[c][g].clientParser,
                                                   SubSeq(link[c][g].toClient, 1, n)).lines))
    OBVIOUS
  <2> DEFINE For(r) == {tag \in {"answered", "refused"} : <<r, tag>> \in answers}
  <2>2. send' = [r \in Requests |->
                   IF send[r] = "pending" /\ For(r) # {} THEN CHOOSE tag \in For(r) : TRUE
                   ELSE send[r]]
    BY <1>3, <2>1 DEF ClientReads, Current
  <2>3. \A r \in Requests : For(r) # {} => (CHOOSE tag \in For(r) : TRUE) \in For(r)
    OBVIOUS
  <2>4. \A r \in Requests : For(r) \subseteq {"answered", "refused"}  OBVIOUS
  <2> HIDE DEF For
  <2> QED  BY <2>2, <2>3, <2>4
<1>9. send' \in [Requests -> Sends]
  <2>1. send' = [r \in Requests |-> send'[r]]  BY DEF ClientReads
  <2>2. \A r \in Requests : send'[r] \in Sends  BY <1>1, <1>8 DEF TypesOK, Sends
  <2> QED  BY <2>1, <2>2
<1>10. Quiet  BY <1>2, <1>7, <1>8 DEF Quiet, Unsent
<1>11. JoiningOK'
  <2>1. \A d \in Clients : \A i \in 1..Len(client[d].joining) :
          /\ client[d].joining[i] \in Requests /\ send[client[d].joining[i]] = "joining"
    BY <1>1, JoiningAre DEF JoiningOK
  <2>2. \A q2 \in Requests : send[q2] = "joining" => send'[q2] = "joining"  BY <1>8
  <2> QED  BY <1>1, <1>2, <2>1, <2>2 DEF JoiningOK
<1>12. ConnectsOK'
  <2>1. \A d \in Clients : GivesUp(d)  BY <1>2 DEF GivesUp
  <2>2. ~Unused(c, g)
    <3>1. g \in Nat  BY <1>4, LinksAre
    <3> QED  BY <1>2, <1>3, <3>1 DEF Unused
  <2>3. \A d \in Clients : \A h \in Links(d) :
            Unused(d, h) /\ link[d][h] = NoLink => link'[d][h] = NoLink
    BY <1>7, <2>2
  <2> QED  BY <1>1, <2>1, <2>3, ConnectsKeep
<1>13. up' \in BOOLEAN /\ client' \in [Clients -> [conn : Conns, links : Nat, joining : Seq(Requests)]]
  BY <1>1, <1>2 DEF TypesOK
<1> QED  BY <1>7, <1>9, <1>10, <1>11, <1>12, <1>13, QuietStep

\* The daemon's end of one socket is closed.
LEMMA ClosedByDaemonKeeps ==
    ASSUME IInv, NEW c \in Clients, NEW g \in Links(c), link[c][g].served,
           link' = [link EXCEPT ![c][g] = closedByDaemon(link[c][g])],
           UNCHANGED <<up, client, send, work, lane>>
    PROVE  IInv'
<1>1. TypesOK /\ StreamsOK /\ ConnectsOK /\ JoiningOK  BY DEF IInv
<1>2. PICK j : j = closedByDaemon(link[c][g])  OBVIOUS
<1>3. PICK k : k = link[c][g]  OBVIOUS
<1>4. LinkOK(j) /\ j.sent = k.sent /\ j.seen = k.seen /\ j.inflight = k.inflight
  <2>1. LinkOK(k) /\ j = closedByDaemon(k)  BY <1>1, <1>2, <1>3 DEF StreamsOK
  <2> QED  BY <2>1, closedByDaemonOK
<1>5. Changes(c, g, j) /\ Kept(j, link[c][g])  BY <1>2, <1>3, <1>4 DEF Changes, Kept
<1>6. /\ LinkShape' /\ StreamsOK' /\ AllKept
      /\ \A d \in Clients : \A h \in Links(d) : (d # c \/ h # g) => link'[d][h] = link[d][h]
  BY <1>1, <1>4, <1>5, OneChanges
<1>7. Quiet  BY <1>6 DEF Quiet
<1>8. JoiningOK'  BY <1>1 DEF JoiningOK
<1>9. ConnectsOK'
  <2>1. \A d \in Clients : GivesUp(d)  BY DEF GivesUp
  <2>2. link[c][g] # NoLink  BY NoLinkServed
  <2>3. \A d \in Clients : \A h \in Links(d) :
            Unused(d, h) /\ link[d][h] = NoLink => link'[d][h] = NoLink
    BY <1>6, <2>2
  <2> QED  BY <1>1, <2>1, <2>3, ConnectsKeep
<1>10. /\ up' \in BOOLEAN /\ send' \in [Requests -> Sends]
       /\ client' \in [Clients -> [conn : Conns, links : Nat, joining : Seq(Requests)]]
  BY <1>1 DEF TypesOK
<1> QED  BY <1>6, <1>7, <1>8, <1>9, <1>10, QuietStep

LEMMA StopKeeps ==
    ASSUME IInv, Stop
    PROVE  IInv'
<1>1. TypesOK /\ StreamsOK /\ ConnectsOK /\ JoiningOK  BY DEF IInv
<1>2. UNCHANGED <<client, send, work, lane>> /\ up' = FALSE  BY DEF Stop
<1>3. link' = [c \in Clients |-> [g \in Links(c) |-> closedByDaemon(link[c][g])]]  BY DEF Stop
<1>4. \A c \in Clients : \A g \in Links(c) : link'[c][g] = closedByDaemon(link[c][g])
  BY <1>3
<1>5. LinkShape'  BY <1>3 DEF LinkShape, Links
<1>6. ASSUME NEW c \in Clients, NEW g \in Links(c)
      PROVE  LinkOK(link'[c][g]) /\ Kept(link'[c][g], link[c][g])
  <2>1. PICK k, j : k = link[c][g] /\ j = link'[c][g]  OBVIOUS
  <2>2. LinkOK(k) /\ j = closedByDaemon(k)  BY <1>1, <1>4, <2>1 DEF StreamsOK
  <2>3. LinkOK(j) /\ Kept(j, k)  BY <2>2, closedByDaemonOK DEF Kept
  <2> QED  BY <2>1, <2>3
<1>7. StreamsOK' /\ AllKept  BY <1>6 DEF StreamsOK, AllKept, Links
<1>8. Quiet  BY <1>2, <1>7 DEF Quiet
<1>9. JoiningOK'  BY <1>1, <1>2 DEF JoiningOK
<1>10. ConnectsOK'
  <2>1. \A d \in Clients : GivesUp(d)  BY <1>2 DEF GivesUp
  <2>2. \A d \in Clients : \A h \in Links(d) :
            Unused(d, h) /\ link[d][h] = NoLink => link'[d][h] = NoLink
    BY <1>4, ClosedIsNone
  <2> QED  BY <1>1, <2>1, <2>2, ConnectsKeep
<1>11. /\ up' \in BOOLEAN /\ send' \in [Requests -> Sends]
       /\ client' \in [Clients -> [conn : Conns, links : Nat, joining : Seq(Requests)]]
  BY <1>1, <1>2 DEF TypesOK
<1> QED  BY <1>5, <1>7, <1>8, <1>9, <1>10, <1>11, QuietStep

LEMMA DaemonSeesCloseKeeps ==
    ASSUME IInv, NEW c \in Clients, NEW g \in Links(c), DaemonSeesClose(c, g)
    PROVE  IInv'
<1>1. /\ link[c][g].served /\ UNCHANGED <<up, client, send, work, lane>>
      /\ link' = [link EXCEPT ![c][g] = closedByDaemon(@)]
  BY DEF DaemonSeesClose
<1>2. LinkShape  BY DEF IInv, TypesOK
<1>3. link' = [link EXCEPT ![c][g] = closedByDaemon(link[c][g])]
  BY <1>1, <1>2 DEF LinkShape
<1> QED  BY <1>1, <1>3, ClosedByDaemonKeeps

LEMMA ReceiveTooMuchKeeps ==
    ASSUME IInv, NEW c \in Clients, NEW g \in Links(c), NEW n, ReceiveTooMuch(c, g, n)
    PROVE  IInv'
<1>1. /\ link[c][g].served /\ UNCHANGED <<up, client, send, work, lane>>
      /\ link' = [link EXCEPT ![c][g] = closedByDaemon(link[c][g])]
  BY DEF ReceiveTooMuch
<1> QED  BY <1>1, ClosedByDaemonKeeps

-----------------------------------------------------------------------------
(* Requests are written.                                                     *)

\* The requests of news leave for the socket g of c; none of them was sent before.
Writes(c, g, j, news) ==
    /\ Changes(c, g, j) /\ LinkOK(j) /\ j.sent = link[c][g].sent \o news
    /\ j.seen = link[c][g].seen /\ j.inflight = link[c][g].inflight
    /\ Once(news)
    /\ \A i \in 1..Len(news) :
          ClientOf[news[i]] = c /\ send[news[i]] \in Unsent /\ send'[news[i]] \notin Unsent
    /\ \A r \in Requests : send[r] \notin Unsent => send'[r] \notin Unsent
    /\ UNCHANGED <<up, work, lane>>

\* What is at place i of two sequences one after the other.
LEMMA InBoth ==
    ASSUME NEW S, NEW a \in Seq(S), NEW b \in Seq(S), NEW i \in 1..Len(a \o b)
    PROVE  \/ i \in 1..Len(a) /\ (a \o b)[i] = a[i]
           \/ i \in Nat /\ i - Len(a) \in 1..Len(b) /\ (a \o b)[i] = b[i - Len(a)]
<1>1. Len(a) \in Nat /\ Len(b) \in Nat /\ Len(a \o b) = Len(a) + Len(b)
  BY LenProperties, ConcatProperties
<1>2. \A n \in 1..(Len(a) + Len(b)) : (a \o b)[n] = IF n <= Len(a) THEN a[n] ELSE b[n - Len(a)]
  BY ConcatProperties
<1>3. PICK x, y : x = Len(a) /\ y = Len(b)  OBVIOUS
<1>4. x \in Nat /\ y \in Nat /\ i \in 1..(x + y)  BY <1>1, <1>3
<1>5. i \in 1..x \/ (i \in Nat /\ i - x \in 1..y /\ ~(i <= x))  BY <1>4
<1>6. i \in 1..x => i <= x  BY <1>4
<1> QED  BY <1>1, <1>2, <1>3, <1>4, <1>5, <1>6

LEMMA WritesKeeps ==
    ASSUME IInv, NEW c \in Clients, NEW g \in Links(c), NEW j, NEW news \in Seq(Requests),
           Writes(c, g, j, news)
    PROVE  LinkShape' /\ StreamsOK' /\ SentOK' /\ WorkOK' /\ CountsOK'
<1>1. TypesOK /\ StreamsOK /\ SentOK /\ WorkOK /\ CountsOK  BY DEF IInv
<1>2. /\ Changes(c, g, j) /\ LinkOK(j) /\ j.sent = link[c][g].sent \o news
      /\ j.seen = link[c][g].seen /\ j.inflight = link[c][g].inflight
      /\ Once(news) /\ UNCHANGED <<up, work, lane>>
      /\ \A r \in Requests : send[r] \notin Unsent => send'[r] \notin Unsent
      /\ \A i \in 1..Len(news) :
            ClientOf[news[i]] = c /\ send[news[i]] \in Unsent /\ send'[news[i]] \notin Unsent
  BY DEF Writes
<1>3. /\ LinkShape' /\ StreamsOK' /\ link'[c][g] = j
      /\ \A d \in Clients : \A h \in Links(d) : (d # c \/ h # g) => link'[d][h] = link[d][h]
  BY <1>1, <1>2, OneChanges
<1>4. \A d \in Clients : \A h \in Links(d) :
        link[d][h].sent \in Seq(Requests) /\ link'[d][h].seen = link[d][h].seen
        /\ link'[d][h].inflight = link[d][h].inflight
  BY <1>1, <1>2, <1>3 DEF StreamsOK, LinkOK, IsLink, LinkFields
<1>5. ASSUME NEW d \in Clients, NEW h \in Links(d), NEW i \in 1..Len(link'[d][h].sent)
      PROVE  \/ /\ i \in 1..Len(link[d][h].sent) /\ link'[d][h].sent[i] = link[d][h].sent[i]
             \/ /\ d = c /\ h = g /\ i \in Nat
                /\ i - Len(link[d][h].sent) \in 1..Len(news)
                /\ link'[d][h].sent[i] = news[i - Len(link[d][h].sent)]
  <2>1. CASE d = c /\ h = g
    <3>1. PICK a : a = link[d][h].sent  OBVIOUS
    <3>2. a \in Seq(Requests) /\ link'[d][h].sent = a \o news /\ i \in 1..Len(a \o news)
      BY <1>2, <1>3, <1>4, <2>1, <3>1
    <3>3. \/ i \in 1..Len(a) /\ (a \o news)[i] = a[i]
          \/ i \in Nat /\ i - Len(a) \in 1..Len(news) /\ (a \o news)[i] = news[i - Len(a)]
      BY <3>2, InBoth
    <3> QED  BY <2>1, <3>1, <3>2, <3>3
  <2>2. CASE d # c \/ h # g  BY <1>3, <2>2
  <2> QED  BY <2>1, <2>2
<1>6. \A d \in Clients : \A h \in Links(d) : \A i \in 1..Len(link[d][h].sent) :
        /\ link[d][h].sent[i] \in Requests
        /\ ClientOf[link[d][h].sent[i]] = d /\ send[link[d][h].sent[i]] \notin Unsent
  BY <1>1, <1>4, ElementOfSeq DEF SentOK
<1>7. SentOK'
  <2>1. ASSUME NEW d \in Clients, NEW h \in Links(d), NEW i \in 1..Len(link'[d][h].sent)
        PROVE  /\ ClientOf[link'[d][h].sent[i]] = d /\ send'[link'[d][h].sent[i]] \notin Unsent
               /\ \A h2 \in Links(d) : \A i2 \in 1..Len(link'[d][h2].sent) :
                     link'[d][h].sent[i] = link'[d][h2].sent[i2] => h = h2 /\ i = i2
    <3>1. PICK x, m : x = link'[d][h].sent[i] /\ m = Len(link[d][h].sent)  OBVIOUS
    <3>2. \/ i \in 1..m /\ x = link[d][h].sent[i]
          \/ d = c /\ h = g /\ i \in Nat /\ i - m \in 1..Len(news) /\ x = news[i - m]
      BY <1>5, <3>1
    <3>3. ClientOf[x] = d /\ send'[x] \notin Unsent
      <4>1. CASE i \in 1..m /\ x = link[d][h].sent[i]
        <5>1. x \in Requests /\ ClientOf[x] = d /\ send[x] \notin Unsent
          BY <1>6, <3>1, <4>1
        <5> QED  BY <1>2, <5>1
      <4>2. CASE d = c /\ i - m \in 1..Len(news) /\ x = news[i - m]
        <5>1. PICK n : n = i - m  OBVIOUS
        <5> QED  BY <1>2, <4>2, <5>1
      <4> QED  BY <3>2, <4>1, <4>2
    <3>4. ASSUME NEW h2 \in Links(d), NEW i2 \in 1..Len(link'[d][h2].sent),
                 x = link'[d][h2].sent[i2]
          PROVE  h = h2 /\ i = i2
      <4>1. PICK m2 : m2 = Len(link[d][h2].sent)  OBVIOUS
      <4>2. \/ i2 \in 1..m2 /\ x = link[d][h2].sent[i2]
            \/ d = c /\ h2 = g /\ i2 \in Nat /\ i2 - m2 \in 1..Len(news) /\ x = news[i2 - m2]
        BY <1>5, <3>4, <4>1
      <4>3. CASE i \in 1..m /\ x = link[d][h].sent[i]
        <5>1. send[x] \notin Unsent  BY <1>6, <3>1, <4>3
        <5>2. i2 \in 1..m2 /\ x = link[d][h2].sent[i2]  BY <1>2, <4>2, <5>1
        <5>3. i \in 1..Len(link[d][h].sent) /\ i2 \in 1..Len(link[d][h2].sent)
          BY <3>1, <4>1, <4>3, <5>2
        <5>4. link[d][h].sent[i] = link[d][h2].sent[i2]  BY <4>3, <5>2
        <5>5. \A j2 \in 1..Len(link[d][h2].sent) :
                link[d][h].sent[i] = link[d][h2].sent[j2] => h = h2 /\ i = j2
          BY <1>1, <5>3 DEF SentOK
        <5> QED  BY <5>3, <5>4, <5>5
      <4>4. CASE d = c /\ h = g /\ i \in Nat /\ i - m \in 1..Len(news) /\ x = news[i - m]
        <5>1. send[x] \in Unsent  BY <1>2, <4>4
        <5>2. h2 = g /\ i2 \in Nat /\ i2 - m2 \in 1..Len(news) /\ x = news[i2 - m2]
          BY <1>6, <4>1, <4>2, <5>1
        <5>3. m2 = m /\ i - m = i2 - m  BY <1>2, <3>1, <4>1, <4>4, <5>2 DEF Once
        <5>4. m \in Nat  BY <1>4, <3>1, LenProperties
        <5> QED  BY <4>4, <5>2, <5>3, <5>4
      <4> QED  BY <3>2, <4>3, <4>4
    <3> QED  BY <3>1, <3>3, <3>4
  <2> QED  BY <2>1 DEF SentOK, Links
<1>8. WorkOK'
  <2>1. ASSUME NEW r \in Requests, work'[r].state # "none"
        PROVE  /\ work'[r].on \in Links(ClientOf[r])
               /\ \E i \in 1..Len(link'[ClientOf[r]][work'[r].on].seen) :
                     link'[ClientOf[r]][work'[r].on].seen[i] = r
    <3>1. work'[r] = work[r] /\ work[r].state # "none"  BY <1>2, <2>1
    <3>2. PICK d, h : d = ClientOf[r] /\ h = work[r].on  OBVIOUS
    <3>3. d \in Clients /\ h \in Links(d) /\ \E i \in 1..Len(link[d][h].seen) : link[d][h].seen[i] = r
      BY <1>1, <3>1, <3>2, RequestsAssumption DEF WorkOK
    <3>4. link'[d][h].seen = link[d][h].seen  BY <1>4, <3>3
    <3> QED  BY <3>1, <3>2, <3>3, <3>4
  <2> QED  BY <2>1 DEF WorkOK, Links
<1>9. CountsOK'
  <2>1. \A l \in Lanes : HandledInLane(l)' = HandledInLane(l)  BY <1>2 DEF HandledInLane
  <2>2. \A d \in Clients : \A h \in Links(d) : HandledOnLink(d, h)' = HandledOnLink(d, h)
    BY <1>2 DEF HandledOnLink
  <2>3. CountsOK /\ (up' => up) /\ lane' = lane  BY <1>1, <1>2
  <2>4. \A d \in Clients : \A h \in Links(d) : link'[d][h].inflight = link[d][h].inflight
    BY <1>4
  <2> QED  BY <2>1, <2>2, <2>3, <2>4 DEF CountsOK, Links
<1> QED  BY <1>3, <1>7, <1>8, <1>9

\* The whole, for the steps that write requests.
LEMMA WritesStep ==
    ASSUME IInv, NEW c \in Clients, NEW g \in Links(c), NEW j, NEW news \in Seq(Requests),
           Writes(c, g, j, news), JoiningOK', ConnectsOK',
           client' \in [Clients -> [conn : Conns, links : Nat, joining : Seq(Requests)]],
           send' \in [Requests -> Sends]
    PROVE  IInv'
<1>1. LinkShape' /\ StreamsOK' /\ SentOK' /\ WorkOK' /\ CountsOK'  BY WritesKeeps
<1>2. UNCHANGED <<up, work, lane>>  BY DEF Writes
<1>3. TypesOK'  BY <1>1, <1>2 DEF IInv, TypesOK
<1> QED  BY <1>1, <1>3 DEF IInv

LEMMA SendIsOn ==
    ASSUME IInv, NEW r \in Requests, NEW c \in Clients, c = ClientOf[r], send[r] = "new",
           client[c].conn = "on", NEW size \in Sizes,
           link' = [link EXCEPT ![c][Current(c)] = Written(@, <<r>>, size)],
           send' = [send EXCEPT ![r] = "pending"], UNCHANGED <<up, client, work, lane>>
    PROVE  IInv'
<1>1. TypesOK /\ StreamsOK /\ ConnectsOK /\ JoiningOK  BY DEF IInv
<1>2. PICK g, one : g = client[c].links /\ one = <<r>>  OBVIOUS
<1>3. g \in Links(c) /\ ~Unused(c, g)
  <2>1. g \in Links(c)  BY <1>1, <1>2 DEF ConnectsOK
  <2>2. g \in Nat  BY <2>1, LinksAre
  <2> QED  BY <1>2, <2>1, <2>2 DEF Unused
<1>4. one \in Seq(Requests) /\ Len(one) = 1 /\ one[1] = r  BY <1>2
<1>5. PICK k, j : k = link[c][g] /\ j = Written(k, one, size)  OBVIOUS
<1>6. Changes(c, g, j)
  <2>1. link' = [link EXCEPT ![c][g] = Written(@, one, size)]  BY <1>2 DEF Current
  <2> QED  BY <1>1, <1>3, <1>5, <2>1 DEF TypesOK, LinkShape, Changes
<1>7. LinkOK(j) /\ j.sent = k.sent \o one /\ j.seen = k.seen /\ j.inflight = k.inflight
  <2>1. LinkOK(k)  BY <1>1, <1>3, <1>5 DEF StreamsOK
  <2>2. one \in Seq(Requests) /\ j = Written(k, one, size)  BY <1>4, <1>5
  <2>3. /\ LinkOK(j) /\ j.sent = k.sent \o one /\ j.seen = k.seen
        /\ j.inflight = k.inflight /\ j.served = k.served
    BY ONLY size \in Sizes, <2>1, <2>2, WrittenOK
  <2> QED  BY <2>3
<1>8. \A q \in Requests : send'[q] = IF q = r THEN "pending" ELSE send[q]
  BY <1>1 DEF TypesOK
<1>9. Writes(c, g, j, one)
  <2>1. Once(one)  BY <1>4 DEF Once
  <2>2. \A i \in 1..Len(one) :
          ClientOf[one[i]] = c /\ send[one[i]] \in Unsent /\ send'[one[i]] \notin Unsent
    BY <1>4, <1>8 DEF Unsent
  <2>3. \A q \in Requests : send[q] \notin Unsent => send'[q] \notin Unsent
    BY <1>8 DEF Unsent
  <2> QED  BY <1>5, <1>6, <1>7, <2>1, <2>2, <2>3 DEF Writes
<1>10. JoiningOK'
  <2>1. \A d \in Clients : \A i \in 1..Len(client[d].joining) :
          /\ client[d].joining[i] \in Requests /\ send[client[d].joining[i]] = "joining"
    BY <1>1, JoiningAre DEF JoiningOK
  <2>2. \A q \in Requests : send[q] = "joining" => send'[q] = "joining"  BY <1>8
  <2> QED  BY <1>1, <2>1, <2>2 DEF JoiningOK
<1>11. ConnectsOK'
  <2>1. \A d \in Clients : GivesUp(d)  BY DEF GivesUp
  <2>2. \A d \in Clients : \A h \in Links(d) :
            Unused(d, h) /\ link[d][h] = NoLink => link'[d][h] = NoLink
    BY <1>1, <1>3, <1>6, <1>7, OneChanges
  <2> QED  BY <1>1, <2>1, <2>2, ConnectsKeep
<1>12. send' \in [Requests -> Sends]  BY <1>1 DEF TypesOK, Sends
<1>13. client' \in [Clients -> [conn : Conns, links : Nat, joining : Seq(Requests)]]
  BY <1>1 DEF TypesOK
<1> QED  BY <1>3, <1>4, <1>9, <1>10, <1>11, <1>12, <1>13, WritesStep

\* A request joins those that wait for a connect.
Waits(c, r) ==
    /\ client' \in [Clients -> [conn : Conns, links : Nat, joining : Seq(Requests)]]
    /\ client'[c].joining = Append(client[c].joining, r)
    /\ \A d \in Clients : d # c => client'[d] = client[d]
    /\ send' = [send EXCEPT ![r] = "joining"]

LEMMA JoinsKeeps ==
    ASSUME TypesOK, JoiningOK, NEW r \in Requests, NEW c \in Clients, c = ClientOf[r],
           send[r] = "new", Waits(c, r)
    PROVE  JoiningOK' /\ send' \in [Requests -> Sends]
<1>1. \A q \in Requests : send'[q] = IF q = r THEN "joining" ELSE send[q]
  BY DEF TypesOK, Waits
<1>2. \A d \in Clients : \A i \in 1..Len(client[d].joining) :
        /\ client[d].joining[i] \in Requests /\ ClientOf[client[d].joining[i]] = d
        /\ send[client[d].joining[i]] = "joining" /\ client[d].joining[i] # r
  BY JoiningAre DEF JoiningOK
<1>3. ASSUME NEW d \in Clients
      PROVE  /\ Once(client'[d].joining)
             /\ \A i \in 1..Len(client'[d].joining) :
                   ClientOf[client'[d].joining[i]] = d /\ send'[client'[d].joining[i]] = "joining"
  <2>1. CASE d # c
    <3>1. client'[d] = client[d]  BY <2>1 DEF Waits
    <3>2. Once(client[d].joining)  BY DEF JoiningOK
    <3> QED  BY <1>1, <1>2, <3>1, <3>2
  <2>2. CASE d = c
    <3>1. PICK a, n : a = client[d].joining /\ n = Len(a)  OBVIOUS
    <3>2. a \in Seq(Requests) /\ n \in Nat /\ Once(a)
      BY <3>1, LenProperties DEF TypesOK, JoiningOK
    <3>3. client'[d].joining = Append(a, r)  BY <2>2, <3>1 DEF Waits
    <3>4. /\ Len(Append(a, r)) = n + 1 /\ Append(a, r)[n + 1] = r
          /\ \A i \in 1..n : Append(a, r)[i] = a[i]
      BY <3>1, <3>2, AppendProperties
    <3>5. \A i \in 1..(n + 1) : i \in 1..n \/ i = n + 1  BY <3>2
    <3>6. \A i \in 1..n : /\ a[i] \in Requests /\ ClientOf[a[i]] = d
                          /\ send[a[i]] = "joining" /\ a[i] # r
      BY <1>2, <3>1
    <3>7. Once(Append(a, r))
      <4>1. ASSUME NEW i \in 1..(n + 1), NEW i2 \in 1..(n + 1), Append(a, r)[i] = Append(a, r)[i2]
            PROVE  i = i2
        <5>1. CASE i \in 1..n /\ i2 \in 1..n
          <6>1. a[i] = a[i2]  BY <3>4, <4>1, <5>1
          <6> QED  BY <3>1, <3>2, <5>1, <6>1 DEF Once
        <5>2. CASE i = n + 1 \/ i2 = n + 1  BY <3>4, <3>5, <3>6, <4>1, <5>2
        <5> QED  BY <3>5, <5>1, <5>2
      <4> QED  BY <3>4, <4>1 DEF Once
    <3>8. ASSUME NEW i \in 1..(n + 1)
          PROVE  ClientOf[Append(a, r)[i]] = d /\ send'[Append(a, r)[i]] = "joining"
      BY <1>1, <2>2, <3>4, <3>5, <3>6
    <3> QED  BY <3>3, <3>4, <3>7, <3>8
  <2> QED  BY <2>1, <2>2
<1>4. send' \in [Requests -> Sends]
  <2>1. send \in [Requests -> Sends]  BY DEF TypesOK
  <2> QED  BY <2>1 DEF Waits, Sends
<1> QED  BY <1>3, <1>4 DEF JoiningOK

LEMMA SendIsOff ==
    ASSUME IInv, NEW r \in Requests, NEW c \in Clients, c = ClientOf[r], send[r] = "new",
           client[c].conn = "off", Current(c) < MaxLinks[c],
           client' = [client EXCEPT ![c] = [conn |-> "connecting", links |-> @.links + 1,
                                            joining |-> <<r>>]],
           send' = [send EXCEPT ![r] = "joining"], UNCHANGED <<up, link, work, lane>>
    PROVE  IInv'
<1>1. TypesOK /\ StreamsOK /\ ConnectsOK /\ JoiningOK  BY DEF IInv
<1>2. PICK n : n = client[c].links  OBVIOUS
<1>3. n \in Nat /\ n < MaxLinks[c] /\ MaxLinks[c] \in Nat /\ n + 1 \in Links(c)
  <2>1. client \in [Clients -> [conn : Conns, links : Nat, joining : Seq(Requests)]]
    BY <1>1 DEF TypesOK
  <2>2. n \in Nat /\ n < MaxLinks[c]  BY <1>2, <2>1 DEF Current
  <2> QED  BY <2>2, LinksAre
<1>4. PICK one : one = <<r>>  OBVIOUS
<1>5. one \in Seq(Requests) /\ one = Append(client[c].joining, r)
  BY <1>1, <1>4 DEF ConnectsOK
<1>6. PICK now : now = [conn |-> "connecting", links |-> n + 1, joining |-> one]  OBVIOUS
<1>7. client \in [Clients -> [conn : Conns, links : Nat, joining : Seq(Requests)]]
  BY <1>1 DEF TypesOK
<1>8. client' = [client EXCEPT ![c] = now]
  BY <1>2, <1>4, <1>6, <1>7
<1>9. now \in [conn : Conns, links : Nat, joining : Seq(Requests)]
  BY <1>3, <1>5, <1>6 DEF Conns
<1>10. /\ client' \in [Clients -> [conn : Conns, links : Nat, joining : Seq(Requests)]]
       /\ client'[c] = now /\ \A d \in Clients : d # c => client'[d] = client[d]
  BY <1>7, <1>8, <1>9
<1>11. Waits(c, r)  BY <1>5, <1>6, <1>10 DEF Waits
<1>12. JoiningOK' /\ send' \in [Requests -> Sends]  BY <1>1, <1>11, JoinsKeeps
<1>13. LinkShape' /\ StreamsOK' /\ AllKept  BY <1>1, NoneChanges
<1>14. Quiet
  <2>1. \A q \in Requests : send[q] \notin Unsent => send'[q] \notin Unsent
    BY <1>1 DEF TypesOK, Unsent
  <2> QED  BY <1>13, <2>1 DEF Quiet
<1>15. ConnectsOK'
  <2>1. ASSUME NEW d \in Clients
        PROVE  /\ client'[d].links <= MaxLinks[d]
               /\ client'[d].conn # "off" => client'[d].links \in Links(d)
               /\ client'[d].conn # "connecting" => client'[d].joining = <<>>
               /\ \A g \in Links(d) : Unused(d, g)' => link'[d][g] = NoLink
    <3>1. CASE d # c
      <4>1. client'[d] = client[d]  BY <1>10, <3>1
      <4> QED  BY <1>1, <4>1 DEF ConnectsOK, Unused
    <3>2. CASE d = c
      <4>1. client'[d].links = n + 1 /\ client'[d].conn = "connecting"  BY <1>6, <1>10, <3>2
      <4>2. ASSUME NEW g \in Links(d), Unused(d, g)' PROVE link'[d][g] = NoLink
        <5>1. g > n + 1 \/ g = n + 1  BY <4>1, <4>2 DEF Unused
        <5>2. g > n
          <6>1. g \in Nat  BY <4>2, LinksAre
          <6> QED  BY <1>3, <5>1, <6>1
        <5>3. Unused(d, g)  BY <1>2, <3>2, <5>2 DEF Unused
        <5> QED  BY <1>1, <4>2, <5>3 DEF ConnectsOK
      <4> QED  BY <1>3, <3>2, <4>1, <4>2
    <3> QED  BY <3>1, <3>2
  <2> QED  BY <2>1 DEF ConnectsOK, Links
<1>16. up' \in BOOLEAN  BY <1>1 DEF TypesOK
<1> QED  BY <1>10, <1>12, <1>13, <1>14, <1>15, <1>16, QuietStep

LEMMA SendJoins ==
    ASSUME IInv, NEW r \in Requests, NEW c \in Clients, c = ClientOf[r], send[r] = "new",
           client[c].conn = "connecting",
           client' = [client EXCEPT ![c].joining = Append(@, r)],
           send' = [send EXCEPT ![r] = "joining"], UNCHANGED <<up, link, work, lane>>
    PROVE  IInv'
<1>1. TypesOK /\ StreamsOK /\ ConnectsOK /\ JoiningOK  BY DEF IInv
<1>2. PICK a : a = Append(client[c].joining, r)  OBVIOUS
<1>3. client \in [Clients -> [conn : Conns, links : Nat, joining : Seq(Requests)]]
  BY <1>1 DEF TypesOK
<1>4. a \in Seq(Requests)
  <2>1. client[c].joining \in Seq(Requests)  BY <1>3
  <2> QED  BY <1>2, <2>1, AppendProperties
<1>5. client' = [client EXCEPT ![c].joining = a]  BY <1>2, <1>3
<1>6. /\ client' \in [Clients -> [conn : Conns, links : Nat, joining : Seq(Requests)]]
      /\ client'[c].conn = client[c].conn /\ client'[c].links = client[c].links
      /\ client'[c].joining = a
      /\ \A d \in Clients : d # c => client'[d] = client[d]
  <2>1. PICK p, q : p = client[c] /\ q = [p EXCEPT !.joining = a]  OBVIOUS
  <2>2. p \in [conn : Conns, links : Nat, joining : Seq(Requests)]  BY <1>3, <2>1
  <2>3. /\ q \in [conn : Conns, links : Nat, joining : Seq(Requests)]
        /\ q.conn = p.conn /\ q.links = p.links /\ q.joining = a
    BY <1>4, <2>1, <2>2
  <2>4. client' = [client EXCEPT ![c] = q]  BY <1>3, <1>5, <2>1
  <2> QED  BY <1>3, <2>1, <2>3, <2>4
<1>7. Waits(c, r)  BY <1>2, <1>6 DEF Waits
<1>8. JoiningOK' /\ send' \in [Requests -> Sends]  BY <1>1, <1>7, JoinsKeeps
<1>9. LinkShape' /\ StreamsOK' /\ AllKept  BY <1>1, NoneChanges
<1>10. Quiet
  <2>1. \A q \in Requests : send[q] \notin Unsent => send'[q] \notin Unsent
    BY <1>1 DEF TypesOK, Unsent
  <2> QED  BY <1>9, <2>1 DEF Quiet
<1>11. ConnectsOK'
  <2>1. \A d \in Clients : /\ client'[d].conn = client[d].conn
                           /\ client'[d].links = client[d].links
                           /\ client[d].conn # "connecting" => client'[d] = client[d]
    BY <1>6
  <2> QED  BY <1>1, <2>1 DEF ConnectsOK, Unused, Links
<1>12. up' \in BOOLEAN  BY <1>1 DEF TypesOK
<1> QED  BY <1>6, <1>8, <1>9, <1>10, <1>11, <1>12, QuietStep

LEMMA SendKeeps ==
    ASSUME IInv, NEW r \in Requests, Send(r)
    PROVE  IInv'
<1>1. PICK c : c = ClientOf[r]  OBVIOUS
<1>2. c \in Clients  BY <1>1, RequestsAssumption
<1>3. send[r] = "new" /\ UNCHANGED <<up, work, lane>>  BY DEF Send
<1>4. CASE /\ client[c].conn = "on"
           /\ \E size \in Sizes :
                link' = [link EXCEPT ![c][Current(c)] = Written(@, <<r>>, size)]
           /\ send' = [send EXCEPT ![r] = "pending"] /\ UNCHANGED client
  BY <1>1, <1>2, <1>3, <1>4, SendIsOn
<1>5. CASE /\ client[c].conn = "off" /\ Current(c) < MaxLinks[c]
           /\ client' = [client EXCEPT ![c] = [conn |-> "connecting", links |-> @.links + 1,
                                               joining |-> <<r>>]]
           /\ send' = [send EXCEPT ![r] = "joining"] /\ UNCHANGED link
  BY <1>1, <1>2, <1>3, <1>5, SendIsOff
<1>6. CASE /\ client[c].conn = "connecting"
           /\ client' = [client EXCEPT ![c].joining = Append(@, r)]
           /\ send' = [send EXCEPT ![r] = "joining"] /\ UNCHANGED link
  BY <1>1, <1>2, <1>3, <1>6, SendJoins
<1> QED  BY <1>1, <1>4, <1>5, <1>6 DEF Send

LEMMA ConnectedKeeps ==
    ASSUME IInv, NEW c \in Clients, Connected(c)
    PROVE  IInv'
<1>1. TypesOK /\ StreamsOK /\ ConnectsOK /\ JoiningOK  BY DEF IInv
<1>2. /\ client[c].conn = "connecting" /\ UNCHANGED <<up, work, lane>>
      /\ client' = [client EXCEPT ![c].conn = "on", ![c].joining = <<>>]
      /\ send' = [r \in Requests |-> IF r \in Joining(c) THEN "pending" ELSE send[r]]
  BY DEF Connected
<1>3. PICK g, e, news : g = client[c].links /\ e = <<>> /\ news = client[c].joining  OBVIOUS
<1>4. client \in [Clients -> [conn : Conns, links : Nat, joining : Seq(Requests)]]
  BY <1>1 DEF TypesOK
<1>5. g \in Links(c) /\ g \in Nat /\ Unused(c, g) /\ link[c][g] = NoLink /\ news \in Seq(Requests)
  <2>1. g \in Links(c) /\ Unused(c, g)  BY <1>1, <1>2, <1>3 DEF ConnectsOK, Unused
  <2> QED  BY <1>1, <1>3, <1>4, <2>1, LinksAre DEF ConnectsOK
<1>6. PICK k : k = [NoLink EXCEPT !.open = TRUE, !.served = TRUE]  OBVIOUS
<1>7. LinkOK(k) /\ k.sent = <<>> /\ k.seen = <<>> /\ k.inflight = 0
  BY ONLY <1>6, ConnectedLinkOK
<1>8. PICK size \in Sizes : link' = [link EXCEPT ![c][g] = Written(k, news, size)]
  BY <1>3, <1>6 DEF Connected, Current
<1>9. PICK j : j = Written(k, news, size)  OBVIOUS
<1>10. Changes(c, g, j)  BY <1>8, <1>9 DEF Changes
<1>11. LinkOK(j) /\ j.sent = k.sent \o news /\ j.seen = k.seen /\ j.inflight = k.inflight
  <2>1. LinkOK(k) /\ news \in Seq(Requests) /\ j = Written(k, news, size)
    BY <1>5, <1>7, <1>9
  <2>2. /\ LinkOK(j) /\ j.sent = k.sent \o news /\ j.seen = k.seen
        /\ j.inflight = k.inflight /\ j.served = k.served
    BY ONLY size \in Sizes, <2>1, WrittenOK
  <2> QED  BY <2>2
<1>12. \A r \in Requests : send'[r] = IF r \in Joining(c) THEN "pending" ELSE send[r]
  BY <1>2
<1>13. /\ \A i \in 1..Len(news) : news[i] \in Requests /\ news[i] \in Joining(c)
       /\ \A r \in Joining(c) : r \in Requests /\ ClientOf[r] = c /\ send[r] = "joining"
  <2>1. DOMAIN news = 1..Len(news)  BY <1>5, LenProperties
  <2>2. \A i \in 1..Len(news) : news[i] \in Joining(c)  BY <1>3, <2>1 DEF Joining, ToSet
  <2>3. \A r \in Joining(c) : r \in Requests /\ ClientOf[r] = c /\ send[r] = "joining"
    BY <1>1, JoiningAre
  <2> QED  BY <2>2, <2>3
<1>14. Writes(c, g, j, news)
  <2>1. Once(news)  BY <1>1, <1>3 DEF JoiningOK
  <2>2. \A i \in 1..Len(news) :
          ClientOf[news[i]] = c /\ send[news[i]] \in Unsent /\ send'[news[i]] \notin Unsent
    BY <1>12, <1>13 DEF Unsent
  <2>3. \A r \in Requests : send[r] \notin Unsent => send'[r] \notin Unsent
    BY <1>12 DEF Unsent
  <2>4. j.sent = link[c][g].sent \o news /\ j.seen = link[c][g].seen
        /\ j.inflight = link[c][g].inflight
    BY <1>5, <1>7, <1>11, NoLinkOK
  <2> QED  BY <1>2, <1>10, <1>11, <2>1, <2>2, <2>3, <2>4 DEF Writes
<1>15. /\ client' \in [Clients -> [conn : Conns, links : Nat, joining : Seq(Requests)]]
       /\ client'[c].conn = "on" /\ client'[c].joining = <<>> /\ client'[c].links = g
       /\ \A d \in Clients : d # c => client'[d] = client[d]
  <2>1. PICK p, q : p = client[c] /\ q = [p EXCEPT !.conn = "on", !.joining = e]  OBVIOUS
  <2>2. p \in [conn : Conns, links : Nat, joining : Seq(Requests)]  BY <1>4, <2>1
  <2>3. e \in Seq(Requests)  BY <1>3, EmptySeq
  <2>4. /\ q \in [conn : Conns, links : Nat, joining : Seq(Requests)]
        /\ q.conn = "on" /\ q.links = p.links /\ q.joining = e
    BY <2>1, <2>2, <2>3 DEF Conns
  <2>5. client' = [client EXCEPT ![c].conn = "on", ![c].joining = e]  BY <1>2, <1>3
  <2>6. client' = [client EXCEPT ![c] = q]  BY <1>4, <2>1, <2>5
  <2> QED  BY <1>3, <1>4, <2>1, <2>4, <2>6
<1>16. JoiningOK'
  <2>1. ASSUME NEW d \in Clients
        PROVE  /\ Once(client'[d].joining)
               /\ \A i \in 1..Len(client'[d].joining) :
                     ClientOf[client'[d].joining[i]] = d /\ send'[client'[d].joining[i]] = "joining"
    <3>1. CASE d = c
      <4>1. Len(<<>>) = 0 /\ 1..0 = {}  BY EmptySeq
      <4> QED  BY <1>15, <3>1, <4>1 DEF Once
    <3>2. CASE d # c
      <4>1. client'[d].joining = client[d].joining  BY <1>15, <3>2
      <4>2. Once(client[d].joining)  BY <1>1 DEF JoiningOK
      <4>3. ASSUME NEW i \in 1..Len(client[d].joining)
            PROVE  /\ ClientOf[client[d].joining[i]] = d
                   /\ send'[client[d].joining[i]] = "joining"
        <5>1. PICK r : r = client[d].joining[i]  OBVIOUS
        <5>2. r \in Requests /\ ClientOf[r] = d /\ send[r] = "joining"
          BY <1>1, <5>1, JoiningAre DEF JoiningOK
        <5>3. r \notin Joining(c)  BY <1>13, <3>2, <5>2
        <5> QED  BY <1>12, <5>1, <5>2, <5>3
      <4> QED  BY <4>1, <4>2, <4>3
    <3> QED  BY <3>1, <3>2
  <2> QED  BY <2>1 DEF JoiningOK
<1>17. ConnectsOK'
  <2>1. ASSUME NEW d \in Clients
        PROVE  /\ client'[d].links <= MaxLinks[d]
               /\ client'[d].conn # "off" => client'[d].links \in Links(d)
               /\ client'[d].conn # "connecting" => client'[d].joining = <<>>
               /\ \A h \in Links(d) : Unused(d, h)' => link'[d][h] = NoLink
    <3>1. \A d2 \in Clients : \A h \in Links(d2) :
            (d2 # c \/ h # g) => link'[d2][h] = link[d2][h]
      BY <1>1, <1>5, <1>10, <1>11, OneChanges
    <3>2. CASE d # c
      <4>1. client'[d] = client[d]  BY <1>15, <3>2
      <4> QED  BY <1>1, <3>1, <3>2, <4>1 DEF ConnectsOK, Unused
    <3>3. CASE d = c
      <4>1. ASSUME NEW h \in Links(d), Unused(d, h)' PROVE link'[d][h] = NoLink
        <5>1. h > g  BY <1>15, <3>3, <4>1 DEF Unused
        <5>2. Unused(d, h) /\ h # g  BY <1>3, <1>5, <3>3, <5>1 DEF Unused
        <5> QED  BY <1>1, <3>1, <4>1, <5>2 DEF ConnectsOK
      <4> QED  BY <1>1, <1>3, <1>5, <1>15, <3>3, <4>1 DEF ConnectsOK
    <3> QED  BY <3>2, <3>3
  <2> QED  BY <2>1 DEF ConnectsOK, Links
<1>18. send' \in [Requests -> Sends]
  <2>1. send \in [Requests -> Sends]  BY <1>1 DEF TypesOK
  <2> QED  BY <1>2, <2>1 DEF Sends
<1> QED  BY <1>5, <1>14, <1>15, <1>16, <1>17, <1>18, WritesStep

-----------------------------------------------------------------------------
(* A request ends.                                                           *)
LEMMA HandleKeeps ==
    ASSUME IInv, NEW r \in Requests, Handle(r)
    PROVE  IInv'
<1>1. TypesOK /\ StreamsOK /\ ConnectsOK /\ SentOK /\ JoiningOK /\ WorkOK /\ CountsOK
  BY DEF IInv
<1>2. PICK c, g, k, l : c = ClientOf[r] /\ g = work[r].on /\ k = link[c][g] /\ l = LaneOf[r]
  OBVIOUS
<1>3. up /\ work[r].state = "handling" /\ UNCHANGED <<up, client, send>>  BY DEF Handle
<1>4. c \in Clients /\ g \in Links(c) /\ l \in Lanes
  BY <1>1, <1>2, <1>3, RequestsAssumption DEF WorkOK
<1>5. PICK a, n, j : /\ a = Answered(k, r, "answered") /\ n = a.inflight - 1
                     /\ j = [a EXCEPT !.inflight = n]
  OBVIOUS
<1>6. LinkOK(a) /\ SameEnd(a, k) /\ a.inflight = k.inflight
  <2>1. LinkOK(k)  BY <1>1, <1>2, <1>4 DEF StreamsOK
  <2> QED  BY ONLY <1>5, <2>1, AnsweredOK
<1>7. a \in LinkFields(a) /\ a.inflight \in Int /\ n \in Int
  <2>1. a \in LinkFields(a) /\ a.inflight \in Int  BY <1>6 DEF LinkOK, IsLink, LinkFields
  <2> QED  BY <1>5, <2>1
<1>8. LinkOK(j) /\ SameEnd(j, a) /\ j.inflight = n  BY ONLY <1>5, <1>6, <1>7, ReleasedOK
<1>9. Changes(c, g, j)
  <2>1. link' = [link EXCEPT ![c][g] = [Answered(k, r, "answered") EXCEPT !.inflight = @ - 1]]
    BY <1>2 DEF Handle
  <2>2. link' = [link EXCEPT ![c][g] = [a EXCEPT !.inflight = @ - 1]]  BY <1>5, <2>1
  <2>3. [a EXCEPT !.inflight = @ - 1] = j  BY <1>5
  <2> QED  BY <2>2, <2>3 DEF Changes
<1>10. /\ LinkShape' /\ StreamsOK' /\ link'[c][g] = j
       /\ \A d \in Clients : \A h \in Links(d) : (d # c \/ h # g) => link'[d][h] = link[d][h]
  BY <1>1, <1>4, <1>8, <1>9, OneChanges
<1>11. \A d \in Clients : \A h \in Links(d) :
         link'[d][h].sent = link[d][h].sent /\ link'[d][h].seen = link[d][h].seen
  BY <1>2, <1>6, <1>8, <1>10 DEF SameEnd
<1>12. work \in [Requests -> [state : {"none", "refused", "handling", "done"}, on : Nat]]
  BY <1>1 DEF TypesOK
<1>13. /\ work' \in [Requests -> [state : {"none", "refused", "handling", "done"}, on : Nat]]
       /\ work'[r].state = "done" /\ work'[r].on = work[r].on
       /\ \A q \in Requests : q # r => work'[q] = work[q]
  <2>1. work' = [work EXCEPT ![r].state = "done"]  BY DEF Handle
  <2>2. PICK p, q : p = work[r] /\ q = [p EXCEPT !.state = "done"]  OBVIOUS
  <2>3. p \in [state : {"none", "refused", "handling", "done"}, on : Nat]  BY <1>12, <2>2
  <2>4. /\ q \in [state : {"none", "refused", "handling", "done"}, on : Nat]
        /\ q.state = "done" /\ q.on = p.on
    BY <2>2, <2>3
  <2>5. work' = [work EXCEPT ![r] = q]  BY <1>12, <2>1, <2>2
  <2> QED  BY <1>12, <2>2, <2>4, <2>5
<1>14. lane' = [lane EXCEPT ![l] = @ - 1] /\ lane \in [Lanes -> Int]
  BY <1>1, <1>2 DEF Handle, TypesOK
<1>15. lane' \in [Lanes -> Int]
  <2>1. PICK m : m = lane[l] - 1  OBVIOUS
  <2>2. m \in Int /\ lane' = [lane EXCEPT ![l] = m]  BY <1>4, <1>14, <2>1
  <2> QED  BY <1>14, <2>2
<1>16. TypesOK'  BY <1>1, <1>3, <1>10, <1>13, <1>15 DEF TypesOK
<1>17. SentOK'  BY <1>1, <1>3, <1>11, SentStays
<1>18. JoiningOK'  BY <1>1, <1>3 DEF JoiningOK
<1>19. WorkOK'
  <2>1. ASSUME NEW q \in Requests, work'[q].state # "none"
        PROVE  /\ work'[q].on \in Links(ClientOf[q])
               /\ \E i \in 1..Len(link'[ClientOf[q]][work'[q].on].seen) :
                     link'[ClientOf[q]][work'[q].on].seen[i] = q
    <3>1. work'[q].on = work[q].on /\ work[q].state # "none"  BY <1>3, <1>13, <2>1
    <3>2. PICK d, h : d = ClientOf[q] /\ h = work[q].on  OBVIOUS
    <3>3. d \in Clients /\ h \in Links(d) /\ \E i \in 1..Len(link[d][h].seen) : link[d][h].seen[i] = q
      BY <1>1, <3>1, <3>2, RequestsAssumption DEF WorkOK
    <3>4. link'[d][h].seen = link[d][h].seen  BY <1>11, <3>3
    <3> QED  BY <3>1, <3>2, <3>3, <3>4
  <2> QED  BY <2>1 DEF WorkOK, Links
<1>20. CountsOK'
  <2>1. ASSUME NEW m \in Lanes
        PROVE  IsFiniteSet(HandledInLane(m)') /\ lane'[m] = Cardinality(HandledInLane(m)')
    <3>1. IsFiniteSet(HandledInLane(m)) /\ lane[m] = Cardinality(HandledInLane(m))
      BY <1>1, <1>3 DEF CountsOK
    <3>2. CASE m = l
      <4>1. HandledInLane(m)' = HandledInLane(m) \ {r} /\ r \in HandledInLane(m)
        BY <1>2, <1>3, <1>13, <3>2 DEF HandledInLane
      <4>2. /\ IsFiniteSet(HandledInLane(m) \ {r})
            /\ Cardinality(HandledInLane(m) \ {r}) = Cardinality(HandledInLane(m)) - 1
        BY <3>1, <4>1, FS_RemoveElement
      <4>3. lane'[m] = lane[m] - 1  BY <1>14, <3>2
      <4> QED  BY <3>1, <4>1, <4>2, <4>3
    <3>3. CASE m # l
      <4>1. HandledInLane(m)' = HandledInLane(m)
        BY <1>2, <1>13, <3>3 DEF HandledInLane
      <4>2. lane'[m] = lane[m]  BY <1>4, <1>14, <3>3
      <4> QED  BY <3>1, <4>1, <4>2
    <3> QED  BY <3>2, <3>3
  <2>2. ASSUME NEW d \in Clients, NEW h \in Links(d)
        PROVE  /\ IsFiniteSet(HandledOnLink(d, h)')
               /\ link'[d][h].inflight = Cardinality(HandledOnLink(d, h)')
    <3>1. /\ IsFiniteSet(HandledOnLink(d, h))
          /\ link[d][h].inflight = Cardinality(HandledOnLink(d, h))
      BY <1>1, <1>3 DEF CountsOK
    <3>2. CASE d = c /\ h = g
      <4>1. HandledOnLink(d, h)' = HandledOnLink(d, h) \ {r} /\ r \in HandledOnLink(d, h)
        BY <1>2, <1>3, <1>13, <3>2 DEF HandledOnLink
      <4>2. /\ IsFiniteSet(HandledOnLink(d, h) \ {r})
            /\ Cardinality(HandledOnLink(d, h) \ {r}) = Cardinality(HandledOnLink(d, h)) - 1
        BY <3>1, <4>1, FS_RemoveElement
      <4>3. link'[d][h].inflight = link[d][h].inflight - 1
        BY <1>2, <1>5, <1>6, <1>8, <1>10, <3>2
      <4> QED  BY <3>1, <4>1, <4>2, <4>3
    <3>3. CASE d # c \/ h # g
      <4>1. HandledOnLink(d, h)' = HandledOnLink(d, h)
        BY <1>2, <1>13, <3>3 DEF HandledOnLink
      <4>2. link'[d][h].inflight = link[d][h].inflight  BY <1>10, <3>3
      <4> QED  BY <3>1, <4>1, <4>2
    <3> QED  BY <3>2, <3>3
  <2> QED  BY <2>1, <2>2 DEF CountsOK, Links
<1>21. ConnectsOK'
  <2>1. \A d \in Clients : GivesUp(d)  BY <1>3 DEF GivesUp
  <2>2. k.seen # <<>>
    <3>1. \E i \in 1..Len(k.seen) : k.seen[i] = r  BY <1>1, <1>2, <1>3 DEF WorkOK
    <3>2. Len(<<>>) = 0 /\ 1..0 = {}  BY EmptySeq
    <3> QED  BY <3>1, <3>2
  <2>3. link[c][g] # NoLink  BY <1>2, <2>2, NoLinkOK
  <2>4. \A d \in Clients : \A h \in Links(d) :
            Unused(d, h) /\ link[d][h] = NoLink => link'[d][h] = NoLink
    BY <1>10, <2>3
  <2> QED  BY <1>1, <2>1, <2>4, ConnectsKeep
<1> QED  BY <1>10, <1>16, <1>17, <1>18, <1>19, <1>20, <1>21 DEF IInv

-----------------------------------------------------------------------------
(* The daemon hears requests.                                                *)
LEMMA PlacesOfThree ==
    ASSUME NEW S, NEW a \in Seq(S), NEW b \in Seq(S), NEW d \in Seq(S)
    PROVE  /\ Len(a) \in Nat /\ Len(b) \in Nat
           /\ \A i \in 1..Len(a) : i \in 1..Len((a \o b) \o d) /\ ((a \o b) \o d)[i] = a[i]
           /\ \A x \in 1..Len(b) : /\ Len(a) + x \in 1..Len((a \o b) \o d)
                                   /\ ((a \o b) \o d)[Len(a) + x] = b[x]
           /\ \A i \in 1..Len(a) : i \in 1..Len(a \o b) /\ (a \o b)[i] = a[i]
           /\ \A x \in 1..Len(b) : Len(a) + x \in 1..Len(a \o b) /\ (a \o b)[Len(a) + x] = b[x]
<1>1. PICK e, f : e = a \o b /\ f = e \o d  OBVIOUS
<1>2. e \in Seq(S)  BY <1>1, ConcatProperties
<1>3. PICK m, n, o : m = Len(a) /\ n = Len(b) /\ o = Len(d)  OBVIOUS
<1>4. m \in Nat /\ n \in Nat /\ o \in Nat  BY <1>3, LenProperties
<1>5. Len(e) = m + n /\ \A i \in 1..(m + n) : e[i] = IF i <= m THEN a[i] ELSE b[i - m]
  BY <1>1, <1>3, ConcatProperties
<1>6. Len(f) = (m + n) + o
  <2>1. Len(f) = Len(e) + Len(d)  BY <1>1, <1>2, ConcatProperties
  <2> QED  BY <1>3, <1>5, <2>1
<1>7. \A i \in 1..((m + n) + o) : f[i] = IF i <= m + n THEN e[i] ELSE d[i - (m + n)]
  <2>1. \A i \in 1..(Len(e) + Len(d)) : (e \o d)[i] = IF i <= Len(e) THEN e[i] ELSE d[i - Len(e)]
    BY <1>2, ConcatProperties
  <2> QED  BY <1>1, <1>3, <1>5, <2>1
<1>8. \A i \in 1..m : i \in 1..(m + n) /\ i <= m /\ i <= m + n /\ i \in 1..((m + n) + o)
  BY <1>4
<1>9. \A x \in 1..n : /\ m + x \in 1..(m + n) /\ ~(m + x <= m) /\ m + x <= m + n
                      /\ m + x \in 1..((m + n) + o) /\ (m + x) - m = x
  BY <1>4
<1>10. \A i \in 1..m : e[i] = a[i] /\ f[i] = a[i]  BY <1>5, <1>7, <1>8
<1>11. \A x \in 1..n : e[m + x] = b[x] /\ f[m + x] = b[x]  BY <1>5, <1>7, <1>9
<1> QED  BY <1>1, <1>3, <1>4, <1>5, <1>6, <1>8, <1>9, <1>10, <1>11

LEMMA SeenIsSent ==
    ASSUME NEW k, LinkOK(k)
    PROVE  \A i \in 1..Len(k.seen) : i \in 1..Len(k.sent) /\ k.sent[i] = k.seen[i]
<1>1. PICK rest \in Seq(Requests) : k.sent = k.seen \o rest  BY DEF LinkOK
<1>2. k.seen \in Seq(Requests)  BY DEF LinkOK, IsLink, LinkFields
<1>3. PICK a : a = k.seen  OBVIOUS
<1>4. \A i \in 1..Len(a) : i \in 1..Len(a \o rest) /\ (a \o rest)[i] = a[i]
  BY <1>2, <1>3, PlacesOfThree
<1> QED  BY <1>1, <1>3, <1>4

\* The requests of a chunk are new to the daemon.
LEMMA HeardAreNew ==
    ASSUME IInv, NEW c \in Clients, NEW g \in Links(c), NEW now \in Seq(Requests),
           NEW rest \in Seq(Requests), link[c][g].sent = (link[c][g].seen \o now) \o rest
    PROVE  /\ Once(now)
           /\ \A x \in 1..Len(now) : /\ now[x] \in Requests /\ ClientOf[now[x]] = c
                                     /\ work[now[x]].state = "none"
<1>1. StreamsOK /\ SentOK /\ WorkOK  BY DEF IInv
<1>2. PICK a, s, m : a = link[c][g].seen /\ s = link[c][g].sent /\ m = Len(a)  OBVIOUS
<1>3. a \in Seq(Requests) /\ s = (a \o now) \o rest
  BY <1>1, <1>2 DEF StreamsOK, LinkOK, IsLink, LinkFields
<1>4. m \in Nat /\ \A x \in 1..Len(now) : m + x \in 1..Len(s) /\ s[m + x] = now[x]
  <2>1. /\ Len(a) \in Nat
        /\ \A x \in 1..Len(now) : /\ Len(a) + x \in 1..Len((a \o now) \o rest)
                                  /\ ((a \o now) \o rest)[Len(a) + x] = now[x]
    BY ONLY now \in Seq(Requests), rest \in Seq(Requests), <1>3, PlacesOfThree
  <2> QED  BY <1>2, <1>3, <2>1
<1>5. \A i \in 1..Len(s) : /\ ClientOf[s[i]] = c
                           /\ \A h \in Links(c) : \A j \in 1..Len(link[c][h].sent) :
                                s[i] = link[c][h].sent[j] => g = h /\ i = j
  <2>1. \A i \in 1..Len(link[c][g].sent) :
          /\ ClientOf[link[c][g].sent[i]] = c
          /\ \A h \in Links(c) : \A j \in 1..Len(link[c][h].sent) :
                link[c][g].sent[i] = link[c][h].sent[j] => g = h /\ i = j
    BY ONLY <1>1, c \in Clients, g \in Links(c) DEF SentOK
  <2> QED  BY <1>2, <2>1
<1>6. Once(now)
  <2>1. ASSUME NEW x \in 1..Len(now), NEW y \in 1..Len(now), now[x] = now[y] PROVE x = y
    <3>1. s[m + x] = s[m + y] /\ m + x \in 1..Len(s) /\ m + y \in 1..Len(s)  BY <1>4, <2>1
    <3>2. m + x = m + y  BY <1>2, <1>5, <3>1
    <3> QED  BY <1>4, <3>2
  <2> QED  BY <2>1 DEF Once
<1>7. ASSUME NEW x \in 1..Len(now)
      PROVE  now[x] \in Requests /\ ClientOf[now[x]] = c /\ work[now[x]].state = "none"
  <2>1. PICK r : r = now[x]  OBVIOUS
  <2>2. r \in Requests /\ ClientOf[r] = c /\ m + x \in 1..Len(s) /\ s[m + x] = r
    BY <1>4, <1>5, <2>1, ElementOfSeq
  <2>3. ASSUME work[r].state # "none" PROVE FALSE
    <3>1. PICK h : h = work[r].on  OBVIOUS
    <3>2. h \in Links(c) /\ \E i \in 1..Len(link[c][h].seen) : link[c][h].seen[i] = r
      <4>1. /\ work[r].on \in Links(ClientOf[r])
            /\ \E i \in 1..Len(link[ClientOf[r]][work[r].on].seen) :
                  link[ClientOf[r]][work[r].on].seen[i] = r
        BY ONLY <1>1, <2>2, <2>3 DEF WorkOK
      <4> QED  BY ONLY <2>2, <3>1, <4>1
    <3>3. PICK i \in 1..Len(link[c][h].seen) : link[c][h].seen[i] = r  BY <3>2
    <3>4. i \in 1..Len(link[c][h].sent) /\ link[c][h].sent[i] = r
      <4>1. LinkOK(link[c][h])  BY <1>1, <3>2 DEF StreamsOK
      <4> QED  BY <3>3, <4>1, SeenIsSent
    <3>5. g = h /\ m + x = i  BY <1>5, <2>2, <3>2, <3>4
    <3>6. i \in 1..m  BY <1>2, <3>3, <3>5
    <3> QED  BY <1>4, <3>5, <3>6
  <2> QED  BY <2>1, <2>2, <2>3
<1> QED  BY <1>6, <1>7

\* What is added to the counted sets is new to them.
LEMMA CountBoth ==
    ASSUME NEW A, NEW B, IsFiniteSet(A), IsFiniteSet(B), A \cap B = {}
    PROVE  /\ IsFiniteSet(A \cup B) /\ Cardinality(A \cup B) = Cardinality(A) + Cardinality(B)
<1>1. Cardinality(A) \in Nat /\ Cardinality(B) \in Nat  BY FS_CardinalityType
<1>2. Cardinality(A \cap B) = 0  BY FS_EmptySet
<1>3. /\ IsFiniteSet(A \cup B)
      /\ Cardinality(A \cup B) = Cardinality(A) + Cardinality(B) - Cardinality(A \cap B)
  BY FS_Union
<1> QED  BY <1>1, <1>2, <1>3

LEMMA ReceiveKeeps ==
    ASSUME IInv, NEW c \in Clients, NEW g \in Links(c), NEW n \in Nat, Receive(c, g, n)
    PROVE  IInv'
<1>1. TypesOK /\ StreamsOK /\ ConnectsOK /\ SentOK /\ JoiningOK /\ WorkOK /\ CountsOK
  BY DEF IInv
<1>2. PICK k, v : k = link[c][g] /\ v = After(k, n, lane)  OBVIOUS
<1>3. /\ up /\ k.served /\ n <= Len(k.toDaemon) /\ ~Got(k, n).thrown
      /\ link' = [link EXCEPT ![c][g] = v.link] /\ lane' = v.lane
      /\ work' = [r \in Requests |-> IF r \in v.taken THEN [state |-> "handling", on |-> g]
                                     ELSE IF r \in v.refused THEN [state |-> "refused", on |-> g]
                                     ELSE work[r]]
      /\ UNCHANGED <<up, client, send>>
  BY <1>2, ReceiveIs
<1>4. LinkOK(k) /\ lane \in [Lanes -> Int]  BY <1>1, <1>2 DEF StreamsOK, TypesOK
<1>5. PICK now, rest \in Seq(Requests) : Heard(k, lane, v, now, rest)
  <2>1. \E now, rest \in Seq(Requests) : Heard(k, lane, After(k, n, lane), now, rest)
    BY ONLY n \in Nat, <1>3, <1>4, NextAreHeard
  <2> QED  BY <1>2, <2>1
<1>6. /\ Once(now)
      /\ \A x \in 1..Len(now) : /\ now[x] \in Requests /\ ClientOf[now[x]] = c
                                /\ work[now[x]].state = "none"
  BY <1>2, <1>5, HeardAreNew DEF Heard
<1>7. /\ LinkOK(v.link) /\ v.link.sent = k.sent /\ v.link.seen = k.seen \o now
      /\ v.taken \cup v.refused \subseteq {now[x] : x \in 1..Len(now)}
      /\ IsFiniteSet(v.taken) /\ v.lane \in [Lanes -> Int]
      /\ v.link.inflight = k.inflight + Cardinality(v.taken)
      /\ \A l \in Lanes : v.lane[l] = lane[l] + Cardinality(InLane(v.taken, l))
  BY <1>5, <1>6 DEF Heard
<1>8. \A r \in v.taken \cup v.refused :
        /\ r \in Requests /\ ClientOf[r] = c /\ work[r].state = "none"
        /\ \E x \in 1..Len(now) : now[x] = r
  BY <1>6, <1>7
<1>9. PICK j : j = v.link  OBVIOUS
<1>10. Changes(c, g, j) /\ LinkOK(j)  BY <1>3, <1>7, <1>9 DEF Changes
<1>11. /\ LinkShape' /\ StreamsOK' /\ link'[c][g] = j
       /\ \A d \in Clients : \A h \in Links(d) : (d # c \/ h # g) => link'[d][h] = link[d][h]
  BY <1>1, <1>10, OneChanges
<1>12. \A r \in Requests :
         work'[r] = IF r \in v.taken THEN [state |-> "handling", on |-> g]
                    ELSE IF r \in v.refused THEN [state |-> "refused", on |-> g] ELSE work[r]
  BY <1>3
<1>13. g \in Nat  BY LinksAre
<1>14. work' \in [Requests -> [state : {"none", "refused", "handling", "done"}, on : Nat]]
  <2>1. work \in [Requests -> [state : {"none", "refused", "handling", "done"}, on : Nat]]
    BY <1>1 DEF TypesOK
  <2> QED  BY <1>3, <1>13, <2>1
<1>15. TypesOK'  BY <1>1, <1>3, <1>7, <1>11, <1>14 DEF TypesOK
<1>16. SentOK'
  <2>1. \A d \in Clients : \A h \in Links(d) : link'[d][h].sent = link[d][h].sent
    BY <1>2, <1>7, <1>9, <1>11
  <2> QED  BY <1>1, <1>3, <2>1, SentStays
<1>17. JoiningOK'  BY <1>1, <1>3 DEF JoiningOK
<1>18. /\ k.seen \in Seq(Requests)
       /\ Len(k.seen) \in Nat
       /\ \A i \in 1..Len(k.seen) : i \in 1..Len(j.seen) /\ j.seen[i] = k.seen[i]
       /\ \A x \in 1..Len(now) : Len(k.seen) + x \in 1..Len(j.seen) /\ j.seen[Len(k.seen) + x] = now[x]
  <2>1. PICK a : a = k.seen  OBVIOUS
  <2>2. a \in Seq(Requests)  BY <1>4, <2>1 DEF LinkOK, IsLink, LinkFields
  <2>3. /\ Len(a) \in Nat
        /\ \A i \in 1..Len(a) : i \in 1..Len(a \o now) /\ (a \o now)[i] = a[i]
        /\ \A x \in 1..Len(now) : Len(a) + x \in 1..Len(a \o now) /\ (a \o now)[Len(a) + x] = now[x]
    BY <1>5, <2>2, PlacesOfThree
  <2> QED  BY <1>7, <1>9, <2>1, <2>2, <2>3
<1>19. WorkOK'
  <2>1. ASSUME NEW r \in Requests, work'[r].state # "none"
        PROVE  /\ work'[r].on \in Links(ClientOf[r])
               /\ \E i \in 1..Len(link'[ClientOf[r]][work'[r].on].seen) :
                     link'[ClientOf[r]][work'[r].on].seen[i] = r
    <3>1. CASE r \in v.taken \cup v.refused
      <4>1. work'[r].on = g /\ ClientOf[r] = c  BY <1>8, <1>12, <3>1
      <4>2. PICK x \in 1..Len(now) : now[x] = r  BY <1>8, <3>1
      <4>3. PICK y : y = Len(k.seen) + x  OBVIOUS
      <4>4. y \in 1..Len(j.seen) /\ j.seen[y] = r  BY <1>18, <4>2, <4>3
      <4> QED  BY <1>11, <4>1, <4>4
    <3>2. CASE r \notin v.taken \cup v.refused
      <4>1. work'[r] = work[r]  BY <1>12, <3>2
      <4>2. PICK d, h : d = ClientOf[r] /\ h = work[r].on  OBVIOUS
      <4>3. d \in Clients /\ h \in Links(d) /\ \E i \in 1..Len(link[d][h].seen) : link[d][h].seen[i] = r
        BY <1>1, <2>1, <4>1, <4>2, RequestsAssumption DEF WorkOK
      <4>4. \E i \in 1..Len(link'[d][h].seen) : link'[d][h].seen[i] = r
        <5>1. CASE d = c /\ h = g  BY <1>2, <1>11, <1>18, <4>3, <5>1
        <5>2. CASE d # c \/ h # g  BY <1>11, <4>3, <5>2
        <5> QED  BY <5>1, <5>2
      <4> QED  BY <4>1, <4>2, <4>3, <4>4
    <3> QED  BY <3>1, <3>2
  <2> QED  BY <2>1 DEF WorkOK, Links
<1>20. CountsOK'
  <2>1. ASSUME NEW l \in Lanes
        PROVE  IsFiniteSet(HandledInLane(l)') /\ lane'[l] = Cardinality(HandledInLane(l)')
    <3>1. IsFiniteSet(HandledInLane(l)) /\ lane[l] = Cardinality(HandledInLane(l))
      BY <1>1, <1>3 DEF CountsOK
    <3>2. InLane(v.taken, l) \subseteq v.taken  BY DEF InLane
    <3>3. IsFiniteSet(InLane(v.taken, l))  BY <1>7, <3>2, FS_Subset
    <3>4. \A r \in HandledInLane(l) : r \notin v.taken /\ r \notin v.refused
      BY <1>8 DEF HandledInLane
    <3>5. HandledInLane(l) \cap InLane(v.taken, l) = {}  BY <3>2, <3>4
    <3>6. HandledInLane(l)' = HandledInLane(l) \cup InLane(v.taken, l)
      <4>1. \A r \in Requests : work'[r].state = "handling" <=>
              (r \in v.taken \/ (work[r].state = "handling" /\ r \notin v.refused))
        BY <1>8, <1>12
      <4>2. \A r : r \in HandledInLane(l)' <=>
                   r \in Requests /\ work'[r].state = "handling" /\ LaneOf[r] = l
        BY DEF HandledInLane
      <4>3. \A r : r \in HandledInLane(l) <=>
                   r \in Requests /\ work[r].state = "handling" /\ LaneOf[r] = l
        BY DEF HandledInLane
      <4>4. \A r : r \in InLane(v.taken, l) <=> r \in v.taken /\ LaneOf[r] = l  BY DEF InLane
      <4>5. \A r \in v.taken : r \in Requests  BY <1>8
      <4> QED  BY <3>4, <4>1, <4>2, <4>3, <4>4, <4>5
    <3>7. /\ IsFiniteSet(HandledInLane(l) \cup InLane(v.taken, l))
          /\ Cardinality(HandledInLane(l) \cup InLane(v.taken, l))
               = Cardinality(HandledInLane(l)) + Cardinality(InLane(v.taken, l))
      BY <3>1, <3>3, <3>5, CountBoth
    <3>8. lane'[l] = lane[l] + Cardinality(InLane(v.taken, l))  BY <1>3, <1>7
    <3> QED  BY <3>1, <3>6, <3>7, <3>8
  <2>2. ASSUME NEW d \in Clients, NEW h \in Links(d)
        PROVE  /\ IsFiniteSet(HandledOnLink(d, h)')
               /\ link'[d][h].inflight = Cardinality(HandledOnLink(d, h)')
    <3>1. /\ IsFiniteSet(HandledOnLink(d, h))
          /\ link[d][h].inflight = Cardinality(HandledOnLink(d, h))
      BY <1>1, <1>3 DEF CountsOK
    <3>2. \A r : r \in HandledOnLink(d, h) <=>
            r \in Requests /\ work[r].state = "handling" /\ ClientOf[r] = d /\ work[r].on = h
      BY DEF HandledOnLink
    <3>3. \A r : r \in HandledOnLink(d, h)' <=>
            r \in Requests /\ work'[r].state = "handling" /\ ClientOf[r] = d /\ work'[r].on = h
      BY DEF HandledOnLink
    <3>4. \A r \in HandledOnLink(d, h) : r \notin v.taken /\ r \notin v.refused
      BY <1>8, <3>2
    <3>5. \A r \in v.taken :
            r \in Requests /\ ClientOf[r] = c /\ work'[r].state = "handling" /\ work'[r].on = g
      BY <1>8, <1>12
    <3>6. \A r \in v.refused \ v.taken : work'[r].state = "refused"  BY <1>8, <1>12
    <3>7. \A r \in Requests : r \notin v.taken /\ r \notin v.refused => work'[r] = work[r]
      BY <1>12
    <3>8. CASE d = c /\ h = g
      <4>1. HandledOnLink(d, h)' = HandledOnLink(d, h) \cup v.taken
        BY <3>2, <3>3, <3>4, <3>5, <3>6, <3>7, <3>8
      <4>2. HandledOnLink(d, h) \cap v.taken = {}  BY <3>4
      <4>3. /\ IsFiniteSet(HandledOnLink(d, h) \cup v.taken)
            /\ Cardinality(HandledOnLink(d, h) \cup v.taken)
                 = Cardinality(HandledOnLink(d, h)) + Cardinality(v.taken)
        BY <1>7, <3>1, <4>2, CountBoth
      <4>4. link'[d][h].inflight = link[d][h].inflight + Cardinality(v.taken)
        BY <1>2, <1>7, <1>9, <1>11, <3>8
      <4> QED  BY <3>1, <4>1, <4>3, <4>4
    <3>9. CASE d # c \/ h # g
      <4>1. ASSUME NEW r PROVE r \in HandledOnLink(d, h)' <=> r \in HandledOnLink(d, h)
        <5>1. CASE r \in v.taken  BY <3>3, <3>4, <3>5, <3>9, <5>1
        <5>2. CASE r \in v.refused \ v.taken  BY <3>3, <3>4, <3>6, <5>2
        <5>3. CASE r \notin v.taken /\ r \notin v.refused  BY <3>2, <3>3, <3>7, <5>3
        <5> QED  BY <5>1, <5>2, <5>3
      <4>2. HandledOnLink(d, h)' = HandledOnLink(d, h)  BY <4>1 DEF HandledOnLink
      <4>3. link'[d][h].inflight = link[d][h].inflight  BY <1>11, <3>9
      <4> QED  BY <3>1, <4>2, <4>3
    <3> QED  BY <3>8, <3>9
  <2> QED  BY <2>1, <2>2 DEF CountsOK, Links
<1>21. ConnectsOK'
  <2>1. \A d \in Clients : GivesUp(d)  BY <1>3 DEF GivesUp
  <2>2. link[c][g] # NoLink  BY <1>2, <1>3, NoLinkServed
  <2>3. \A d \in Clients : \A h \in Links(d) :
            Unused(d, h) /\ link[d][h] = NoLink => link'[d][h] = NoLink
    BY <1>11, <2>2
  <2> QED  BY <1>1, <2>1, <2>3, ConnectsKeep
<1> QED  BY <1>11, <1>15, <1>16, <1>17, <1>19, <1>20, <1>21 DEF IInv

-----------------------------------------------------------------------------
LEMMA StuttersKeep ==
    ASSUME IInv, UNCHANGED vars
    PROVE  IInv'
<1>1. UNCHANGED <<up, client, send, link, work, lane>>  BY DEF vars
<1>2. TypesOK /\ StreamsOK /\ ConnectsOK /\ JoiningOK  BY DEF IInv
<1>3. LinkShape' /\ StreamsOK' /\ AllKept  BY <1>1, <1>2, NoneChanges
<1>4. Quiet  BY <1>1, <1>3 DEF Quiet
<1>5. JoiningOK'  BY <1>1, <1>2 DEF JoiningOK
<1>6. ConnectsOK'
  <2>1. \A d \in Clients : GivesUp(d)  BY <1>1 DEF GivesUp
  <2> QED  BY <1>1, <1>2, <2>1, ConnectsKeep
<1>7. /\ up' \in BOOLEAN /\ send' \in [Requests -> Sends]
      /\ client' \in [Clients -> [conn : Conns, links : Nat, joining : Seq(Requests)]]
  BY <1>1, <1>2 DEF TypesOK
<1> QED  BY <1>3, <1>4, <1>5, <1>6, <1>7, QuietStep

LEMMA Steps == IInv /\ [Next]_vars => IInv'
<1> SUFFICES ASSUME IInv, [Next]_vars PROVE IInv'  OBVIOUS
<1>1. CASE UNCHANGED vars  BY <1>1, StuttersKeep
<1>2. ASSUME NEW r \in Requests, Send(r) \/ Timeout(r) \/ Handle(r) PROVE IInv'
  BY <1>2, SendKeeps, TimeoutKeeps, HandleKeeps
<1>3. ASSUME NEW c \in Clients, Connected(c) \/ ConnectFails(c) \/ Disconnect(c) \/ SeesClose(c)
      PROVE  IInv'
  <2>1. SeesClose(c) => Disconnect(c)  BY DEF SeesClose
  <2> QED  BY <1>3, <2>1, ConnectedKeeps, ConnectFailsKeeps, DisconnectKeeps
<1>4. \A n \in 1..MaxChunk : n \in Nat
  <2>1. MaxChunk \in Nat  BY LimitsAssumption
  <2> QED  BY <2>1
<1>5. ASSUME NEW c \in Clients, NEW n \in 1..MaxChunk, ClientReads(c, n) PROVE IInv'
  BY <1>4, <1>5, ClientReadsKeeps
<1>6. ASSUME NEW c \in Clients, NEW g \in Links(c), DaemonSeesClose(c, g) PROVE IInv'
  BY <1>6, DaemonSeesCloseKeeps
<1>7. ASSUME NEW c \in Clients, NEW g \in Links(c), NEW n \in 1..MaxChunk,
             Receive(c, g, n) \/ ReceiveTooMuch(c, g, n)
      PROVE  IInv'
  BY <1>4, <1>7, ReceiveKeeps, ReceiveTooMuchKeeps
<1>8. CASE Stop  BY <1>8, StopKeeps
<1> QED  BY <1>1, <1>2, <1>3, <1>5, <1>6, <1>7, <1>8 DEF Next

LEMMA Invariance == Spec => []IInv
BY Starts, Steps, PTL DEF Spec

\* The requests of a socket are seen once each and in the order they were sent, for any
\* clients, requests, lengths of frames and limits, and however the stream is cut into
\* chunks: push of FrameParser, sendRequest and the data event of handleConnection.
THEOREM Ordered == Spec => []RequestsArriveInOrder
<1>1. IInv => RequestsArriveInOrder
  <2> SUFFICES ASSUME IInv PROVE RequestsArriveInOrder  OBVIOUS
  <2>1. ASSUME NEW c \in Clients, NEW g \in Links(c)
        PROVE  /\ IsPrefix(link[c][g].seen, link[c][g].sent)
               /\ link[c][g].served /\ link[c][g].toDaemon = <<>>
                    => link[c][g].seen = link[c][g].sent
    <3>1. LinkOK(link[c][g])  BY DEF IInv, StreamsOK
    <3> QED  BY <3>1, LinkIsOrdered
  <2> QED  BY <2>1 DEF RequestsArriveInOrder
<1> QED  BY <1>1, Invariance, PTL

\* inflightByLane and the inflight of each socket count the requests that are being
\* handled, whatever becomes of the sockets and of the clients: tryAcquireRequest takes
\* and the finally of handleRequest gives back, once for each request.
THEOREM Exact == Spec => []CapacityIsExact
<1>1. IInv => CapacityIsExact  BY DEF IInv, CountsOK, CapacityIsExact
<1> QED  BY <1>1, Invariance, PTL
=============================================================================
