----------------------- MODULE SchedulerStoresProofs -----------------------
(* What the output store keeps of the output of the tasks, for any number of *)
(* tasks, chunks, flushes, failures, cleanups and restarts; and what the     *)
(* journal keeps of the events, for files of any size.                       *)
EXTENDS SchedulerStores, SequenceTheorems, NaturalsInduction, WellFoundedInduction, TLAPS

\* What is on disk and in the queue of a stream.
Held(o, s) == o.file[s] \o o.queue[s]

\* Bytes that were written as numbers up to m are in order, and each has the room that the
\* ones before and after it need.
InStep(w, m) == \A i \in 1..Len(w) : i <= w[i] /\ w[i] + (Len(w) - i) <= m

\* v is w and the bytes of Text(m, k).
Extends(v, w, m, k) ==
    /\ v \in Seq(Nat) /\ Len(w) \in Nat /\ Len(v) = Len(w) + (k - m)
    /\ \A i \in 1..Len(w) : v[i] = w[i]
    /\ \A i \in 1..(k - m) : v[Len(w) + i] = m + i

\* They are all there, up to the cap.
Whole(w, m) == FirstOf(w, Cap) = Text(0, Least(m, Cap))

-----------------------------------------------------------------------------
(* Sequences of bytes.                                                       *)
LEMMA TextIs ==
    ASSUME NEW m \in Nat, NEW k \in Nat, m <= k, NEW x, x = Text(m, k)
    PROVE  /\ x \in Seq(Nat) /\ Len(x) = k - m
           /\ \A i \in 1..(k - m) : x[i] = m + i
<1>1. k - m \in Nat  OBVIOUS
<1>2. x = [n \in 1..(k - m) |-> m + n]  BY DEF Text
<1>3. x \in [1..(k - m) -> Nat]  BY <1>1, <1>2
<1>4. x \in Seq(Nat)  BY <1>1, <1>3, SeqDef
<1>5. Len(x) \in Nat /\ DOMAIN x = 1..Len(x)  BY <1>4, LenProperties
<1>6. 1..Len(x) = 1..(k - m)  BY <1>3, <1>5
<1>7. Len(x) = k - m  BY <1>1, <1>5, <1>6
<1> QED  BY <1>2, <1>4, <1>7

LEMMA WholeTextIs ==
    ASSUME NEW k \in Nat, NEW x, x = Text(0, k)
    PROVE  x \in Seq(Nat) /\ Len(x) = k /\ \A i \in 1..k : x[i] = i
<1>1. x \in Seq(Nat) /\ Len(x) = k - 0 /\ \A i \in 1..(k - 0) : x[i] = 0 + i
  <2>1. 0 \in Nat /\ 0 <= k  OBVIOUS
  <2> QED  BY <2>1, TextIs
<1>2. k - 0 = k  OBVIOUS
<1>3. \A i \in 1..k : x[i] = 0 + i  BY <1>1, <1>2
<1> QED  BY <1>1, <1>2, <1>3

LEMMA FirstIs ==
    ASSUME NEW w \in Seq(Nat), NEW n \in Nat, NEW x, x = FirstOf(w, n)
    PROVE  /\ x \in Seq(Nat) /\ Len(x) = Least(n, Len(w)) /\ Len(x) \in Nat
           /\ Len(x) <= Len(w) /\ Len(x) <= n
           /\ \A i \in 1..Len(x) : x[i] = w[i]
<1>1. PICK k : k = Least(n, Len(w))  OBVIOUS
<1>2. Len(w) \in Nat  BY LenProperties
<1>3. k \in Nat /\ k <= Len(w) /\ k <= n  BY <1>1, <1>2 DEF Least
<1>4. x = SubSeq(w, 1, k)  BY <1>1 DEF FirstOf
<1>5. \A i \in 1..k : w[i] \in Nat  BY <1>2, <1>3, ElementOfSeq
<1>6. /\ x \in Seq(Nat) /\ Len(x) = IF 1 <= k THEN k - 1 + 1 ELSE 0
      /\ \A i \in 1..(k - 1 + 1) : x[i] = w[1 + i - 1]
  BY <1>3, <1>4, <1>5, SubSeqProperties
<1>7. Len(x) = k  BY <1>3, <1>6
<1>8. ASSUME NEW i \in 1..Len(x) PROVE x[i] = w[i]
  <2>1. i \in 1..(k - 1 + 1) /\ 1 + i - 1 = i  BY <1>3, <1>7, <1>8
  <2> QED  BY <1>6, <2>1
<1> QED  BY <1>1, <1>3, <1>6, <1>7, <1>8

LEMMA JoinIs ==
    ASSUME NEW v \in Seq(Nat), NEW w \in Seq(Nat), NEW x, x = v \o w
    PROVE  /\ x \in Seq(Nat) /\ Len(v) \in Nat /\ Len(w) \in Nat /\ Len(x) = Len(v) + Len(w)
           /\ \A i \in 1..Len(v) : x[i] = v[i]
           /\ \A i \in 1..Len(w) : x[Len(v) + i] = w[i]
<1>1. Len(v) \in Nat /\ Len(w) \in Nat  BY LenProperties
<1>2. /\ x \in Seq(Nat) /\ Len(x) = Len(v) + Len(w)
      /\ \A i \in 1..(Len(v) + Len(w)) : x[i] = IF i <= Len(v) THEN v[i] ELSE w[i - Len(v)]
  BY ConcatProperties
<1>3. ASSUME NEW i \in 1..Len(v) PROVE x[i] = v[i]  BY <1>1, <1>2
<1>4. ASSUME NEW i \in 1..Len(w) PROVE x[Len(v) + i] = w[i]
  <2>1. Len(v) + i \in 1..(Len(v) + Len(w)) /\ ~(Len(v) + i <= Len(v)) /\ (Len(v) + i) - Len(v) = i
    BY <1>1, <1>4
  <2> QED  BY <1>2, <2>1
<1> QED  BY <1>1, <1>2, <1>3, <1>4

LEMMA JoinedTwice ==
    ASSUME NEW u \in Seq(Nat), NEW v \in Seq(Nat), NEW w \in Seq(Nat)
    PROVE  (u \o v) \o w = u \o (v \o w)
BY ConcatAssociative, SMTT(30)

LEMMA SameBytes ==
    ASSUME NEW v \in Seq(Nat), NEW w \in Seq(Nat), Len(v) = Len(w), \A i \in 1..Len(v) : v[i] = w[i]
    PROVE  v = w
BY SeqEqual

\* A beginning of what is in step is in step.
LEMMA BeginsInStep ==
    ASSUME NEW w \in Seq(Nat), NEW m \in Nat, InStep(w, m), NEW v \in Seq(Nat), Len(v) <= Len(w),
           \A i \in 1..Len(v) : v[i] = w[i]
    PROVE  InStep(v, m)
<1>1. Len(v) \in Nat /\ Len(w) \in Nat  BY LenProperties
<1> SUFFICES ASSUME NEW i \in 1..Len(v) PROVE i <= v[i] /\ v[i] + (Len(v) - i) <= m  BY DEF InStep
<1>2. i \in 1..Len(w) /\ w[i] \in Nat /\ v[i] = w[i]  BY <1>1, ElementOfSeq
<1>3. i <= w[i] /\ w[i] + (Len(w) - i) <= m  BY <1>2 DEF InStep
<1> QED  BY <1>1, <1>2, <1>3

\* No more bytes than were written.
LEMMA InStepIsShort ==
    ASSUME NEW w \in Seq(Nat), NEW m \in Nat, InStep(w, m)
    PROVE  Len(w) \in Nat /\ Len(w) <= m
<1>1. Len(w) \in Nat  BY LenProperties
<1>2. CASE Len(w) = 0  BY <1>1, <1>2
<1>3. CASE Len(w) # 0
  <2>1. Len(w) \in 1..Len(w) /\ w[Len(w)] \in Nat  BY <1>1, <1>3, ElementOfSeq
  <2>2. Len(w) <= w[Len(w)] /\ w[Len(w)] + (Len(w) - Len(w)) <= m  BY <2>1 DEF InStep
  <2> QED  BY <1>1, <2>1, <2>2
<1> QED  BY <1>2, <1>3

\* What is in step and has as many bytes as were written has them all.
LEMMA InStepIsAll ==
    ASSUME NEW w \in Seq(Nat), NEW m \in Nat, InStep(w, m), Len(w) >= m
    PROVE  w = Text(0, m)
<1>1. Len(w) = m  BY InStepIsShort
<1>2. PICK x : x = Text(0, m)  OBVIOUS
<1>3. x \in Seq(Nat) /\ Len(x) = m /\ \A i \in 1..m : x[i] = i  BY <1>2, WholeTextIs
<1>4. ASSUME NEW i \in 1..Len(w) PROVE w[i] = x[i]
  <2>1. w[i] \in Nat  BY ElementOfSeq
  <2>2. i <= w[i] /\ w[i] + (Len(w) - i) <= m  BY DEF InStep
  <2> QED  BY <1>1, <1>3, <2>1, <2>2
<1> QED  BY <1>1, <1>2, <1>3, <1>4, SameBytes

LEMMA TextExtends ==
    ASSUME NEW w \in Seq(Nat), NEW m \in Nat, NEW k \in Nat, m <= k
    PROVE  Extends(w \o Text(m, k), w, m, k)
<1>1. PICK x : x = Text(m, k)  OBVIOUS
<1>2. x \in Seq(Nat) /\ Len(x) = k - m /\ \A i \in 1..(k - m) : x[i] = m + i  BY <1>1, TextIs
<1>3. PICK v : v = w \o x  OBVIOUS
<1>4. /\ v \in Seq(Nat) /\ Len(w) \in Nat /\ Len(v) = Len(w) + Len(x)
      /\ \A i \in 1..Len(w) : v[i] = w[i]
      /\ \A i \in 1..Len(x) : v[Len(w) + i] = x[i]
  BY <1>2, <1>3, JoinIs
<1>5. Extends(v, w, m, k)  BY <1>2, <1>4 DEF Extends
<1> QED  BY <1>1, <1>3, <1>5

\* More is written.
LEMMA MoreInStep ==
    ASSUME NEW w \in Seq(Nat), NEW m \in Nat, InStep(w, m), NEW k \in Nat, m <= k,
           NEW v, Extends(v, w, m, k)
    PROVE  InStep(v, k)
<1>1. /\ v \in Seq(Nat) /\ Len(w) \in Nat /\ Len(v) = Len(w) + (k - m)
      /\ \A i \in 1..Len(w) : v[i] = w[i]
      /\ \A i \in 1..(k - m) : v[Len(w) + i] = m + i
  BY DEF Extends
<1>2. Len(w) <= m  BY InStepIsShort
<1>3. ASSUME NEW i \in 1..Len(v) PROVE i <= v[i] /\ v[i] + (Len(v) - i) <= k
  <2>1. CASE i <= Len(w)
    <3>1. i \in 1..Len(w) /\ w[i] \in Nat /\ v[i] = w[i]
      <4>1. i \in 1..Len(w)
        <5>1. PICK a, b : a = Len(w) /\ b = Len(v)  OBVIOUS
        <5>2. a \in Nat /\ i \in 1..b /\ i <= a  BY <1>1, <2>1, <5>1
        <5> QED  BY ONLY <5>1, <5>2
      <4>2. w[i] \in Nat  BY ONLY w \in Seq(Nat), <4>1, ElementOfSeq
      <4> QED  BY <1>1, <4>1, <4>2
    <3>2. i <= w[i] /\ w[i] + (Len(w) - i) <= m  BY ONLY InStep(w, m), <3>1 DEF InStep
    <3>3. PICK a, b, x : a = Len(w) /\ b = Len(v) /\ x = w[i]  OBVIOUS
    <3>4. a \in Nat /\ x \in Nat /\ i \in Nat /\ b = a + (k - m)  BY <1>1, <3>1, <3>3
    <3>5. i <= x /\ x + (a - i) <= m  BY <3>2, <3>3
    <3>6. x + (b - i) <= k
      BY ONLY <3>4, <3>5, m \in Nat, k \in Nat
    <3> QED  BY <3>1, <3>3, <3>5, <3>6
  <2>2. CASE i > Len(w)
    <3>1. PICK j : j = i - Len(w)  OBVIOUS
    <3>2. j \in 1..(k - m) /\ i = Len(w) + j  BY <2>2, <1>1, <3>1
    <3>3. v[i] = m + j  BY <1>1, <3>2
    <3> QED  BY <1>1, <1>2, <3>2, <3>3
  <2> QED  BY <1>1, <2>1, <2>2
<1> QED  BY <1>1, <1>3 DEF InStep

LEMMA FirstOfFirst ==
    ASSUME NEW w \in Seq(Nat), NEW n \in Nat
    PROVE  FirstOf(FirstOf(w, n), n) = FirstOf(w, n)
<1>1. PICK x : x = FirstOf(w, n)  OBVIOUS
<1>2. x \in Seq(Nat) /\ Len(x) \in Nat /\ Len(x) <= n  BY <1>1, FirstIs
<1>3. PICK y : y = FirstOf(x, n)  OBVIOUS
<1>4. y \in Seq(Nat) /\ Len(y) = Least(n, Len(x)) /\ \A i \in 1..Len(y) : y[i] = x[i]
  BY <1>2, <1>3, FirstIs
<1>5. Len(y) = Len(x)  BY <1>2, <1>4 DEF Least
<1> QED  BY <1>1, <1>2, <1>3, <1>4, <1>5, SameBytes

\* More is written after what is whole.
LEMMA MoreIsWhole ==
    ASSUME NEW w \in Seq(Nat), NEW m \in Nat, Whole(w, m), NEW k \in Nat, m <= k,
           NEW v, Extends(v, w, m, k)
    PROVE  Whole(v, k)
<1>1. Cap \in Nat \ {0}  BY OutputAssumption
<1>2. Cap \in Nat  BY <1>1
<1>3. /\ v \in Seq(Nat) /\ Len(w) \in Nat /\ Len(v) = Len(w) + (k - m)
      /\ \A i \in 1..Len(w) : v[i] = w[i]
      /\ \A i \in 1..(k - m) : v[Len(w) + i] = m + i
  BY DEF Extends
<1>4. PICK a, b : a = FirstOf(w, Cap) /\ b = Text(0, Least(m, Cap))  OBVIOUS
<1>5. a = b  BY <1>4 DEF Whole
<1>6. Len(a) = Least(Cap, Len(w)) /\ \A i \in 1..Len(a) : a[i] = w[i]  BY <1>2, <1>4, FirstIs
<1>7. Least(m, Cap) \in Nat /\ Least(k, Cap) \in Nat  BY <1>1 DEF Least
<1>8. Len(b) = Least(m, Cap) /\ \A i \in 1..Least(m, Cap) : b[i] = i
  BY <1>4, <1>7, WholeTextIs
<1>9. Least(Cap, Len(w)) = Least(m, Cap) /\ \A i \in 1..Least(m, Cap) : w[i] = i
  BY <1>5, <1>6, <1>8
<1>10. PICK y, z : y = FirstOf(v, Cap) /\ z = Text(0, Least(k, Cap))  OBVIOUS
<1>11. v \in Seq(Nat)  BY <1>3
<1>12. y = FirstOf(v, Cap)  BY <1>10
<1>13. y \in Seq(Nat) /\ Len(y) = Least(Cap, Len(v)) /\ \A i \in 1..Len(y) : y[i] = v[i]
  BY <1>2, <1>11, <1>12, FirstIs
<1>14. z \in Seq(Nat) /\ Len(z) = Least(k, Cap) /\ \A i \in 1..Least(k, Cap) : z[i] = i
  BY <1>7, <1>10, WholeTextIs
<1>15. Len(y) = Len(z)  BY <1>1, <1>3, <1>9, <1>13, <1>14 DEF Least
<1>16. ASSUME NEW i \in 1..Len(y) PROVE y[i] = z[i]
  <2>1. i \in 1..Least(k, Cap) /\ z[i] = i /\ y[i] = v[i]  BY <1>13, <1>14, <1>15
  <2>2. CASE i <= Least(m, Cap)
    <3>1. i \in 1..Least(m, Cap) /\ i <= Len(w)  BY <2>2, <1>1, <1>3, <1>7, <1>9 DEF Least
    <3>2. v[i] = w[i] /\ w[i] = i  BY <3>1, <1>3, <1>9
    <3> QED  BY <2>1, <3>2
  <2>3. CASE i > Least(m, Cap)
    <3>1. Len(w) = m /\ i > m /\ i <= k  BY <2>1, <2>3, <1>1, <1>3, <1>9 DEF Least
    <3>2. PICK j : j = i - m  OBVIOUS
    <3>3. j \in 1..(k - m) /\ i = Len(w) + j  BY <3>1, <3>2
    <3>4. v[i] = m + j  BY <1>3, <3>3
    <3> QED  BY <2>1, <3>1, <3>2, <3>4
  <2> QED  BY <1>7, <2>2, <2>3
<1>17. y = z  BY <1>13, <1>14, <1>15, <1>16, SameBytes
<1> QED  BY <1>10, <1>17 DEF Whole

-----------------------------------------------------------------------------
(* What the operations make of the output of a task.                         *)
IsOutput(o) ==
    /\ DOMAIN o = {"known", "tail", "bytes", "armed", "queue", "file"}
    /\ o.bytes \in [Streams -> Nat]
    /\ o.queue \in [Streams -> Seq(Nat)] /\ o.file \in [Streams -> Seq(Nat)]

LEMMA HeldIs ==
    ASSUME NEW o, IsOutput(o), NEW s \in Streams
    PROVE  o.file[s] \in Seq(Nat) /\ o.queue[s] \in Seq(Nat) /\ Held(o, s) \in Seq(Nat)
<1>1. o.file[s] \in Seq(Nat) /\ o.queue[s] \in Seq(Nat)  BY DEF IsOutput
<1>2. PICK v, w : v = o.file[s] /\ w = o.queue[s]  OBVIOUS
<1>3. v \o w \in Seq(Nat)  BY <1>1, <1>2, JoinIs
<1> QED  BY <1>1, <1>2, <1>3 DEF Held

LEMMA NoneIs == None \in [Streams -> Seq(Nat)] /\ Zero \in [Streams -> Nat]
<1>1. <<>> \in Seq(Nat)  BY EmptySeq
<1> QED  BY <1>1 DEF None, Zero

LEMMA CreateIs ==
    ASSUME NEW o, IsOutput(o), NEW c, c = Create(o)
    PROVE  /\ IsOutput(c) /\ c.known /\ c.bytes = Zero
           /\ c.queue = o.queue /\ c.file = o.file
BY NoneIs DEF Create, IsOutput

HoldsMore(a, o, text) == \A s \in Streams : Held(a, s) = Held(o, s) \o text[s]

LEMMA AppendedIs ==
    ASSUME NEW o, IsOutput(o), NEW text \in [Streams -> Seq(Nat)], NEW a, a = Appended(o, text)
    PROVE  /\ IsOutput(a) /\ a.file = o.file
           /\ o.known => a.known
           /\ \A s \in Streams : a.bytes[s] = o.bytes[s] + Len(text[s])
           /\ HoldsMore(a, o, text)
<1>1. ASSUME NEW s \in Streams
      PROVE  text[s] \in Seq(Nat) /\ Len(text[s]) \in Nat /\ o.bytes[s] \in Nat
  BY LenProperties DEF IsOutput
<1>2. CASE text = None
  <2>1. a = o  BY <1>2 DEF Appended
  <2>2. ASSUME NEW s \in Streams
        PROVE  Held(a, s) = Held(o, s) \o text[s] /\ a.bytes[s] = o.bytes[s] + Len(text[s])
    <3>1. text[s] = <<>> /\ Len(text[s]) = 0  BY <1>2, EmptySeq DEF None
    <3>2. PICK w : w = Held(o, s)  OBVIOUS
    <3>3. w \o <<>> = w  BY <3>2, HeldIs, ConcatEmptySeq
    <3> QED  BY <1>1, <2>1, <3>1, <3>2, <3>3
  <2> QED  BY <2>1, <2>2 DEF HoldsMore
<1>3. CASE text # None
  <2>1. PICK q : q = [s \in Streams |-> o.queue[s] \o text[s]]  OBVIOUS
  <2>2. PICK b : b = [s \in Streams |-> o.bytes[s] + Len(text[s])]  OBVIOUS
  <2>3. q \in [Streams -> Seq(Nat)]
    <3>1. ASSUME NEW s \in Streams PROVE o.queue[s] \o text[s] \in Seq(Nat)
      <4>1. PICK v, w : v = o.queue[s] /\ w = text[s]  OBVIOUS
      <4>2. v \o w \in Seq(Nat)  BY <4>1, <1>1, HeldIs, JoinIs
      <4> QED  BY <4>1, <4>2
    <3> QED  BY <2>1, <3>1
  <2>4. b \in [Streams -> Nat]  BY <1>1, <2>2
  <2>5. /\ DOMAIN a = DOMAIN o /\ a.known /\ a.file = o.file
        /\ a.queue = q /\ a.bytes = b
    BY <1>3, <2>1, <2>2 DEF Appended, AppendText, IsOutput
  <2>6. IsOutput(a)  BY <2>3, <2>4, <2>5 DEF IsOutput
  <2>7. ASSUME NEW s \in Streams PROVE Held(a, s) = Held(o, s) \o text[s]
    <3>1. PICK u, v, w : u = o.file[s] /\ v = o.queue[s] /\ w = text[s]  OBVIOUS
    <3>2. u \in Seq(Nat) /\ v \in Seq(Nat) /\ w \in Seq(Nat)  BY <3>1, <1>1, HeldIs
    <3>3. (u \o v) \o w = u \o (v \o w)  BY <3>2, JoinedTwice
    <3>4. Held(a, s) = u \o (v \o w)  BY <2>1, <2>5, <3>1 DEF Held
    <3>5. Held(o, s) = u \o v  BY <3>1 DEF Held
    <3> QED  BY <3>1, <3>3, <3>4, <3>5
  <2>8. ASSUME NEW s \in Streams PROVE a.bytes[s] = o.bytes[s] + Len(text[s])  BY <2>2, <2>5
  <2> QED  BY <2>5, <2>6, <2>7, <2>8 DEF HoldsMore
<1> QED  BY <1>2, <1>3

LEMMA FlushedIs ==
    ASSUME NEW o, IsOutput(o), NEW failed, NEW f, f = Flushed(o, failed)
    PROVE  /\ IsOutput(f) /\ f.known = o.known /\ f.bytes = o.bytes /\ f.queue = None
           /\ \A s \in Streams :
                /\ Held(f, s) = f.file[s]
                /\ f.file[s] = IF s \in failed THEN o.file[s] ELSE FirstOf(Held(o, s), Cap)
<1>1. Cap \in Nat  BY OutputAssumption
<1>2. PICK g : g = [s \in Streams |->
                      IF s \in failed THEN o.file[s] ELSE FirstOf(o.file[s] \o o.queue[s], Cap)]
  OBVIOUS
<1>3. ASSUME NEW s \in Streams
      PROVE  /\ g[s] = IF s \in failed THEN o.file[s] ELSE FirstOf(Held(o, s), Cap)
             /\ g[s] \in Seq(Nat)
  <2>1. g[s] = IF s \in failed THEN o.file[s] ELSE FirstOf(Held(o, s), Cap)  BY <1>2 DEF Held
  <2>2. PICK w, v : w = Held(o, s) /\ v = FirstOf(w, Cap)  OBVIOUS
  <2>3. w \in Seq(Nat) /\ o.file[s] \in Seq(Nat)  BY <2>2, HeldIs
  <2>4. v \in Seq(Nat)  BY <1>1, <2>2, <2>3, FirstIs
  <2> QED  BY <2>1, <2>2, <2>3, <2>4
<1>4. g \in [Streams -> Seq(Nat)]  BY <1>2, <1>3
<1>5. /\ DOMAIN f = DOMAIN o /\ f.known = o.known /\ f.bytes = o.bytes
      /\ f.queue = None /\ f.file = g
  BY <1>2 DEF Flushed, IsOutput
<1>6. IsOutput(f)  BY <1>4, <1>5, NoneIs DEF IsOutput
<1>7. ASSUME NEW s \in Streams PROVE Held(f, s) = f.file[s]
  <2>1. PICK w : w = f.file[s]  OBVIOUS
  <2>2. w \o <<>> = w  BY <1>6, <2>1, HeldIs, ConcatEmptySeq
  <2>3. f.queue[s] = <<>>  BY <1>5 DEF None
  <2> QED  BY <2>1, <2>2, <2>3 DEF Held
<1> QED  BY <1>3, <1>5, <1>6, <1>7

LEMMA LoadedIs ==
    ASSUME NEW o, IsOutput(o), NEW l, l = Loaded(o)
    PROVE  /\ IsOutput(l) /\ l.file = o.file /\ l.queue = o.queue
           /\ o.known => l = o
           /\ o.file # None => l.known
           /\ \A s \in Streams : l.bytes[s] = IF o.known \/ o.file = None THEN o.bytes[s]
                                              ELSE Len(o.file[s])
<1>1. CASE o.known \/ o.file = None  BY <1>1 DEF Loaded
<1>2. CASE ~(o.known \/ o.file = None)
  <2>1. PICK b : b = [s \in Streams |-> Len(o.file[s])]  OBVIOUS
  <2>2. ASSUME NEW s \in Streams PROVE b[s] \in Nat  BY <2>1, HeldIs, LenProperties
  <2>3. b \in [Streams -> Nat]  BY <2>1, <2>2
  <2>4. /\ DOMAIN l = DOMAIN o /\ l.known /\ l.bytes = b
        /\ l.file = o.file /\ l.queue = o.queue
    BY <1>2, <2>1 DEF Loaded, IsOutput
  <2> QED  BY <1>2, <2>1, <2>3, <2>4 DEF IsOutput
<1> QED  BY <1>1, <1>2

LEMMA UnlinkedIs ==
    ASSUME NEW o, IsOutput(o), o.queue = None, NEW gone, NEW u, u = Unlinked(o, gone)
    PROVE  /\ IsOutput(u)
           /\ u.known => o.known /\ u.bytes = o.bytes
           /\ \A s \in Streams : Held(u, s) = IF s \in gone THEN <<>> ELSE Held(o, s)
<1>1. PICK r : r = [s \in Streams |-> IF s \in gone THEN <<>> ELSE o.file[s]]  OBVIOUS
<1>2. <<>> \in Seq(Nat) /\ <<>> \o <<>> = <<>>  BY EmptySeq, ConcatEmptySeq
<1>3. r \in [Streams -> Seq(Nat)]  BY <1>1, <1>2 DEF IsOutput
<1>4. /\ DOMAIN u = DOMAIN o /\ u.file = r /\ u.queue = o.queue
      /\ u.bytes \in {o.bytes, Zero}
      /\ u.known => o.known /\ u.bytes = o.bytes
  <2>1. CASE gone # {} /\ r = None
    <3>1. u = [Create(o) EXCEPT !.known = FALSE, !.file = r]  BY <1>1, <2>1 DEF Unlinked
    <3>2. PICK c : c = Create(o)  OBVIOUS
    <3>3. DOMAIN c = DOMAIN o /\ c.queue = o.queue /\ c.bytes = Zero
      BY <3>2, CreateIs DEF IsOutput
    <3>4. u = [c EXCEPT !.known = FALSE, !.file = r]  BY <3>1, <3>2
    <3> QED  BY <3>3, <3>4 DEF IsOutput
  <2>2. CASE ~(gone # {} /\ r = None)
    <3>1. u = [o EXCEPT !.file = r]  BY <1>1, <2>2 DEF Unlinked
    <3> QED  BY <3>1 DEF IsOutput
  <2> QED  BY <2>1, <2>2
<1>5. IsOutput(u)  BY <1>3, <1>4, NoneIs DEF IsOutput
<1>6. ASSUME NEW s \in Streams PROVE Held(u, s) = IF s \in gone THEN <<>> ELSE Held(o, s)
  <2>1. u.queue[s] = <<>> /\ o.queue[s] = <<>>  BY <1>4 DEF None
  <2>2. u.file[s] = IF s \in gone THEN <<>> ELSE o.file[s]  BY <1>1, <1>4
  <2> QED  BY <1>2, <2>1, <2>2 DEF Held
<1> QED  BY <1>4, <1>5, <1>6

LEMMA RemovedIs ==
    ASSUME NEW o, IsOutput(o), NEW r, r = Removed(o)
    PROVE  IsOutput(r) /\ ~r.known /\ \A s \in Streams : Held(r, s) = <<>>
<1>1. PICK f : f = Flushed(o, {})  OBVIOUS
<1>2. IsOutput(f) /\ f.queue = None  BY <1>1, FlushedIs
<1>3. /\ DOMAIN r = DOMAIN f /\ ~r.known /\ r.queue = None /\ r.file = None /\ r.bytes = Zero
  BY <1>1, <1>2 DEF Removed, Create, IsOutput
<1>4. <<>> \o <<>> = <<>>  BY ConcatEmptySeq, EmptySeq
<1>5. \A s \in Streams : Held(r, s) = <<>>  BY <1>3, <1>4 DEF Held, None
<1> QED  BY <1>2, <1>3, <1>5, NoneIs DEF IsOutput

LEMMA ReopenedIs ==
    ASSUME NEW o, IsOutput(o), NEW r, r = Reopened(o)
    PROVE  IsOutput(r) /\ ~r.known /\ \A s \in Streams : Held(r, s) = o.file[s]
<1>1. /\ DOMAIN r = {"known", "tail", "bytes", "armed", "queue", "file"}
      /\ ~r.known /\ r.queue = None /\ r.file = o.file /\ r.bytes = Zero
  BY DEF Reopened, NoOutput
<1>2. ASSUME NEW s \in Streams PROVE Held(r, s) = o.file[s]
  <2>1. PICK w : w = o.file[s]  OBVIOUS
  <2>2. w \o <<>> = w  BY <2>1, HeldIs, ConcatEmptySeq
  <2> QED  BY <1>1, <2>1, <2>2 DEF Held, None
<1> QED  BY <1>1, <1>2, NoneIs DEF IsOutput

-----------------------------------------------------------------------------
(* The output of a task fits what its command wrote.                         *)

\* The stream p, of which m bytes were written, holds w.
Fit(p, w, m, h) == InStep(w, m) /\ (p \notin h => Whole(w, m))

OutputFits(t, o, m, h) ==
    IsOutput(o) /\ \A s \in Streams : Fit(<<t, s>>, Held(o, s), m[s], h)

LEMMA FitCut ==
    ASSUME NEW p, NEW w \in Seq(Nat), NEW m \in Nat, NEW h, Fit(p, w, m, h)
    PROVE  Fit(p, FirstOf(w, Cap), m, h)
<1>1. Cap \in Nat  BY OutputAssumption
<1>2. PICK x : x = FirstOf(w, Cap)  OBVIOUS
<1>3. /\ x \in Seq(Nat) /\ Len(x) <= Len(w)
      /\ \A i \in 1..Len(x) : x[i] = w[i]
  BY <1>1, <1>2, FirstIs
<1>4. InStep(x, m)  BY <1>3, BeginsInStep DEF Fit
<1>5. ASSUME p \notin h PROVE Whole(x, m)  BY <1>1, <1>2, <1>5, FirstOfFirst DEF Fit, Whole
<1> QED  BY <1>2, <1>4, <1>5 DEF Fit

LEMMA FitEmpty ==
    ASSUME NEW p, NEW m \in Nat, NEW h, p \in h
    PROVE  Fit(p, <<>>, m, h)
BY EmptySeq DEF Fit, InStep

LEMMA FitMore ==
    ASSUME NEW p, NEW w \in Seq(Nat), NEW m \in Nat, NEW h, Fit(p, w, m, h), NEW k \in Nat, m <= k
    PROVE  Fit(p, w \o Text(m, k), k, h)
<1>1. PICK v : v = w \o Text(m, k)  OBVIOUS
<1>2. Extends(v, w, m, k)  BY <1>1, TextExtends
<1>3. InStep(v, k)  BY <1>2, MoreInStep DEF Fit
<1>4. ASSUME p \notin h PROVE Whole(v, k)  BY <1>2, <1>4, MoreIsWhole DEF Fit
<1> QED  BY <1>1, <1>3, <1>4 DEF Fit

LEMMA FitLess ==
    ASSUME NEW p, NEW w \in Seq(Nat), NEW v \in Seq(Nat), NEW m \in Nat, NEW h,
           InStep(v \o w, m), p \in h
    PROVE  Fit(p, v, m, h)
<1>1. PICK x : x = v \o w  OBVIOUS
<1>2. /\ x \in Seq(Nat) /\ Len(v) \in Nat /\ Len(w) \in Nat /\ Len(x) = Len(v) + Len(w)
      /\ \A i \in 1..Len(v) : x[i] = v[i]
  BY <1>1, JoinIs
<1>3. InStep(x, m) /\ Len(v) <= Len(x)  BY <1>1, <1>2
<1>4. InStep(v, m)  BY <1>2, <1>3, BeginsInStep
<1> QED  BY <1>4 DEF Fit

LEMMA MayBeHurt ==
    ASSUME NEW p, NEW w, NEW m, NEW h, NEW g, Fit(p, w, m, h), h \subseteq g
    PROVE  Fit(p, w, m, g)
BY DEF Fit

LEMMA AppendedFits ==
    ASSUME NEW t, NEW o, NEW m \in [Streams -> Nat], NEW h, OutputFits(t, o, m, h),
           NEW k \in [Streams -> Nat], \A s \in Streams : m[s] <= k[s],
           NEW text \in [Streams -> Seq(Nat)], \A s \in Streams : text[s] = Text(m[s], k[s])
    PROVE  OutputFits(t, Appended(o, text), k, h)
<1>1. PICK a : a = Appended(o, text)  OBVIOUS
<1>2. IsOutput(a) /\ \A s \in Streams : Held(a, s) = Held(o, s) \o text[s]
  <2>1. IsOutput(o)  BY DEF OutputFits
  <2>2. IsOutput(a)  BY <1>1, <2>1, AppendedIs
  <2>3. HoldsMore(a, o, text)  BY <1>1, <2>1, AppendedIs
  <2> QED  BY <2>2, <2>3 DEF HoldsMore
<1>3. ASSUME NEW s \in Streams PROVE Fit(<<t, s>>, Held(a, s), k[s], h)
  <2>1. PICK w : w = Held(o, s)  OBVIOUS
  <2>2. w \in Seq(Nat) /\ Fit(<<t, s>>, w, m[s], h)  BY <2>1, HeldIs DEF OutputFits
  <2>3. m[s] \in Nat /\ k[s] \in Nat /\ m[s] <= k[s]  OBVIOUS
  <2>4. Fit(<<t, s>>, w \o Text(m[s], k[s]), k[s], h)  BY <2>2, <2>3, FitMore
  <2> QED  BY <1>2, <2>1, <2>4
<1> QED  BY <1>1, <1>2, <1>3 DEF OutputFits

LEMMA FlushedFits ==
    ASSUME NEW t, NEW o, NEW m \in [Streams -> Nat], NEW h, OutputFits(t, o, m, h),
           NEW failed, NEW g, h \subseteq g, \A s \in failed : <<t, s>> \in g
    PROVE  OutputFits(t, Flushed(o, failed), m, g)
<1>1. PICK f : f = Flushed(o, failed)  OBVIOUS
<1>2. /\ IsOutput(f)
      /\ \A s \in Streams :
           Held(f, s) = IF s \in failed THEN o.file[s] ELSE FirstOf(Held(o, s), Cap)
  BY <1>1, FlushedIs DEF OutputFits
<1>3. ASSUME NEW s \in Streams PROVE Fit(<<t, s>>, Held(f, s), m[s], g)
  <2>1. PICK v, w : v = o.file[s] /\ w = o.queue[s]  OBVIOUS
  <2>2. /\ v \in Seq(Nat) /\ w \in Seq(Nat) /\ v \o w \in Seq(Nat) /\ m[s] \in Nat
        /\ Fit(<<t, s>>, v \o w, m[s], h)
    BY <2>1, HeldIs DEF OutputFits, Held
  <2>3. CASE s \in failed
    <3>1. Fit(<<t, s>>, v, m[s], g)  BY <2>2, <2>3, FitLess DEF Fit
    <3> QED  BY <1>2, <2>1, <2>3, <3>1
  <2>4. CASE s \notin failed
    <3>1. Fit(<<t, s>>, FirstOf(v \o w, Cap), m[s], h)  BY <2>2, FitCut
    <3>2. Fit(<<t, s>>, FirstOf(v \o w, Cap), m[s], g)  BY <3>1, MayBeHurt
    <3> QED  BY <1>2, <2>1, <2>4, <3>2 DEF Held
  <2> QED  BY <2>3, <2>4
<1> QED  BY <1>1, <1>2, <1>3 DEF OutputFits

LEMMA LoadedFits ==
    ASSUME NEW t, NEW o, NEW m, NEW h, OutputFits(t, o, m, h)
    PROVE  OutputFits(t, Loaded(o), m, h)
<1>1. PICK l : l = Loaded(o)  OBVIOUS
<1>2. IsOutput(l) /\ l.file = o.file /\ l.queue = o.queue  BY <1>1, LoadedIs DEF OutputFits
<1> QED  BY <1>1, <1>2 DEF OutputFits, Held

LEMMA CreatedFits ==
    ASSUME NEW t, NEW o, NEW m, NEW h, OutputFits(t, o, m, h)
    PROVE  OutputFits(t, Create(o), m, h)
<1>1. PICK l : l = Create(o)  OBVIOUS
<1>2. IsOutput(l) /\ l.file = o.file /\ l.queue = o.queue  BY <1>1, CreateIs DEF OutputFits
<1> QED  BY <1>1, <1>2 DEF OutputFits, Held

LEMMA UnlinkedFits ==
    ASSUME NEW t, NEW o, NEW m \in [Streams -> Nat], NEW h, OutputFits(t, o, m, h), o.queue = None,
           NEW gone, NEW g, h \subseteq g, \A s \in gone : <<t, s>> \in g
    PROVE  OutputFits(t, Unlinked(o, gone), m, g)
<1>1. PICK u : u = Unlinked(o, gone)  OBVIOUS
<1>2. IsOutput(u) /\ \A s \in Streams : Held(u, s) = IF s \in gone THEN <<>> ELSE Held(o, s)
  BY <1>1, UnlinkedIs DEF OutputFits
<1>3. ASSUME NEW s \in Streams PROVE Fit(<<t, s>>, Held(u, s), m[s], g)
  <2>1. CASE s \in gone  BY <1>2, <2>1, FitEmpty
  <2>2. CASE s \notin gone
    <3>1. Fit(<<t, s>>, Held(o, s), m[s], g)  BY MayBeHurt DEF OutputFits
    <3> QED  BY <1>2, <2>2, <3>1
  <2> QED  BY <2>1, <2>2
<1> QED  BY <1>1, <1>2, <1>3 DEF OutputFits

LEMMA RemovedFits ==
    ASSUME NEW t, NEW o, NEW m \in [Streams -> Nat], IsOutput(o),
           NEW g, \A s \in Streams : <<t, s>> \in g
    PROVE  OutputFits(t, Removed(o), m, g)
<1>1. PICK r : r = Removed(o)  OBVIOUS
<1>2. IsOutput(r) /\ \A s \in Streams : Held(r, s) = <<>>  BY <1>1, RemovedIs
<1>3. ASSUME NEW s \in Streams PROVE Fit(<<t, s>>, <<>>, m[s], g)  BY FitEmpty
<1> QED  BY <1>1, <1>2, <1>3 DEF OutputFits

LEMMA ReopenedFits ==
    ASSUME NEW t, NEW o, NEW m \in [Streams -> Nat], NEW h, OutputFits(t, o, m, h),
           NEW g, h \subseteq g, \A s \in Streams : o.queue[s] # <<>> => <<t, s>> \in g
    PROVE  OutputFits(t, Reopened(o), m, g)
<1>1. PICK r : r = Reopened(o)  OBVIOUS
<1>2. IsOutput(r) /\ \A s \in Streams : Held(r, s) = o.file[s]
  BY <1>1, ReopenedIs DEF OutputFits
<1>3. ASSUME NEW s \in Streams PROVE Fit(<<t, s>>, o.file[s], m[s], g)
  <2>1. PICK v, w : v = o.file[s] /\ w = o.queue[s]  OBVIOUS
  <2>2. /\ v \in Seq(Nat) /\ w \in Seq(Nat) /\ m[s] \in Nat
        /\ Fit(<<t, s>>, v \o w, m[s], h)
    BY <2>1, HeldIs DEF OutputFits, Held
  <2>3. CASE w # <<>>
    <3>1. Fit(<<t, s>>, v, m[s], g)  BY <2>1, <2>2, <2>3, FitLess DEF Fit
    <3> QED  BY <2>1, <3>1
  <2>4. CASE w = <<>>
    <3>1. v \o w = v  BY <2>2, <2>4, ConcatEmptySeq
    <3> QED  BY <2>1, <2>2, <3>1, MayBeHurt
  <2> QED  BY <2>3, <2>4
<1> QED  BY <1>1, <1>2, <1>3 DEF OutputFits

-----------------------------------------------------------------------------
(* The inductive invariant.                                                  *)

\* The entry of a task that started counts every byte, until the store forgets it.
EntryInv(t, o, m, st, f) == t \in f \/ st = "new" \/ (o.known /\ o.bytes = m)

NewInv(o, m, st) == st = "new" => ~o.known /\ m = Zero

AllFit(all, m, st, h, f) ==
    /\ DOMAIN all = Tasks
    /\ \A t \in Tasks : /\ OutputFits(t, all[t], m[t], h)
                        /\ EntryInv(t, all[t], m[t], st[t], f)
                        /\ NewInv(all[t], m[t], st[t])

\* What a running task wrote was streamed: its result brings nothing again.
Told(m, st, str) ==
    \A t \in Tasks : st[t] = "running" => \A s \in Streams : str[t][s] \/ m[t][s] = 0

Shape ==
    /\ made \in [Tasks -> [Streams -> Nat]]
    /\ status \in [Tasks -> {"new", "running", "over", "cancelled"}]
    /\ streamed \in [Tasks -> [Streams -> BOOLEAN]]

IInv ==
    /\ Shape
    /\ AllFit(out, made, status, hurt, forgotten)
    /\ Told(made, status, streamed)

LEMMA EmptyText == \A m \in Nat : Text(m, m) = <<>>
<1> SUFFICES ASSUME NEW m \in Nat PROVE Text(m, m) = <<>>  OBVIOUS
<1>1. PICK x : x = Text(m, m)  OBVIOUS
<1>2. x \in Seq(Nat) /\ Len(x) = m - m  BY <1>1, TextIs
<1>3. x = <<>>  BY <1>2, EmptySeq
<1> QED  BY <1>1, <1>3

\* The output of one task changes.
LEMMA OneFits ==
    ASSUME NEW all, NEW m \in [Tasks -> [Streams -> Nat]], NEW st, NEW h, NEW f,
           AllFit(all, m, st, h, f),
           NEW g, h \subseteq g, NEW t \in Tasks,
           NEW all2, DOMAIN all2 = Tasks, NEW m2, NEW st2,
           \A u \in Tasks : u # t => all2[u] = all[u] /\ m2[u] = m[u] /\ st2[u] = st[u],
           OutputFits(t, all2[t], m2[t], g),
           EntryInv(t, all2[t], m2[t], st2[t], f), NewInv(all2[t], m2[t], st2[t])
    PROVE  AllFit(all2, m2, st2, g, f)
<1> SUFFICES ASSUME NEW u \in Tasks, u # t
             PROVE  /\ OutputFits(u, all2[u], m2[u], g)
                    /\ EntryInv(u, all2[u], m2[u], st2[u], f) /\ NewInv(all2[u], m2[u], st2[u])
  BY DEF AllFit
<1>1. /\ OutputFits(u, all[u], m[u], h)
      /\ EntryInv(u, all[u], m[u], st[u], f) /\ NewInv(all[u], m[u], st[u])
  BY DEF AllFit
<1>2. all2[u] = all[u] /\ m2[u] = m[u] /\ st2[u] = st[u]  OBVIOUS
<1>3. OutputFits(u, all[u], m[u], g)  BY <1>1, MayBeHurt DEF OutputFits
<1> QED  BY <1>1, <1>2, <1>3

\* cleanupOutputs and evictOldTasks.
LEMMA LeftFit ==
    ASSUME NEW all, NEW m \in [Tasks -> [Streams -> Nat]], NEW st,
           AllFit(all, m, st, hurt, forgotten),
           NEW gone \in [Tasks -> SUBSET Streams], NEW cleaned, NEW old, NEW ended,
           cleaned = Cleaned(all, gone) \/ cleaned = all, Leave(all, cleaned, gone, old, ended)
    PROVE  AllFit(out', m, st, hurt', forgotten')
<1>1. DOMAIN out' = Tasks /\ hurt \subseteq hurt' /\ forgotten \subseteq forgotten'  BY DEF Leave
<1>2. ASSUME NEW t \in Tasks
      PROVE  /\ OutputFits(t, out'[t], m[t], hurt')
             /\ EntryInv(t, out'[t], m[t], st[t], forgotten')
             /\ NewInv(out'[t], m[t], st[t])
  <2>1. /\ OutputFits(t, all[t], m[t], hurt)
        /\ EntryInv(t, all[t], m[t], st[t], forgotten) /\ NewInv(all[t], m[t], st[t])
    BY DEF AllFit
  <2>2. PICK c : c = cleaned[t]  OBVIOUS
  <2>3. OutputFits(t, c, m[t], hurt') /\ (c.known => all[t].known /\ c.bytes = all[t].bytes)
    <3>1. CASE cleaned = all  BY <1>1, <2>1, <2>2, <3>1, MayBeHurt DEF OutputFits
    <3>2. CASE cleaned = Cleaned(all, gone)
      <4>1. PICK x : x = Flushed(all[t], {})  OBVIOUS
      <4>2. c = Unlinked(x, gone[t])  BY <2>2, <3>2, <4>1 DEF Cleaned
      <4>3. OutputFits(t, x, m[t], hurt)  BY <2>1, <4>1, FlushedFits
      <4>4. x.queue = None /\ x.known = all[t].known /\ x.bytes = all[t].bytes
        BY <2>1, <4>1, FlushedIs DEF OutputFits
      <4>5. \A s \in gone[t] : <<t, s>> \in hurt'
        <5>1. ASSUME NEW s \in gone[t] PROVE <<t, s>> \in hurt'
          <6>1. s \in Streams /\ <<t, s>>[1] = t /\ <<t, s>>[2] = s  OBVIOUS
          <6> QED  BY <6>1 DEF Leave
        <5> QED  BY <5>1
      <4>6. OutputFits(t, c, m[t], hurt')  BY <1>1, <4>2, <4>3, <4>4, <4>5, UnlinkedFits
      <4>7. c.known => x.known /\ c.bytes = x.bytes  BY <4>2, <4>3, <4>4, UnlinkedIs DEF OutputFits
      <4> QED  BY <4>4, <4>6, <4>7
    <3> QED  BY <3>1, <3>2
  <2>4. OutputFits(t, out'[t], m[t], hurt') /\ (out'[t].known => c.known /\ out'[t] = c)
    <3>1. CASE t \notin old  BY <2>2, <2>3, <3>1 DEF Leave
    <3>2. CASE t \in old
      <4>1. out'[t] = Removed(c)  BY <2>2, <3>2 DEF Leave
      <4>2. \A s \in Streams : <<t, s>> \in hurt'  BY <3>2 DEF Leave
      <4>3. IsOutput(c)  BY <2>3 DEF OutputFits
      <4> QED  BY <4>1, <4>2, <4>3, RemovedFits, RemovedIs
    <3> QED  BY <3>1, <3>2
  <2>5. EntryInv(t, out'[t], m[t], st[t], forgotten')
    <3>1. ASSUME t \notin forgotten', st[t] # "new" PROVE out'[t].known /\ out'[t].bytes = m[t]
      <4>1. all[t].known /\ all[t].bytes = m[t]  BY <1>1, <2>1, <3>1 DEF EntryInv
      <4>2. out'[t].known  BY <3>1, <4>1 DEF Leave
      <4> QED  BY <2>3, <2>4, <4>1, <4>2
    <3> QED  BY <3>1 DEF EntryInv
  <2>6. NewInv(out'[t], m[t], st[t])  BY <2>1, <2>3, <2>4 DEF NewInv
  <2> QED  BY <2>4, <2>5, <2>6
<1> QED  BY <1>1, <1>2 DEF AllFit

LEMMA AndCleanupFits ==
    ASSUME NEW all, NEW m \in [Tasks -> [Streams -> Nat]], NEW st,
           AllFit(all, m, st, hurt, forgotten), NEW ended, AndCleanup(all, st, ended),
           streamed \in [Tasks -> [Streams -> BOOLEAN]]
    PROVE  /\ AllFit(out', m, st, hurt', forgotten')
           /\ streamed' \in [Tasks -> [Streams -> BOOLEAN]]
           /\ \A t \in Tasks : t \notin Old \cup ended => streamed'[t] = streamed[t]
<1>1. PICK old \in SUBSET Old :
        Leave(all, all, NoFiles, old, ended) \/ Cleanup(all, st, old, ended)
  BY DEF AndCleanup
<1>2. NoFiles \in [Tasks -> SUBSET Streams]  BY DEF NoFiles
<1>3. PICK gone \in [Tasks -> SUBSET Streams] :
        \/ Leave(all, Cleaned(all, gone), gone, old, ended)
        \/ Leave(all, all, gone, old, ended)
  BY <1>1, <1>2 DEF Cleanup, MayGo
<1>4. AllFit(out', m, st, hurt', forgotten')
  <2>1. CASE Leave(all, Cleaned(all, gone), gone, old, ended)  BY <2>1, LeftFit
  <2>2. CASE Leave(all, all, gone, old, ended)  BY <2>2, LeftFit
  <2> QED  BY <1>3, <2>1, <2>2
<1>5. streamed' = [t \in Tasks |-> IF t \in old \cup ended THEN NotStreamed ELSE streamed[t]]
  BY <1>3 DEF Leave
<1>6. NotStreamed \in [Streams -> BOOLEAN]  BY DEF NotStreamed
<1>7. streamed' \in [Tasks -> [Streams -> BOOLEAN]]  BY <1>5, <1>6
<1>8. \A t \in Tasks : t \notin old \cup ended => streamed'[t] = streamed[t]  BY <1>5
<1> QED  BY <1>4, <1>7, <1>8

-----------------------------------------------------------------------------
(* Every step keeps it.                                                      *)
LEMMA StartTaskKeeps ==
    ASSUME IInv, NEW t \in Tasks, StartTask(t)
    PROVE  IInv'
<1>1. Shape /\ AllFit(out, made, status, hurt, forgotten) /\ Told(made, status, streamed)
  BY DEF IInv
<1>2. /\ OutputFits(t, out[t], made[t], hurt) /\ NewInv(out[t], made[t], status[t])
      /\ DOMAIN out = Tasks
  BY <1>1 DEF AllFit
<1>3. made[t] = Zero /\ status[t] = "new"  BY <1>2 DEF StartTask, NewInv
<1>4. /\ DOMAIN out' = Tasks /\ out'[t] = Create(out[t]) /\ status'[t] = "running"
      /\ made' = made /\ hurt' = hurt /\ forgotten' = forgotten /\ streamed' = streamed
      /\ \A u \in Tasks : u # t => out'[u] = out[u] /\ made'[u] = made[u] /\ status'[u] = status[u]
  BY <1>1, <1>2 DEF StartTask, Shape
<1>5. Shape'  BY <1>1 DEF Shape, StartTask
<1>6. OutputFits(t, out'[t], made'[t], hurt')  BY <1>2, <1>4, CreatedFits
<1>7. EntryInv(t, out'[t], made'[t], status'[t], forgotten)
  BY <1>2, <1>3, <1>4, CreateIs DEF EntryInv, OutputFits
<1>8. NewInv(out'[t], made'[t], status'[t])  BY <1>4 DEF NewInv
<1>9. made \in [Tasks -> [Streams -> Nat]] /\ hurt \subseteq hurt'  BY <1>1, <1>4 DEF Shape
<1>10. AllFit(out', made', status', hurt', forgotten')
  BY <1>1, <1>4, <1>6, <1>7, <1>8, <1>9, OneFits
<1>11. Told(made', status', streamed')
  <2>1. ASSUME NEW u \in Tasks, status'[u] = "running", NEW s \in Streams
        PROVE  streamed'[u][s] \/ made'[u][s] = 0
    <3>1. CASE u = t  BY <1>3, <1>4, <3>1 DEF Zero
    <3>2. CASE u # t  BY <1>1, <1>4, <2>1, <3>2 DEF Told
    <3> QED  BY <3>1, <3>2
  <2> QED  BY <2>1 DEF Told
<1> QED  BY <1>5, <1>10, <1>11 DEF IInv

\* More of a stream: what the others hold is Text of nothing.
Grows(m, k, text) ==
    /\ k \in [Streams -> Nat] /\ text \in [Streams -> Seq(Nat)]
    /\ \A r \in Streams : m[r] <= k[r] /\ text[r] = Text(m[r], k[r])

LEMMA OnlyIs ==
    ASSUME NEW m \in [Streams -> Nat], NEW s \in Streams, NEW n \in Nat
    PROVE  Grows(m, [m EXCEPT ![s] = m[s] + n], Only(s, Text(m[s], m[s] + n)))
<1>1. PICK k, text : k = [m EXCEPT ![s] = m[s] + n] /\ text = Only(s, Text(m[s], m[s] + n))
  OBVIOUS
<1>2. k \in [Streams -> Nat] /\ m[s] \in Nat /\ m[s] + n \in Nat  BY <1>1
<1>3. PICK x : x = Text(m[s], m[s] + n)  OBVIOUS
<1>4. x \in Seq(Nat)  BY <1>2, <1>3, TextIs
<1>5. text = [r \in Streams |-> IF r = s THEN x ELSE <<>>]  BY <1>1, <1>3 DEF Only, None
<1>6. text \in [Streams -> Seq(Nat)]  BY <1>4, <1>5, EmptySeq
<1>7. ASSUME NEW r \in Streams PROVE m[r] <= k[r] /\ text[r] = Text(m[r], k[r])
  <2>1. CASE r = s  BY <1>1, <1>2, <1>3, <1>5, <2>1
  <2>2. CASE r # s
    <3>1. k[r] = m[r] /\ text[r] = <<>> /\ m[r] \in Nat  BY <1>1, <1>5, <2>2
    <3>2. Text(m[r], m[r]) = <<>>  BY <3>1, EmptyText
    <3> QED  BY <3>1, <3>2
  <2> QED  BY <2>1, <2>2
<1>8. Grows(m, k, text)  BY <1>2, <1>6, <1>7 DEF Grows
<1> QED  BY <1>1, <1>8

\* The bytes are counted as they are written.
LEMMA AppendedEntry ==
    ASSUME NEW t, NEW o, IsOutput(o), NEW m \in [Streams -> Nat], NEW st, st # "new", NEW f,
           EntryInv(t, o, m, st, f),
           NEW k \in [Streams -> Nat], \A s \in Streams : m[s] <= k[s],
           NEW text \in [Streams -> Seq(Nat)], \A s \in Streams : text[s] = Text(m[s], k[s])
    PROVE  EntryInv(t, Appended(o, text), k, st, f)
<1>1. PICK a : a = Appended(o, text)  OBVIOUS
<1>2. CASE t \in f  BY <1>2 DEF EntryInv
<1>3. CASE o.known /\ o.bytes = m
  <2>1. IsOutput(a) /\ a.known  BY <1>1, <1>3, AppendedIs
  <2>2. ASSUME NEW s \in Streams PROVE a.bytes[s] = k[s]
    <3>0. a.bytes[s] = o.bytes[s] + Len(text[s])  BY <1>1, AppendedIs, SMTT(30)
    <3>1. a.bytes[s] = m[s] + Len(text[s])  BY <1>3, <3>0
    <3>2. m[s] \in Nat /\ k[s] \in Nat /\ m[s] <= k[s]  OBVIOUS
    <3>3. PICK x : x = Text(m[s], k[s])  OBVIOUS
    <3>4. Len(x) = k[s] - m[s]  BY <3>2, <3>3, TextIs
    <3> QED  BY <3>1, <3>2, <3>3, <3>4
  <2>3. a.bytes \in [Streams -> Nat]  BY <2>1 DEF IsOutput
  <2>4. a.bytes = k  BY <2>2, <2>3
  <2> QED  BY <1>1, <2>1, <2>4 DEF EntryInv
<1> QED  BY <1>2, <1>3 DEF EntryInv

LEMMA StreamOutputKeeps ==
    ASSUME IInv, NEW t \in Tasks, NEW s \in Streams, NEW n \in 1..2, StreamOutput(t, s, n)
    PROVE  IInv'
<1>1. Shape /\ AllFit(out, made, status, hurt, forgotten) /\ Told(made, status, streamed)
  BY DEF IInv
<1>2. /\ OutputFits(t, out[t], made[t], hurt)
      /\ EntryInv(t, out[t], made[t], status[t], forgotten)
      /\ DOMAIN out = Tasks
  BY <1>1 DEF AllFit
<1>3. status[t] # "new" /\ n \in Nat /\ made[t] \in [Streams -> Nat]
  BY <1>1 DEF StreamOutput, Shape
<1>4. PICK m, k : m = made[t] /\ k = [m EXCEPT ![s] = m[s] + n]  OBVIOUS
<1>5. PICK text : text = Only(s, Text(m[s], m[s] + n))  OBVIOUS
<1>6. /\ k \in [Streams -> Nat] /\ text \in [Streams -> Seq(Nat)]
      /\ \A r \in Streams : m[r] <= k[r] /\ text[r] = Text(m[r], k[r])
  <2>1. m \in [Streams -> Nat]  BY <1>3, <1>4
  <2>2. Grows(m, [m EXCEPT ![s] = m[s] + n], Only(s, Text(m[s], m[s] + n)))  BY <1>3, <2>1, OnlyIs
  <2>3. Grows(m, k, text)  BY <1>4, <1>5, <2>2
  <2> QED  BY <2>3 DEF Grows
<1>7. /\ DOMAIN out' = Tasks /\ out'[t] = Appended(out[t], text) /\ made'[t] = k
      /\ status' = status /\ hurt' = hurt /\ forgotten' = forgotten
      /\ \A u \in Tasks : u # t => out'[u] = out[u] /\ made'[u] = made[u] /\ status'[u] = status[u]
  BY <1>1, <1>2, <1>4, <1>5 DEF StreamOutput, Shape
<1>8. Shape'
  <2>1. made' \in [Tasks -> [Streams -> Nat]]  BY <1>1, <1>4, <1>6 DEF StreamOutput, Shape
  <2>2. streamed' \in [Tasks -> [Streams -> BOOLEAN]]  BY <1>1 DEF StreamOutput, Shape
  <2> QED  BY <1>1, <1>7, <2>1, <2>2 DEF Shape
<1>9. OutputFits(t, out'[t], made'[t], hurt')
  <2>1. OutputFits(t, out[t], m, hurt) /\ m \in [Streams -> Nat]  BY <1>2, <1>3, <1>4
  <2>2. OutputFits(t, Appended(out[t], text), k, hurt)  BY <1>6, <2>1, AppendedFits
  <2> QED  BY <1>7, <2>2
<1>10. EntryInv(t, out'[t], made'[t], status'[t], forgotten)
  <2>1. EntryInv(t, out[t], m, status[t], forgotten) /\ m \in [Streams -> Nat]  BY <1>2, <1>3, <1>4
  <2>2. IsOutput(out[t]) /\ status[t] # "new"  BY <1>2, <1>3 DEF OutputFits
  <2>3. EntryInv(t, Appended(out[t], text), k, status[t], forgotten)
    BY <1>6, <2>1, <2>2, AppendedEntry
  <2> QED  BY <1>7, <2>3
<1>11. NewInv(out'[t], made'[t], status'[t])  BY <1>3, <1>7 DEF NewInv
<1>12. made \in [Tasks -> [Streams -> Nat]] /\ hurt \subseteq hurt'  BY <1>1, <1>7 DEF Shape
<1>13. AllFit(out', made', status', hurt', forgotten')
  BY <1>1, <1>7, <1>9, <1>10, <1>11, <1>12, OneFits
<1>14. Told(made', status', streamed')
  <2>1. ASSUME NEW u \in Tasks, status'[u] = "running", NEW r \in Streams
        PROVE  streamed'[u][r] \/ made'[u][r] = 0
    <3>0. streamed[u][r] \/ made[u][r] = 0  BY <1>1, <1>7, <2>1 DEF Told
    <3>1. CASE u = t /\ r = s
      <4>1. streamed'[t][s] = TRUE  BY <1>1 DEF StreamOutput, Shape
      <4> QED  BY <3>1, <4>1
    <3>2. CASE ~(u = t /\ r = s)
      <4>1. streamed'[u][r] = streamed[u][r]  BY <1>1, <3>2 DEF StreamOutput, Shape
      <4>2. made'[u][r] = made[u][r]  BY <1>1, <3>2 DEF StreamOutput, Shape
      <4> QED  BY <3>0, <4>1, <4>2
    <3> QED  BY <3>1, <3>2
  <2> QED  BY <2>1 DEF Told
<1> QED  BY <1>8, <1>13, <1>14 DEF IInv

LEMMA CancelTaskKeeps ==
    ASSUME IInv, NEW t \in Tasks, CancelTask(t)
    PROVE  IInv'
<1>1. Shape /\ AllFit(out, made, status, hurt, forgotten) /\ Told(made, status, streamed)
  BY DEF IInv
<1>2. /\ OutputFits(t, out[t], made[t], hurt)
      /\ EntryInv(t, out[t], made[t], status[t], forgotten)
      /\ DOMAIN out = Tasks
  BY <1>1 DEF AllFit
<1>3. /\ out' = out /\ made' = made /\ streamed' = streamed /\ hurt' = hurt
      /\ forgotten' = forgotten /\ status[t] = "running" /\ status'[t] = "cancelled"
      /\ \A u \in Tasks : u # t => status'[u] = status[u]
  BY <1>1 DEF CancelTask, Shape
<1>4. Shape'  BY <1>1, <1>3 DEF CancelTask, Shape
<1>5. EntryInv(t, out'[t], made'[t], status'[t], forgotten)  BY <1>2, <1>3 DEF EntryInv
<1>6. NewInv(out'[t], made'[t], status'[t])  BY <1>3 DEF NewInv
<1>7. made \in [Tasks -> [Streams -> Nat]] /\ hurt \subseteq hurt'  BY <1>1, <1>3 DEF Shape
<1>8. AllFit(out', made', status', hurt', forgotten')
  BY <1>1, <1>2, <1>3, <1>5, <1>6, <1>7, OneFits
<1>9. Told(made', status', streamed')
  BY <1>1, <1>3 DEF Told
<1> QED  BY <1>4, <1>8, <1>9 DEF IInv

\* A task that ended is loaded from its files only when its entry was forgotten.
LEMMA LoadedEntry ==
    ASSUME NEW t, NEW o, IsOutput(o), NEW m, NEW st, st # "new", NEW f, EntryInv(t, o, m, st, f)
    PROVE  EntryInv(t, Loaded(o), m, st, f)
<1>1. PICK l : l = Loaded(o)  OBVIOUS
<1>2. o.known => l = o  BY <1>1, LoadedIs
<1> QED  BY <1>1, <1>2 DEF EntryInv

LEMMA FlushedEntry ==
    ASSUME NEW t, NEW o, IsOutput(o), NEW m, NEW st, NEW f, EntryInv(t, o, m, st, f), NEW failed
    PROVE  EntryInv(t, Flushed(o, failed), m, st, f)
<1>1. PICK l : l = Flushed(o, failed)  OBVIOUS
<1>2. l.known = o.known /\ l.bytes = o.bytes  BY <1>1, FlushedIs
<1> QED  BY <1>1, <1>2 DEF EntryInv

LEMMA ReadOutputKeeps ==
    ASSUME IInv, NEW t \in Tasks, NEW mode, ReadOutput(t, mode)
    PROVE  IInv'
<1>1. Shape /\ AllFit(out, made, status, hurt, forgotten) /\ Told(made, status, streamed)
  BY DEF IInv
<1>2. /\ OutputFits(t, out[t], made[t], hurt)
      /\ EntryInv(t, out[t], made[t], status[t], forgotten)
      /\ DOMAIN out = Tasks /\ made[t] \in [Streams -> Nat]
  BY <1>1 DEF AllFit, Shape
<1>3. PICK l, x : l = Loaded(out[t]) /\ x = Flushed(l, {})  OBVIOUS
<1>4. /\ made' = made /\ status' = status /\ streamed' = streamed /\ hurt' = hurt
      /\ forgotten' = forgotten /\ status[t] # "new" /\ DOMAIN out' = Tasks
      /\ out'[t] = x \/ out'[t] = l
      /\ \A u \in Tasks : u # t => out'[u] = out[u]
  BY <1>2, <1>3 DEF ReadOutput, GetOutput
<1>5. Shape'  BY <1>1, <1>4 DEF Shape
<1>6. OutputFits(t, l, made[t], hurt) /\ EntryInv(t, l, made[t], status[t], forgotten)
  BY <1>2, <1>3, <1>4, LoadedFits, LoadedEntry DEF OutputFits
<1>7. OutputFits(t, x, made[t], hurt)  BY <1>2, <1>3, <1>6, FlushedFits
<1>8. EntryInv(t, x, made[t], status[t], forgotten)
  BY <1>3, <1>6, FlushedEntry DEF OutputFits
<1>9. /\ OutputFits(t, out'[t], made'[t], hurt')
      /\ EntryInv(t, out'[t], made'[t], status'[t], forgotten)
  BY <1>4, <1>6, <1>7, <1>8
<1>10. NewInv(out'[t], made'[t], status'[t])  BY <1>4 DEF NewInv
<1>11. made \in [Tasks -> [Streams -> Nat]] /\ hurt \subseteq hurt'  BY <1>1, <1>4 DEF Shape
<1>12. AllFit(out', made', status', hurt', forgotten')
  BY <1>1, <1>4, <1>9, <1>10, <1>11, OneFits
<1>13. Told(made', status', streamed')  BY <1>1, <1>4
<1> QED  BY <1>5, <1>12, <1>13 DEF IInv

LEMMA OutputTimerKeeps ==
    ASSUME IInv, NEW t \in Tasks, OutputTimer(t)
    PROVE  IInv'
<1>1. Shape /\ AllFit(out, made, status, hurt, forgotten) /\ Told(made, status, streamed)
  BY DEF IInv
<1>2. /\ OutputFits(t, out[t], made[t], hurt)
      /\ EntryInv(t, out[t], made[t], status[t], forgotten)
      /\ NewInv(out[t], made[t], status[t])
      /\ DOMAIN out = Tasks /\ made[t] \in [Streams -> Nat]
  BY <1>1 DEF AllFit, Shape
<1>3. PICK failed \in SUBSET Streams :
        /\ FlushOutput(t, failed)
        /\ hurt' = hurt \cup {<<t, s>> : s \in failed}
        /\ UNCHANGED <<journal, day, life, status, streamed, cwd, made, forgotten, events>>
  BY DEF OutputTimer
<1>4. PICK x : x = Flushed(out[t], failed)  OBVIOUS
<1>5. /\ made' = made /\ status' = status /\ streamed' = streamed /\ forgotten' = forgotten
      /\ DOMAIN out' = Tasks /\ out'[t] = x /\ \A u \in Tasks : u # t => out'[u] = out[u]
  BY <1>2, <1>3, <1>4 DEF FlushOutput
<1>6. hurt \subseteq hurt' /\ \A s \in failed : <<t, s>> \in hurt'  BY <1>3
<1>7. Shape'  BY <1>1, <1>5 DEF Shape
<1>8. OutputFits(t, out'[t], made'[t], hurt')  BY <1>2, <1>4, <1>5, <1>6, FlushedFits
<1>9. x.known = out[t].known  BY <1>2, <1>4, FlushedIs DEF OutputFits
<1>10. EntryInv(t, out'[t], made'[t], status'[t], forgotten)
  BY <1>2, <1>4, <1>5, FlushedEntry DEF OutputFits
<1>11. NewInv(out'[t], made'[t], status'[t])  BY <1>2, <1>5, <1>9 DEF NewInv
<1>12. made \in [Tasks -> [Streams -> Nat]]  BY <1>1 DEF Shape
<1>13. AllFit(out', made', status', hurt', forgotten')
  BY <1>1, <1>5, <1>6, <1>8, <1>10, <1>11, <1>12, OneFits
<1>14. Told(made', status', streamed')  BY <1>1, <1>5
<1> QED  BY <1>7, <1>13, <1>14 DEF IInv

\* The end of a task, when its output is appended, loaded and cleaned up.
LEMMA EndedKeeps ==
    ASSUME IInv, NEW t \in Tasks, status[t] = "running", status' = [status EXCEPT ![t] = "over"],
           NEW k \in [Streams -> Nat], made' = [made EXCEPT ![t] = k],
           NEW o, OutputFits(t, o, k, hurt), EntryInv(t, o, k, "over", forgotten),
           NEW all, all = [out EXCEPT ![t] = Loaded(o)], AndCleanup(all, status', {t})
    PROVE  IInv'
<1>1. Shape /\ AllFit(out, made, status, hurt, forgotten) /\ Told(made, status, streamed)
  BY DEF IInv
<1>2. PICK x : x = Loaded(o)  OBVIOUS
<1>3. OutputFits(t, x, k, hurt)  BY <1>2, LoadedFits
<1>4. EntryInv(t, x, k, "over", forgotten)
  <2>1. IsOutput(o) /\ "over" # "new"  BY DEF OutputFits
  <2> QED  BY <1>2, <2>1, LoadedEntry
<1>5. DOMAIN out = Tasks  BY <1>1 DEF AllFit
<1>6. /\ made' \in [Tasks -> [Streams -> Nat]]
      /\ status' \in [Tasks -> {"new", "running", "over", "cancelled"}]
      /\ streamed \in [Tasks -> [Streams -> BOOLEAN]]
  BY <1>1 DEF Shape
<1>7. PICK a, m, st : a = all /\ m = made' /\ st = status'  OBVIOUS
<1>8. /\ DOMAIN a = Tasks /\ a[t] = x /\ m[t] = k /\ st[t] = "over"
      /\ \A u \in Tasks : u # t => a[u] = out[u] /\ m[u] = made[u] /\ st[u] = status[u]
  BY <1>1, <1>2, <1>5, <1>7 DEF Shape
<1>9. OutputFits(t, a[t], m[t], hurt) /\ EntryInv(t, a[t], m[t], st[t], forgotten)
  BY <1>3, <1>4, <1>8
<1>10. NewInv(a[t], m[t], st[t])  BY <1>8 DEF NewInv
<1>11. made \in [Tasks -> [Streams -> Nat]] /\ hurt \subseteq hurt  BY <1>1 DEF Shape
<1>12. AllFit(a, m, st, hurt, forgotten)
  BY <1>1, <1>8, <1>9, <1>10, <1>11, OneFits
<1>13. /\ m \in [Tasks -> [Streams -> Nat]] /\ AndCleanup(a, st, {t})
       /\ streamed \in [Tasks -> [Streams -> BOOLEAN]]
  BY <1>6, <1>7
<1>14. /\ AllFit(out', m, st, hurt', forgotten')
       /\ streamed' \in [Tasks -> [Streams -> BOOLEAN]]
       /\ \A u \in Tasks : u \notin Old \cup {t} => streamed'[u] = streamed[u]
  BY <1>12, <1>13, AndCleanupFits
<1>15. Shape'  BY <1>6, <1>14 DEF Shape
<1>16. Told(made', status', streamed')
  <2>1. ASSUME NEW u \in Tasks, st[u] = "running", NEW s \in Streams
        PROVE  streamed'[u][s] \/ m[u][s] = 0
    <3>1. u # t /\ status[u] = "running"  BY <1>8, <2>1
    <3>2. u \notin Old \cup {t}  BY <3>1 DEF Old
    <3>3. streamed'[u] = streamed[u] /\ m[u] = made[u]  BY <1>8, <1>14, <3>1, <3>2
    <3>4. streamed[u][s] \/ made[u][s] = 0  BY <1>1, <3>1 DEF Told
    <3> QED  BY <3>3, <3>4
  <2> QED  BY <1>7, <2>1 DEF Told
<1> QED  BY <1>7, <1>14, <1>15, <1>16 DEF IInv

LEMMA FinishTaskKeeps ==
    ASSUME IInv, NEW t \in Tasks, FinishTask(t)
    PROVE  IInv'
<1>1. Shape /\ AllFit(out, made, status, hurt, forgotten) /\ Told(made, status, streamed)
  BY DEF IInv
<1>2. /\ OutputFits(t, out[t], made[t], hurt)
      /\ EntryInv(t, out[t], made[t], status[t], forgotten)
  BY <1>1 DEF AllFit
<1>3. status[t] = "running" /\ made' = made /\ status' = [status EXCEPT ![t] = "over"]
  BY DEF FinishTask
<1>4. ResultText(t) = None
  <2>1. ASSUME NEW s \in Streams
        PROVE  (IF streamed[t][s] THEN <<>> ELSE Text(0, made[t][s])) = <<>>
    <3>1. streamed[t][s] \/ made[t][s] = 0  BY <1>1, <1>3 DEF Told
    <3>2. Text(0, 0) = <<>>  BY EmptyText
    <3> QED  BY <3>1, <3>2
  <2> QED  BY <2>1 DEF ResultText, None
<1>5. Appended(out[t], ResultText(t)) = out[t]  BY <1>4 DEF Appended
<1>6. PICK k, o : k = made[t] /\ o = out[t]  OBVIOUS
<1>7. k \in [Streams -> Nat] /\ made' = [made EXCEPT ![t] = k]  BY <1>1, <1>3, <1>6 DEF Shape
<1>8. OutputFits(t, o, k, hurt) /\ EntryInv(t, o, k, "over", forgotten)
  BY <1>2, <1>3, <1>6 DEF EntryInv
<1>9. PICK all : all = [out EXCEPT ![t] = Loaded(o)]  OBVIOUS
<1>10. all = [out EXCEPT ![t] = Loaded(Appended(@, ResultText(t)))]
  <2>1. DOMAIN out = Tasks  BY <1>1 DEF AllFit
  <2> QED  BY <1>5, <1>6, <1>9, <2>1
<1>11. AndCleanup(all, status', {t})  BY <1>3, <1>10 DEF FinishTask
<1> QED  BY <1>3, <1>7, <1>8, <1>9, <1>11, EndedKeeps

LEMMA FailTaskKeeps ==
    ASSUME IInv, NEW t \in Tasks, FailTask(t)
    PROVE  IInv'
<1>1. Shape /\ AllFit(out, made, status, hurt, forgotten) /\ Told(made, status, streamed)
  BY DEF IInv
<1>2. /\ OutputFits(t, out[t], made[t], hurt)
      /\ EntryInv(t, out[t], made[t], status[t], forgotten)
      /\ DOMAIN out = Tasks
  BY <1>1 DEF AllFit
<1>3. PICK m, n, s : m = made[t] /\ n = (IF streamed[t]["stderr"] THEN 0 ELSE 1) /\ s = "stderr"
  OBVIOUS
<1>4. /\ status[t] = "running" /\ status' = [status EXCEPT ![t] = "over"]
      /\ made' = [made EXCEPT ![t]["stderr"] = made[t]["stderr"] + n]
  BY <1>3 DEF FailTask
<1>5. m \in [Streams -> Nat] /\ n \in Nat /\ s \in Streams  BY <1>1, <1>3 DEF Shape, Streams
<1>6. PICK k, text : k = [m EXCEPT ![s] = m[s] + n] /\ text = Only(s, Text(m[s], m[s] + n))
  OBVIOUS
<1>7. /\ k \in [Streams -> Nat] /\ text \in [Streams -> Seq(Nat)]
      /\ \A r \in Streams : m[r] <= k[r] /\ text[r] = Text(m[r], k[r])
  <2>1. Grows(m, [m EXCEPT ![s] = m[s] + n], Only(s, Text(m[s], m[s] + n)))  BY <1>5, OnlyIs
  <2>2. Grows(m, k, text)  BY <1>6, <2>1
  <2> QED  BY <2>2 DEF Grows
<1>8. made' = [made EXCEPT ![t] = k]  BY <1>1, <1>3, <1>4, <1>6 DEF Shape
<1>9. PICK o : o = Appended(out[t], text)  OBVIOUS
<1>10. OutputFits(t, o, k, hurt)
  <2>1. OutputFits(t, out[t], m, hurt)  BY <1>2, <1>3
  <2>2. OutputFits(t, Appended(out[t], text), k, hurt)  BY <1>5, <1>7, <2>1, AppendedFits
  <2> QED  BY <1>9, <2>2
<1>11. EntryInv(t, o, k, "over", forgotten)
  <2>1. EntryInv(t, out[t], m, "over", forgotten) /\ IsOutput(out[t]) /\ "over" # "new"
    BY <1>2, <1>3, <1>4 DEF EntryInv, OutputFits
  <2>2. EntryInv(t, Appended(out[t], text), k, "over", forgotten)
    BY <1>5, <1>7, <2>1, AppendedEntry
  <2> QED  BY <1>9, <2>2
<1>12. PICK all : all = [out EXCEPT ![t] = Loaded(o)]  OBVIOUS
<1>13. all = [out EXCEPT ![t] =
                Loaded(Appended(@, Only("stderr", Text(made[t]["stderr"], made[t]["stderr"] + n))))]
  BY <1>2, <1>3, <1>6, <1>9, <1>12
<1>14. AndCleanup(all, status', {t})  BY <1>3, <1>4, <1>13 DEF FailTask
<1> QED  BY <1>4, <1>7, <1>8, <1>10, <1>11, <1>12, <1>14, EndedKeeps

LEMMA EvictTimerKeeps ==
    ASSUME IInv, EvictTimer
    PROVE  IInv'
<1>1. Shape /\ AllFit(out, made, status, hurt, forgotten) /\ Told(made, status, streamed)
  BY DEF IInv
<1>2. PICK old \in SUBSET Old : Leave(out, out, NoFiles, old, {})  BY DEF EvictTimer
<1>3. status' = status /\ made' = made  BY DEF EvictTimer
<1>4. made \in [Tasks -> [Streams -> Nat]] /\ NoFiles \in [Tasks -> SUBSET Streams]
  BY <1>1 DEF Shape, NoFiles
<1>5. AllFit(out', made, status, hurt', forgotten')  BY <1>1, <1>2, <1>4, LeftFit
<1>6. Shape'  BY <1>1, <1>2, <1>3 DEF Shape, Leave, NotStreamed
<1>7. Told(made, status, streamed')
  <2>1. ASSUME NEW u \in Tasks, status[u] = "running" PROVE streamed'[u] = streamed[u]
    BY <1>2, <2>1 DEF Leave, Old
  <2> QED  BY <1>1, <2>1 DEF Told
<1> QED  BY <1>3, <1>5, <1>6, <1>7 DEF IInv

\* The process ends, after what is on disk became disk.
LEMMA EndsKeeps ==
    ASSUME IInv, NEW disk, \A t \in Tasks : OutputFits(t, disk[t], made[t], hurt),
           NEW e, NEW c, Ends(disk, e, c)
    PROVE  IInv'
<1>1. Shape /\ AllFit(out, made, status, hurt, forgotten) /\ Told(made, status, streamed)
  BY DEF IInv
<1>2. /\ status' = status /\ made' = made /\ streamed' = streamed
      /\ DOMAIN out' = Tasks /\ hurt \subseteq hurt'
  BY DEF Ends
<1>3. ASSUME NEW t \in Tasks
      PROVE  /\ OutputFits(t, out'[t], made[t], hurt')
             /\ EntryInv(t, out'[t], made[t], status[t], forgotten')
             /\ NewInv(out'[t], made[t], status[t])
  <2>1. EntryInv(t, out[t], made[t], status[t], forgotten) /\ NewInv(out[t], made[t], status[t])
    BY <1>1 DEF AllFit
  <2>2. out'[t] = Reopened(disk[t]) /\ OutputFits(t, disk[t], made[t], hurt)  BY DEF Ends
  <2>3. ASSUME NEW s \in Streams, disk[t].queue[s] # <<>> PROVE <<t, s>> \in hurt'
    <3>1. <<t, s>>[1] = t /\ <<t, s>>[2] = s  OBVIOUS
    <3> QED  BY <2>3, <3>1 DEF Ends
  <2>4. made[t] \in [Streams -> Nat]  BY <1>1 DEF Shape
  <2>5. OutputFits(t, out'[t], made[t], hurt')  BY <1>2, <2>2, <2>3, <2>4, ReopenedFits
  <2>6. ~out'[t].known  BY <2>2, ReopenedIs DEF OutputFits
  <2>7. EntryInv(t, out'[t], made[t], status[t], forgotten')  BY <2>1 DEF EntryInv, Ends
  <2>8. NewInv(out'[t], made[t], status[t])  BY <2>1, <2>6 DEF NewInv
  <2> QED  BY <2>5, <2>7, <2>8
<1>4. AllFit(out', made, status, hurt', forgotten')  BY <1>2, <1>3 DEF AllFit
<1>5. Shape'  BY <1>1, <1>2 DEF Shape
<1> QED  BY <1>1, <1>2, <1>4, <1>5 DEF IInv

LEMMA EndKeeps ==
    ASSUME IInv, Crash \/ Dispose \/ DisposeFails
    PROVE  IInv'
<1>1. Shape /\ AllFit(out, made, status, hurt, forgotten)  BY DEF IInv
<1>2. \A t \in Tasks : OutputFits(t, out[t], made[t], hurt)  BY <1>1 DEF AllFit
<1>3. CASE Crash  BY <1>2, <1>3, EndsKeeps DEF Crash
<1>4. CASE DisposeFails  BY <1>2, <1>4, EndsKeeps DEF DisposeFails
<1>5. CASE Dispose
  <2>1. PICK disk : disk = [t \in Tasks |-> Flushed(out[t], {})]  OBVIOUS
  <2>2. Ends(disk, Drained(journal), SavedCwd)  BY <1>5, <2>1 DEF Dispose
  <2>3. ASSUME NEW t \in Tasks PROVE OutputFits(t, disk[t], made[t], hurt)
    <3>1. made[t] \in [Streams -> Nat]  BY <1>1 DEF Shape
    <3>2. OutputFits(t, Flushed(out[t], {}), made[t], hurt)  BY <1>2, <3>1, FlushedFits
    <3> QED  BY <2>1, <3>2
  <2> QED  BY <2>2, <2>3, EndsKeeps
<1> QED  BY <1>3, <1>4, <1>5

LEMMA RestartKeeps ==
    ASSUME IInv, Restart
    PROVE  IInv'
<1>1. Shape /\ AllFit(out, made, status, hurt, forgotten)  BY DEF IInv
<1>2. PICK st : st = status'  OBVIOUS
<1>3. /\ made' = made /\ st \in [Tasks -> {"new", "running", "over", "cancelled"}]
      /\ \A t \in Tasks : st[t] # "running" /\ (st[t] = "new" <=> status[t] = "new")
  BY <1>1, <1>2 DEF Restart, Shape
<1>4. Cleanup(out, st, {}, Tasks)  BY <1>2 DEF Restart
<1>5. PICK gone \in [Tasks -> SUBSET Streams] : Leave(out, Cleaned(out, gone), gone, {}, Tasks)
  BY <1>4 DEF Cleanup, MayGo
<1>6. AllFit(out, made, st, hurt, forgotten)
  <2>1. ASSUME NEW t \in Tasks
        PROVE  /\ OutputFits(t, out[t], made[t], hurt)
               /\ EntryInv(t, out[t], made[t], st[t], forgotten) /\ NewInv(out[t], made[t], st[t])
    <3>1. /\ OutputFits(t, out[t], made[t], hurt)
          /\ EntryInv(t, out[t], made[t], status[t], forgotten)
          /\ NewInv(out[t], made[t], status[t])
      BY <1>1 DEF AllFit
    <3> QED  BY <1>3, <3>1 DEF EntryInv, NewInv
  <2> QED  BY <1>1, <2>1 DEF AllFit
<1>7. made \in [Tasks -> [Streams -> Nat]]  BY <1>1 DEF Shape
<1>8. AllFit(out', made, st, hurt', forgotten')  BY <1>5, <1>6, <1>7, LeftFit
<1>9. streamed' \in [Tasks -> [Streams -> BOOLEAN]]  BY <1>1, <1>5 DEF Leave, NotStreamed, Shape
<1>10. Shape'  BY <1>2, <1>3, <1>7, <1>9 DEF Shape
<1>11. Told(made', status', streamed')  BY <1>2, <1>3 DEF Told
<1> QED  BY <1>2, <1>3, <1>8, <1>10, <1>11 DEF IInv

-----------------------------------------------------------------------------
(* The theorems.                                                             *)
LEMMA Starts == Init => IInv
<1> SUFFICES ASSUME Init PROVE IInv  OBVIOUS
<1>1. Shape  BY DEF Init, Shape, NotStreamed
<1>2. ASSUME NEW t \in Tasks
      PROVE  /\ OutputFits(t, out[t], made[t], hurt)
             /\ EntryInv(t, out[t], made[t], status[t], forgotten)
             /\ NewInv(out[t], made[t], status[t])
  <2>1. out[t] = NoOutput /\ made[t] = Zero /\ status[t] = "new" /\ DOMAIN out = Tasks
    BY DEF Init, OutputInit, Zero
  <2>2. PICK o : o = NoOutput  OBVIOUS
  <2>3. IsOutput(o) /\ ~o.known /\ o.file = None /\ o.queue = None
    BY <2>2, NoneIs DEF IsOutput, NoOutput
  <2>4. ASSUME NEW s \in Streams PROVE Fit(<<t, s>>, Held(o, s), Zero[s], hurt)
    <3>1. <<>> \o <<>> = <<>> /\ <<>> \in Seq(Nat) /\ Len(<<>>) = 0  BY EmptySeq, ConcatEmptySeq
    <3>2. Held(o, s) = <<>> /\ Zero[s] = 0  BY <2>3, <3>1 DEF Held, None, Zero
    <3>3. InStep(<<>>, 0)  BY <3>1 DEF InStep
    <3>4. Whole(<<>>, 0)
      <4>1. Cap \in Nat \ {0}  BY OutputAssumption
      <4>2. Cap \in Nat /\ Least(0, Cap) = 0  BY <4>1 DEF Least
      <4>3. PICK x : x = FirstOf(<<>>, Cap)  OBVIOUS
      <4>4. x \in Seq(Nat) /\ Len(x) \in Nat /\ Len(x) <= 0  BY <3>1, <4>2, <4>3, FirstIs
      <4>5. x = <<>>  BY <4>4, EmptySeq
      <4>6. Text(0, 0) = <<>>  BY EmptyText
      <4> QED  BY <4>2, <4>3, <4>5, <4>6 DEF Whole
    <3> QED  BY <3>2, <3>3, <3>4 DEF Fit
  <2> QED  BY <2>1, <2>2, <2>3, <2>4 DEF OutputFits, EntryInv, NewInv
<1>3. AllFit(out, made, status, hurt, forgotten)  BY <1>2 DEF AllFit, Init, OutputInit
<1>4. Told(made, status, streamed)  BY DEF Told, Init
<1> QED  BY <1>1, <1>3, <1>4 DEF IInv

LEMMA Keeps == IInv /\ [Next]_vars => IInv'
<1> SUFFICES ASSUME IInv, [Next]_vars PROVE IInv'  OBVIOUS
<1>1. ASSUME UNCHANGED <<out, status, streamed, made, hurt, forgotten>> PROVE IInv'
  BY <1>1 DEF IInv, Shape
<1>2. CASE UNCHANGED vars  BY <1>1, <1>2 DEF vars
<1>3. ASSUME NEW t \in Tasks, StartTask(t) PROVE IInv'  BY <1>3, StartTaskKeeps
<1>4. ASSUME NEW t \in Tasks, FinishTask(t) PROVE IInv'  BY <1>4, FinishTaskKeeps
<1>5. ASSUME NEW t \in Tasks, FailTask(t) PROVE IInv'  BY <1>5, FailTaskKeeps
<1>6. ASSUME NEW t \in Tasks, CancelTask(t) PROVE IInv'  BY <1>6, CancelTaskKeeps
<1>7. ASSUME NEW t \in Tasks, OutputTimer(t) PROVE IInv'  BY <1>7, OutputTimerKeeps
<1>8. ASSUME NEW t \in Tasks, NEW s \in Streams, NEW n \in 1..2, StreamOutput(t, s, n) PROVE IInv'
  BY <1>8, StreamOutputKeeps
<1>9. ASSUME NEW t \in Tasks, NEW mode, ReadOutput(t, mode) PROVE IInv'  BY <1>9, ReadOutputKeeps
<1>10. CASE ReadEvents  BY <1>1, <1>10 DEF ReadEvents
<1>11. CASE SetCwd  BY <1>1, <1>11 DEF SetCwd
<1>12. CASE EventTimer  BY <1>1, <1>12 DEF EventTimer
<1>13. CASE CwdTimer  BY <1>1, <1>13 DEF CwdTimer
<1>14. CASE Midnight  BY <1>1, <1>14 DEF Midnight
<1>15. CASE EvictTimer  BY <1>15, EvictTimerKeeps
<1>16. CASE Crash \/ Dispose \/ DisposeFails  BY <1>16, EndKeeps
<1>17. CASE Restart  BY <1>17, RestartKeeps
<1> QED
  BY <1>2, <1>3, <1>4, <1>5, <1>6, <1>7, <1>8, <1>9, <1>10, <1>11, <1>12, <1>13, <1>14,
     <1>15, <1>16, <1>17
  DEF Next

LEMMA FullTextIs ==
    ASSUME NEW o, IsOutput(o), NEW s \in Streams
    PROVE  FullText(o, s) = FirstOf(Held(o, s), Cap)
BY FlushedIs DEF FullText

\* The output store neither loses, doubles nor reorders: what is on disk and in the
\* queue of a stream that nothing hurt is what its command wrote, up to the cap.
THEOREM OutputKept == Spec => []OutputIsWhole
<1>1. IInv => OutputIsWhole
  <2> SUFFICES ASSUME IInv, NEW t \in Tasks, NEW s \in Streams, <<t, s>> \notin hurt
               PROVE  FullText(out[t], s) = Text(0, Least(made[t][s], Cap))
    BY DEF OutputIsWhole
  <2>1. OutputFits(t, out[t], made[t], hurt)  BY DEF IInv, AllFit
  <2>2. IsOutput(out[t]) /\ Whole(Held(out[t], s), made[t][s])  BY <2>1 DEF OutputFits, Fit
  <2> QED  BY <2>2, FullTextIs DEF Whole
<1> QED  BY <1>1, Starts, Keeps, PTL DEF Spec

\* A full read that does not say that it was truncated returns every byte, in order,
\* for as long as the store knows the task: whatever failed, was capped or deleted.
THEOREM FullReads == Spec => []FullReadIsHonest
<1>1. IInv => FullReadIsHonest
  <2> SUFFICES ASSUME IInv, NEW t \in Tasks, NEW s \in Streams,
                      t \notin forgotten, ~FullTruncated(out[t], s)
               PROVE  FullText(out[t], s) = Text(0, made[t][s])
    BY DEF FullReadIsHonest
  <2>1. /\ OutputFits(t, out[t], made[t], hurt)
        /\ EntryInv(t, out[t], made[t], status[t], forgotten)
        /\ NewInv(out[t], made[t], status[t])
    BY DEF IInv, AllFit
  <2>2. PICK o, w, m : o = out[t] /\ w = Held(o, s) /\ m = made[t][s]  OBVIOUS
  <2>3. m \in Nat  BY <2>2 DEF IInv, Shape
  <2>4. IsOutput(o) /\ w \in Seq(Nat) /\ InStep(w, m)
    BY <2>1, <2>2, HeldIs DEF OutputFits, Fit
  <2>5. Cap \in Nat  BY OutputAssumption
  <2>6. PICK x : x = FirstOf(w, Cap)  OBVIOUS
  <2>7. x \in Seq(Nat) /\ Len(x) \in Nat /\ Len(x) <= Len(w) /\ \A i \in 1..Len(x) : x[i] = w[i]
    BY <2>4, <2>5, <2>6, FirstIs
  <2>8. InStep(x, m)  BY <2>3, <2>4, <2>7, BeginsInStep
  <2>9. FullText(o, s) = x  BY <2>2, <2>4, <2>6, FullTextIs
  <2>10. Len(x) >= m
    <3>1. CASE status[t] = "new"  BY <2>1, <2>2, <2>7, <3>1 DEF NewInv, Zero
    <3>2. CASE status[t] # "new"
      <4>1. o.known /\ o.bytes[s] = m  BY <2>1, <2>2, <3>2 DEF EntryInv
      <4>2. PICK l : l = Loaded(o)  OBVIOUS
      <4>3. l.bytes[s] = m  BY <2>4, <4>1, <4>2, LoadedIs
      <4>4. ~(m > Len(x))  BY <2>2, <2>9, <4>2, <4>3 DEF FullTruncated
      <4> QED  BY <2>3, <2>7, <4>4
    <3> QED  BY <3>1, <3>2
  <2>11. x = Text(0, m)  BY <2>3, <2>7, <2>8, <2>10, InStepIsAll
  <2> QED  BY <2>2, <2>9, <2>11
<1> QED  BY <1>1, Starts, Keeps, PTL DEF Spec

-----------------------------------------------------------------------------
(* Rows of sequences that are joined: FlattenSeq, by induction.              *)
\* Induction up to a number, for membership in a set: the library states induction for
\* operators. The least number that is not in the set would be one step behind one that is.
LEMMA CountingUp ==
    ASSUME NEW Good, NEW N \in Nat, 0 \in Good,
           \A n \in 0..(N - 1) : n \in Good => n + 1 \in Good
    PROVE  \A n \in 0..N : n \in Good
<1> DEFINE Bad == (0..N) \ Good
           R == {p \in Nat \X Nat : p[1] < p[2]}
<1>1. IsWellFoundedOn(R, Nat)
  BY NatLessThanWellFounded, Zenon DEF OpToRel
<1>2. \A m, n \in Nat : n < m => <<n, m>> \in R
  OBVIOUS
<1>3. Bad \subseteq Nat  OBVIOUS
<1>4. CASE Bad # {}
  <2> HIDE DEF R, Bad
  <2>1. PICK m \in Bad : \A n \in Bad : ~(<<n, m>> \in R)
    BY <1>1, <1>3, <1>4, WFMin
  <2>2. m \in 1..N  BY <2>1 DEF Bad
  <2>3. m - 1 \in Nat /\ m \in Nat /\ m - 1 < m  BY <2>2
  <2>4. <<m - 1, m>> \in R  BY <1>2, <2>3
  <2>5. m - 1 \notin Bad  BY <2>1, <2>4
  <2>6. m - 1 \in 0..(N - 1) /\ (m - 1) + 1 = m  BY <2>2
  <2>7. m - 1 \in Good  BY <2>5, <2>6 DEF Bad
  <2>8. m \in Good  BY <2>6, <2>7
  <2> QED  BY <2>1, <2>8 DEF Bad
<1> QED  BY <1>4

Flattens(s, n, f) == f = [i \in 1..n |-> IF i = 1 THEN s[i] ELSE f[i - 1] \o s[i]]

\* One more sequence is joined to those before it.
LEMMA FlatteningGoesOn ==
    ASSUME NEW s, NEW n \in Nat, NEW f, Flattens(s, n, f)
    PROVE  \E g : Flattens(s, n + 1, g)
<1> DEFINE g == [i \in 1..(n + 1) |->
                   IF i = n + 1 THEN IF n = 0 THEN s[1] ELSE f[n] \o s[n + 1] ELSE f[i]]
<1>1. \A i \in 1..n : f[i] = IF i = 1 THEN s[i] ELSE f[i - 1] \o s[i]
  BY DEF Flattens
<1>2. \A i \in 1..n : i \in 1..(n + 1) /\ i # n + 1  OBVIOUS
<1>3. \A i \in 1..n : g[i] = f[i]  BY <1>2
<1>4. g[n + 1] = IF n = 0 THEN s[1] ELSE f[n] \o s[n + 1]  OBVIOUS
<1>5. g = [i \in 1..(n + 1) |-> g[i]]  OBVIOUS
<1> HIDE DEF g
<1>6. ASSUME NEW i \in 1..(n + 1)
      PROVE  g[i] = IF i = 1 THEN s[i] ELSE g[i - 1] \o s[i]
  <2>1. CASE i = n + 1 /\ n = 0
    <3>1. i = 1  BY <2>1
    <3>2. g[i] = s[1]  BY <1>4, <2>1
    <3> QED  BY <3>1, <3>2
  <2>2. CASE i = n + 1 /\ n # 0
    <3>1. n \in 1..n /\ i - 1 = n /\ i # 1  BY <2>2
    <3>2. g[n] = f[n]  BY <1>3, <3>1
    <3>3. g[i] = g[n] \o s[i]  BY <1>4, <2>2, <3>2
    <3> QED  BY <3>1, <3>3
  <2>3. CASE i \in 1..n
    <3>1. g[i] = f[i] /\ f[i] = IF i = 1 THEN s[i] ELSE f[i - 1] \o s[i]  BY <1>1, <1>3, <2>3
    <3>2. i # 1 => i - 1 \in 1..n  BY <2>3
    <3>3. i # 1 => g[i - 1] = f[i - 1]  BY <1>3, <3>2
    <3> QED  BY <3>1, <3>3
  <2>4. i \in 1..n \/ i = n + 1  OBVIOUS
  <2> QED  BY <2>1, <2>2, <2>3, <2>4
<1>7. g = [i \in 1..(n + 1) |-> IF i = 1 THEN s[i] ELSE g[i - 1] \o s[i]]
  BY <1>5, <1>6
<1> QED  BY <1>7 DEF Flattens

\* What FlattenSeq computes, by induction: its recursion comes to the end.
LEMMA FlattenSeqIs ==
    ASSUME NEW s, Len(s) \in Nat \ {0}
    PROVE  \E f : /\ FlattenSeq(s) = f[Len(s)]
                  /\ \A i \in 1..Len(s) : f[i] = IF i = 1 THEN s[i] ELSE f[i - 1] \o s[i]
<1> DEFINE Flat == {n \in Nat : \E f : Flattens(s, n, f)}
<1>1. 0 \in Flat
  <2>1. Flattens(s, 0, [i \in 1..0 |-> <<>>])  BY DEF Flattens
  <2> QED  BY <2>1
<1>2. ASSUME NEW n \in 0..(Len(s) - 1), n \in Flat PROVE n + 1 \in Flat
  <2>1. PICK f : Flattens(s, n, f)  BY <1>2
  <2>2. n \in Nat /\ n + 1 \in Nat  OBVIOUS
  <2> QED  BY <2>1, <2>2, FlatteningGoesOn
<1> HIDE DEF Flat
<1>3. \A n \in 0..Len(s) : n \in Flat  BY <1>1, <1>2, CountingUp
<1>4. Len(s) \in Flat  BY <1>3
<1>5. \E f : Flattens(s, Len(s), f)  BY <1>4 DEF Flat
<1> DEFINE f == CHOOSE f : Flattens(s, Len(s), f)
<1>6. FlattenSeq(s) = f[Len(s)]  BY DEF FlattenSeq, Flattens
<1>7. Flattens(s, Len(s), f)  BY <1>5
<1> HIDE DEF f
<1>8. \A i \in 1..Len(s) : f[i] = IF i = 1 THEN s[i] ELSE f[i - 1] \o s[i]
  BY <1>7 DEF Flattens
<1> QED  BY <1>6, <1>8

\* f joins the sequences of s, one after the other.
Joins(f, s, N) ==
    \A n \in 0..(N - 1) : f[n + 1] = IF n = 0 THEN s[n + 1] ELSE f[n] \o s[n + 1]

LEMMA FlattenSeqJoins ==
    ASSUME NEW N \in Nat \ {0}, NEW s, Len(s) = N
    PROVE  \E f : FlattenSeq(s) = f[N] /\ Joins(f, s, N)
<1>1. PICK f : /\ FlattenSeq(s) = f[N]
               /\ \A i \in 1..N : f[i] = IF i = 1 THEN s[i] ELSE f[i - 1] \o s[i]
  BY FlattenSeqIs
<1>2. ASSUME NEW n \in 0..(N - 1)
      PROVE  f[n + 1] = IF n = 0 THEN s[n + 1] ELSE f[n] \o s[n + 1]
  <2>1. n + 1 \in 1..N /\ (n + 1) - 1 = n /\ (n + 1 = 1 <=> n = 0)  OBVIOUS
  <2>2. f[n + 1] = IF n + 1 = 1 THEN s[n + 1] ELSE f[(n + 1) - 1] \o s[n + 1]
    BY <1>1, <2>1
  <2> QED  BY <2>1, <2>2
<1> QED  BY <1>1, <1>2 DEF Joins

\* A row of sequences.
LEMMA RowIs ==
    ASSUME NEW N \in Nat, NEW S, NEW s \in [1..N -> S]
    PROVE  Len(s) = N
<1>1. s \in Seq(S)  BY SeqDef
<1>2. Len(s) \in Nat /\ DOMAIN s = 1..Len(s)  BY <1>1, LenProperties
<1>3. 1..Len(s) = 1..N  BY <1>2
<1> QED  BY <1>2, <1>3

\* The first ones of a row of sequences are sequences when joined; empty ones join to
\* an empty one.
LEMMA JoinedIsSeq ==
    ASSUME NEW S, NEW N \in Nat \ {0}, NEW s, \A i \in 1..N : s[i] \in Seq(S), NEW f,
           Joins(f, s, N)
    PROVE  \A i \in 1..N : f[i] \in Seq(S)
<1> DEFINE Good == {n \in Nat : n = 0 \/ f[n] \in Seq(S)}
<1>1. ASSUME NEW n \in 0..(N - 1), n \in Good PROVE n + 1 \in Good
  <2>1. n + 1 \in 1..N /\ n + 1 \in Nat  OBVIOUS
  <2>2. f[n + 1] = IF n = 0 THEN s[n + 1] ELSE f[n] \o s[n + 1]  BY DEF Joins
  <2>3. s[n + 1] \in Seq(S) /\ (n # 0 => f[n] \in Seq(S))  BY <1>1, <2>1
  <2>4. n # 0 => f[n] \o s[n + 1] \in Seq(S)  BY <2>3, ConcatProperties
  <2>5. f[n + 1] \in Seq(S)  BY <2>2, <2>3, <2>4
  <2> QED  BY <2>1, <2>5
<1>2. 0 \in Good  OBVIOUS
<1> HIDE DEF Good
<1>3. \A n \in 0..N : n \in Good  BY <1>1, <1>2, CountingUp
<1>4. \A i \in 1..N : i \in 0..N /\ i # 0  OBVIOUS
<1> QED  BY <1>3, <1>4 DEF Good

LEMMA FlattenedIsSeq ==
    ASSUME NEW S, NEW N \in Nat \ {0}, NEW s, Len(s) = N, \A i \in 1..N : s[i] \in Seq(S)
    PROVE  FlattenSeq(s) \in Seq(S)
<1>1. PICK f : FlattenSeq(s) = f[N] /\ Joins(f, s, N)  BY FlattenSeqJoins
<1>2. \A i \in 1..N : f[i] \in Seq(S)  BY <1>1, JoinedIsSeq
<1> QED  BY <1>1, <1>2

LEMMA EmptyFlattened ==
    ASSUME NEW N \in Nat \ {0}, NEW s, Len(s) = N, \A i \in 1..N : s[i] = <<>>
    PROVE  FlattenSeq(s) = <<>>
<1>1. PICK f : FlattenSeq(s) = f[N] /\ Joins(f, s, N)  BY FlattenSeqJoins
<1> DEFINE Good == {n \in Nat : n = 0 \/ f[n] = <<>>}
<1>2. ASSUME NEW n \in 0..(N - 1), n \in Good PROVE n + 1 \in Good
  <2>1. n + 1 \in 1..N /\ n + 1 \in Nat  OBVIOUS
  <2>2. f[n + 1] = IF n = 0 THEN s[n + 1] ELSE f[n] \o s[n + 1]  BY <1>1 DEF Joins
  <2>3. s[n + 1] = <<>> /\ (n # 0 => f[n] = <<>>)  BY <1>2, <2>1
  <2>4. <<>> \o <<>> = <<>>  BY EmptySeq, ConcatEmptySeq
  <2>5. f[n + 1] = <<>>  BY <2>2, <2>3, <2>4
  <2> QED  BY <2>1, <2>5
<1>3. 0 \in Good  OBVIOUS
<1> HIDE DEF Good
<1>4. \A n \in 0..N : n \in Good  BY <1>2, <1>3, CountingUp
<1>5. N \in Good /\ N # 0  BY <1>4
<1> QED  BY <1>1, <1>5 DEF Good

\* t is the row s of N sequences with b appended to sequence k. Those after it are empty.
AppendsAt(S, N, s, t, k, b) ==
    /\ N \in Nat \ {0} /\ k \in 1..N /\ b \in Seq(S)
    /\ s \in [1..N -> Seq(S)] /\ t \in [1..N -> Seq(S)]
    /\ \A i \in 1..N : i > k => s[i] = <<>>
    /\ \A i \in 1..N : t[i] = IF i = k THEN s[i] \o b ELSE s[i]

\* To join b to one of the sequences is to join it to the end, if those after it are empty.
LEMMA JoinedLast ==
    ASSUME NEW S, NEW N, NEW s, NEW t, NEW b, NEW k, AppendsAt(S, N, s, t, k, b)
    PROVE  FlattenSeq(t) = FlattenSeq(s) \o b
<1>a. N \in Nat \ {0} /\ k \in 1..N /\ b \in Seq(S)  BY DEF AppendsAt
<1>b. \A i \in 1..N : s[i] \in Seq(S)  BY DEF AppendsAt
<1>c. \A i \in 1..N : i > k => s[i] = <<>>  BY DEF AppendsAt
<1>d. \A i \in 1..N : t[i] = IF i = k THEN s[i] \o b ELSE s[i]  BY DEF AppendsAt
<1>e. Len(s) = N /\ Len(t) = N
  <2>1. N \in Nat /\ s \in [1..N -> Seq(S)] /\ t \in [1..N -> Seq(S)]  BY DEF AppendsAt
  <2> QED  BY <2>1, RowIs
<1>f. \A u, v \in Seq(S) : (u \o v) \o b = u \o (v \o b)
  <2>1. b \in Seq(S)  BY <1>a
  <2> QED  BY <2>1, ConcatAssociative, SMTT(30)
<1> USE <1>a
<1>1. PICK f : FlattenSeq(s) = f[N] /\ Joins(f, s, N)  BY <1>e, FlattenSeqJoins
<1>2. PICK g : FlattenSeq(t) = g[N] /\ Joins(g, t, N)  BY <1>e, FlattenSeqJoins
<1>3. \A i \in 1..N : f[i] \in Seq(S)  BY <1>b, <1>1, JoinedIsSeq
<1> DEFINE Good == {n \in Nat : n = 0 \/ g[n] = IF n < k THEN f[n] ELSE f[n] \o b}
<1>4. ASSUME NEW n \in 0..(N - 1), n \in Good PROVE n + 1 \in Good
  <2>1. n + 1 \in 1..N /\ n + 1 \in Nat /\ (n + 1) - 1 = n /\ (n # 0 => n \in 1..N /\ n + 1 # 1)
    OBVIOUS
  <2>2. n # 0 => g[n] = IF n < k THEN f[n] ELSE f[n] \o b  BY <1>4
  <2>3. /\ f[n + 1] = IF n = 0 THEN s[n + 1] ELSE f[n] \o s[n + 1]
        /\ g[n + 1] = IF n = 0 THEN t[n + 1] ELSE g[n] \o t[n + 1]
    <3>1. f[n + 1] = IF n = 0 THEN s[n + 1] ELSE f[n] \o s[n + 1]
      BY <1>1, Zenon DEF Joins
    <3>2. g[n + 1] = IF n = 0 THEN t[n + 1] ELSE g[n] \o t[n + 1]
      BY <1>2, Zenon DEF Joins
    <3> QED  BY <3>1, <3>2
  <2>4. s[n + 1] \in Seq(S) /\ (n # 0 => f[n] \in Seq(S))  BY <1>b, <1>3, <2>1
  <2>5. t[n + 1] = IF n + 1 = k THEN s[n + 1] \o b ELSE s[n + 1]  BY <1>d, <2>1
  <2>6. n + 1 > k => s[n + 1] = <<>>  BY <1>c, <2>1
  <2>7. g[n + 1] = IF n + 1 < k THEN f[n + 1] ELSE f[n + 1] \o b
    <3>1. PICK a, c, d : a = f[n] /\ c = s[n + 1] /\ d = g[n]  OBVIOUS
    <3>2. CASE n + 1 < k
      <4>1. n < k /\ n + 1 # k  BY <3>2
      <4> QED  BY <2>2, <2>3, <2>5, <3>2, <4>1
    <3>3. CASE n + 1 = k
      <4>1. n < k /\ ~(n + 1 < k)  BY <3>3
      <4>2. CASE n = 0
        BY <2>3, <2>5, <3>3, <4>1, <4>2
      <4>3. CASE n # 0
        <5>1. g[n + 1] = a \o (c \o b)  BY <2>2, <2>3, <2>5, <3>1, <3>3, <4>1, <4>3
        <5>2. f[n + 1] = a \o c  BY <2>3, <3>1, <4>3
        <5>3. a \in Seq(S) /\ c \in Seq(S) /\ b \in Seq(S)  BY <2>4, <3>1, <4>3
        <5>4. (a \o c) \o b = a \o (c \o b)  BY <1>f, <5>3
        <5> QED  BY <4>1, <5>1, <5>2, <5>4
      <4> QED  BY <4>2, <4>3
    <3>4. CASE n + 1 > k
      <4>1. ~(n < k) /\ n # 0 /\ n + 1 # k /\ ~(n + 1 < k)  BY <3>4
      <4>2. c = <<>> /\ t[n + 1] = <<>>  BY <2>5, <2>6, <3>1, <3>4, <4>1
      <4>3. d = a \o b /\ a \in Seq(S)  BY <2>2, <2>4, <3>1, <4>1
      <4>4. d \in Seq(S)  BY <4>3, ConcatProperties
      <4>5. f[n + 1] = a \o <<>> /\ g[n + 1] = d \o <<>>  BY <2>3, <3>1, <4>1, <4>2
      <4>6. f[n + 1] = a /\ g[n + 1] = d  BY <4>3, <4>4, <4>5, ConcatEmptySeq
      <4> QED  BY <4>1, <4>3, <4>6
    <3> QED  BY <3>2, <3>3, <3>4
  <2> QED  BY <2>1, <2>7
<1>5. 0 \in Good  OBVIOUS
<1> HIDE DEF Good
<1>6. \A n \in 0..N : n \in Good  BY <1>4, <1>5, CountingUp
<1>7. N \in Good /\ N \in Nat /\ N # 0 /\ ~(N < k)  BY <1>6
<1> QED  BY <1>1, <1>2, <1>7 DEF Good

-----------------------------------------------------------------------------
(* The journal: what holds of it, and what is on disk when a file grows.     *)
\* The current file is the last one that has something in it. Those of its day before it are
\* full: no restart goes back to one. Its count is right: it is left when it is full.
NoneAfter(j) ==
    \A f \in FileNames :
        f[1] > j.currentFile[1] \/ (f[1] = j.currentFile[1] /\ f[2] > j.currentFile[2])
            => j.files[f] = <<>>
FullBefore(j) ==
    \A n \in 0..(j.currentFile[2] - 1) : Len(j.files[<<j.currentFile[1], n>>]) >= MaxEventsPerFile
CountIsTrue(j) == j.eventCount = Len(j.files[j.currentFile])
LogInv(j) ==
    /\ j \in Journal /\ j.currentFile[1] <= day
    /\ NoneAfter(j) /\ FullBefore(j) /\ CountIsTrue(j)
Contents(j) == OnDisk(j.files) \o j.buffer

JInv ==
    /\ day \in 1..MaxDay /\ LogInv(journal) /\ JournalInOrder
    /\ life.up \/ journal.buffer = <<>>

LEMMA OfDayIs ==
    ASSUME NEW files \in [FileNames -> Seq(Nat)], NEW d \in 1..MaxDay
    PROVE  OfDay(files, d) \in Seq(Nat)
<1> DEFINE s == [k \in 1..(MaxSeq + 1) |-> files[<<d, k - 1>>]]
<1>1. MaxSeq + 1 \in Nat \ {0}  BY EventLogAssumption
<1>2. ASSUME NEW k \in 1..(MaxSeq + 1) PROVE files[<<d, k - 1>>] \in Seq(Nat)
  <2>1. k - 1 \in 0..MaxSeq  BY EventLogAssumption
  <2>2. <<d, k - 1>> \in FileNames  BY <2>1 DEF FileNames
  <2> QED  BY <2>2
<1>3. s \in [1..(MaxSeq + 1) -> Seq(Nat)]  BY <1>2
<1>4. OfDay(files, d) = FlattenSeq(s)  BY DEF OfDay
<1> HIDE DEF s
<1>5. Len(s) = MaxSeq + 1  BY <1>1, <1>3, RowIs
<1>6. \A k \in 1..(MaxSeq + 1) : s[k] \in Seq(Nat)  BY <1>3
<1> QED  BY <1>1, <1>4, <1>5, <1>6, FlattenedIsSeq

LEMMA OnDiskIs ==
    ASSUME NEW files \in [FileNames -> Seq(Nat)]
    PROVE  OnDisk(files) \in Seq(Nat)
<1> DEFINE s == [d \in 1..MaxDay |-> OfDay(files, d)]
<1>1. MaxDay \in Nat \ {0}  BY EventLogAssumption
<1>2. s \in [1..MaxDay -> Seq(Nat)]  BY OfDayIs
<1>3. OnDisk(files) = FlattenSeq(s)  BY DEF OnDisk
<1> HIDE DEF s
<1>4. Len(s) = MaxDay  BY <1>1, <1>2, RowIs
<1>5. \A d \in 1..MaxDay : s[d] \in Seq(Nat)  BY <1>2
<1> QED  BY <1>1, <1>3, <1>4, <1>5, FlattenedIsSeq

LEMMA OfDayAppended ==
    ASSUME NEW files \in [FileNames -> Seq(Nat)], NEW c \in FileNames, NEW b \in Seq(Nat),
           \A n \in 0..MaxSeq : n > c[2] => files[<<c[1], n>>] = <<>>,
           NEW more, more = [files EXCEPT ![c] = @ \o b]
    PROVE  OfDay(more, c[1]) = OfDay(files, c[1]) \o b
<1> DEFINE N == MaxSeq + 1
           s == [k \in 1..N |-> files[<<c[1], k - 1>>]]
           t == [k \in 1..N |-> more[<<c[1], k - 1>>]]
           p == c[2] + 1
<1>1. N \in Nat \ {0}  BY EventLogAssumption
<1>2. c[1] \in 1..MaxDay /\ c[2] \in 0..MaxSeq /\ c = <<c[1], c[2]>>  BY DEF FileNames
<1>3. p \in 1..N  BY <1>2, EventLogAssumption
<1>4. ASSUME NEW k \in 1..N
      PROVE  /\ <<c[1], k - 1>> \in FileNames
             /\ <<c[1], k - 1>> = c <=> k = p
             /\ k > p => files[<<c[1], k - 1>>] = <<>>
  <2>1. k - 1 \in 0..MaxSeq  BY EventLogAssumption
  <2>2. k - 1 = c[2] <=> k = p  BY <1>2
  <2>3. k > p => k - 1 > c[2]  BY <1>2
  <2> QED  BY <1>2, <2>1, <2>2, <2>3 DEF FileNames
<1>5. more \in [FileNames -> Seq(Nat)]
  <2>1. files[c] \o b \in Seq(Nat)  BY ConcatProperties
  <2> QED  BY <2>1
<1>6. s \in [1..N -> Seq(Nat)] /\ t \in [1..N -> Seq(Nat)]  BY <1>4, <1>5
<1>7. \A k \in 1..N : k > p => s[k] = <<>>  BY <1>4
<1>8. \A k \in 1..N : t[k] = IF k = p THEN s[k] \o b ELSE s[k]
  <2> SUFFICES ASSUME NEW k \in 1..N PROVE t[k] = IF k = p THEN s[k] \o b ELSE s[k]
    OBVIOUS
  <2>1. s[k] = files[<<c[1], k - 1>>] /\ t[k] = more[<<c[1], k - 1>>]  OBVIOUS
  <2> QED  BY <1>4, <2>1
<1>9. OfDay(files, c[1]) = FlattenSeq(s) /\ OfDay(more, c[1]) = FlattenSeq(t)
  BY DEF OfDay
<1> HIDE DEF s, t, p, N
<1>10. AppendsAt(Nat, N, s, t, p, b)  BY <1>1, <1>3, <1>6, <1>7, <1>8 DEF AppendsAt
<1>11. FlattenSeq(t) = FlattenSeq(s) \o b  BY <1>10, JoinedLast
<1> QED  BY <1>9, <1>11

LEMMA OfDayEmpty ==
    ASSUME NEW files \in [FileNames -> Seq(Nat)], NEW d \in 1..MaxDay,
           \A n \in 0..MaxSeq : files[<<d, n>>] = <<>>
    PROVE  OfDay(files, d) = <<>>
<1> DEFINE s == [k \in 1..(MaxSeq + 1) |-> files[<<d, k - 1>>]]
<1>1. MaxSeq + 1 \in Nat \ {0}  BY EventLogAssumption
<1>2. \A k \in 1..(MaxSeq + 1) : k - 1 \in 0..MaxSeq  BY EventLogAssumption
<1>3. \A k \in 1..(MaxSeq + 1) : s[k] = <<>>  BY <1>2
<1>4. s \in [1..(MaxSeq + 1) -> {<<>>}]  BY <1>3
<1>5. OfDay(files, d) = FlattenSeq(s)  BY DEF OfDay
<1> HIDE DEF s
<1>6. Len(s) = MaxSeq + 1  BY <1>1, <1>4, RowIs
<1> QED  BY <1>1, <1>3, <1>5, <1>6, EmptyFlattened

LEMMA OnDiskAppended ==
    ASSUME NEW files \in [FileNames -> Seq(Nat)], NEW c \in FileNames, NEW b \in Seq(Nat),
           \A f \in FileNames :
               f[1] > c[1] \/ (f[1] = c[1] /\ f[2] > c[2]) => files[f] = <<>>,
           NEW more, more = [files EXCEPT ![c] = @ \o b]
    PROVE  OnDisk(more) = OnDisk(files) \o b
<1> DEFINE N == MaxDay
           s == [d \in 1..N |-> OfDay(files, d)]
           t == [d \in 1..N |-> OfDay(more, d)]
           p == c[1]
<1>1. N \in Nat \ {0}  BY EventLogAssumption
<1>2. p \in 1..N /\ c[2] \in 0..MaxSeq  BY DEF FileNames
<1>3. \A d \in 1..N, n \in 0..MaxSeq :
        /\ <<d, n>> \in FileNames
        /\ d > p \/ (d = p /\ n > c[2]) => files[<<d, n>>] = <<>>
  BY DEF FileNames
<1>4. more \in [FileNames -> Seq(Nat)]
  <2>1. files[c] \o b \in Seq(Nat)  BY ConcatProperties
  <2> QED  BY <2>1
<1>5. s \in [1..N -> Seq(Nat)] /\ t \in [1..N -> Seq(Nat)]  BY <1>4, OfDayIs
<1>6. ASSUME NEW d \in 1..N, d > p PROVE s[d] = <<>>
  <2>1. \A n \in 0..MaxSeq : files[<<d, n>>] = <<>>  BY <1>3, <1>6
  <2> QED  BY <2>1, OfDayEmpty
<1>7. ASSUME NEW d \in 1..N PROVE t[d] = IF d = p THEN s[d] \o b ELSE s[d]
  <2>1. CASE d = p
    <3>1. \A n \in 0..MaxSeq : n > c[2] => files[<<c[1], n>>] = <<>>  BY <1>2, <1>3
    <3>2. OfDay(more, c[1]) = OfDay(files, c[1]) \o b  BY <3>1, OfDayAppended
    <3> QED  BY <2>1, <3>2
  <2>2. CASE d # p
    <3>1. \A n \in 0..MaxSeq : more[<<d, n>>] = files[<<d, n>>]
      <4> SUFFICES ASSUME NEW n \in 0..MaxSeq PROVE more[<<d, n>>] = files[<<d, n>>]
        OBVIOUS
      <4>1. <<d, n>> \in FileNames /\ <<d, n>> # c  BY <1>3, <2>2
      <4> QED  BY <4>1
    <3>2. \A k \in 1..(MaxSeq + 1) : k - 1 \in 0..MaxSeq  BY EventLogAssumption
    <3>3. \A k \in 1..(MaxSeq + 1) : more[<<d, k - 1>>] = files[<<d, k - 1>>]
      BY <3>1, <3>2
    <3>4. OfDay(more, d) = OfDay(files, d)  BY <3>3, Zenon DEF OfDay
    <3> QED  BY <2>2, <3>4
  <2> QED  BY <2>1, <2>2
<1>8. OnDisk(files) = FlattenSeq(s) /\ OnDisk(more) = FlattenSeq(t)
  BY DEF OnDisk
<1> HIDE DEF s, t, p, N
<1>9. AppendsAt(Nat, N, s, t, p, b)  BY <1>1, <1>2, <1>5, <1>6, <1>7 DEF AppendsAt
<1>10. FlattenSeq(t) = FlattenSeq(s) \o b  BY <1>9, JoinedLast
<1> QED  BY <1>8, <1>10


-----------------------------------------------------------------------------
(* What the steps of the journal leave.                                      *)

\* A number that is the least of its kind.
LEMMA LeastNumber ==
    ASSUME NEW S \in SUBSET Nat, S # {}
    PROVE  \E m \in S : \A n \in S : m <= n
<1> DEFINE R == {p \in Nat \X Nat : p[1] < p[2]}
<1>1. IsWellFoundedOn(R, Nat)
  BY NatLessThanWellFounded, Zenon DEF OpToRel
<1>2. \A m, n \in Nat : n < m => <<n, m>> \in R
  OBVIOUS
<1> HIDE DEF R
<1>3. PICK m \in S : \A n \in S : ~(<<n, m>> \in R)  BY <1>1, WFMin
<1>4. \A n \in S : ~(n < m)  BY <1>2, <1>3
<1> QED  BY <1>3, <1>4

LEMMA ContentsIs ==
    ASSUME NEW j \in Journal
    PROVE  /\ OnDisk(j.files) \in Seq(Nat) /\ j.buffer \in Seq(Nat)
           /\ Contents(j) \in Seq(Nat)
           /\ Len(Contents(j)) = Len(OnDisk(j.files)) + Len(j.buffer)
<1>1. j.files \in [FileNames -> Seq(Nat)] /\ j.buffer \in Seq(Nat)  BY DEF Journal
<1>2. OnDisk(j.files) \in Seq(Nat)  BY <1>1, OnDiskIs
<1> QED  BY <1>1, <1>2, ConcatProperties DEF Contents

LEMMA LoggedKeeps ==
    ASSUME NEW j, LogInv(j), NEW e \in Nat
    PROVE  LogInv(Logged(j, e)) /\ Contents(Logged(j, e)) = Append(Contents(j), e)
<1> DEFINE k == Logged(j, e)
<1>1. j \in Journal  BY DEF LogInv
<1>2. Append(j.buffer, e) \in Seq(Nat)  BY <1>1, AppendProperties DEF Journal
<1>3. /\ k \in Journal /\ k.buffer = Append(j.buffer, e) /\ k.files = j.files
      /\ k.currentFile = j.currentFile /\ k.eventCount = j.eventCount
  BY <1>1, <1>2 DEF Logged, Journal
<1> HIDE DEF k
<1>4. LogInv(k)  BY <1>3 DEF LogInv, NoneAfter, FullBefore, CountIsTrue
<1>5. PICK d, b : d = OnDisk(j.files) /\ b = j.buffer  OBVIOUS
<1>6. d \in Seq(Nat) /\ b \in Seq(Nat)  BY <1>1, <1>5, ContentsIs
<1>7. d \o Append(b, e) = Append(d \o b, e)
  <2>1. <<e>> \in Seq(Nat)  OBVIOUS
  <2>2. Append(b, e) = b \o <<e>>  BY <1>6, AppendIsConcat
  <2>3. d \o b \in Seq(Nat)  BY <1>6, ConcatProperties
  <2>4. Append(d \o b, e) = (d \o b) \o <<e>>  BY <2>3, AppendIsConcat
  <2>5. (d \o b) \o <<e>> = d \o (b \o <<e>>)  BY <1>6, <2>1, JoinedTwice
  <2> QED  BY <2>2, <2>4, <2>5
<1>8. Contents(k) = Append(Contents(j), e)  BY <1>3, <1>5, <1>7 DEF Contents
<1> QED  BY <1>4, <1>8 DEF k

LEMMA KeptKeeps ==
    ASSUME NEW j, LogInv(j)
    PROVE  LogInv(Kept(j)) /\ Contents(Kept(j)) = Contents(j) /\ Kept(j).buffer = j.buffer
<1> DEFINE k == Kept(j)
<1>1. j \in Journal  BY DEF LogInv
<1>2. /\ k \in Journal /\ k.buffer = j.buffer /\ k.files = j.files
      /\ k.currentFile = j.currentFile /\ k.eventCount = j.eventCount
  BY <1>1 DEF Kept, Journal
<1> HIDE DEF k
<1>3. LogInv(k) /\ Contents(k) = Contents(j)
  BY <1>2 DEF LogInv, NoneAfter, FullBefore, CountIsTrue, Contents
<1> QED  BY <1>2, <1>3 DEF k

LEMMA EmptiedKeeps ==
    ASSUME NEW j, LogInv(j), NEW k, k = [j EXCEPT !.buffer = <<>>, !.armed = FALSE]
    PROVE  LogInv(k) /\ Contents(k) = OnDisk(j.files) /\ k.buffer = <<>>
<1>1. j \in Journal  BY DEF LogInv
<1>2. /\ k \in Journal /\ k.buffer = <<>> /\ k.files = j.files
      /\ k.currentFile = j.currentFile /\ k.eventCount = j.eventCount
  BY <1>1, EmptySeq DEF Journal
<1>3. LogInv(k)  BY <1>2 DEF LogInv, NoneAfter, FullBefore, CountIsTrue
<1>4. OnDisk(j.files) \in Seq(Nat)  BY <1>1, ContentsIs
<1>5. OnDisk(j.files) \o <<>> = OnDisk(j.files)  BY <1>4, ConcatEmptySeq
<1> QED  BY <1>2, <1>3, <1>5 DEF Contents

\* The first file with room is not before the last file that is in use.
LEMMA OpenedKeeps ==
    ASSUME NEW j, LogInv(j), day \in 1..MaxDay,
           \E n \in 1..MaxSeq : j.files[<<day, n>>] = <<>>
    PROVE  LogInv(Opened(j)) /\ Opened(j).files = j.files /\ Opened(j).buffer = <<>>
<1> DEFINE n == FirstWithRoom(j.files)
           k == Opened(j)
           Room == {m \in 0..MaxSeq : Len(j.files[<<day, m>>]) < MaxEventsPerFile}
<1>1. j \in Journal /\ j.files \in [FileNames -> Seq(Nat)] /\ j.currentFile \in FileNames
  BY DEF LogInv, Journal
<1>2. \A m \in 0..MaxSeq : <<day, m>> \in FileNames /\ Len(j.files[<<day, m>>]) \in Nat
  BY <1>1, LenProperties DEF FileNames
<1>3. Room \in SUBSET Nat /\ Room # {}
  <2>1. PICK m \in 1..MaxSeq : j.files[<<day, m>>] = <<>>  OBVIOUS
  <2>2. m \in 0..MaxSeq /\ Len(j.files[<<day, m>>]) = 0  BY <2>1, EmptySeq
  <2>3. m \in Room  BY <2>2, EventLogAssumption
  <2> QED  BY <2>3
<1>4. \E m \in 0..MaxSeq :
         /\ Len(j.files[<<day, m>>]) < MaxEventsPerFile
         /\ \A i \in 0..(m - 1) : Len(j.files[<<day, i>>]) >= MaxEventsPerFile
  <2>1. PICK m \in Room : \A i \in Room : m <= i  BY <1>3, LeastNumber
  <2>2. \A i \in 0..(m - 1) : i \in 0..MaxSeq /\ ~(m <= i)  BY <2>1, EventLogAssumption
  <2>3. \A i \in 0..(m - 1) : ~(Len(j.files[<<day, i>>]) < MaxEventsPerFile)  BY <2>1, <2>2
  <2>4. \A i \in 0..(m - 1) : Len(j.files[<<day, i>>]) >= MaxEventsPerFile
    BY <1>2, <2>2, <2>3, EventLogAssumption
  <2> QED  BY <2>1, <2>4
<1>5. /\ n \in 0..MaxSeq /\ Len(j.files[<<day, n>>]) < MaxEventsPerFile
      /\ \A i \in 0..(n - 1) : Len(j.files[<<day, i>>]) >= MaxEventsPerFile
  BY <1>4 DEF FirstWithRoom
<1> HIDE DEF n
<1>6. /\ k \in Journal /\ k.currentFile = <<day, n>> /\ k.eventCount = Len(j.files[<<day, n>>])
      /\ k.files = j.files /\ k.buffer = <<>>
  BY <1>1, <1>2, <1>5, EmptySeq DEF Opened, Journal, n
<1> HIDE DEF k
<1>7. NoneAfter(k)
  <2> SUFFICES ASSUME NEW f \in FileNames, f[1] > day \/ (f[1] = day /\ f[2] > n)
               PROVE  j.files[f] = <<>>
    BY <1>6 DEF NoneAfter
  <2>1. j.currentFile[1] \in Nat /\ j.currentFile[2] \in 0..MaxSeq /\ f[1] \in Nat /\ f[2] \in Nat
    BY <1>1 DEF FileNames
  <2>2. j.currentFile[1] <= day  BY DEF LogInv
  <2>3. j.currentFile[1] = day => j.currentFile[2] <= n
    <3> SUFFICES ASSUME j.currentFile[1] = day, ~(j.currentFile[2] <= n) PROVE FALSE
      OBVIOUS
    <3>1. n \in 0..(j.currentFile[2] - 1)  BY <1>5, <2>1
    <3>2. Len(j.files[<<day, n>>]) >= MaxEventsPerFile  BY <3>1 DEF LogInv, FullBefore
    <3> QED  BY <1>2, <1>5, <3>2, EventLogAssumption
  <2>4. f[1] > j.currentFile[1] \/ (f[1] = j.currentFile[1] /\ f[2] > j.currentFile[2])
    BY <1>5, <2>1, <2>2, <2>3
  <2> QED  BY <2>4 DEF LogInv, NoneAfter
<1>8. FullBefore(k)  BY <1>5, <1>6 DEF FullBefore
<1>9. CountIsTrue(k) /\ k.currentFile[1] <= day  BY <1>6 DEF CountIsTrue
<1> QED  BY <1>6, <1>7, <1>8, <1>9 DEF LogInv, k

\* flush writes the buffer to the end of what is on disk.
Written(j) == [j EXCEPT !.files[j.currentFile] = @ \o j.buffer,
                        !.eventCount = @ + Len(j.buffer), !.buffer = <<>>, !.armed = FALSE]

LEMMA WrittenKeeps ==
    ASSUME NEW j, LogInv(j)
    PROVE  LET k == Written(j)
           IN  /\ LogInv(k) /\ Contents(k) = Contents(j) /\ k.buffer = <<>>
               /\ k.currentFile = j.currentFile
               /\ \A f \in FileNames : f # j.currentFile => k.files[f] = j.files[f]
<1> DEFINE k == Written(j)
           c == j.currentFile
<1>1. /\ j \in Journal /\ j.files \in [FileNames -> Seq(Nat)] /\ c \in FileNames
      /\ j.buffer \in Seq(Nat) /\ j.eventCount \in Nat
  BY DEF LogInv, Journal
<1>2. j.files[c] \in Seq(Nat)  BY <1>1
<1>3. /\ j.files[c] \o j.buffer \in Seq(Nat) /\ Len(j.buffer) \in Nat /\ Len(j.files[c]) \in Nat
      /\ Len(j.files[c] \o j.buffer) = Len(j.files[c]) + Len(j.buffer)
  BY <1>1, <1>2, ConcatProperties, LenProperties
<1>4. PICK more : more = [j.files EXCEPT ![c] = @ \o j.buffer]  OBVIOUS
<1>5. more \in [FileNames -> Seq(Nat)]  BY <1>1, <1>3, <1>4
<1>6. /\ k \in Journal /\ k.files = more /\ k.currentFile = c
      /\ k.eventCount = j.eventCount + Len(j.buffer) /\ k.buffer = <<>>
  <2>1. k = [j EXCEPT !.files = more, !.eventCount = @ + Len(j.buffer), !.buffer = <<>>,
                      !.armed = FALSE]
    BY <1>1, <1>4 DEF Written, Journal
  <2>2. j.eventCount + Len(j.buffer) \in Nat  BY <1>1, <1>3
  <2> HIDE DEF k
  <2> QED  BY <1>1, <1>5, <2>1, <2>2, EmptySeq DEF Journal
<1> HIDE DEF k
<1>7. /\ more[c] = j.files[c] \o j.buffer
      /\ \A f \in FileNames : f # c => more[f] = j.files[f]
  BY <1>1, <1>4
<1>8. CountIsTrue(k)  BY <1>3, <1>6, <1>7 DEF LogInv, CountIsTrue
<1>9. NoneAfter(k)
  <2> SUFFICES ASSUME NEW f \in FileNames, f[1] > c[1] \/ (f[1] = c[1] /\ f[2] > c[2])
               PROVE  more[f] = <<>>
    BY <1>6 DEF NoneAfter
  <2>1. f[1] \in Nat /\ f[2] \in Nat /\ c[1] \in Nat /\ c[2] \in Nat
    BY <1>1, EventLogAssumption DEF FileNames
  <2>2. f # c  BY <2>1
  <2>3. j.files[f] = <<>>  BY DEF LogInv, NoneAfter
  <2> QED  BY <1>7, <2>2, <2>3
<1>10. FullBefore(k)
  <2> SUFFICES ASSUME NEW n \in 0..(c[2] - 1)
               PROVE  Len(more[<<c[1], n>>]) >= MaxEventsPerFile
    BY <1>6 DEF FullBefore
  <2>1. c[1] \in 1..MaxDay /\ c[2] \in 0..MaxSeq  BY <1>1 DEF FileNames
  <2>2. n \in 0..MaxSeq /\ n # c[2]  BY <2>1, EventLogAssumption
  <2>3. <<c[1], n>> \in FileNames /\ <<c[1], n>> # c  BY <2>1, <2>2 DEF FileNames
  <2>4. Len(j.files[<<c[1], n>>]) >= MaxEventsPerFile  BY DEF LogInv, FullBefore
  <2> QED  BY <1>7, <2>3, <2>4
<1>11. Contents(k) = Contents(j)
  <2>1. \A f \in FileNames : f[1] > c[1] \/ (f[1] = c[1] /\ f[2] > c[2]) => j.files[f] = <<>>
    BY DEF LogInv, NoneAfter
  <2>2. OnDisk(more) = OnDisk(j.files) \o j.buffer
    <3>1. PICK fs, b, d : fs = j.files /\ b = j.buffer /\ d = c  OBVIOUS
    <3>2. fs \in [FileNames -> Seq(Nat)] /\ d \in FileNames /\ b \in Seq(Nat)  BY <1>1, <3>1
    <3>3. \A f \in FileNames : f[1] > d[1] \/ (f[1] = d[1] /\ f[2] > d[2]) => fs[f] = <<>>
      BY <2>1, <3>1
    <3>4. more = [fs EXCEPT ![d] = @ \o b]  BY <1>4, <3>1
    <3>5. OnDisk(more) = OnDisk(fs) \o b  BY <3>2, <3>3, <3>4, OnDiskAppended
    <3> QED  BY <3>1, <3>5
  <2>3. OnDisk(more) \in Seq(Nat)  BY <1>5, OnDiskIs
  <2>4. OnDisk(more) \o <<>> = OnDisk(more)  BY <2>3, ConcatEmptySeq
  <2> QED  BY <1>6, <2>2, <2>4 DEF Contents
<1>12. LogInv(k)  BY <1>6, <1>8, <1>9, <1>10 DEF LogInv
<1> QED  BY <1>6, <1>7, <1>11, <1>12 DEF k

\* The next file is after the last one that is in use, and those between are full.
LEMMA RotatedKeeps ==
    ASSUME NEW j, LogInv(j), day \in 1..MaxDay,
           Len(j.files[j.currentFile]) >= MaxEventsPerFile,
           \E n \in 1..MaxSeq : j.files[<<day, n>>] = <<>>
    PROVE  /\ LogInv(Rotated(j))
           /\ Rotated(j).files = j.files /\ Rotated(j).buffer = j.buffer
<1> DEFINE k == Rotated(j)
           c == j.currentFile
<1>1. /\ j \in Journal /\ j.files \in [FileNames -> Seq(Nat)]
      /\ c[1] \in 1..MaxDay /\ c[2] \in 0..MaxSeq /\ c = <<c[1], c[2]>> /\ c[1] <= day
  BY DEF LogInv, Journal, FileNames
<1>2. \A n \in 0..MaxSeq : <<day, n>> \in FileNames /\ <<c[1], n>> \in FileNames
  BY <1>1 DEF FileNames
<1>3. Len(<<>>) = 0 /\ 0 \in 0..MaxSeq /\ MaxEventsPerFile \in Nat \ {0} /\ MaxSeq \in Nat
  BY EmptySeq, EventLogAssumption
<1>4. ASSUME NEW n \in 0..MaxSeq, j.files[<<day, n>>] = <<>>,
             k.currentFile = <<day, n>>, k \in Journal, k.files = j.files, k.eventCount = 0,
             day = c[1] => n > c[2],
             \A m \in 0..(n - 1) : Len(j.files[<<day, m>>]) >= MaxEventsPerFile
      PROVE  LogInv(k)
  <2> HIDE DEF k
  <2>1. CountIsTrue(k) /\ k.currentFile[1] <= day  BY <1>3, <1>4 DEF CountIsTrue
  <2>2. FullBefore(k)  BY <1>4 DEF FullBefore
  <2>3. NoneAfter(k)
    <3> SUFFICES ASSUME NEW f \in FileNames, f[1] > day \/ (f[1] = day /\ f[2] > n)
                 PROVE  j.files[f] = <<>>
      BY <1>4 DEF NoneAfter
    <3>1. f[1] \in Nat /\ f[2] \in Nat  BY EventLogAssumption DEF FileNames
    <3>2. f[1] > c[1] \/ (f[1] = c[1] /\ f[2] > c[2])
      <4>1. PICK a, b : a = c[1] /\ b = c[2]  OBVIOUS
      <4>2. a \in Nat /\ b \in Nat /\ a <= day /\ day \in Nat /\ (day = a => n > b)
        BY <1>1, <1>4, <4>1, EventLogAssumption
      <4>3. f[1] > a \/ (f[1] = a /\ f[2] > b)  BY <3>1, <4>2
      <4> QED  BY <4>1, <4>3
    <3> QED  BY <3>2 DEF LogInv, NoneAfter
  <2> QED  BY <1>4, <2>1, <2>2, <2>3 DEF LogInv
<1>5. CASE day # c[1]
  <2>1. /\ k \in Journal /\ k.currentFile = <<day, 0>> /\ k.files = j.files
        /\ k.eventCount = 0 /\ k.buffer = j.buffer
    BY <1>1, <1>2, <1>3, <1>5 DEF Rotated, Journal
  <2>2. day > c[1]  BY <1>1, <1>5
  <2>3. j.files[<<day, 0>>] = <<>>  BY <1>2, <1>3, <2>2 DEF LogInv, NoneAfter
  <2>4. \A m \in 0..(0 - 1) : Len(j.files[<<day, m>>]) >= MaxEventsPerFile  OBVIOUS
  <2> HIDE DEF k
  <2>5. LogInv(k)  BY <1>3, <1>4, <1>5, <2>1, <2>3, <2>4
  <2> QED  BY <2>1, <2>5 DEF k
<1>6. CASE day = c[1]
  <2> DEFINE n == FirstUnused(j.files)
             Unused == {m \in 1..MaxSeq : j.files[<<day, m>>] = <<>>}
  <2>1. \E m \in 1..MaxSeq :
          j.files[<<day, m>>] = <<>> /\ \A i \in 1..(m - 1) : j.files[<<day, i>>] # <<>>
    <3>1. Unused \in SUBSET Nat /\ Unused # {}  OBVIOUS
    <3>2. PICK m \in Unused : \A i \in Unused : m <= i  BY <3>1, LeastNumber
    <3>3. \A i \in 1..(m - 1) : i \in 1..MaxSeq /\ ~(m <= i)  BY <1>3, <3>2
    <3>4. \A i \in 1..(m - 1) : j.files[<<day, i>>] # <<>>  BY <3>2, <3>3
    <3> QED  BY <3>2, <3>4
  <2>2. /\ n \in 1..MaxSeq /\ j.files[<<day, n>>] = <<>>
        /\ \A i \in 1..(n - 1) : j.files[<<day, i>>] # <<>>
    BY <2>1 DEF FirstUnused
  <2> HIDE DEF n
  <2>3. n \in 0..MaxSeq  BY <2>2
  <2>4. /\ k \in Journal /\ k.currentFile = <<day, n>> /\ k.files = j.files
        /\ k.eventCount = 0 /\ k.buffer = j.buffer
    BY <1>1, <1>2, <1>6, <2>3 DEF Rotated, Journal, n
  <2>5. \A m \in 0..c[2] : Len(j.files[<<day, m>>]) >= MaxEventsPerFile
    <3> SUFFICES ASSUME NEW m \in 0..c[2]
                 PROVE  Len(j.files[<<day, m>>]) >= MaxEventsPerFile
      OBVIOUS
    <3>1. CASE m = c[2]
      <4>1. <<day, m>> = j.currentFile  BY <1>1, <1>6, <3>1
      <4> QED  BY <4>1
    <3>2. CASE m # c[2]
      <4>1. m \in 0..(c[2] - 1)  BY <1>1, <3>2
      <4> QED  BY <1>6, <4>1 DEF LogInv, FullBefore
    <3> QED  BY <3>1, <3>2
  <2>6. n > c[2]
    <3> SUFFICES ASSUME ~(n > c[2]) PROVE FALSE
      OBVIOUS
    <3>1. n \in 0..c[2]  BY <1>1, <2>3
    <3>2. Len(j.files[<<day, n>>]) >= MaxEventsPerFile  BY <2>5, <3>1
    <3> QED  BY <1>3, <2>2, <3>2
  <2>7. \A m \in 0..(n - 1) : Len(j.files[<<day, m>>]) >= MaxEventsPerFile
    <3> SUFFICES ASSUME NEW m \in 0..(n - 1), m \notin 0..c[2] PROVE FALSE
      BY <2>5
    <3>1. m > c[2] /\ m \in 1..(n - 1) /\ m \in 0..MaxSeq  BY <1>1, <1>3, <2>2
    <3>2. j.files[<<day, m>>] = <<>>
      BY <1>1, <1>2, <1>6, <3>1 DEF LogInv, NoneAfter
    <3> QED  BY <2>2, <3>1, <3>2
  <2> HIDE DEF k
  <2>8. LogInv(k)  BY <1>4, <2>2, <2>3, <2>4, <2>6, <2>7
  <2> QED  BY <2>4, <2>8 DEF k
<1> QED  BY <1>5, <1>6

LEMMA DrainedKeeps ==
    ASSUME NEW j, LogInv(j), day \in 1..MaxDay,
           \E n \in 1..MaxSeq : j.files[<<day, n>>] = <<>> /\ <<day, n>> # j.currentFile
    PROVE  LogInv(Drained(j)) /\ Contents(Drained(j)) = Contents(j) /\ Drained(j).buffer = <<>>
<1>1. PICK k : k = Written(j)  OBVIOUS
<1>2. /\ LogInv(k) /\ Contents(k) = Contents(j) /\ k.buffer = <<>>
      /\ k.currentFile = j.currentFile
      /\ \A f \in FileNames : f # j.currentFile => k.files[f] = j.files[f]
  BY <1>1, WrittenKeeps
<1>3. Drained(j) = IF j.buffer = <<>> THEN Kept(j)
                   ELSE IF k.eventCount >= MaxEventsPerFile THEN Rotated(k) ELSE k
  BY <1>1 DEF Drained, Written, Kept
<1>4. CASE j.buffer = <<>>
  BY <1>3, <1>4, KeptKeeps
<1>5. CASE j.buffer # <<>> /\ k.eventCount >= MaxEventsPerFile
  <2>1. PICK n \in 1..MaxSeq : j.files[<<day, n>>] = <<>> /\ <<day, n>> # j.currentFile
    OBVIOUS
  <2>2. <<day, n>> \in FileNames  BY EventLogAssumption DEF FileNames
  <2>3. \E i \in 1..MaxSeq : k.files[<<day, i>>] = <<>>  BY <1>2, <2>1, <2>2
  <2>4. Len(k.files[k.currentFile]) >= MaxEventsPerFile  BY <1>2, <1>5 DEF LogInv, CountIsTrue
  <2>5. /\ LogInv(Rotated(k))
        /\ Rotated(k).files = k.files /\ Rotated(k).buffer = k.buffer
    BY <1>2, <2>3, <2>4, RotatedKeeps
  <2>6. Contents(Rotated(k)) = Contents(k)  BY <2>5 DEF Contents
  <2> QED  BY <1>2, <1>3, <1>5, <2>5, <2>6
<1>6. CASE j.buffer # <<>> /\ ~(k.eventCount >= MaxEventsPerFile)
  BY <1>2, <1>3, <1>6
<1> QED  BY <1>4, <1>5, <1>6

\* The journal after a step: k.
LEMMA JournalIs ==
    ASSUME NEW k, LogInv(k), journal' = k, Contents(k) = events', day \in 1..MaxDay, day' = day,
           life'.up \/ k.buffer = <<>>
    PROVE  JInv'
<1>1. LogInv(journal)'  BY DEF LogInv, NoneAfter, FullBefore, CountIsTrue
<1>2. JournalInOrder'  BY DEF JournalInOrder, Contents
<1> QED  BY <1>1, <1>2 DEF JInv

LEMMA LogEventKeeps ==
    ASSUME JInv, LogEvent, life.up, UNCHANGED <<day, life>>
    PROVE  JInv'
<1>1. PICK j, w : j = journal /\ w = events  OBVIOUS
<1>2. LogInv(j) /\ Contents(j) = w /\ j \in Journal  BY <1>1 DEF JInv, JournalInOrder, Contents, LogInv
<1>3. w \in Seq(Nat)  BY <1>2, ContentsIs
<1>4. PICK e : e = Len(w) + 1  OBVIOUS
<1>5. e \in Nat  BY <1>3, <1>4, LenProperties
<1>6. PICK k : k = Logged(j, e)  OBVIOUS
<1>7. LogInv(k) /\ Contents(k) = Append(w, e)  BY <1>2, <1>5, <1>6, LoggedKeeps
<1>8. journal' = k /\ events' = Append(w, e)  BY <1>1, <1>4, <1>6 DEF LogEvent
<1> QED  BY <1>7, <1>8, JournalIs DEF JInv

LEMMA SubSeqJoin ==
    ASSUME NEW v \in Seq(Nat), NEW w \in Seq(Nat)
    PROVE  SubSeq(v \o w, 1, Len(v \o w) - Len(w)) = v
<1>1. PICK x, n : x = v \o w /\ n = Len(v)  OBVIOUS
<1>2. /\ x \in Seq(Nat) /\ Len(x) = n + Len(w) /\ n \in Nat /\ Len(w) \in Nat
      /\ \A i \in 1..n : x[i] = v[i]
  <2>1. /\ v \o w \in Seq(Nat) /\ Len(v \o w) = Len(v) + Len(w)
        /\ \A i \in 1..(Len(v) + Len(w)) : (v \o w)[i] =
             IF i <= Len(v) THEN v[i] ELSE w[i - Len(v)]
    BY ConcatProperties
  <2>2. Len(v) \in Nat /\ Len(w) \in Nat  BY LenProperties
  <2>3. \A i \in 1..n : i \in 1..(Len(v) + Len(w)) /\ i <= Len(v)  BY <1>1, <2>2
  <2> QED  BY <1>1, <2>1, <2>2, <2>3
<1>3. Len(x) - Len(w) = n  BY <1>2
<1>4. \A i \in 1..n : x[i] \in Nat  BY <1>1, <1>2, ElementOfSeq
<1>5. PICK y : y = SubSeq(x, 1, n)  OBVIOUS
<1>6. /\ y \in Seq(Nat) /\ Len(y) = IF 1 <= n THEN n - 1 + 1 ELSE 0
      /\ \A i \in 1..(n - 1 + 1) : y[i] = x[1 + i - 1]
  BY <1>2, <1>4, <1>5, SubSeqProperties
<1>7. Len(y) = n  BY <1>2, <1>6
<1>8. \A i \in 1..n : y[i] = v[i]
  <2> SUFFICES ASSUME NEW i \in 1..n PROVE y[i] = v[i]
    OBVIOUS
  <2>1. i \in 1..(n - 1 + 1) /\ 1 + i - 1 = i  BY <1>2
  <2>2. y[i] = x[i]  BY <1>6, <2>1
  <2> QED  BY <1>2, <2>2
<1>9. y = v  BY <1>1, <1>6, <1>7, <1>8, SeqEqual
<1> QED  BY <1>1, <1>3, <1>5, <1>9

LEMMA EndKeepsJournal ==
    ASSUME JInv, NEW j, LogInv(j), Contents(j) = events,
           journal' = [j EXCEPT !.buffer = <<>>, !.armed = FALSE],
           events' = SubSeq(events, 1, Len(events) - Len(j.buffer)), day' = day
    PROVE  JInv'
<1>1. PICK k : k = [j EXCEPT !.buffer = <<>>, !.armed = FALSE]  OBVIOUS
<1>2. LogInv(k) /\ Contents(k) = OnDisk(j.files) /\ k.buffer = <<>>  BY <1>1, EmptiedKeeps
<1>3. PICK v, w : v = OnDisk(j.files) /\ w = j.buffer  OBVIOUS
<1>4. v \in Seq(Nat) /\ w \in Seq(Nat)  BY <1>3, ContentsIs DEF LogInv
<1>5. events = v \o w  BY <1>3 DEF Contents
<1>6. events' = v  BY <1>3, <1>4, <1>5, SubSeqJoin
<1> QED  BY <1>1, <1>2, <1>3, <1>6, JournalIs DEF JInv

-----------------------------------------------------------------------------
(* The steps of the stores.                                                  *)
LEMMA JournalStarts == Init => JInv
<1> SUFFICES ASSUME Init PROVE JInv
  OBVIOUS
<1>1. /\ day = 1 /\ life.up /\ events = <<>>
      /\ journal = [files |-> [f \in FileNames |-> <<>>], currentFile |-> <<1, 0>>,
                    eventCount |-> 0, buffer |-> <<>>, armed |-> FALSE]
  BY DEF Init, EventLogInit
<1>2. PICK fs : fs = [f \in FileNames |-> <<>>]  OBVIOUS
<1>3. /\ <<>> \in Seq(Nat) /\ Len(<<>>) = 0 /\ <<1, 0>> \in FileNames
      /\ MaxDay \in Nat \ {0} /\ MaxSeq \in Nat /\ day \in 1..MaxDay
  BY <1>1, EmptySeq, EventLogAssumption DEF FileNames
<1>4. fs \in [FileNames -> Seq(Nat)] /\ \A f \in FileNames : fs[f] = <<>>  BY <1>2, <1>3
<1>5. journal \in Journal  BY <1>1, <1>2, <1>3, <1>4 DEF Journal
<1>6. /\ journal.files = fs /\ journal.currentFile = <<1, 0>> /\ journal.eventCount = 0
      /\ journal.buffer = <<>>
  BY <1>1, <1>2
<1>7. LogInv(journal)
  BY <1>1, <1>3, <1>4, <1>5, <1>6 DEF LogInv, NoneAfter, FullBefore, CountIsTrue
<1>8. OnDisk(fs) = <<>>
  <2>1. \A d \in 1..MaxDay, n \in 0..MaxSeq : <<d, n>> \in FileNames  BY DEF FileNames
  <2>2. \A d \in 1..MaxDay : OfDay(fs, d) = <<>>  BY <1>4, <2>1, OfDayEmpty
  <2>3. PICK s : s = [d \in 1..MaxDay |-> OfDay(fs, d)]  OBVIOUS
  <2>4. s \in [1..MaxDay -> {<<>>}] /\ \A d \in 1..MaxDay : s[d] = <<>>  BY <2>2, <2>3
  <2>5. Len(s) = MaxDay  BY <1>3, <2>4, RowIs
  <2>6. FlattenSeq(s) = <<>>  BY <1>3, <2>4, <2>5, EmptyFlattened
  <2> QED  BY <2>3, <2>6 DEF OnDisk
<1>9. <<>> \o <<>> = <<>>  BY EmptySeq, ConcatEmptySeq
<1>10. JournalInOrder  BY <1>1, <1>6, <1>8, <1>9 DEF JournalInOrder
<1> QED  BY <1>1, <1>3, <1>7, <1>10 DEF JInv

LEMMA JournalUntouched ==
    ASSUME JInv, UNCHANGED <<journal, day, events>>, life' = life \/ journal.buffer = <<>>
    PROVE  JInv'
<1>1. PICK k : k = journal  OBVIOUS
<1>2. LogInv(k) /\ Contents(k) = events'  BY <1>1 DEF JInv, JournalInOrder, Contents
<1> QED  BY <1>1, <1>2, JournalIs DEF JInv

\* A flush, or one that failed.
LEMMA FlushKeepsJournal ==
    ASSUME JInv, UNCHANGED <<day, events, life>>,
           (NumberLeft /\ journal' = Drained(journal)) \/ journal' = Kept(journal)
    PROVE  JInv'
<1>1. PICK j : j = journal  OBVIOUS
<1>2. LogInv(j) /\ Contents(j) = events' /\ day \in 1..MaxDay
  BY <1>1 DEF JInv, JournalInOrder, Contents
<1>3. CASE NumberLeft /\ journal' = Drained(journal)
  <2>1. \E n \in 1..MaxSeq : j.files[<<day, n>>] = <<>> /\ <<day, n>> # j.currentFile
    BY <1>1, <1>3 DEF NumberLeft
  <2>2. PICK k : k = Drained(j)  OBVIOUS
  <2>3. LogInv(k) /\ Contents(k) = Contents(j) /\ k.buffer = <<>>
    BY <1>2, <2>1, <2>2, DrainedKeeps
  <2>4. journal' = k  BY <1>1, <1>3, <2>2
  <2> QED  BY <1>2, <2>3, <2>4, JournalIs
<1>4. CASE journal' = Kept(journal)
  <2>1. PICK k : k = Kept(j)  OBVIOUS
  <2>2. LogInv(k) /\ Contents(k) = Contents(j) /\ k.buffer = j.buffer
    BY <1>2, <2>1, KeptKeeps
  <2>3. journal' = k  BY <1>1, <1>4, <2>1
  <2>4. life'.up \/ k.buffer = <<>>  BY <1>1, <2>2 DEF JInv
  <2> QED  BY <1>2, <2>2, <2>3, <2>4, JournalIs
<1> QED  BY <1>3, <1>4

LEMMA MidnightKeepsJournal ==
    ASSUME JInv, Midnight
    PROVE  JInv'
<1>1. /\ day' = day + 1 /\ day < MaxDay /\ day \in 1..MaxDay /\ MaxDay \in Nat
      /\ UNCHANGED <<journal, life, events>>
  BY EventLogAssumption DEF Midnight, NextDay, JInv
<1>2. day' \in 1..MaxDay  BY <1>1
<1>3. journal.currentFile[1] \in 1..MaxDay  BY DEF JInv, LogInv, Journal, FileNames
<1>4. journal.currentFile[1] <= day'  BY <1>1, <1>3 DEF JInv, LogInv
<1>5. LogInv(journal)'
  BY <1>1, <1>4 DEF JInv, LogInv, NoneAfter, FullBefore, CountIsTrue
<1>6. JournalInOrder'  BY <1>1 DEF JInv, JournalInOrder
<1> QED  BY <1>1, <1>2, <1>5, <1>6 DEF JInv

LEMMA DisposeKeepsJournal ==
    ASSUME JInv, Dispose
    PROVE  JInv'
<1>1. PICK j : j = journal  OBVIOUS
<1>2. LogInv(j) /\ Contents(j) = events /\ day \in 1..MaxDay
  BY <1>1 DEF JInv, JournalInOrder, Contents
<1>3. \E n \in 1..MaxSeq : j.files[<<day, n>>] = <<>> /\ <<day, n>> # j.currentFile
  BY <1>1 DEF Dispose, NumberLeft
<1>4. PICK k : k = Drained(j)  OBVIOUS
<1>5. LogInv(k) /\ Contents(k) = events  BY <1>2, <1>3, <1>4, DrainedKeeps
<1>6. /\ journal' = [k EXCEPT !.buffer = <<>>, !.armed = FALSE]
      /\ events' = SubSeq(events, 1, Len(events) - Len(k.buffer)) /\ day' = day
  BY <1>1, <1>4 DEF Dispose, Ends
<1> QED  BY <1>5, <1>6, EndKeepsJournal

LEMMA CrashKeepsJournal ==
    ASSUME JInv, Crash \/ DisposeFails
    PROVE  JInv'
<1>1. PICK j : j = journal  OBVIOUS
<1>2. LogInv(j) /\ Contents(j) = events  BY <1>1 DEF JInv, JournalInOrder, Contents
<1>3. /\ journal' = [j EXCEPT !.buffer = <<>>, !.armed = FALSE]
      /\ events' = SubSeq(events, 1, Len(events) - Len(j.buffer)) /\ day' = day
  BY <1>1 DEF Crash, DisposeFails, Ends
<1> QED  BY <1>2, <1>3, EndKeepsJournal

LEMMA RestartKeepsJournal ==
    ASSUME JInv, Restart
    PROVE  JInv'
<1>1. PICK j : j = journal  OBVIOUS
<1>2. /\ LogInv(j) /\ Contents(j) = events /\ day \in 1..MaxDay /\ j.buffer = <<>>
      /\ events' = events /\ day' = day
  BY <1>1 DEF JInv, JournalInOrder, Contents, Restart
<1>3. \E n \in 1..MaxSeq : j.files[<<day, n>>] = <<>>
  BY <1>1 DEF Restart, NumberLeft
<1>4. PICK k : k = Opened(j)  OBVIOUS
<1>5. LogInv(k) /\ k.files = j.files /\ k.buffer = <<>>
  BY <1>2, <1>3, <1>4, OpenedKeeps
<1>6. Contents(k) = events'  BY <1>2, <1>5 DEF Contents
<1>7. journal' = k  BY <1>1, <1>4 DEF Restart
<1> QED  BY <1>2, <1>5, <1>6, <1>7, JournalIs

LEMMA JournalKeeps == JInv /\ [Next]_vars => JInv'
<1> SUFFICES ASSUME JInv, [Next]_vars PROVE JInv'
  OBVIOUS
<1>1. ASSUME NEW t \in Tasks, StartTask(t) PROVE JInv'
  BY <1>1, LogEventKeeps DEF StartTask
<1>2. ASSUME NEW t \in Tasks, FinishTask(t) PROVE JInv'
  BY <1>2, LogEventKeeps DEF FinishTask
<1>3. ASSUME NEW t \in Tasks, FailTask(t) PROVE JInv'
  BY <1>3, LogEventKeeps DEF FailTask
<1>4. ASSUME NEW t \in Tasks, CancelTask(t) PROVE JInv'
  BY <1>4, LogEventKeeps DEF CancelTask
<1>5. CASE SetCwd
  BY <1>5, LogEventKeeps DEF SetCwd
<1>6. ASSUME NEW t \in Tasks, OutputTimer(t) PROVE JInv'
  BY <1>6, JournalUntouched DEF OutputTimer
<1>7. ASSUME NEW t \in Tasks, NEW s \in Streams, NEW n \in 1..2, StreamOutput(t, s, n)
      PROVE  JInv'
  BY <1>7, JournalUntouched DEF StreamOutput
<1>8. ASSUME NEW t \in Tasks, NEW mode \in {"tail", "full"}, ReadOutput(t, mode) PROVE JInv'
  BY <1>8, JournalUntouched DEF ReadOutput
<1>9. CASE CwdTimer \/ EvictTimer \/ UNCHANGED vars
  BY <1>9, JournalUntouched DEF CwdTimer, EvictTimer, Leave, vars
<1>10. CASE ReadEvents
  BY <1>10, FlushKeepsJournal DEF ReadEvents, GetRecent
<1>11. CASE EventTimer
  BY <1>11, FlushKeepsJournal DEF EventTimer, FlushEvents, FlushEventsFails
<1>12. CASE Midnight  BY <1>12, MidnightKeepsJournal
<1>13. CASE Dispose  BY <1>13, DisposeKeepsJournal
<1>14. CASE Crash \/ DisposeFails  BY <1>14, CrashKeepsJournal
<1>15. CASE Restart  BY <1>15, RestartKeepsJournal
<1> QED
  BY <1>1, <1>2, <1>3, <1>4, <1>5, <1>6, <1>7, <1>8, <1>9, <1>10, <1>11, <1>12, <1>13, <1>14,
     <1>15 DEF Next

\* JournalInOrder holds for every sequence of events, flushes, failed writes, days and restarts:
\* nothing that was flushed is lost, doubled or moved by a rotation or a restart.
THEOREM JournalKept == Spec => []JournalInOrder
<1>1. JInv => JournalInOrder  BY DEF JInv
<1> QED  BY <1>1, JournalStarts, JournalKeeps, PTL DEF Spec
=============================================================================
