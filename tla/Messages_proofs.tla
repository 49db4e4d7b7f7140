---------------------------- MODULE Messages_proofs ----------------------------
(***************************************************************************)
(* Lemmas about what the conversations are built with: sequences laid one  *)
(* behind the other (FlattenSeq), filtered sequences, what is mapped from  *)
(* each element of a sequence (FlatMap), sums (Total, Chars), and messages *)
(* whose results follow their calls.                                       *)
(***************************************************************************)
EXTENDS Messages, SequenceTheorems, WellFoundedInduction, TLAPS

\* Induction from 1 to n, with the set of the numbers that what is to be proved holds for.
LEMMA CountingUp ==
  ASSUME NEW n \in Nat, NEW G,
         n >= 1 => 1 \in G,
         \A m \in 2..n : m - 1 \in G => m \in G
  PROVE  \A m \in 1..n : m \in G
<1> DEFINE Bad == {m \in 1..n : m \notin G}
           R   == OpToRel(<, Nat)
<1> SUFFICES ASSUME Bad # {} PROVE FALSE
  OBVIOUS
<1>1. Bad \in SUBSET Nat
  OBVIOUS
<1>2. IsWellFoundedOn(R, Nat)
  BY NatLessThanWellFounded
<1> HIDE DEF R, Bad
<1>3. PICK p \in Bad : \A q \in Bad : ~ (<<q, p>> \in R)
  BY <1>1, <1>2, WFMin
<1>4. \A q \in Bad : ~ (q < p)
  BY <1>1, <1>3 DEF R, OpToRel
<1>5. p \in 1..n /\ p \notin G
  BY DEF Bad
<1>6. p \in 2..n /\ p - 1 \in 1..n /\ p - 1 < p
  BY <1>5
<1>7. p - 1 \in G
  BY <1>4, <1>6 DEF Bad
<1> QED
  BY <1>5, <1>6, <1>7

-------------------------------------------------------------------------------
(* FlattenSeq. *)

\* The recursive function that FlattenSeq is defined by exists: its m-th value is the
\* first m sequences, one behind the other.
LEMMA FlattenFunction ==
  ASSUME NEW S, NEW seqs \in Seq(Seq(S)), seqs # << >>
  PROVE  \E f \in [1..Len(seqs) -> Seq(S)] :
           /\ FlattenSeq(seqs) = f[Len(seqs)]
           /\ f[1] = seqs[1]
           /\ \A i \in 2..Len(seqs) : f[i] = f[i-1] \o seqs[i]
<1> DEFINE n == Len(seqs)
           Step(g, m) == \A i \in 1..m : g[i] = IF i = 1 THEN seqs[i] ELSE g[i-1] \o seqs[i]
           Good(m) == \E g \in [1..m -> Seq(S)] : Step(g, m)
<1>1. n \in Nat /\ n >= 1 /\ \A i \in 1..n : seqs[i] \in Seq(S)
  BY LenProperties, EmptySeq, ElementOfSeq
<1> HIDE DEF n
<1>2. \A m \in 1..n : Good(m)
  <2> DEFINE G == {m \in 1..n : Good(m)}
  <2>1. Good(1)
    <3> DEFINE h == [i \in 1..1 |-> seqs[1]]
    <3>1. h \in [1..1 -> Seq(S)]
      BY <1>1
    <3>2. Step(h, 1)
      OBVIOUS
    <3> QED
      BY <3>1, <3>2
  <2>2. ASSUME NEW p \in 2..n, Good(p - 1) PROVE Good(p)
    <3>1. PICK g \in [1..(p-1) -> Seq(S)] : Step(g, p - 1)
      BY <2>2
    <3> DEFINE h == [i \in 1..p |-> IF i = p THEN g[p-1] \o seqs[p] ELSE g[i]]
    <3>2. p \in 1..n /\ p \in 1..p /\ p - 1 \in 1..p /\ p - 1 \in 1..(p-1) /\ p - 1 # p /\ p # 1
      BY <1>1
    <3>3. g[p-1] \o seqs[p] \in Seq(S)
      BY <1>1, <3>2, ConcatProperties
    <3>4. h \in [1..p -> Seq(S)]
      BY <3>3
    <3>5. h[p] = g[p-1] \o seqs[p] /\ \A i \in 1..(p-1) : h[i] = g[i]
      <4>1. \A i \in 1..(p-1) : i \in 1..p /\ i # p
        OBVIOUS
      <4> QED
        BY <3>2, <4>1
    <3> HIDE DEF h
    <3>6. Step(h, p)
      <4> SUFFICES ASSUME NEW i \in 1..p
                   PROVE  h[i] = IF i = 1 THEN seqs[i] ELSE h[i-1] \o seqs[i]
        OBVIOUS
      <4>1. CASE i = p
        BY <4>1, <3>2, <3>5
      <4>2. CASE i # p
        <5>1. i \in 1..(p-1) /\ (i # 1 => i - 1 \in 1..(p-1))
          BY <4>2
        <5> QED
          BY <5>1, <3>1, <3>5
      <4> QED
        BY <4>1, <4>2
    <3> QED
      BY <3>4, <3>6
  <2> HIDE DEF Good
  <2>3. 1 \in G /\ \A m \in 2..n : m - 1 \in G => m \in G
    BY <1>1, <2>1, <2>2
  <2> HIDE DEF G
  <2>4. \A m \in 1..n : m \in G
    BY <1>1, <2>3, CountingUp
  <2> QED
    BY <2>4 DEF G
<1>3. PICK g \in [1..n -> Seq(S)] : Step(g, n)
  <2> HIDE DEF Good
  <2>1. Good(n)
    BY <1>1, <1>2
  <2> QED
    BY <2>1 DEF Good
<1> DEFINE Is(f) == f = [i \in 1..n |-> IF i = 1 THEN seqs[i] ELSE f[i-1] \o seqs[i]]
<1>4. Is(g)
  BY <1>3
<1> DEFINE f == CHOOSE f : Is(f)
<1>5. FlattenSeq(seqs) = f[n]
  BY <1>1 DEF FlattenSeq, n
<1>6. Is(f)
  BY <1>4
<1> HIDE DEF f
<1>7. /\ DOMAIN f = 1..n /\ f = [i \in 1..n |-> f[i]]
      /\ f[1] = seqs[1]
      /\ \A i \in 2..n : f[i] = f[i-1] \o seqs[i]
  <2>1. \A i \in 1..n : f[i] = IF i = 1 THEN seqs[i] ELSE f[i-1] \o seqs[i]
    BY <1>6
  <2>2. \A i \in 2..n : i \in 1..n /\ i # 1
    BY <1>1
  <2>3. DOMAIN f = 1..n /\ f = [i \in 1..n |-> f[i]]
    <3> DEFINE v == [i \in 1..n |-> IF i = 1 THEN seqs[i] ELSE f[i-1] \o seqs[i]]
    <3>1. DOMAIN v = 1..n /\ v = [i \in 1..n |-> v[i]]
      OBVIOUS
    <3>2. f = v
      BY <1>6
    <3> HIDE DEF v
    <3> QED
      BY <3>1, <3>2
  <2>4. f[1] = seqs[1]
    BY <1>1, <2>1
  <2>5. \A i \in 2..n : f[i] = f[i-1] \o seqs[i]
    BY <2>1, <2>2
  <2> QED
    BY <2>3, <2>4, <2>5
<1>8. \A i \in 1..n : f[i] \in Seq(S)
  <2> DEFINE G == {i \in 1..n : f[i] \in Seq(S)}
  <2>1. 1 \in G
    BY <1>1, <1>7
  <2>2. ASSUME NEW m \in 2..n, m - 1 \in G PROVE m \in G
    <3>1. m \in 1..n /\ f[m-1] \in Seq(S) /\ seqs[m] \in Seq(S)
      BY <1>1, <2>2
    <3>2. f[m-1] \o seqs[m] \in Seq(S)
      BY <3>1, ConcatProperties
    <3> QED
      BY <1>7, <3>1, <3>2
  <2> HIDE DEF G
  <2>3. \A m \in 1..n : m \in G
    BY <1>1, <2>1, <2>2, CountingUp
  <2> QED
    BY <2>3 DEF G
<1> QED
  BY <1>1, <1>5, <1>7, <1>8 DEF n

\* Where the sequences are in flat: the n-th begins behind base[n].
Layout(base, seqs, flat) ==
  /\ base \in [1..(Len(seqs) + 1) -> Nat]
  /\ base[1] = 0
  /\ \A n \in 1..Len(seqs) : base[n+1] = base[n] + Len(seqs[n])
  /\ Len(flat) = base[Len(seqs) + 1]
  /\ \A m, n \in 1..Len(seqs) : m < n => base[m+1] <= base[n]
  /\ \A n \in 1..Len(seqs) : \A j \in 1..Len(seqs[n]) :
       base[n] + j \in 1..Len(flat) /\ flat[base[n] + j] = seqs[n][j]
  /\ \A k \in 1..Len(flat) : \E n \in 1..Len(seqs) : \E j \in 1..Len(seqs[n]) : k = base[n] + j

\* FlattenSeq lays the sequences one behind the other, and nothing else is there.
LEMMA FlattenLayout ==
  ASSUME NEW S, NEW seqs \in Seq(Seq(S))
  PROVE  /\ FlattenSeq(seqs) \in Seq(S)
         /\ \E base : Layout(base, seqs, FlattenSeq(seqs))
<1>1. CASE seqs = << >>
  <2>1. FlattenSeq(seqs) = << >> /\ Len(seqs) = 0
    BY <1>1 DEF FlattenSeq
  <2>2. Layout([m \in 1..1 |-> 0], seqs, << >>)
    BY <2>1 DEF Layout
  <2> QED
    BY <2>1, <2>2
<1>2. CASE seqs # << >>
  <2> DEFINE n == Len(seqs)
  <2>1. n \in Nat /\ n >= 1
    BY <1>2, LenProperties, EmptySeq
  <2>2. \A i \in 1..n : seqs[i] \in Seq(S) /\ Len(seqs[i]) \in Nat
    BY LenProperties, ElementOfSeq
  <2>3. PICK f \in [1..n -> Seq(S)] :
           /\ FlattenSeq(seqs) = f[n]
           /\ f[1] = seqs[1]
           /\ \A i \in 2..n : f[i] = f[i-1] \o seqs[i]
    BY <1>2, FlattenFunction
  <2> HIDE DEF n
  <2>4. \A i \in 1..n : f[i] \in Seq(S) /\ Len(f[i]) \in Nat
    BY LenProperties
  <2>5. ASSUME NEW i \in 2..n
        PROVE  /\ i \in 1..n /\ i - 1 \in 1..n
               /\ Len(f[i]) = Len(f[i-1]) + Len(seqs[i])
               /\ \A k \in 1..Len(f[i-1]) : f[i][k] = f[i-1][k]
               /\ \A j \in 1..Len(seqs[i]) : f[i][Len(f[i-1]) + j] = seqs[i][j]
    <3>1. i \in 1..n /\ i - 1 \in 1..n
      BY <2>1
    <3>2. f[i] = f[i-1] \o seqs[i] /\ f[i-1] \in Seq(S) /\ seqs[i] \in Seq(S)
      BY <2>2, <2>3, <2>4, <3>1
    <3>3. Len(f[i-1]) \in Nat /\ Len(seqs[i]) \in Nat
      BY <3>2, LenProperties
    <3> QED
      BY <3>1, <3>2, <3>3, ConcatProperties
  <2> DEFINE base == [m \in 1..(n+1) |-> IF m = 1 THEN 0 ELSE Len(f[m-1])]
  <2>6. base \in [1..(n+1) -> Nat] /\ base[1] = 0
    BY <2>1, <2>4
  <2>7. \A i \in 1..n : base[i+1] = Len(f[i]) /\ base[i+1] = base[i] + Len(seqs[i])
    <3> TAKE i \in 1..n
    <3>1. i + 1 \in 1..(n+1) /\ i + 1 # 1 /\ i \in 1..(n+1) /\ (i # 1 => i \in 2..n)
      BY <2>1
    <3>2. base[i+1] = Len(f[i])
      BY <3>1
    <3>3. CASE i = 1
      BY <2>2, <2>3, <2>6, <3>2, <3>3
    <3>4. CASE i # 1
      BY <2>5, <3>1, <3>2, <3>4
    <3> QED
      BY <3>2, <3>3, <3>4
  <2> HIDE DEF base
  <2>8. \A i \in 1..n : base[i] \in Nat /\ base[i+1] \in Nat
    BY <2>1, <2>6
  <2>9. \A p, q \in 1..n : p < q => base[p+1] <= base[q]
    <3> DEFINE G == {q \in 1..n : \A p \in 1..n : p < q => base[p+1] <= base[q]}
    <3>1. 1 \in G
      BY <2>1
    <3>2. ASSUME NEW q \in 2..n, q - 1 \in G PROVE q \in G
      <4>1. q \in 1..n /\ q - 1 \in 1..n /\ base[q] = base[q-1] + Len(seqs[q-1])
        BY <2>1, <2>7
      <4> SUFFICES ASSUME NEW p \in 1..n, p < q PROVE base[p+1] <= base[q]
        BY <4>1
      <4>2. CASE p = q - 1
        BY <4>1, <4>2, <2>8
      <4>3. CASE p # q - 1
        <5>1. p < q - 1
          BY <4>3, <2>1
        <5>2. base[p+1] <= base[q-1]
          BY <3>2, <5>1
        <5>3. base[p+1] \in Nat /\ base[q-1] \in Nat /\ base[q] \in Nat
          BY <4>1, <2>8
        <5>4. Len(seqs[q-1]) \in Nat
          BY <4>1, <2>2
        <5> QED
          BY <4>1, <5>2, <5>3, <5>4
      <4> QED
        BY <4>2, <4>3
    <3> HIDE DEF G
    <3>3. \A q \in 1..n : q \in G
      BY <2>1, <3>1, <3>2, CountingUp
    <3> QED
      BY <3>3 DEF G
  <2> DEFINE Placed(m) ==
               /\ \A i \in 1..m : \A j \in 1..Len(seqs[i]) :
                    base[i] + j \in 1..Len(f[m]) /\ f[m][base[i] + j] = seqs[i][j]
               /\ \A k \in 1..Len(f[m]) :
                    \E i \in 1..m : \E j \in 1..Len(seqs[i]) : k = base[i] + j
  <2>10. \A m \in 1..n : Placed(m)
    <3> DEFINE G == {m \in 1..n : Placed(m)}
    <3>1. Placed(1)
      <4>1. /\ 1 \in 1..n /\ f[1] = seqs[1] /\ base[1] = 0
            /\ Len(seqs[1]) \in Nat
            /\ \A i \in 1..1 : i = 1
            /\ \A j \in 1..Len(seqs[1]) : 0 + j = j
        BY <2>1, <2>2, <2>3, <2>6
      <4> QED
        BY <4>1
    <3>2. ASSUME NEW m \in 2..n, Placed(m - 1) PROVE Placed(m)
      <4>1. /\ m \in 1..n /\ m - 1 \in 1..n
            /\ Len(f[m]) = Len(f[m-1]) + Len(seqs[m])
            /\ base[m] = Len(f[m-1])
            /\ Len(f[m]) \in Nat /\ Len(f[m-1]) \in Nat /\ Len(seqs[m]) \in Nat
        <5>1. m \in 1..n /\ m - 1 \in 1..n /\ (m - 1) + 1 = m
          BY <2>1
        <5>2. base[m] = Len(f[m-1])
          BY <2>7, <5>1
        <5> QED
          BY <5>1, <5>2, <2>2, <2>4, <2>5
      <4>a. /\ \A k \in 1..Len(f[m-1]) : k \in 1..Len(f[m])
            /\ \A j \in 1..Len(seqs[m]) : Len(f[m-1]) + j \in 1..Len(f[m])
            /\ \A k \in 1..Len(f[m]) : k \notin 1..Len(f[m-1]) =>
                  k - Len(f[m-1]) \in 1..Len(seqs[m]) /\ k = Len(f[m-1]) + (k - Len(f[m-1]))
        <5> DEFINE a == Len(f[m]) b == Len(f[m-1]) c == Len(seqs[m])
        <5>1. a \in Nat /\ b \in Nat /\ c \in Nat /\ a = b + c
          BY <4>1
        <5> HIDE DEF a, b, c
        <5>2. /\ \A k \in 1..b : k \in 1..a
              /\ \A j \in 1..c : b + j \in 1..a
              /\ \A k \in 1..a : k \notin 1..b => k - b \in 1..c /\ k = b + (k - b)
          BY <5>1
        <5> QED
          BY <5>2 DEF a, b, c
      <4>b. /\ \A k \in 1..Len(f[m-1]) : f[m][k] = f[m-1][k]
            /\ \A j \in 1..Len(seqs[m]) : f[m][Len(f[m-1]) + j] = seqs[m][j]
        BY <2>5
      <4>2. ASSUME NEW i \in 1..m, NEW j \in 1..Len(seqs[i])
            PROVE  base[i] + j \in 1..Len(f[m]) /\ f[m][base[i] + j] = seqs[i][j]
        <5>1. CASE i = m
          <6>1. /\ j \in 1..Len(seqs[m])
                /\ f[m][Len(f[m-1]) + j] = seqs[m][j]
                /\ Len(f[m-1]) + j \in 1..Len(f[m])
            BY <5>1, <4>a, <4>b
          <6> QED
            BY <4>1, <5>1, <6>1
        <5>2. CASE i # m
          <6>1. i \in 1..(m-1)
            BY <5>2
          <6>2. base[i] + j \in 1..Len(f[m-1]) /\ f[m-1][base[i] + j] = seqs[i][j]
            BY <3>2, <6>1
          <6>3. base[i] + j \in 1..Len(f[m]) /\ f[m][base[i] + j] = f[m-1][base[i] + j]
            BY <6>2, <4>a, <4>b
          <6> QED
            BY <6>2, <6>3
        <5> QED
          BY <5>1, <5>2
      <4>3. ASSUME NEW k \in 1..Len(f[m])
            PROVE  \E i \in 1..m : \E j \in 1..Len(seqs[i]) : k = base[i] + j
        <5>1. CASE k \in 1..Len(f[m-1])
          <6>1. PICK i \in 1..(m-1) : \E j \in 1..Len(seqs[i]) : k = base[i] + j
            BY <3>2, <5>1
          <6>2. i \in 1..m
            OBVIOUS
          <6> QED
            BY <6>1, <6>2
        <5>2. CASE k \notin 1..Len(f[m-1])
          <6>1. k - base[m] \in 1..Len(seqs[m]) /\ k = base[m] + (k - base[m])
            BY <4>1, <4>a, <5>2
          <6>2. m \in 1..m
            BY <4>1
          <6> QED
            BY <6>1, <6>2
        <5> QED
          BY <5>1, <5>2
      <4> QED
        BY <4>2, <4>3
    <3> HIDE DEF Placed
    <3>3. 1 \in G /\ \A m \in 2..n : m - 1 \in G => m \in G
      BY <2>1, <3>1, <3>2
    <3> HIDE DEF G
    <3>4. \A m \in 1..n : m \in G
      BY <2>1, <3>3, CountingUp
    <3> QED
      BY <3>4 DEF G
  <2>11. Placed(n) /\ Len(f[n]) = base[n+1] /\ f[n] \in Seq(S)
    <3> HIDE DEF Placed
    <3> QED
      BY <2>1, <2>4, <2>7, <2>10
  <2>12. Layout(base, seqs, f[n])
    BY <2>6, <2>7, <2>9, <2>11 DEF Layout, n
  <2> QED
    BY <2>3, <2>11, <2>12
<1> QED
  BY <1>1, <1>2

\* At: where the elements of s at the positions D are in t, which has nothing else.
Picks(at, D, s, t) ==
  /\ at \in [D -> 1..Len(t)]
  /\ \A i \in D : t[at[i]] = s[i]
  /\ \A i, j \in D : i < j => at[i] < at[j]
  /\ \A k \in 1..Len(t) : \E i \in D : k = at[i]

\* What a filtered sequence is: the elements that pass, each one once, in their order.
LEMMA FilterPicks ==
  ASSUME NEW S, NEW s \in Seq(S), NEW D \in SUBSET (1..Len(s)), NEW t,
         t = FlattenSeq([i \in DOMAIN s |-> IF i \in D THEN <<s[i]>> ELSE << >>])
  PROVE  t \in Seq(S) /\ \E at : Picks(at, D, s, t)
<1> DEFINE n == Len(s)
           pieces == [i \in 1..n |-> IF i \in D THEN <<s[i]>> ELSE << >>]
<1>1. n \in Nat /\ DOMAIN s = 1..n /\ \A i \in 1..n : s[i] \in S
  BY LenProperties, ElementOfSeq
<1>2. t = FlattenSeq(pieces)
  BY <1>1
<1> HIDE DEF n
<1>3. /\ pieces \in Seq(Seq(S)) /\ Len(pieces) = n
      /\ \A i \in 1..n : Len(pieces[i]) = IF i \in D THEN 1 ELSE 0
      /\ \A i \in D : i \in 1..n /\ pieces[i] = <<s[i]>>
  <2>1. \A i \in 1..n : pieces[i] \in Seq(S)
    BY <1>1
  <2>2. \A i \in D : i \in 1..n
    BY DEF n
  <2> QED
    BY <1>1, <2>1, <2>2
<1> HIDE DEF pieces
<1>4. t \in Seq(S)
  BY <1>2, <1>3, FlattenLayout
<1>5. PICK base : Layout(base, pieces, t)
  BY <1>2, <1>3, FlattenLayout
<1>6. /\ base \in [1..(n+1) -> Nat]
      /\ \A i \in 1..n : base[i+1] = base[i] + Len(pieces[i])
      /\ \A i, j \in 1..n : i < j => base[i+1] <= base[j]
      /\ \A i \in 1..n : \A j \in 1..Len(pieces[i]) :
           base[i] + j \in 1..Len(t) /\ t[base[i] + j] = pieces[i][j]
      /\ \A k \in 1..Len(t) : \E i \in 1..n : \E j \in 1..Len(pieces[i]) : k = base[i] + j
  BY <1>3, <1>5 DEF Layout
<1> DEFINE at == [i \in D |-> base[i] + 1]
<1>7. ASSUME NEW i \in D
      PROVE  /\ base[i] + 1 \in 1..Len(t) /\ t[base[i] + 1] = s[i]
             /\ base[i] \in Nat /\ base[i+1] = base[i] + 1
  <2>1. i \in 1..n /\ Len(pieces[i]) = 1 /\ pieces[i] = <<s[i]>> /\ pieces[i][1] = s[i]
    BY <1>3
  <2>2. 1 \in 1..Len(pieces[i]) /\ i \in 1..(n+1)
    BY <1>1, <2>1
  <2> QED
    BY <1>6, <2>1, <2>2
<1>8. at \in [D -> 1..Len(t)] /\ \A i \in D : t[at[i]] = s[i]
  BY <1>7
<1>9. \A i, j \in D : i < j => at[i] < at[j]
  <2> SUFFICES ASSUME NEW i \in D, NEW j \in D, i < j PROVE base[i] + 1 < base[j] + 1
    OBVIOUS
  <2>1. base[i+1] <= base[j]
    BY <1>3, <1>6
  <2> QED
    BY <1>7, <2>1
<1>10. \A k \in 1..Len(t) : \E i \in D : k = at[i]
  <2> TAKE k \in 1..Len(t)
  <2>1. PICK i \in 1..n : \E j \in 1..Len(pieces[i]) : k = base[i] + j
    BY <1>6
  <2>2. i \in D /\ k = base[i] + 1
    <3>1. PICK j \in 1..Len(pieces[i]) : k = base[i] + j
      BY <2>1
    <3>2. i \in D /\ Len(pieces[i]) = 1
      BY <1>3
    <3> QED
      BY <3>1, <3>2
  <2> QED
    BY <2>2
<1> QED
  BY <1>4, <1>8, <1>9, <1>10 DEF Picks

-------------------------------------------------------------------------------
(* FlattenSeq of few, of more, of sequences of one element and of empty ones. *)

\* A sequence of one element.
LEMMA OneElement ==
  ASSUME NEW S, NEW x \in S
  PROVE  <<x>> \in Seq(S)
OBVIOUS

\* Of nothing, nothing; of one sequence, that sequence.
LEMMA FlattenFew ==
  ASSUME NEW S, NEW x \in Seq(S)
  PROVE  FlattenSeq(<< >>) = << >> /\ FlattenSeq(<<x>>) = x
<1>1. FlattenSeq(<< >>) = << >>
  BY DEF FlattenSeq
<1>2. <<x>> \in Seq(Seq(S)) /\ <<x>> # << >> /\ Len(<<x>>) = 1 /\ <<x>>[1] = x
  OBVIOUS
<1>3. FlattenSeq(<<x>>) = x
  <2> DEFINE one == <<x>>
  <2>1. one \in Seq(Seq(S)) /\ one # << >> /\ Len(one) = 1 /\ one[1] = x
    BY <1>2
  <2> HIDE DEF one
  <2>2. \E f \in [1..Len(one) -> Seq(S)] : FlattenSeq(one) = f[Len(one)] /\ f[1] = one[1]
    BY <2>1, FlattenFunction
  <2>3. FlattenSeq(one) = x
    BY <2>1, <2>2
  <2> QED
    BY <2>3 DEF one
<1> QED
  BY <1>1, <1>3

\* The m-th value of f is the first m of the sequences, one behind the other.
SoFar(f, S, seqs) ==
  /\ \A i \in 1..Len(seqs) : f[i] \in Seq(S)
  /\ f[1] = seqs[1]
  /\ \A i \in 2..Len(seqs) : f[i] = f[i-1] \o seqs[i]
  /\ FlattenSeq(seqs) = f[Len(seqs)]

\* Such an f there is.
LEMMA FlattenPrefixes ==
  ASSUME NEW S, NEW seqs \in Seq(Seq(S)), seqs # << >>
  PROVE  \E f : SoFar(f, S, seqs)
<1>1. PICK f \in [1..Len(seqs) -> Seq(S)] :
         /\ FlattenSeq(seqs) = f[Len(seqs)]
         /\ f[1] = seqs[1]
         /\ \A i \in 2..Len(seqs) : f[i] = f[i-1] \o seqs[i]
  BY FlattenFunction
<1> QED
  BY <1>1 DEF SoFar

\* FlattenSeq distributes over \o.
LEMMA FlattenConcat ==
  ASSUME NEW S, NEW a \in Seq(Seq(S)), NEW b \in Seq(Seq(S))
  PROVE  FlattenSeq(a \o b) = FlattenSeq(a) \o FlattenSeq(b)
<1>0. \A u, v, w \in Seq(S) : (u \o v) \o w = u \o (v \o w)
  BY ConcatAssociative
<1>1. FlattenSeq(a) \in Seq(S) /\ FlattenSeq(b) \in Seq(S)
  BY FlattenLayout
<1>2. CASE a = << >>
  <2>1. a \o b = b /\ FlattenSeq(a) = << >>
    BY <1>2, ConcatEmptySeq, FlattenFew, EmptySeq
  <2> QED
    BY <1>1, <2>1, ConcatEmptySeq
<1>3. CASE b = << >>
  <2>1. a \o b = a /\ FlattenSeq(b) = << >>
    BY <1>3, ConcatEmptySeq, FlattenFew, EmptySeq
  <2> QED
    BY <1>1, <2>1, ConcatEmptySeq
<1>4. CASE a # << >> /\ b # << >>
  <2> DEFINE c == a \o b
             n == Len(a)
             p == Len(b)
  <2>1. /\ n \in Nat /\ n >= 1 /\ p \in Nat /\ p >= 1
        /\ c \in Seq(Seq(S)) /\ Len(c) = n + p /\ c # << >>
        /\ \A i \in 1..n : c[i] = a[i]
        /\ \A i \in 1..p : c[n + i] = b[i]
    <3>1. n \in Nat /\ n >= 1 /\ p \in Nat /\ p >= 1
      BY <1>4, EmptySeq
    <3>2. /\ c \in Seq(Seq(S)) /\ Len(c) = n + p
          /\ \A i \in 1..(n + p) : c[i] = IF i <= n THEN a[i] ELSE b[i - n]
      BY ConcatProperties
    <3>3. c # << >>
      BY <3>1, <3>2, EmptySeq
    <3> HIDE DEF c, n, p
    <3>4. \A i \in 1..n : i \in 1..(n + p) /\ i <= n
      BY <3>1
    <3>5. \A i \in 1..p : n + i \in 1..(n + p) /\ ~(n + i <= n) /\ (n + i) - n = i
      BY <3>1
    <3> QED
      BY <3>1, <3>2, <3>3, <3>4, <3>5
  <2>2. PICK f : SoFar(f, S, a)
    BY <1>4, FlattenPrefixes
  <2>3. PICK g : SoFar(g, S, b)
    BY <1>4, FlattenPrefixes
  <2> HIDE DEF c
  <2>4. PICK h : SoFar(h, S, c)
    BY <2>1, FlattenPrefixes
  <2>5. /\ \A i \in 1..n : f[i] \in Seq(S)
        /\ f[1] = a[1] /\ \A i \in 2..n : f[i] = f[i-1] \o a[i]
        /\ FlattenSeq(a) = f[n]
    BY <2>2 DEF SoFar
  <2>6. /\ \A i \in 1..p : g[i] \in Seq(S)
        /\ g[1] = b[1] /\ \A i \in 2..p : g[i] = g[i-1] \o b[i]
        /\ FlattenSeq(b) = g[p]
    BY <2>3 DEF SoFar
  <2>7. /\ h[1] = c[1] /\ \A i \in 2..(n + p) : h[i] = h[i-1] \o c[i]
        /\ FlattenSeq(c) = h[n + p]
    BY <2>1, <2>4 DEF SoFar
  <2> HIDE DEF n, p
  <2>8. h[n] = f[n]
    <3> DEFINE G == {i \in 1..n : h[i] = f[i]}
    <3>1. 1 \in G
      <4>1. 1 \in 1..n
        BY <2>1
      <4>2. h[1] = f[1]
        BY <2>1, <2>5, <2>7, <4>1
      <4> QED
        BY <4>1, <4>2
    <3>2. ASSUME NEW i \in 2..n, i - 1 \in G PROVE i \in G
      <4>1. i \in 1..n /\ i \in 2..(n + p)
        BY <2>1
      <4>2. h[i] = h[i-1] \o a[i] /\ f[i] = f[i-1] \o a[i]
        BY <2>1, <2>5, <2>7, <4>1
      <4> QED
        BY <3>2, <4>1, <4>2
    <3> HIDE DEF G
    <3>3. \A i \in 1..n : i \in G
      BY <2>1, <3>1, <3>2, CountingUp
    <3> QED
      BY <2>1, <3>3 DEF G
  <2>9. h[n + p] = f[n] \o g[p]
    <3> DEFINE x == f[n]
               G == {i \in 1..p : h[n + i] = x \o g[i]}
    <3>1. x \in Seq(S) /\ h[n] = x
      BY <2>1, <2>5, <2>8
    <3> HIDE DEF x
    <3>2. 1 \in G
      <4>1. n + 1 \in 2..(n + p) /\ (n + 1) - 1 = n /\ 1 \in 1..p
        BY <2>1
      <4>2. h[n + 1] = h[n] \o c[n + 1] /\ c[n + 1] = b[1]
        BY <2>1, <2>7, <4>1
      <4>3. h[n + 1] = x \o g[1]
        BY <2>6, <3>1, <4>2
      <4> QED
        BY <4>1, <4>3
    <3>3. ASSUME NEW i \in 2..p, i - 1 \in G PROVE i \in G
      <4>1. i \in 1..p /\ i - 1 \in 1..p /\ n + i \in 2..(n + p) /\ (n + i) - 1 = n + (i - 1)
        BY <2>1
      <4> DEFINE y == g[i-1]
                 z == b[i]
      <4>2. h[n + (i - 1)] = x \o y
        BY <3>3
      <4>3. h[n + i] = h[n + (i - 1)] \o z
        BY <2>1, <2>7, <4>1
      <4>4. y \in Seq(S) /\ z \in Seq(S) /\ g[i] = y \o z
        BY <2>6, <4>1, ElementOfSeq DEF p
      <4> HIDE DEF y, z
      <4>5. (x \o y) \o z = x \o (y \o z)
        <5>1. x \in Seq(S)
          BY <3>1
        <5>2. y \in Seq(S) /\ z \in Seq(S)
          BY <4>4
        <5> QED
          BY <1>0, <5>1, <5>2
      <4>6. h[n + i] = x \o g[i]
        BY <4>2, <4>3, <4>4, <4>5
      <4> QED
        BY <4>1, <4>6
    <3> HIDE DEF G
    <3>4. \A i \in 1..p : i \in G
      BY <2>1, <3>2, <3>3, CountingUp
    <3>5. p \in 1..p
      BY <2>1
    <3> QED
      BY <3>4, <3>5 DEF G, x
  <2> QED
    BY <2>5, <2>6, <2>7, <2>9 DEF c
<1> QED
  BY <1>2, <1>3, <1>4

\* Of sequences of one element each, the sequence of these elements.
LEMMA FlattenSingles ==
  ASSUME NEW S, NEW t \in Seq(S)
  PROVE  FlattenSeq([i \in DOMAIN t |-> <<t[i]>>]) = t
<1> DEFINE n == Len(t)
           D == 1..n
           one == [i \in DOMAIN t |-> <<t[i]>>]
           all == [i \in DOMAIN t |-> IF i \in D THEN <<t[i]>> ELSE << >>]
<1>1. n \in Nat /\ DOMAIN t = 1..n /\ \A i \in 1..n : t[i] \in S
  BY LenProperties, ElementOfSeq
<1>2. one \in Seq(Seq(S)) /\ Len(one) = n /\ \A i \in 1..n : one[i] = <<t[i]>> /\ Len(one[i]) = 1
  <2>1. \A i \in 1..n : <<t[i]>> \in Seq(S)
    BY <1>1
  <2> HIDE DEF n
  <2> QED
    BY <1>1, <2>1
<1> HIDE DEF one, n
<1> DEFINE flat == FlattenSeq(one)
<1>3. flat \in Seq(S) /\ \E base : Layout(base, one, flat)
  BY <1>2, FlattenLayout
<1>4. PICK base : Layout(base, one, flat)
  BY <1>3
<1> HIDE DEF flat
<1>5. \A i \in 1..(n+1) : base[i] = i - 1 /\ base[i] + 1 = i
  <2> DEFINE G == {i \in 1..(n+1) : base[i] = i - 1}
  <2>1. 1 \in G
    BY <1>1, <1>4 DEF Layout
  <2>2. ASSUME NEW i \in 2..(n+1), i - 1 \in G PROVE i \in G
    <3>1. i - 1 \in 1..n /\ (i - 1) + 1 = i /\ i \in 1..(n+1)
      BY <1>1
    <3>2. base[i] = base[i-1] + 1
      BY <1>2, <1>4, <3>1 DEF Layout
    <3> QED
      BY <2>2, <3>1, <3>2
  <2> HIDE DEF G
  <2>3. n + 1 \in Nat /\ \A i \in 1..(n+1) : i \in G
    <3>1. n + 1 \in Nat
      BY <1>1
    <3> QED
      BY <2>1, <2>2, <3>1, CountingUp
  <2>4. \A i \in 1..(n+1) : (i - 1) + 1 = i
    BY <1>1
  <2> QED
    BY <2>3, <2>4 DEF G
<1>6. Len(flat) = n
  <2>1. n + 1 \in 1..(n+1)
    BY <1>1
  <2>2. Len(flat) = base[n + 1]
    BY <1>2, <1>4 DEF Layout
  <2> QED
    BY <1>1, <1>5, <2>1, <2>2
<1>7. \A i \in 1..n : flat[i] = t[i]
  <2> TAKE i \in 1..n
  <2>1. 1 \in 1..Len(one[i]) /\ one[i][1] = t[i] /\ base[i] + 1 = i
    <3>1. i \in 1..(n+1)
      BY <1>1
    <3>2. one[i] = <<t[i]>> /\ Len(one[i]) = 1 /\ base[i] + 1 = i
      BY <1>2, <1>5, <3>1
    <3> QED
      BY <3>2
  <2>2. flat[base[i] + 1] = one[i][1]
    BY <1>2, <1>4, <2>1 DEF Layout
  <2> QED
    BY <2>1, <2>2
<1>8. flat = t
  BY <1>3, <1>6, <1>7, SeqEqual DEF n
<1> QED
  BY <1>8 DEF flat, one

\* Of empty sequences, nothing.
LEMMA FlattenEmpties ==
  ASSUME NEW n \in Nat, NEW s, s = [i \in 1..n |-> << >>]
  PROVE  FlattenSeq(s) = << >>
<1>1. s \in Seq(Seq({})) /\ Len(s) = n /\ \A i \in 1..n : Len(s[i]) = 0
  <2>1. << >> \in Seq({})
    BY EmptySeq
  <2> QED
    BY <2>1
<1>2. FlattenSeq(s) \in Seq({})
  BY <1>1, FlattenLayout
<1>3. FlattenSeq(s) # << >> => FlattenSeq(s)[1] \in {}
  <2>1. Len(FlattenSeq(s)) \in Nat /\ (FlattenSeq(s) # << >> => Len(FlattenSeq(s)) >= 1)
    BY <1>2, EmptySeq, LenProperties
  <2> QED
    BY <1>2, <2>1, ElementOfSeq
<1> QED
  BY <1>3

-------------------------------------------------------------------------------
(* Mapping the elements of a sequence to sequences, laid one behind the other. *)

\* The functions from elements of S to sequences of elements of T.
ToSeqs(S, T) == [S -> Seq(T)]

\* The h of each element, one behind the other.
FlatMap(h, s) == FlattenSeq([i \in DOMAIN s |-> h[s[i]]])

\* Its type.
LEMMA FlatMapTyped ==
  ASSUME NEW S, NEW T, NEW h \in ToSeqs(S, T), NEW s \in Seq(S)
  PROVE  /\ [i \in DOMAIN s |-> h[s[i]]] \in Seq(Seq(T))
         /\ Len([i \in DOMAIN s |-> h[s[i]]]) = Len(s)
         /\ FlatMap(h, s) \in Seq(T)
<1> DEFINE out == [i \in DOMAIN s |-> h[s[i]]]
<1>1. DOMAIN s = 1..Len(s) /\ Len(s) \in Nat /\ \A i \in DOMAIN s : s[i] \in S
  BY LenProperties, ElementOfSeq
<1>2. out \in Seq(Seq(T)) /\ Len(out) = Len(s)
  <2>1. \A i \in DOMAIN s : h[s[i]] \in Seq(T)
    BY <1>1 DEF ToSeqs
  <2> QED
    BY <1>1, <2>1
<1> HIDE DEF out
<1>3. FlattenSeq(out) \in Seq(T)
  BY <1>2, FlattenLayout
<1> QED
  BY <1>2, <1>3 DEF out, FlatMap

\* Of nothing, and of one element.
LEMMA FlatMapFew ==
  ASSUME NEW S, NEW T, NEW h \in ToSeqs(S, T), NEW x \in S
  PROVE  FlatMap(h, << >>) = << >> /\ FlatMap(h, <<x>>) = h[x]
<1>1. FlatMap(h, << >>) = << >>
  <2>1. [i \in DOMAIN << >> |-> h[<< >>[i]]] = << >>
    OBVIOUS
  <2> QED
    BY <2>1, FlattenFew, EmptySeq DEF FlatMap
<1>2. FlatMap(h, <<x>>) = h[x]
  <2>1. [i \in DOMAIN <<x>> |-> h[<<x>>[i]]] = <<h[x]>>
    OBVIOUS
  <2>2. h[x] \in Seq(T)
    BY DEF ToSeqs
  <2>3. FlattenSeq(<<h[x]>>) = h[x]
    BY <2>2, FlattenFew
  <2> QED
    BY <2>1, <2>3 DEF FlatMap
<1> QED
  BY <1>1, <1>2

\* Two sequences of which the h are the same, element by element.
LEMMA FlatMapSame ==
  ASSUME NEW s, NEW t, NEW h, NEW k, DOMAIN s = DOMAIN t, \A i \in DOMAIN s : h[s[i]] = k[t[i]]
  PROVE  FlatMap(h, s) = FlatMap(k, t)
<1>1. [i \in DOMAIN s |-> h[s[i]]] = [i \in DOMAIN t |-> k[t[i]]]
  OBVIOUS
<1> QED
  BY <1>1 DEF FlatMap

\* A sequence of which every h is empty.
LEMMA FlatMapNothing ==
  ASSUME NEW S, NEW s \in Seq(S), NEW h, \A i \in DOMAIN s : h[s[i]] = << >>
  PROVE  FlatMap(h, s) = << >>
<1>1. Len(s) \in Nat /\ DOMAIN s = 1..Len(s)
  BY LenProperties
<1>2. [i \in DOMAIN s |-> h[s[i]]] = [i \in 1..Len(s) |-> << >>]
  BY <1>1
<1> QED
  BY <1>1, <1>2, FlattenEmpties DEF FlatMap

\* FlatMap distributes over \o.
LEMMA FlatMapConcat ==
  ASSUME NEW S, NEW T, NEW h \in ToSeqs(S, T), NEW a \in Seq(S), NEW b \in Seq(S)
  PROVE  FlatMap(h, a \o b) = FlatMap(h, a) \o FlatMap(h, b)
<1> DEFINE c  == a \o b
           ha == [i \in DOMAIN a |-> h[a[i]]]
           hb == [i \in DOMAIN b |-> h[b[i]]]
           hc == [i \in DOMAIN c |-> h[c[i]]]
<1>1. /\ c \in Seq(S) /\ Len(c) = Len(a) + Len(b) /\ DOMAIN c = 1..(Len(a) + Len(b))
      /\ \A i \in 1..(Len(a) + Len(b)) : c[i] = IF i <= Len(a) THEN a[i] ELSE b[i - Len(a)]
      /\ Len(a) \in Nat /\ Len(b) \in Nat /\ DOMAIN a = 1..Len(a) /\ DOMAIN b = 1..Len(b)
  BY ConcatProperties, LenProperties
<1> HIDE DEF c
<1>2. /\ ha \in Seq(Seq(T)) /\ Len(ha) = Len(a)
      /\ hb \in Seq(Seq(T)) /\ Len(hb) = Len(b)
      /\ hc \in Seq(Seq(T)) /\ Len(hc) = Len(c)
  <2>1. ha \in Seq(Seq(T)) /\ Len(ha) = Len(a)
    BY FlatMapTyped
  <2>2. hb \in Seq(Seq(T)) /\ Len(hb) = Len(b)
    BY FlatMapTyped
  <2>3. hc \in Seq(Seq(T)) /\ Len(hc) = Len(c)
    <3>1. c \in Seq(S)
      BY <1>1
    <3> QED
      BY <3>1, FlatMapTyped
  <2> QED
    BY <2>1, <2>2, <2>3
<1>3. /\ \A i \in 1..Len(a) : ha[i] = h[a[i]]
      /\ \A i \in 1..Len(b) : hb[i] = h[b[i]]
      /\ \A i \in 1..(Len(a) + Len(b)) : hc[i] = h[c[i]]
  BY <1>1
<1> HIDE DEF ha, hb, hc
<1>4. hc = ha \o hb
  <2>1. /\ ha \o hb \in Seq(Seq(T)) /\ Len(ha \o hb) = Len(a) + Len(b)
        /\ \A i \in 1..(Len(a) + Len(b)) : (ha \o hb)[i] = IF i <= Len(a) THEN ha[i] ELSE hb[i - Len(a)]
    <3>1. /\ ha \o hb \in Seq(Seq(T)) /\ Len(ha \o hb) = Len(ha) + Len(hb)
          /\ \A i \in 1..(Len(ha) + Len(hb)) : (ha \o hb)[i] = IF i <= Len(ha) THEN ha[i] ELSE hb[i - Len(ha)]
      BY <1>2, ConcatProperties
    <3>2. Len(ha) = Len(a) /\ Len(hb) = Len(b)
      BY <1>2
    <3> QED
      BY <3>1, <3>2
  <2> DEFINE cc == ha \o hb  la == Len(a)  lb == Len(b)
  <2>2. la \in Nat /\ lb \in Nat /\ \A i \in 1..(la + lb) : cc[i] = hc[i]
    <3>1. la \in Nat /\ lb \in Nat
      BY <1>1
    <3>2. /\ \A i \in 1..la : ha[i] = h[a[i]]
          /\ \A i \in 1..lb : hb[i] = h[b[i]]
          /\ \A i \in 1..(la + lb) : hc[i] = h[c[i]]
          /\ \A i \in 1..(la + lb) : c[i] = IF i <= la THEN a[i] ELSE b[i - la]
          /\ \A i \in 1..(la + lb) : cc[i] = IF i <= la THEN ha[i] ELSE hb[i - la]
      BY <1>1, <1>3, <2>1
    <3> HIDE DEF la, lb, cc
    <3>3. \A i \in 1..(la + lb) : i <= la => i \in 1..la
      BY <3>1
    <3>4. \A i \in 1..(la + lb) : ~(i <= la) => i - la \in 1..lb
      BY <3>1
    <3> QED
      BY <3>1, <3>2, <3>3, <3>4
  <2>3. cc \in Seq(Seq(T)) /\ Len(cc) = Len(hc) /\ \A i \in 1..Len(cc) : cc[i] = hc[i]
    BY <1>1, <1>2, <2>1, <2>2
  <2> HIDE DEF cc
  <2>4. cc = hc
    BY <1>2, <2>3, SeqEqual
  <2> QED
    BY <2>4 DEF cc
<1>5. FlattenSeq(ha \o hb) = FlattenSeq(ha) \o FlattenSeq(hb)
  BY <1>2, FlattenConcat
<1> QED
  BY <1>4, <1>5 DEF FlatMap, ha, hb, hc, c

\* FlatMap of sequences laid one behind the other.
LEMMA FlatMapFlatten ==
  ASSUME NEW S, NEW T, NEW h \in ToSeqs(S, T), NEW ss \in Seq(Seq(S)),
         NEW kk, DOMAIN kk = DOMAIN ss, kk = [i \in DOMAIN kk |-> kk[i]],
         \A i \in DOMAIN ss : kk[i] = FlatMap(h, ss[i])
  PROVE  FlatMap(h, FlattenSeq(ss)) = FlattenSeq(kk)
<1> DEFINE n  == Len(ss)
<1>1. n \in Nat /\ DOMAIN ss = 1..n /\ \A i \in 1..n : ss[i] \in Seq(S) /\ FlatMap(h, ss[i]) \in Seq(T)
  BY LenProperties, ElementOfSeq, FlatMapTyped
<1>2. CASE ss = << >>
  <2>1. kk = << >>
    BY <1>2
  <2>2. FlatMap(h, << >>) = << >> /\ FlattenSeq(<< >>) = << >>
    <3>1. [i \in DOMAIN << >> |-> h[<< >>[i]]] = << >>
      OBVIOUS
    <3> QED
      BY <3>1, FlattenFew, EmptySeq DEF FlatMap
  <2> QED
    BY <1>2, <2>1, <2>2
<1>3. CASE ss # << >>
  <2>1. \A i \in 1..n : kk[i] = FlatMap(h, ss[i]) /\ kk[i] \in Seq(T)
    BY <1>1
  <2>2. kk \in Seq(Seq(T)) /\ Len(kk) = n /\ n >= 1 /\ kk # << >>
    <3>1. n >= 1
      BY <1>3, EmptySeq
    <3>2. kk = [i \in 1..n |-> kk[i]]
      BY <1>1
    <3> HIDE DEF n
    <3>3. kk \in Seq(Seq(T)) /\ Len(kk) = n
      <4> DEFINE k2 == [i \in 1..n |-> kk[i]]
      <4>1. k2 \in Seq(Seq(T)) /\ Len(k2) = n
        <5>1. n \in Nat
          BY <1>1
        <5> QED
          BY <2>1, <5>1
      <4> QED
        BY <3>2, <4>1
    <3> QED
      BY <3>1, <3>3, EmptySeq
  <2>3. PICK f : SoFar(f, S, ss)
    BY <1>3, FlattenPrefixes
  <2>4. PICK g : SoFar(g, T, kk)
    BY <2>2, FlattenPrefixes
  <2>5. /\ \A i \in 1..n : f[i] \in Seq(S)
        /\ f[1] = ss[1] /\ \A i \in 2..n : f[i] = f[i-1] \o ss[i]
        /\ FlattenSeq(ss) = f[n]
    BY <2>3 DEF SoFar
  <2>6. /\ g[1] = kk[1] /\ \A i \in 2..n : g[i] = g[i-1] \o kk[i]
        /\ FlattenSeq(kk) = g[n]
    BY <2>2, <2>4 DEF SoFar
  <2> HIDE DEF n
  <2> DEFINE G == {i \in 1..n : FlatMap(h, f[i]) = g[i]}
  <2>7. 1 \in G
    <3>1. 1 \in 1..n /\ kk[1] = FlatMap(h, ss[1])
      <4>1. n \in Nat /\ n >= 1
        BY <1>1, <2>2
      <4>2. 1 \in 1..n
        BY <4>1
      <4> QED
        BY <2>1, <4>2
    <3>2. FlatMap(h, f[1]) = g[1]
      <4>1. f[1] = ss[1] /\ g[1] = kk[1]
        BY <2>5, <2>6
      <4> QED
        BY <3>1, <4>1
    <3> QED
      BY <3>1, <3>2
  <2>8. ASSUME NEW i \in 2..n, i - 1 \in G PROVE i \in G
    <3>1. i \in 1..n /\ i - 1 \in 1..n
      BY <1>1
    <3> DEFINE x == f[i-1]
               y == ss[i]
    <3>2. x \in Seq(S) /\ y \in Seq(S) /\ f[i] = x \o y /\ FlatMap(h, x) = g[i-1] /\ kk[i] = FlatMap(h, y)
      BY <1>1, <2>1, <2>5, <2>8, <3>1
    <3>3. g[i] = g[i-1] \o kk[i]
      BY <2>6
    <3> HIDE DEF x, y
    <3>4. FlatMap(h, x \o y) = FlatMap(h, x) \o FlatMap(h, y)
      <4>1. x \in Seq(S) /\ y \in Seq(S)
        BY <3>2
      <4> QED
        BY <4>1, FlatMapConcat
    <3>5. FlatMap(h, f[i]) = g[i]
      BY <3>2, <3>3, <3>4
    <3> QED
      BY <3>1, <3>5
  <2> HIDE DEF G
  <2>9. \A i \in 1..n : i \in G
    BY <1>1, <2>7, <2>8, CountingUp
  <2>10. FlatMap(h, f[n]) = g[n]
    <3>1. n \in 1..n
      BY <1>1, <2>2
    <3> QED
      BY <2>9, <3>1 DEF G
  <2> QED
    BY <2>5, <2>6, <2>10
<1> QED
  BY <1>2, <1>3

\* t is what is left of s when only the elements at the places in D stay.
Left(t, D, s) == t = FlattenSeq([i \in DOMAIN s |-> IF i \in D THEN <<s[i]>> ELSE << >>])

\* Elements whose h is empty may be left out.
LEMMA FlatMapFiltered ==
  ASSUME NEW S, NEW T, NEW h \in ToSeqs(S, T), NEW s \in Seq(S), NEW D,
         \A i \in DOMAIN s : i \notin D => h[s[i]] = << >>,
         NEW t, Left(t, D, s)
  PROVE  FlatMap(h, t) = FlatMap(h, s)
<1> DEFINE pieces == [i \in DOMAIN s |-> IF i \in D THEN <<s[i]>> ELSE << >>]
           out    == [i \in DOMAIN s |-> h[s[i]]]
<1>1. DOMAIN s = 1..Len(s) /\ Len(s) \in Nat /\ \A i \in DOMAIN s : s[i] \in S
  BY LenProperties, ElementOfSeq
<1>2. \A i \in DOMAIN s : pieces[i] \in Seq(S)
  BY <1>1
<1>3. pieces \in Seq(Seq(S)) /\ DOMAIN pieces = DOMAIN s
  BY <1>1, <1>2
<1>4. \A i \in DOMAIN s : out[i] = FlatMap(h, pieces[i])
  <2> TAKE i \in DOMAIN s
  <2>1. s[i] \in S
    BY <1>1
  <2>2. FlatMap(h, <<s[i]>>) = h[s[i]] /\ FlatMap(h, << >>) = << >>
    BY <2>1, FlatMapFew
  <2> QED
    BY <2>2
<1>5. DOMAIN out = DOMAIN s /\ out = [i \in DOMAIN out |-> out[i]]
  OBVIOUS
<1>6. t = FlattenSeq(pieces) /\ FlatMap(h, s) = FlattenSeq(out)
  BY DEF FlatMap, Left
<1> HIDE DEF pieces, out
<1>7. FlatMap(h, FlattenSeq(pieces)) = FlattenSeq(out)
  BY <1>3, <1>4, <1>5, FlatMapFlatten
<1> QED
  BY <1>6, <1>7

\* An element of a flattened sequence is one of one of the sequences.
LEMMA FlattenElements ==
  ASSUME NEW S, NEW seqs \in Seq(Seq(S)), NEW k \in DOMAIN FlattenSeq(seqs)
  PROVE  \E n \in DOMAIN seqs : \E j \in DOMAIN seqs[n] : FlattenSeq(seqs)[k] = seqs[n][j]
<1> DEFINE flat == FlattenSeq(seqs)
<1>1. flat \in Seq(S) /\ \E base : Layout(base, seqs, flat)
  BY FlattenLayout
<1>2. PICK base : Layout(base, seqs, flat)
  BY <1>1
<1>3. /\ DOMAIN flat = 1..Len(flat) /\ DOMAIN seqs = 1..Len(seqs)
      /\ \A n \in 1..Len(seqs) : DOMAIN seqs[n] = 1..Len(seqs[n])
  BY <1>1, LenProperties, ElementOfSeq
<1>4. k \in 1..Len(flat)
  BY <1>3
<1> HIDE DEF flat
<1>5. PICK n \in 1..Len(seqs) : \E j \in 1..Len(seqs[n]) : k = base[n] + j
  BY <1>2, <1>4 DEF Layout
<1>6. PICK j \in 1..Len(seqs[n]) : k = base[n] + j
  BY <1>5
<1>7. flat[k] = seqs[n][j]
  BY <1>2, <1>6 DEF Layout
<1> QED
  BY <1>3, <1>7 DEF flat

\* Each part is no longer than the whole.
LEMMA FlatMapPart ==
  ASSUME NEW S, NEW T, NEW h \in ToSeqs(S, T), NEW s \in Seq(S), NEW i \in DOMAIN s
  PROVE  /\ Len(h[s[i]]) \in Nat /\ Len(FlatMap(h, s)) \in Nat
         /\ Len(h[s[i]]) <= Len(FlatMap(h, s))
<1> DEFINE out == [q \in DOMAIN s |-> h[s[q]]]
           flat == FlatMap(h, s)
           x == h[s[i]]
<1>1. out \in Seq(Seq(T)) /\ Len(out) = Len(s) /\ flat \in Seq(T)
  BY FlatMapTyped
<1>2. DOMAIN s = 1..Len(s) /\ s[i] \in S
  BY LenProperties, ElementOfSeq
<1>3. x \in Seq(T) /\ out[i] = x /\ i \in 1..Len(out)
  BY <1>1, <1>2 DEF ToSeqs
<1>4. flat = FlattenSeq(out)
  BY DEF FlatMap
<1> HIDE DEF out, flat, x
<1>5. Len(flat) \in Nat /\ Len(x) \in Nat
  BY <1>1, <1>3, LenProperties
<1>6. PICK base : Layout(base, out, flat)
  BY <1>1, <1>4, FlattenLayout
<1>7. base[i] \in Nat /\ \A j \in 1..Len(x) : base[i] + j \in 1..Len(flat)
  <2>1. i \in 1..(Len(out) + 1)
    BY <1>1, <1>3, LenProperties
  <2> QED
    BY <1>3, <1>6, <2>1 DEF Layout
<1>8. Len(x) <= Len(flat)
  <2>1. CASE Len(x) = 0
    BY <1>5, <2>1
  <2>2. CASE Len(x) # 0
    <3>1. Len(x) \in 1..Len(x)
      BY <1>5, <2>2
    <3>2. base[i] + Len(x) \in 1..Len(flat)
      BY <1>7, <3>1
    <3> QED
      BY <1>5, <1>7, <3>2
  <2> QED
    BY <2>1, <2>2
<1> QED
  BY <1>5, <1>8 DEF x, flat

-------------------------------------------------------------------------------
(* Sums. *)

\* Induction from 0.
LEMMA CountingFromZero ==
  ASSUME NEW n \in Nat, NEW G, 0 \in G, \A p \in 1..n : p - 1 \in G => p \in G
  PROVE  \A p \in 0..n : p \in G
<1> DEFINE H == {q \in 1..(n+1) : q - 1 \in G}
<1>1. 1 \in H
  OBVIOUS
<1>2. ASSUME NEW q \in 2..(n+1), q - 1 \in H PROVE q \in H
  <2>1. q - 1 \in 1..n /\ q \in 1..(n+1) /\ (q - 1) - 1 \in G
    BY <1>2
  <2> QED
    BY <2>1
<1> HIDE DEF H
<1>3. n + 1 \in Nat /\ n + 1 >= 1
  OBVIOUS
<1>4. \A q \in 1..(n+1) : q \in H
  BY <1>1, <1>2, <1>3, CountingUp
<1>5. \A p \in 0..n : p + 1 \in 1..(n+1) /\ (p + 1) - 1 = p
  OBVIOUS
<1> QED
  BY <1>4, <1>5 DEF H

\* sum[n] is the sum of the first n numbers of s.
Sums(sum, s) ==
  /\ \A n \in 0..Len(s) : sum[n] \in Nat
  /\ sum[0] = 0
  /\ \A n \in 1..Len(s) : sum[n] = sum[n-1] + s[n]
  /\ Total(s) = sum[Len(s)]

\* The recursive function that Total is defined by exists.
LEMMA TotalSums ==
  ASSUME NEW s \in Seq(Nat)
  PROVE  \E sum : Sums(sum, s)
<1> DEFINE n == Len(s)
           Step(g, m) == \A i \in 0..m : g[i] = IF i = 0 THEN 0 ELSE g[i-1] + s[i]
           Good(m) == \E g \in [0..m -> Nat] : Step(g, m)
<1>1. n \in Nat /\ \A i \in 1..n : s[i] \in Nat
  BY LenProperties, ElementOfSeq
<1> HIDE DEF n
<1>2. \A m \in 0..n : Good(m)
  <2> DEFINE G == {m \in 0..n : Good(m)}
  <2>1. Good(0)
    <3> DEFINE h == [i \in 0..0 |-> 0]
    <3>1. h \in [0..0 -> Nat] /\ Step(h, 0)
      OBVIOUS
    <3> QED
      BY <3>1
  <2>2. ASSUME NEW p \in 1..n, Good(p - 1) PROVE Good(p)
    <3>1. PICK g \in [0..(p-1) -> Nat] : Step(g, p - 1)
      BY <2>2
    <3> DEFINE h == [i \in 0..p |-> IF i = p THEN g[p-1] + s[p] ELSE g[i]]
    <3>2. p \in 1..n /\ p \in 0..p /\ p - 1 \in 0..p /\ p - 1 \in 0..(p-1) /\ p - 1 # p /\ p # 0
      BY <1>1
    <3>3. g[p-1] + s[p] \in Nat
      BY <1>1, <3>2
    <3>4. h \in [0..p -> Nat]
      BY <3>3
    <3>5. h[p] = g[p-1] + s[p] /\ \A i \in 0..(p-1) : h[i] = g[i]
      <4>1. \A i \in 0..(p-1) : i \in 0..p /\ i # p
        OBVIOUS
      <4> QED
        BY <3>2, <4>1
    <3> HIDE DEF h
    <3>6. Step(h, p)
      <4> SUFFICES ASSUME NEW i \in 0..p
                   PROVE  h[i] = IF i = 0 THEN 0 ELSE h[i-1] + s[i]
        OBVIOUS
      <4>1. CASE i = p
        BY <4>1, <3>2, <3>5
      <4>2. CASE i # p
        <5>1. i \in 0..(p-1) /\ (i # 0 => i - 1 \in 0..(p-1))
          BY <4>2
        <5> QED
          BY <5>1, <3>1, <3>5
      <4> QED
        BY <4>1, <4>2
    <3> QED
      BY <3>4, <3>6
  <2> HIDE DEF Good
  <2>3. 0 \in G /\ \A m \in 1..n : m - 1 \in G => m \in G
    BY <1>1, <2>1, <2>2
  <2> HIDE DEF G
  <2>4. \A m \in 0..n : m \in G
    BY <1>1, <2>3, CountingFromZero
  <2> QED
    BY <2>4 DEF G
<1>3. PICK g \in [0..n -> Nat] : Step(g, n)
  <2> HIDE DEF Good
  <2>1. Good(n)
    BY <1>1, <1>2
  <2> QED
    BY <2>1 DEF Good
<1> DEFINE Is(f) == f = [i \in 0..n |-> IF i = 0 THEN 0 ELSE f[i-1] + s[i]]
<1>4. Is(g)
  BY <1>3
<1> DEFINE f == CHOOSE f : Is(f)
<1>5. Total(s) = f[n]
  BY DEF Total, n
<1>6. Is(f)
  BY <1>4
<1> HIDE DEF f
<1>7. \A i \in 0..n : f[i] = IF i = 0 THEN 0 ELSE f[i-1] + s[i]
  BY <1>6
<1>8. f[0] = 0 /\ \A i \in 1..n : f[i] = f[i-1] + s[i]
  <2>1. 0 \in 0..n /\ \A i \in 1..n : i \in 0..n /\ i # 0
    BY <1>1
  <2> QED
    BY <1>7, <2>1
<1>9. \A i \in 0..n : f[i] \in Nat
  <2> DEFINE G == {i \in 0..n : f[i] \in Nat}
  <2>1. 0 \in G
    BY <1>1, <1>8
  <2>2. ASSUME NEW m \in 1..n, m - 1 \in G PROVE m \in G
    <3>1. m \in 0..n /\ f[m-1] \in Nat /\ s[m] \in Nat
      BY <1>1, <2>2
    <3> QED
      BY <1>8, <3>1
  <2> HIDE DEF G
  <2>3. \A i \in 0..n : i \in G
    BY <1>1, <2>1, <2>2, CountingFromZero
  <2> QED
    BY <2>3 DEF G
<1>10. Sums(f, s)
  BY <1>5, <1>8, <1>9 DEF Sums, n
<1> QED
  BY <1>10

\* A sum is a number; that of nothing is 0.
LEMMA TotalTyped ==
  /\ \A s \in Seq(Nat) : Total(s) \in Nat
  /\ Total(<< >>) = 0
<1>1. ASSUME NEW s \in Seq(Nat) PROVE Total(s) \in Nat /\ (s = << >> => Total(s) = 0)
  <2>1. PICK sum : Sums(sum, s)
    BY TotalSums
  <2>2. Len(s) \in Nat /\ (s = << >> => Len(s) = 0)
    BY LenProperties
  <2> QED
    BY <2>1, <2>2 DEF Sums
<1>2. << >> \in Seq(Nat)
  BY EmptySeq
<1> QED
  BY <1>1, <1>2

\* The sum of two sequences, one behind the other.
LEMMA TotalConcat ==
  ASSUME NEW a \in Seq(Nat), NEW b \in Seq(Nat)
  PROVE  Total(a \o b) = Total(a) + Total(b)
<1> DEFINE c == a \o b
           la == Len(a)
           lb == Len(b)
<1>1. /\ c \in Seq(Nat) /\ Len(c) = la + lb /\ la \in Nat /\ lb \in Nat
      /\ \A i \in 1..la : a[i] \in Nat
      /\ \A i \in 1..lb : b[i] \in Nat
      /\ \A i \in 1..(la + lb) : c[i] = IF i <= la THEN a[i] ELSE b[i - la]
  BY ConcatProperties, LenProperties, ElementOfSeq
<1>2. (\E f : Sums(f, a)) /\ (\E g : Sums(g, b)) /\ (\E h : Sums(h, c))
  <2> HIDE DEF c
  <2> QED
    BY <1>1, TotalSums
<1> HIDE DEF c
<1>3. PICK f : Sums(f, a)
  BY <1>2
<1>4. PICK g : Sums(g, b)
  BY <1>2
<1>5. PICK h : Sums(h, c)
  BY <1>2
<1>6. /\ f[0] = 0 /\ \A n \in 1..la : f[n] = f[n-1] + a[n]
      /\ \A n \in 0..la : f[n] \in Nat
      /\ Total(a) = f[la]
  BY <1>3 DEF Sums
<1>7. /\ g[0] = 0 /\ \A n \in 1..lb : g[n] = g[n-1] + b[n]
      /\ \A n \in 0..lb : g[n] \in Nat
      /\ Total(b) = g[lb]
  BY <1>4 DEF Sums
<1>8. /\ h[0] = 0 /\ \A n \in 1..(la + lb) : h[n] = h[n-1] + c[n]
      /\ Total(c) = h[la + lb]
  BY <1>1, <1>5 DEF Sums
<1> HIDE DEF la, lb
<1>9. h[la] = f[la]
  <2> DEFINE G == {n \in 0..la : h[n] = f[n]}
  <2>1. 0 \in G
    BY <1>1, <1>6, <1>8
  <2>2. ASSUME NEW p \in 1..la, p - 1 \in G PROVE p \in G
    <3>1. p \in 1..(la + lb) /\ p <= la /\ p \in 0..la
      BY <1>1
    <3>2. c[p] = a[p]
      BY <1>1, <3>1
    <3>3. h[p] = h[p-1] + c[p] /\ f[p] = f[p-1] + a[p] /\ h[p-1] = f[p-1]
      BY <1>6, <1>8, <2>2, <3>1
    <3> QED
      BY <3>1, <3>2, <3>3
  <2> HIDE DEF G
  <2>3. \A p \in 0..la : p \in G
    BY <1>1, <2>1, <2>2, CountingFromZero
  <2>4. la \in 0..la
    BY <1>1
  <2> QED
    BY <2>3, <2>4 DEF G
<1>10. h[la + lb] = f[la] + g[lb]
  <2> DEFINE G == {n \in 0..lb : h[la + n] = f[la] + g[n]}
  <2>1. 0 \in G
    BY <1>1, <1>6, <1>7, <1>9
  <2>2. ASSUME NEW p \in 1..lb, p - 1 \in G PROVE p \in G
    <3>1. /\ la + p \in 1..(la + lb) /\ ~(la + p <= la) /\ (la + p) - la = p /\ p \in 0..lb
          /\ (la + p) - 1 = la + (p - 1) /\ p - 1 \in 0..lb /\ la \in 0..la
      BY <1>1
    <3>2. c[la + p] = b[p]
      BY <1>1, <3>1
    <3>3. /\ h[la + p] = h[la + (p - 1)] + c[la + p] /\ g[p] = g[p-1] + b[p]
          /\ h[la + (p - 1)] = f[la] + g[p - 1]
      BY <1>7, <1>8, <2>2, <3>1
    <3>4. f[la] \in Nat /\ g[p-1] \in Nat /\ b[p] \in Nat
      BY <1>1, <1>6, <1>7, <3>1
    <3>5. h[la + p] = f[la] + g[p]
      BY <3>2, <3>3, <3>4
    <3> QED
      BY <3>1, <3>5
  <2> HIDE DEF G
  <2>3. \A p \in 0..lb : p \in G
    BY <1>1, <2>1, <2>2, CountingFromZero
  <2>4. lb \in 0..lb
    BY <1>1
  <2> QED
    BY <2>3, <2>4 DEF G
<1> QED
  BY <1>6, <1>7, <1>8, <1>10 DEF c

\* Of larger numbers, no smaller sum.
LEMMA TotalMonotonic ==
  ASSUME NEW s \in Seq(Nat), NEW t \in Seq(Nat), Len(s) = Len(t),
         \A i \in 1..Len(s) : s[i] <= t[i]
  PROVE  Total(s) <= Total(t)
<1>1. Len(s) \in Nat /\ \A i \in 1..Len(s) : s[i] \in Nat /\ t[i] \in Nat
  BY LenProperties, ElementOfSeq
<1>2. (\E f : Sums(f, s)) /\ (\E g : Sums(g, t))
  BY TotalSums
<1>3. PICK f : Sums(f, s)
  BY <1>2
<1>4. PICK g : Sums(g, t)
  BY <1>2
<1> DEFINE n == Len(s)
           G == {p \in 0..n : f[p] <= g[p]}
<1>5. 0 \in G
  BY <1>1, <1>3, <1>4 DEF Sums
<1>6. ASSUME NEW p \in 1..n, p - 1 \in G PROVE p \in G
  <2>1. p \in 0..n /\ p - 1 \in 0..n
    BY <1>1
  <2>2. /\ f[p] = f[p-1] + s[p] /\ f[p-1] \in Nat /\ s[p] \in Nat
        /\ g[p] = g[p-1] + t[p] /\ g[p-1] \in Nat /\ t[p] \in Nat
        /\ f[p-1] <= g[p-1] /\ s[p] <= t[p]
    BY <1>1, <1>3, <1>4, <1>6, <2>1 DEF Sums
  <2> QED
    BY <2>1, <2>2
<1> HIDE DEF G
<1>7. \A p \in 0..n : p \in G
  BY <1>1, <1>5, <1>6, CountingFromZero
<1>8. n \in 0..n
  BY <1>1
<1> QED
  BY <1>3, <1>4, <1>7, <1>8 DEF G, Sums

\* The sum of numbers that were divided by 4 and rounded down.
LEMMA TotalOfQuarters ==
  ASSUME NEW s \in Seq(Nat), NEW t \in Seq(Nat), Len(s) = Len(t),
         \A i \in 1..Len(s) : s[i] <= 4 * t[i] + 3
  PROVE  Total(s) <= 4 * Total(t) + 3 * Len(t)
<1>1. Len(s) \in Nat /\ \A i \in 1..Len(s) : s[i] \in Nat /\ t[i] \in Nat
  BY LenProperties, ElementOfSeq
<1>2. (\E f : Sums(f, s)) /\ (\E g : Sums(g, t))
  BY TotalSums
<1>3. PICK f : Sums(f, s)
  BY <1>2
<1>4. PICK g : Sums(g, t)
  BY <1>2
<1> DEFINE n == Len(s)
           G == {p \in 0..n : f[p] <= 4 * g[p] + 3 * p}
<1>5. 0 \in G
  <2>1. f[0] = 0 /\ g[0] = 0 /\ 0 \in 0..n
    BY <1>1, <1>3, <1>4 DEF Sums
  <2>2. f[0] <= 4 * g[0] + 3 * 0
    BY <2>1
  <2> QED
    BY <2>1, <2>2
<1>6. ASSUME NEW p \in 1..n, p - 1 \in G PROVE p \in G
  <2>1. p \in 0..n /\ p - 1 \in 0..n
    BY <1>1
  <2>2. /\ f[p] = f[p-1] + s[p] /\ f[p-1] \in Nat /\ s[p] \in Nat
        /\ g[p] = g[p-1] + t[p] /\ g[p-1] \in Nat /\ t[p] \in Nat
        /\ f[p-1] <= 4 * g[p-1] + 3 * (p - 1) /\ s[p] <= 4 * t[p] + 3
    BY <1>1, <1>3, <1>4, <1>6, <2>1 DEF Sums
  <2>3. \A x, y, v, w \in Nat :
          x <= 4 * v + 3 * (p - 1) /\ y <= 4 * w + 3 => x + y <= 4 * (v + w) + 3 * p
    BY <2>1
  <2>4. f[p] <= 4 * g[p] + 3 * p
    BY <2>2, <2>3
  <2> QED
    BY <2>1, <2>4
<1> HIDE DEF G
<1>7. \A p \in 0..n : p \in G
  BY <1>1, <1>5, <1>6, CountingFromZero
<1>8. n \in 0..n
  BY <1>1
<1> QED
  BY <1>3, <1>4, <1>7, <1>8 DEF G, Sums

\* The length of a text.
LEMMA CharsTyped ==
  ASSUME NEW t \in Seq(Words)
  PROVE  /\ [i \in DOMAIN t |-> CharsOf[t[i]]] \in Seq(Nat)
         /\ Len([i \in DOMAIN t |-> CharsOf[t[i]]]) = Len(t)
         /\ Chars(t) \in Nat
<1> DEFINE s == [i \in DOMAIN t |-> CharsOf[t[i]]]
<1>1. Len(t) \in Nat /\ DOMAIN t = 1..Len(t) /\ \A i \in DOMAIN t : t[i] \in Words
  BY LenProperties, ElementOfSeq
<1>2. s \in [1..Len(t) -> Nat] /\ Len(s) = Len(t)
  BY <1>1, WordsAssumption
<1>3. s \in Seq(Nat)
  BY <1>1, <1>2
<1>4. Total(s) \in Nat
  BY <1>3, TotalTyped
<1> QED
  BY <1>2, <1>3, <1>4 DEF Chars

\* The length of no text, and of two texts, one behind the other.
LEMMA CharsConcat ==
  /\ Chars(<< >>) = 0
  /\ \A a, b \in Seq(Words) : Chars(a \o b) = Chars(a) + Chars(b)
<1>1. Chars(<< >>) = 0
  <2>1. [i \in DOMAIN << >> |-> CharsOf[<< >>[i]]] = << >>
    OBVIOUS
  <2> QED
    BY <2>1, TotalTyped DEF Chars
<1>2. ASSUME NEW a \in Seq(Words), NEW b \in Seq(Words)
      PROVE  Chars(a \o b) = Chars(a) + Chars(b)
  <2> DEFINE c  == a \o b
             sa == [i \in DOMAIN a |-> CharsOf[a[i]]]
             sb == [i \in DOMAIN b |-> CharsOf[b[i]]]
             sc == [i \in DOMAIN c |-> CharsOf[c[i]]]
  <2>1. /\ c \in Seq(Words) /\ Len(c) = Len(a) + Len(b) /\ DOMAIN c = 1..(Len(a) + Len(b))
        /\ \A i \in 1..(Len(a) + Len(b)) : c[i] = IF i <= Len(a) THEN a[i] ELSE b[i - Len(a)]
        /\ Len(a) \in Nat /\ Len(b) \in Nat /\ DOMAIN a = 1..Len(a) /\ DOMAIN b = 1..Len(b)
    BY ConcatProperties, LenProperties
  <2> HIDE DEF c
  <2>2. /\ sa \in Seq(Nat) /\ Len(sa) = Len(a)
        /\ sb \in Seq(Nat) /\ Len(sb) = Len(b)
        /\ sc \in Seq(Nat) /\ Len(sc) = Len(c)
    BY <2>1, CharsTyped
  <2>3. /\ \A i \in 1..Len(a) : sa[i] = CharsOf[a[i]]
        /\ \A i \in 1..Len(b) : sb[i] = CharsOf[b[i]]
        /\ \A i \in 1..(Len(a) + Len(b)) : sc[i] = CharsOf[c[i]]
    BY <2>1
  <2>4. Total(sa) = Chars(a) /\ Total(sb) = Chars(b) /\ Total(sc) = Chars(c)
    BY DEF Chars
  <2> HIDE DEF sa, sb, sc
  <2> DEFINE d == sa \o sb
  <2>5. /\ d \in Seq(Nat) /\ Len(d) = Len(a) + Len(b)
        /\ \A i \in 1..(Len(sa) + Len(sb)) : d[i] = IF i <= Len(sa) THEN sa[i] ELSE sb[i - Len(sa)]
    <3>1. sa \in Seq(Nat) /\ sb \in Seq(Nat)
      BY <2>2
    <3>2. /\ d \in Seq(Nat) /\ Len(d) = Len(sa) + Len(sb)
          /\ \A i \in 1..(Len(sa) + Len(sb)) : d[i] = IF i <= Len(sa) THEN sa[i] ELSE sb[i - Len(sa)]
      BY <3>1, ConcatProperties
    <3> HIDE DEF d
    <3> QED
      BY <2>2, <3>2
  <2> HIDE DEF d
  <2>6. \A i \in 1..(Len(a) + Len(b)) : d[i] = sc[i]
    <3> TAKE i \in 1..(Len(a) + Len(b))
    <3>1. d[i] = IF i <= Len(a) THEN sa[i] ELSE sb[i - Len(a)]
      BY <2>2, <2>5
    <3>2. CASE i <= Len(a)
      <4>1. i \in 1..Len(a)
        BY <2>1, <3>2
      <4> QED
        BY <2>1, <2>3, <3>1, <3>2, <4>1
    <3>3. CASE ~(i <= Len(a))
      <4>1. i - Len(a) \in 1..Len(b)
        BY <2>1, <3>3
      <4> QED
        BY <2>1, <2>3, <3>1, <3>3, <4>1
    <3> QED
      BY <3>2, <3>3
  <2>7. d = sc
    BY <2>1, <2>2, <2>5, <2>6, SeqEqual
  <2>8. Total(d) = Total(sa) + Total(sb)
    BY <2>2, TotalConcat DEF d
  <2> QED
    BY <2>4, <2>7, <2>8 DEF c
<1> QED
  BY <1>1, <1>2

\* The length of texts, one behind the other.
LEMMA CharsFlatten ==
  ASSUME NEW ts \in Seq(Seq(Words)),
         NEW ns, DOMAIN ns = DOMAIN ts, ns = [n \in DOMAIN ns |-> ns[n]],
         \A n \in DOMAIN ts : ns[n] = Chars(ts[n])
  PROVE  ns \in Seq(Nat) /\ Len(ns) = Len(ts) /\ Chars(FlattenSeq(ts)) = Total(ns)
<1>1. Len(ts) \in Nat /\ DOMAIN ts = 1..Len(ts) /\ \A n \in 1..Len(ts) : ts[n] \in Seq(Words)
  BY LenProperties, ElementOfSeq
<1>2. \A n \in 1..Len(ts) : ns[n] \in Nat
  BY <1>1, CharsTyped
<1>3. ns \in [1..Len(ts) -> Nat]
  BY <1>1, <1>2
<1>4. ns \in Seq(Nat) /\ Len(ns) = Len(ts)
  <2> DEFINE k == Len(ts)
  <2>1. k \in Nat /\ ns \in [1..k -> Nat]
    BY <1>1, <1>3
  <2> HIDE DEF k
  <2>2. ns \in Seq(Nat) /\ Len(ns) = k
    BY <2>1
  <2> QED
    BY <2>2 DEF k
<1>5. PICK sum : Sums(sum, ns)
  BY <1>4, TotalSums
<1>6. CASE ts = << >>
  <2>1. FlattenSeq(ts) = << >>
    BY <1>6, FlattenFew, EmptySeq
  <2>2. Len(ns) = 0
    BY <1>4, <1>6
  <2>3. Total(ns) = 0
    BY <1>5, <2>2 DEF Sums
  <2> QED
    BY <1>4, <2>1, <2>3, CharsConcat
<1>7. CASE ts # << >>
  <2>1. PICK f : SoFar(f, Words, ts)
    BY <1>7, FlattenPrefixes
  <2>2. Len(ts) >= 1
    BY <1>1, <1>7, EmptySeq
  <2> DEFINE G == {n \in 1..Len(ts) : Chars(f[n]) = sum[n]}
  <2>3. 1 \in G
    <3>1. 1 \in 1..Len(ts) /\ 1 \in 1..Len(ns) /\ 1 - 1 = 0
      BY <1>1, <1>4, <2>2
    <3>2. f[1] = ts[1] /\ sum[1] = sum[0] + ns[1] /\ sum[0] = 0 /\ ns[1] \in Nat
      BY <1>2, <1>5, <2>1, <3>1 DEF SoFar, Sums
    <3>3. ns[1] = Chars(ts[1])
      BY <1>1, <3>1
    <3> QED
      BY <3>1, <3>2, <3>3
  <2>4. ASSUME NEW n \in 2..Len(ts), n - 1 \in G PROVE n \in G
    <3>1. n \in 1..Len(ts) /\ n - 1 \in 1..Len(ts) /\ n \in 1..Len(ns)
      BY <1>1, <1>4
    <3>2. f[n] = f[n-1] \o ts[n] /\ f[n-1] \in Seq(Words) /\ ts[n] \in Seq(Words)
      BY <1>1, <2>1, <3>1 DEF SoFar
    <3>3. sum[n] = sum[n-1] + ns[n]
      BY <1>5, <3>1 DEF Sums
    <3>4. ns[n] = Chars(ts[n])
      BY <1>1, <3>1
    <3>5. Chars(f[n-1] \o ts[n]) = Chars(f[n-1]) + Chars(ts[n])
      BY <3>2, CharsConcat
    <3>6. Chars(f[n-1]) = sum[n-1]
      BY <2>4
    <3> QED
      BY <3>1, <3>2, <3>3, <3>4, <3>5, <3>6
  <2> HIDE DEF G
  <2>5. \A n \in 1..Len(ts) : n \in G
    BY <1>1, <2>2, <2>3, <2>4, CountingUp
  <2>6. Len(ts) \in 1..Len(ts)
    BY <1>1, <2>2
  <2>7. Chars(f[Len(ts)]) = sum[Len(ts)]
    BY <2>5, <2>6 DEF G
  <2> QED
    BY <1>4, <1>5, <2>1, <2>7 DEF SoFar, Sums
<1> QED
  BY <1>6, <1>7

-------------------------------------------------------------------------------
(* Results and calls. *)

\* A conversation whose results follow their calls may go on with another one.
LEMMA ResultsFollowAfter ==
  ASSUME NEW a \in Seq(Message), NEW b \in Seq(Message),
         ResultsFollowCalls(a), ResultsFollowCalls(b)
  PROVE  ResultsFollowCalls(a \o b)
<1>1. /\ Len(a) \in Nat /\ Len(b) \in Nat /\ Len(a \o b) = Len(a) + Len(b)
      /\ a \o b \in Seq(Message)
      /\ \A n \in 1..Len(a) : (a \o b)[n] = a[n]
      /\ \A n \in 1..Len(b) : (a \o b)[Len(a) + n] = b[n]
  BY LenProperties, ConcatProperties
<1>2. DOMAIN a = 1..Len(a) /\ DOMAIN b = 1..Len(b) /\ DOMAIN (a \o b) = 1..(Len(a) + Len(b))
  BY <1>1, LenProperties
<1> DEFINE c == a \o b  la == Len(a)  lb == Len(b)
<1> HIDE DEF c, la, lb
<1> SUFFICES ASSUME NEW n \in DOMAIN c, NEW j \in DOMAIN c[n].content, IsResult(c[n].content[j])
             PROVE  \E m \in 1..n : \E i \in DOMAIN c[m].content :
                      /\ m < n \/ i < j
                      /\ IsCall(c[m].content[i])
                      /\ c[m].content[i].id = c[n].content[j].id
  BY DEF ResultsFollowCalls, c
<1>3. CASE n \in 1..la
  <2>1. c[n] = a[n] /\ n \in DOMAIN a
    BY <1>1, <1>2, <1>3 DEF c, la
  <2>2. PICK m \in 1..n : \E i \in DOMAIN a[m].content :
               /\ m < n \/ i < j
               /\ IsCall(a[m].content[i])
               /\ a[m].content[i].id = a[n].content[j].id
    BY <2>1 DEF ResultsFollowCalls
  <2>3. c[m] = a[m]
    BY <1>1, <1>3 DEF c, la
  <2> QED
    BY <2>1, <2>2, <2>3
<1>4. CASE n \notin 1..la
  <2>1. n - la \in 1..lb /\ n = la + (n - la) /\ n \in Int /\ la \in Nat /\ lb \in Nat
    BY <1>1, <1>2, <1>4 DEF c, la, lb
  <2> DEFINE k == n - la
  <2>2. c[n] = b[k] /\ k \in DOMAIN b
    BY <1>1, <1>2, <2>1 DEF c, la, lb
  <2>3. PICK m \in 1..k : \E i \in DOMAIN b[m].content :
               /\ m < k \/ i < j
               /\ IsCall(b[m].content[i])
               /\ b[m].content[i].id = b[k].content[j].id
    BY <2>2 DEF ResultsFollowCalls
  <2>4. m \in 1..lb
    BY <2>1
  <2>5. c[la + m] = b[m]
    BY <1>1, <2>4 DEF c, la, lb
  <2>6. la + m \in 1..n /\ (m < k => la + m < n)
    BY <2>1
  <2> HIDE DEF k
  <2> QED
    BY <2>2, <2>3, <2>5, <2>6
<1> QED
  BY <1>3, <1>4

\* A message without results may follow any conversation.
LEMMA ResultsFollowBeforeMessage ==
  ASSUME NEW a \in Seq(Message), NEW m \in Message, ResultsFollowCalls(a),
         \A j \in DOMAIN m.content : ~IsResult(m.content[j])
  PROVE  ResultsFollowCalls(a \o <<m>>)
<1>1. <<m>> \in Seq(Message) /\ ResultsFollowCalls(<<m>>)
  BY DEF ResultsFollowCalls
<1> QED
  BY <1>1, ResultsFollowAfter

\* So may one with results, if each is for a call of the conversation.
LEMMA ResultsFollowBeforeAnswers ==
  ASSUME NEW a \in Seq(Message), NEW m \in Message, ResultsFollowCalls(a),
         \A j \in DOMAIN m.content : IsResult(m.content[j]) =>
           \E n \in DOMAIN a : \E i \in DOMAIN a[n].content :
             IsCall(a[n].content[i]) /\ a[n].content[i].id = m.content[j].id
  PROVE  ResultsFollowCalls(a \o <<m>>)
<1> DEFINE c == a \o <<m>>  la == Len(a)
<1>1. /\ la \in Nat /\ DOMAIN a = 1..la /\ DOMAIN c = 1..(la + 1)
      /\ \A n \in 1..la : c[n] = a[n]
      /\ c[la + 1] = m
  <2>1. <<m>> \in Seq(Message) /\ Len(<<m>>) = 1 /\ <<m>>[1] = m
    OBVIOUS
  <2> DEFINE b == <<m>>
  <2>2. b \in Seq(Message) /\ Len(b) = 1 /\ b[1] = m
    BY <2>1
  <2> HIDE DEF b
  <2>3. /\ Len(a \o b) = Len(a) + 1 /\ a \o b \in Seq(Message)
        /\ \A n \in 1..Len(a) : (a \o b)[n] = a[n]
        /\ (a \o b)[Len(a) + 1] = m
    <3>1. /\ Len(a \o b) = Len(a) + Len(b) /\ a \o b \in Seq(Message)
          /\ \A n \in 1..Len(a) : (a \o b)[n] = a[n]
          /\ \A n \in 1..Len(b) : (a \o b)[Len(a) + n] = b[n]
      BY <2>2, ConcatProperties
    <3>2. 1 \in 1..Len(b)
      BY <2>2
    <3> QED
      BY <2>2, <3>1, <3>2
  <2>4. c = a \o b
    BY DEF b
  <2> HIDE DEF c
  <2> QED
    BY <2>3, <2>4, LenProperties
<1> HIDE DEF c, la
<1> SUFFICES ASSUME NEW n \in DOMAIN c, NEW j \in DOMAIN c[n].content, IsResult(c[n].content[j])
             PROVE  \E k \in 1..n : \E i \in DOMAIN c[k].content :
                      /\ k < n \/ i < j
                      /\ IsCall(c[k].content[i])
                      /\ c[k].content[i].id = c[n].content[j].id
  BY DEF ResultsFollowCalls, c
<1>2. CASE n \in 1..la
  <2>1. c[n] = a[n] /\ n \in DOMAIN a
    BY <1>1, <1>2
  <2>2. PICK k \in 1..n : \E i \in DOMAIN a[k].content :
               /\ k < n \/ i < j
               /\ IsCall(a[k].content[i])
               /\ a[k].content[i].id = a[n].content[j].id
    BY <2>1 DEF ResultsFollowCalls
  <2>3. c[k] = a[k]
    BY <1>1, <1>2
  <2> QED
    BY <2>1, <2>2, <2>3
<1>3. CASE n \notin 1..la
  <2>1. n = la + 1 /\ c[n] = m
    BY <1>1, <1>3
  <2>2. PICK k \in DOMAIN a : \E i \in DOMAIN a[k].content :
               IsCall(a[k].content[i]) /\ a[k].content[i].id = c[n].content[j].id
    BY <2>1
  <2>3. k \in 1..n /\ k < n /\ c[k] = a[k]
    BY <1>1, <2>1
  <2> QED
    BY <2>2, <2>3
<1> QED
  BY <1>2, <1>3
===============================================================================
