------------------------- MODULE LabeledIndexProofs -------------------------
(***************************************************************************)
(* Theorems about LabeledIndex, for any number of saves, any levels, any   *)
(* metrics and any point at which a save is cut.                           *)
(***************************************************************************)
EXTENDS LabeledIndex, SequenceTheorems, FiniteSetTheorems, TLAPS

-----------------------------------------------------------------------------
(* Numbers and recursion                                                   *)

\* Any set of natural numbers that is not empty has a least member.
LEMMA LeastExists ==
  ASSUME NEW T, T \subseteq Nat, T # {}
  PROVE  \E x \in T : \A y \in T : x <= y
<1> DEFINE R == {p \in Nat \X Nat : p[1] < p[2]}
<1>1. IsWellFoundedOn(R, Nat)
  BY NatLessThanWellFounded DEF OpToRel
<1> HIDE DEF R
<1>2. PICK x \in T : \A y \in T : ~(<<y, x>> \in R)
  BY <1>1, WFMin
<1>3. \A y \in T : ~(y < x)
  BY <1>2 DEF R
<1> QED BY <1>3

\* A table of n entries, each computed from the one before.
Follows(f, n, base, step) ==
  \A i \in 1..n : f[i] = IF i = 1 THEN base ELSE step[i][f[i - 1]]

LEMMA TableExists ==
  ASSUME NEW n \in Nat, NEW S, NEW base \in S, NEW step \in [1..n -> [S -> S]]
  PROVE  \E f \in [1..n -> S] : Follows(f, n, base, step)
<1> DEFINE bad == {m \in 0..n : ~\E f \in [1..m -> S] : Follows(f, m, base, step)}
<1>1. bad = {}
  <2> SUFFICES ASSUME bad # {} PROVE FALSE
    OBVIOUS
  <2>1. bad \subseteq Nat
    OBVIOUS
  <2>2. PICK m \in bad : \A k \in bad : m <= k
    BY <2>1, LeastExists
  <2>3. m # 0
    <3>1. [i \in 1..0 |-> base] \in [1..0 -> S]
      OBVIOUS
    <3>2. Follows([i \in 1..0 |-> base], 0, base, step)
      BY DEF Follows
    <3> QED BY <2>2, <3>1, <3>2
  <2>4. m \in Nat /\ m - 1 \in 0..n /\ m - 1 \notin bad
    BY <2>2, <2>3
  <2>5. PICK f \in [1..(m - 1) -> S] : Follows(f, m - 1, base, step)
    BY <2>4
  <2> DEFINE last == IF m = 1 THEN base ELSE step[m][f[m - 1]]
             g == [i \in 1..m |-> IF i = m THEN last ELSE f[i]]
  <2>6. last \in S
    <3>1. CASE m = 1
      BY <3>1
    <3>2. CASE m # 1
      <4>1. m - 1 \in 1..(m - 1) /\ m \in 1..n
        BY <2>2, <2>4, <3>2
      <4> QED BY <3>2, <4>1
    <3> QED BY <3>1, <3>2
  <2> HIDE DEF last
  <2>7. g \in [1..m -> S]
    BY <2>4, <2>6
  <2>8. Follows(g, m, base, step)
    <3> SUFFICES ASSUME NEW i \in 1..m
                 PROVE  g[i] = IF i = 1 THEN base ELSE step[i][g[i - 1]]
      BY DEF Follows
    <3>1. i # 1 => g[i - 1] = f[i - 1]
      BY <2>4
    <3>2. CASE i = m
      BY <2>4, <3>1, <3>2 DEF last
    <3>3. CASE i # m
      <4>1. i \in 1..(m - 1) /\ g[i] = f[i]
        BY <2>4, <3>3
      <4>2. f[i] = IF i = 1 THEN base ELSE step[i][f[i - 1]]
        BY <2>5, <4>1 DEF Follows
      <4> QED BY <3>1, <4>1, <4>2
    <3> QED BY <3>2, <3>3
  <2> QED BY <2>2, <2>7, <2>8
<1>2. n \notin bad
  BY <1>1
<1> QED BY <1>2

-----------------------------------------------------------------------------
(* Sequences laid end to end                                               *)

\* What a concatenation consists of.
JoinOf(c, a, b) ==
  /\ Len(a) \in Nat /\ Len(b) \in Nat /\ Len(c) = Len(a) + Len(b)
  /\ \A k \in 1..Len(a) : c[k] = a[k]
  /\ \A k \in 1..Len(b) : c[Len(a) + k] = b[k]

LEMMA Joined ==
  ASSUME NEW E, NEW a \in Seq(E), NEW b \in Seq(E)
  PROVE  a \o b \in Seq(E) /\ JoinOf(a \o b, a, b)
<1>1. Len(a) \in Nat /\ Len(b) \in Nat
  BY LenProperties
<1>2. a \o b \in Seq(E) /\ Len(a \o b) = Len(a) + Len(b)
  BY ConcatProperties
<1>3. \A k \in 1..Len(a) : (a \o b)[k] = a[k]
  BY ConcatProperties
<1>4. \A k \in 1..Len(b) : (a \o b)[Len(a) + k] = b[k]
  BY ConcatProperties
<1> QED BY <1>1, <1>2, <1>3, <1>4 DEF JoinOf

FlatStep(f, s) == f = [i \in 1..Len(s) |-> IF i = 1 THEN s[i] ELSE f[i - 1] \o s[i]]

LEMMA FlatUnique ==
  ASSUME NEW E, NEW s \in Seq(Seq(E)), NEW f, NEW g, FlatStep(f, s), FlatStep(g, s)
  PROVE  f = g
<1> DEFINE bad == {i \in 1..Len(s) : f[i] # g[i]}
<1>0. Len(s) \in Nat
  BY LenProperties
<1>a. \A i \in 1..Len(s) : f[i] = IF i = 1 THEN s[i] ELSE f[i - 1] \o s[i]
  BY DEF FlatStep
<1>b. \A i \in 1..Len(s) : g[i] = IF i = 1 THEN s[i] ELSE g[i - 1] \o s[i]
  BY DEF FlatStep
<1>1. bad = {}
  <2> SUFFICES ASSUME bad # {} PROVE FALSE
    OBVIOUS
  <2>1. PICK i \in bad : \A k \in bad : i <= k
    <3>1. bad \subseteq Nat
      BY <1>0
    <3> QED BY <3>1, LeastExists
  <2>2. i # 1 => i - 1 \in 1..Len(s) /\ i - 1 \notin bad
    BY <1>0, <2>1
  <2>3. i # 1 => f[i - 1] = g[i - 1]
    BY <2>2
  <2> QED BY <1>a, <1>b, <2>1, <2>3
<1>2. \A i \in 1..Len(s) : f[i] = g[i]
  BY <1>1
<1> QED BY <1>2 DEF FlatStep

LEMMA FlatExists ==
  ASSUME NEW E, NEW s \in Seq(Seq(E)), Len(s) # 0
  PROVE  \E f \in [1..Len(s) -> Seq(E)] : FlatStep(f, s)
<1> DEFINE n == Len(s)
           step == [i \in 1..n |-> [x \in Seq(E) |-> x \o s[i]]]
<1>1. n \in Nat /\ DOMAIN s = 1..n /\ \A i \in 1..n : s[i] \in Seq(E)
  BY LenProperties, ElementOfSeq
<1>2. s[1] \in Seq(E)
  BY <1>1
<1>3. step \in [1..n -> [Seq(E) -> Seq(E)]]
  BY <1>1, ConcatProperties
<1> HIDE DEF n
<1>4. PICK f \in [1..n -> Seq(E)] : Follows(f, n, s[1], step)
  <2> HIDE DEF step
  <2> QED BY <1>1, <1>2, <1>3, TableExists
<1>5. ASSUME NEW i \in 1..n PROVE f[i] = IF i = 1 THEN s[i] ELSE f[i - 1] \o s[i]
  <2>1. f[i] = IF i = 1 THEN s[1] ELSE step[i][f[i - 1]]
    BY <1>4 DEF Follows
  <2>2. i # 1 => f[i - 1] \in Seq(E)
    BY <1>1
  <2> QED BY <2>1, <2>2
<1> QED BY <1>4, <1>5 DEF FlatStep, n

LEMMA FlattenIs ==
  ASSUME NEW E, NEW s \in Seq(Seq(E)), Len(s) # 0, NEW f, FlatStep(f, s)
  PROVE  Seqs!FlattenSeq(s) = f[Len(s)]
<1> DEFINE c == CHOOSE g : FlatStep(g, s)
<1>1. Seqs!FlattenSeq(s) = c[Len(s)]
  BY DEF Seqs!FlattenSeq, FlatStep
<1>2. FlatStep(c, s)
  OBVIOUS
<1> HIDE DEF c
<1>3. c = f
  BY <1>2, FlatUnique
<1> QED BY <1>1, <1>3

\* Where the parts of a flattened sequence are: part i begins after the first
\* pre[i] elements.
LaidOut(flat, s, pre) ==
  /\ pre \in [1..(Len(s) + 1) -> Nat] /\ pre[1] = 0 /\ pre[Len(s) + 1] = Len(flat)
  /\ \A i \in 1..(Len(s) + 1) : pre[i] <= Len(flat)
  /\ \A i \in 1..Len(s) : pre[i + 1] = pre[i] + Len(s[i])
  /\ \A i \in 1..Len(s) : \A j \in 1..Len(s[i]) : flat[pre[i] + j] = s[i][j]

\* One part more.
LEMMA LaidOutMore ==
  ASSUME NEW E, NEW s \in Seq(Seq(E)), NEW n \in 1..Len(s), NEW flat \in Seq(E), NEW pre,
         LaidOut(flat, SubSeq(s, 1, n - 1), pre)
  PROVE  LaidOut(flat \o s[n], SubSeq(s, 1, n),
                 [i \in 1..(n + 1) |-> IF i = n + 1 THEN Len(flat) + Len(s[n]) ELSE pre[i]])
<1> DEFINE a == SubSeq(s, 1, n - 1)
           b == SubSeq(s, 1, n)
           all == flat \o s[n]
           next == [i \in 1..(n + 1) |-> IF i = n + 1 THEN Len(flat) + Len(s[n]) ELSE pre[i]]
<1>1. /\ Len(s) \in Nat /\ n \in Nat \ {0} /\ n <= Len(s) /\ \A i \in 1..Len(s) : s[i] \in Seq(E)
      /\ Len(flat) \in Nat /\ \A i \in 1..Len(s) : Len(s[i]) \in Nat
  BY LenProperties, ElementOfSeq
<1>2. Len(a) = n - 1 /\ \A i \in 1..(n - 1) : a[i] = s[i]
  BY <1>1
<1>3. Len(b) = n /\ \A i \in 1..n : b[i] = s[i]
  BY <1>1
<1>4. /\ Len(all) = Len(flat) + Len(s[n])
      /\ \A p \in 1..Len(flat) : all[p] = flat[p]
      /\ \A j \in 1..Len(s[n]) : all[Len(flat) + j] = s[n][j]
  BY <1>1, ConcatProperties
<1>5. /\ pre \in [1..n -> Nat] /\ pre[1] = 0 /\ pre[n] = Len(flat)
      /\ \A i \in 1..n : pre[i] <= Len(flat)
      /\ \A i \in 1..(n - 1) : pre[i + 1] = pre[i] + Len(s[i])
      /\ \A i \in 1..(n - 1) : \A j \in 1..Len(s[i]) : flat[pre[i] + j] = s[i][j]
  BY <1>1, <1>2 DEF LaidOut
<1> HIDE DEF a, b, all
<1>6. \A i \in 1..n : i \in 1..(n + 1) /\ i # n + 1 /\ next[i] = pre[i]
  BY <1>1
<1>7. next[n + 1] = Len(all) /\ n + 1 \in 1..(n + 1)
  BY <1>1, <1>4
<1>8. next \in [1..(n + 1) -> Nat]
  BY <1>1, <1>5, <1>6, <1>7
<1> HIDE DEF next
<1>9. ASSUME NEW i \in 1..n PROVE next[i + 1] = next[i] + Len(s[i])
  <2>1. CASE i = n
    BY <1>1, <1>4, <1>5, <1>6, <1>7, <2>1
  <2>2. CASE i # n
    <3>1. i \in 1..(n - 1) /\ i + 1 \in 1..n
      BY <1>1, <2>2
    <3> QED BY <1>5, <1>6, <3>1
  <2> QED BY <2>1, <2>2
<1>10. ASSUME NEW i \in 1..n, NEW j \in 1..Len(s[i]) PROVE all[next[i] + j] = s[i][j]
  <2>1. CASE i = n
    <3>1. next[i] = Len(flat)
      BY <1>5, <1>6, <2>1
    <3>2. all[Len(flat) + j] = s[i][j]
      BY <1>4, <2>1
    <3> QED BY <3>1, <3>2
  <2>2. CASE i # n
    <3>1. i \in 1..(n - 1)
      BY <1>1, <2>2
    <3>2. flat[pre[i] + j] = s[i][j] /\ pre[i + 1] = pre[i] + Len(s[i]) /\ pre[i] \in Nat
      BY <1>5, <3>1
    <3>3. pre[i] + j \in 1..Len(flat)
      <4>1. pre[i + 1] <= Len(flat) /\ Len(s[i]) \in Nat
        BY <1>1, <1>5, <3>1
      <4> QED BY <1>1, <3>2, <4>1
    <3> QED BY <1>4, <1>6, <3>2, <3>3
  <2> QED BY <2>1, <2>2
<1>11. \A i \in 1..(n + 1) : next[i] <= Len(all)
  <2>1. \A i \in 1..n : next[i] <= Len(all)
    BY <1>1, <1>4, <1>5, <1>6
  <2> QED BY <1>1, <1>7, <2>1
<1>12. next[1] = 0
  BY <1>1, <1>5, <1>6
<1>13. LaidOut(all, b, next)
  <2>1. /\ next \in [1..(Len(b) + 1) -> Nat] /\ next[1] = 0 /\ next[Len(b) + 1] = Len(all)
        /\ \A i \in 1..(Len(b) + 1) : next[i] <= Len(all)
    BY <1>3, <1>7, <1>8, <1>11, <1>12
  <2>2. \A i \in 1..Len(b) : next[i + 1] = next[i] + Len(b[i])
    BY <1>3, <1>9
  <2>3. \A i \in 1..Len(b) : \A j \in 1..Len(b[i]) : all[next[i] + j] = b[i][j]
    BY <1>3, <1>10
  <2> QED BY <2>1, <2>2, <2>3 DEF LaidOut
<1> QED BY <1>13 DEF all, b, next

\* A flattened sequence has its parts one behind the other.
LEMMA Flattened ==
  ASSUME NEW E, NEW s \in Seq(Seq(E))
  PROVE  /\ Seqs!FlattenSeq(s) \in Seq(E)
         /\ \E pre : /\ LaidOut(Seqs!FlattenSeq(s), s, pre)
                     /\ \A i \in 1..Len(s) : pre[i] = Len(Seqs!FlattenSeq(SubSeq(s, 1, i - 1)))
<1>1. Len(s) \in Nat /\ DOMAIN s = 1..Len(s)
  BY LenProperties
<1>2. CASE Len(s) = 0
  <2>1. s = <<>> /\ Seqs!FlattenSeq(s) = <<>>
    BY <1>2, EmptySeq DEF Seqs!FlattenSeq
  <2>2. LaidOut(<<>>, <<>>, [i \in 1..1 |-> 0])
    BY DEF LaidOut
  <2>3. \A i \in 1..Len(s) : FALSE
    BY <1>2
  <2>4. <<>> \in Seq(E)
    BY EmptySeq
  <2> DEFINE pre == [i \in 1..1 |-> 0]
  <2>5. LaidOut(Seqs!FlattenSeq(s), s, pre)
    BY <2>1, <2>2
  <2> HIDE DEF pre
  <2> QED BY <2>1, <2>3, <2>4, <2>5
<1>3. CASE Len(s) # 0
  <2>1. PICK f \in [1..Len(s) -> Seq(E)] : FlatStep(f, s)
    BY <1>3, FlatExists
  <2>2. \A i \in 1..Len(s) : f[i] = IF i = 1 THEN s[i] ELSE f[i - 1] \o s[i]
    BY <2>1 DEF FlatStep
  <2>3. ASSUME NEW i \in 1..Len(s)
        PROVE  /\ SubSeq(s, 1, i) \in Seq(Seq(E)) /\ Len(SubSeq(s, 1, i)) = i
               /\ Seqs!FlattenSeq(SubSeq(s, 1, i)) = f[i]
    <3> DEFINE a == SubSeq(s, 1, i)
               g == [k \in 1..i |-> f[k]]
    <3>1. a \in Seq(Seq(E)) /\ Len(a) = i /\ \A k \in 1..i : a[k] = s[k]
      BY <1>1
    <3> HIDE DEF a
    <3>2. \A k \in 1..i : /\ k \in 1..Len(s)
                          /\ k # 1 => k - 1 \in 1..i
      BY <1>1
    <3>3. g = [k \in 1..i |-> IF k = 1 THEN a[k] ELSE g[k - 1] \o a[k]]
      <4>1. \A k \in 1..i : g[k] = IF k = 1 THEN a[k] ELSE g[k - 1] \o a[k]
        BY <2>2, <3>1, <3>2
      <4> HIDE DEF g
      <4>2. DOMAIN g = 1..i /\ g = [k \in 1..i |-> g[k]]
        BY DEF g
      <4> QED BY <4>1, <4>2
    <3>4. FlatStep(g, a)
      BY <3>1, <3>3 DEF FlatStep
    <3>5. Seqs!FlattenSeq(a) = g[i]
      <4>1. Len(a) # 0
        BY <1>1, <3>1
      <4> HIDE DEF g
      <4> QED BY <3>1, <3>4, <4>1, FlattenIs
    <3>6. g[i] = f[i]
      BY <1>1
    <3> QED BY <3>1, <3>5, <3>6 DEF a
  <2> DEFINE Good(i) == \E pre : /\ LaidOut(f[i], SubSeq(s, 1, i), pre)
                                 /\ \A k \in 1..i : pre[k] = IF k = 1 THEN 0 ELSE Len(f[k - 1])
             bad == {i \in 1..Len(s) : ~Good(i)}
  <2>4. bad = {}
    <3> SUFFICES ASSUME bad # {} PROVE FALSE
      OBVIOUS
    <3>1. PICK i \in bad : \A k \in bad : i <= k
      <4>1. bad \subseteq Nat
        BY <1>1
      <4> HIDE DEF bad
      <4> QED BY <4>1, LeastExists
    <3>2. i \in 1..Len(s) /\ ~Good(i)
      BY <3>1
    <3>3. CASE i = 1
      <4> DEFINE pre == [k \in 1..1 |-> 0]
                 next == [k \in 1..(1 + 1) |-> IF k = 1 + 1 THEN Len(<<>>) + Len(s[1]) ELSE pre[k]]
      <4>1. LaidOut(<<>>, SubSeq(s, 1, 1 - 1), pre)
        <5>1. SubSeq(s, 1, 1 - 1) = <<>>
          BY <1>1
        <5> QED BY <5>1 DEF LaidOut
      <4>0. \A k \in 1..1 : pre[k] = 0
        OBVIOUS
      <4> HIDE DEF pre
      <4>2. LaidOut(<<>> \o s[1], SubSeq(s, 1, 1), next)
        <5>1. 1 \in 1..Len(s) /\ <<>> \in Seq(E)
          BY <3>2, <3>3
        <5> QED BY <4>1, <5>1, LaidOutMore, ZenonT(30)
      <4>3. s[1] \in Seq(E) /\ <<>> \o s[1] = s[1] /\ f[1] = s[1]
        BY <2>2, <3>2, <3>3, ElementOfSeq, ConcatEmptySeq
      <4>4. \A k \in 1..1 : next[k] = 0
        BY <4>0
      <4> HIDE DEF next
      <4>5. Good(1)
        BY <4>2, <4>3, <4>4
      <4> QED BY <3>2, <3>3, <4>5
    <3>4. CASE i # 1
      <4>1. i - 1 \in 1..Len(s) /\ i - 1 \notin bad
        <5> HIDE DEF bad
        <5>1. i \in Nat /\ i - 1 \in 1..Len(s) /\ ~(i <= i - 1)
          BY <1>1, <3>2, <3>4
        <5> QED BY <3>1, <5>1
      <4>2. PICK pre : /\ LaidOut(f[i - 1], SubSeq(s, 1, i - 1), pre)
                       /\ \A k \in 1..(i - 1) : pre[k] = IF k = 1 THEN 0 ELSE Len(f[k - 1])
        BY <4>1
      <4> DEFINE next == [k \in 1..(i + 1) |-> IF k = i + 1 THEN Len(f[i - 1]) + Len(s[i]) ELSE pre[k]]
      <4>3. LaidOut(f[i - 1] \o s[i], SubSeq(s, 1, i), next)
        <5>1. f[i - 1] \in Seq(E)
          BY <2>1, <4>1
        <5> QED BY <3>2, <4>2, <5>1, LaidOutMore
      <4>4. f[i] = f[i - 1] \o s[i]
        BY <2>2, <3>2, <3>4
      <4>5. \A k \in 1..i : next[k] = pre[k]
        BY <1>1, <3>2
      <4>6. pre[i] = Len(f[i - 1])
        <5>1. Len(SubSeq(s, 1, i - 1)) + 1 = i
          BY <2>3, <4>1, <3>2
        <5> QED BY <4>2, <5>1 DEF LaidOut
      <4>7. \A k \in 1..i : next[k] = IF k = 1 THEN 0 ELSE Len(f[k - 1])
        <5> HIDE DEF next
        <5>1. \A k \in 1..i : k = i \/ k \in 1..(i - 1)
          BY <1>1, <3>2
        <5> QED BY <3>4, <4>2, <4>5, <4>6, <5>1
      <4> HIDE DEF next
      <4>8. Good(i)
        BY <4>3, <4>4, <4>7
      <4> QED BY <3>2, <4>8
    <3> QED BY <3>3, <3>4
  <2>5. Good(Len(s))
    <3>1. Len(s) \in 1..Len(s)
      BY <1>1, <1>3
    <3> QED BY <2>4, <3>1
  <2>6. SubSeq(s, 1, Len(s)) = s
    BY SubSeqFull
  <2>7. Seqs!FlattenSeq(s) = f[Len(s)] /\ f[Len(s)] \in Seq(E)
    <3>1. Len(s) \in 1..Len(s)
      BY <1>1, <1>3
    <3> QED BY <2>1, <2>3, <2>6, <3>1
  <2>8. \A k \in 1..Len(s) : Len(Seqs!FlattenSeq(SubSeq(s, 1, k - 1))) = IF k = 1 THEN 0 ELSE Len(f[k - 1])
    <3> SUFFICES ASSUME NEW k \in 1..Len(s)
                 PROVE  Len(Seqs!FlattenSeq(SubSeq(s, 1, k - 1))) = IF k = 1 THEN 0 ELSE Len(f[k - 1])
      OBVIOUS
    <3>1. CASE k = 1
      <4>1. SubSeq(s, 1, 0) = <<>>
        BY <1>1
      <4> QED BY <3>1, <4>1 DEF Seqs!FlattenSeq
    <3>2. CASE k # 1
      <4>1. k - 1 \in 1..Len(s)
        BY <1>1, <3>2
      <4> QED BY <2>3, <3>2, <4>1
    <3> QED BY <3>1, <3>2
  <2>9. PICK pre : /\ LaidOut(f[Len(s)], s, pre)
                   /\ \A k \in 1..Len(s) : pre[k] = IF k = 1 THEN 0 ELSE Len(f[k - 1])
    BY <2>5, <2>6
  <2>10. \A k \in 1..Len(s) : pre[k] = Len(Seqs!FlattenSeq(SubSeq(s, 1, k - 1)))
    BY <2>8, <2>9
  <2> QED BY <2>7, <2>9, <2>10
<1> QED BY <1>2, <1>3

-----------------------------------------------------------------------------
(* The sections of an image                                                *)

\* The cells of a node: list l has its count after the first pre[l] cells,
\* and then its neighbours.
NodeLaid(cells, node, pre) ==
  /\ pre \in [1..(Len(node) + 1) -> Nat] /\ pre[1] = 0 /\ pre[Len(node) + 1] = Len(cells)
  /\ \A l \in 1..(Len(node) + 1) : pre[l] <= Len(cells)
  /\ \A l \in 1..Len(node) :
       /\ pre[l + 1] = pre[l] + 1 + Len(node[l])
       /\ cells[pre[l] + 1] = Len(node[l])
       /\ \A j \in 1..Len(node[l]) : cells[pre[l] + 1 + j] = node[l][j]

LEMMA ListCellsLaid ==
  ASSUME NEW node \in Seq(Seq(Nat))
  PROVE  ListCells(node) \in Seq(Nat) /\ \E pre : NodeLaid(ListCells(node), node, pre)
<1> DEFINE parts == [l \in DOMAIN node |-> <<Len(node[l])>> \o node[l]]
           n == Len(node)
           cells == ListCells(node)
<1>1. n \in Nat /\ DOMAIN node = 1..n /\ \A l \in 1..n : node[l] \in Seq(Nat) /\ Len(node[l]) \in Nat
  BY LenProperties, ElementOfSeq
<1>2. ASSUME NEW l \in 1..n
      PROVE  /\ parts[l] \in Seq(Nat) /\ Len(parts[l]) = 1 + Len(node[l])
             /\ parts[l][1] = Len(node[l])
             /\ \A j \in 1..Len(node[l]) : parts[l][1 + j] = node[l][j]
  <2> DEFINE one == <<Len(node[l])>>
  <2>1. one \in Seq(Nat) /\ Len(one) = 1 /\ one[1] = Len(node[l]) /\ parts[l] = one \o node[l]
    BY <1>1
  <2> HIDE DEF one, parts
  <2>2. node[l] \in Seq(Nat) /\ Len(node[l]) \in Nat
    BY <1>1
  <2>3. parts[l] \in Seq(Nat) /\ JoinOf(parts[l], one, node[l])
    BY <2>1, <2>2, Joined
  <2>4. Len(parts[l]) = 1 + Len(node[l]) /\ parts[l][1] = one[1]
    BY <2>1, <2>3 DEF JoinOf
  <2>5. \A j \in 1..Len(node[l]) : parts[l][1 + j] = node[l][j]
    BY <2>1, <2>3 DEF JoinOf
  <2> QED BY <2>1, <2>3, <2>4, <2>5
<1>3. parts \in Seq(Seq(Nat)) /\ Len(parts) = n
  <2>1. parts = [l \in 1..n |-> parts[l]]
    BY <1>1
  <2> HIDE DEF parts
  <2>2. parts \in [1..n -> Seq(Nat)]
    BY <1>2, <2>1
  <2> QED BY <1>1, <2>2, SeqDef, LenProperties
<1>4. cells = Seqs!FlattenSeq(parts)
  BY DEF ListCells
<1> HIDE DEF parts, n, cells
<1>5. cells \in Seq(Nat)
  BY <1>3, <1>4, Flattened
<1>6. PICK pre : LaidOut(cells, parts, pre)
  BY <1>3, <1>4, Flattened
<1>7. ASSUME NEW l \in 1..n
      PROVE  /\ pre[l + 1] = pre[l] + 1 + Len(node[l])
             /\ cells[pre[l] + 1] = Len(node[l])
             /\ \A j \in 1..Len(node[l]) : cells[pre[l] + 1 + j] = node[l][j]
  <2>1. pre[l] \in Nat /\ pre[l + 1] = pre[l] + Len(parts[l])
        /\ \A j \in 1..Len(parts[l]) : cells[pre[l] + j] = parts[l][j]
    BY <1>1, <1>3, <1>6 DEF LaidOut
  <2>2. Len(node[l]) \in Nat
    BY <1>1
  <2>5. /\ Len(parts[l]) = 1 + Len(node[l]) /\ parts[l][1] = Len(node[l])
        /\ \A j \in 1..Len(node[l]) : parts[l][1 + j] = node[l][j]
    BY <1>2
  <2>3. ASSUME NEW j \in 1..Len(node[l]) PROVE cells[pre[l] + 1 + j] = node[l][j]
    <3>1. 1 + j \in 1..Len(parts[l]) /\ pre[l] + (1 + j) = pre[l] + 1 + j
      <4> DEFINE k == Len(node[l])
                 m == Len(parts[l])
                 p == pre[l]
      <4>1. k \in Nat /\ m = 1 + k /\ p \in Nat /\ j \in 1..k
        BY <2>1, <2>2, <2>5
      <4> HIDE DEF k, m, p
      <4>2. 1 + j \in 1..m /\ p + (1 + j) = p + 1 + j
        BY <4>1
      <4> QED BY <4>2 DEF m, p
    <3> QED BY <2>1, <2>5, <3>1
  <2>4. 1 \in 1..Len(parts[l])
    BY <2>2, <2>5
  <2>6. pre[l + 1] = pre[l] + 1 + Len(node[l])
    <3> DEFINE k == Len(node[l])
               m == Len(parts[l])
               p == pre[l]
    <3>1. k \in Nat /\ m = 1 + k /\ p \in Nat /\ pre[l + 1] = p + m
      BY <2>1, <2>2, <2>5
    <3> HIDE DEF k, m, p
    <3>2. pre[l + 1] = p + 1 + k
      BY <3>1
    <3> QED BY <3>2 DEF k, p
  <2>7. cells[pre[l] + 1] = Len(node[l])
    BY <2>1, <2>4, <2>5
  <2> QED BY <2>3, <2>6, <2>7
<1>8. NodeLaid(cells, node, pre)
  BY <1>1, <1>3, <1>6, <1>7 DEF NodeLaid, LaidOut, n
<1> QED BY <1>5, <1>8 DEF cells

Lists == Seq(Seq(Seq(Nat)))

\* The connection data: where each node begins is what ConnOffsets records.
LEMMA ConnDataLaid ==
  ASSUME NEW lists \in Lists
  PROVE  /\ ConnData(lists) \in Seq(Nat)
         /\ \E pre : /\ LaidOut(ConnData(lists), [i \in 1..Len(lists) |-> ListCells(lists[i])], pre)
                     /\ \A i \in 1..Len(lists) : pre[i] = Len(ConnData(SubSeq(lists, 1, i - 1)))
<1> DEFINE chunks == [i \in 1..Len(lists) |-> ListCells(lists[i])]
           n == Len(lists)
<1>1. n \in Nat /\ DOMAIN lists = 1..n /\ \A i \in 1..n : lists[i] \in Seq(Seq(Nat))
  BY LenProperties, ElementOfSeq DEF Lists
<1>2. chunks \in [1..n -> Seq(Nat)]
  BY <1>1, ListCellsLaid
<1>3. chunks \in Seq(Seq(Nat)) /\ Len(chunks) = n
  <2> HIDE DEF chunks
  <2> QED BY <1>1, <1>2, SeqDef, LenProperties
<1>4. ConnData(lists) = Seqs!FlattenSeq(chunks)
  BY <1>1 DEF ConnData
<1>5. ASSUME NEW i \in 1..n
      PROVE  ConnData(SubSeq(lists, 1, i - 1)) = Seqs!FlattenSeq(SubSeq(chunks, 1, i - 1))
  <2> DEFINE some == SubSeq(lists, 1, i - 1)
             these == [k \in DOMAIN some |-> ListCells(some[k])]
  <2>1. DOMAIN some = 1..(i - 1) /\ \A k \in 1..(i - 1) : some[k] = lists[k]
    <3>1. Len(some) = i - 1 /\ some \in Seq(Seq(Seq(Nat)))
      BY <1>1 DEF Lists
    <3>2. \A k \in 1..(i - 1) : some[k] = lists[k]
      BY <1>1 DEF Lists
    <3> QED BY <3>1, <3>2, LenProperties
  <2> HIDE DEF some
  <2>2. these = [k \in 1..(i - 1) |-> chunks[k]]
    <3>1. \A k \in 1..(i - 1) : k \in 1..n
      BY <1>1
    <3> QED BY <2>1, <3>1
  <2>3. SubSeq(chunks, 1, i - 1) = [k \in 1..(i - 1) |-> chunks[k]]
    <3> HIDE DEF chunks
    <3>1. SubSeq(chunks, 1, i - 1) \in Seq(Seq(Nat)) /\ Len(SubSeq(chunks, 1, i - 1)) = i - 1
      BY <1>1, <1>3
    <3>2. \A k \in 1..(i - 1) : SubSeq(chunks, 1, i - 1)[k] = chunks[k]
      BY <1>1, <1>3
    <3>3. SubSeq(chunks, 1, i - 1) = [k \in 1..(i - 1) |-> SubSeq(chunks, 1, i - 1)[k]]
      BY <3>1, LenProperties
    <3> QED BY <3>2, <3>3
  <2>4. ConnData(some) = Seqs!FlattenSeq(these)
    BY DEF ConnData
  <2> HIDE DEF these, chunks
  <2> QED BY <2>2, <2>3, <2>4 DEF some
<1> HIDE DEF chunks
<1>6. PICK pre : /\ LaidOut(Seqs!FlattenSeq(chunks), chunks, pre)
                 /\ \A i \in 1..n : pre[i] = Len(Seqs!FlattenSeq(SubSeq(chunks, 1, i - 1)))
  BY <1>3, Flattened
<1>7. ConnData(lists) \in Seq(Nat)
  BY <1>3, <1>4, Flattened
<1>8. \A i \in 1..n : pre[i] = Len(ConnData(SubSeq(lists, 1, i - 1)))
  BY <1>5, <1>6
<1> QED BY <1>4, <1>6, <1>7, <1>8 DEF chunks

\* The graph section of an image of n nodes: list l of node i has its count
\* at S[i][l], and the section ends before `end`.
PlacesOK(lists, n, S, end) ==
  /\ end \in Nat /\ 3 * n + 1 <= end
  /\ \A i \in 1..n : \A l \in 1..(Len(lists[i]) + 1) :
       /\ S[i][l] \in Nat /\ 3 * n + 1 <= S[i][l] /\ S[i][l] <= S[i][Len(lists[i]) + 1]
       /\ S[i][l] <= end
  /\ \A i \in 1..n : \A l \in 1..Len(lists[i]) : S[i][l + 1] = S[i][l] + 1 + Len(lists[i][l])
  /\ \A i \in 1..n : i + 1 \in 1..n => S[i + 1][1] = S[i][Len(lists[i]) + 1]
  /\ n # 0 => S[1][1] = 3 * n + 1 /\ S[n][Len(lists[n]) + 1] = end
  /\ n = 0 => end = 1

TablesOK(c, vecs, lists, n, S) ==
  \A i \in 1..n : c[i] = vecs[i] /\ c[n + i] = Len(lists[i]) - 1 /\ c[2 * n + i] = S[i][1]

CellsOK(c, lists, n, S) ==
  \A i \in 1..n : \A l \in 1..Len(lists[i]) :
    /\ c[S[i][l]] = Len(lists[i][l])
    /\ \A j \in 1..Len(lists[i][l]) : c[S[i][l] + j] = lists[i][l][j]

DataLaid(data, lists, n, S) ==
  \A i \in 1..n : \A l \in 1..Len(lists[i]) :
    /\ S[i][l] - 3 * n \in 1..Len(data)
    /\ data[S[i][l] - 3 * n] = Len(lists[i][l])
    /\ \A j \in 1..Len(lists[i][l]) :
         /\ S[i][l] - 3 * n + j \in 1..Len(data)
         /\ data[S[i][l] - 3 * n + j] = lists[i][l][j]

LEMMA NodePlaces ==
  ASSUME NEW lists \in Lists, NEW n \in Nat, n = Len(lists)
  PROVE  /\ ConnData(lists) \in Seq(Nat)
         /\ ConnOffsets(lists) \in Seq(Nat) /\ Len(ConnOffsets(lists)) = n
         /\ \E S : /\ PlacesOK(lists, n, S, 3 * n + 1 + Len(ConnData(lists)))
                   /\ \A i \in 1..n : ConnOffsets(lists)[i] = S[i][1]
                   /\ DataLaid(ConnData(lists), lists, n, S)
<1> DEFINE chunks == [i \in 1..Len(lists) |-> ListCells(lists[i])]
           data == ConnData(lists)
           size(i) == Len(lists[i])
<1>1. /\ DOMAIN lists = 1..n
      /\ \A i \in 1..n : lists[i] \in Seq(Seq(Nat)) /\ size(i) \in Nat
      /\ \A i \in 1..n : \A l \in 1..size(i) : Len(lists[i][l]) \in Nat
  BY LenProperties, ElementOfSeq DEF Lists
<1>2. data \in Seq(Nat) /\ Len(data) \in Nat
  BY ConnDataLaid, LenProperties
<1>3. PICK pre : /\ LaidOut(data, chunks, pre)
                 /\ \A i \in 1..n : pre[i] = Len(ConnData(SubSeq(lists, 1, i - 1)))
  BY ConnDataLaid
<1>4. Len(chunks) = n /\ \A i \in 1..n : chunks[i] = ListCells(lists[i])
  OBVIOUS
<1> DEFINE inner == [i \in 1..n |-> CHOOSE p : NodeLaid(chunks[i], lists[i], p)]
<1>5. \A i \in 1..n : NodeLaid(chunks[i], lists[i], inner[i]) /\ Len(chunks[i]) \in Nat
  <2> HIDE DEF chunks
  <2>1. \A i \in 1..n : chunks[i] \in Seq(Nat) /\ \E p : NodeLaid(chunks[i], lists[i], p)
    BY <1>1, <1>4, ListCellsLaid
  <2> QED BY <2>1, LenProperties
<1> HIDE DEF inner, chunks, data
<1> DEFINE S == [i \in 1..n |-> [l \in 1..(size(i) + 1) |-> 3 * n + 1 + pre[i] + inner[i][l]]]
<1>6. /\ \A i \in 1..(n + 1) : pre[i] \in Nat /\ pre[i] <= Len(data)
      /\ pre[1] = 0 /\ pre[n + 1] = Len(data)
      /\ \A i \in 1..n : pre[i + 1] = pre[i] + Len(chunks[i])
      /\ \A i \in 1..n : \A k \in 1..Len(chunks[i]) : data[pre[i] + k] = chunks[i][k]
  BY <1>3, <1>4 DEF LaidOut
<1>7. ASSUME NEW i \in 1..n
      PROVE  /\ inner[i][1] = 0 /\ inner[i][size(i) + 1] = Len(chunks[i])
             /\ \A l \in 1..(size(i) + 1) : inner[i][l] \in Nat /\ inner[i][l] <= Len(chunks[i])
             /\ \A l \in 1..size(i) :
                  /\ inner[i][l + 1] = inner[i][l] + 1 + Len(lists[i][l])
                  /\ chunks[i][inner[i][l] + 1] = Len(lists[i][l])
                  /\ \A j \in 1..Len(lists[i][l]) : chunks[i][inner[i][l] + 1 + j] = lists[i][l][j]
  BY <1>5 DEF NodeLaid
<1>8. ASSUME NEW i \in 1..n, NEW l \in 1..(size(i) + 1)
      PROVE  S[i][l] = 3 * n + 1 + pre[i] + inner[i][l]
  OBVIOUS
<1> HIDE DEF S
<1>9. ASSUME NEW i \in 1..n
      PROVE  /\ 1 \in 1..(size(i) + 1) /\ size(i) + 1 \in 1..(size(i) + 1)
             /\ i \in 1..(n + 1) /\ i + 1 \in 1..(n + 1)
             /\ \A l \in 1..size(i) : l \in 1..(size(i) + 1) /\ l + 1 \in 1..(size(i) + 1)
  BY <1>1
<1> HIDE DEF size
<1>10. ASSUME NEW i \in 1..n, NEW l \in 1..(size(i) + 1)
       PROVE  /\ S[i][l] \in Nat /\ 3 * n + 1 <= S[i][l] /\ S[i][l] <= S[i][size(i) + 1]
              /\ S[i][l] <= 3 * n + 1 + Len(data)
  <2>1. /\ pre[i] \in Nat /\ pre[i + 1] <= Len(data) /\ pre[i + 1] = pre[i] + Len(chunks[i])
        /\ inner[i][l] \in Nat /\ inner[i][l] <= Len(chunks[i])
        /\ inner[i][size(i) + 1] = Len(chunks[i]) /\ Len(chunks[i]) \in Nat
    BY <1>5, <1>6, <1>7, <1>9
  <2> DEFINE a == 3 * n + 1
             top == Len(chunks[i])
  <2>2. S[i][l] = a + pre[i] + inner[i][l] /\ S[i][size(i) + 1] = a + pre[i] + top
    BY <1>8, <1>9, <2>1
  <2>3. a \in Nat /\ Len(data) \in Nat /\ top \in Nat
    BY <1>2, <2>1
  <2>4. inner[i][l] <= top /\ pre[i] + top <= Len(data)
    BY <2>1
  <2> HIDE DEF a, top
  <2>5. pre[i] \in Nat /\ inner[i][l] \in Nat
    BY <2>1
  <2>6. S[i][l] \in Nat /\ a <= S[i][l]
    BY <2>2, <2>3, <2>5
  <2>7. S[i][l] <= S[i][size(i) + 1]
    BY <2>2, <2>3, <2>4, <2>5
  <2>8. S[i][l] <= a + Len(data)
    BY <2>2, <2>3, <2>4, <2>5
  <2>9. S[i][l] \in Nat /\ a <= S[i][l] /\ S[i][l] <= S[i][size(i) + 1] /\ S[i][l] <= a + Len(data)
    BY <2>6, <2>7, <2>8
  <2> QED BY <2>9 DEF a
<1>11. ASSUME NEW i \in 1..n, NEW l \in 1..size(i)
       PROVE  /\ S[i][l + 1] = S[i][l] + 1 + Len(lists[i][l])
              /\ S[i][l] - 3 * n \in 1..Len(data)
              /\ data[S[i][l] - 3 * n] = Len(lists[i][l])
              /\ \A j \in 1..Len(lists[i][l]) :
                   /\ S[i][l] - 3 * n + j \in 1..Len(data)
                   /\ data[S[i][l] - 3 * n + j] = lists[i][l][j]
  <2> DEFINE k == Len(lists[i][l])
             p == pre[i]
             q == inner[i][l]
             m == Len(chunks[i])
  <2>1. /\ p \in Nat /\ p + m <= Len(data) /\ k \in Nat /\ m \in Nat
        /\ q \in Nat /\ inner[i][l + 1] = q + 1 + k /\ q + 1 + k <= m
    <3>1. l \in 1..(size(i) + 1) /\ l + 1 \in 1..(size(i) + 1)
      BY <1>9
    <3>2. p \in Nat /\ pre[i + 1] = p + m /\ pre[i + 1] <= Len(data)
      BY <1>6, <1>9
    <3>3. k \in Nat
      BY <1>1 DEF size
    <3>4. m \in Nat
      BY <1>5
    <3>5. q \in Nat /\ inner[i][l + 1] = q + 1 + k /\ inner[i][l + 1] <= m
      BY <1>7, <3>1
    <3> QED BY <3>2, <3>3, <3>4, <3>5
  <2>2. S[i][l] = 3 * n + 1 + p + q /\ S[i][l + 1] = 3 * n + 1 + p + (q + 1 + k)
    BY <1>8, <1>9, <2>1
  <2>3. \A h \in 1..m : data[p + h] = chunks[i][h]
    BY <1>6
  <2>4. chunks[i][q + 1] = k /\ \A j \in 1..k : chunks[i][q + 1 + j] = lists[i][l][j]
    BY <1>7
  <2> HIDE DEF k, p, q, m
  <2>5. S[i][l + 1] = S[i][l] + 1 + k /\ S[i][l] - 3 * n \in 1..Len(data) /\ S[i][l] - 3 * n = p + (q + 1)
    BY <1>2, <2>1, <2>2
  <2>6. q + 1 \in 1..m
    BY <2>1
  <2>7. data[S[i][l] - 3 * n] = k
    BY <2>3, <2>4, <2>5, <2>6
  <2>8. ASSUME NEW j \in 1..k
        PROVE  /\ S[i][l] - 3 * n + j \in 1..Len(data)
               /\ data[S[i][l] - 3 * n + j] = lists[i][l][j]
    <3>1. q + 1 + j \in 1..m /\ S[i][l] - 3 * n + j = p + (q + 1 + j) /\ p + (q + 1 + j) \in 1..Len(data)
      BY <1>2, <2>1, <2>2
    <3> QED BY <2>3, <2>4, <3>1
  <2> QED BY <2>5, <2>7, <2>8 DEF k
<1>12. \A i \in 1..n : i + 1 \in 1..n => S[i + 1][1] = S[i][size(i) + 1]
  <2> SUFFICES ASSUME NEW i \in 1..n, i + 1 \in 1..n PROVE S[i + 1][1] = S[i][size(i) + 1]
    OBVIOUS
  <2>1. S[i + 1][1] = 3 * n + 1 + pre[i + 1] + 0 /\ S[i][size(i) + 1] = 3 * n + 1 + pre[i] + Len(chunks[i])
    BY <1>7, <1>8, <1>9
  <2>2. pre[i] \in Nat /\ pre[i + 1] = pre[i] + Len(chunks[i]) /\ Len(chunks[i]) \in Nat
    BY <1>5, <1>6, <1>9
  <2> QED BY <2>1, <2>2
<1>13. n # 0 => S[1][1] = 3 * n + 1 /\ S[n][size(n) + 1] = 3 * n + 1 + Len(data)
  <2> SUFFICES ASSUME n # 0 PROVE S[1][1] = 3 * n + 1 /\ S[n][size(n) + 1] = 3 * n + 1 + Len(data)
    OBVIOUS
  <2>1. 1 \in 1..n /\ n \in 1..n
    OBVIOUS
  <2>2. S[1][1] = 3 * n + 1 + 0 + 0 /\ S[n][size(n) + 1] = 3 * n + 1 + pre[n] + Len(chunks[n])
    <3>1. /\ S[1][1] = 3 * n + 1 + pre[1] + inner[1][1]
          /\ S[n][size(n) + 1] = 3 * n + 1 + pre[n] + inner[n][size(n) + 1]
      BY <1>8, <1>9, <2>1
    <3>2. pre[1] = 0 /\ inner[1][1] = 0 /\ inner[n][size(n) + 1] = Len(chunks[n])
      BY <1>6, <1>7, <2>1
    <3> QED BY <3>1, <3>2
  <2>3. pre[n] \in Nat /\ pre[n + 1] = pre[n] + Len(chunks[n]) /\ pre[n + 1] = Len(data)
        /\ Len(chunks[n]) \in Nat
    BY <1>5, <1>6, <1>9, <2>1
  <2>4. S[1][1] = 3 * n + 1
    BY <2>2
  <2>5. S[n][size(n) + 1] = 3 * n + 1 + Len(data)
    BY <2>2, <2>3, SMTT(20)
  <2> QED BY <2>4, <2>5
<1>14. n = 0 => 3 * n + 1 + Len(data) = 1
  BY <1>2, <1>6
<1>15. PlacesOK(lists, n, S, 3 * n + 1 + Len(data))
  <2> DEFINE end == 3 * n + 1 + Len(data)
  <2>1. end \in Nat /\ 3 * n + 1 <= end
    BY <1>2
  <2>2. \A i \in 1..n : \A l \in 1..(size(i) + 1) :
          /\ S[i][l] \in Nat /\ 3 * n + 1 <= S[i][l] /\ S[i][l] <= S[i][size(i) + 1]
          /\ S[i][l] <= end
    BY <1>10
  <2>3. \A i \in 1..n : \A l \in 1..size(i) : S[i][l + 1] = S[i][l] + 1 + Len(lists[i][l])
    BY <1>11
  <2>4. n # 0 => S[1][1] = 3 * n + 1 /\ S[n][size(n) + 1] = end
    BY <1>13
  <2>5. n = 0 => end = 1
    BY <1>14
  <2> HIDE DEF end
  <2>6. PlacesOK(lists, n, S, end)
    BY <2>1, <2>2, <2>3, <2>4, <2>5, <1>12 DEF PlacesOK, size
  <2> QED BY <2>6 DEF end
<1>16. /\ ConnOffsets(lists) \in Seq(Nat) /\ Len(ConnOffsets(lists)) = n
       /\ \A i \in 1..n : ConnOffsets(lists)[i] = S[i][1]
  <2> DEFINE offsets == [i \in 1..n |-> S[i][1]]
  <2>1. \A i \in 1..n : 1 + 3 * Len(lists) + Len(ConnData(SubSeq(lists, 1, i - 1))) = S[i][1]
    <3> SUFFICES ASSUME NEW i \in 1..n
                 PROVE  1 + 3 * Len(lists) + Len(ConnData(SubSeq(lists, 1, i - 1))) = S[i][1]
      OBVIOUS
    <3>1. S[i][1] = 3 * n + 1 + pre[i] + 0 /\ pre[i] \in Nat
      <4>1. S[i][1] = 3 * n + 1 + pre[i] + inner[i][1]
        BY <1>8, <1>9
      <4>2. inner[i][1] = 0 /\ pre[i] \in Nat
        BY <1>6, <1>7, <1>9
      <4> QED BY <4>1, <4>2
    <3>2. pre[i] = Len(ConnData(SubSeq(lists, 1, i - 1)))
      BY <1>3
    <3> QED BY <3>1, <3>2
  <2>2. ConnOffsets(lists) = offsets
    BY <1>1, <2>1 DEF ConnOffsets
  <2>3. offsets \in [1..n -> Nat]
    BY <1>9, <1>10
  <2>4. \A i \in 1..n : offsets[i] = S[i][1]
    OBVIOUS
  <2> HIDE DEF offsets
  <2>5. offsets \in Seq(Nat) /\ Len(offsets) = n
    BY <2>3, SeqDef, LenProperties
  <2> QED BY <2>2, <2>4, <2>5
<1>17. DataLaid(data, lists, n, S)
  <2>1. \A i \in 1..n : \A l \in 1..size(i) :
          /\ S[i][l] - 3 * n \in 1..Len(data)
          /\ data[S[i][l] - 3 * n] = Len(lists[i][l])
          /\ \A j \in 1..Len(lists[i][l]) :
               /\ S[i][l] - 3 * n + j \in 1..Len(data)
               /\ data[S[i][l] - 3 * n + j] = lists[i][l][j]
    BY <1>11
  <2> QED BY <2>1 DEF DataLaid, size
<1> QED BY <1>2, <1>15, <1>16, <1>17 DEF data

\* The graph section of an image, as a whole.
LEMMA GraphLaid ==
  ASSUME NEW index, index.vecs \in Seq(Nat), index.lists \in Lists, NEW n \in Nat,
         n = Len(index.vecs), n = Len(index.lists), \A i \in 1..n : Len(index.lists[i]) \in Nat \ {0}
  PROVE  /\ GraphCells(index) \in Seq(Nat)
         /\ \E S : /\ PlacesOK(index.lists, n, S, Len(GraphCells(index)) + 1)
                   /\ TablesOK(GraphCells(index), index.vecs, index.lists, n, S)
                   /\ CellsOK(GraphCells(index), index.lists, n, S)
<1> DEFINE v == index.vecs
           lists == index.lists
           levels == Levels(lists)
           offsets == ConnOffsets(lists)
           data == ConnData(lists)
           a == v \o levels
           b == a \o offsets
           c == b \o data
<1>1. levels \in Seq(Nat) /\ Len(levels) = n /\ \A i \in 1..n : levels[i] = Len(lists[i]) - 1
  <2>1. DOMAIN lists = 1..n
    BY LenProperties DEF Lists
  <2>2. levels = [i \in 1..n |-> Len(lists[i]) - 1]
    BY <2>1 DEF Levels
  <2>3. levels \in [1..n -> Nat]
    BY <2>2
  <2>4. \A i \in 1..n : levels[i] = Len(lists[i]) - 1
    BY <2>2
  <2> HIDE DEF levels
  <2>5. levels \in Seq(Nat) /\ Len(levels) = n
    BY <2>3, SeqDef, LenProperties
  <2> QED BY <2>4, <2>5
<1>2. PICK S : /\ PlacesOK(lists, n, S, 3 * n + 1 + Len(data))
               /\ \A i \in 1..n : offsets[i] = S[i][1]
               /\ DataLaid(data, lists, n, S)
  BY NodePlaces
<1>3. data \in Seq(Nat) /\ offsets \in Seq(Nat) /\ Len(offsets) = n /\ Len(data) \in Nat
  BY NodePlaces, LenProperties
<1>4. v \in Seq(Nat) /\ Len(v) = n /\ GraphCells(index) = c
  BY DEF GraphCells
<1> HIDE DEF v, lists, levels, offsets, data
<1>5. a \in Seq(Nat) /\ JoinOf(a, v, levels)
  BY <1>1, <1>4, Joined
<1> HIDE DEF a
<1>6. b \in Seq(Nat) /\ JoinOf(b, a, offsets)
  BY <1>3, <1>5, Joined
<1> HIDE DEF b
<1>7. c \in Seq(Nat) /\ JoinOf(c, b, data)
  BY <1>3, <1>6, Joined
<1> HIDE DEF c
<1>8. Len(a) = n + n /\ \A i \in 1..n : a[i] = v[i] /\ a[n + i] = levels[i]
  BY <1>1, <1>4, <1>5 DEF JoinOf
<1>9. Len(b) = 3 * n /\ \A i \in 1..n : b[i] = v[i] /\ b[n + i] = levels[i] /\ b[2 * n + i] = offsets[i]
  <2>1. /\ Len(b) = Len(a) + n
        /\ \A k \in 1..Len(a) : b[k] = a[k]
        /\ \A k \in 1..n : b[Len(a) + k] = offsets[k]
    BY <1>3, <1>6 DEF JoinOf
  <2>2. Len(a) = 2 * n
    BY <1>8
  <2>3. ASSUME NEW i \in 1..n
        PROVE  b[i] = v[i] /\ b[n + i] = levels[i] /\ b[2 * n + i] = offsets[i]
    <3>1. i \in 1..Len(a) /\ n + i \in 1..Len(a)
      BY <2>2
    <3>2. b[i] = a[i] /\ b[n + i] = a[n + i] /\ b[2 * n + i] = offsets[i]
      BY <2>1, <2>2, <3>1
    <3> QED BY <1>8, <3>2
  <2>4. Len(b) = 3 * n
    BY <2>1, <2>2
  <2> QED BY <2>3, <2>4
<1>10. /\ Len(c) = 3 * n + Len(data)
       /\ \A k \in 1..Len(data) : c[3 * n + k] = data[k]
       /\ \A i \in 1..n : c[i] = v[i] /\ c[n + i] = levels[i] /\ c[2 * n + i] = offsets[i]
  <2>1. /\ Len(c) = Len(b) + Len(data)
        /\ \A k \in 1..Len(b) : c[k] = b[k]
        /\ \A k \in 1..Len(data) : c[Len(b) + k] = data[k]
    BY <1>7 DEF JoinOf
  <2>2. \A i \in 1..n : i \in 1..Len(b) /\ n + i \in 1..Len(b) /\ 2 * n + i \in 1..Len(b)
    BY <1>9
  <2> QED BY <1>9, <2>1, <2>2
<1>11. TablesOK(c, v, lists, n, S)
  BY <1>1, <1>2, <1>10 DEF TablesOK
<1>12. CellsOK(c, lists, n, S)
  <2> SUFFICES ASSUME NEW i \in 1..n, NEW l \in 1..Len(lists[i])
               PROVE  /\ c[S[i][l]] = Len(lists[i][l])
                      /\ \A j \in 1..Len(lists[i][l]) : c[S[i][l] + j] = lists[i][l][j]
    BY DEF CellsOK
  <2> DEFINE p == S[i][l] - 3 * n
  <2>1. /\ p \in 1..Len(data) /\ data[p] = Len(lists[i][l])
        /\ \A j \in 1..Len(lists[i][l]) : p + j \in 1..Len(data) /\ data[p + j] = lists[i][l][j]
    BY <1>2 DEF DataLaid
  <2>2. S[i][l] \in Nat
    <3>1. Len(lists[i]) \in Nat /\ l \in 1..(Len(lists[i]) + 1)
      <4>1. Len(lists[i]) \in Nat
        BY DEF lists
      <4> QED BY <4>1
    <3> QED BY <1>2, <3>1 DEF PlacesOK
  <2>3. S[i][l] = 3 * n + p /\ p \in Nat
    BY <2>1, <2>2
  <2> HIDE DEF p
  <2>4. \A j \in 1..Len(lists[i][l]) : S[i][l] + j = 3 * n + (p + j)
    <3> SUFFICES ASSUME NEW j \in Int PROVE S[i][l] + j = 3 * n + (p + j)
      OBVIOUS
    <3> DEFINE at == S[i][l]
               tables == 3 * n
    <3>1. at = tables + p /\ p \in Nat /\ tables \in Nat
      BY <2>3
    <3> HIDE DEF at, tables
    <3>2. at + j = tables + (p + j)
      BY <3>1
    <3> QED BY <3>2 DEF at, tables
  <2> QED BY <1>10, <2>1, <2>3, <2>4
<1>13. PlacesOK(lists, n, S, Len(c) + 1)
  <2>1. Len(c) + 1 = 3 * n + 1 + Len(data)
    BY <1>3, <1>10
  <2> QED BY <1>2, <2>1
<1>14. /\ PlacesOK(lists, n, S, Len(GraphCells(index)) + 1)
       /\ TablesOK(GraphCells(index), v, lists, n, S)
       /\ CellsOK(GraphCells(index), lists, n, S)
  BY <1>4, <1>11, <1>12, <1>13
<1> QED BY <1>4, <1>7, <1>14 DEF v, lists

-----------------------------------------------------------------------------
(* Walking over the lists of a file that was cut                           *)

\* The cells c are those of an image up to w, and after it what was there
\* when the file was lengthened.
Torn(c, image, w) ==
  /\ c \in Seq(Nat) /\ image \in Seq(Nat)
  /\ w \in Nat /\ w <= Len(image) /\ w <= Len(c)
  /\ \A p \in 1..w : c[p] = image[p]
  /\ \A p \in (w + 1)..Len(c) : c[p] = 0

CellAt(c, p) == IF p <= Len(c) THEN c[p] ELSE 0

LEMMA CellOf ==
  ASSUME NEW c, NEW image, NEW w, Torn(c, image, w), NEW p \in Nat \ {0}
  PROVE  /\ CellAt(c, p) \in Nat
         /\ p <= w => CellAt(c, p) = image[p]
         /\ p > w => CellAt(c, p) = 0
<1>1. Len(c) \in Nat /\ DOMAIN c = 1..Len(c) /\ \A k \in 1..Len(c) : c[k] \in Nat
  BY LenProperties, ElementOfSeq DEF Torn
<1>2. w \in Nat /\ w <= Len(c)
  BY DEF Torn
<1>3. CASE p <= w
  <2>1. p \in 1..w /\ p \in 1..Len(c)
    BY <1>1, <1>2, <1>3
  <2> QED BY <1>1, <1>2, <1>3, <2>1 DEF Torn, CellAt
<1>4. CASE ~(p <= w) /\ p <= Len(c)
  <2>1. p \in (w + 1)..Len(c)
    BY <1>1, <1>2, <1>4
  <2> QED BY <1>2, <1>4, <2>1 DEF Torn, CellAt
<1>5. CASE ~(p <= w) /\ ~(p <= Len(c))
  BY <1>2, <1>5 DEF CellAt
<1> QED BY <1>3, <1>4, <1>5

\* A walk over the lists of a node: A is the running position, P where the
\* lists were written.
WalkOver(node, c, image, w, A, P) ==
  /\ Torn(c, image, w) /\ Len(node) \in Nat
  /\ \A l \in 1..Len(node) : Len(node[l]) \in Nat
  /\ \A l \in 1..(Len(node) + 1) : P[l] \in Nat \ {0}
  /\ A[1] = P[1]
  /\ \A l \in 1..Len(node) : /\ A[l + 1] = A[l] + 1 + CellAt(c, A[l])
                             /\ P[l + 1] = P[l] + 1 + Len(node[l])
                             /\ image[P[l]] = Len(node[l])

\* Up to list l the walk is where the lists are and sees their counts,
Straight(node, c, A, P, l) ==
  /\ \A m \in 1..l : A[m] = P[m]
  /\ \A m \in 1..(l - 1) : CellAt(c, P[m]) = Len(node[m])

\* or it is beyond the cut, a cell that reads as zero passed, and behind them.
Short(w, A, P, l) == A[l] \in Nat /\ w + 1 < A[l] /\ A[l] < P[l]

LEMMA WalkNode ==
  ASSUME NEW node, NEW c, NEW image, NEW w, NEW A, NEW P, WalkOver(node, c, image, w, A, P)
  PROVE  \A l \in 1..(Len(node) + 1) : Straight(node, c, A, P, l) \/ Short(w, A, P, l)
<1> DEFINE Holds(l) == Straight(node, c, A, P, l) \/ Short(w, A, P, l)
           bad == {l \in 1..(Len(node) + 1) : ~Holds(l)}
<1>1. Len(node) \in Nat /\ w \in Nat /\ Torn(c, image, w)
  BY DEF WalkOver, Torn
<1>2. Holds(1)
  BY DEF Straight, WalkOver
<1>3. ASSUME NEW l \in 1..Len(node), Holds(l) PROVE Holds(l + 1)
  <2>1. /\ A[l + 1] = A[l] + 1 + CellAt(c, A[l])
        /\ P[l + 1] = P[l] + 1 + Len(node[l])
        /\ image[P[l]] = Len(node[l]) /\ Len(node[l]) \in Nat
        /\ P[l] \in Nat \ {0}
    BY <1>1 DEF WalkOver
  <2>2. CASE Short(w, A, P, l)
    <3>1. A[l] \in Nat \ {0} /\ w + 1 < A[l] /\ A[l] < P[l]
      BY <1>1, <2>2 DEF Short
    <3>2. CellAt(c, A[l]) = 0
      BY <1>1, <3>1, CellOf
    <3> QED BY <1>1, <2>1, <3>1, <3>2 DEF Short
  <2>3. CASE Straight(node, c, A, P, l)
    <3>1. A[l] = P[l]
      BY <1>1, <2>3 DEF Straight
    <3>2. CASE CellAt(c, P[l]) = Len(node[l])
      <4>1. A[l + 1] = P[l + 1]
        BY <2>1, <3>1, <3>2
      <4>2. \A m \in 1..(l + 1) : m = l + 1 \/ m \in 1..l
        BY <1>1
      <4>3. \A m \in 1..((l + 1) - 1) : m = l \/ m \in 1..(l - 1)
        BY <1>1
      <4> QED BY <2>3, <3>2, <4>1, <4>2, <4>3 DEF Straight
    <3>3. CASE CellAt(c, P[l]) # Len(node[l])
      <4>1. ~(P[l] <= w)
        BY <1>1, <2>1, <3>3, CellOf
      <4>2. CellAt(c, P[l]) = 0 /\ Len(node[l]) # 0
        BY <1>1, <2>1, <3>3, <4>1, CellOf
      <4>3. A[l + 1] = P[l] + 1
        BY <2>1, <3>1, <4>2
      <4> QED BY <1>1, <2>1, <4>1, <4>2, <4>3 DEF Short
    <3> QED BY <3>2, <3>3
  <2> QED BY <1>3, <2>2, <2>3
<1> HIDE DEF Holds
<1>4. bad = {}
  <2> SUFFICES ASSUME bad # {} PROVE FALSE
    OBVIOUS
  <2>1. PICK l \in bad : \A k \in bad : l <= k
    <3>1. bad \subseteq Nat
      BY <1>1
    <3> HIDE DEF bad
    <3> QED BY <3>1, LeastExists
  <2>2. l \in 1..(Len(node) + 1) /\ ~Holds(l)
    BY <2>1
  <2>3. l # 1
    BY <1>2, <2>2
  <2>4. l - 1 \in 1..Len(node) /\ (l - 1) + 1 = l /\ l - 1 \in 1..(Len(node) + 1) /\ ~(l <= l - 1)
    BY <1>1, <2>2, <2>3
  <2>5. Holds(l - 1)
    BY <2>1, <2>4
  <2>6. Holds((l - 1) + 1)
    BY <1>3, <2>4, <2>5
  <2> QED BY <2>2, <2>4, <2>6
<1>5. \A l \in 1..(Len(node) + 1) : Holds(l)
  BY <1>4
<1> QED BY <1>5 DEF Holds

-----------------------------------------------------------------------------
(* The tables of a reader                                                  *)

LEMMA Monotone ==
  ASSUME NEW m \in Nat, NEW f \in [1..m -> Nat], \A i \in 1..m : i + 1 \in 1..m => f[i] <= f[i + 1]
  PROVE  \A i, j \in 1..m : i <= j => f[i] <= f[j]
<1> SUFFICES ASSUME NEW i \in 1..m PROVE \A j \in 1..m : i <= j => f[i] <= f[j]
  OBVIOUS
<1> DEFINE bad == {j \in 1..m : i <= j /\ ~(f[i] <= f[j])}
<1>1. bad = {}
  <2> SUFFICES ASSUME bad # {} PROVE FALSE
    OBVIOUS
  <2>1. PICK j \in bad : \A k \in bad : j <= k
    <3>1. bad \subseteq Nat
      OBVIOUS
    <3> HIDE DEF bad
    <3> QED BY <3>1, LeastExists
  <2>2. j \in 1..m /\ i <= j /\ ~(f[i] <= f[j])
    BY <2>1
  <2>3. i # j
    BY <2>2
  <2>4. j - 1 \in 1..m /\ i <= j - 1 /\ (j - 1) + 1 = j /\ ~(j <= j - 1)
    BY <2>2, <2>3
  <2>5. j - 1 \notin bad
    BY <2>1, <2>4
  <2>6. f[i] <= f[j - 1] /\ f[j - 1] <= f[j]
    BY <2>2, <2>4, <2>5
  <2> QED BY <2>2, <2>4, <2>6
<1> QED BY <1>1

\* Which list of the file is the first of a node.
FirstsOK(first, disk, n) ==
  /\ first \in [1..(n + 1) -> Nat] /\ first[1] = 1
  /\ \A i \in 1..n : first[i + 1] = first[i] + StoredLevel(disk, i) + 1
  /\ \A i \in 1..(n + 1) : 1 <= first[i] /\ first[i] <= first[n + 1]

FirstStep(f, disk, n) ==
  f = [i \in 1..(n + 1) |-> IF i = 1 THEN 1 ELSE f[i - 1] + StoredLevel(disk, i - 1) + 1]

LEMMA FirstListIs ==
  ASSUME NEW disk, NEW n \in Nat, disk.header.n = n, disk.cells \in Seq(Nat), 2 * n <= Len(disk.cells)
  PROVE  FirstsOK(FirstList(disk), disk, n)
<1>1. \A i \in 1..n : StoredLevel(disk, i) \in Nat
  <2>1. Len(disk.cells) \in Nat /\ \A p \in 1..Len(disk.cells) : disk.cells[p] \in Nat
    BY LenProperties, ElementOfSeq
  <2> DEFINE len == Len(disk.cells)
  <2> HIDE DEF len
  <2>2. \A i \in 1..n : n + i \in 1..len
    BY <2>1 DEF len
  <2> QED BY <2>1, <2>2 DEF StoredLevel, len
<1> DEFINE up(i) == StoredLevel(disk, i)
           c == CHOOSE f : FirstStep(f, disk, n)
           step == [i \in 1..(n + 1) |-> [x \in Nat |-> IF i = 1 THEN x ELSE x + up(i - 1) + 1]]
<1>2. FirstList(disk) = c
  BY DEF FirstList, FirstStep
<1>3. \E f : FirstStep(f, disk, n)
  <2>1. step \in [1..(n + 1) -> [Nat -> Nat]]
    <3>1. ASSUME NEW i \in 1..(n + 1), NEW x \in Nat
          PROVE  (IF i = 1 THEN x ELSE x + up(i - 1) + 1) \in Nat
      <4>1. CASE i = 1
        BY <4>1
      <4>2. CASE i # 1
        <5>1. i - 1 \in 1..n
          BY <4>2
        <5>2. up(i - 1) \in Nat
          BY <1>1, <5>1
        <5> HIDE DEF up
        <5> QED BY <4>2, <5>2
      <4> QED BY <4>1, <4>2
    <3> HIDE DEF up
    <3> QED BY <3>1
  <2>2. PICK f \in [1..(n + 1) -> Nat] : Follows(f, n + 1, 1, step)
    <3> HIDE DEF step
    <3>1. n + 1 \in Nat /\ 1 \in Nat
      OBVIOUS
    <3> QED BY <2>1, <3>1, TableExists, ZenonT(30)
  <2>3. ASSUME NEW i \in 1..(n + 1)
        PROVE  f[i] = IF i = 1 THEN 1 ELSE f[i - 1] + up(i - 1) + 1
    <3> HIDE DEF up
    <3>1. f[i] = IF i = 1 THEN 1 ELSE step[i][f[i - 1]]
      BY <2>2 DEF Follows
    <3>2. i # 1 => f[i - 1] \in Nat
      OBVIOUS
    <3> QED BY <3>1, <3>2
  <2>4. f = [i \in 1..(n + 1) |-> f[i]]
    BY <2>2
  <2>5. f = [i \in 1..(n + 1) |-> IF i = 1 THEN 1 ELSE f[i - 1] + up(i - 1) + 1]
    <3> HIDE DEF up
    <3> QED BY <2>3, <2>4
  <2> QED BY <2>5 DEF FirstStep
<1>4. FirstStep(c, disk, n)
  <2> QED BY <1>3
<1> HIDE DEF c
<1>5. \A i \in 1..(n + 1) : c[i] = IF i = 1 THEN 1 ELSE c[i - 1] + up(i - 1) + 1
  BY <1>4 DEF FirstStep
<1> HIDE DEF up, step
<1>6. DOMAIN c = 1..(n + 1) /\ c = [i \in 1..(n + 1) |-> c[i]]
  BY <1>4 DEF FirstStep
<1> DEFINE bad == {i \in 1..(n + 1) : ~(c[i] \in Nat /\ 1 <= c[i])}
<1>7. bad = {}
  <2> SUFFICES ASSUME bad # {} PROVE FALSE
    OBVIOUS
  <2>1. PICK i \in bad : \A k \in bad : i <= k
    <3>1. bad \subseteq Nat
      OBVIOUS
    <3> HIDE DEF bad
    <3> QED BY <3>1, LeastExists
  <2>2. i \in 1..(n + 1) /\ ~(c[i] \in Nat /\ 1 <= c[i])
    BY <2>1
  <2>3. i # 1
    BY <1>5, <2>2
  <2>4. i - 1 \in 1..n /\ i - 1 \in 1..(n + 1) /\ ~(i <= i - 1)
    BY <2>2, <2>3
  <2>5. c[i - 1] \in Nat /\ 1 <= c[i - 1]
    BY <2>1, <2>4
  <2>6. c[i] = c[i - 1] + up(i - 1) + 1 /\ up(i - 1) \in Nat
    BY <1>1, <1>5, <2>2, <2>3, <2>4 DEF up
  <2> QED BY <2>2, <2>5, <2>6
<1>8. c \in [1..(n + 1) -> Nat] /\ \A i \in 1..(n + 1) : 1 <= c[i]
  BY <1>6, <1>7
<1>9. c[1] = 1
  BY <1>5
<1>10. ASSUME NEW i \in 1..n PROVE c[i + 1] = c[i] + up(i) + 1
  <2>1. i + 1 \in 1..(n + 1) /\ i + 1 # 1 /\ (i + 1) - 1 = i
    OBVIOUS
  <2>2. c[i + 1] = c[(i + 1) - 1] + up((i + 1) - 1) + 1
    BY <1>5, <2>1
  <2> QED BY <2>1, <2>2
<1>11. \A i \in 1..(n + 1) : i + 1 \in 1..(n + 1) => c[i] <= c[i + 1]
  <2> SUFFICES ASSUME NEW i \in 1..n PROVE c[i] <= c[i + 1]
    OBVIOUS
  <2>1. up(i) \in Nat /\ c[i] \in Nat
    BY <1>1, <1>8 DEF up
  <2> QED BY <1>10, <2>1
<1>12. \A i \in 1..(n + 1) : c[i] <= c[n + 1]
  <2> DEFINE m == n + 1
  <2>1. m \in Nat /\ m \in 1..m /\ \A i \in 1..m : i <= m
    OBVIOUS
  <2> HIDE DEF m
  <2>2. c \in [1..m -> Nat] /\ \A i \in 1..m : i + 1 \in 1..m => c[i] <= c[i + 1]
    BY <1>8, <1>11 DEF m
  <2>3. \A i, j \in 1..m : i <= j => c[i] <= c[j]
    BY <2>1, <2>2, Monotone
  <2>4. \A i \in 1..m : c[i] <= c[m]
    BY <2>1, <2>3
  <2> QED BY <2>4 DEF m
<1> QED BY <1>2, <1>8, <1>9, <1>10, <1>12 DEF FirstsOK, up

\* Where a walk over the counts is, list after list.
PositionsOK(at, disk, n, m) ==
  /\ at \in [1..m -> Nat] /\ at[1] = 3 * n + 1
  /\ \A k \in 1..m : k + 1 \in 1..m => at[k + 1] = at[k] + 1 + CellAt(disk.cells, at[k])
  /\ \A k \in 1..m : 3 * n + 1 <= at[k] /\ at[k] <= at[m]

PositionStep(f, disk, n, m) ==
  f = [k \in 1..m |-> IF k = 1 THEN 3 * n + 1 ELSE f[k - 1] + 1 + CellAt(disk.cells, f[k - 1])]

LEMMA PositionsIs ==
  ASSUME NEW disk, NEW n \in Nat, disk.header.n = n, disk.cells \in Seq(Nat), 2 * n <= Len(disk.cells),
         NEW m, m = FirstList(disk)[n + 1]
  PROVE  PositionsOK(ListPositions(disk), disk, n, m)
<1>0. m \in Nat /\ 1 <= m
  <2>1. FirstsOK(FirstList(disk), disk, n)
    BY FirstListIs
  <2>2. n + 1 \in 1..(n + 1)
    OBVIOUS
  <2> QED BY <2>1, <2>2 DEF FirstsOK
<1> DEFINE cell(p) == CellAt(disk.cells, p)
           c == CHOOSE f : PositionStep(f, disk, n, m)
           Pos == Nat \ {0}
           step == [k \in 1..m |-> [x \in Pos |-> x + 1 + cell(x)]]
<1>1. \A p \in Pos : cell(p) \in Nat
  <2>1. Len(disk.cells) \in Nat /\ \A p \in 1..Len(disk.cells) : disk.cells[p] \in Nat
    BY LenProperties, ElementOfSeq
  <2> QED BY <2>1 DEF CellAt
<1>2. ListPositions(disk) = c
  <2>1. \A f : PositionStep(f, disk, n, m) <=>
          f = [k \in 1..FirstList(disk)[disk.header.n + 1] |->
                IF k = 1 THEN 3 * disk.header.n + 1
                ELSE f[k - 1] + 1 + (IF f[k - 1] <= Len(disk.cells) THEN disk.cells[f[k - 1]] ELSE 0)]
    BY DEF PositionStep, CellAt
  <2> QED BY <2>1 DEF ListPositions, PositionStep, CellAt
<1>3. \E f : PositionStep(f, disk, n, m)
  <2>1. step \in [1..m -> [Pos -> Pos]]
    <3> HIDE DEF cell
    <3> QED BY <1>1
  <2>2. 3 * n + 1 \in Pos
    OBVIOUS
  <2>3. PICK f \in [1..m -> Pos] : Follows(f, m, 3 * n + 1, step)
    <3> HIDE DEF step, Pos
    <3> QED BY <1>0, <2>1, <2>2, TableExists, ZenonT(30)
  <2>4. ASSUME NEW k \in 1..m
        PROVE  f[k] = IF k = 1 THEN 3 * n + 1 ELSE f[k - 1] + 1 + cell(f[k - 1])
    <3> HIDE DEF cell
    <3>1. f[k] = IF k = 1 THEN 3 * n + 1 ELSE step[k][f[k - 1]]
      BY <2>3 DEF Follows
    <3>2. k # 1 => f[k - 1] \in Pos
      BY <1>0
    <3> QED BY <3>1, <3>2
  <2>5. f = [k \in 1..m |-> IF k = 1 THEN 3 * n + 1 ELSE f[k - 1] + 1 + cell(f[k - 1])]
    <3> HIDE DEF cell, step
    <3>1. DOMAIN f = 1..m /\ f = [k \in 1..m |-> f[k]]
      BY <2>3
    <3> QED BY <2>4, <3>1
  <2>6. PositionStep(f, disk, n, m)
    BY <2>5 DEF PositionStep
  <2> QED BY <2>6
<1>4. PositionStep(c, disk, n, m)
  <2> QED BY <1>3
<1> HIDE DEF c
<1>5. \A k \in 1..m : c[k] = IF k = 1 THEN 3 * n + 1 ELSE c[k - 1] + 1 + cell(c[k - 1])
  BY <1>4 DEF PositionStep
<1>6. DOMAIN c = 1..m /\ c = [k \in 1..m |-> c[k]]
  BY <1>4 DEF PositionStep
<1> HIDE DEF cell, step
<1> DEFINE start == 3 * n + 1
<1>7. start \in Nat /\ 1 <= start
  OBVIOUS
<1> DEFINE bad == {k \in 1..m : ~(c[k] \in Nat /\ start <= c[k])}
<1>8. bad = {}
  <2> SUFFICES ASSUME bad # {} PROVE FALSE
    OBVIOUS
  <2>1. PICK k \in bad : \A j \in bad : k <= j
    <3>1. bad \subseteq Nat
      BY <1>0
    <3> HIDE DEF bad
    <3> QED BY <3>1, LeastExists
  <2>2. k \in 1..m /\ ~(c[k] \in Nat /\ start <= c[k])
    BY <2>1
  <2>3. k # 1
    BY <1>5, <1>7, <2>2
  <2>4. k - 1 \in 1..m /\ ~(k <= k - 1)
    BY <1>0, <2>2, <2>3
  <2>5. c[k - 1] \in Nat /\ start <= c[k - 1]
    BY <2>1, <2>4
  <2>6. c[k] = c[k - 1] + 1 + cell(c[k - 1]) /\ cell(c[k - 1]) \in Nat
    <3>1. c[k - 1] \in Pos
      <4> HIDE DEF start
      <4> QED BY <1>7, <2>5
    <3> QED BY <1>1, <1>5, <2>2, <2>3, <3>1
  <2> HIDE DEF start
  <2> QED BY <1>7, <2>2, <2>5, <2>6
<1>9. c \in [1..m -> Nat] /\ \A k \in 1..m : start <= c[k] /\ c[k] \in Nat
  BY <1>6, <1>8
<1>10. ASSUME NEW k \in 1..m, k + 1 \in 1..m PROVE c[k + 1] = c[k] + 1 + cell(c[k])
  <2>1. k + 1 # 1 /\ (k + 1) - 1 = k
    BY <1>0
  <2>2. c[k + 1] = c[(k + 1) - 1] + 1 + cell(c[(k + 1) - 1])
    BY <1>5, <1>10, <2>1
  <2> QED BY <2>1, <2>2
<1>11. \A k \in 1..m : k + 1 \in 1..m => c[k] <= c[k + 1]
  <2> SUFFICES ASSUME NEW k \in 1..m, k + 1 \in 1..m PROVE c[k] <= c[k + 1]
    OBVIOUS
  <2>1. c[k] \in Pos
    <3> HIDE DEF start
    <3> QED BY <1>7, <1>9
  <2>2. cell(c[k]) \in Nat
    BY <1>1, <2>1
  <2>3. c[k + 1] = c[k] + 1 + cell(c[k])
    BY <1>10
  <2> QED BY <2>1, <2>2, <2>3
<1>12. \A i, j \in 1..m : i <= j => c[i] <= c[j]
  BY <1>0, <1>9, <1>11, Monotone
<1>13. \A k \in 1..m : c[k] <= c[m]
  BY <1>0, <1>12
<1>14. c[1] = start
  BY <1>0, <1>5
<1> QED BY <1>2, <1>9, <1>10, <1>13, <1>14 DEF PositionsOK, start, cell

-----------------------------------------------------------------------------
(* Reading the graph of a file that was cut                                *)

\* The file has the header of an image of n nodes and its cells up to w.
FileOf(disk, image, w, vecs, lists, n, S, end) ==
  /\ Torn(disk.cells, image, w) /\ disk.header.n = n /\ n \in Nat
  /\ vecs \in Seq(Nat) /\ Len(vecs) = n
  /\ lists \in Lists /\ Len(lists) = n /\ \A i \in 1..n : Len(lists[i]) \in Nat \ {0}
  /\ PlacesOK(lists, n, S, end) /\ TablesOK(image, vecs, lists, n, S) /\ CellsOK(image, lists, n, S)
  /\ end <= Len(image) + 1

\* Where the readers find list l of node i, and the end of the lists.
PlaceRead(disk, i, l) == ListPositions(disk)[FirstList(disk)[i] + l - 1]
EndRead(disk) == ListPositions(disk)[FirstList(disk)[disk.header.n + 1]]

\* The walk in terms of nodes and layers.
WalkOK(disk, lists, n) ==
  /\ \A i \in 1..n : StoredLevel(disk, i) = Len(lists[i]) - 1
  /\ \A i \in 1..n : \A l \in 1..(Len(lists[i]) + 1) :
       PlaceRead(disk, i, l) \in Nat \ {0} /\ PlaceRead(disk, i, l) <= EndRead(disk)
  /\ \A i \in 1..n : \A l \in 1..Len(lists[i]) :
       PlaceRead(disk, i, l + 1) = PlaceRead(disk, i, l) + 1 + CellAt(disk.cells, PlaceRead(disk, i, l))
  /\ \A i \in 1..n : i + 1 \in 1..n => PlaceRead(disk, i + 1, 1) = PlaceRead(disk, i, Len(lists[i]) + 1)
  /\ n # 0 => PlaceRead(disk, 1, 1) = 3 * n + 1 /\ EndRead(disk) = PlaceRead(disk, n, Len(lists[n]) + 1)
  /\ n = 0 => EndRead(disk) = 1

LEMMA WalkIs ==
  ASSUME NEW disk, NEW image, NEW w, NEW vecs, NEW lists, NEW n, NEW S, NEW end,
         FileOf(disk, image, w, vecs, lists, n, S, end), 3 * n <= w
  PROVE  WalkOK(disk, lists, n)
<1> DEFINE first == FirstList(disk)
           at == ListPositions(disk)
           m == first[n + 1]
           cells == disk.cells
           size(i) == Len(lists[i])
<1>1. /\ n \in Nat /\ disk.header.n = n /\ cells \in Seq(Nat) /\ w \in Nat /\ w <= Len(cells)
      /\ \A i \in 1..n : size(i) \in Nat \ {0}
  BY DEF FileOf, Torn
<1>2. Len(cells) \in Nat /\ 2 * n <= Len(cells) /\ 2 * n <= w
  BY <1>1, LenProperties
<1>3. FirstsOK(first, disk, n)
  BY <1>1, <1>2, FirstListIs
<1>4. PositionsOK(at, disk, n, m)
  BY <1>1, <1>2, PositionsIs
<1>5. ASSUME NEW i \in 1..n PROVE StoredLevel(disk, i) = size(i) - 1
  <2>1. n + i \in 1..w
    BY <1>1, <1>2
  <2>2. cells[n + i] = image[n + i]
    BY <2>1 DEF FileOf, Torn
  <2>3. image[n + i] = size(i) - 1
    BY DEF FileOf, TablesOK
  <2> QED BY <1>1, <2>2, <2>3 DEF StoredLevel
<1> HIDE DEF first, at, m, size, cells
<1>6. /\ \A i \in 1..(n + 1) : first[i] \in Nat /\ 1 <= first[i] /\ first[i] <= m
      /\ first[1] = 1 /\ m = first[n + 1] /\ m \in Nat /\ 1 <= m
  <2>1. n + 1 \in 1..(n + 1)
    BY <1>1
  <2> QED BY <1>3, <2>1 DEF FirstsOK, m
<1>7. ASSUME NEW i \in 1..n PROVE first[i + 1] = first[i] + size(i)
  <2>1. first[i + 1] = first[i] + StoredLevel(disk, i) + 1
    BY <1>3 DEF FirstsOK
  <2>2. first[i] \in Nat /\ size(i) \in Nat
    BY <1>1, <1>6
  <2> QED BY <1>5, <2>1, <2>2
<1>8. ASSUME NEW i \in 1..n, NEW l \in 1..(size(i) + 1)
      PROVE  /\ first[i] + l - 1 \in 1..m /\ PlaceRead(disk, i, l) = at[first[i] + l - 1]
             /\ l # size(i) + 1 => first[i] + l - 1 + 1 = first[i] + (l + 1) - 1 /\ first[i] + (l + 1) - 1 \in 1..m
  <2>1. i \in 1..(n + 1) /\ i + 1 \in 1..(n + 1)
    BY <1>1
  <2>2. /\ first[i] \in Nat /\ 1 <= first[i] /\ first[i + 1] = first[i] + size(i)
        /\ first[i + 1] <= m /\ size(i) \in Nat /\ m \in Nat
    BY <1>1, <1>6, <1>7, <2>1
  <2>3. first[i] + l - 1 \in 1..m /\ (l # size(i) + 1 => first[i] + (l + 1) - 1 \in 1..m)
    BY <2>2
  <2>4. first[i] + l - 1 + 1 = first[i] + (l + 1) - 1
    BY <2>2
  <2> QED BY <2>3, <2>4 DEF PlaceRead, first, at
<1>9. \A k \in 1..m : at[k] \in Nat \ {0} /\ at[k] <= at[m]
  <2>1. at \in [1..m -> Nat] /\ \A k \in 1..m : 3 * n + 1 <= at[k] /\ at[k] <= at[m]
    BY <1>4 DEF PositionsOK
  <2>2. 3 * n \in Nat
    BY <1>1
  <2> QED BY <2>1, <2>2
<1>10. EndRead(disk) = at[m]
  BY <1>1 DEF EndRead, at, m, first
<1>11. ASSUME NEW i \in 1..n, NEW l \in 1..(size(i) + 1)
       PROVE  PlaceRead(disk, i, l) \in Nat \ {0} /\ PlaceRead(disk, i, l) <= EndRead(disk)
  BY <1>8, <1>9, <1>10
<1>12. ASSUME NEW i \in 1..n, NEW l \in 1..size(i)
       PROVE  PlaceRead(disk, i, l + 1) = PlaceRead(disk, i, l) + 1 + CellAt(cells, PlaceRead(disk, i, l))
  <2>1. l \in 1..(size(i) + 1) /\ l + 1 \in 1..(size(i) + 1) /\ l # size(i) + 1
    BY <1>1
  <2> DEFINE k == first[i] + l - 1
  <2>2. /\ k \in 1..m /\ k + 1 \in 1..m /\ PlaceRead(disk, i, l) = at[k]
        /\ PlaceRead(disk, i, l + 1) = at[k + 1]
    BY <1>8, <2>1
  <2> HIDE DEF k
  <2> QED BY <1>4, <2>2 DEF PositionsOK, cells
<1>13. ASSUME NEW i \in 1..n, i + 1 \in 1..n
       PROVE  PlaceRead(disk, i + 1, 1) = PlaceRead(disk, i, size(i) + 1)
  <2>1. size(i) \in Nat /\ 1 \in 1..(size(i + 1) + 1) /\ size(i) + 1 \in 1..(size(i) + 1)
    BY <1>1, <1>13
  <2>2. PlaceRead(disk, i + 1, 1) = at[first[i + 1] + 1 - 1]
    BY <1>8, <1>13, <2>1
  <2>3. PlaceRead(disk, i, size(i) + 1) = at[first[i] + (size(i) + 1) - 1]
    BY <1>8, <2>1
  <2>4. first[i] \in Nat /\ first[i + 1] = first[i] + size(i)
    <3>1. i \in 1..(n + 1)
      BY <1>1
    <3> QED BY <1>6, <1>7, <3>1
  <2>5. first[i + 1] + 1 - 1 = first[i] + (size(i) + 1) - 1
    BY <2>1, <2>4
  <2> QED BY <2>2, <2>3, <2>5
<1>14. ASSUME n # 0
       PROVE  PlaceRead(disk, 1, 1) = 3 * n + 1 /\ EndRead(disk) = PlaceRead(disk, n, size(n) + 1)
  <2>1. 1 \in 1..n /\ n \in 1..n
    BY <1>1, <1>14
  <2>2. size(n) \in Nat /\ 1 \in 1..(size(1) + 1) /\ size(n) + 1 \in 1..(size(n) + 1)
    BY <1>1, <2>1
  <2>3. PlaceRead(disk, 1, 1) = at[first[1] + 1 - 1]
    BY <1>8, <2>1, <2>2
  <2>4. PlaceRead(disk, n, size(n) + 1) = at[first[n] + (size(n) + 1) - 1]
    BY <1>8, <2>1, <2>2
  <2>5. first[n] \in Nat /\ first[n + 1] = first[n] + size(n)
    BY <1>1, <1>6, <1>7, <2>1
  <2>6. first[n] + (size(n) + 1) - 1 = m /\ first[1] + 1 - 1 = 1
    BY <1>6, <2>2, <2>5
  <2>7. at[1] = 3 * n + 1
    BY <1>4 DEF PositionsOK
  <2> QED BY <1>10, <2>3, <2>4, <2>6, <2>7
<1>15. n = 0 => EndRead(disk) = 1
  <2>1. n = 0 => m = 1
    BY <1>6
  <2>2. at[1] = 3 * n + 1
    BY <1>4 DEF PositionsOK
  <2> QED BY <1>10, <2>1, <2>2
<1> QED BY <1>5, <1>11, <1>12, <1>13, <1>14, <1>15 DEF WalkOK, size, cells

\* The walk over node i met every list where it was written.
Walked(disk, lists, S, i) ==
  /\ \A l \in 1..(Len(lists[i]) + 1) : PlaceRead(disk, i, l) = S[i][l]
  /\ \A l \in 1..Len(lists[i]) : CellAt(disk.cells, S[i][l]) = Len(lists[i][l])

\* A node whose first list is where it was written is walked, or the walk
\* ends behind.
LEMMA NodeWalk ==
  ASSUME NEW disk, NEW image, NEW w, NEW vecs, NEW lists, NEW n, NEW S, NEW end,
         FileOf(disk, image, w, vecs, lists, n, S, end), 3 * n <= w,
         NEW i \in 1..n, PlaceRead(disk, i, 1) = S[i][1]
  PROVE  LET last == Len(lists[i]) + 1 IN
         Walked(disk, lists, S, i)
         \/ (w + 1 < PlaceRead(disk, i, last) /\ PlaceRead(disk, i, last) < S[i][last])
<1> DEFINE node == lists[i]
           A == [l \in 1..(Len(node) + 1) |-> PlaceRead(disk, i, l)]
           P == S[i]
<1>1. WalkOK(disk, lists, n)
  BY WalkIs
<1>2. Len(node) \in Nat /\ \A l \in 1..Len(node) : Len(node[l]) \in Nat
  <2>1. lists \in Lists /\ i \in 1..Len(lists)
    BY DEF FileOf
  <2>2. node \in Seq(Seq(Nat))
    BY <2>1, ElementOfSeq DEF Lists
  <2> HIDE DEF node
  <2> QED BY <2>2, LenProperties, ElementOfSeq
<1>3. ASSUME NEW l \in 1..(Len(node) + 1) PROVE A[l] = PlaceRead(disk, i, l)
  OBVIOUS
<1>4. ASSUME NEW l \in 1..Len(node)
      PROVE  /\ A[l + 1] = A[l] + 1 + CellAt(disk.cells, A[l])
             /\ P[l + 1] = P[l] + 1 + Len(node[l])
             /\ image[P[l]] = Len(node[l])
  <2>1. l \in 1..(Len(node) + 1) /\ l + 1 \in 1..(Len(node) + 1)
    BY <1>2
  <2>2. PlaceRead(disk, i, l + 1) = PlaceRead(disk, i, l) + 1 + CellAt(disk.cells, PlaceRead(disk, i, l))
    BY <1>1 DEF WalkOK
  <2>3. P[l + 1] = P[l] + 1 + Len(node[l])
    BY DEF FileOf, PlacesOK
  <2>4. image[P[l]] = Len(node[l])
    BY DEF FileOf, CellsOK
  <2> HIDE DEF A, P, node
  <2> QED BY <1>3, <2>1, <2>2, <2>3, <2>4
<1>5. \A l \in 1..(Len(node) + 1) : P[l] \in Nat \ {0}
  <2>1. n \in Nat /\ \A l \in 1..(Len(node) + 1) : P[l] \in Nat /\ 3 * n + 1 <= P[l]
    BY DEF FileOf, PlacesOK
  <2> HIDE DEF node, P
  <2> QED BY <2>1
<1>6. Torn(disk.cells, image, w)
  BY DEF FileOf
<1>7. A[1] = P[1]
  BY <1>2, <1>3
<1> HIDE DEF A, P, node
<1>8. WalkOver(node, disk.cells, image, w, A, P)
  BY <1>2, <1>4, <1>5, <1>6, <1>7 DEF WalkOver
<1> DEFINE last == Len(node) + 1
<1>9. last \in 1..last /\ last - 1 = Len(node)
  BY <1>2
<1>10. Straight(node, disk.cells, A, P, last) \/ Short(w, A, P, last)
  BY <1>8, <1>9, WalkNode
<1>11. CASE Straight(node, disk.cells, A, P, last)
  <2>1. /\ \A l \in 1..last : A[l] = P[l]
        /\ \A l \in 1..Len(node) : CellAt(disk.cells, P[l]) = Len(node[l])
    BY <1>9, <1>11 DEF Straight
  <2> QED BY <1>3, <2>1 DEF Walked, node, P
<1>12. CASE Short(w, A, P, last)
  BY <1>3, <1>9, <1>12 DEF Short, node, P
<1> QED BY <1>10, <1>11, <1>12

\* The lists that the readers check, one by one, are those of the nodes.
IndexOK(disk, lists, n) ==
  LET first == FirstList(disk)
      at == ListPositions(disk)
  IN  /\ \A i \in 1..n : at[first[i]] = PlaceRead(disk, i, 1)
      /\ \A i \in 1..n : \A l \in 1..Len(lists[i]) : first[i] + l - 1 \in 1..(first[n + 1] - 1)
      /\ \A k \in 1..(first[n + 1] - 1) : \E i \in 1..n : \E l \in 1..Len(lists[i]) :
           at[k] = PlaceRead(disk, i, l)

LEMMA IndexIs ==
  ASSUME NEW disk, NEW image, NEW w, NEW vecs, NEW lists, NEW n, NEW S, NEW end,
         FileOf(disk, image, w, vecs, lists, n, S, end), 3 * n <= w
  PROVE  IndexOK(disk, lists, n)
<1> DEFINE first == FirstList(disk)
           at == ListPositions(disk)
           m == first[n + 1]
           size(i) == Len(lists[i])
<1>1. /\ n \in Nat /\ disk.header.n = n /\ disk.cells \in Seq(Nat) /\ w \in Nat /\ w <= Len(disk.cells)
      /\ \A i \in 1..n : size(i) \in Nat \ {0}
  BY DEF FileOf, Torn
<1>2. 2 * n <= Len(disk.cells)
  BY <1>1, LenProperties
<1>3. FirstsOK(first, disk, n)
  BY <1>1, <1>2, FirstListIs
<1>4. WalkOK(disk, lists, n)
  BY WalkIs
<1> HIDE DEF first, at, m, size
<1>5. /\ \A i \in 1..(n + 1) : first[i] \in Nat /\ 1 <= first[i] /\ first[i] <= m
      /\ first[1] = 1 /\ m = first[n + 1] /\ m \in Nat /\ 1 <= m
  <2>1. n + 1 \in 1..(n + 1)
    BY <1>1
  <2> QED BY <1>3, <2>1 DEF FirstsOK, m
<1>6. ASSUME NEW i \in 1..n PROVE first[i + 1] = first[i] + size(i)
  <2>1. first[i + 1] = first[i] + StoredLevel(disk, i) + 1
    BY <1>3 DEF FirstsOK
  <2>2. StoredLevel(disk, i) = size(i) - 1
    BY <1>4 DEF WalkOK, size
  <2>3. first[i] \in Nat /\ size(i) \in Nat
    BY <1>1, <1>5
  <2> QED BY <2>1, <2>2, <2>3
<1>7. ASSUME NEW i \in 1..n PROVE at[first[i]] = PlaceRead(disk, i, 1)
  <2>0. i \in 1..(n + 1)
    BY <1>1
  <2>1. first[i] + 1 - 1 = first[i]
    BY <1>5, <2>0
  <2> QED BY <2>1 DEF PlaceRead, first, at
<1>8. ASSUME NEW i \in 1..n, NEW l \in 1..size(i) PROVE first[i] + l - 1 \in 1..(m - 1)
  <2>1. i \in 1..(n + 1) /\ i + 1 \in 1..(n + 1)
    BY <1>1
  <2>2. /\ first[i] \in Nat /\ 1 <= first[i] /\ first[i + 1] = first[i] + size(i)
        /\ first[i + 1] <= m /\ size(i) \in Nat /\ m \in Nat
    BY <1>1, <1>5, <1>6, <2>1
  <2> QED BY <2>2
<1>9. ASSUME NEW k \in 1..(m - 1)
      PROVE  \E i \in 1..n : \E l \in 1..size(i) : at[k] = PlaceRead(disk, i, l)
  <2> DEFINE T == {j \in 1..(n + 1) : k < first[j]}
  <2>1. T # {} /\ T \subseteq Nat
    <3>1. n + 1 \in 1..(n + 1) /\ k < m
      BY <1>1, <1>5
    <3>2. n + 1 \in T
      BY <1>5, <3>1
    <3>3. T \subseteq Nat
      BY <1>1
    <3> QED BY <3>2, <3>3
  <2>2. PICK j \in T : \A h \in T : j <= h
    <3> HIDE DEF T
    <3> QED BY <2>1, LeastExists
  <2>3. j \in 1..(n + 1) /\ k < first[j]
    BY <2>2
  <2>4. j # 1
    BY <1>5, <2>3
  <2> DEFINE i == j - 1
  <2>5. i \in 1..n /\ i \in 1..(n + 1) /\ i + 1 = j /\ ~(j <= i)
    BY <1>1, <2>3, <2>4
  <2>6. ~(k < first[i])
    BY <2>2, <2>5
  <2> HIDE DEF i
  <2>7. first[i] \in Nat /\ 1 <= first[i] /\ first[j] = first[i] + size(i) /\ size(i) \in Nat
    BY <1>1, <1>5, <1>6, <2>5
  <2> DEFINE l == k - first[i] + 1
  <2>8. l \in 1..size(i) /\ first[i] + l - 1 = k
    BY <1>5, <2>3, <2>6, <2>7
  <2>9. at[k] = PlaceRead(disk, i, l)
    BY <2>8 DEF PlaceRead, first, at
  <2> HIDE DEF l
  <2> QED BY <2>5, <2>8, <2>9
<1> QED BY <1>7, <1>8, <1>9 DEF IndexOK, first, at, m, size

\* Where the offsets that were recorded are those met, only the walk over the
\* last node can have gone astray.
LEMMA CutWalk ==
  ASSUME NEW disk, NEW image, NEW w, NEW vecs, NEW lists, NEW n, NEW S, NEW end,
         FileOf(disk, image, w, vecs, lists, n, S, end), 3 * n <= w, n # 0,
         \A i \in 1..n : PlaceRead(disk, i, 1) = S[i][1]
  PROVE  /\ \A i \in 1..n : i + 1 \in 1..n => Walked(disk, lists, S, i)
         /\ Walked(disk, lists, S, n) \/ (w + 1 < EndRead(disk) /\ EndRead(disk) < end)
<1> DEFINE last(i) == Len(lists[i]) + 1
           Astray(i) == w + 1 < PlaceRead(disk, i, last(i)) /\ PlaceRead(disk, i, last(i)) < S[i][last(i)]
<1>1. WalkOK(disk, lists, n)
  BY WalkIs
<1>2. ASSUME NEW i \in 1..n PROVE Walked(disk, lists, S, i) \/ Astray(i)
  BY <1>2, NodeWalk
<1>3. n \in Nat /\ PlacesOK(lists, n, S, end)
  BY DEF FileOf
<1>4. ASSUME NEW i \in 1..n, i + 1 \in 1..n PROVE ~Astray(i)
  <2>1. PlaceRead(disk, i, last(i)) = PlaceRead(disk, i + 1, 1)
    BY <1>1, <1>4 DEF WalkOK
  <2>2. S[i + 1][1] = S[i][last(i)]
    BY <1>3, <1>4 DEF PlacesOK
  <2>3. S[i + 1][1] \in Nat
    <3>1. 1 \in 1..(Len(lists[i + 1]) + 1)
      BY <1>4 DEF FileOf
    <3> QED BY <1>3, <1>4, <3>1 DEF PlacesOK
  <2> HIDE DEF last
  <2> QED BY <1>4, <2>1, <2>2, <2>3
<1>5. n \in 1..n
  BY <1>3
<1>6. EndRead(disk) = PlaceRead(disk, n, last(n)) /\ S[n][last(n)] = end
  BY <1>1, <1>3 DEF WalkOK, PlacesOK
<1>7. Walked(disk, lists, S, n) \/ (w + 1 < EndRead(disk) /\ EndRead(disk) < end)
  BY <1>2, <1>5, <1>6
<1> HIDE DEF Astray
<1> QED BY <1>2, <1>4, <1>7

\* If the cut is behind the lists, the walk meets them all.
LEMMA WholeWalk ==
  ASSUME NEW disk, NEW image, NEW w, NEW vecs, NEW lists, NEW n, NEW S, NEW end,
         FileOf(disk, image, w, vecs, lists, n, S, end), end <= w + 1
  PROVE  /\ 3 * n <= w
         /\ \A i \in 1..n : Walked(disk, lists, S, i)
         /\ EndRead(disk) = end
<1>1. n \in Nat /\ w \in Nat /\ PlacesOK(lists, n, S, end) /\ \A i \in 1..n : Len(lists[i]) \in Nat \ {0}
  BY DEF FileOf, Torn
<1>2. end \in Nat /\ 3 * n + 1 <= end
  BY <1>1 DEF PlacesOK
<1>3. 3 * n <= w
  BY <1>1, <1>2
<1>4. WalkOK(disk, lists, n)
  BY <1>3, WalkIs
<1> DEFINE last(i) == Len(lists[i]) + 1
<1>5. ASSUME NEW i \in 1..n, PlaceRead(disk, i, 1) = S[i][1] PROVE Walked(disk, lists, S, i)
  <2>1. last(i) \in 1..(Len(lists[i]) + 1)
    BY <1>1
  <2>2. S[i][last(i)] \in Nat /\ S[i][last(i)] <= end
    BY <1>1, <2>1 DEF PlacesOK
  <2>3. PlaceRead(disk, i, last(i)) \in Nat
    BY <1>4, <2>1 DEF WalkOK
  <2>4. ~(w + 1 < PlaceRead(disk, i, last(i)) /\ PlaceRead(disk, i, last(i)) < S[i][last(i)])
    <3> HIDE DEF last
    <3> QED BY <1>1, <1>2, <2>2, <2>3
  <2> QED BY <1>3, <1>5, <2>4, NodeWalk
<1> DEFINE bad == {i \in 1..n : ~(PlaceRead(disk, i, 1) = S[i][1])}
<1>6. bad = {}
  <2> SUFFICES ASSUME bad # {} PROVE FALSE
    OBVIOUS
  <2>1. PICK i \in bad : \A h \in bad : i <= h
    <3>1. bad \subseteq Nat
      BY <1>1
    <3> HIDE DEF bad
    <3> QED BY <3>1, LeastExists
  <2>2. i \in 1..n /\ PlaceRead(disk, i, 1) # S[i][1]
    BY <2>1
  <2>3. i # 1
    <3>1. 1 \in 1..n /\ n # 0
      BY <1>1, <2>2
    <3>2. PlaceRead(disk, 1, 1) = 3 * n + 1 /\ S[1][1] = 3 * n + 1
      BY <1>1, <1>4, <3>1 DEF WalkOK, PlacesOK
    <3> QED BY <2>2, <3>2
  <2> DEFINE h == i - 1
  <2>4. h \in 1..n /\ h + 1 = i /\ ~(i <= h)
    BY <1>1, <2>2, <2>3
  <2>5. PlaceRead(disk, h, 1) = S[h][1]
    BY <2>1, <2>4
  <2> HIDE DEF h
  <2>6. Walked(disk, lists, S, h)
    BY <1>5, <2>4, <2>5
  <2>7. last(h) \in 1..(Len(lists[h]) + 1)
    BY <1>1, <2>4
  <2>8. PlaceRead(disk, h, last(h)) = S[h][last(h)]
    BY <2>6, <2>7 DEF Walked
  <2>9. PlaceRead(disk, h + 1, 1) = PlaceRead(disk, h, last(h)) /\ S[h + 1][1] = S[h][last(h)]
    BY <1>1, <1>4, <2>2, <2>4 DEF WalkOK, PlacesOK
  <2> QED BY <2>2, <2>4, <2>8, <2>9
<1>7. ASSUME NEW i \in 1..n PROVE Walked(disk, lists, S, i)
  BY <1>5, <1>6
<1>8. EndRead(disk) = end
  <2>1. CASE n = 0
    BY <1>1, <1>4, <2>1 DEF WalkOK, PlacesOK
  <2>2. CASE n # 0
    <3>1. n \in 1..n
      BY <1>1, <2>2
    <3>2. last(n) \in 1..(Len(lists[n]) + 1)
      BY <1>1, <3>1
    <3>3. PlaceRead(disk, n, last(n)) = S[n][last(n)]
      BY <1>7, <3>1, <3>2 DEF Walked
    <3>4. EndRead(disk) = PlaceRead(disk, n, last(n)) /\ S[n][last(n)] = end
      BY <1>1, <1>4, <2>2 DEF WalkOK, PlacesOK
    <3> QED BY <3>3, <3>4
  <2> QED BY <2>1, <2>2
<1> QED BY <1>3, <1>7, <1>8

LEMMA SameSeq ==
  ASSUME NEW E, NEW F, NEW a \in Seq(E), NEW b \in Seq(F), Len(a) = Len(b),
         \A i \in 1..Len(a) : a[i] = b[i]
  PROVE  a = b
<1>1. a = [i \in 1..Len(a) |-> a[i]] /\ b = [i \in 1..Len(b) |-> b[i]]
  BY LenProperties
<1> QED BY <1>1

\* k elements after the first p.
LEMMA SliceIs ==
  ASSUME NEW E, NEW c \in Seq(E), NEW p \in Nat, NEW k \in Nat, p + k <= Len(c)
  PROVE  /\ SubSeq(c, p + 1, p + k) \in Seq(E) /\ Len(SubSeq(c, p + 1, p + k)) = k
         /\ \A j \in 1..k : SubSeq(c, p + 1, p + k)[j] = c[p + j]
<1> DEFINE a == p + 1
           b == p + k
           s == SubSeq(c, a, b)
<1>1. a \in Int /\ b \in Int /\ a = p + 1 /\ b = p + k /\ Len(c) \in Nat /\ b <= Len(c)
  BY LenProperties
<1> HIDE DEF a, b
<1>2. \A i \in a..b : c[i] \in E
  <2>1. \A i \in a..b : i \in 1..Len(c)
    BY <1>1
  <2> QED BY <2>1, ElementOfSeq
<1>3. s \in Seq(E)
  BY <1>1, <1>2, SubSeqProperties
<1>4. Len(s) = IF a <= b THEN b - a + 1 ELSE 0
  BY <1>1, <1>2, SubSeqProperties
<1>5. \A i \in 1..(b - a + 1) : s[i] = c[a + i - 1]
  BY <1>1, <1>2, SubSeqProperties
<1> HIDE DEF s
<1>6. Len(s) = k
  <2>1. b - a + 1 = k /\ (a <= b <=> k # 0)
    BY <1>1
  <2> QED BY <1>4, <2>1
<1>7. ASSUME NEW j \in 1..k PROVE s[j] = c[p + j]
  <2>1. j \in 1..(b - a + 1) /\ a + j - 1 = p + j
    BY <1>1
  <2> QED BY <1>5, <2>1
<1> QED BY <1>3, <1>6, <1>7 DEF s, a, b

LEMMA ListAtIs ==
  ASSUME NEW disk, disk.cells \in Seq(Nat), NEW p \in Nat \ {0}, NEW k \in Nat,
         p <= Len(disk.cells), k = disk.cells[p], p + k <= Len(disk.cells)
  PROVE  /\ ListAt(disk, p) \in Seq(Nat) /\ Len(ListAt(disk, p)) = k
         /\ \A j \in 1..k : ListAt(disk, p)[j] = disk.cells[p + j]
<1>1. ListAt(disk, p) = SubSeq(disk.cells, p + 1, p + k)
  BY DEF ListAt
<1> DEFINE c == disk.cells
           s == SubSeq(c, p + 1, p + k)
<1>2. c \in Seq(Nat) /\ p \in Nat /\ p + k <= Len(c)
  OBVIOUS
<1> HIDE DEF c
<1>3. s \in Seq(Nat)
  BY <1>2, SliceIs, SMTT(20)
<1>5. Len(s) = k
  BY <1>2, SliceIs, SMTT(20)
<1>6. \A j \in 1..k : s[j] = c[p + j]
  BY <1>2, SliceIs, SMTT(20)
<1> HIDE DEF s
<1>4. ListAt(disk, p) = s
  BY <1>1 DEF s, c
<1> QED BY <1>3, <1>4, <1>5, <1>6 DEF c

\* The lists that a walk within the file meets are all in the file.
LEMMA ListsFit ==
  ASSUME NEW disk, NEW image, NEW w, NEW vecs, NEW lists, NEW n, NEW S, NEW end,
         FileOf(disk, image, w, vecs, lists, n, S, end), 3 * n <= w,
         EndRead(disk) <= Len(disk.cells) + 1,
         NEW i \in 1..n, NEW l \in 1..Len(lists[i])
  PROVE  LET p == PlaceRead(disk, i, l)
             k == CellAt(disk.cells, p)
         IN  /\ ListAt(disk, p) \in Seq(Nat) /\ Len(ListAt(disk, p)) = k /\ p + k <= Len(disk.cells)
             /\ \A j \in 1..k : ListAt(disk, p)[j] = disk.cells[p + j]
             /\ p \in Nat \ {0} /\ k \in Nat
<1> DEFINE p == PlaceRead(disk, i, l)
           k == CellAt(disk.cells, p)
           len == Len(disk.cells)
<1>1. WalkOK(disk, lists, n)
  BY WalkIs
<1>2. len \in Nat /\ disk.cells \in Seq(Nat) /\ Torn(disk.cells, image, w) /\ Len(lists[i]) \in Nat
  BY LenProperties DEF FileOf, Torn
<1>3. l \in 1..(Len(lists[i]) + 1) /\ l + 1 \in 1..(Len(lists[i]) + 1)
  BY <1>2
<1>4. p \in Nat \ {0} /\ PlaceRead(disk, i, l + 1) = p + 1 + k /\ PlaceRead(disk, i, l + 1) <= EndRead(disk)
  BY <1>1, <1>3 DEF WalkOK
<1>5. k \in Nat
  <2> HIDE DEF p
  <2> QED BY <1>2, <1>4, CellOf
<1>9. EndRead(disk) \in Nat
  <2>1. n # 0 /\ n \in 1..n /\ n \in Nat
    BY DEF FileOf
  <2>2. Len(lists[n]) + 1 \in 1..(Len(lists[n]) + 1)
    BY <2>1 DEF FileOf
  <2> QED BY <1>1, <2>1, <2>2 DEF WalkOK
<1> HIDE DEF p
<1>6. EndRead(disk) <= len + 1 /\ (p <= len => k = disk.cells[p])
  BY DEF CellAt
<1> HIDE DEF k, len
<1>7. p + k <= len /\ p <= len
  BY <1>2, <1>4, <1>5, <1>6, <1>9
<1>8. k = disk.cells[p]
  BY <1>6, <1>7
<1> QED BY <1>2, <1>4, <1>5, <1>7, <1>8, ListAtIs DEF p, k, len

\* What a reader has of a list that the walk met where it was written, and
\* that was written whole.
LEMMA ListWritten ==
  ASSUME NEW disk, NEW image, NEW w, NEW vecs, NEW lists, NEW n, NEW S, NEW end,
         FileOf(disk, image, w, vecs, lists, n, S, end), 3 * n <= w,
         EndRead(disk) <= Len(disk.cells) + 1,
         NEW i \in 1..n, NEW l \in 1..Len(lists[i]), Walked(disk, lists, S, i)
  PROVE  /\ Len(ListAt(disk, PlaceRead(disk, i, l))) = Len(lists[i][l])
         /\ S[i][l + 1] <= w + 1 => ListAt(disk, PlaceRead(disk, i, l)) = lists[i][l]
<1> DEFINE p == S[i][l]
           k == Len(lists[i][l])
           list == lists[i][l]
<1>1. PlaceRead(disk, i, l) = p /\ CellAt(disk.cells, p) = k
  <2>1. Len(lists[i]) \in Nat
    BY DEF FileOf
  <2> QED BY <2>1 DEF Walked
<1>2. /\ ListAt(disk, p) \in Seq(Nat) /\ Len(ListAt(disk, p)) = k /\ p + k <= Len(disk.cells)
      /\ \A j \in 1..k : ListAt(disk, p)[j] = disk.cells[p + j]
      /\ p \in Nat \ {0} /\ k \in Nat
  <2> DEFINE q == PlaceRead(disk, i, l)
             h == CellAt(disk.cells, q)
  <2>1. /\ ListAt(disk, q) \in Seq(Nat) /\ Len(ListAt(disk, q)) = h /\ q + h <= Len(disk.cells)
        /\ \A j \in 1..h : ListAt(disk, q)[j] = disk.cells[q + j]
        /\ q \in Nat \ {0} /\ h \in Nat
    BY ListsFit
  <2>2. q = p /\ h = k
    BY <1>1
  <2> HIDE DEF q, h, p, k
  <2> QED BY <2>1, <2>2
<1>3. list \in Seq(Nat)
  <2>1. lists \in Lists /\ i \in 1..Len(lists)
    BY DEF FileOf
  <2>2. lists[i] \in Seq(Seq(Nat))
    BY <2>1, ElementOfSeq DEF Lists
  <2> QED BY <2>2, ElementOfSeq
<1>4. S[i][l + 1] = p + 1 + k
  BY DEF FileOf, PlacesOK
<1>5. ASSUME S[i][l + 1] <= w + 1 PROVE ListAt(disk, p) = list
  <2>1. w \in Nat /\ \A q \in 1..w : disk.cells[q] = image[q]
    BY DEF FileOf, Torn
  <2>2. \A j \in 1..k : image[p + j] = list[j]
    BY DEF FileOf, CellsOK
  <2>3. ASSUME NEW j \in 1..k PROVE ListAt(disk, p)[j] = list[j]
    <3> HIDE DEF p, k
    <3>1. p + j \in 1..w
      BY <1>2, <1>4, <1>5, <2>1
    <3>2. ListAt(disk, p)[j] = disk.cells[p + j]
      BY <1>2
    <3>3. disk.cells[p + j] = image[p + j]
      BY <2>1, <3>1
    <3> QED BY <2>2, <3>2, <3>3
  <2>4. Len(list) = Len(ListAt(disk, p))
    BY <1>2
  <2> HIDE DEF list, p
  <2> QED BY <1>2, <1>3, <2>3, <2>4, SameSeq
<1> QED BY <1>1, <1>2, <1>5

\* A graph that is accepted has all its tables, with the offsets that were
\* recorded, and neighbours that are nodes.
LEMMA AcceptedWalk ==
  ASSUME NEW disk, NEW image, NEW w, NEW vecs, NEW lists, NEW n, NEW S, NEW end,
         FileOf(disk, image, w, vecs, lists, n, S, end), GraphValid(disk)
  PROVE  /\ 3 * n <= w /\ EndRead(disk) <= Len(disk.cells) + 1
         /\ \A i \in 1..n : PlaceRead(disk, i, 1) = S[i][1]
         /\ \A i \in 1..n : \A l \in 1..Len(lists[i]) : \A j \in DOMAIN ListAt(disk, PlaceRead(disk, i, l)) :
              ListAt(disk, PlaceRead(disk, i, l))[j] < n
<1> DEFINE first == FirstList(disk)
           at == ListPositions(disk)
           m == first[n + 1]
           cells == disk.cells
           len == Len(disk.cells)
<1>1. /\ n \in Nat /\ disk.header.n = n /\ cells \in Seq(Nat) /\ Torn(cells, image, w)
      /\ w \in Nat /\ w <= len
  BY DEF FileOf, Torn
<1>2. /\ 3 * n <= len /\ at[m] <= len + 1
      /\ \A i \in 1..n : cells[2 * n + i] = at[first[i]]
      /\ \A k \in 1..(m - 1) : \A j \in DOMAIN ListAt(disk, at[k]) : ListAt(disk, at[k])[j] < n
  BY <1>1 DEF GraphValid
<1>3. len \in Nat /\ 2 * n <= len
  <2>1. len \in Nat
    BY <1>1, LenProperties
  <2> HIDE DEF len
  <2> QED BY <1>1, <1>2, <2>1
<1>4. FirstsOK(first, disk, n) /\ PositionsOK(at, disk, n, m)
  BY <1>1, <1>3, FirstListIs, PositionsIs
<1>5. 3 * n <= w
  <2>1. CASE n = 0
    BY <1>1, <2>1
  <2>2. CASE n # 0
    <3>1. n \in 1..n /\ n \in 1..(n + 1) /\ 2 * n + n = 3 * n /\ 3 * n \in Nat \ {0}
      BY <1>1, <2>2
    <3>2. cells[3 * n] = at[first[n]]
      BY <1>2, <3>1
    <3>3. first[n] \in 1..m
      <4>1. first[n] \in Nat /\ 1 <= first[n] /\ first[n] <= m /\ m \in Nat
        <5>1. n + 1 \in 1..(n + 1)
          BY <1>1
        <5> QED BY <1>4, <3>1, <5>1 DEF FirstsOK
      <4> HIDE DEF first, m
      <4> QED BY <4>1
    <3>4. at[first[n]] # 0
      <4> DEFINE k == first[n]
      <4>1. at[k] \in Nat /\ 3 * n + 1 <= at[k]
        BY <1>4, <3>3 DEF PositionsOK
      <4> HIDE DEF k
      <4>2. at[k] # 0
        BY <3>1, <4>1
      <4> QED BY <4>2 DEF k
    <3> DEFINE p == 3 * n
    <3>5. p \in Nat \ {0} /\ p <= len /\ cells[p] # 0
      BY <1>2, <3>1, <3>2, <3>4
    <3> HIDE DEF p
    <3>6. CellAt(cells, p) = cells[p]
      BY <3>5 DEF CellAt
    <3>7. ~(p > w)
      <4> HIDE DEF cells
      <4> QED BY <1>1, <3>5, <3>6, CellOf
    <3>8. p <= w
      BY <1>1, <3>5, <3>7
    <3> QED BY <3>8 DEF p
  <2> QED BY <2>1, <2>2
<1>6. IndexOK(disk, lists, n)
  BY <1>5, IndexIs
<1> HIDE DEF cells, len
<1>7. ASSUME NEW i \in 1..n PROVE PlaceRead(disk, i, 1) = S[i][1]
  <2>1. 2 * n + i \in 1..w
    BY <1>1, <1>5
  <2>2. cells[2 * n + i] = image[2 * n + i]
    BY <1>1, <2>1 DEF Torn
  <2>3. image[2 * n + i] = S[i][1]
    BY DEF FileOf, TablesOK
  <2>4. at[first[i]] = PlaceRead(disk, i, 1)
    BY <1>6 DEF IndexOK
  <2> QED BY <1>2, <2>2, <2>3, <2>4
<1>8. ASSUME NEW i \in 1..n, NEW l \in 1..Len(lists[i]), NEW j \in DOMAIN ListAt(disk, PlaceRead(disk, i, l))
      PROVE  ListAt(disk, PlaceRead(disk, i, l))[j] < n
  <2> DEFINE k == first[i] + l - 1
  <2>1. k \in 1..(m - 1)
    BY <1>6 DEF IndexOK
  <2>2. PlaceRead(disk, i, l) = at[k]
    BY DEF PlaceRead
  <2> HIDE DEF k
  <2> QED BY <1>2, <2>1, <2>2
<1>9. EndRead(disk) <= len + 1
  BY <1>1, <1>2 DEF EndRead
<1> QED BY <1>5, <1>7, <1>8, <1>9 DEF len

\* What an accepted graph is, against the graph that was saved.
ReadsAs(g, disk, w, vecs, lists, n, end) ==
  /\ g.ok /\ g.vecs = vecs /\ g.ep = disk.header.ep /\ g.payloadPos = EndRead(disk)
  /\ g.lists \in Lists /\ Len(g.lists) = n
  /\ \A i \in 1..n : Len(g.lists[i]) = Len(lists[i])
  /\ \A i \in 1..n : \A l \in 1..Len(lists[i]) : \A j \in 1..Len(g.lists[i][l]) : g.lists[i][l][j] < n
  /\ \A i \in 1..n : i + 1 \in 1..n => Len(g.lists[i][1]) = Len(lists[i][1])
  /\ n # 0 => Len(g.lists[1][1]) \in {Len(lists[1][1]), 0}
  /\ \A i \in 1..n : i + 2 \in 1..n /\ Len(lists[i + 1][1]) # 0 => g.lists[i] = lists[i]
  /\ EndRead(disk) \in Nat \ {0} /\ EndRead(disk) <= Len(disk.cells) + 1
  /\ EndRead(disk) <= w + 1 => EndRead(disk) = end /\ g.lists = lists
  /\ 3 * n <= w

LEMMA GraphRead ==
  ASSUME NEW disk, NEW image, NEW w, NEW vecs, NEW lists, NEW n, NEW S, NEW end,
         FileOf(disk, image, w, vecs, lists, n, S, end), GraphValid(disk)
  PROVE  ReadsAs(Graph(disk), disk, w, vecs, lists, n, end)
<1> DEFINE g == Graph(disk)
           list(i, l) == ListAt(disk, PlaceRead(disk, i, l))
           size(i) == Len(lists[i])
<1>1. /\ n \in Nat /\ disk.header.n = n /\ disk.cells \in Seq(Nat) /\ Torn(disk.cells, image, w)
      /\ w \in Nat /\ w <= Len(disk.cells) /\ \A i \in 1..n : size(i) \in Nat \ {0}
      /\ lists \in Lists /\ Len(lists) = n
  BY DEF FileOf, Torn
<1>2. /\ 3 * n <= w /\ EndRead(disk) <= Len(disk.cells) + 1
      /\ \A i \in 1..n : PlaceRead(disk, i, 1) = S[i][1]
      /\ \A i \in 1..n : \A l \in 1..size(i) : \A j \in DOMAIN list(i, l) : list(i, l)[j] < n
  BY AcceptedWalk
<1>3. WalkOK(disk, lists, n)
  BY <1>2, WalkIs
<1>4. g.ok /\ g.ep = disk.header.ep /\ g.payloadPos = EndRead(disk)
  BY DEF Graph, EndRead
<1>5. g.vecs = vecs
  <2> DEFINE c == disk.cells
             s == SubSeq(c, 1, n)
  <2>1. g.vecs = s
    BY <1>1 DEF Graph
  <2>2. c \in Seq(Nat) /\ n \in Nat /\ 0 + n <= Len(c) /\ vecs \in Seq(Nat) /\ Len(vecs) = n
    <3>1. Len(c) \in Nat
      BY <1>1, LenProperties
    <3>2. vecs \in Seq(Nat) /\ Len(vecs) = n
      BY DEF FileOf
    <3> HIDE DEF c
    <3> QED BY <1>1, <1>2, <3>1, <3>2 DEF c
  <2>3. \A i \in 1..n : c[i] = vecs[i]
    <3>1. \A i \in 1..n : i \in 1..w
      BY <1>1, <1>2
    <3> QED BY <3>1 DEF FileOf, TablesOK, Torn
  <2> HIDE DEF c
  <2>4. SubSeq(c, 0 + 1, 0 + n) \in Seq(Nat)
    BY <2>2, SliceIs
  <2>5. Len(SubSeq(c, 0 + 1, 0 + n)) = n
    BY <2>2, SliceIs
  <2>6. \A i \in 1..n : SubSeq(c, 0 + 1, 0 + n)[i] = c[0 + i]
    BY <2>2, SliceIs
  <2>7. s = SubSeq(c, 0 + 1, 0 + n) /\ \A i \in 1..n : 0 + i = i
    BY <2>2
  <2>8. s \in Seq(Nat) /\ Len(s) = n /\ \A i \in 1..n : s[i] = c[i]
    BY <2>4, <2>5, <2>6, <2>7
  <2> HIDE DEF s
  <2>9. s = vecs
    BY <2>2, <2>3, <2>8, SameSeq
  <2> QED BY <2>1, <2>9
<1>6. g.lists = [i \in 1..n |-> [l \in 1..size(i) |-> list(i, l)]]
  <2>1. \A i \in 1..n : StoredLevel(disk, i) + 1 = size(i)
    <3> SUFFICES ASSUME NEW i \in 1..n PROVE StoredLevel(disk, i) + 1 = size(i)
      OBVIOUS
    <3>1. StoredLevel(disk, i) = size(i) - 1 /\ size(i) \in Nat
      BY <1>1, <1>3 DEF WalkOK
    <3> HIDE DEF size
    <3> QED BY <3>1
  <2>2. g.lists = [i \in 1..n |-> [l \in 1..(StoredLevel(disk, i) + 1) |-> list(i, l)]]
    BY <1>1 DEF Graph, PlaceRead
  <2> HIDE DEF list, size, g
  <2> QED BY <2>1, <2>2
<1>7. ASSUME NEW i \in 1..n, NEW l \in 1..size(i)
      PROVE  list(i, l) \in Seq(Nat) /\ Len(list(i, l)) \in Nat
  <2>1. list(i, l) \in Seq(Nat)
    BY <1>2, ListsFit
  <2> QED BY <2>1, LenProperties
<1>8. ASSUME NEW i \in 1..n
      PROVE  /\ g.lists[i] \in Seq(Seq(Nat)) /\ Len(g.lists[i]) = size(i)
             /\ \A l \in 1..size(i) : g.lists[i][l] = list(i, l)
  <2> DEFINE s == [l \in 1..size(i) |-> list(i, l)]
  <2>1. g.lists[i] = s
    BY <1>6
  <2>2. s \in [1..size(i) -> Seq(Nat)] /\ size(i) \in Nat
    BY <1>1, <1>7
  <2>3. \A l \in 1..size(i) : s[l] = list(i, l)
    OBVIOUS
  <2> HIDE DEF s, g, list, size
  <2>4. s \in Seq(Seq(Nat)) /\ Len(s) = size(i)
    BY <2>2, SeqDef, LenProperties
  <2> QED BY <2>1, <2>3, <2>4
<1>9. g.lists \in Lists /\ Len(g.lists) = n
  <2>1. g.lists \in [1..n -> Seq(Seq(Nat))]
    <3>1. DOMAIN g.lists = 1..n /\ g.lists = [i \in 1..n |-> g.lists[i]]
      BY <1>6
    <3> QED BY <1>8, <3>1
  <2> QED BY <1>1, <2>1, SeqDef, LenProperties DEF Lists
<1> HIDE DEF g
<1>10. ASSUME NEW i \in 1..n, NEW l \in 1..size(i), NEW j \in 1..Len(g.lists[i][l])
       PROVE  g.lists[i][l][j] < n
  <2>1. g.lists[i][l] = list(i, l) /\ DOMAIN list(i, l) = 1..Len(list(i, l))
    BY <1>7, <1>8, LenProperties
  <2> QED BY <1>2, <2>1
<1>11. n # 0 => /\ \A i \in 1..n : i + 1 \in 1..n => Walked(disk, lists, S, i)
                /\ Walked(disk, lists, S, n) \/ (w + 1 < EndRead(disk) /\ EndRead(disk) < end)
  BY <1>2, CutWalk
<1>12. ASSUME NEW i \in 1..n, Walked(disk, lists, S, i), NEW l \in 1..size(i)
       PROVE  /\ Len(g.lists[i][l]) = Len(lists[i][l])
              /\ S[i][l + 1] <= w + 1 => g.lists[i][l] = lists[i][l]
  <2>1. /\ Len(list(i, l)) = Len(lists[i][l])
        /\ S[i][l + 1] <= w + 1 => list(i, l) = lists[i][l]
    BY <1>2, <1>12, ListWritten
  <2>2. g.lists[i][l] = list(i, l)
    BY <1>8
  <2> QED BY <2>1, <2>2
<1>13. ASSUME NEW i \in 1..n, Walked(disk, lists, S, i), S[i][size(i) + 1] <= w + 1
       PROVE  g.lists[i] = lists[i]
  <2>1. ASSUME NEW l \in 1..size(i) PROVE g.lists[i][l] = lists[i][l]
    <3>1. l + 1 \in 1..(size(i) + 1) /\ size(i) + 1 \in 1..(size(i) + 1)
      BY <1>1
    <3>2. /\ S[i][l + 1] \in Nat /\ S[i][l + 1] <= S[i][size(i) + 1]
          /\ S[i][size(i) + 1] \in Nat
      BY <3>1 DEF FileOf, PlacesOK
    <3>3. S[i][l + 1] <= w + 1
      <4> HIDE DEF size
      <4> QED BY <1>1, <1>13, <3>2
    <3> QED BY <1>12, <1>13, <3>3
  <2>2. lists[i] \in Seq(Seq(Nat))
    BY <1>1, ElementOfSeq DEF Lists
  <2>3. g.lists[i] \in Seq(Seq(Nat)) /\ Len(g.lists[i]) = Len(lists[i])
    BY <1>8
  <2> QED BY <2>1, <2>2, <2>3, SameSeq, ZenonT(30)
<1>14. ASSUME NEW i \in 1..n, i + 1 \in 1..n PROVE Len(g.lists[i][1]) = Len(lists[i][1])
  <2>1. n # 0 /\ 1 \in 1..size(i)
    BY <1>1, <1>14
  <2> QED BY <1>11, <1>12, <1>14, <2>1
<1>15. ASSUME NEW i \in 1..n, i + 2 \in 1..n, Len(lists[i + 1][1]) # 0 PROVE g.lists[i] = lists[i]
  <2> DEFINE h == i + 1
             p == S[h][1]
  <2>1. n # 0 /\ h \in 1..n /\ h + 1 \in 1..n
    BY <1>1, <1>15
  <2>2. 1 \in 1..size(h) /\ 1 \in 1..(size(h) + 1)
    BY <1>1, <2>1
  <2>3. Walked(disk, lists, S, i) /\ Walked(disk, lists, S, h)
    BY <1>11, <2>1
  <2>4. CellAt(disk.cells, p) # 0
    BY <1>15, <2>2, <2>3 DEF Walked
  <2>5. p \in Nat \ {0}
    <3>1. p \in Nat /\ 3 * n + 1 <= p
      BY <2>1, <2>2 DEF FileOf, PlacesOK
    <3> HIDE DEF p
    <3> QED BY <1>1, <3>1
  <2>6. S[i][size(i) + 1] = p
    BY <2>1 DEF FileOf, PlacesOK
  <2> HIDE DEF p
  <2>7. p <= w
    BY <1>1, <2>4, <2>5, CellOf
  <2>8. S[i][size(i) + 1] <= w + 1
    BY <1>1, <2>5, <2>6, <2>7
  <2> QED BY <1>13, <2>3, <2>8
<1>16. EndRead(disk) \in Nat \ {0}
  <2>1. CASE n = 0
    BY <1>3, <2>1 DEF WalkOK
  <2>2. CASE n # 0
    <3>1. n \in 1..n
      BY <1>1, <2>2
    <3>2. size(n) + 1 \in 1..(size(n) + 1)
      BY <1>1, <3>1
    <3>3. EndRead(disk) = PlaceRead(disk, n, size(n) + 1)
      BY <1>3, <2>2 DEF WalkOK
    <3> QED BY <1>3, <3>1, <3>2, <3>3 DEF WalkOK
  <2> QED BY <2>1, <2>2
<1>17. ASSUME EndRead(disk) <= w + 1 PROVE EndRead(disk) = end /\ g.lists = lists
  <2>1. CASE n = 0
    <3>1. EndRead(disk) = 1 /\ end = 1
      BY <1>3, <2>1 DEF WalkOK, FileOf, PlacesOK
    <3>2. g.lists = lists
      BY <1>1, <1>9, <2>1, SameSeq DEF Lists
    <3> QED BY <3>1, <3>2
  <2>2. CASE n # 0
    <3>1. n \in 1..n /\ PlacesOK(lists, n, S, end)
      BY <1>1, <2>2 DEF FileOf
    <3>2. size(n) + 1 \in 1..(size(n) + 1)
      BY <1>1, <3>1
    <3>3. EndRead(disk) = PlaceRead(disk, n, size(n) + 1) /\ S[n][size(n) + 1] = end
      BY <1>3, <2>2, <3>1 DEF WalkOK, PlacesOK
    <3>4. Walked(disk, lists, S, n)
      BY <1>1, <1>11, <1>16, <1>17, <2>2
    <3>5. EndRead(disk) = end
      BY <3>2, <3>3, <3>4 DEF Walked
    <3>6. ASSUME NEW i \in 1..n PROVE g.lists[i] = lists[i]
      <4>1. size(i) + 1 \in 1..(size(i) + 1)
        BY <1>1
      <4>2. S[i][size(i) + 1] \in Nat /\ S[i][size(i) + 1] <= end
        BY <3>1, <4>1 DEF PlacesOK
      <4>3. S[i][size(i) + 1] <= w + 1
        <5> HIDE DEF size
        <5> QED BY <1>1, <1>16, <1>17, <3>5, <4>2
      <4>4. Walked(disk, lists, S, i)
        <5>1. CASE i = n
          BY <3>4, <5>1
        <5>2. CASE i # n
          <6>1. i + 1 \in 1..n
            BY <1>1, <5>2
          <6> QED BY <1>11, <2>2, <6>1
        <5> QED BY <5>1, <5>2
      <4> QED BY <1>13, <4>3, <4>4
    <3>7. g.lists = lists
      BY <1>1, <1>9, <3>6, SameSeq DEF Lists
    <3> QED BY <3>5, <3>7
  <2> QED BY <2>1, <2>2
<1>18. ASSUME n # 0 PROVE Len(g.lists[1][1]) \in {Len(lists[1][1]), 0}
  <2> DEFINE p == S[1][1]
  <2>1. 1 \in 1..n /\ 1 \in 1..size(1)
    <3>1. 1 \in 1..n
      BY <1>1, <1>18
    <3> QED BY <1>1, <3>1
  <2>2. g.lists[1][1] = list(1, 1)
    BY <1>8, <2>1
  <2>3. PlaceRead(disk, 1, 1) = p
    BY <1>2, <2>1
  <2>4. Len(list(1, 1)) = CellAt(disk.cells, PlaceRead(disk, 1, 1))
    BY <1>2, <2>1, ListsFit
  <2>5. image[p] = Len(lists[1][1]) /\ p \in Nat \ {0}
    <3>1. image[p] = Len(lists[1][1])
      BY <2>1 DEF FileOf, CellsOK
    <3>2. p = 3 * n + 1
      BY <1>18 DEF FileOf, PlacesOK
    <3> HIDE DEF p
    <3>3. p \in Nat \ {0}
      BY <1>1, <3>2
    <3> QED BY <3>1, <3>3 DEF p
  <2> HIDE DEF p, list
  <2>6. CellAt(disk.cells, p) \in {image[p], 0}
    <3>1. p <= w \/ p > w
      BY <1>1, <2>5
    <3> QED BY <1>1, <2>5, <3>1, CellOf
  <2> QED BY <2>2, <2>3, <2>4, <2>5, <2>6
<1>19. ReadsAs(g, disk, w, vecs, lists, n, end)
  <2>1. \A i \in 1..n : Len(g.lists[i]) = size(i)
    BY <1>8
  <2> HIDE DEF list
  <2> QED BY <1>2, <1>4, <1>5, <1>9, <1>10, <1>14, <1>15, <1>16, <1>17, <1>18, <2>1 DEF ReadsAs
<1> QED BY <1>19 DEF g

\* A graph as it is in memory.
EntryFits(lists, ep) ==
  ep # <<>> => ep[1] \in 0..(Len(lists) - 1) /\ ep[2] = Len(lists[ep[1] + 1]) - 1

NeighboursFit(lists, n) ==
  \A i \in 1..n : \A l \in 1..Len(lists[i]) : \A j \in 1..Len(lists[i][l]) : lists[i][l][j] < n

\* A graph that was written to its end is accepted.
LEMMA WholeValid ==
  ASSUME NEW disk, NEW image, NEW w, NEW vecs, NEW lists, NEW n, NEW S, NEW end,
         FileOf(disk, image, w, vecs, lists, n, S, end), end <= w + 1,
         EntryFits(lists, disk.header.ep), NeighboursFit(lists, n)
  PROVE  GraphValid(disk)
<1> DEFINE first == FirstList(disk)
           at == ListPositions(disk)
           m == first[n + 1]
           cells == disk.cells
           len == Len(disk.cells)
           ep == disk.header.ep
<1>1. /\ n \in Nat /\ disk.header.n = n /\ cells \in Seq(Nat) /\ Torn(cells, image, w)
      /\ w \in Nat /\ w <= len /\ Len(lists) = n /\ \A i \in 1..n : Len(lists[i]) \in Nat
  BY DEF FileOf, Torn
<1>2. 3 * n <= w /\ EndRead(disk) = end /\ \A i \in 1..n : Walked(disk, lists, S, i)
  BY WholeWalk
<1>3. WalkOK(disk, lists, n) /\ IndexOK(disk, lists, n)
  BY <1>2, WalkIs, IndexIs
<1>4. len \in Nat /\ end \in Nat
  <2>1. len \in Nat
    BY <1>1, LenProperties
  <2> QED BY <2>1 DEF FileOf, PlacesOK
<1>5. EndRead(disk) <= len + 1
  <2> HIDE DEF len
  <2> QED BY <1>1, <1>2, <1>4
<1>6. 3 * n <= len
  <2> HIDE DEF len
  <2> QED BY <1>1, <1>2, <1>4
<1>7. at[m] <= len + 1
  BY <1>1, <1>5 DEF EndRead
<1>8. ASSUME NEW i \in 1..n PROVE cells[2 * n + i] = at[first[i]]
  <2>1. 2 * n + i \in 1..w
    <3>1. n \in Nat /\ w \in Nat /\ 3 * n <= w
      BY <1>1, <1>2
    <3> QED BY <3>1
  <2>2. cells[2 * n + i] = image[2 * n + i]
    BY <1>1, <2>1 DEF Torn
  <2>3. image[2 * n + i] = S[i][1]
    BY DEF FileOf, TablesOK
  <2>4. at[first[i]] = PlaceRead(disk, i, 1)
    BY <1>3 DEF IndexOK
  <2>5. 1 \in 1..(Len(lists[i]) + 1)
    BY <1>1
  <2>6. PlaceRead(disk, i, 1) = S[i][1]
    BY <1>2, <2>5 DEF Walked
  <2> QED BY <2>2, <2>3, <2>4, <2>6
<1>9. ASSUME NEW k \in 1..(m - 1), NEW j \in DOMAIN ListAt(disk, at[k])
      PROVE  ListAt(disk, at[k])[j] < n
  <2>1. PICK i \in 1..n : \E l \in 1..Len(lists[i]) : at[k] = PlaceRead(disk, i, l)
    BY <1>3 DEF IndexOK
  <2>2. PICK l \in 1..Len(lists[i]) : at[k] = PlaceRead(disk, i, l)
    BY <2>1
  <2> DEFINE list == ListAt(disk, at[k])
  <2>3. list = lists[i][l]
    <3>1. S[i][l + 1] \in Nat /\ S[i][l + 1] <= end
      <4>1. l + 1 \in 1..(Len(lists[i]) + 1)
        BY <1>1
      <4> QED BY <4>1 DEF FileOf, PlacesOK
    <3>2. S[i][l + 1] <= w + 1
      BY <1>1, <1>4, <3>1
    <3>3. ListAt(disk, PlaceRead(disk, i, l)) = lists[i][l]
      <4> HIDE DEF len
      <4>1. EndRead(disk) <= Len(disk.cells) + 1
        BY <1>5 DEF len
      <4> QED BY <1>2, <3>2, <4>1, ListWritten
    <3> QED BY <2>2, <3>3
  <2>4. DOMAIN lists[i][l] = 1..Len(lists[i][l])
    <3>1. lists \in Lists /\ i \in 1..Len(lists)
      BY <1>1 DEF FileOf
    <3>2. lists[i] \in Seq(Seq(Nat))
      BY <3>1, ElementOfSeq DEF Lists
    <3>3. lists[i][l] \in Seq(Nat)
      BY <3>2, ElementOfSeq
    <3> QED BY <3>3, LenProperties
  <2>5. j \in 1..Len(lists[i][l])
    BY <2>3, <2>4
  <2> HIDE DEF list
  <2>6. list[j] < n
    BY <2>3, <2>5 DEF NeighboursFit
  <2> QED BY <2>6 DEF list
<1>10. ASSUME ep # <<>> PROVE ep[1] < n /\ StoredLevel(disk, ep[1] + 1) = ep[2]
  <2>1. ep[1] \in 0..(n - 1) /\ ep[2] = Len(lists[ep[1] + 1]) - 1
    BY <1>1, <1>10 DEF EntryFits
  <2> HIDE DEF ep
  <2>2. ep[1] + 1 \in 1..n /\ ep[1] < n
    BY <1>1, <2>1
  <2> QED BY <1>3, <2>1, <2>2 DEF WalkOK
<1> QED BY <1>1, <1>6, <1>7, <1>8, <1>9, <1>10 DEF GraphValid

-----------------------------------------------------------------------------
(* The payload section                                                     *)

\* How many words the values before the i-th take.
Off(k, i) == CASE k = "unit" -> 0 [] k = "narrow" -> i - 1 [] OTHER -> 2 * (i - 1)

\* What the encoded values are, one behind the other.
ValuesLaid(flat, k, payloads, n) ==
  /\ flat \in Seq(Nat) /\ Len(flat) = Off(k, n + 1)
  /\ \A i \in 1..n :
       /\ k \in {"narrow", "wide"} => flat[Off(k, i) + 1] = payloads[i]
       /\ k = "text" => flat[Off(k, i) + 1] = 1 /\ flat[Off(k, i) + 2] = payloads[i]

LEMMA EncodedLaid ==
  ASSUME NEW k \in Kinds \ {"none"}, NEW payloads \in Seq(Nat), NEW n \in Nat, n = Len(payloads)
  PROVE  LET encoded == [i \in 1..n |-> Encode(k, payloads[i])] IN
         /\ ValuesLaid(Seqs!FlattenSeq(encoded), k, payloads, n)
         /\ \A i \in 1..n : Len(Seqs!FlattenSeq(SubSeq(encoded, 1, i - 1))) = Off(k, i)
<1> DEFINE encoded == [i \in 1..n |-> Encode(k, payloads[i])]
           flat == Seqs!FlattenSeq(encoded)
           width == CASE k = "unit" -> 0 [] k = "narrow" -> 1 [] OTHER -> 2
<1>1. k \in {"unit", "narrow", "wide", "text"} /\ \A i \in 1..n : payloads[i] \in Nat
  BY ElementOfSeq DEF Kinds
<1>2. ASSUME NEW i \in 1..n
      PROVE  /\ encoded[i] \in Seq(Nat) /\ Len(encoded[i]) = width
             /\ k \in {"narrow", "wide"} => encoded[i][1] = payloads[i]
             /\ k = "text" => encoded[i][1] = 1 /\ encoded[i][2] = payloads[i]
  <2>1. encoded[i] = Encode(k, payloads[i]) /\ payloads[i] \in Nat
    BY <1>1
  <2> HIDE DEF encoded
  <2>2. CASE k = "unit"
    BY <2>1, <2>2 DEF Encode
  <2>3. CASE k = "narrow"
    BY <2>1, <2>3 DEF Encode
  <2>4. CASE k = "wide"
    BY <2>1, <2>4 DEF Encode
  <2>5. CASE k = "text"
    BY <2>1, <2>5 DEF Encode
  <2> QED BY <1>1, <2>2, <2>3, <2>4, <2>5
<1>3. encoded \in Seq(Seq(Nat)) /\ Len(encoded) = n
  <2>1. encoded = [i \in 1..n |-> encoded[i]]
    OBVIOUS
  <2> HIDE DEF encoded
  <2>2. encoded \in [1..n -> Seq(Nat)]
    BY <1>2, <2>1
  <2> QED BY <2>2, SeqDef, LenProperties
<1>4. \A i \in 1..n : Off(k, i) + width = Off(k, i + 1)
  BY <1>1 DEF Off
<1>5. Off(k, 1) = 0 /\ width \in Nat
  BY <1>1 DEF Off
<1>6. \A i \in 1..(n + 1) : Off(k, i) \in Nat
  BY <1>1 DEF Off
<1> HIDE DEF encoded, width
<1>7. PICK pre : /\ LaidOut(flat, encoded, pre)
                 /\ \A i \in 1..n : pre[i] = Len(Seqs!FlattenSeq(SubSeq(encoded, 1, i - 1)))
  BY <1>3, Flattened
<1>8. flat \in Seq(Nat)
  BY <1>3, Flattened
<1> HIDE DEF flat
<1>9. /\ pre[1] = 0 /\ pre[n + 1] = Len(flat)
      /\ \A i \in 1..n : pre[i + 1] = pre[i] + width
      /\ \A i \in 1..n : \A j \in 1..width : flat[pre[i] + j] = encoded[i][j]
  BY <1>2, <1>3, <1>7 DEF LaidOut
<1> DEFINE bad == {i \in 1..(n + 1) : pre[i] # Off(k, i)}
<1>10. bad = {}
  <2> SUFFICES ASSUME bad # {} PROVE FALSE
    OBVIOUS
  <2>1. PICK i \in bad : \A h \in bad : i <= h
    <3>1. bad \subseteq Nat
      OBVIOUS
    <3> HIDE DEF bad
    <3> QED BY <3>1, LeastExists
  <2>2. i \in 1..(n + 1) /\ pre[i] # Off(k, i)
    BY <2>1
  <2>3. i # 1
    BY <1>5, <1>9, <2>2
  <2> DEFINE h == i - 1
  <2>4. h \in 1..n /\ h \in 1..(n + 1) /\ h + 1 = i /\ ~(i <= h)
    BY <2>2, <2>3
  <2>5. pre[h] = Off(k, h)
    BY <2>1, <2>4
  <2> HIDE DEF h
  <2>6. pre[h + 1] = pre[h] + width /\ Off(k, h) + width = Off(k, h + 1)
    BY <1>4, <1>9, <2>4
  <2> QED BY <2>2, <2>4, <2>5, <2>6
<1>11. \A i \in 1..(n + 1) : pre[i] = Off(k, i)
  BY <1>10
<1>12. \A i \in 1..n : Len(Seqs!FlattenSeq(SubSeq(encoded, 1, i - 1))) = Off(k, i)
  <2>1. \A i \in 1..n : i \in 1..(n + 1)
    OBVIOUS
  <2> QED BY <1>7, <1>11, <2>1
<1>13. Len(flat) = Off(k, n + 1)
  <2>1. n + 1 \in 1..(n + 1)
    OBVIOUS
  <2> QED BY <1>9, <1>11, <2>1
<1>14. ASSUME NEW i \in 1..n
       PROVE  /\ k \in {"narrow", "wide"} => flat[Off(k, i) + 1] = payloads[i]
              /\ k = "text" => flat[Off(k, i) + 1] = 1 /\ flat[Off(k, i) + 2] = payloads[i]
  <2>1. pre[i] = Off(k, i)
    BY <1>11
  <2>2. k \in {"narrow", "wide", "text"} => 1 \in 1..width
    BY <1>1 DEF width
  <2>3. k = "text" => 2 \in 1..width
    BY DEF width
  <2>4. \A j \in 1..width : flat[Off(k, i) + j] = encoded[i][j]
    BY <1>9, <2>1
  <2> QED BY <1>2, <2>2, <2>3, <2>4
<1>15. ValuesLaid(flat, k, payloads, n)
  BY <1>8, <1>13, <1>14 DEF ValuesLaid
<1> QED BY <1>12, <1>15 DEF encoded, flat

\* The payload section as a whole: count, stride, the offsets of a column
\* without a stride, values.
HeadOf(k, n) == 2 + (IF FixedStride(k) > 0 THEN 0 ELSE n)

ColumnLaid(cells, k, payloads, n, start) ==
  /\ cells[1] = n /\ cells[2] = FixedStride(k)
  /\ Len(cells) = HeadOf(k, n) + Off(k, n + 1)
  /\ FixedStride(k) = 0 => \A i \in 1..n : cells[2 + i] = start + 2 + n + Off(k, i)
  /\ \A i \in 1..n :
       /\ k \in {"narrow", "wide"} => cells[HeadOf(k, n) + Off(k, i) + 1] = payloads[i]
       /\ k = "text" => /\ cells[HeadOf(k, n) + Off(k, i) + 1] = 1
                        /\ cells[HeadOf(k, n) + Off(k, i) + 2] = payloads[i]

LEMMA PayloadCellsLaid ==
  ASSUME NEW k \in Kinds, NEW payloads \in Seq(Nat), NEW n \in Nat, n = Len(payloads), NEW start \in Nat
  PROVE  /\ PayloadCells(k, payloads, start) \in Seq(Nat) /\ Len(PayloadCells(k, payloads, start)) >= 2
         /\ k # "none" => ColumnLaid(PayloadCells(k, payloads, start), k, payloads, n, start)
<1>1. CASE k = "none"
  <2>1. PayloadCells(k, payloads, start) = <<0, 0>>
    BY <1>1 DEF PayloadCells
  <2>2. <<0, 0>> \in Seq(Nat) /\ Len(<<0, 0>>) = 2
    OBVIOUS
  <2> DEFINE cells == PayloadCells(k, payloads, start)
  <2>3. cells \in Seq(Nat) /\ Len(cells) >= 2
    BY <2>1, <2>2
  <2> QED BY <1>1, <2>3
<1>2. CASE k # "none"
  <2> DEFINE encoded == [i \in 1..n |-> Encode(k, payloads[i])]
             flat == Seqs!FlattenSeq(encoded)
             offset(i) == start + 2 + n + Len(Seqs!FlattenSeq(SubSeq(encoded, 1, i - 1)))
             offsets == [i \in 1..n |-> offset(i)]
             table == IF FixedStride(k) > 0 THEN <<>> ELSE offsets
             head == <<n, FixedStride(k)>>
             a == head \o table
             cells == a \o flat
  <2>1. /\ ValuesLaid(flat, k, payloads, n)
        /\ \A i \in 1..n : Len(Seqs!FlattenSeq(SubSeq(encoded, 1, i - 1))) = Off(k, i)
    BY <1>2, EncodedLaid
  <2>2. PayloadCells(k, payloads, start) = cells
    BY <1>2 DEF PayloadCells
  <2>3. k \in {"unit", "narrow", "wide", "text"} /\ FixedStride(k) \in Nat
        /\ (FixedStride(k) > 0 <=> k \in {"narrow", "wide"})
    BY <1>2 DEF Kinds, FixedStride
  <2>4. \A i \in 1..(n + 1) : Off(k, i) \in Nat
    BY <2>3 DEF Off
  <2>5. \A i \in 1..n : offset(i) = start + 2 + n + Off(k, i)
    BY <2>1
  <2> HIDE DEF encoded, flat, offset
  <2>6. offsets \in Seq(Nat) /\ Len(offsets) = n /\ \A i \in 1..n : offsets[i] = start + 2 + n + Off(k, i)
    <3>1. \A i \in 1..n : i \in 1..(n + 1)
      OBVIOUS
    <3>2. \A i \in 1..n : offset(i) \in Nat
      BY <2>4, <2>5, <3>1
    <3>3. offsets \in [1..n -> Nat] /\ \A i \in 1..n : offsets[i] = offset(i)
      BY <3>2
    <3> HIDE DEF offsets
    <3> QED BY <2>5, <3>3, SeqDef, LenProperties
  <2> HIDE DEF offsets
  <2>7. head \in Seq(Nat) /\ Len(head) = 2 /\ head[1] = n /\ head[2] = FixedStride(k)
    BY <2>3
  <2> HIDE DEF head
  <2>8. table \in Seq(Nat) /\ Len(table) = HeadOf(k, n) - 2 /\ (FixedStride(k) = 0 => table = offsets)
    <3>1. CASE FixedStride(k) > 0
      BY <3>1 DEF HeadOf
    <3>2. CASE ~(FixedStride(k) > 0)
      BY <2>3, <2>6, <3>2 DEF HeadOf
    <3> QED BY <3>1, <3>2
  <2> HIDE DEF table
  <2>9. a \in Seq(Nat) /\ JoinOf(a, head, table)
    BY <2>7, <2>8, Joined
  <2> HIDE DEF a
  <2>10. flat \in Seq(Nat) /\ Len(flat) = Off(k, n + 1)
    BY <2>1 DEF ValuesLaid
  <2>11. cells \in Seq(Nat) /\ JoinOf(cells, a, flat)
    BY <2>9, <2>10, Joined
  <2> HIDE DEF cells
  <2>12. HeadOf(k, n) \in Nat /\ HeadOf(k, n) >= 2
    BY <2>3 DEF HeadOf
  <2>13. Len(a) = HeadOf(k, n) /\ a[1] = n /\ a[2] = FixedStride(k)
    <3>1. Len(a) = 2 + Len(table) /\ a[1] = head[1] /\ a[2] = head[2]
      BY <2>7, <2>9 DEF JoinOf
    <3> QED BY <2>7, <2>8, <2>12, <3>1
  <2>14. FixedStride(k) = 0 => HeadOf(k, n) = 2 + n /\ \A i \in 1..n : a[2 + i] = start + 2 + n + Off(k, i)
    <3> SUFFICES ASSUME FixedStride(k) = 0
                 PROVE  HeadOf(k, n) = 2 + n /\ \A i \in 1..n : a[2 + i] = start + 2 + n + Off(k, i)
      OBVIOUS
    <3>1. HeadOf(k, n) = 2 + n
      BY DEF HeadOf
    <3>2. \A i \in 1..n : a[2 + i] = table[i]
      BY <2>6, <2>7, <2>8, <2>9 DEF JoinOf
    <3> QED BY <2>6, <2>8, <3>1, <3>2
  <2>15. /\ Len(cells) = HeadOf(k, n) + Off(k, n + 1)
         /\ \A i \in 1..HeadOf(k, n) : cells[i] = a[i]
         /\ \A i \in 1..Off(k, n + 1) : cells[HeadOf(k, n) + i] = flat[i]
    BY <2>10, <2>11, <2>13 DEF JoinOf
  <2>16. cells[1] = n /\ cells[2] = FixedStride(k)
    BY <2>12, <2>13, <2>15
  <2>17. FixedStride(k) = 0 => \A i \in 1..n : cells[2 + i] = start + 2 + n + Off(k, i)
    <3> SUFFICES ASSUME FixedStride(k) = 0, NEW i \in 1..n PROVE cells[2 + i] = start + 2 + n + Off(k, i)
      OBVIOUS
    <3>1. 2 + i \in 1..HeadOf(k, n)
      BY <2>14
    <3> QED BY <2>14, <2>15, <3>1
  <2>18. ASSUME NEW i \in 1..n
         PROVE  /\ k \in {"narrow", "wide"} => cells[HeadOf(k, n) + Off(k, i) + 1] = payloads[i]
                /\ k = "text" => /\ cells[HeadOf(k, n) + Off(k, i) + 1] = 1
                                 /\ cells[HeadOf(k, n) + Off(k, i) + 2] = payloads[i]
    <3> DEFINE h == HeadOf(k, n)
               o == Off(k, i)
               len == Off(k, n + 1)
    <3>1. /\ k \in {"narrow", "wide"} => flat[o + 1] = payloads[i]
          /\ k = "text" => flat[o + 1] = 1 /\ flat[o + 2] = payloads[i]
      BY <2>1 DEF ValuesLaid
    <3>2. o \in Nat /\ h \in Nat
      BY <2>4, <2>12
    <3>3. /\ k \in {"narrow", "wide", "text"} => o + 1 \in 1..len
          /\ k = "text" => o + 2 \in 1..len
      BY DEF Off
    <3>4. \A j \in 1..len : cells[h + j] = flat[j]
      BY <2>15
    <3> HIDE DEF h, o, len
    <3>5. h + (o + 1) = h + o + 1 /\ h + (o + 2) = h + o + 2
      BY <3>2
    <3>6. k \in {"narrow", "wide"} => cells[h + o + 1] = payloads[i]
      BY <3>1, <3>3, <3>4, <3>5
    <3>7. k = "text" => cells[h + o + 1] = 1 /\ cells[h + o + 2] = payloads[i]
      BY <3>1, <3>3, <3>4, <3>5
    <3> QED BY <3>6, <3>7 DEF h, o
  <2>19. ColumnLaid(cells, k, payloads, n, start)
    BY <2>15, <2>16, <2>17, <2>18 DEF ColumnLaid
  <2>20. Len(cells) >= 2
    <3>1. Off(k, n + 1) \in Nat
      <4>1. n + 1 \in 1..(n + 1)
        OBVIOUS
      <4> QED BY <2>4, <4>1
    <3> QED BY <2>12, <2>15, <3>1
  <2> QED BY <2>2, <2>11, <2>19, <2>20
<1> QED BY <1>1, <1>2

\* The first list is too short for its count to be taken for the place where
\* the lists begin.
FirstListFits(lists, n) == n # 0 => Len(lists[1][1]) <= 3 * n

\* An index in memory: each vector has a layer, and all but the last one a
\* neighbour there; neighbours are vectors, and the entry point is on its level.
Sound(vecs, lists, ep) ==
  /\ vecs \in Seq(Nat) /\ lists \in Lists /\ Len(lists) = Len(vecs)
  /\ \A i \in 1..Len(vecs) : Len(lists[i]) # 0
  /\ \A i \in 1..Len(vecs) : i + 1 \in 1..Len(vecs) => Len(lists[i][1]) # 0
  /\ NeighboursFit(lists, Len(vecs))
  /\ FirstListFits(lists, Len(vecs))
  /\ EntryFits(lists, ep)
  /\ ep = <<>> <=> vecs = <<>>

LEMMA SoundSizes ==
  ASSUME NEW vecs, NEW lists, NEW ep, Sound(vecs, lists, ep)
  PROVE  /\ Len(vecs) \in Nat /\ \A i \in 1..Len(vecs) : Len(lists[i]) \in Nat \ {0}
         /\ \A i \in 1..Len(vecs) : \A l \in 1..Len(lists[i]) : lists[i][l] \in Seq(Nat)
<1>1. Len(vecs) \in Nat /\ lists \in Seq(Seq(Seq(Nat))) /\ Len(lists) = Len(vecs)
  BY LenProperties DEF Sound, Lists
<1>2. \A i \in 1..Len(vecs) : lists[i] \in Seq(Seq(Nat))
  BY <1>1, ElementOfSeq
<1>3. \A i \in 1..Len(vecs) : Len(lists[i]) \in Nat
  BY <1>2, LenProperties
<1>4. \A i \in 1..Len(vecs) : \A l \in 1..Len(lists[i]) : lists[i][l] \in Seq(Nat)
  BY <1>2, ElementOfSeq
<1> QED BY <1>1, <1>3, <1>4 DEF Sound

\* Any image is words.
LEMMA ImageTyped ==
  ASSUME NEW c, c.vecs \in Seq(Nat), c.lists \in Lists, c.payloads \in Seq(Nat),
         \A i \in 1..Len(c.lists) : Len(c.lists[i]) # 0,
         NEW k \in Kinds, NEW metric, NEW version
  PROVE  /\ Image(c, k, metric, version).cells \in Seq(Nat)
         /\ GraphCells(c) \in Seq(Nat)
<1> DEFINE lists == c.lists
           n == Len(lists)
           levels == Levels(lists)
           graph == GraphCells(c)
           column == PayloadCells(k, c.payloads, Len(graph) + 1)
<1>1. n \in Nat /\ DOMAIN lists = 1..n /\ \A i \in 1..n : lists[i] \in Seq(Seq(Nat))
  BY LenProperties, ElementOfSeq DEF Lists
<1>2. \A i \in 1..n : Len(lists[i]) \in Nat \ {0}
  BY <1>1, LenProperties
<1>3. levels \in Seq(Nat)
  <2>1. levels = [i \in 1..n |-> Len(lists[i]) - 1]
    BY <1>1 DEF Levels
  <2>2. levels \in [1..n -> Nat]
    BY <1>2, <2>1
  <2> HIDE DEF levels, n, lists
  <2>3. n \in Nat
    BY <1>1
  <2>4. levels \in Seq(Nat)
    BY <2>2, <2>3, SeqDef
  <2> QED BY <2>4
<1>4. ConnOffsets(lists) \in Seq(Nat) /\ ConnData(lists) \in Seq(Nat)
  <2> HIDE DEF n
  <2>1. lists \in Lists /\ n = Len(lists)
    BY DEF n
  <2> QED BY <1>1, <2>1, NodePlaces
<1>5. graph \in Seq(Nat)
  <2> DEFINE a == c.vecs \o levels
             b == a \o ConnOffsets(lists)
  <2>1. a \in Seq(Nat)
    BY <1>3, ConcatProperties
  <2> HIDE DEF a
  <2>2. b \in Seq(Nat)
    BY <1>4, <2>1, ConcatProperties
  <2> HIDE DEF b
  <2>3. b \o ConnData(lists) \in Seq(Nat)
    BY <1>4, <2>2, ConcatProperties
  <2>4. graph = b \o ConnData(lists)
    BY DEF GraphCells, a, b
  <2> QED BY <2>3, <2>4
<1> HIDE DEF graph
<1>6. column \in Seq(Nat)
  <2>1. Len(graph) + 1 \in Nat /\ Len(c.payloads) \in Nat
    BY <1>5, LenProperties
  <2> QED BY <2>1, PayloadCellsLaid
<1> HIDE DEF column
<1>7. graph \o column \in Seq(Nat)
  BY <1>5, <1>6, ConcatProperties
<1>8. Image(c, k, metric, version).cells = graph \o column
  BY DEF Image, graph, column
<1> QED BY <1>5, <1>7, <1>8 DEF graph

\* Where the column is, and what it holds, in an image whose graph ends
\* before `end`.
ColumnIn(image, k, payloads, n, end) ==
  /\ image[end] = n /\ image[end + 1] = FixedStride(k)
  /\ Len(image) = end + (HeadOf(k, n) - 1) + Off(k, n + 1)
  /\ FixedStride(k) = 0 => \A i \in 1..n : image[end + 1 + i] = end + 2 + n + Off(k, i)
  /\ \A i \in 1..n :
       /\ k \in {"narrow", "wide"} => image[end + 2 + Off(k, i)] = payloads[i]
       /\ k = "text" => /\ image[end + 2 + n + Off(k, i)] = 1
                        /\ image[end + 3 + n + Off(k, i)] = payloads[i]

\* Whether a column has a value for every vector.
ColumnFits(k, vecs, payloads) ==
  /\ payloads \in Seq(Nat) /\ k \in Kinds
  /\ k = "none" => payloads = <<>>
  /\ k # "none" => /\ Len(payloads) = Len(vecs)
                   /\ \A i \in 1..Len(vecs) : payloads[i] \in {Stored(k, vecs[i]), 0}

ImageIs(image, k, c, n, S, end) ==
  /\ image \in Seq(Nat) /\ end \in Nat \ {0} /\ end + 1 <= Len(image)
  /\ PlacesOK(c.lists, n, S, end) /\ TablesOK(image, c.vecs, c.lists, n, S) /\ CellsOK(image, c.lists, n, S)
  /\ k # "none" => ColumnIn(image, k, c.payloads, n, end)
  /\ image[end + 1] = FixedStride(k) /\ (k = "none" => image[end] = 0)

LEMMA ImageLaid ==
  ASSUME NEW c, Sound(c.vecs, c.lists, c.ep), NEW k \in Kinds, ColumnFits(k, c.vecs, c.payloads),
         NEW metric, NEW version, NEW n, n = Len(c.vecs)
  PROVE  \E S, end : ImageIs(Image(c, k, metric, version).cells, k, c, n, S, end)
<1> DEFINE graph == GraphCells(c)
           end == Len(graph) + 1
           column == PayloadCells(k, c.payloads, end)
           image == graph \o column
<1>1. /\ n \in Nat /\ c.vecs \in Seq(Nat) /\ c.lists \in Lists /\ n = Len(c.lists)
      /\ \A i \in 1..n : Len(c.lists[i]) \in Nat \ {0}
      /\ c.payloads \in Seq(Nat) /\ (k # "none" => Len(c.payloads) = n)
  BY SoundSizes DEF Sound, ColumnFits
<1>2. Image(c, k, metric, version).cells = image
  BY DEF Image
<1>3. graph \in Seq(Nat) /\ \E S : /\ PlacesOK(c.lists, n, S, end) /\ TablesOK(graph, c.vecs, c.lists, n, S)
                                   /\ CellsOK(graph, c.lists, n, S)
  BY <1>1, GraphLaid
<1> HIDE DEF graph
<1>4. PICK S : /\ PlacesOK(c.lists, n, S, end) /\ TablesOK(graph, c.vecs, c.lists, n, S)
               /\ CellsOK(graph, c.lists, n, S)
  BY <1>3
<1>5. end \in Nat \ {0} /\ Len(graph) \in Nat /\ Len(graph) = end - 1
  BY <1>3, LenProperties
<1> HIDE DEF end
<1>6. column \in Seq(Nat) /\ Len(column) >= 2 /\ Len(column) \in Nat
  <2>1. Len(c.payloads) \in Nat /\ end \in Nat
    BY <1>1, <1>5, LenProperties
  <2>2. column \in Seq(Nat) /\ Len(column) >= 2
    BY <1>1, <2>1, PayloadCellsLaid
  <2> HIDE DEF column
  <2> QED BY <2>2, LenProperties
<1>7. /\ k # "none" => ColumnLaid(column, k, c.payloads, n, end)
      /\ k = "none" => column[1] = 0 /\ column[2] = 0
  <2>1. end \in Nat
    BY <1>5
  <2>2. k # "none" => ColumnLaid(column, k, c.payloads, n, end)
    BY <1>1, <2>1, PayloadCellsLaid
  <2>3. k = "none" => column[1] = 0 /\ column[2] = 0
    BY DEF PayloadCells
  <2> QED BY <2>2, <2>3
<1> HIDE DEF column
<1>8. image \in Seq(Nat) /\ JoinOf(image, graph, column)
  BY <1>3, <1>6, Joined
<1> HIDE DEF image
<1>9. /\ Len(image) = end - 1 + Len(column)
      /\ \A p \in 1..(end - 1) : image[p] = graph[p]
      /\ \A j \in 1..Len(column) : image[end - 1 + j] = column[j]
  BY <1>5, <1>8 DEF JoinOf
<1>10. 3 * n + 1 <= end
  BY <1>4 DEF PlacesOK
<1>11. TablesOK(image, c.vecs, c.lists, n, S)
  <2> SUFFICES ASSUME NEW i \in 1..n
               PROVE  /\ image[i] = c.vecs[i] /\ image[n + i] = Len(c.lists[i]) - 1
                      /\ image[2 * n + i] = S[i][1]
    BY DEF TablesOK
  <2>1. i \in 1..(end - 1) /\ n + i \in 1..(end - 1) /\ 2 * n + i \in 1..(end - 1)
    BY <1>1, <1>5, <1>10
  <2>2. graph[i] = c.vecs[i] /\ graph[n + i] = Len(c.lists[i]) - 1 /\ graph[2 * n + i] = S[i][1]
    BY <1>4 DEF TablesOK
  <2> QED BY <1>9, <2>1, <2>2
<1>12. CellsOK(image, c.lists, n, S)
  <2> SUFFICES ASSUME NEW i \in 1..n, NEW l \in 1..Len(c.lists[i])
               PROVE  /\ image[S[i][l]] = Len(c.lists[i][l])
                      /\ \A j \in 1..Len(c.lists[i][l]) : image[S[i][l] + j] = c.lists[i][l][j]
    BY DEF CellsOK
  <2> DEFINE p == S[i][l]
             size == Len(c.lists[i][l])
  <2>1. l \in 1..(Len(c.lists[i]) + 1) /\ l + 1 \in 1..(Len(c.lists[i]) + 1)
    BY <1>1
  <2>2. /\ p \in Nat /\ 3 * n + 1 <= p /\ S[i][l + 1] = p + 1 + size /\ S[i][l + 1] <= end
    BY <1>4, <2>1 DEF PlacesOK
  <2>3. size \in Nat
    <3>1. c.lists[i][l] \in Seq(Nat)
      BY SoundSizes
    <3> QED BY <3>1, LenProperties
  <2>4. graph[p] = size /\ \A j \in 1..size : graph[p + j] = c.lists[i][l][j]
    BY <1>4 DEF CellsOK
  <2> HIDE DEF p, size
  <2>7. end \in Nat /\ n \in Nat
    BY <1>1, <1>5
  <2>8. 1 <= p /\ p + 1 + size <= end
    BY <2>2, <2>7
  <2>5. p \in 1..(end - 1) /\ \A j \in 1..size : p + j \in 1..(end - 1)
    BY <2>2, <2>3, <2>7, <2>8
  <2>6. image[p] = size /\ \A j \in 1..size : image[p + j] = c.lists[i][l][j]
    BY <1>9, <2>4, <2>5
  <2> QED BY <2>6 DEF p, size
<1>13. ASSUME k # "none" PROVE ColumnIn(image, k, c.payloads, n, end)
  <2> DEFINE len == Len(column)
  <2>0. ColumnLaid(column, k, c.payloads, n, end)
    BY <1>7, <1>13
  <2>1. k \in {"unit", "narrow", "wide", "text"}
    BY <1>13 DEF Kinds
  <2>2. \A j \in 1..len : image[end - 1 + j] = column[j]
    BY <1>9
  <2>3. len = HeadOf(k, n) + Off(k, n + 1) /\ len \in Nat /\ len >= 2
    BY <1>6, <2>0 DEF ColumnLaid
  <2>4. /\ column[1] = n /\ column[2] = FixedStride(k)
        /\ FixedStride(k) = 0 => \A i \in 1..n : column[2 + i] = end + 2 + n + Off(k, i)
        /\ \A i \in 1..n :
             /\ k \in {"narrow", "wide"} => column[HeadOf(k, n) + Off(k, i) + 1] = c.payloads[i]
             /\ k = "text" => /\ column[HeadOf(k, n) + Off(k, i) + 1] = 1
                              /\ column[HeadOf(k, n) + Off(k, i) + 2] = c.payloads[i]
    BY <2>0 DEF ColumnLaid
  <2>5. /\ HeadOf(k, n) \in Nat
        /\ (k \in {"narrow", "wide"} => HeadOf(k, n) = 2 /\ FixedStride(k) # 0)
        /\ (k \in {"unit", "text"} => HeadOf(k, n) = 2 + n /\ FixedStride(k) = 0)
    BY <1>1, <2>1 DEF HeadOf, FixedStride
  <2> HIDE DEF len
  <2>6. image[end] = n /\ image[end + 1] = FixedStride(k)
    <3>1. 1 \in 1..len /\ 2 \in 1..len /\ end - 1 + 1 = end /\ end - 1 + 2 = end + 1
      BY <1>5, <2>3
    <3> QED BY <2>2, <2>4, <3>1
  <2>7. Len(image) = end + (HeadOf(k, n) - 1) + Off(k, n + 1)
    <3>1. Off(k, n + 1) \in Nat
      BY <1>1, <2>1 DEF Off
    <3> QED BY <1>5, <1>9, <2>3, <2>5, <3>1 DEF len
  <2>8. ASSUME FixedStride(k) = 0, NEW i \in 1..n PROVE image[end + 1 + i] = end + 2 + n + Off(k, i)
    <3>1. Off(k, n + 1) \in Nat
      BY <1>1, <2>1 DEF Off
    <3>2. HeadOf(k, n) = 2 + n
      BY <2>1, <2>5, <2>8
    <3>3. 2 + i \in 1..len /\ end - 1 + (2 + i) = end + 1 + i
      BY <1>1, <1>5, <2>3, <3>1, <3>2
    <3> QED BY <2>2, <2>4, <2>8, <3>3
  <2>9. ASSUME k \in {"narrow", "wide"}, NEW i \in 1..n PROVE image[end + 2 + Off(k, i)] = c.payloads[i]
    <3> DEFINE o == Off(k, i)
    <3>1. o \in Nat /\ Off(k, n + 1) \in Nat /\ o + 1 <= Off(k, n + 1)
      BY <1>1, <2>9 DEF Off
    <3>2. column[2 + o + 1] = c.payloads[i]
      BY <2>4, <2>5, <2>9
    <3> HIDE DEF o
    <3>3. 2 + o + 1 \in 1..len /\ end - 1 + (2 + o + 1) = end + 2 + o
      BY <1>5, <2>3, <2>5, <2>9, <3>1
    <3> QED BY <2>2, <3>2, <3>3 DEF o
  <2>10. ASSUME k = "text", NEW i \in 1..n
         PROVE  /\ image[end + 2 + n + Off(k, i)] = 1
                /\ image[end + 3 + n + Off(k, i)] = c.payloads[i]
    <3> DEFINE o == Off(k, i)
    <3>1. o \in Nat /\ Off(k, n + 1) \in Nat /\ o + 2 <= Off(k, n + 1)
      BY <1>1, <2>10 DEF Off
    <3>2. column[2 + n + o + 1] = 1 /\ column[2 + n + o + 2] = c.payloads[i]
      BY <2>4, <2>5, <2>10
    <3> HIDE DEF o
    <3>4. len = 2 + n + Off(k, n + 1) /\ n \in Nat
      BY <1>1, <2>3, <2>5, <2>10
    <3>5. 2 + n + o + 1 \in 1..len /\ 2 + n + o + 2 \in 1..len
      BY <3>1, <3>4
    <3>6. end - 1 + (2 + n + o + 1) = end + 2 + n + o /\ end - 1 + (2 + n + o + 2) = end + 3 + n + o
      <4>1. \A a, b, d \in Nat : a - 1 + (2 + b + d + 1) = a + 2 + b + d
        OBVIOUS
      <4>2. \A a, b, d \in Nat : a - 1 + (2 + b + d + 2) = a + 3 + b + d
        OBVIOUS
      <4>3. end \in Nat /\ n \in Nat /\ o \in Nat
        BY <1>5, <3>1, <3>4
      <4>4. end - 1 + (2 + n + o + 1) = end + 2 + n + o
        BY <4>1, <4>3, ZenonT(30)
      <4>5. end - 1 + (2 + n + o + 2) = end + 3 + n + o
        BY <4>2, <4>3, ZenonT(30)
      <4> QED BY <4>4, <4>5
    <3>7. image[end - 1 + (2 + n + o + 1)] = 1 /\ image[end - 1 + (2 + n + o + 2)] = c.payloads[i]
      BY <2>2, <3>2, <3>5
    <3>8. image[end + 2 + n + o] = 1 /\ image[end + 3 + n + o] = c.payloads[i]
      BY <3>6, <3>7
    <3> QED BY <3>8 DEF o
  <2> QED BY <2>6, <2>7, <2>8, <2>9, <2>10 DEF ColumnIn
<1>14. end + 1 <= Len(image)
  BY <1>5, <1>6, <1>9
<1>15. image[end + 1] = FixedStride(k) /\ (k = "none" => image[end] = 0)
  <2>1. CASE k = "none"
    <3> DEFINE len == Len(column)
    <3>1. len \in Nat /\ len >= 2
      BY <1>6
    <3> HIDE DEF len
    <3>2. 1 \in 1..len /\ 2 \in 1..len /\ end - 1 + 1 = end /\ end - 1 + 2 = end + 1
      BY <1>5, <3>1
    <3>3. image[end] = 0 /\ image[end + 1] = 0
      BY <1>7, <1>9, <2>1, <3>2 DEF len
    <3> QED BY <2>1, <3>3 DEF FixedStride
  <2>2. CASE k # "none"
    BY <1>13, <2>2 DEF ColumnIn
  <2> QED BY <2>1, <2>2
<1>16. ImageIs(image, k, c, n, S, end)
  BY <1>4, <1>5, <1>8, <1>11, <1>12, <1>13, <1>14, <1>15 DEF ImageIs
<1> QED BY <1>2, <1>16

-----------------------------------------------------------------------------
(* Reading the payloads of a file that was cut                             *)

ColumnFile(disk, image, w, k, payloads, n, end) ==
  /\ Torn(disk.cells, image, w) /\ end \in Nat \ {0} /\ n \in Nat
  /\ payloads \in Seq(Nat) /\ Len(payloads) = n
  /\ k \in Kinds \ {"none"} /\ ColumnIn(image, k, payloads, n, end)
  /\ k = "text" => Len(disk.cells) = w
  /\ k = "unit" => \A i \in 1..n : payloads[i] = 0

\* No cell of the image is read as zero.
NoneMissing(disk, image, w) == Len(disk.cells) = w \/ w = Len(image)

\* The column that was saved, or the beginning of it and then zeros.
BeginningOf(r, payloads, n) ==
  \E j \in 0..n : \A i \in 1..n : r[i] = IF i <= j THEN payloads[i] ELSE 0

ColumnAs(r, payloads, n, exact) ==
  /\ r \in Seq(Nat) /\ Len(r) = n /\ BeginningOf(r, payloads, n)
  /\ exact => r = payloads

LEMMA FixedColumn ==
  ASSUME NEW disk, NEW image, NEW w, NEW k, NEW payloads, NEW n, NEW end,
         ColumnFile(disk, image, w, k, payloads, n, end), k \in {"narrow", "wide"},
         NEW s, s = FixedStride(k), end + 1 + n * s <= Len(disk.cells)
  PROVE  ColumnAs([i \in 1..n |-> Decoded(k, FixedChunk(disk, end, s, i))], payloads, n,
                  NoneMissing(disk, image, w))
<1> DEFINE c == disk.cells
           len == Len(c)
           r == [i \in 1..n |-> Decoded(k, FixedChunk(disk, end, s, i))]
           at(i) == end + 2 + Off(k, i)
<1>1. /\ Torn(c, image, w) /\ c \in Seq(Nat) /\ w \in Nat /\ w <= len /\ end \in Nat \ {0} /\ n \in Nat
      /\ payloads \in Seq(Nat) /\ Len(payloads) = n /\ ColumnIn(image, k, payloads, n, end)
  BY DEF ColumnFile, Torn
<1>2. len \in Nat
  BY <1>1, LenProperties
<1>3. /\ s \in {1, 2} /\ (k = "narrow" <=> s = 1) /\ (k = "wide" <=> s = 2)
      /\ \A i \in 1..(n + 1) : Off(k, i) = (i - 1) * s /\ Off(k, i) \in Nat
  <2>1. CASE k = "narrow"
    BY <2>1 DEF FixedStride, Off
  <2>2. CASE k = "wide"
    BY <2>2 DEF FixedStride, Off
  <2> QED BY <2>1, <2>2
<1>4. \A i \in 1..n : image[at(i)] = payloads[i]
  BY <1>1 DEF ColumnIn
<1>5. ASSUME NEW i \in 1..n PROVE at(i) \in Nat \ {0} /\ at(i) <= len /\ at(i) - 1 + s <= len
  <2>1. CASE s = 1
    <3>1. Off(k, i) = i - 1
      BY <1>1, <1>3, <2>1
    <3>2. end + 1 + n <= len
      BY <1>1, <2>1
    <3> HIDE DEF len
    <3> QED BY <1>1, <1>2, <2>1, <3>1, <3>2
  <2>2. CASE s = 2
    <3>1. Off(k, i) = 2 * (i - 1)
      BY <1>1, <1>3, <2>2
    <3>2. end + 1 + 2 * n <= len
      BY <1>1, <2>2
    <3> HIDE DEF len
    <3> QED BY <1>1, <1>2, <2>2, <3>1, <3>2
  <2> QED BY <1>3, <2>1, <2>2
<1>6. ASSUME NEW i \in 1..n PROVE r[i] = c[at(i)]
  <2> DEFINE p == end + 1 + Off(k, i)
             chunk == SubSeq(c, p + 1, p + s)
  <2>0. i \in 1..(n + 1)
    BY <1>1
  <2>1. Off(k, i) = (i - 1) * s /\ Off(k, i) \in Nat
    BY <1>3, <2>0
  <2>2. end + 2 + (i - 1) * s = p + 1 /\ end + 1 + i * s = p + s
    <3>1. CASE s = 1
      BY <1>1, <2>1, <3>1
    <3>2. CASE s = 2
      BY <1>1, <2>1, <3>2
    <3> QED BY <1>3, <3>1, <3>2
  <2>3. FixedChunk(disk, end, s, i) = chunk
    BY <2>2 DEF FixedChunk
  <2>4. p \in Nat /\ p + 1 = at(i) /\ p + s <= Len(c) /\ s \in Nat /\ 1 \in 1..s
    <3>1. at(i) - 1 + s <= len /\ end \in Nat
      BY <1>1, <1>5
    <3>0. Off(k, i) \in Nat /\ s \in Nat /\ end \in Nat
      BY <1>1, <1>3, <2>1
    <3>2. p \in Nat /\ p + 1 = at(i) /\ p + s = at(i) - 1 + s
      <4> DEFINE o == Off(k, i)
      <4>1. o \in Nat /\ p = end + 1 + o /\ at(i) = end + 2 + o
        BY <3>0
      <4> HIDE DEF o, p, at
      <4> QED BY <3>0, <4>1
    <3>3. s \in Nat /\ 1 \in 1..s
      BY <1>3
    <3>4. p + s <= Len(c)
      <4> HIDE DEF p, at, c
      <4> QED BY <3>1, <3>2
    <3> QED BY <3>2, <3>3, <3>4
  <2> HIDE DEF p, c, at
  <2>5. \A j \in 1..s : chunk[j] = c[p + j]
    <3>1. c \in Seq(Nat) /\ p \in Nat /\ s \in Nat /\ p + s <= Len(c)
      BY <1>1, <2>4
    <3> QED BY <3>1, SliceIs
  <2>6. chunk[1] = c[at(i)]
    BY <2>4, <2>5
  <2> HIDE DEF chunk
  <2>7. r[i] = chunk[1]
    BY <2>3 DEF Decoded
  <2> QED BY <2>6, <2>7
<1>7. ASSUME NEW i \in 1..n PROVE c[at(i)] = (IF at(i) <= w THEN payloads[i] ELSE 0)
  <2>1. CellAt(c, at(i)) = c[at(i)]
    BY <1>5 DEF CellAt
  <2> DEFINE q == at(i)
  <2>2. q \in Nat \ {0} /\ image[q] = payloads[i] /\ CellAt(c, q) = c[q]
    BY <1>4, <1>5, <2>1
  <2> HIDE DEF c, q
  <2>3. /\ q <= w => CellAt(c, q) = image[q]
        /\ q > w => CellAt(c, q) = 0
    BY <1>1, <2>2, CellOf
  <2>4. q <= w \/ q > w
    BY <1>1, <2>2
  <2>5. c[q] = (IF q <= w THEN payloads[i] ELSE 0)
    BY <1>1, <2>2, <2>3, <2>4
  <2> QED BY <2>5 DEF q
<1>8. \A i \in 1..n : \A h \in 1..n : i <= h => at(i) <= at(h)
  <2> SUFFICES ASSUME NEW i \in 1..n, NEW h \in 1..n, i <= h PROVE at(i) <= at(h)
    OBVIOUS
  <2>1. Off(k, i) <= Off(k, h) /\ Off(k, i) \in Nat /\ Off(k, h) \in Nat
    <3>1. CASE k = "narrow"
      BY <1>1, <3>1 DEF Off
    <3>2. CASE k = "wide"
      BY <1>1, <3>2 DEF Off
    <3> QED BY <3>1, <3>2
  <2> QED BY <1>1, <2>1
<1> DEFINE T == {i \in 1..(n + 1) : i = n + 1 \/ ~(at(i) <= w)}
<1> HIDE DEF r, c, at
<1>9. PICK m \in T : \A h \in T : m <= h
  <2>1. T # {} /\ T \subseteq Nat
    <3>1. n + 1 \in T
      BY <1>1
    <3>2. \A x \in T : x \in Nat
      BY <1>1
    <3> HIDE DEF T
    <3> QED BY <3>1, <3>2
  <2> HIDE DEF T
  <2> QED BY <2>1, LeastExists
<1>10. m \in 1..(n + 1) /\ (m = n + 1 \/ ~(at(m) <= w)) /\ m - 1 \in 0..n
  BY <1>1, <1>9
<1>11. ASSUME NEW i \in 1..n PROVE r[i] = IF i <= m - 1 THEN payloads[i] ELSE 0
  <2>1. CASE i <= m - 1
    <3>1. i \notin T
      <4>1. ~(m <= i)
        BY <1>10, <2>1
      <4> HIDE DEF T
      <4> QED BY <1>9, <4>1
    <3>2. i \in 1..(n + 1) /\ i # n + 1
      BY <1>1
    <3>3. at(i) <= w
      BY <3>1, <3>2
    <3> QED BY <1>6, <1>7, <2>1, <3>3
  <2>2. CASE ~(i <= m - 1)
    <3>1. m \in 1..n /\ m <= i
      BY <1>1, <1>10, <2>2
    <3>4. at(m) \in Nat /\ at(i) \in Nat
      BY <1>5, <3>1
    <3>5. at(m) <= at(i)
      BY <1>8, <3>1
    <3>6. ~(at(m) <= w)
      BY <1>1, <1>10, <3>1
    <3>2. at(m) <= at(i) /\ ~(at(m) <= w) /\ at(m) \in Nat /\ at(i) \in Nat
      BY <3>4, <3>5, <3>6
    <3>3. ~(at(i) <= w)
      BY <1>1, <3>2
    <3> QED BY <1>6, <1>7, <2>2, <3>3
  <2> QED BY <2>1, <2>2
<1>12. BeginningOf(r, payloads, n)
  BY <1>10, <1>11 DEF BeginningOf
<1>13. r \in Seq(Nat) /\ Len(r) = n
  <2>1. \A i \in 1..n : payloads[i] \in Nat
    BY <1>1, ElementOfSeq
  <2>2. \A i \in 1..n : r[i] \in Nat
    BY <1>6, <1>7, <2>1
  <2>3. r = [i \in 1..n |-> r[i]]
    BY DEF r
  <2>4. r \in [1..n -> Nat]
    BY <2>2, <2>3
  <2> QED BY <1>1, <2>4, SeqDef, LenProperties
<1>14. NoneMissing(disk, image, w) => r = payloads
  <2> SUFFICES ASSUME NoneMissing(disk, image, w) PROVE r = payloads
    OBVIOUS
  <2>1. ASSUME NEW i \in 1..n PROVE at(i) <= w
    <3>1. CASE len = w
      BY <1>5, <3>1
    <3>2. CASE w = Len(image)
      <4> DEFINE all == Off(k, n + 1)
                 o == Off(k, i)
      <4>1. w = end + 1 + all
        <5>1. HeadOf(k, n) = 2
          BY <1>3 DEF HeadOf
        <5>2. w = end + (HeadOf(k, n) - 1) + all
          BY <1>1, <3>2 DEF ColumnIn
        <5> HIDE DEF all
        <5> QED BY <1>1, <5>1, <5>2
      <4>2. all \in Nat /\ o \in Nat /\ o + 1 <= all
        <5>1. n \in Nat /\ i \in 1..n
          BY <1>1
        <5>2. CASE k = "narrow"
          <6>1. all = n /\ o = i - 1
            BY <5>1, <5>2 DEF Off
          <6> HIDE DEF all, o
          <6> QED BY <5>1, <6>1
        <5>3. CASE k = "wide"
          <6>1. all = 2 * n /\ o = 2 * (i - 1)
            BY <5>1, <5>3 DEF Off
          <6> HIDE DEF all, o
          <6> QED BY <5>1, <6>1
        <5> QED BY <5>2, <5>3
      <4>3. at(i) = end + 2 + o
        BY DEF at
      <4> HIDE DEF all, o
      <4> QED BY <1>1, <4>1, <4>2, <4>3
    <3> QED BY <3>1, <3>2 DEF NoneMissing, c
  <2>2. \A i \in 1..n : r[i] = payloads[i]
    BY <1>6, <1>7, <2>1
  <2> QED BY <1>1, <1>13, <2>2, SameSeq
<1>15. ColumnAs(r, payloads, n, NoneMissing(disk, image, w))
  BY <1>12, <1>13, <1>14 DEF ColumnAs
<1> QED BY <1>15 DEF r, c

FreeChunks(disk, end, n) ==
  [i \in 1..n |-> SubSeq(disk.cells, VariableStart(disk, end, i), VariableEnd(disk, end, n, i) - 1)]

DecodedAll(k, chunks, n) == [i \in 1..n |-> Decoded(k, chunks[i])]

\* A column without a stride: the offsets are all there, and a String as well.
LEMMA VariableColumn ==
  ASSUME NEW disk, NEW image, NEW w, NEW k, NEW payloads, NEW n, NEW end,
         ColumnFile(disk, image, w, k, payloads, n, end), n # 0,
         NEW chunks, chunks = FreeChunks(disk, end, n),
         disk.cells[end + 1] = 0, VariableTableValid(disk, end, n),
         \A i \in 1..n : Decodes(k, chunks[i])
  PROVE  DecodedAll(k, chunks, n) = payloads
<1> DEFINE c == disk.cells
           len == Len(c)
           r == [i \in 1..n |-> Decoded(k, chunks[i])]
           start(i) == VariableStart(disk, end, i)
           stop(i) == VariableEnd(disk, end, n, i)
<1>1. /\ Torn(c, image, w) /\ c \in Seq(Nat) /\ w \in Nat /\ w <= len /\ end \in Nat \ {0} /\ n \in Nat
      /\ payloads \in Seq(Nat) /\ Len(payloads) = n /\ ColumnIn(image, k, payloads, n, end)
      /\ k = "text" => len = w
      /\ k = "unit" => \A i \in 1..n : payloads[i] = 0
      /\ k \in {"unit", "narrow", "wide", "text"}
  BY DEF ColumnFile, Torn, Kinds
<1>2. len \in Nat
  BY <1>1, LenProperties
<1>3. /\ end + 2 + n <= len + 1
      /\ \A i \in 1..n : start(i) >= end + 2 + n /\ stop(i) \in start(i)..(len + 1)
  BY DEF VariableTableValid
<1>4. \A i \in 1..n : chunks[i] = SubSeq(c, start(i), stop(i) - 1)
  BY DEF FreeChunks
<1>5. \A i \in 1..n : start(i) = c[end + 1 + i]
  BY DEF VariableStart
<1>6. ASSUME NEW i \in 1..n
      PROVE  end + 1 + i <= w /\ start(i) = image[end + 1 + i]
  <2> DEFINE q == end + 1 + i
  <2>1. q \in Nat \ {0} /\ q <= len
    <3> HIDE DEF len
    <3> QED BY <1>1, <1>2, <1>3
  <2>2. c[q] # 0
    <3>1. c[q] = start(i) /\ start(i) >= end + 2 + n
      BY <1>3, <1>5
    <3>2. c[q] \in Nat
      <4> HIDE DEF q, c
      <4> QED BY <1>1, <2>1, ElementOfSeq
    <3> HIDE DEF q, c, start
    <3> QED BY <1>1, <3>1, <3>2
  <2>3. start(i) = c[q]
    BY <1>5
  <2> HIDE DEF q, start
  <2>4. CellAt(c, q) = c[q]
    BY <2>1 DEF CellAt
  <2> HIDE DEF c
  <2>5. ~(q > w)
    BY <1>1, <2>1, <2>2, <2>4, CellOf
  <2>6. q <= w
    BY <1>1, <2>1, <2>5
  <2>7. c[q] = image[q]
    BY <1>1, <2>1, <2>4, <2>6, CellOf
  <2> QED BY <2>3, <2>6, <2>7 DEF q
<1>7. FixedStride(k) = 0
  <2>1. 1 \in 1..n
    BY <1>1
  <2>2. end + 1 + 1 <= w
    BY <1>6, <2>1
  <2>3. end + 1 \in 1..w
    BY <1>1, <2>2
  <2>4. c[end + 1] = image[end + 1]
    BY <1>1, <2>3 DEF Torn
  <2> QED BY <1>1, <2>4 DEF ColumnIn
<1>8. k \in {"unit", "text"}
  BY <1>1, <1>7 DEF FixedStride
<1>9. CASE k = "unit"
  <2>1. \A i \in 1..n : r[i] = payloads[i]
    BY <1>1, <1>9 DEF Decoded
  <2>2. r \in [1..n -> Nat]
    BY <1>9 DEF Decoded
  <2> HIDE DEF r
  <2>3. r \in Seq(Nat) /\ Len(r) = n
    BY <1>1, <2>2, SeqDef, LenProperties
  <2>4. r = payloads
    BY <1>1, <2>1, <2>3, SameSeq
  <2> QED BY <2>4 DEF r, DecodedAll
<1>10. CASE k = "text"
  <2> DEFINE base == end + 2 + n
  <2>1. \A i \in 1..n : start(i) = base + 2 * (i - 1)
    <3>1. \A i \in 1..n : image[end + 1 + i] = base + Off(k, i)
      BY <1>1, <1>7 DEF ColumnIn
    <3>2. \A i \in 1..n : Off(k, i) = 2 * (i - 1)
      BY <1>10 DEF Off
    <3> QED BY <1>6, <3>1, <3>2
  <2>2. \A i \in 1..n : image[base + 2 * (i - 1)] = 1 /\ image[base + 1 + 2 * (i - 1)] = payloads[i]
    <3>1. \A i \in 1..n : image[end + 2 + n + Off(k, i)] = 1 /\ image[end + 3 + n + Off(k, i)] = payloads[i]
      BY <1>1, <1>10 DEF ColumnIn
    <3>2. \A i \in 1..n : Off(k, i) = 2 * (i - 1)
      BY <1>10 DEF Off
    <3>3. end + 3 + n = base + 1
      BY <1>1
    <3> QED BY <3>1, <3>2, <3>3
  <2>3. base \in Nat \ {0}
    BY <1>1
  <2>4. len = w
    BY <1>1, <1>10
  <2> HIDE DEF base, len, c, r, start, stop
  <2>5. ASSUME NEW i \in 1..n, start(i) + 1 <= len, stop(i) - 1 >= start(i) + 1
        PROVE  /\ chunks[i][1] = 1
               /\ chunks[i][2] = payloads[i]
    <3> DEFINE p == start(i) - 1
               m == stop(i) - 1 - p
    <3>1. /\ p \in Nat /\ start(i) = p + 1 /\ stop(i) \in Nat /\ stop(i) <= len + 1
          /\ start(i) \in Nat \ {0} /\ stop(i) - 1 >= p + 2
      <4>1. start(i) = base + 2 * (i - 1) /\ stop(i) \in start(i)..(len + 1)
        BY <1>3, <2>1 DEF c, len
      <4>2. start(i) \in Nat \ {0}
        BY <1>1, <2>3, <4>1
      <4> HIDE DEF m
      <4> QED BY <1>2, <2>5, <4>1, <4>2 DEF len
    <3>2. m \in Nat /\ p + m = stop(i) - 1 /\ p + m <= Len(c) /\ 1 \in 1..m /\ 2 \in 1..m
      BY <1>2, <3>1 DEF len
    <3> HIDE DEF p, m
    <3> DEFINE chunk == SubSeq(c, p + 1, p + m)
    <3>3. \A j \in 1..m : chunk[j] = c[p + j]
      <4>1. c \in Seq(Nat) /\ p \in Nat /\ m \in Nat /\ p + m <= Len(c)
        BY <1>1, <3>1, <3>2
      <4> QED BY <4>1, SliceIs
    <3>4. chunks[i] = chunk
      BY <1>4, <3>1, <3>2
    <3> HIDE DEF chunk
    <3>5. chunks[i][1] = c[start(i)] /\ chunks[i][2] = c[start(i) + 1]
      <4>1. p + 2 = start(i) + 1
        BY <3>1
      <4> QED BY <3>1, <3>2, <3>3, <3>4, <4>1
    <3>6. start(i) \in 1..w /\ start(i) + 1 \in 1..w
      BY <1>1, <2>4, <2>5, <3>1
    <3>7. c[start(i)] = image[start(i)] /\ c[start(i) + 1] = image[start(i) + 1]
      BY <1>1, <3>6 DEF Torn
    <3>8. start(i) = base + 2 * (i - 1) /\ start(i) + 1 = base + 1 + 2 * (i - 1)
      BY <2>1, <2>3
    <3>9. image[start(i)] = 1 /\ image[start(i) + 1] = payloads[i]
      BY <2>2, <3>8
    <3> QED BY <3>5, <3>7, <3>9
  <2>6. start(n) + 1 <= len /\ stop(n) = len + 1
    <3>1. n \in 1..n
      BY <1>1
    <3>2. stop(n) = len + 1
      <4>1. ~(n < n)
        BY <1>1
      <4> QED BY <4>1 DEF stop, VariableEnd, len, c
    <3> DEFINE p == start(n) - 1
               m == stop(n) - 1 - p
               chunk == SubSeq(c, p + 1, p + m)
    <3>3. start(n) = base + 2 * (n - 1) /\ start(n) <= len + 1
      BY <1>3, <2>1, <3>1, <3>2 DEF c, len
    <3>4. p \in Nat /\ m \in Nat /\ p + m = stop(n) - 1 /\ p + m <= Len(c) /\ p + 1 = start(n) /\ p + m = len
          /\ start(n) \in Nat \ {0}
      BY <1>1, <1>2, <2>3, <3>2, <3>3 DEF len
    <3>5. chunks[n] = chunk
      BY <1>4, <3>1, <3>4
    <3> HIDE DEF p, m
    <3>6. Len(chunk) = m
      <4>1. c \in Seq(Nat) /\ p \in Nat /\ m \in Nat /\ p + m <= Len(c)
        BY <1>1, <3>4
      <4> QED BY <4>1, SliceIs
    <3>7. \A j \in 1..m : chunk[j] = c[p + j]
      <4>1. c \in Seq(Nat) /\ p \in Nat /\ m \in Nat /\ p + m <= Len(c)
        BY <1>1, <3>4
      <4> QED BY <4>1, SliceIs
    <3> HIDE DEF chunk
    <3>8. Len(chunk) >= 1 /\ Len(chunk) >= 1 + chunk[1]
      BY <1>10, <3>1, <3>5 DEF Decodes
    <3>9. chunk[1] = 1
      <4>1. 1 \in 1..m /\ start(n) \in 1..w
        BY <1>1, <2>4, <3>4, <3>6, <3>8
      <4>2. chunk[1] = c[start(n)] /\ c[start(n)] = image[start(n)]
        BY <1>1, <3>4, <3>7, <4>1 DEF Torn
      <4> QED BY <2>2, <3>1, <3>3, <4>2
    <3>10. start(n) + 1 <= len
      BY <1>2, <3>4, <3>6, <3>8, <3>9
    <3> QED BY <3>2, <3>10
  <2>7. ASSUME NEW i \in 1..n PROVE r[i] = payloads[i]
    <3>1. start(i) + 1 <= len /\ stop(i) - 1 >= start(i) + 1
      <4>1. CASE i = n
        <5>1. start(n) \in Nat
          BY <1>1, <2>1, <2>3, <4>1
        <5> QED BY <1>2, <2>6, <4>1, <5>1 DEF len
      <4>2. CASE i # n
        <5>1. i + 1 \in 1..n /\ n \in 1..n
          BY <1>1, <4>2
        <5>2. stop(i) = start(i + 1)
          BY <1>1, <4>2 DEF stop, start, VariableEnd
        <5>3. start(i + 1) = base + 2 * ((i + 1) - 1) /\ start(i) = base + 2 * (i - 1)
          BY <2>1, <5>1
        <5>4. start(n) = base + 2 * (n - 1)
          BY <2>1, <5>1
        <5>5. start(n) + 1 <= len /\ len \in Nat
          BY <1>2, <2>6 DEF len
        <5> QED BY <1>1, <2>3, <5>1, <5>2, <5>3, <5>4, <5>5
      <4> QED BY <4>1, <4>2
    <3>2. chunks[i][1] = 1 /\ chunks[i][2] = payloads[i]
      BY <2>5, <3>1
    <3> QED BY <1>10, <3>2 DEF r, Decoded
  <2>8. r \in Seq(Nat) /\ Len(r) = n
    <3>1. \A i \in 1..n : r[i] \in Nat
      BY <1>1, <2>7, ElementOfSeq
    <3>2. r = [i \in 1..n |-> r[i]]
      BY DEF r
    <3>3. r \in [1..n -> Nat]
      BY <3>1, <3>2
    <3> QED BY <1>1, <3>3, SeqDef, LenProperties
  <2>9. r = payloads
    BY <1>1, <2>7, <2>8, SameSeq
  <2> QED BY <2>9 DEF r, DecodedAll
<1> QED BY <1>8, <1>9, <1>10

\* What ReadPayloads accepts where the walk ended, if that is where the graph
\* ends whenever it is not behind the cut.
LEMMA ReadColumn ==
  ASSUME NEW disk, NEW image, NEW w, NEW k, NEW payloads, NEW n, NEW end,
         ColumnFile(disk, image, w, k, payloads, n, end),
         NEW p \in Nat \ {0}, p <= w + 1 => p = end,
         ReadPayloads(disk, p, n, k).ok
  PROVE  /\ p = end /\ end <= w /\ n # 0
         /\ ColumnAs(ReadPayloads(disk, p, n, k).payloads, payloads, n, NoneMissing(disk, image, w))
<1> DEFINE c == disk.cells
           len == Len(c)
           stride == c[p + 1]
           fixed == [i \in 1..n |-> FixedChunk(disk, p, stride, i)]
           free == [i \in 1..n |-> SubSeq(c, VariableStart(disk, p, i), VariableEnd(disk, p, n, i) - 1)]
           read == ReadPayloads(disk, p, n, k)
<1>1. /\ Torn(c, image, w) /\ c \in Seq(Nat) /\ w \in Nat /\ w <= len /\ end \in Nat \ {0} /\ n \in Nat
      /\ payloads \in Seq(Nat) /\ Len(payloads) = n /\ ColumnIn(image, k, payloads, n, end)
      /\ k \in {"unit", "narrow", "wide", "text"}
  BY DEF ColumnFile, Torn, Kinds
<1>2. len \in Nat
  BY <1>1, LenProperties
<1>3. ~Refused.ok
  BY DEF Refused
<1>4. p + 1 <= len /\ c[p] = n /\ c[p] # 0
  BY <1>3 DEF ReadPayloads, HeaderFits
<1>5. p <= w
  <2>1. CellAt(c, p) = c[p]
    <3> HIDE DEF len
    <3>1. p <= len
      BY <1>2, <1>4
    <3> QED BY <3>1 DEF CellAt, len
  <2> HIDE DEF c
  <2>2. ~(p > w)
    BY <1>1, <1>4, <2>1, CellOf
  <2> QED BY <1>1, <2>2
<1>6. p = end /\ end <= w /\ n # 0
  BY <1>1, <1>4, <1>5
<1>7. stride \in Nat /\ (stride # 0 => stride = FixedStride(k))
  <2> DEFINE q == p + 1
  <2>1. q \in Nat \ {0} /\ q <= len
    BY <1>4
  <2>2. CellAt(c, q) = stride
    <3> HIDE DEF q
    <3>1. CellAt(c, q) = c[q]
      BY <2>1 DEF CellAt
    <3> QED BY <3>1 DEF q
  <2>3. image[q] = FixedStride(k)
    BY <1>1, <1>6 DEF ColumnIn
  <2> HIDE DEF c, q, stride
  <2>4. CellAt(c, q) \in Nat /\ (q <= w => CellAt(c, q) = image[q]) /\ (q > w => CellAt(c, q) = 0)
    BY <1>1, <2>1, CellOf
  <2>5. q <= w \/ q > w
    BY <1>1, <2>1
  <2> QED BY <2>2, <2>3, <2>4, <2>5
<1>8. CASE stride > 0
  <2>1. stride = FixedStride(k) /\ k \in {"narrow", "wide"}
    BY <1>1, <1>7, <1>8 DEF FixedStride
  <2>2. ~(p + 1 + n * stride > len) /\ read = Column(k, fixed)
    BY <1>3, <1>4, <1>8 DEF ReadPayloads
  <2>9. DOMAIN fixed = 1..n
    OBVIOUS
  <2>3. read.payloads = [i \in 1..n |-> Decoded(k, fixed[i])]
    <3>1. read = Column(k, fixed)
      BY <2>2
    <3> HIDE DEF fixed, read
    <3>2. read.ok
      BY DEF read
    <3> QED BY <1>3, <2>9, <3>1, <3>2 DEF Column
  <2>4. stride \in {1, 2}
    BY <2>1 DEF FixedStride
  <2> DEFINE s == stride
  <2>5. end + 1 + n * s <= len
    <3>1. CASE s = 1
      BY <1>1, <1>2, <1>6, <2>2, <3>1
    <3>2. CASE s = 2
      BY <1>1, <1>2, <1>6, <2>2, <3>2
    <3> QED BY <2>4, <3>1, <3>2
  <2>6. read.payloads = [i \in 1..n |-> Decoded(k, FixedChunk(disk, end, s, i))]
    BY <1>6, <2>3
  <2> HIDE DEF s, read
  <2>7. s = FixedStride(k)
    BY <2>1 DEF s
  <2>8. ColumnAs(read.payloads, payloads, n, NoneMissing(disk, image, w))
    BY <2>1, <2>5, <2>6, <2>7, FixedColumn
  <2> QED BY <1>6, <2>8 DEF read
<1>9. CASE ~(stride > 0)
  <2>1. VariableTableValid(disk, p, n) /\ read = Column(k, free)
    BY <1>3, <1>4, <1>9 DEF ReadPayloads
  <2>2. \A i \in 1..n : Decodes(k, free[i])
    BY <1>3, <2>1 DEF Column
  <2>3. read.payloads = [i \in 1..n |-> Decoded(k, free[i])]
    BY <1>3, <2>1 DEF Column
  <2>4. c[end + 1] = 0
    BY <1>6, <1>7, <1>9
  <2>5. VariableTableValid(disk, end, n)
    BY <1>6, <2>1
  <2>6. free = [i \in 1..n |-> SubSeq(c, VariableStart(disk, end, i), VariableEnd(disk, end, n, i) - 1)]
    BY <1>6
  <2> HIDE DEF free, read
  <2>7. [i \in 1..n |-> Decoded(k, free[i])] = payloads
    <3>1. disk.cells[end + 1] = 0
      BY <2>4
    <3>2. free = FreeChunks(disk, end, n)
      BY <2>6 DEF FreeChunks
    <3>3. n # 0 /\ ColumnFile(disk, image, w, k, payloads, n, end)
      BY <1>6
    <3> HIDE DEF c, len, stride
    <3>4. DecodedAll(k, free, n) = payloads
      BY <2>2, <2>5, <3>1, <3>2, <3>3, VariableColumn
    <3> QED BY <3>4 DEF DecodedAll
  <2>8. read.payloads = payloads
    BY <2>3, <2>7
  <2>9. BeginningOf(payloads, payloads, n)
    <3>1. n \in 0..n /\ \A i \in 1..n : i <= n
      BY <1>1
    <3> QED BY <3>1 DEF BeginningOf
  <2>10. ColumnAs(read.payloads, payloads, n, NoneMissing(disk, image, w))
    BY <1>1, <2>8, <2>9 DEF ColumnAs
  <2> QED BY <1>6, <2>10 DEF read
<1> QED BY <1>8, <1>9

\* The same for a column that is not decoded yet.
LEMMA MapFixedColumn ==
  ASSUME NEW disk, NEW image, NEW w, NEW k, NEW payloads, NEW n, NEW end,
         ColumnFile(disk, image, w, k, payloads, n, end),
         NEW p \in Nat \ {0}, p <= w + 1 => p = end,
         n = 0 => p = end /\ end <= w + 1,
         MapFixedPayloads(disk, p, n, k).ok
  PROVE  /\ p = end /\ end <= w + 1
         /\ ColumnAs(MapFixedPayloads(disk, p, n, k).payloads, payloads, n, NoneMissing(disk, image, w))
<1> DEFINE c == disk.cells
           len == Len(c)
           s == FixedStride(k)
           read == MapFixedPayloads(disk, p, n, k)
<1>1. /\ Torn(c, image, w) /\ c \in Seq(Nat) /\ w \in Nat /\ w <= len /\ end \in Nat \ {0} /\ n \in Nat
      /\ payloads \in Seq(Nat) /\ Len(payloads) = n
      /\ k \in {"unit", "narrow", "wide", "text"}
  BY DEF ColumnFile, Torn, Kinds
<1>2. len \in Nat
  BY <1>1, LenProperties
<1>3. ~Refused.ok
  BY DEF Refused
<1>4. /\ p + 1 <= len /\ c[p] = n /\ s > 0 /\ p + 1 + n * s <= len
      /\ read.payloads = [i \in 1..n |-> Decoded(k, FixedChunk(disk, p, s, i))]
  BY <1>3 DEF MapFixedPayloads, HeaderFits
<1>5. k \in {"narrow", "wide"}
  BY <1>1, <1>4 DEF FixedStride
<1>6. p = end /\ end <= w + 1
  <2>1. CASE n = 0
    BY <2>1
  <2>2. CASE n # 0
    <3>1. CellAt(c, p) = c[p]
      <4> HIDE DEF len
      <4>1. p <= len
        BY <1>2, <1>4
      <4> QED BY <4>1 DEF CellAt, len
    <3> HIDE DEF c
    <3>2. ~(p > w)
      BY <1>1, <1>4, <2>2, <3>1, CellOf
    <3> QED BY <1>1, <3>2
  <2> QED BY <2>1, <2>2
<1>7. end + 1 + n * s <= len
  BY <1>4, <1>6
<1>8. read.payloads = [i \in 1..n |-> Decoded(k, FixedChunk(disk, end, s, i))]
  BY <1>4, <1>6
<1> HIDE DEF read, s
<1>9. s = FixedStride(k)
  BY DEF s
<1>10. ColumnAs(read.payloads, payloads, n, NoneMissing(disk, image, w))
  BY <1>5, <1>7, <1>8, <1>9, FixedColumn
<1> QED BY <1>6, <1>10 DEF read

\* A column that was written to its end: every chunk of a column with a stride
\* is there,
LEMMA WholeFixed ==
  ASSUME NEW disk, NEW image, NEW w, NEW k, NEW payloads, NEW n, NEW end,
         ColumnFile(disk, image, w, k, payloads, n, end), w = Len(image), k \in {"narrow", "wide"},
         NEW s, s = FixedStride(k)
  PROVE  /\ end + 1 + n * s <= Len(disk.cells)
         /\ \A i \in 1..n : Decodes(k, FixedChunk(disk, end, s, i))
<1> DEFINE c == disk.cells
           len == Len(c)
<1>1. /\ Torn(c, image, w) /\ c \in Seq(Nat) /\ w \in Nat /\ w <= len /\ end \in Nat \ {0} /\ n \in Nat
      /\ ColumnIn(image, k, payloads, n, end) /\ image \in Seq(Nat)
  BY DEF ColumnFile, Torn
<1>2. len \in Nat
  BY <1>1, LenProperties
<1>3. s \in {1, 2} /\ s # 0
  BY DEF FixedStride
<1>4. Len(image) = end + 1 + Off(k, n + 1)
  <2>1. HeadOf(k, n) = 2
    BY <1>3 DEF HeadOf
  <2> QED BY <1>1, <2>1 DEF ColumnIn
<1>5. n * s = Off(k, n + 1)
  <2>1. CASE k = "narrow"
    BY <1>1, <2>1 DEF FixedStride, Off
  <2>2. CASE k = "wide"
    BY <1>1, <2>2 DEF FixedStride, Off
  <2> QED BY <2>1, <2>2
<1>6. end + 1 + n * s <= len
  <2> DEFINE o == Off(k, n + 1)
  <2>1. end + 1 + o <= len
    BY <1>1, <1>4
  <2> QED BY <1>5, <2>1
<1>7. ASSUME NEW i \in 1..n PROVE Decodes(k, FixedChunk(disk, end, s, i))
  <2> DEFINE p == end + 1 + (i - 1) * s
             chunk == SubSeq(c, p + 1, p + s)
  <2>1. p \in Nat /\ p + s <= len /\ end + 2 + (i - 1) * s = p + 1 /\ end + 1 + i * s = p + s
    <3>1. CASE s = 1
      <4>1. end + 1 + n <= len
        BY <1>1, <1>6, <3>1
      <4> HIDE DEF len
      <4> QED BY <1>1, <1>2, <3>1, <4>1
    <3>2. CASE s = 2
      <4>1. end + 1 + 2 * n <= len
        BY <1>1, <1>6, <3>2
      <4> HIDE DEF len
      <4> QED BY <1>1, <1>2, <3>2, <4>1
    <3> QED BY <1>3, <3>1, <3>2
  <2>2. FixedChunk(disk, end, s, i) = chunk
    BY <2>1 DEF FixedChunk
  <2>5. p \in Nat /\ p + s <= len
    BY <2>1
  <2> HIDE DEF p
  <2>3. Len(chunk) = s
    <3>1. c \in Seq(Nat) /\ p \in Nat /\ s \in Nat /\ p + s <= Len(c)
      BY <1>1, <1>3, <2>5
    <3> HIDE DEF c
    <3> QED BY <3>1, SliceIs
  <2> HIDE DEF chunk
  <2>4. Len(chunk) >= FixedStride(k)
    BY <1>3, <2>3
  <2> QED BY <2>2, <2>4 DEF Decodes
<1> QED BY <1>6, <1>7

\* and the offsets and the values of one without.
LEMMA WholeFree ==
  ASSUME NEW disk, NEW image, NEW w, NEW k, NEW payloads, NEW n, NEW end,
         ColumnFile(disk, image, w, k, payloads, n, end), w = Len(image), k \in {"unit", "text"}
  PROVE  /\ VariableTableValid(disk, end, n)
         /\ \A i \in 1..n : Decodes(k, FreeChunks(disk, end, n)[i])
<1> DEFINE c == disk.cells
           len == Len(c)
           start(i) == VariableStart(disk, end, i)
           stop(i) == VariableEnd(disk, end, n, i)
           base == end + 2 + n
<1>1. /\ Torn(c, image, w) /\ c \in Seq(Nat) /\ w \in Nat /\ w <= len /\ end \in Nat \ {0} /\ n \in Nat
      /\ ColumnIn(image, k, payloads, n, end) /\ image \in Seq(Nat)
      /\ k = "text" => len = w
  BY DEF ColumnFile, Torn
<1>2. len \in Nat
  BY <1>1, LenProperties
<1>3. FixedStride(k) = 0 /\ HeadOf(k, n) = 2 + n
  <2>1. FixedStride(k) = 0
    BY DEF FixedStride
  <2> QED BY <2>1 DEF HeadOf
<1>4. w = end + 1 + n + Off(k, n + 1)
  BY <1>1, <1>3 DEF ColumnIn
<1>5. \A i \in 1..(n + 1) : Off(k, i) = IF k = "unit" THEN 0 ELSE 2 * (i - 1)
  BY DEF Off
<1>6. base \in Nat \ {0} /\ base <= w + 1 /\ (k = "text" => len + 1 = base + 2 * n)
  <2>1. n + 1 \in 1..(n + 1)
    BY <1>1
  <2>2. CASE k = "unit"
    <3>1. Off(k, n + 1) = 0
      BY <1>5, <2>1, <2>2
    <3> QED BY <1>1, <1>4, <2>2, <3>1
  <2>3. CASE k = "text"
    <3>1. Off(k, n + 1) = 2 * n
      BY <1>1, <1>5, <2>1, <2>3
    <3>2. len = w
      BY <1>1, <2>3
    <3> HIDE DEF len
    <3> QED BY <1>1, <1>4, <2>3, <3>1, <3>2
  <2> QED BY <2>2, <2>3
<1>7. ASSUME NEW i \in 1..n PROVE start(i) = IF k = "unit" THEN base ELSE base + 2 * (i - 1)
  <2>1. image[end + 1 + i] = base + Off(k, i)
    BY <1>1, <1>3 DEF ColumnIn
  <2>2. end + 1 + i \in 1..w
    BY <1>1, <1>6
  <2>3. start(i) = image[end + 1 + i]
    BY <1>1, <2>2 DEF Torn, VariableStart
  <2>4. Off(k, i) = IF k = "unit" THEN 0 ELSE 2 * (i - 1)
    <3>1. i \in 1..(n + 1)
      BY <1>1
    <3> QED BY <1>5, <3>1
  <2> HIDE DEF start
  <2> QED BY <1>1, <2>1, <2>3, <2>4
<1>8. ASSUME NEW i \in 1..n
      PROVE  stop(i) = IF i < n THEN start(i + 1) ELSE len + 1
  BY DEF VariableEnd
<1>9. ASSUME NEW i \in 1..n
      PROVE  /\ start(i) \in Nat /\ stop(i) \in Nat /\ start(i) >= base
             /\ start(i) <= stop(i) /\ stop(i) <= len + 1
             /\ k = "text" => stop(i) = start(i) + 2 /\ start(i) + 1 <= len /\ start(i) = base + 2 * (i - 1)
  <2>1. CASE k = "unit"
    <3>1. start(i) = base
      BY <1>7, <2>1
    <3>2. stop(i) = IF i < n THEN base ELSE len + 1
      <4>1. CASE i < n
        <5>1. i + 1 \in 1..n
          BY <1>1, <4>1
        <5>2. start(i + 1) = base
          BY <1>7, <2>1, <5>1
        <5> QED BY <1>8, <4>1, <5>2
      <4>2. CASE ~(i < n)
        BY <1>8, <4>2
      <4> QED BY <4>1, <4>2
    <3>3. base <= len + 1
      <4> HIDE DEF len, base
      <4> QED BY <1>1, <1>2, <1>6
    <3> HIDE DEF start, stop, len, base
    <3> QED BY <1>2, <1>6, <2>1, <3>1, <3>2, <3>3
  <2>2. CASE k = "text"
    <3>1. start(i) = base + 2 * (i - 1)
      BY <1>7, <2>2
    <3>2. stop(i) = base + 2 * i
      <4>1. CASE i < n
        <5>1. i + 1 \in 1..n
          BY <1>1, <4>1
        <5>2. start(i + 1) = base + 2 * ((i + 1) - 1)
          BY <1>7, <2>2, <5>1
        <5>3. stop(i) = start(i + 1)
          BY <1>8, <4>1
        <5> HIDE DEF start, stop, base
        <5> QED BY <1>1, <5>2, <5>3
      <4>2. CASE ~(i < n)
        <5>1. i = n
          BY <1>1, <4>2
        <5>2. stop(i) = len + 1
          BY <1>8, <4>2
        <5> HIDE DEF stop, len, base
        <5> QED BY <1>6, <2>2, <5>1, <5>2
      <4> QED BY <4>1, <4>2
    <3>3. len + 1 = base + 2 * n
      BY <1>6, <2>2
    <3> HIDE DEF start, stop, len, base
    <3> QED BY <1>1, <1>2, <1>6, <3>1, <3>2, <3>3
  <2> QED BY <2>1, <2>2
<1>10. VariableTableValid(disk, end, n)
  <2>1. base <= len + 1
    <3> HIDE DEF len, base
    <3> QED BY <1>1, <1>2, <1>6
  <2>2. \A i \in 1..n : start(i) >= base /\ stop(i) \in start(i)..(len + 1)
    <3> HIDE DEF start, stop, base, len
    <3> QED BY <1>2, <1>9
  <2> QED BY <2>1, <2>2 DEF VariableTableValid
<1>11. ASSUME NEW i \in 1..n PROVE Decodes(k, FreeChunks(disk, end, n)[i])
  <2> DEFINE p == start(i) - 1
             m == stop(i) - start(i)
             chunk == SubSeq(c, p + 1, p + m)
  <2>1. FreeChunks(disk, end, n)[i] = SubSeq(c, start(i), stop(i) - 1)
    BY DEF FreeChunks
  <2>2. /\ p \in Nat /\ m \in Nat /\ p + 1 = start(i) /\ p + m = stop(i) - 1 /\ p + m <= len
        /\ k = "text" => m = 2
    <3>1. base \in Nat \ {0} /\ len \in Nat
      BY <1>2, <1>6
    <3>2. start(i) \in Nat /\ stop(i) \in Nat /\ start(i) >= base /\ start(i) <= stop(i) /\ stop(i) <= len + 1
      BY <1>9
    <3>3. k = "text" => stop(i) = start(i) + 2
      BY <1>9
    <3> HIDE DEF start, stop, len, base
    <3> QED BY <3>1, <3>2, <3>3
  <2>3. FreeChunks(disk, end, n)[i] = chunk
    BY <2>1, <2>2
  <2> HIDE DEF p, m
  <2>4. c \in Seq(Nat) /\ p \in Nat /\ m \in Nat /\ p + m <= Len(c)
    BY <1>1, <2>2
  <2>5. Len(chunk) = m
    <3> HIDE DEF c
    <3> QED BY <2>4, SliceIs
  <2>6. \A j \in 1..m : chunk[j] = c[p + j]
    <3> HIDE DEF c
    <3> QED BY <2>4, SliceIs
  <2> HIDE DEF chunk
  <2>7. CASE k = "unit"
    <3>1. Len(chunk) >= FixedStride(k)
      BY <1>3, <2>4, <2>5
    <3> QED BY <2>3, <2>7, <3>1 DEF Decodes
  <2>8. CASE k = "text"
    <3>1. m = 2 /\ 1 \in 1..m
      BY <2>2, <2>8
    <3>2. chunk[1] = c[start(i)]
      BY <2>2, <2>6, <3>1
    <3>3. start(i) \in 1..w
      <4>1. start(i) \in Nat /\ start(i) >= base /\ start(i) + 1 <= len /\ len = w /\ base \in Nat \ {0}
        BY <1>1, <1>6, <1>9, <2>8
      <4> HIDE DEF start, len, base
      <4> QED BY <1>1, <4>1
    <3>4. c[start(i)] = image[start(i)]
      BY <1>1, <3>3 DEF Torn
    <3>5. image[start(i)] = 1
      <4>1. image[end + 2 + n + Off(k, i)] = 1
        BY <1>1, <2>8 DEF ColumnIn
      <4>2. Off(k, i) = 2 * (i - 1)
        BY <2>8 DEF Off
      <4>3. start(i) = base + 2 * (i - 1)
        BY <1>9, <2>8
      <4> QED BY <4>1, <4>2, <4>3
    <3>6. Len(chunk) >= 1 /\ Len(chunk) >= 1 + chunk[1]
      BY <2>5, <3>1, <3>2, <3>4, <3>5
    <3> QED BY <2>3, <2>8, <3>6 DEF Decodes
  <2> QED BY <2>7, <2>8
<1> QED BY <1>10, <1>11

\* What the readers of payloads answer then.
LEMMA WholeColumn ==
  ASSUME NEW disk, NEW image, NEW w, NEW k, NEW payloads, NEW n, NEW end,
         ColumnFile(disk, image, w, k, payloads, n, end), w = Len(image)
  PROVE  /\ ReadPayloads(disk, end, n, k).ok = (n # 0)
         /\ MapFixedPayloads(disk, end, n, k).ok = (FixedStride(k) > 0)
<1> DEFINE c == disk.cells
           len == Len(c)
           s == FixedStride(k)
           fixed == [i \in 1..n |-> FixedChunk(disk, end, s, i)]
           free == FreeChunks(disk, end, n)
           read == ReadPayloads(disk, end, n, k)
           map == MapFixedPayloads(disk, end, n, k)
<1>1. /\ Torn(c, image, w) /\ c \in Seq(Nat) /\ w \in Nat /\ w <= len /\ end \in Nat \ {0} /\ n \in Nat
      /\ ColumnIn(image, k, payloads, n, end) /\ image \in Seq(Nat)
      /\ k \in {"unit", "narrow", "wide", "text"}
  BY DEF ColumnFile, Torn, Kinds
<1>2. len \in Nat
  BY <1>1, LenProperties
<1>3. Refused.ok = FALSE
  BY DEF Refused
<1>4. s \in Nat /\ (s > 0 <=> k \in {"narrow", "wide"})
  BY <1>1 DEF FixedStride
<1>5. end + 1 <= w
  <2>1. HeadOf(k, n) \in Nat /\ HeadOf(k, n) >= 2
    BY <1>1, <1>4 DEF HeadOf
  <2>2. Off(k, n + 1) \in Nat
    BY <1>1 DEF Off
  <2>3. w = end + (HeadOf(k, n) - 1) + Off(k, n + 1)
    BY <1>1 DEF ColumnIn
  <2> QED BY <1>1, <2>1, <2>2, <2>3
<1>6. c[end] = n /\ c[end + 1] = s /\ HeaderFits(disk, end)
  <2>1. end \in 1..w /\ end + 1 \in 1..w
    BY <1>1, <1>5
  <2>2. c[end] = image[end] /\ c[end + 1] = image[end + 1]
    BY <1>1, <2>1 DEF Torn
  <2>3. end + 1 <= len
    <3> HIDE DEF len
    <3> QED BY <1>1, <1>2, <1>5
  <2> QED BY <1>1, <2>2, <2>3 DEF ColumnIn, HeaderFits
<1>7. CASE s > 0
  <2>1. k \in {"narrow", "wide"}
    BY <1>4, <1>7
  <2>2. end + 1 + n * s <= len
    BY <2>1, WholeFixed
  <2>3. \A i \in 1..n : Decodes(k, FixedChunk(disk, end, s, i))
    BY <2>1, WholeFixed
  <2>4. \A i \in DOMAIN fixed : Decodes(k, fixed[i])
    BY <2>3
  <2>5. Column(k, fixed).ok = TRUE
    <3> HIDE DEF fixed
    <3> QED BY <2>4 DEF Column
  <2>6. ~(end + 1 + n * s > len)
    <3> DEFINE q == end + 1 + n * s
    <3>1. q \in Int
      BY <1>1, <1>4
    <3> HIDE DEF q, len
    <3>2. q <= len
      BY <2>2 DEF q, len
    <3>3. ~(q > len)
      BY <1>2, <3>1, <3>2
    <3> QED BY <3>3 DEF q
  <2>7. n # 0 => read = Column(k, fixed)
    BY <1>6, <1>7, <2>6 DEF ReadPayloads
  <2>8. n = 0 => read = Refused
    BY <1>6 DEF ReadPayloads
  <2>9. map.ok = TRUE
    BY <1>6, <1>7, <2>2 DEF MapFixedPayloads
  <2> HIDE DEF read, map, fixed
  <2>10. read.ok = (n # 0)
    BY <1>3, <2>5, <2>7, <2>8
  <2> QED BY <1>7, <2>9, <2>10 DEF read, map
<1>8. CASE ~(s > 0)
  <2>1. k \in {"unit", "text"} /\ s = 0
    BY <1>1, <1>4, <1>8
  <2>2. VariableTableValid(disk, end, n)
    BY <2>1, WholeFree
  <2>3. \A i \in 1..n : Decodes(k, free[i])
    BY <2>1, WholeFree
  <2>4. DOMAIN free = 1..n
    BY DEF FreeChunks
  <2>5. Column(k, free).ok = TRUE
    BY <2>3, <2>4 DEF Column
  <2>6. n # 0 => read = Column(k, free)
    BY <1>6, <1>8, <2>2 DEF ReadPayloads, FreeChunks
  <2>7. n = 0 => read = Refused
    BY <1>6 DEF ReadPayloads
  <2>8. map = Refused
    BY <1>8 DEF MapFixedPayloads
  <2> HIDE DEF read, map, free
  <2>9. read.ok = (n # 0)
    BY <1>3, <2>5, <2>6, <2>7
  <2>10. map.ok = FALSE
    BY <1>3, <2>8
  <2> HIDE DEF s
  <2>11. map.ok = (s > 0)
    <3>1. (s > 0) = FALSE
      BY <1>8
    <3> QED BY <2>10, <3>1
  <2>12. ReadPayloads(disk, end, n, k).ok = (n # 0)
    BY <2>9 DEF read
  <2>13. MapFixedPayloads(disk, end, n, k).ok = (FixedStride(k) > 0)
    BY <2>11 DEF map, s
  <2> QED BY <2>12, <2>13
<1> QED BY <1>7, <1>8

-----------------------------------------------------------------------------
(* What an insertion builds                                                *)

\* The enumeration of a set.
Enumerates(s, T, m) ==
  /\ s \in [1..m -> T]
  /\ \A i, j \in DOMAIN s : i < j => s[i] < s[j]

Enumerable(T) == \E s : Enumerates(s, T, Cardinality(T))

\* One element more, less than the others.
LEMMA EnumerateMore ==
  ASSUME NEW T, T \subseteq Nat, NEW m \in T, \A x \in T : m <= x, NEW k \in Nat,
         NEW t, Enumerates(t, T \ {m}, k)
  PROVE  \E s : Enumerates(s, T, k + 1)
<1> DEFINE s == [i \in 1..(k + 1) |-> IF i = 1 THEN m ELSE t[i - 1]]
<1>1. t \in [1..k -> T \ {m}] /\ DOMAIN t = 1..k /\ \A i, j \in DOMAIN t : i < j => t[i] < t[j]
  BY DEF Enumerates
<1>2. \A i \in 1..(k + 1) : i # 1 => i - 1 \in 1..k
  OBVIOUS
<1>3. s \in [1..(k + 1) -> T]
  BY <1>1, <1>2
<1>4. ASSUME NEW i \in 1..(k + 1), NEW j \in 1..(k + 1), i < j
      PROVE  s[i] < s[j]
  <2>1. j # 1 /\ j - 1 \in 1..k /\ s[j] = t[j - 1]
    BY <1>4
  <2>2. s[j] \in T \ {m}
    BY <1>1, <2>1
  <2>3. CASE i = 1
    <3>1. s[i] = m /\ m <= s[j] /\ s[j] # m /\ m \in Nat /\ s[j] \in Nat
      BY <2>2, <2>3
    <3> HIDE DEF s
    <3> QED BY <3>1
  <2>4. CASE i # 1
    <3>1. i - 1 \in 1..k /\ s[i] = t[i - 1] /\ i - 1 < j - 1
      BY <1>4, <2>4
    <3> QED BY <1>1, <2>1, <3>1
  <2> QED BY <2>3, <2>4
<1>5. DOMAIN s = 1..(k + 1)
  OBVIOUS
<1> HIDE DEF s
<1>6. Enumerates(s, T, k + 1)
  BY <1>3, <1>4, <1>5 DEF Enumerates
<1> QED BY <1>6

LEMMA EnumerationExists ==
  ASSUME NEW T, T \subseteq Nat, IsFiniteSet(T)
  PROVE  Enumerable(T)
<1> DEFINE Lacking(k) == \E A \in SUBSET Nat : IsFiniteSet(A) /\ Cardinality(A) = k /\ ~Enumerable(A)
           bad == {k \in Nat : Lacking(k)}
<1>1. SUFFICES bad = {}
  <2>1. Cardinality(T) \in Nat
    BY FS_CardinalityType
  <2>2. ~Enumerable(T) => Lacking(Cardinality(T))
    OBVIOUS
  <2> HIDE DEF Lacking
  <2> QED BY <2>1, <2>2
<1>2. SUFFICES ASSUME bad # {} PROVE FALSE
  OBVIOUS
<1>3. PICK k \in bad : \A y \in bad : k <= y
  <2>1. bad \subseteq Nat
    OBVIOUS
  <2> HIDE DEF bad
  <2> QED BY <1>2, <2>1, LeastExists
<1>4. k \in Nat
  OBVIOUS
<1>5. PICK A \in SUBSET Nat : IsFiniteSet(A) /\ Cardinality(A) = k /\ ~Enumerable(A)
  OBVIOUS
<1>6. CASE A = {}
  <2> DEFINE s == [i \in 1..0 |-> 0]
  <2>1. s \in [1..0 -> A] /\ DOMAIN s = 1..0
    OBVIOUS
  <2>2. \A i \in 1..0 : FALSE
    OBVIOUS
  <2> HIDE DEF s
  <2>3. Enumerates(s, A, 0)
    BY <2>1, <2>2 DEF Enumerates
  <2>4. Cardinality(A) = 0
    BY <1>6, FS_EmptySet
  <2> QED BY <1>5, <2>3, <2>4 DEF Enumerable
<1>7. CASE A # {}
  <2>1. PICK m \in A : \A x \in A : m <= x
    BY <1>5, <1>7, LeastExists
  <2> DEFINE B == A \ {m}
  <2>2. IsFiniteSet(B) /\ Cardinality(B) = k - 1
    BY <1>5, FS_RemoveElement
  <2>3. k - 1 \in Nat
    BY <2>2, FS_CardinalityType
  <2>4. ~(k <= k - 1)
    BY <1>4
  <2>5. ~Lacking(k - 1)
    <3> HIDE DEF Lacking
    <3> QED BY <1>3, <2>3, <2>4
  <2>6. B \in SUBSET Nat
    OBVIOUS
  <2> HIDE DEF B
  <2>7. Enumerable(B)
    BY <2>2, <2>5, <2>6
  <2>8. PICK t : Enumerates(t, B, k - 1)
    BY <2>2, <2>7 DEF Enumerable
  <2>9. \E s : Enumerates(s, A, (k - 1) + 1)
    BY <2>1, <2>3, <2>8, EnumerateMore DEF B
  <2>10. (k - 1) + 1 = k
    BY <1>4
  <2> QED BY <1>5, <2>9, <2>10 DEF Enumerable
<1> QED BY <1>6, <1>7

\* So the ids of a list, or those that survive a compaction, are there.
LEMMA AscendingIs ==
  ASSUME NEW n \in Nat, NEW T, T \subseteq 0..(n - 1)
  PROVE  /\ Ascending(T) \in Seq(Nat) /\ Len(Ascending(T)) = Cardinality(T)
         /\ \A j \in 1..Len(Ascending(T)) : Ascending(T)[j] \in T
         /\ Len(Ascending(T)) = 0 <=> T = {}
         /\ Len(Ascending(T)) <= n
<1> DEFINE s == Ascending(T)
           m == Cardinality(T)
           P(u) == \A i, j \in DOMAIN u : i < j => u[i] < u[j]
<1>1. IsFiniteSet(T) /\ T \subseteq Nat
  <2>1. n - 1 \in Int /\ 0 \in Int
    OBVIOUS
  <2>2. IsFiniteSet(0..(n - 1))
    BY <2>1, FS_Interval
  <2>3. IsFiniteSet(T)
    BY <2>2, FS_Subset
  <2> QED BY <2>3
<1>2. m \in Nat /\ (m = 0 <=> T = {})
  BY <1>1, FS_CardinalityType, FS_EmptySet
<1>3. PICK t : Enumerates(t, T, m)
  BY <1>1, EnumerationExists DEF Enumerable
<1>4. t \in [1..m -> T] /\ P(t)
  BY <1>3 DEF Enumerates
<1>5. s = CHOOSE u \in [1..m -> T] : P(u)
  BY DEF Ascending
<1> HIDE DEF P, m, s
<1>6. s \in [1..m -> T]
  BY <1>4, <1>5
<1>7. s \in [1..m -> Nat]
  BY <1>1, <1>6
<1>8. s \in Seq(Nat) /\ Len(s) = m
  BY <1>2, <1>7, SeqDef, LenProperties
<1>9. \A j \in 1..Len(s) : s[j] \in T
  BY <1>6, <1>8
<1>10. Len(s) = 0 <=> T = {}
  BY <1>2, <1>8
<1>11. /\ Ascending(T) \in Seq(Nat) /\ Len(Ascending(T)) = Cardinality(T)
  BY <1>8 DEF s, m
<1>12. \A j \in 1..Len(Ascending(T)) : Ascending(T)[j] \in T
  BY <1>9 DEF s
<1>13. Len(Ascending(T)) = 0 <=> T = {}
  BY <1>10 DEF s
<1>14. Cardinality(T) <= n
  <2> DEFINE U == 0..(n - 1)
  <2>1. IsFiniteSet(U) /\ Cardinality(U) = n
    <3>1. n - 1 \in Int /\ 0 \in Int
      OBVIOUS
    <3>2. IsFiniteSet(U) /\ Cardinality(U) = IF 0 > n - 1 THEN 0 ELSE n - 1 - 0 + 1
      BY <3>1, FS_Interval
    <3> HIDE DEF U
    <3> QED BY <3>2
  <2> HIDE DEF U
  <2>2. T \subseteq U
    BY DEF U
  <2> QED BY <2>1, <2>2, FS_Subset
<1> QED BY <1>11, <1>12, <1>13, <1>14

\* The node that is on the highest level, the first of them.
FirstOfHighest(levels, m, i) ==
  \A j \in 1..m : levels[j] < levels[i] \/ (levels[j] = levels[i] /\ i <= j)

LEMMA HighestExists ==
  ASSUME NEW levels \in Seq(Nat), Len(levels) # 0
  PROVE  \E i \in 1..Len(levels) : FirstOfHighest(levels, Len(levels), i)
<1> DEFINE n == Len(levels)
           Lacking(m) == ~(\E i \in 1..m : FirstOfHighest(levels, m, i))
           bad == {m \in 1..n : Lacking(m)}
<1>1. n \in Nat \ {0} /\ \A i \in 1..n : levels[i] \in Nat
  BY LenProperties, ElementOfSeq
<1>2. SUFFICES bad = {}
  <2>1. n \in 1..n
    BY <1>1
  <2> HIDE DEF n
  <2>2. ~Lacking(n)
    BY <2>1
  <2> QED BY <2>2 DEF n
<1>3. SUFFICES ASSUME bad # {} PROVE FALSE
  OBVIOUS
<1> HIDE DEF n
<1>4. PICK m \in bad : \A y \in bad : m <= y
  <2>1. bad \subseteq Nat
    BY <1>1
  <2> HIDE DEF bad
  <2> QED BY <1>3, <2>1, LeastExists
<1>5. m \in 1..n /\ Lacking(m)
  OBVIOUS
<1>6. CASE m = 1
  <2>1. 1 \in 1..m /\ \A j \in 1..m : j = 1
    BY <1>6
  <2>2. ASSUME NEW j \in 1..m PROVE levels[j] = levels[1] /\ 1 <= j
    <3>1. j = 1
      BY <2>1
    <3> QED BY <3>1
  <2>3. FirstOfHighest(levels, m, 1)
    BY <2>2 DEF FirstOfHighest
  <2> QED BY <1>5, <2>1, <2>3
<1>7. CASE m # 1
  <2>1. m - 1 \in 1..n /\ ~(m <= m - 1)
    BY <1>1, <1>5, <1>7
  <2>2. ~Lacking(m - 1)
    <3> HIDE DEF Lacking
    <3> QED BY <1>4, <2>1
  <2>3. PICK i \in 1..(m - 1) : FirstOfHighest(levels, m - 1, i)
    BY <2>2
  <2>4. /\ i \in 1..m /\ m \in 1..m /\ levels[i] \in Nat /\ levels[m] \in Nat
        /\ \A j \in 1..m : j = m \/ j \in 1..(m - 1)
        /\ \A j \in 1..(m - 1) : levels[j] \in Nat /\ j <= m
    BY <1>1, <1>5, <2>3
  <2>5. CASE levels[m] > levels[i]
    <3>1. ASSUME NEW j \in 1..(m - 1) PROVE levels[j] < levels[m]
      <4>1. levels[j] < levels[i] \/ levels[j] = levels[i]
        BY <2>3 DEF FirstOfHighest
      <4>2. levels[j] \in Nat /\ levels[i] \in Nat /\ levels[m] \in Nat
        BY <2>4
      <4> QED BY <2>5, <4>1, <4>2
    <3>2. FirstOfHighest(levels, m, m)
      BY <2>4, <3>1 DEF FirstOfHighest
    <3> QED BY <1>5, <2>4, <3>2
  <2>6. CASE ~(levels[m] > levels[i])
    <3>1. levels[m] < levels[i] \/ (levels[m] = levels[i] /\ i <= m)
      BY <2>4, <2>6
    <3>2. FirstOfHighest(levels, m, i)
      BY <2>3, <2>4, <3>1 DEF FirstOfHighest
    <3> QED BY <1>5, <2>4, <3>2
  <2> QED BY <2>5, <2>6
<1> QED BY <1>6, <1>7

LEMMA HighestIs ==
  ASSUME NEW levels \in Seq(Nat)
  PROVE  /\ Highest(levels) \in Seq(Nat)
         /\ Highest(levels) = <<>> <=> Len(levels) = 0
         /\ Highest(levels) # <<>> => \E i \in 1..Len(levels) : Highest(levels) = <<i - 1, levels[i]>>
<1>1. Len(levels) \in Nat /\ DOMAIN levels = 1..Len(levels) /\ \A i \in 1..Len(levels) : levels[i] \in Nat
  BY LenProperties, ElementOfSeq
<1>2. levels = <<>> <=> Len(levels) = 0
  BY EmptySeq
<1>3. CASE levels = <<>>
  <2>1. Highest(levels) = <<>>
    BY <1>3 DEF Highest
  <2> QED BY <1>2, <1>3, <2>1
<1>4. CASE levels # <<>>
  <2> DEFINE i == CHOOSE i \in DOMAIN levels :
                  \A j \in DOMAIN levels : levels[j] < levels[i] \/ (levels[j] = levels[i] /\ i <= j)
  <2>1. Highest(levels) = <<i - 1, levels[i]>>
    BY <1>4 DEF Highest
  <2>2. \E x \in DOMAIN levels :
          \A j \in DOMAIN levels : levels[j] < levels[x] \/ (levels[j] = levels[x] /\ x <= j)
    BY <1>1, <1>2, <1>4, HighestExists DEF FirstOfHighest
  <2>3. i \in 1..Len(levels)
    BY <1>1, <2>2
  <2> HIDE DEF i
  <2>4. i - 1 \in Nat /\ levels[i] \in Nat
    BY <1>1, <2>3
  <2>5. <<i - 1, levels[i]>> \in Seq(Nat) /\ <<i - 1, levels[i]>> # <<>>
    BY <2>4
  <2> QED BY <1>2, <1>4, <2>1, <2>3, <2>5
<1> QED BY <1>3, <1>4

LEMMA CompleteIs ==
  ASSUME NEW levels \in Seq(Nat), NEW n, n = Len(levels)
  PROVE  /\ Complete(levels) \in Lists /\ Len(Complete(levels)) = n
         /\ \A i \in 1..n : Len(Complete(levels)[i]) = levels[i] + 1
         /\ \A i \in 1..n : i + 1 \in 1..n => Len(Complete(levels)[i][1]) # 0
         /\ NeighboursFit(Complete(levels), n)
         /\ FirstListFits(Complete(levels), n)
<1> DEFINE c == Complete(levels)
           near(i, l) == {id \in 0..(n - 1) : id # i - 1 /\ levels[id + 1] >= l - 1}
           node(i) == [l \in 1..(levels[i] + 1) |-> Ascending(near(i, l))]
<1>1. n \in Nat /\ \A i \in 1..n : levels[i] \in Nat
  BY LenProperties, ElementOfSeq
<1>2. c = [i \in 1..n |-> node(i)]
  BY DEF Complete
<1>3. \A i \in 1..n : \A l \in 1..(levels[i] + 1) : near(i, l) \subseteq 0..(n - 1)
  OBVIOUS
<1>4. \A i \in 1..n : i + 1 \in 1..n => near(i, 1) # {}
  <2> SUFFICES ASSUME NEW i \in 1..n, i + 1 \in 1..n PROVE near(i, 1) # {}
    OBVIOUS
  <2>1. i \in 0..(n - 1) /\ i # i - 1 /\ levels[i + 1] >= 1 - 1
    BY <1>1
  <2> QED BY <2>1
<1> HIDE DEF near, c
<1>5. ASSUME NEW i \in 1..n, NEW l \in 1..(levels[i] + 1)
      PROVE  /\ node(i)[l] \in Seq(Nat)
             /\ \A j \in 1..Len(node(i)[l]) : node(i)[l][j] < n
             /\ near(i, l) # {} => Len(node(i)[l]) # 0
             /\ Len(node(i)[l]) <= n
  <2> DEFINE s == Ascending(near(i, l))
  <2>1. node(i)[l] = s
    OBVIOUS
  <2>2. near(i, l) \subseteq 0..(n - 1)
    BY <1>3
  <2>3. s \in Seq(Nat)
    BY <1>1, <2>2, AscendingIs
  <2>4. \A j \in 1..Len(s) : s[j] \in near(i, l)
    BY <1>1, <2>2, AscendingIs
  <2>5. Len(s) = 0 <=> near(i, l) = {}
    BY <1>1, <2>2, AscendingIs
  <2>6. Len(s) <= n
    BY <1>1, <2>2, AscendingIs
  <2> HIDE DEF s, node
  <2>7. \A j \in 1..Len(s) : s[j] < n
    <3>1. \A x \in near(i, l) : x < n
      BY <1>1, <2>2
    <3> QED BY <2>4, <3>1
  <2> QED BY <2>1, <2>3, <2>5, <2>6, <2>7
<1>6. ASSUME NEW i \in 1..n
      PROVE  node(i) \in Seq(Seq(Nat)) /\ Len(node(i)) = levels[i] + 1
  <2>1. levels[i] + 1 \in Nat
    BY <1>1
  <2>2. node(i) \in [1..(levels[i] + 1) -> Seq(Nat)]
    BY <1>5
  <2> HIDE DEF node
  <2>3. node(i) \in Seq(Seq(Nat))
    BY <2>1, <2>2, SeqDef
  <2>4. Len(node(i)) = levels[i] + 1
    <3>1. DOMAIN node(i) = 1..(levels[i] + 1)
      BY <2>2
    <3> QED BY <2>1, <2>3, <3>1, LenProperties
  <2> QED BY <2>3, <2>4
<1> HIDE DEF node
<1>7. c \in [1..n -> Seq(Seq(Nat))] /\ \A i \in 1..n : c[i] = node(i)
  BY <1>2, <1>6
<1>8. c \in Lists /\ Len(c) = n
  <2>1. c \in Lists
    BY <1>1, <1>7, SeqDef DEF Lists
  <2>2. DOMAIN c = 1..n
    BY <1>7
  <2>3. c \in Seq(Seq(Seq(Nat)))
    BY <2>1 DEF Lists
  <2> QED BY <1>1, <2>1, <2>2, <2>3, LenProperties
<1>9. \A i \in 1..n : Len(c[i]) = levels[i] + 1
  BY <1>6, <1>7
<1>10. ASSUME NEW i \in 1..n, i + 1 \in 1..n PROVE Len(c[i][1]) # 0
  <2>1. 1 \in 1..(levels[i] + 1)
    BY <1>1
  <2>2. near(i, 1) # {}
    BY <1>4, <1>10
  <2> QED BY <1>5, <1>7, <2>1, <2>2
<1>11. NeighboursFit(c, n)
  <2>1. ASSUME NEW i \in 1..n, NEW l \in 1..Len(c[i])
        PROVE  \A j \in 1..Len(c[i][l]) : c[i][l][j] < n
    <3>1. l \in 1..(levels[i] + 1)
      BY <1>9
    <3> QED BY <1>5, <1>7, <3>1
  <2>2. Len(c) = n
    BY <1>8
  <2> QED BY <2>1 DEF NeighboursFit
<1>12. FirstListFits(c, n)
  <2> SUFFICES ASSUME n # 0 PROVE Len(c[1][1]) <= 3 * n
    BY DEF FirstListFits
  <2> DEFINE k == Len(c[1][1])
  <2>1. 1 \in 1..n
    BY <1>1
  <2>2. 1 \in 1..(levels[1] + 1) /\ c[1] = node(1)
    BY <1>1, <1>7, <2>1
  <2>3. c[1][1] \in Seq(Nat) /\ k <= n
    BY <1>5, <2>1, <2>2
  <2>4. k \in Nat
    BY <2>3, LenProperties
  <2> HIDE DEF k
  <2>5. k <= 3 * n
    BY <1>1, <2>3, <2>4
  <2> QED BY <2>5 DEF k
<1> QED BY <1>8, <1>9, <1>10, <1>11, <1>12 DEF c

LEMMA BuiltSound ==
  ASSUME NEW vecs \in Seq(Nat), NEW levels \in Seq(Nat), Len(vecs) = Len(levels)
  PROVE  Sound(vecs, Complete(levels), Highest(levels))
<1> DEFINE lists == Complete(levels)
           ep == Highest(levels)
           n == Len(vecs)
<1>1. n \in Nat /\ \A i \in 1..n : levels[i] \in Nat
  BY LenProperties, ElementOfSeq
<1>2. /\ lists \in Lists /\ Len(lists) = n
      /\ \A i \in 1..n : Len(lists[i]) = levels[i] + 1
      /\ \A i \in 1..n : i + 1 \in 1..n => Len(lists[i][1]) # 0
      /\ NeighboursFit(lists, n) /\ FirstListFits(lists, n)
  BY CompleteIs
<1>3. \A i \in 1..n : Len(lists[i]) # 0
  BY <1>1, <1>2
<1>4. vecs = <<>> <=> n = 0
  BY EmptySeq
<1>5. ep = <<>> <=> vecs = <<>>
  BY <1>4, HighestIs
<1>6. EntryFits(lists, ep)
  <2> SUFFICES ASSUME ep # <<>>
               PROVE  ep[1] \in 0..(Len(lists) - 1) /\ ep[2] = Len(lists[ep[1] + 1]) - 1
    BY DEF EntryFits
  <2>1. PICK i \in 1..n : ep = <<i - 1, levels[i]>>
    BY HighestIs
  <2>2. ep[1] = i - 1 /\ ep[2] = levels[i] /\ ep[1] + 1 = i
    BY <1>1, <2>1
  <2> HIDE DEF ep, lists, n
  <2>3. Len(lists[i]) - 1 = levels[i]
    <3>1. Len(lists[i]) = levels[i] + 1
      BY <1>2
    <3>2. levels[i] \in Nat
      BY <1>1 DEF n
    <3> QED BY <3>1, <3>2
  <2>4. ep[1] \in 0..(n - 1) /\ Len(lists) = n
    BY <1>1, <1>2, <2>2
  <2>5. ep[2] = Len(lists[ep[1] + 1]) - 1
    BY <2>2, <2>3
  <2> QED BY <2>4, <2>5 DEF ep, lists
<1> HIDE DEF lists, ep
<1>7. Sound(vecs, lists, ep)
  BY <1>2, <1>3, <1>5, <1>6 DEF Sound
<1> QED BY <1>7 DEF lists, ep

LEMMA LevelsIs ==
  ASSUME NEW lists \in Lists, \A i \in 1..Len(lists) : Len(lists[i]) # 0
  PROVE  /\ Levels(lists) \in Seq(Nat) /\ Len(Levels(lists)) = Len(lists)
         /\ \A i \in 1..Len(lists) : Levels(lists)[i] = Len(lists[i]) - 1
<1> DEFINE n == Len(lists)
           v == Levels(lists)
<1>1. n \in Nat /\ DOMAIN lists = 1..n /\ \A i \in 1..n : lists[i] \in Seq(Seq(Nat))
  BY LenProperties, ElementOfSeq DEF Lists
<1>2. \A i \in 1..n : Len(lists[i]) - 1 \in Nat
  <2>1. \A i \in 1..n : Len(lists[i]) \in Nat
    BY <1>1, LenProperties
  <2> QED BY <2>1
<1>3. v = [i \in 1..n |-> Len(lists[i]) - 1]
  BY <1>1 DEF Levels
<1> HIDE DEF v, n
<1>4. v \in [1..n -> Nat]
  BY <1>2, <1>3
<1>5. v \in Seq(Nat) /\ Len(v) = n
  BY <1>1, <1>4, SeqDef, LenProperties
<1> QED BY <1>3, <1>5 DEF v, n

-----------------------------------------------------------------------------
(* The inductive invariant                                                 *)

Words == Seq(Nat)
Headers == [magic : BOOLEAN, version : Nat, n : Nat, ep : Words, metric : Nat]
Files == [header : Headers, cells : Words]
Hits == [id : Nat, read : BOOLEAN, value : Nat]
Answers == {Refused} \cup [ok : {TRUE}, hits : SUBSET Hits]

Indexes ==
  [mode : {"closed", "owned", "mapped", "fixed"}, metric : Metrics \cup {0}, vecs : Words,
   lists : Lists, ep : Words, payloads : Words, dead : SUBSET Nat]
Savings == [on : BOOLEAN, image : Files, at : Nat]
Readers ==
  [on : BOOLEAN, metric : Nat, vecs : Words, lists : Lists, ep : Words, payloads : {<<>>},
   scored : SUBSET Hits, error : BOOLEAN, done : BOOLEAN, answer : Answers, same : BOOLEAN]
Histories ==
  [by : {"none", "memory", "pread", "mapping"}, vecs : Words, lists : Lists, ep : Words,
   payloads : Words, metric : Nat, version : Nat, grown : BOOLEAN, whole : BOOLEAN]

ShapeOK ==
  /\ kind \in Kinds /\ ix \in Indexes /\ file \in Files /\ saving \in Savings
  /\ pread \in Readers /\ saved \in Histories
  /\ inserts \in 0..MaxInserts /\ saves \in 0..MaxSaves

\* The index in memory is sound, with a value for every vector.
IndexInv ==
  /\ Sound(ix.vecs, ix.lists, ix.ep)
  /\ ColumnFits(kind, ix.vecs, ix.payloads)
  /\ ix.dead \subseteq Ids

\* So is the one that was saved, except that the graph lent by a positional
\* reader has no vectors to write.
AsStored(by, content) == [content EXCEPT !.vecs = StoreBytes(by, content.vecs)]
SavedIndex == AsStored(saved.by, saved)
SavedImage == Written(saved.by, saved, kind, saved.version)

SavedInv ==
  /\ Sound(saved.vecs, saved.lists, saved.ep)
  /\ ColumnFits(kind, saved.vecs, saved.payloads)
  /\ saved.grown => Preallocates(kind)
  /\ saved.by = "pread" => kind = "none"

\* The file has the first w cells of the image of the last save, and nothing
\* of another one; a save in progress has written w cells.
FileAt(w) ==
  /\ Torn(file.cells, SavedImage.cells, w)
  /\ ~saved.grown => Len(file.cells) = w
  /\ file.header \in {NoHeader, SavedImage.header}
  /\ saved.whole => w = Len(SavedImage.cells) /\ file.header = SavedImage.header
  /\ saved.whole \/ saving.on => saved.version \in {VERSION, COMPACT_VERSION}
  /\ saving.on =>
       /\ saving.image = SavedImage /\ ~saved.whole
       /\ saving.at = 0 => w = 0
       /\ saving.at # 0 => w = saving.at - 1 /\ file.header = SavedImage.header

FileInv == \E w \in Nat : FileAt(w)

\* The reader's graph is sound; what it scored is a vector it knows, read
\* from the file if there was no error; and the vectors of a file that was
\* not saved over since are still there.
HitOK(hit) ==
  /\ hit.id \in 0..(Len(pread.vecs) - 1)
  /\ hit.read \/ pread.error
  /\ hit.read /\ pread.same => hit.value = pread.vecs[hit.id + 1]

ReaderInv ==
  /\ Sound(pread.vecs, pread.lists, pread.ep)
  /\ \A hit \in pread.scored : HitOK(hit)
  /\ pread.answer.ok => pread.done /\ ~pread.error /\ pread.answer.hits = pread.scored
  /\ pread.same => \A i \in 1..Len(pread.vecs) :
       i <= Len(file.cells) /\ file.cells[i] = pread.vecs[i] /\ (saving.on => i < saving.at)

Inv == ShapeOK /\ IndexInv /\ SavedInv /\ FileInv /\ ReaderInv

-----------------------------------------------------------------------------
(* What the invariant says of a file that a reader accepts                 *)

LEMMA SavedFields ==
  ASSUME ShapeOK
  PROVE  /\ SavedIndex.vecs = StoreBytes(saved.by, saved.vecs) /\ SavedIndex.lists = saved.lists
         /\ SavedIndex.ep = saved.ep /\ SavedIndex.payloads = saved.payloads
  BY DEF ShapeOK, Histories, SavedIndex, AsStored

\* What is written is an image whose header counts the vectors that the store
\* reports.
WrittenAs(written, image, content, version) ==
  /\ written.cells = image.cells
  /\ written.header.magic /\ written.header.version = version
  /\ written.header.n = Len(content.vecs)
  /\ written.header.ep = image.header.ep /\ written.header.metric = content.metric
  /\ image \in Files /\ Len(content.vecs) \in Nat => written \in Files

LEMMA WrittenIs ==
  ASSUME NEW by, NEW content, NEW k, NEW version
  PROVE  WrittenAs(Written(by, content, k, version),
                   Image(AsStored(by, content), k, content.metric, version), content, version)
<1> DEFINE image == Image(AsStored(by, content), k, content.metric, version)
           written == Written(by, content, k, version)
<1>1. written = [image EXCEPT !.header.n = Len(content.vecs)]
  BY DEF Written, AsStored
<1>2. /\ image.header.magic /\ image.header.version = version /\ image.header.metric = content.metric
      /\ DOMAIN image = {"header", "cells"} /\ DOMAIN image.header = {"magic", "version", "n", "ep", "metric"}
  BY DEF Image
<1> HIDE DEF image, written
<1>3. written.cells = image.cells /\ written.header = [image.header EXCEPT !.n = Len(content.vecs)]
  BY <1>1, <1>2
<1>4. /\ written.header.magic /\ written.header.version = version
      /\ written.header.n = Len(content.vecs)
      /\ written.header.ep = image.header.ep /\ written.header.metric = content.metric
  BY <1>2, <1>3
<1>5. image \in Files /\ Len(content.vecs) \in Nat => written \in Files
  BY <1>1 DEF Files, Headers
<1>6. WrittenAs(written, image, content, version)
  BY <1>3, <1>4, <1>5 DEF WrittenAs
<1> QED BY <1>6 DEF image, written

\* It depends on nothing else of the index.
LEMMA SameWritten ==
  ASSUME NEW by, NEW a, NEW b, NEW k, NEW version, a.vecs = b.vecs, a.metric = b.metric,
         AsStored(by, a).vecs = AsStored(by, b).vecs, AsStored(by, a).lists = AsStored(by, b).lists,
         AsStored(by, a).ep = AsStored(by, b).ep, AsStored(by, a).payloads = AsStored(by, b).payloads
  PROVE  Written(by, a, k, version) = Written(by, b, k, version)
<1> DEFINE c == AsStored(by, a)
           d == AsStored(by, b)
<1>1. GraphCells(c) = GraphCells(d)
  BY DEF GraphCells
<1>2. Image(c, k, a.metric, version) = Image(d, k, b.metric, version)
  BY <1>1 DEF Image
<1> QED BY <1>2 DEF Written, AsStored

\* The header and the cells of the last save, whatever was saved.
LEMMA SavedImageIs ==
  ASSUME ShapeOK
  PROVE  /\ SavedImage.cells = Image(SavedIndex, kind, saved.metric, saved.version).cells
         /\ SavedImage.header.magic /\ SavedImage.header.version = saved.version
         /\ SavedImage.header.n = Len(saved.vecs)
         /\ SavedImage.header.ep = saved.ep /\ SavedImage.header.metric = saved.metric
<1> DEFINE image == Image(SavedIndex, kind, saved.metric, saved.version)
<1>1. WrittenAs(SavedImage, image, saved, saved.version)
  BY WrittenIs DEF SavedImage, SavedIndex
<1>2. image.header.ep = saved.ep
  <2>1. SavedIndex.ep = saved.ep
    BY SavedFields
  <2> QED BY <2>1 DEF Image
<1> HIDE DEF image
<1>3. /\ SavedImage.cells = image.cells
      /\ SavedImage.header.magic /\ SavedImage.header.version = saved.version
      /\ SavedImage.header.n = Len(saved.vecs)
      /\ SavedImage.header.ep = saved.ep /\ SavedImage.header.metric = saved.metric
  BY <1>1, <1>2 DEF WrittenAs
<1> QED BY <1>3 DEF image

\* Without vectors the tables move up, and the count of the first list is where
\* the readers look for the place of the lists.
LEMMA LentCell ==
  ASSUME NEW c, c.vecs = <<>>, c.lists \in Lists, c.payloads \in Seq(Nat),
         NEW n \in Nat \ {0}, n = Len(c.lists), \A i \in 1..n : Len(c.lists[i]) \in Nat \ {0},
         NEW k \in Kinds, NEW metric, NEW version
  PROVE  Image(c, k, metric, version).cells[2 * n + 1] = Len(c.lists[1][1])
<1> DEFINE lists == c.lists
           levels == Levels(lists)
           offsets == ConnOffsets(lists)
           data == ConnData(lists)
           a == <<>> \o levels
           b == a \o offsets
           graph == b \o data
           column == PayloadCells(k, c.payloads, Len(graph) + 1)
           image == graph \o column
           count == Len(lists[1][1])
<1>1. levels \in Seq(Nat) /\ Len(levels) = n
  <2>1. \A i \in 1..Len(lists) : Len(lists[i]) # 0
    OBVIOUS
  <2> QED BY <2>1, LevelsIs
<1>2. /\ data \in Seq(Nat)
      /\ offsets \in Seq(Nat) /\ Len(offsets) = n
      /\ \E S : PlacesOK(lists, n, S, 3 * n + 1 + Len(data)) /\ DataLaid(data, lists, n, S)
  BY NodePlaces
<1>3. Len(data) \in Nat /\ 1 \in 1..Len(data) /\ data[1] = count
  <2>1. PICK S : PlacesOK(lists, n, S, 3 * n + 1 + Len(data)) /\ DataLaid(data, lists, n, S)
    BY <1>2
  <2>2. 1 \in 1..n /\ 1 \in 1..Len(lists[1])
    <3>1. 1 \in 1..n
      OBVIOUS
    <3>2. Len(lists[1]) \in Nat \ {0}
      BY <3>1
    <3> QED BY <3>1, <3>2
  <2>3. S[1][1] = 3 * n + 1
    BY <2>1 DEF PlacesOK
  <2> DEFINE p == S[1][1] - 3 * n
  <2>4. p \in 1..Len(data) /\ data[p] = count
    BY <2>1, <2>2 DEF DataLaid
  <2>5. p = 1
    BY <2>3
  <2> HIDE DEF p, data, count
  <2> QED BY <1>2, <2>4, <2>5, LenProperties
<1> HIDE DEF levels, offsets, data, count
<1>4. a \in Seq(Nat) /\ Len(a) = n
  <2>1. <<>> \in Seq(Nat) /\ Len(<<>>) = 0
    OBVIOUS
  <2>2. a \in Seq(Nat) /\ Len(a) = Len(<<>>) + Len(levels)
    BY <1>1, <2>1, ConcatProperties
  <2> HIDE DEF a
  <2> QED BY <1>1, <2>1, <2>2
<1> HIDE DEF a
<1>5. b \in Seq(Nat) /\ Len(b) = 2 * n
  <2>1. b \in Seq(Nat) /\ Len(b) = Len(a) + Len(offsets)
    BY <1>2, <1>4, ConcatProperties
  <2> HIDE DEF b
  <2> QED BY <1>2, <1>4, <2>1
<1> HIDE DEF b
<1>6. graph \in Seq(Nat) /\ JoinOf(graph, b, data)
  BY <1>2, <1>5, Joined
<1> HIDE DEF graph
<1>7. graph[2 * n + 1] = count /\ 2 * n + 1 \in 1..Len(graph)
  <2>1. Len(graph) = Len(b) + Len(data) /\ graph[Len(b) + 1] = data[1]
    BY <1>3, <1>6 DEF JoinOf
  <2>2. 1 <= Len(data)
    BY <1>3
  <2> QED BY <1>3, <1>5, <2>1, <2>2
<1>8. column \in Seq(Nat)
  <2>1. Len(graph) + 1 \in Nat /\ Len(c.payloads) \in Nat
    BY <1>6, LenProperties
  <2> QED BY <2>1, PayloadCellsLaid
<1> HIDE DEF column
<1>9. JoinOf(image, graph, column)
  BY <1>6, <1>8, Joined
<1>10. image[2 * n + 1] = count
  BY <1>7, <1>9 DEF JoinOf
<1>11. GraphCells(c) = graph
  BY DEF GraphCells, graph, b, a, data, offsets, levels
<1>12. Image(c, k, metric, version).cells = image
  BY <1>11 DEF Image, column
<1> QED BY <1>10, <1>12 DEF count

\* So no reader accepts a graph that a positional reader lent, if it has a node.
LEMMA LentRefused ==
  ASSUME ShapeOK, SavedInv, NEW w \in Nat, FileAt(w), file.header = SavedImage.header, ~Resident
  PROVE  ~GraphValid(file)
<1> DEFINE n == Len(saved.vecs)
           image == SavedImage.cells
           cells == file.cells
           len == Len(file.cells)
           p == 2 * n + 1
           count == Len(saved.lists[1][1])
<1> SUFFICES ASSUME GraphValid(file) PROVE FALSE
  OBVIOUS
<1>1. saved.by = "pread" /\ saved.vecs # <<>>
  BY DEF Resident
<1>2. Sound(saved.vecs, saved.lists, saved.ep) /\ saved.payloads \in Seq(Nat) /\ kind \in Kinds
  BY DEF SavedInv, ColumnFits
<1>3. n \in Nat \ {0} /\ saved.lists \in Lists /\ Len(saved.lists) = n
      /\ \A i \in 1..n : Len(saved.lists[i]) \in Nat \ {0}
  <2>1. n \in Nat /\ saved.vecs \in Seq(Nat) /\ (n = 0 => saved.vecs = <<>>)
    BY <1>2, LenProperties, EmptySeq DEF Sound
  <2> QED BY <1>1, <1>2, <2>1, SoundSizes DEF Sound
<1>4. image[p] = count
  <2> DEFINE c == SavedIndex
  <2>1. c.vecs = <<>> /\ c.lists = saved.lists /\ c.payloads = saved.payloads
    BY <1>1, SavedFields DEF StoreBytes
  <2>2. image = Image(c, kind, saved.metric, saved.version).cells
    BY SavedImageIs
  <2> HIDE DEF c, image, n
  <2>3. Image(c, kind, saved.metric, saved.version).cells[2 * n + 1] = Len(c.lists[1][1])
    BY <1>2, <1>3, <2>1, LentCell
  <2> QED BY <2>1, <2>2, <2>3
<1>5. file.header.n = n /\ Torn(cells, image, w)
  BY SavedImageIs DEF FileAt
<1>6. cells \in Seq(Nat) /\ len \in Nat
  BY <1>5, LenProperties DEF Torn
<1>7. 3 * n <= len /\ 1 \in 1..n /\ cells[2 * n + 1] = ListPositions(file)[FirstList(file)[1]]
  <2>1. 1 \in 1..n
    BY <1>3
  <2> QED BY <1>5, <2>1 DEF GraphValid
<1>8. 2 * n <= len /\ p <= len /\ p \in Nat \ {0}
  <2> HIDE DEF len, n
  <2> QED BY <1>3, <1>6, <1>7
<1>9. FirstsOK(FirstList(file), file, n)
  BY <1>3, <1>5, <1>6, <1>8, FirstListIs
<1>10. PositionsOK(ListPositions(file), file, n, FirstList(file)[n + 1])
  BY <1>3, <1>5, <1>6, <1>8, PositionsIs
<1>11. cells[p] = 3 * n + 1
  BY <1>7, <1>9, <1>10 DEF FirstsOK, PositionsOK
<1>12. cells[p] \in {count, 0}
  <2>1. CellAt(cells, p) = cells[p]
    BY <1>8 DEF CellAt
  <2>2. p <= w \/ p > w
    BY <1>8
  <2> HIDE DEF p, cells, image, count
  <2> QED BY <1>4, <1>5, <1>8, <2>1, <2>2, CellOf
<1>13. count <= 3 * n /\ count \in Nat
  <2>1. count <= 3 * n
    BY <1>2, <1>3 DEF Sound, FirstListFits
  <2>2. 1 \in 1..n /\ 1 \in 1..Len(saved.lists[1])
    BY <1>3, <1>7
  <2>3. saved.lists[1][1] \in Seq(Nat)
    BY <1>2, <2>2, SoundSizes
  <2> QED BY <2>1, <2>3, LenProperties
<1> HIDE DEF n, count
<1> QED BY <1>3, <1>11, <1>12, <1>13

\* The file has the header of the last save and its cells up to w.
Backed(w, S, end) ==
  /\ FileAt(w) /\ file.header = SavedImage.header /\ w \in Nat
  /\ file.header.ep = saved.ep /\ file.header.metric = saved.metric /\ file.header.version = saved.version
  /\ FileOf(file, SavedImage.cells, w, saved.vecs, saved.lists, Len(saved.vecs), S, end)
  /\ kind # "none" => ColumnFile(file, SavedImage.cells, w, kind, saved.payloads, Len(saved.vecs), end)
  /\ end + 1 <= Len(SavedImage.cells) /\ SavedImage.cells[end + 1] = FixedStride(kind)
  /\ kind = "none" => SavedImage.cells[end] = 0
  /\ Preallocates(kind) \/ Len(file.cells) = w

LEMMA HeaderBacked ==
  ASSUME ShapeOK, SavedInv, NEW w \in Nat, FileAt(w), file.header = SavedImage.header, Resident
  PROVE  \E S, end : Backed(w, S, end)
<1> DEFINE c == SavedIndex
           image == SavedImage.cells
           n == Len(saved.vecs)
<1>1. /\ file.header.n = n /\ file.header.ep = saved.ep
      /\ file.header.metric = saved.metric /\ file.header.version = saved.version
  BY SavedImageIs
<1>2. c.lists = saved.lists /\ c.ep = saved.ep /\ c.payloads = saved.payloads
  BY SavedFields
<1>3. c.vecs = saved.vecs
  <2>1. c.vecs = StoreBytes(saved.by, saved.vecs)
    BY SavedFields
  <2> QED BY <2>1 DEF Resident, StoreBytes
<1>4. Sound(saved.vecs, saved.lists, saved.ep) /\ ColumnFits(kind, saved.vecs, saved.payloads)
  BY DEF SavedInv
<1>5. Sound(c.vecs, c.lists, c.ep) /\ ColumnFits(kind, c.vecs, c.payloads) /\ n = Len(c.vecs) /\ kind \in Kinds
  BY <1>2, <1>3, <1>4 DEF ShapeOK
<1> HIDE DEF c, n
<1>6. PICK S, end : ImageIs(Image(c, kind, saved.metric, saved.version).cells, kind, c, n, S, end)
  BY <1>5, ImageLaid
<1>7. ImageIs(image, kind, c, n, S, end)
  BY <1>6, SavedImageIs DEF c
<1>8. /\ end \in Nat \ {0} /\ end + 1 <= Len(image)
      /\ PlacesOK(saved.lists, n, S, end) /\ TablesOK(image, saved.vecs, saved.lists, n, S)
      /\ CellsOK(image, saved.lists, n, S)
      /\ kind # "none" => ColumnIn(image, kind, saved.payloads, n, end)
      /\ image[end + 1] = FixedStride(kind) /\ (kind = "none" => image[end] = 0)
  BY <1>2, <1>3, <1>7 DEF ImageIs
<1>9. n \in Nat /\ saved.vecs \in Seq(Nat) /\ saved.lists \in Lists /\ Len(saved.lists) = n
      /\ \A i \in 1..n : Len(saved.lists[i]) \in Nat \ {0}
  BY <1>4, SoundSizes DEF Sound, n
<1>10. Torn(file.cells, image, w) /\ file.header.n = n
  BY <1>1 DEF FileAt
<1>11. end <= Len(image) + 1
  <2>1. Len(image) \in Nat
    BY <1>10, LenProperties DEF Torn
  <2> HIDE DEF image
  <2> QED BY <1>8, <2>1
<1>12. FileOf(file, image, w, saved.vecs, saved.lists, n, S, end)
  BY <1>8, <1>9, <1>10, <1>11 DEF FileOf, n
<1>13. Preallocates(kind) \/ Len(file.cells) = w
  BY DEF SavedInv, FileAt
<1>14. kind = "text" => Len(file.cells) = w
  BY <1>13 DEF Preallocates, HasFixedStride
<1>15. kind # "none" => ColumnFile(file, image, w, kind, saved.payloads, n, end)
  <2> SUFFICES ASSUME kind # "none" PROVE ColumnFile(file, image, w, kind, saved.payloads, n, end)
    OBVIOUS
  <2>1. saved.payloads \in Seq(Nat) /\ Len(saved.payloads) = n
    BY <1>4 DEF ColumnFits, n
  <2>2. kind = "unit" => \A i \in 1..n : saved.payloads[i] = 0
    BY <1>4 DEF ColumnFits, Stored, n
  <2>3. kind \in Kinds \ {"none"}
    BY <1>5
  <2> QED BY <1>8, <1>9, <1>10, <1>14, <2>1, <2>2, <2>3 DEF ColumnFile
<1>16. Backed(w, S, end)
  BY <1>1, <1>8, <1>12, <1>13, <1>15 DEF Backed, n
<1> QED BY <1>16

LEMMA AcceptedFile ==
  ASSUME ShapeOK, SavedInv, FileInv, HeaderValid(file), GraphValid(file)
  PROVE  Resident /\ \E w, S, end : Backed(w, S, end)
<1>1. PICK w \in Nat : FileAt(w)
  BY DEF FileInv
<1>2. file.header # NoHeader
  BY DEF HeaderValid, NoHeader
<1>3. file.header = SavedImage.header
  BY <1>1, <1>2 DEF FileAt
<1>4. Resident
  BY <1>1, <1>3, LentRefused
<1> QED BY <1>1, <1>3, <1>4, HeaderBacked

\* What the readers return comes from the graph of the file
Valid == HeaderValid(file) /\ GraphValid(file)

LEMMA GraphReader ==
  ASSUME NEW opener
  PROVE  /\ ReadMapped(file, opener).ok => Valid /\ ReadMapped(file, opener) = Graph(file)
         /\ ReadOwned(file, opener).ok => Valid /\ ReadOwned(file, opener) = Graph(file)
<1>1. ~Refused.ok
  BY DEF Refused
<1>2. ReadMapped(file, opener).ok => Valid /\ ReadMapped(file, opener) = Graph(file)
  BY <1>1 DEF ReadMapped, Valid
<1>3. ReadOwned(file, opener).ok => Valid /\ ReadOwned(file, opener) = Graph(file)
  BY <1>1, <1>2 DEF ReadOwned
<1> QED BY <1>2, <1>3

\* and from a column behind it.
ColumnRead(k) == ReadPayloads(file, Graph(file).payloadPos, Len(Graph(file).vecs), k)
ColumnMapped(k) == MapFixedPayloads(file, Graph(file).payloadPos, Len(Graph(file).vecs), k)

WithA(column, r) ==
  /\ Valid /\ column.ok
  /\ r.vecs = Graph(file).vecs /\ r.lists = Graph(file).lists /\ r.ep = Graph(file).ep
  /\ r.payloads = column.payloads

LEMMA WithColumnIs ==
  ASSUME NEW graph, NEW column, WithColumn(graph, column).ok
  PROVE  /\ column.ok
         /\ WithColumn(graph, column).vecs = graph.vecs /\ WithColumn(graph, column).lists = graph.lists
         /\ WithColumn(graph, column).ep = graph.ep
         /\ WithColumn(graph, column).payloads = column.payloads
  BY DEF WithColumn, Refused

LEMMA ColumnReader ==
  ASSUME NEW opener, NEW k
  PROVE  /\ LoadMmapWithPayload(file, opener, k).ok =>
              WithA(ColumnRead(k), LoadMmapWithPayload(file, opener, k))
         /\ LoadWithPayload(file, opener, k).ok =>
              WithA(ColumnRead(k), LoadWithPayload(file, opener, k))
         /\ LoadMmapWithFixedPayload(file, opener, k).ok =>
              WithA(ColumnMapped(k), LoadMmapWithFixedPayload(file, opener, k))
<1>1. ~Refused.ok
  BY DEF Refused
<1>2. ASSUME LoadMmapWithPayload(file, opener, k).ok
      PROVE  WithA(ColumnRead(k), LoadMmapWithPayload(file, opener, k))
  <2> DEFINE graph == ReadMapped(file, opener)
             r == LoadMmapWithPayload(file, opener, k)
  <2>1. graph.ok /\ r = WithColumn(graph, ReadPayloads(file, graph.payloadPos, Len(graph.vecs), k))
    BY <1>1, <1>2 DEF LoadMmapWithPayload, WithPayloads
  <2>2. Valid /\ graph = Graph(file)
    BY <2>1, GraphReader
  <2> HIDE DEF graph, r
  <2>3. r = WithColumn(Graph(file), ColumnRead(k))
    BY <2>1, <2>2 DEF ColumnRead
  <2>4. WithColumn(Graph(file), ColumnRead(k)).ok
    BY <1>2, <2>3 DEF r
  <2>5. WithA(ColumnRead(k), r)
    BY <2>2, <2>3, <2>4, WithColumnIs DEF WithA
  <2> QED BY <2>5 DEF r
<1>3. ASSUME LoadWithPayload(file, opener, k).ok
      PROVE  WithA(ColumnRead(k), LoadWithPayload(file, opener, k))
  <2> DEFINE graph == ReadOwned(file, opener)
             r == LoadWithPayload(file, opener, k)
  <2>1. graph.ok /\ r = WithColumn(graph, ReadPayloads(file, graph.payloadPos, Len(graph.vecs), k))
    BY <1>1, <1>3 DEF LoadWithPayload, WithPayloads
  <2>2. Valid /\ graph = Graph(file)
    BY <2>1, GraphReader
  <2> HIDE DEF graph, r
  <2>3. r = WithColumn(Graph(file), ColumnRead(k))
    BY <2>1, <2>2 DEF ColumnRead
  <2>4. WithColumn(Graph(file), ColumnRead(k)).ok
    BY <1>3, <2>3 DEF r
  <2>5. WithA(ColumnRead(k), r)
    BY <2>2, <2>3, <2>4, WithColumnIs DEF WithA
  <2> QED BY <2>5 DEF r
<1>4. ASSUME LoadMmapWithFixedPayload(file, opener, k).ok
      PROVE  WithA(ColumnMapped(k), LoadMmapWithFixedPayload(file, opener, k))
  <2> DEFINE graph == ReadMapped(file, opener)
             r == LoadMmapWithFixedPayload(file, opener, k)
  <2>1. graph.ok /\ r = WithColumn(graph, MapFixedPayloads(file, graph.payloadPos, Len(graph.vecs), k))
    BY <1>1, <1>4 DEF LoadMmapWithFixedPayload, WithMappedPayloads
  <2>2. Valid /\ graph = Graph(file)
    BY <2>1, GraphReader
  <2> HIDE DEF graph, r
  <2>3. r = WithColumn(Graph(file), ColumnMapped(k))
    BY <2>1, <2>2 DEF ColumnMapped
  <2>4. WithColumn(Graph(file), ColumnMapped(k)).ok
    BY <1>4, <2>3 DEF r
  <2>5. WithA(ColumnMapped(k), r)
    BY <2>2, <2>3, <2>4, WithColumnIs DEF WithA
  <2> QED BY <2>5 DEF r
<1> QED BY <1>2, <1>3, <1>4

\* Nothing of the image reads as zero.
Exact == ~saved.grown \/ saved.whole

LEMMA ExactIs ==
  ASSUME NEW w, FileAt(w), Exact
  PROVE  NoneMissing(file, SavedImage.cells, w)
  BY DEF FileAt, Exact, NoneMissing

\* The graph of a file that is accepted, against the one that was saved.
GraphAsSaved(g) ==
  /\ SameVectors(g) /\ Sound(g.vecs, g.lists, g.ep)
  /\ \A i \in DOMAIN g.lists : i <= Len(g.lists) - 2 => g.lists[i] = saved.lists[i]
  /\ Exact => g.lists = saved.lists

LEMMA GraphIsAsSaved ==
  ASSUME ShapeOK, SavedInv, NEW w, NEW S, NEW end, Backed(w, S, end), GraphValid(file)
  PROVE  /\ ReadsAs(Graph(file), file, w, saved.vecs, saved.lists, Len(saved.vecs), end)
         /\ GraphAsSaved(Graph(file))
<1> DEFINE g == Graph(file)
           n == Len(saved.vecs)
           len == Len(file.cells)
<1>1. FileOf(file, SavedImage.cells, w, saved.vecs, saved.lists, n, S, end)
  BY DEF Backed
<1>2. ReadsAs(g, file, w, saved.vecs, saved.lists, n, end)
  BY <1>1, GraphRead
<1>3. Sound(saved.vecs, saved.lists, saved.ep)
  BY DEF SavedInv
<1>4. n \in Nat /\ saved.vecs \in Seq(Nat) /\ saved.lists \in Lists /\ Len(saved.lists) = n
      /\ \A i \in 1..n : Len(saved.lists[i]) \in Nat \ {0}
  BY <1>3, SoundSizes DEF Sound
<1>5. g.ep = saved.ep /\ g.vecs = saved.vecs /\ g.lists \in Lists /\ Len(g.lists) = n
  BY <1>2 DEF ReadsAs, Backed
<1>6. \A i \in 1..n : Len(g.lists[i]) = Len(saved.lists[i])
  BY <1>2 DEF ReadsAs
<1>7. DOMAIN g.lists = 1..n /\ DOMAIN saved.lists = 1..n
  BY <1>4, <1>5, LenProperties DEF Lists
<1> HIDE DEF g, n
<1>8. Levels(g.lists) = Levels(saved.lists)
  BY <1>6, <1>7 DEF Levels
<1>9. SameVectors(g)
  BY <1>5, <1>8 DEF SameVectors
<1>10. \A i \in DOMAIN g.lists : i <= Len(g.lists) - 2 => g.lists[i] = saved.lists[i]
  <2> SUFFICES ASSUME NEW i \in 1..n, i <= n - 2 PROVE g.lists[i] = saved.lists[i]
    BY <1>5, <1>7
  <2>1. i + 2 \in 1..n /\ i + 1 \in 1..n /\ (i + 1) + 1 \in 1..n
    BY <1>4
  <2>2. Len(saved.lists[i + 1][1]) # 0
    BY <1>3, <2>1 DEF Sound, n
  <2> QED BY <1>2, <2>1, <2>2 DEF ReadsAs
<1>11. Exact => g.lists = saved.lists
  <2> SUFFICES ASSUME Exact PROVE g.lists = saved.lists
    OBVIOUS
  <2>1. len = w \/ w = Len(SavedImage.cells)
    BY ExactIs DEF Backed, NoneMissing
  <2>2. CASE len = w
    <3>1. EndRead(file) <= w + 1
      BY <1>2, <2>2 DEF ReadsAs
    <3> QED BY <1>2, <3>1 DEF ReadsAs
  <2>3. CASE w = Len(SavedImage.cells)
    <3>1. end <= w + 1
      BY <1>1, <2>3 DEF FileOf
    <3>2. EndRead(file) = end
      BY <1>1, <3>1, WholeWalk
    <3>3. EndRead(file) <= w + 1
      BY <3>1, <3>2
    <3> QED BY <1>2, <3>3 DEF ReadsAs
  <2> QED BY <2>1, <2>2, <2>3
<1>12. Sound(g.vecs, g.lists, g.ep)
  <2>1. \A i \in 1..n : Len(g.lists[i]) # 0
    BY <1>4, <1>6
  <2>2. \A i \in 1..n : i + 1 \in 1..n => Len(g.lists[i][1]) # 0
    <3>1. \A i \in 1..n : i + 1 \in 1..n => Len(g.lists[i][1]) = Len(saved.lists[i][1])
      BY <1>2 DEF ReadsAs
    <3>2. \A i \in 1..n : i + 1 \in 1..n => Len(saved.lists[i][1]) # 0
      BY <1>3 DEF Sound, n
    <3> QED BY <3>1, <3>2
  <2>3. NeighboursFit(g.lists, n)
    <3>1. \A i \in 1..n : \A l \in 1..Len(saved.lists[i]) : \A j \in 1..Len(g.lists[i][l]) : g.lists[i][l][j] < n
      BY <1>2 DEF ReadsAs
    <3> QED BY <1>6, <3>1 DEF NeighboursFit
  <2>4. EntryFits(g.lists, g.ep)
    <3> SUFFICES ASSUME g.ep # <<>>
                 PROVE  g.ep[1] \in 0..(Len(g.lists) - 1) /\ g.ep[2] = Len(g.lists[g.ep[1] + 1]) - 1
      BY DEF EntryFits
    <3> DEFINE e == g.ep[1]
    <3>1. e \in 0..(n - 1) /\ g.ep[2] = Len(saved.lists[e + 1]) - 1
      BY <1>3, <1>4, <1>5 DEF Sound, EntryFits
    <3> HIDE DEF e
    <3>2. e + 1 \in 1..n
      BY <1>4, <3>1
    <3>3. Len(g.lists[e + 1]) = Len(saved.lists[e + 1])
      BY <1>6, <3>2
    <3> QED BY <1>5, <3>1, <3>3 DEF e
  <2>5. g.ep = <<>> <=> g.vecs = <<>>
    BY <1>3, <1>5 DEF Sound
  <2>6. Len(g.vecs) = n
    BY <1>5 DEF n
  <2>7. FirstListFits(g.lists, n)
    <3>1. n # 0 => Len(g.lists[1][1]) \in {Len(saved.lists[1][1]), 0}
      BY <1>2 DEF ReadsAs
    <3>2. n # 0 => Len(saved.lists[1][1]) <= 3 * n
      BY <1>3 DEF Sound, FirstListFits, n
    <3>3. 0 <= 3 * n
      BY <1>4 DEF n
    <3> QED BY <3>1, <3>2, <3>3 DEF FirstListFits
  <2> QED BY <1>4, <1>5, <2>1, <2>2, <2>3, <2>4, <2>5, <2>6, <2>7 DEF Sound
<1>13. GraphAsSaved(g)
  BY <1>9, <1>10, <1>11, <1>12 DEF GraphAsSaved
<1> QED BY <1>2, <1>13 DEF g, n

\* The column of a file that is accepted.
ColumnAsSaved(column) ==
  /\ Graph(file).lists = saved.lists
  /\ ColumnAs(column.payloads, saved.payloads, Len(saved.vecs), Exact)

LEMMA ColumnIsAsSaved ==
  ASSUME ShapeOK, SavedInv, NEW w, NEW S, NEW end, Backed(w, S, end), GraphValid(file), kind # "none"
  PROVE  /\ ColumnRead(kind).ok => ColumnAsSaved(ColumnRead(kind))
         /\ ColumnMapped(kind).ok => ColumnAsSaved(ColumnMapped(kind))
<1> DEFINE g == Graph(file)
           n == Len(saved.vecs)
           p == EndRead(file)
           image == SavedImage.cells
<1>1. ReadsAs(g, file, w, saved.vecs, saved.lists, n, end)
  BY GraphIsAsSaved
<1>2. g.payloadPos = p /\ Len(g.vecs) = n
  BY <1>1 DEF ReadsAs
<1>3. p \in Nat \ {0} /\ (p <= w + 1 => p = end /\ g.lists = saved.lists)
  BY <1>1 DEF ReadsAs
<1>4. ColumnFile(file, image, w, kind, saved.payloads, n, end)
  BY DEF Backed
<1>5. w \in Nat /\ (Exact => NoneMissing(file, image, w))
  BY ExactIs DEF Backed
<1>6. ColumnRead(kind) = ReadPayloads(file, p, n, kind) /\ ColumnMapped(kind) = MapFixedPayloads(file, p, n, kind)
  BY <1>2 DEF ColumnRead, ColumnMapped
<1>7. \A r : ColumnAs(r, saved.payloads, n, NoneMissing(file, image, w))
             => ColumnAs(r, saved.payloads, n, Exact)
  BY <1>5 DEF ColumnAs
<1>8. n = 0 => p = end /\ end <= w + 1
  <2> SUFFICES ASSUME n = 0 PROVE p = end /\ end <= w + 1
    OBVIOUS
  <2>1. FileOf(file, image, w, saved.vecs, saved.lists, n, S, end)
    BY DEF Backed
  <2>2. end = 1
    BY <2>1 DEF FileOf, PlacesOK
  <2>3. end <= w + 1
    BY <1>5, <2>2
  <2>4. EndRead(file) = end
    BY <2>1, <2>3, WholeWalk
  <2> QED BY <2>3, <2>4
<1> HIDE DEF p, n, image, g
<1>9. ASSUME ColumnRead(kind).ok PROVE ColumnAsSaved(ColumnRead(kind))
  <2>1. ReadPayloads(file, p, n, kind).ok
    BY <1>6, <1>9
  <2>2. p = end /\ end <= w
    BY <1>3, <1>4, <2>1, ReadColumn
  <2>3. ColumnAs(ReadPayloads(file, p, n, kind).payloads, saved.payloads, n, NoneMissing(file, image, w))
    BY <1>3, <1>4, <2>1, ReadColumn
  <2>4. p <= w + 1
    BY <1>3, <1>5, <2>2
  <2> QED BY <1>3, <1>6, <1>7, <2>3, <2>4 DEF ColumnAsSaved, g, n
<1>10. ASSUME ColumnMapped(kind).ok PROVE ColumnAsSaved(ColumnMapped(kind))
  <2>1. MapFixedPayloads(file, p, n, kind).ok
    BY <1>6, <1>10
  <2>2. p = end /\ end <= w + 1
    BY <1>3, <1>4, <1>8, <2>1, MapFixedColumn
  <2>3. ColumnAs(MapFixedPayloads(file, p, n, kind).payloads, saved.payloads, n, NoneMissing(file, image, w))
    BY <1>3, <1>4, <1>8, <2>1, MapFixedColumn
  <2>4. p <= w + 1
    BY <2>2
  <2> QED BY <1>3, <1>6, <1>7, <2>3, <2>4 DEF ColumnAsSaved, g, n
<1> QED BY <1>9, <1>10

-----------------------------------------------------------------------------
(* The properties follow from the invariant                                *)

LEMMA AcceptedGraph ==
  ASSUME Inv, NEW r \in Accepted(GraphReads)
  PROVE  GraphAsSaved(r)
<1>1. PICK opener \in Metrics : r = ReadMapped(file, opener) /\ r.ok
  BY DEF Accepted, GraphReads
<1>2. Valid /\ r = Graph(file)
  BY <1>1, GraphReader
<1>3. PICK w, S, end : Backed(w, S, end)
  BY <1>2, AcceptedFile DEF Inv, Valid
<1>4. GraphAsSaved(Graph(file))
  BY <1>2, <1>3, GraphIsAsSaved DEF Inv, Valid
<1> QED BY <1>2, <1>4

LEMMA AcceptedColumn ==
  ASSUME Inv, NEW r \in Accepted(ColumnReads)
  PROVE  /\ SameVectors(r) /\ r.lists = saved.lists
         /\ ColumnAs(r.payloads, saved.payloads, Len(saved.vecs), Exact)
<1>1. PICK opener \in Metrics :
        /\ kind # "none" /\ r.ok
        /\ \/ r = LoadMmapWithPayload(file, opener, kind)
           \/ r = LoadMmapWithFixedPayload(file, opener, kind)
  BY DEF Accepted, ColumnReads
<1>2. WithA(ColumnRead(kind), r) \/ WithA(ColumnMapped(kind), r)
  BY <1>1, ColumnReader
<1>3. PICK column : WithA(column, r) /\ (column = ColumnRead(kind) \/ column = ColumnMapped(kind))
  BY <1>2
<1>4. Valid /\ column.ok
  BY <1>3 DEF WithA
<1>5. PICK w, S, end : Backed(w, S, end)
  BY <1>4, AcceptedFile DEF Inv, Valid
<1>6. GraphAsSaved(Graph(file))
  BY <1>4, <1>5, GraphIsAsSaved DEF Inv, Valid
<1>7. /\ ColumnRead(kind).ok => ColumnAsSaved(ColumnRead(kind))
      /\ ColumnMapped(kind).ok => ColumnAsSaved(ColumnMapped(kind))
  BY <1>1, <1>4, <1>5, ColumnIsAsSaved DEF Inv, Valid
<1>8. ColumnAsSaved(column)
  BY <1>3, <1>4, <1>7
<1>9. SameVectors(r)
  BY <1>3, <1>6 DEF WithA, GraphAsSaved, SameVectors
<1>10. r.lists = saved.lists
  BY <1>3, <1>8 DEF WithA, ColumnAsSaved
<1>11. ColumnAs(r.payloads, saved.payloads, Len(saved.vecs), Exact)
  BY <1>3, <1>8 DEF WithA, ColumnAsSaved
<1> QED BY <1>9, <1>10, <1>11

LEMMA InvTorn ==
  ASSUME Inv
  PROVE  TornIsBounded
<1>1. ASSUME NEW r \in Accepted(GraphReads)
      PROVE  /\ SameVectors(r)
             /\ \A i \in DOMAIN r.lists : i <= Len(r.lists) - 2 => r.lists[i] = saved.lists[i]
  BY AcceptedGraph DEF GraphAsSaved
<1>2. ASSUME NEW r \in Accepted(ColumnReads)
      PROVE  /\ SameVectors(r) /\ r.lists = saved.lists
             /\ \E k \in 0..Len(r.payloads) : \A i \in DOMAIN r.payloads :
                  r.payloads[i] = IF i <= k THEN saved.payloads[i] ELSE 0
  <2>1. SameVectors(r) /\ r.lists = saved.lists
    BY AcceptedColumn
  <2>2. ColumnAs(r.payloads, saved.payloads, Len(saved.vecs), Exact)
    BY AcceptedColumn
  <2> DEFINE v == r.payloads
             n == Len(saved.vecs)
  <2>3. v \in Seq(Nat) /\ Len(v) = n /\ BeginningOf(v, saved.payloads, n)
    BY <2>2 DEF ColumnAs
  <2>4. DOMAIN v = 1..n
    BY <2>3, LenProperties
  <2> HIDE DEF v, n
  <2>5. \E k \in 0..Len(v) : \A i \in DOMAIN v : v[i] = IF i <= k THEN saved.payloads[i] ELSE 0
    BY <2>3, <2>4 DEF BeginningOf
  <2> QED BY <2>1, <2>5 DEF v
<1> QED BY <1>1, <1>2 DEF TornIsBounded

LEMMA InvPrefix ==
  ASSUME Inv
  PROVE  PrefixIsRefused
<1> SUFFICES ASSUME ~saved.grown
             PROVE  /\ \A r \in Accepted(GraphReads) : SameVectors(r) /\ r.lists = saved.lists
                    /\ \A r \in Accepted(ColumnReads) : r.payloads = saved.payloads
  BY DEF PrefixIsRefused
<1>1. ASSUME NEW r \in Accepted(GraphReads) PROVE SameVectors(r) /\ r.lists = saved.lists
  BY AcceptedGraph DEF GraphAsSaved, Exact
<1>2. ASSUME NEW r \in Accepted(ColumnReads) PROVE r.payloads = saved.payloads
  <2>1. ColumnAs(r.payloads, saved.payloads, Len(saved.vecs), Exact)
    BY AcceptedColumn
  <2> QED BY <2>1 DEF ColumnAs, Exact
<1> QED BY <1>1, <1>2

\* A file that was written to its end has the header of the last save,
LEMMA WholeHeader ==
  ASSUME Inv, saved.whole
  PROVE  /\ file.header = SavedImage.header
         /\ file.header.metric = saved.metric /\ file.header.version = saved.version
         /\ saved.version \in {VERSION, COMPACT_VERSION}
<1>1. PICK w \in Nat : FileAt(w)
  BY DEF Inv, FileInv
<1>2. file.header = SavedImage.header /\ saved.version \in {VERSION, COMPACT_VERSION}
  BY <1>1 DEF FileAt
<1>3. SavedImage.header.metric = saved.metric /\ SavedImage.header.version = saved.version
  BY SavedImageIs DEF Inv
<1> QED BY <1>2, <1>3

\* and every cell of it;
LEMMA WholeCells ==
  ASSUME Inv, saved.whole, NEW w, NEW S, NEW end, Backed(w, S, end)
  PROVE  /\ w = Len(SavedImage.cells)
         /\ FileOf(file, SavedImage.cells, w, saved.vecs, saved.lists, Len(saved.vecs), S, end)
         /\ end + 1 <= w /\ EndRead(file) = end /\ end \in Nat \ {0}
         /\ file.cells[end] = SavedImage.cells[end] /\ file.cells[end + 1] = FixedStride(kind)
         /\ kind = "none" => file.cells[end] = 0
<1> DEFINE image == SavedImage.cells
           n == Len(saved.vecs)
<1>1. w = Len(image) /\ Torn(file.cells, image, w)
  BY DEF Backed, FileAt
<1>2. FileOf(file, image, w, saved.vecs, saved.lists, n, S, end)
  BY DEF Backed
<1>3. end + 1 <= w /\ w \in Nat
  BY <1>1 DEF Backed
<1>4. end \in Nat \ {0}
  <2>1. end \in Nat /\ 3 * n + 1 <= end /\ n \in Nat
    BY <1>2 DEF FileOf, PlacesOK
  <2> HIDE DEF n
  <2> QED BY <2>1
<1>5. EndRead(file) = end
  <2>1. end <= w + 1
    BY <1>3, <1>4
  <2> QED BY <1>2, <2>1, WholeWalk
<1>6. end \in 1..w /\ end + 1 \in 1..w
  BY <1>3, <1>4
<1>7. file.cells[end] = image[end] /\ file.cells[end + 1] = image[end + 1]
  BY <1>1, <1>6 DEF Torn
<1>8. image[end + 1] = FixedStride(kind) /\ (kind = "none" => image[end] = 0)
  BY DEF Backed
<1> QED BY <1>1, <1>2, <1>3, <1>4, <1>5, <1>7, <1>8

\* it is accepted unless a positional reader lent the graph,
LEMMA WholeFile ==
  ASSUME Inv, saved.whole, Resident
  PROVE  /\ Valid
         /\ kind # "none" => /\ ColumnRead(kind).ok = (saved.payloads # <<>>)
                             /\ ColumnMapped(kind).ok = (FixedStride(kind) > 0)
<1> DEFINE image == SavedImage.cells
           n == Len(saved.vecs)
<1>1. PICK w \in Nat : FileAt(w)
  BY DEF Inv, FileInv
<1>2. w = Len(image) /\ file.header = SavedImage.header /\ Torn(file.cells, image, w)
  BY <1>1 DEF FileAt
<1>3. saved.version \in {VERSION, COMPACT_VERSION}
  BY WholeHeader
<1>4. Sound(saved.vecs, saved.lists, saved.ep) /\ ColumnFits(kind, saved.vecs, saved.payloads)
  BY DEF Inv, SavedInv
<1>5. /\ file.header.magic /\ file.header.version = saved.version /\ file.header.n = n
      /\ file.header.ep = saved.ep
  BY <1>2, SavedImageIs DEF Inv
<1>6. n \in Nat /\ (n = 0 <=> saved.ep = <<>>)
  <2>1. saved.vecs \in Seq(Nat) /\ (saved.ep = <<>> <=> saved.vecs = <<>>)
    BY <1>4 DEF Sound
  <2> QED BY <2>1, LenProperties, EmptySeq
<1>7. PICK S, end : Backed(w, S, end)
  BY <1>1, <1>2, HeaderBacked DEF Inv
<1>8. FileOf(file, image, w, saved.vecs, saved.lists, n, S, end)
  BY <1>7 DEF Backed
<1>9. end <= w + 1
  BY <1>2, <1>8 DEF FileOf
<1>10. n <= Len(file.cells)
  <2>1. 3 * n <= w
    BY <1>8, <1>9, WholeWalk
  <2>2. w <= Len(file.cells) /\ Len(file.cells) \in Nat
    BY <1>2, LenProperties DEF Torn
  <2> HIDE DEF n, image
  <2> QED BY <1>6, <2>1, <2>2
<1>11. HeaderValid(file)
  <2> HIDE DEF n
  <2> QED BY <1>3, <1>5, <1>6, <1>10 DEF HeaderValid
<1>12. EntryFits(saved.lists, file.header.ep) /\ NeighboursFit(saved.lists, n)
  BY <1>4, <1>5 DEF Sound
<1>13. GraphValid(file)
  BY <1>8, <1>9, <1>12, WholeValid
<1>14. Graph(file).payloadPos = end /\ Len(Graph(file).vecs) = n
  <2>1. ReadsAs(Graph(file), file, w, saved.vecs, saved.lists, n, end)
    BY <1>7, <1>13, GraphIsAsSaved DEF Inv
  <2>2. EndRead(file) = end
    BY <1>8, <1>9, WholeWalk
  <2> QED BY <2>1, <2>2 DEF ReadsAs
<1>15. ASSUME kind # "none"
       PROVE  /\ ColumnRead(kind).ok = (saved.payloads # <<>>)
              /\ ColumnMapped(kind).ok = (FixedStride(kind) > 0)
  <2>1. ColumnFile(file, image, w, kind, saved.payloads, n, end)
    BY <1>7, <1>15 DEF Backed
  <2>2. ReadPayloads(file, end, n, kind).ok = (n # 0)
    BY <1>2, <2>1, WholeColumn
  <2>3. MapFixedPayloads(file, end, n, kind).ok = (FixedStride(kind) > 0)
    BY <1>2, <2>1, WholeColumn
  <2>4. n # 0 <=> saved.payloads # <<>>
    <3>1. saved.payloads \in Seq(Nat) /\ Len(saved.payloads) = n
      BY <1>4, <1>15 DEF ColumnFits
    <3> QED BY <3>1, EmptySeq
  <2>5. /\ ColumnRead(kind) = ReadPayloads(file, end, n, kind)
        /\ ColumnMapped(kind) = MapFixedPayloads(file, end, n, kind)
    BY <1>14 DEF ColumnRead, ColumnMapped
  <2>6. ColumnRead(kind).ok = (saved.payloads # <<>>)
    BY <2>2, <2>4, <2>5
  <2>7. ColumnMapped(kind).ok = (FixedStride(kind) > 0)
    BY <2>3, <2>5
  <2> QED BY <2>6, <2>7
<1> QED BY <1>11, <1>13, <1>15 DEF Valid

\* and read back as it was,
LEMMA WholeIsSaved ==
  ASSUME Inv, saved.whole, Resident
  PROVE  /\ Valid /\ AsSaved(Graph(file))
         /\ saved.payloads # <<>> => ColumnRead(kind).ok /\ ColumnRead(kind).payloads = saved.payloads
         /\ FixedStride(kind) > 0 => ColumnMapped(kind).ok /\ ColumnMapped(kind).payloads = saved.payloads
<1>1. Valid
  BY WholeFile
<1>2. PICK w, S, end : Backed(w, S, end)
  BY <1>1, AcceptedFile DEF Inv, Valid
<1>3. Exact
  BY DEF Exact
<1>4. AsSaved(Graph(file))
  <2>1. GraphAsSaved(Graph(file))
    BY <1>1, <1>2, GraphIsAsSaved DEF Inv, Valid
  <2>2. Graph(file).ok
    BY DEF Graph
  <2> QED BY <1>3, <2>1, <2>2 DEF GraphAsSaved, AsSaved
<1>5. kind = "none" => saved.payloads = <<>> /\ FixedStride(kind) = 0
  BY DEF Inv, SavedInv, ColumnFits, FixedStride
<1>6. ASSUME kind # "none"
      PROVE  /\ saved.payloads # <<>> => ColumnRead(kind).ok
             /\ FixedStride(kind) > 0 => ColumnMapped(kind).ok
             /\ ColumnRead(kind).ok => ColumnRead(kind).payloads = saved.payloads
             /\ ColumnMapped(kind).ok => ColumnMapped(kind).payloads = saved.payloads
  <2>1. /\ ColumnRead(kind).ok = (saved.payloads # <<>>)
        /\ ColumnMapped(kind).ok = (FixedStride(kind) > 0)
    BY <1>6, WholeFile
  <2>2. /\ ColumnRead(kind).ok => ColumnAsSaved(ColumnRead(kind))
        /\ ColumnMapped(kind).ok => ColumnAsSaved(ColumnMapped(kind))
    BY <1>1, <1>2, <1>6, ColumnIsAsSaved DEF Inv, Valid
  <2>3. /\ ColumnRead(kind).ok => ColumnRead(kind).payloads = saved.payloads
        /\ ColumnMapped(kind).ok => ColumnMapped(kind).payloads = saved.payloads
    BY <1>3, <2>2 DEF ColumnAsSaved, ColumnAs
  <2> QED BY <2>1, <2>3
<1> QED BY <1>1, <1>4, <1>5, <1>6

\* while a reader of another payload type finds the count and the width that
\* were written.
LEMMA OtherColumn ==
  ASSUME Inv, saved.whole, Valid, NEW k
  PROVE  /\ kind = "none" => ~ColumnRead(k).ok
         /\ ColumnMapped(k).ok => FixedStride(kind) = FixedStride(k)
<1>1. PICK w, S, end : Backed(w, S, end)
  BY AcceptedFile DEF Inv, Valid
<1>2. EndRead(file) = end
  BY <1>1, WholeCells
<1>3. file.cells[end + 1] = FixedStride(kind) /\ (kind = "none" => file.cells[end] = 0)
  BY <1>1, WholeCells
<1>4. Graph(file).payloadPos = end
  <2>1. ReadsAs(Graph(file), file, w, saved.vecs, saved.lists, Len(saved.vecs), end)
    BY <1>1, GraphIsAsSaved DEF Inv, Valid
  <2> QED BY <1>2, <2>1 DEF ReadsAs
<1> DEFINE n == Len(Graph(file).vecs)
<1>5. ColumnRead(k) = ReadPayloads(file, end, n, k) /\ ColumnMapped(k) = MapFixedPayloads(file, end, n, k)
  BY <1>4 DEF ColumnRead, ColumnMapped
<1> HIDE DEF n
<1>6. ~Refused.ok
  BY DEF Refused
<1>7. kind = "none" => ReadPayloads(file, end, n, k) = Refused
  BY <1>3 DEF ReadPayloads
<1>8. MapFixedPayloads(file, end, n, k).ok => file.cells[end + 1] = FixedStride(k)
  BY <1>6 DEF MapFixedPayloads
<1> QED BY <1>3, <1>5, <1>6, <1>7, <1>8

LEMMA BothAsSaved ==
  ASSUME NEW graph, NEW column, AsSaved(graph), column.ok, column.payloads = saved.payloads
  PROVE  WithItsColumn(WithColumn(graph, column))
<1> DEFINE both == WithColumn(graph, column)
<1>1. both.ok /\ both.vecs = graph.vecs /\ both.lists = graph.lists /\ both.ep = graph.ep
      /\ both.payloads = column.payloads
  BY DEF WithColumn, AsSaved
<1> HIDE DEF both
<1>2. WithItsColumn(both)
  BY <1>1 DEF WithItsColumn, AsSaved, SameVectors
<1> QED BY <1>2 DEF both

LEMMA InvReadable ==
  ASSUME Inv
  PROVE  SavedIsReadable
<1> SUFFICES ASSUME saved.whole, NEW opener \in Metrics
             PROVE  LET v1 == saved.version = VERSION
                        due == Welcome(opener) /\ Resident
                    IN  /\ ReadMapped(file, opener).ok => Welcome(opener)
                        /\ ReadOwned(file, opener).ok => Welcome(opener) /\ v1
                        /\ \A other \in PayloadTypes :
                             /\ kind = "none" => ~LoadMmapWithPayload(file, opener, other).ok
                             /\ kind = "none" => ~LoadWithPayload(file, opener, other).ok
                             /\ LoadMmapWithFixedPayload(file, opener, other).ok
                                  => FixedStride(kind) = FixedStride(other)
                        /\ due => AsSaved(ReadMapped(file, opener))
                        /\ due /\ v1 => AsSaved(ReadOwned(file, opener))
                        /\ due /\ saved.payloads # <<>>
                             => WithItsColumn(LoadMmapWithPayload(file, opener, kind))
                        /\ due /\ saved.payloads # <<>> /\ v1
                             => WithItsColumn(LoadWithPayload(file, opener, kind))
                        /\ due /\ FixedStride(kind) > 0
                             => WithItsColumn(LoadMmapWithFixedPayload(file, opener, kind))
  BY DEF SavedIsReadable, LoadMmapWithPayload, LoadWithPayload, LoadMmapWithFixedPayload
<1> DEFINE v1 == saved.version = VERSION
           due == Welcome(opener) /\ Resident
           mapped == ReadMapped(file, opener)
           owned == ReadOwned(file, opener)
<1>1. file.header.metric = saved.metric /\ file.header.version = saved.version
  BY WholeHeader
<1>2. v1 <=> saved.version # COMPACT_VERSION
  BY WholeHeader DEF VERSION, COMPACT_VERSION
<1>3. CheckMetric(saved.metric, opener) <=> Welcome(opener)
  BY DEF CheckMetric, Welcome
<1>4. Refused.ok = FALSE
  BY DEF Refused
<1>5. mapped.ok => Welcome(opener)
  BY <1>1, <1>3, <1>4 DEF ReadMapped
<1>6. owned.ok => Welcome(opener) /\ v1
  BY <1>1, <1>2, <1>4, <1>5 DEF ReadOwned
<1>7. ASSUME NEW other \in PayloadTypes
      PROVE  /\ kind = "none" => ~LoadMmapWithPayload(file, opener, other).ok
             /\ kind = "none" => ~LoadWithPayload(file, opener, other).ok
             /\ LoadMmapWithFixedPayload(file, opener, other).ok => FixedStride(kind) = FixedStride(other)
  <2>1. LoadMmapWithPayload(file, opener, other).ok => Valid /\ ColumnRead(other).ok
    BY ColumnReader DEF WithA
  <2>2. LoadWithPayload(file, opener, other).ok => Valid /\ ColumnRead(other).ok
    BY ColumnReader DEF WithA
  <2>3. LoadMmapWithFixedPayload(file, opener, other).ok => Valid /\ ColumnMapped(other).ok
    BY ColumnReader DEF WithA
  <2>4. Valid => /\ kind = "none" => ~ColumnRead(other).ok
                 /\ ColumnMapped(other).ok => FixedStride(kind) = FixedStride(other)
    BY OtherColumn
  <2> QED BY <2>1, <2>2, <2>3, <2>4
<1>8. ASSUME due
      PROVE  /\ AsSaved(mapped) /\ mapped = Graph(file)
             /\ v1 => AsSaved(owned) /\ owned = Graph(file)
  <2>1. Valid /\ AsSaved(Graph(file))
    BY <1>8, WholeIsSaved
  <2>2. mapped = Graph(file)
    BY <1>1, <1>3, <1>8, <2>1 DEF ReadMapped, Valid
  <2>3. v1 => owned = Graph(file)
    BY <1>1, <1>2, <2>2 DEF ReadOwned
  <2> QED BY <2>1, <2>2, <2>3
<1>9. AsSaved(Graph(file)) => Graph(file).ok
  BY DEF AsSaved
<1>10. ASSUME due, saved.payloads # <<>> PROVE WithItsColumn(LoadMmapWithPayload(file, opener, kind))
  <2>1. AsSaved(Graph(file)) /\ ColumnRead(kind).ok /\ ColumnRead(kind).payloads = saved.payloads
    BY <1>10, WholeIsSaved
  <2>2. LoadMmapWithPayload(file, opener, kind) = WithColumn(Graph(file), ColumnRead(kind))
    BY <1>8, <1>9, <1>10, <2>1 DEF LoadMmapWithPayload, ColumnRead, WithPayloads
  <2> QED BY <2>1, <2>2, BothAsSaved
<1>11. ASSUME due, saved.payloads # <<>>, v1 PROVE WithItsColumn(LoadWithPayload(file, opener, kind))
  <2>1. AsSaved(Graph(file)) /\ ColumnRead(kind).ok /\ ColumnRead(kind).payloads = saved.payloads
    BY <1>11, WholeIsSaved
  <2>2. LoadWithPayload(file, opener, kind) = WithColumn(Graph(file), ColumnRead(kind))
    BY <1>8, <1>9, <1>11, <2>1 DEF LoadWithPayload, ColumnRead, WithPayloads
  <2> QED BY <2>1, <2>2, BothAsSaved
<1>12. ASSUME due, FixedStride(kind) > 0 PROVE WithItsColumn(LoadMmapWithFixedPayload(file, opener, kind))
  <2>1. AsSaved(Graph(file)) /\ ColumnMapped(kind).ok /\ ColumnMapped(kind).payloads = saved.payloads
    BY <1>12, WholeIsSaved
  <2>2. LoadMmapWithFixedPayload(file, opener, kind) = WithColumn(Graph(file), ColumnMapped(kind))
    BY <1>8, <1>9, <1>12, <2>1 DEF LoadMmapWithFixedPayload, ColumnMapped, WithMappedPayloads
  <2> QED BY <2>1, <2>2, BothAsSaved
<1> HIDE DEF mapped, owned
<1> QED BY <1>5, <1>6, <1>7, <1>8, <1>10, <1>11, <1>12 DEF mapped, owned

LEMMA InvPread ==
  ASSUME Inv
  PROVE  PreadIsExact
<1> SUFFICES ASSUME pread.answer.ok, NEW hit \in pread.answer.hits
             PROVE  hit.read /\ (pread.same => hit.value = pread.vecs[hit.id + 1])
  BY DEF PreadIsExact
<1>1. ~pread.error /\ pread.answer.hits = pread.scored
  BY DEF Inv, ReaderInv
<1>2. HitOK(hit)
  BY <1>1 DEF Inv, ReaderInv
<1> QED BY <1>1, <1>2 DEF HitOK

LEMMA InvType ==
  ASSUME Inv
  PROVE  TypeOK
<1>1. ShapeOK /\ Sound(ix.vecs, ix.lists, ix.ep) /\ ix.dead \subseteq Ids
  BY DEF Inv, IndexInv
<1>2. /\ kind \in Kinds /\ ix.mode \in {"closed", "owned", "mapped", "fixed"} /\ ix.metric \in Metrics \cup {0}
      /\ inserts \in 0..MaxInserts /\ saves \in 0..MaxSaves
  BY <1>1 DEF ShapeOK, Indexes
<1>3. Len(ix.lists) = Len(ix.vecs) /\ (ix.ep = <<>> <=> ix.vecs = <<>>)
  BY <1>1 DEF Sound
<1>4. ix.ep # <<>> => ix.ep[1] \in Ids /\ Len(ix.lists[ix.ep[1] + 1]) = ix.ep[2] + 1
  <2> SUFFICES ASSUME ix.ep # <<>>
               PROVE  ix.ep[1] \in Ids /\ Len(ix.lists[ix.ep[1] + 1]) = ix.ep[2] + 1
    OBVIOUS
  <2>1. ix.ep[1] \in 0..(Len(ix.lists) - 1) /\ ix.ep[2] = Len(ix.lists[ix.ep[1] + 1]) - 1
    BY <1>1 DEF Sound, EntryFits
  <2>2. ix.ep[1] \in Ids
    BY <1>3, <2>1 DEF Ids
  <2> DEFINE i == ix.ep[1] + 1
             size == Len(ix.lists[i])
  <2>3. Len(ix.vecs) \in Nat /\ \A j \in 1..Len(ix.vecs) : Len(ix.lists[j]) \in Nat \ {0}
    BY <1>1, SoundSizes
  <2>4. i \in 1..Len(ix.vecs)
    BY <2>2, <2>3 DEF Ids
  <2>5. size \in Nat
    BY <2>3, <2>4
  <2>6. ix.ep[2] = size - 1
    BY <2>1
  <2> HIDE DEF size, i
  <2>7. size = ix.ep[2] + 1
    BY <2>5, <2>6
  <2> QED BY <2>2, <2>7 DEF size, i
<1>5. saving.on => saving.at \in 0..(Len(saving.image.cells) + 1)
  <2> SUFFICES ASSUME saving.on PROVE saving.at \in 0..(Len(saving.image.cells) + 1)
    OBVIOUS
  <2>1. PICK w \in Nat : FileAt(w)
    BY DEF Inv, FileInv
  <2> DEFINE len == Len(saving.image.cells)
             at == saving.at
  <2>2. w <= len /\ len \in Nat
    BY <2>1, LenProperties DEF FileAt, Torn
  <2>3. at \in Nat
    BY <1>1 DEF ShapeOK, Savings
  <2>4. at = 0 \/ w = at - 1
    BY <2>1 DEF FileAt
  <2> HIDE DEF len, at
  <2>5. at \in 0..(len + 1)
    BY <2>2, <2>3, <2>4
  <2> QED BY <2>5 DEF len, at
<1> QED BY <1>1, <1>2, <1>3, <1>4, <1>5 DEF TypeOK

LEMMA InvAligned ==
  ASSUME Inv
  PROVE  PayloadAligned
<1> SUFFICES ASSUME kind # "none"
             PROVE  /\ Len(ix.payloads) = Len(ix.vecs)
                    /\ \A id \in Ids :
                         LabeledResult(id).payload \in {Stored(kind, LabeledResult(id).embedding), 0}
  BY DEF PayloadAligned
<1>1. ColumnFits(kind, ix.vecs, ix.payloads) /\ Len(ix.vecs) \in Nat
  BY SoundSizes DEF Inv, IndexInv
<1>2. Len(ix.payloads) = Len(ix.vecs)
  BY <1>1 DEF ColumnFits
<1>3. ASSUME NEW id \in Ids
      PROVE  LabeledResult(id).payload \in {Stored(kind, LabeledResult(id).embedding), 0}
  <2>1. id + 1 \in 1..Len(ix.vecs)
    BY <1>1 DEF Ids
  <2>2. ix.payloads[id + 1] \in {Stored(kind, ix.vecs[id + 1]), 0}
    BY <1>1, <2>1 DEF ColumnFits
  <2> QED BY <2>2 DEF LabeledResult
<1> QED BY <1>2, <1>3

-----------------------------------------------------------------------------
(* The invariant is inductive: the parts that a step leaves alone          *)

LEMMA KeepIndex ==
  ASSUME IndexInv, UNCHANGED <<kind, ix>>
  PROVE  IndexInv'
  BY DEF IndexInv, Ids

LEMMA KeepSaved ==
  ASSUME SavedInv, UNCHANGED <<kind, saved>>
  PROVE  SavedInv'
  BY DEF SavedInv

LEMMA SameImage ==
  ASSUME kind' = kind, saved'.by = saved.by, saved'.vecs = saved.vecs, saved'.lists = saved.lists,
         saved'.ep = saved.ep, saved'.payloads = saved.payloads, saved'.metric = saved.metric,
         saved'.version = saved.version, saved \in Histories, saved' \in Histories
  PROVE  SavedImage' = SavedImage
<1> DEFINE c == AsStored(saved.by, saved)
           d == AsStored(saved.by, saved')
<1>1. /\ c.vecs = StoreBytes(saved.by, saved.vecs) /\ c.lists = saved.lists
      /\ c.ep = saved.ep /\ c.payloads = saved.payloads
  BY DEF Histories, AsStored
<1>2. /\ d.vecs = StoreBytes(saved.by, saved'.vecs) /\ d.lists = saved'.lists
      /\ d.ep = saved'.ep /\ d.payloads = saved'.payloads
  BY DEF Histories, AsStored
<1>3. d.vecs = c.vecs /\ d.lists = c.lists /\ d.ep = c.ep /\ d.payloads = c.payloads
  BY <1>1, <1>2
<1>4. Written(saved.by, saved', kind, saved.version) = Written(saved.by, saved, kind, saved.version)
  BY <1>3, SameWritten
<1> QED BY <1>4 DEF SavedImage

LEMMA KeepFile ==
  ASSUME FileInv, UNCHANGED <<kind, file, saving, saved>>
  PROVE  FileInv'
<1>1. PICK w \in Nat : FileAt(w)
  BY DEF FileInv
<1>2. SavedImage' = SavedImage
  BY DEF SavedImage
<1>3. FileAt(w)'
  BY <1>1, <1>2 DEF FileAt
<1> QED BY <1>3 DEF FileInv

LEMMA KeepReader ==
  ASSUME ReaderInv, UNCHANGED <<file, saving, pread>>
  PROVE  ReaderInv'
  BY DEF ReaderInv, HitOK

\* A step that changes only the index in memory, and the count of inserts.
LEMMA IndexStep ==
  ASSUME Inv, ix' \in Indexes, IndexInv', inserts' \in 0..MaxInserts,
         UNCHANGED <<kind, file, saving, pread, saves, saved>>
  PROVE  Inv'
<1>1. ShapeOK'
  BY DEF Inv, ShapeOK
<1>2. SavedInv'
  BY KeepSaved DEF Inv
<1>3. FileInv'
  BY KeepFile DEF Inv
<1>4. ReaderInv'
  BY KeepReader DEF Inv
<1> QED BY <1>1, <1>2, <1>3, <1>4 DEF Inv

\* One that changes only the reader.
LEMMA ReaderStep ==
  ASSUME Inv, pread' \in Readers, ReaderInv', UNCHANGED <<kind, ix, file, saving, inserts, saves, saved>>
  PROVE  Inv'
<1>1. ShapeOK'
  BY DEF Inv, ShapeOK
<1>2. SavedInv'
  BY KeepSaved DEF Inv
<1>3. FileInv'
  BY KeepFile DEF Inv
<1>4. IndexInv'
  BY KeepIndex DEF Inv
<1> QED BY <1>1, <1>2, <1>3, <1>4 DEF Inv

-----------------------------------------------------------------------------
(* Steps of the index in memory                                            *)

IndexOf(b, k) ==
  /\ b \in Indexes /\ Sound(b.vecs, b.lists, b.ep) /\ ColumnFits(k, b.vecs, b.payloads)
  /\ b.dead \subseteq 0..(Len(b.vecs) - 1)

LEMMA IndexOfStep ==
  ASSUME Inv, IndexOf(ix', kind'), inserts' \in 0..MaxInserts,
         UNCHANGED <<kind, file, saving, pread, saves, saved>>
  PROVE  Inv'
<1>1. IndexInv'
  BY DEF IndexOf, IndexInv, Ids
<1> QED BY <1>1, IndexStep DEF IndexOf

LEMMA BuiltOK ==
  ASSUME NEW metric \in Metrics \cup {0}, NEW vecs \in Seq(Nat), NEW levels \in Seq(Nat),
         NEW payloads, Len(vecs) = Len(levels), NEW k, ColumnFits(k, vecs, payloads)
  PROVE  IndexOf(Built(metric, vecs, levels, payloads), k)
<1> DEFINE b == Built(metric, vecs, levels, payloads)
<1>1. Sound(vecs, Complete(levels), Highest(levels))
  BY BuiltSound
<1>2. b = [mode |-> "owned", metric |-> metric, vecs |-> vecs, lists |-> Complete(levels),
           ep |-> Highest(levels), payloads |-> payloads, dead |-> {}]
  BY DEF Built
<1>3. Highest(levels) \in Seq(Nat) /\ Complete(levels) \in Lists
  <2>1. Highest(levels) \in Seq(Nat)
    BY HighestIs
  <2> QED BY <1>1, <2>1 DEF Sound
<1>4. b \in Indexes
  BY <1>2, <1>3 DEF Indexes, Words, ColumnFits
<1>5. b.vecs = vecs /\ b.lists = Complete(levels) /\ b.ep = Highest(levels) /\ b.payloads = payloads /\ b.dead = {}
  BY <1>2
<1> HIDE DEF b
<1>7. IndexOf(b, k)
  BY <1>1, <1>4, <1>5 DEF IndexOf
<1> QED BY <1>7 DEF b

LEMMA ClosedOK ==
  ASSUME NEW k \in Kinds
  PROVE  IndexOf(Closed, k)
<1>1. Closed.vecs = <<>> /\ Closed.lists = <<>> /\ Closed.ep = <<>> /\ Closed.payloads = <<>> /\ Closed.dead = {}
  BY DEF Closed
<1>2. <<>> \in Seq(Nat) /\ <<>> \in Lists /\ Len(<<>>) = 0
  BY DEF Lists
<1>3. Closed \in Indexes
  BY <1>2 DEF Closed, Indexes, Words
<1>4. Sound(<<>>, <<>>, <<>>)
  BY <1>2 DEF Sound, NeighboursFit, FirstListFits, EntryFits
<1>5. ColumnFits(k, <<>>, <<>>)
  BY <1>2 DEF ColumnFits
<1> QED BY <1>1, <1>3, <1>4, <1>5 DEF IndexOf

LEMMA NewStep ==
  ASSUME Inv, NEW metric \in Metrics, New(metric)
  PROVE  Inv'
<1>1. ix' = Built(metric, <<>>, <<>>, <<>>) /\ UNCHANGED <<kind, file, saving, pread, inserts, saves, saved>>
  BY DEF New
<1>2. <<>> \in Seq(Nat) /\ Len(<<>>) = 0
  OBVIOUS
<1>3. kind \in Kinds /\ inserts \in 0..MaxInserts
  BY DEF Inv, ShapeOK
<1>4. ColumnFits(kind, <<>>, <<>>)
  BY <1>2, <1>3 DEF ColumnFits
<1>5. IndexOf(Built(metric, <<>>, <<>>, <<>>), kind)
  BY <1>2, <1>4, BuiltOK
<1> QED BY <1>1, <1>3, <1>5, IndexOfStep

LEMMA IndexParts ==
  ASSUME Inv
  PROVE  /\ IndexOf(ix, kind) /\ kind \in Kinds /\ inserts \in 0..MaxInserts /\ inserts \in Nat
         /\ ix.metric \in Metrics \cup {0} /\ ix.vecs \in Seq(Nat) /\ ix.payloads \in Seq(Nat)
<1>1. IndexOf(ix, kind)
  BY DEF Inv, ShapeOK, IndexInv, IndexOf, Ids
<1>2. kind \in Kinds /\ inserts \in 0..MaxInserts /\ inserts \in Nat
  BY LabeledAssumption DEF Inv, ShapeOK
<1>3. ix.metric \in Metrics \cup {0} /\ ix.vecs \in Seq(Nat) /\ ix.payloads \in Seq(Nat)
  BY <1>1 DEF IndexOf, Indexes, Words
<1> QED BY <1>1, <1>2, <1>3

\* One value more in the column, or none for an index without payloads.
LEMMA ColumnMore ==
  ASSUME NEW vecs \in Seq(Nat), NEW payloads, NEW item \in Nat, ColumnFits(kind, vecs, payloads)
  PROVE  ColumnFits(kind, Append(vecs, item), payloads \o Payload(item))
<1> DEFINE n == Len(vecs)
           v == Append(vecs, item)
           q == payloads \o Payload(item)
<1>1. n \in Nat /\ payloads \in Seq(Nat) /\ kind \in Kinds
  BY LenProperties DEF ColumnFits
<1>2. v \in Seq(Nat) /\ Len(v) = n + 1 /\ v[n + 1] = item /\ \A i \in 1..n : v[i] = vecs[i]
  BY AppendProperties
<1>3. CASE kind = "none"
  <2>1. payloads = <<>> /\ Payload(item) = <<>>
    BY <1>3 DEF ColumnFits, Payload
  <2>2. q = <<>>
    BY <2>1
  <2>3. <<>> \in Seq(Nat)
    OBVIOUS
  <2> HIDE DEF q, v
  <2>4. ColumnFits(kind, v, q)
    BY <1>1, <1>3, <2>2, <2>3 DEF ColumnFits
  <2> QED BY <2>4 DEF q, v
<1>4. CASE kind # "none"
  <2> DEFINE x == Stored(kind, item)
             s == <<x>>
  <2>1. Payload(item) = s
    BY <1>4 DEF Payload
  <2>2. x \in Nat
    BY DEF Stored
  <2> HIDE DEF x
  <2>3. s \in Seq(Nat) /\ Len(s) = 1 /\ s[1] = x
    BY <2>2
  <2> HIDE DEF s
  <2>4. q \in Seq(Nat)
    BY <1>1, <2>1, <2>3, Joined
  <2>5. JoinOf(q, payloads, s)
    BY <1>1, <2>1, <2>3, Joined
  <2> HIDE DEF q, v
  <2>6. Len(payloads) = n /\ \A i \in 1..n : payloads[i] \in {Stored(kind, vecs[i]), 0}
    BY <1>4 DEF ColumnFits
  <2>7. Len(q) = n + 1
    BY <2>3, <2>5, <2>6 DEF JoinOf
  <2>8. \A i \in 1..n : q[i] = payloads[i]
    BY <2>5, <2>6 DEF JoinOf
  <2>9. q[n + 1] = x
    <3>1. 1 \in 1..Len(s)
      BY <2>3
    <3> QED BY <2>3, <2>5, <2>6, <3>1 DEF JoinOf
  <2>10. ASSUME NEW i \in 1..(n + 1) PROVE q[i] \in {Stored(kind, v[i]), 0}
    <3>1. CASE i = n + 1
      BY <1>2, <2>9, <3>1 DEF x
    <3>2. CASE i # n + 1
      <4>1. i \in 1..n
        BY <1>1, <3>2
      <4> QED BY <1>2, <2>6, <2>8, <4>1
    <3> QED BY <3>1, <3>2
  <2>11. ColumnFits(kind, v, q)
    BY <1>1, <1>2, <1>4, <2>4, <2>7, <2>10 DEF ColumnFits
  <2> QED BY <2>11 DEF q, v
<1> QED BY <1>3, <1>4

LEMMA DeadOK ==
  ASSUME NEW b, NEW k, IndexOf(b, k), NEW dead, dead \subseteq 0..(Len(b.vecs) - 1)
  PROVE  IndexOf([b EXCEPT !.dead = dead], k)
<1> DEFINE c == [b EXCEPT !.dead = dead]
<1>1. b \in Indexes /\ Len(b.vecs) \in Nat
  BY SoundSizes DEF IndexOf
<1>2. dead \in SUBSET Nat
  BY <1>1
<1>3. /\ c.vecs = b.vecs /\ c.lists = b.lists /\ c.ep = b.ep /\ c.payloads = b.payloads /\ c.dead = dead
      /\ c \in Indexes
  BY <1>1, <1>2 DEF Indexes
<1> HIDE DEF c
<1>4. IndexOf(c, k)
  BY <1>3 DEF IndexOf
<1> QED BY <1>4 DEF c

LEMMA InsertStep ==
  ASSUME Inv, NEW level \in 0..TopLevel, Insert(level)
  PROVE  Inv'
<1> DEFINE vecs == Append(ix.vecs, inserts + 1)
           levels == Append(Levels(ix.lists), level)
           payloads == ix.payloads \o Payload(inserts + 1)
           b == Built(ix.metric, vecs, levels, payloads)
<1>1. /\ ix' = [b EXCEPT !.dead = ix.dead] /\ inserts < MaxInserts /\ inserts' = inserts + 1
      /\ UNCHANGED <<kind, file, saving, pread, saves, saved>>
  BY DEF Insert
<1>2. /\ IndexOf(ix, kind) /\ inserts \in Nat /\ ix.metric \in Metrics \cup {0} /\ ix.vecs \in Seq(Nat)
      /\ inserts \in 0..MaxInserts
  BY IndexParts
<1>3. Sound(ix.vecs, ix.lists, ix.ep) /\ ColumnFits(kind, ix.vecs, ix.payloads)
      /\ ix.dead \subseteq 0..(Len(ix.vecs) - 1)
  BY <1>2 DEF IndexOf
<1>4. level \in Nat /\ inserts + 1 \in Nat /\ MaxInserts \in Nat
  BY <1>2, LabeledAssumption
<1>5. Levels(ix.lists) \in Seq(Nat) /\ Len(Levels(ix.lists)) = Len(ix.vecs)
  <2>1. ix.lists \in Lists /\ Len(ix.lists) = Len(ix.vecs)
    BY <1>3 DEF Sound
  <2>2. \A i \in 1..Len(ix.lists) : Len(ix.lists[i]) # 0
    BY <1>3, <2>1 DEF Sound
  <2> QED BY <2>1, <2>2, LevelsIs
<1>6. Len(ix.vecs) \in Nat
  BY <1>2, LenProperties
<1>7. vecs \in Seq(Nat) /\ Len(vecs) = Len(ix.vecs) + 1
  BY <1>2, <1>4, AppendProperties
<1>8. levels \in Seq(Nat) /\ Len(levels) = Len(ix.vecs) + 1
  BY <1>4, <1>5, AppendProperties
<1>9. ColumnFits(kind, vecs, payloads)
  BY <1>2, <1>3, <1>4, ColumnMore
<1> HIDE DEF vecs, levels, payloads
<1>10. IndexOf(b, kind) /\ b.vecs = vecs
  <2>1. Len(vecs) = Len(levels)
    BY <1>7, <1>8
  <2>2. b.vecs = vecs
    BY DEF Built
  <2>3. IndexOf(b, kind)
    BY <1>2, <1>7, <1>8, <1>9, <2>1, BuiltOK
  <2> QED BY <2>2, <2>3
<1>11. ix.dead \subseteq 0..(Len(b.vecs) - 1)
  BY <1>3, <1>6, <1>7, <1>10
<1> HIDE DEF b
<1>12. IndexOf(ix', kind)
  BY <1>1, <1>10, <1>11, DeadOK
<1>13. inserts' \in 0..MaxInserts
  BY <1>1, <1>2, <1>4
<1> QED BY <1>1, <1>12, <1>13, IndexOfStep

LEMMA RemoveStep ==
  ASSUME Inv, NEW id \in Ids, Remove(id) \/ Restore(id)
  PROVE  Inv'
<1>1. UNCHANGED <<kind, file, saving, pread, inserts, saves, saved>>
  BY DEF Remove, Restore
<1>2. IndexOf(ix, kind) /\ inserts \in 0..MaxInserts
  BY IndexParts
<1>3. ix.dead \subseteq 0..(Len(ix.vecs) - 1)
  BY <1>2 DEF IndexOf
<1>4. PICK dead : ix' = [ix EXCEPT !.dead = dead] /\ dead \subseteq ix.dead \cup {id}
  <2>1. CASE Remove(id)
    BY <2>1 DEF Remove
  <2>2. CASE Restore(id)
    BY <2>2 DEF Restore
  <2> QED BY <2>1, <2>2
<1>5. dead \subseteq 0..(Len(ix.vecs) - 1)
  BY <1>3, <1>4 DEF Ids
<1>6. IndexOf(ix', kind)
  BY <1>2, <1>4, <1>5, DeadOK
<1> QED BY <1>1, <1>2, <1>6, IndexOfStep

LEMMA CompactStep ==
  ASSUME Inv, NEW n \in 0..MaxInserts, NEW levels \in [1..n -> 0..TopLevel], Compact(levels)
  PROVE  Inv'
<1> DEFINE s == OldIds
           m == Len(s)
           vecs == [i \in DOMAIN s |-> ix.vecs[s[i] + 1]]
           payloads == Carried(ix.payloads)
           size == Len(ix.vecs)
<1>1. /\ m = Len(levels) /\ ix' = Built(ix.metric, vecs, levels, payloads)
      /\ UNCHANGED <<kind, file, saving, pread, inserts, saves, saved>>
  BY DEF Compact
<1>2. /\ IndexOf(ix, kind) /\ ix.metric \in Metrics \cup {0} /\ ix.vecs \in Seq(Nat) /\ inserts \in 0..MaxInserts
      /\ ix.payloads \in Seq(Nat) /\ kind \in Kinds
  BY IndexParts
<1>3. ColumnFits(kind, ix.vecs, ix.payloads) /\ size \in Nat
  BY <1>2, LenProperties DEF IndexOf
<1>4. levels \in Seq(Nat)
  <2>1. n \in Nat /\ \A i \in 1..n : levels[i] \in Nat
    BY LabeledAssumption
  <2>2. levels \in [1..n -> Nat]
    BY <2>1
  <2> QED BY <2>1, <2>2, SeqDef
<1>5. s \in Seq(Nat) /\ \A j \in 1..m : s[j] \in 0..(size - 1)
  <2> DEFINE T == Ids \ ix.dead
  <2>1. T \subseteq 0..(size - 1)
    BY DEF Ids
  <2>2. Ascending(T) \in Seq(Nat)
    BY <1>3, <2>1, AscendingIs
  <2>3. \A j \in 1..Len(Ascending(T)) : Ascending(T)[j] \in T
    BY <1>3, <2>1, AscendingIs
  <2>4. s = Ascending(T)
    BY DEF OldIds
  <2> QED BY <2>1, <2>2, <2>3, <2>4
<1>6. m \in Nat /\ DOMAIN s = 1..m
  BY <1>5, LenProperties
<1> HIDE DEF s, size
<1>7. \A j \in 1..m : s[j] + 1 \in 1..size
  BY <1>3, <1>5
<1>8. \A x \in 1..size : ix.vecs[x] \in Nat
  BY <1>2, ElementOfSeq DEF size
<1> DEFINE v == vecs
<1>9. v \in [1..m -> Nat] /\ \A j \in 1..m : v[j] = ix.vecs[s[j] + 1]
  BY <1>6, <1>7, <1>8
<1> HIDE DEF v, vecs
<1>10. v \in Seq(Nat) /\ Len(v) = m
  BY <1>6, <1>9, SeqDef, LenProperties
<1> DEFINE q == payloads
<1>11. ColumnFits(kind, v, q)
  <2>1. CASE kind = "none"
    <3>1. q = <<>>
      BY <2>1 DEF Carried
    <3>2. <<>> \in Seq(Nat)
      OBVIOUS
    <3> HIDE DEF q
    <3> QED BY <1>2, <2>1, <3>1, <3>2 DEF ColumnFits
  <2>2. CASE kind # "none"
    <3>1. Len(ix.payloads) = size /\ \A x \in 1..size : ix.payloads[x] \in {Stored(kind, ix.vecs[x]), 0}
      BY <1>3, <2>2 DEF ColumnFits, size
    <3>2. \A x \in 1..size : ix.payloads[x] \in Nat
      BY <1>2, <3>1, ElementOfSeq
    <3>3. q = [i \in 1..m |-> ix.payloads[s[i] + 1]]
      BY <1>6, <2>2 DEF Carried, s
    <3>4. q \in [1..m -> Nat] /\ \A j \in 1..m : q[j] = ix.payloads[s[j] + 1]
      BY <1>7, <3>2, <3>3
    <3> HIDE DEF q
    <3>5. q \in Seq(Nat) /\ Len(q) = m
      BY <1>6, <3>4, SeqDef, LenProperties
    <3>6. \A j \in 1..m : q[j] \in {Stored(kind, v[j]), 0}
      BY <1>7, <1>9, <3>1, <3>4
    <3> QED BY <1>2, <1>10, <2>2, <3>5, <3>6 DEF ColumnFits
  <2> QED BY <2>1, <2>2
<1> HIDE DEF q
<1>12. IndexOf(Built(ix.metric, v, levels, q), kind)
  <2>1. Len(v) = Len(levels)
    BY <1>1, <1>10
  <2> QED BY <1>2, <1>4, <1>10, <1>11, <2>1, BuiltOK
<1>13. ix' = Built(ix.metric, v, levels, q)
  BY <1>1 DEF v, q
<1> QED BY <1>1, <1>2, <1>12, <1>13, IndexOfStep

\* What is loaded is sound and fits, even from a file that was cut.
LEMMA LoadedFits ==
  ASSUME Inv, NEW how \in {"owned", "mapped", "fixed"}, NEW opener, Loaded(how, opener).ok
  PROVE  /\ Sound(Loaded(how, opener).vecs, Loaded(how, opener).lists, Loaded(how, opener).ep)
         /\ Loaded(how, opener).ep \in Seq(Nat)
         /\ ColumnFits(kind, Loaded(how, opener).vecs,
                       IF kind = "none" THEN <<>> ELSE Loaded(how, opener).payloads)
<1> DEFINE r == Loaded(how, opener)
           g == Graph(file)
<1>1. kind \in Kinds /\ ShapeOK /\ SavedInv /\ FileInv /\ saved.ep \in Seq(Nat)
  BY DEF Inv, ShapeOK, Histories, Words
<1>2. ColumnFits(kind, saved.vecs, saved.payloads) /\ Len(saved.vecs) \in Nat
  BY SoundSizes DEF Inv, SavedInv
<1>3. CASE kind = "none"
  <2>1. how # "fixed"
    <3> SUFFICES ASSUME how = "fixed" PROVE FALSE
      OBVIOUS
    <3>1. r = LoadMmapWithFixedPayload(file, opener, kind)
      BY DEF Loaded
    <3>2. ColumnMapped(kind).ok
      BY <3>1, ColumnReader DEF WithA
    <3>3. ~(FixedStride(kind) > 0)
      BY <1>3 DEF FixedStride
    <3> QED BY <3>2, <3>3 DEF ColumnMapped, MapFixedPayloads, Refused
  <2>2. r = ReadOwned(file, opener) \/ r = ReadMapped(file, opener)
    BY <1>3, <2>1 DEF Loaded
  <2>3. Valid /\ r = g
    BY <2>2, GraphReader
  <2>4. PICK w, S, end : Backed(w, S, end)
    BY <1>1, <2>3, AcceptedFile DEF Valid
  <2>5. GraphAsSaved(g)
    BY <1>1, <2>3, <2>4, GraphIsAsSaved DEF Valid
  <2> HIDE DEF g, r
  <2>6. Sound(r.vecs, r.lists, r.ep) /\ r.ep = saved.ep
    BY <2>3, <2>5 DEF GraphAsSaved, SameVectors
  <2>7. ColumnFits(kind, r.vecs, <<>>)
    <3>1. <<>> \in Seq(Nat)
      OBVIOUS
    <3> QED BY <1>1, <1>3, <3>1 DEF ColumnFits
  <2> QED BY <1>1, <1>3, <2>6, <2>7 DEF r
<1>4. CASE kind # "none"
  <2>1. \/ r = LoadMmapWithPayload(file, opener, kind)
        \/ r = LoadWithPayload(file, opener, kind)
        \/ r = LoadMmapWithFixedPayload(file, opener, kind)
    BY <1>4 DEF Loaded
  <2>2. WithA(ColumnRead(kind), r) \/ WithA(ColumnMapped(kind), r)
    BY <2>1, ColumnReader
  <2>3. PICK column : WithA(column, r) /\ (column = ColumnRead(kind) \/ column = ColumnMapped(kind))
    BY <2>2
  <2>4. Valid /\ column.ok /\ r.vecs = g.vecs /\ r.lists = g.lists /\ r.ep = g.ep /\ r.payloads = column.payloads
    BY <2>3 DEF WithA
  <2>5. PICK w, S, end : Backed(w, S, end)
    BY <1>1, <2>4, AcceptedFile DEF Valid
  <2>6. GraphAsSaved(g)
    BY <1>1, <2>4, <2>5, GraphIsAsSaved DEF Valid
  <2>7. /\ ColumnRead(kind).ok => ColumnAsSaved(ColumnRead(kind))
        /\ ColumnMapped(kind).ok => ColumnAsSaved(ColumnMapped(kind))
    BY <1>1, <1>4, <2>4, <2>5, ColumnIsAsSaved DEF Valid
  <2>8. ColumnAsSaved(column)
    BY <2>3, <2>4, <2>7
  <2> HIDE DEF g, r
  <2>9. Sound(r.vecs, r.lists, r.ep) /\ r.ep = saved.ep /\ r.vecs = saved.vecs
    BY <2>4, <2>6 DEF GraphAsSaved, SameVectors
  <2> DEFINE v == r.payloads
             n == Len(saved.vecs)
  <2>10. v \in Seq(Nat) /\ Len(v) = n /\ BeginningOf(v, saved.payloads, n)
    BY <2>4, <2>8 DEF ColumnAsSaved, ColumnAs
  <2>11. \A i \in 1..n : v[i] \in {saved.payloads[i], 0}
    BY <2>10 DEF BeginningOf
  <2>12. \A i \in 1..n : saved.payloads[i] \in {Stored(kind, saved.vecs[i]), 0}
    BY <1>2, <1>4 DEF ColumnFits
  <2>13. \A i \in 1..n : v[i] \in {Stored(kind, saved.vecs[i]), 0}
    BY <2>11, <2>12
  <2> HIDE DEF v
  <2>14. ColumnFits(kind, r.vecs, v)
    BY <1>1, <1>4, <2>9, <2>10, <2>13 DEF ColumnFits
  <2> QED BY <1>1, <1>4, <2>9, <2>14 DEF r, v
<1> QED BY <1>3, <1>4

LEMMA LoadStep ==
  ASSUME Inv, NEW how \in {"owned", "mapped", "fixed"}, NEW opener \in Metrics, Load(how, opener)
  PROVE  Inv'
<1> DEFINE r == Loaded(how, opener)
           payloads == IF kind = "none" THEN <<>> ELSE r.payloads
<1>1. /\ r.ok
      /\ ix' = [mode |-> how, metric |-> opener, vecs |-> r.vecs, lists |-> r.lists, ep |-> r.ep, dead |-> {},
                payloads |-> payloads]
      /\ UNCHANGED <<kind, file, saving, pread, inserts, saves, saved>>
  BY DEF Load
<1>2. Sound(r.vecs, r.lists, r.ep) /\ r.ep \in Seq(Nat)
  BY <1>1, LoadedFits
<1>3. ColumnFits(kind, r.vecs, payloads)
  BY <1>1, LoadedFits
<1> HIDE DEF r, payloads
<1>4. r.vecs \in Seq(Nat) /\ r.lists \in Lists /\ payloads \in Seq(Nat)
  BY <1>2, <1>3 DEF Sound, ColumnFits
<1>5. ix' \in Indexes
  BY <1>1, <1>2, <1>4 DEF Indexes, Words
<1>6. /\ ix'.vecs = r.vecs /\ ix'.lists = r.lists /\ ix'.ep = r.ep /\ ix'.payloads = payloads /\ ix'.dead = {}
  BY <1>1
<1>7. IndexOf(ix', kind)
  BY <1>2, <1>3, <1>5, <1>6 DEF IndexOf
<1>8. inserts \in 0..MaxInserts
  BY IndexParts
<1> QED BY <1>1, <1>7, <1>8, IndexOfStep

-----------------------------------------------------------------------------
(* Steps of a save                                                         *)

LEMMA ImageInFiles ==
  ASSUME NEW c, c.vecs \in Seq(Nat), c.lists \in Lists, c.payloads \in Seq(Nat), c.ep \in Seq(Nat),
         \A i \in 1..Len(c.lists) : Len(c.lists[i]) # 0,
         NEW k \in Kinds, NEW metric \in Nat, NEW version \in Nat
  PROVE  Image(c, k, metric, version) \in Files
<1> DEFINE im == Image(c, k, metric, version)
<1>1. im.cells \in Seq(Nat)
  BY ImageTyped
<1>2. Len(c.vecs) \in Nat
  BY LenProperties
<1>3. im = [header |-> [magic |-> TRUE, version |-> version, n |-> Len(c.vecs), ep |-> c.ep, metric |-> metric],
            cells |-> im.cells]
  BY DEF Image
<1> DEFINE cells == im.cells
           h == [magic |-> TRUE, version |-> version, n |-> Len(c.vecs), ep |-> c.ep, metric |-> metric]
<1>4. h \in Headers
  BY <1>2 DEF Headers, Words
<1>6. im = [header |-> h, cells |-> cells]
  BY <1>3
<1> HIDE DEF im, cells, h
<1>5. im \in Files
  <2>1. cells \in Seq(Nat)
    BY <1>1 DEF cells
  <2> QED BY <1>4, <1>6, <2>1 DEF Files, Words
<1> QED BY <1>5 DEF im

LEMMA ZerosIs ==
  ASSUME NEW len \in Nat
  PROVE  Zeros(len) \in Seq(Nat) /\ Len(Zeros(len)) = len /\ \A i \in 1..len : Zeros(len)[i] = 0
<1>1. Zeros(len) \in [1..len -> Nat] /\ \A i \in 1..len : Zeros(len)[i] = 0
  BY DEF Zeros
<1> DEFINE z == Zeros(len)
<1> HIDE DEF z
<1>2. z \in [1..len -> Nat]
  BY <1>1 DEF z
<1>3. z \in Seq(Nat) /\ Len(z) = len
  BY <1>2, SeqDef, LenProperties
<1> QED BY <1>1, <1>3 DEF z

\* A truncated file has nothing of any image.
LEMMA TruncatedIs ==
  ASSUME NEW len \in Nat, NEW image \in Seq(Nat)
  PROVE  /\ Truncated(len) \in Files /\ Truncated(len).header = NoHeader
         /\ Torn(Truncated(len).cells, image, 0) /\ Len(Truncated(len).cells) = len
<1> DEFINE z == Zeros(len)
<1>1. z \in Seq(Nat) /\ Len(z) = len /\ \A i \in 1..len : z[i] = 0
  BY ZerosIs
<1>2. Truncated(len) = [header |-> NoHeader, cells |-> z]
  BY DEF Truncated
<1> HIDE DEF z
<1>3. NoHeader \in Headers
  <2>1. <<>> \in Seq(Nat)
    OBVIOUS
  <2> QED BY <2>1 DEF NoHeader, Headers, Words
<1>4. Truncated(len) \in Files
  BY <1>1, <1>2, <1>3 DEF Files, Words
<1>5. Torn(z, image, 0)
  <2>1. Len(image) \in Nat
    BY LenProperties
  <2>2. \A p \in (0 + 1)..Len(z) : z[p] = 0
    BY <1>1
  <2>3. \A p \in 1..0 : z[p] = image[p]
    OBVIOUS
  <2>4. 0 <= Len(z) /\ 0 <= Len(image)
    BY <1>1, <2>1
  <2> QED BY <1>1, <2>2, <2>3, <2>4 DEF Torn
<1> QED BY <1>1, <1>2, <1>4, <1>5

\* A save makes the reader's file another one.
LEMMA ReaderStale ==
  ASSUME pread \in Readers, ReaderInv, pread' = [pread EXCEPT !.same = FALSE]
  PROVE  pread' \in Readers /\ ReaderInv'
<1>1. /\ pread' \in Readers /\ pread'.same = FALSE
      /\ pread'.vecs = pread.vecs /\ pread'.lists = pread.lists /\ pread'.ep = pread.ep
      /\ pread'.scored = pread.scored /\ pread'.error = pread.error /\ pread'.done = pread.done
      /\ pread'.answer = pread.answer
  BY DEF Readers
<1>2. Sound(pread'.vecs, pread'.lists, pread'.ep)
  BY <1>1 DEF ReaderInv
<1>3. \A hit \in pread'.scored : HitOK(hit)'
  <2>1. \A hit \in pread.scored : HitOK(hit)
    BY DEF ReaderInv
  <2> QED BY <1>1, <2>1 DEF HitOK
<1>4. pread'.answer.ok => pread'.done /\ ~pread'.error /\ pread'.answer.hits = pread'.scored
  BY <1>1 DEF ReaderInv
<1> QED BY <1>1, <1>2, <1>3, <1>4 DEF ReaderInv

\* A save begins: `content` is the index saved.
LEMMA BeginStep ==
  ASSUME Inv, NEW by \in {"memory", "pread"}, NEW content, NEW version \in {VERSION, COMPACT_VERSION},
         Sound(content.vecs, content.lists, content.ep), content.ep \in Seq(Nat),
         ColumnFits(kind, content.vecs, content.payloads), content.metric \in Nat,
         NEW c, c = AsStored(by, content),
         c.vecs = StoreBytes(by, content.vecs), c.lists = content.lists, c.ep = content.ep,
         c.payloads = content.payloads,
         by = "pread" => kind = "none",
         BeginWrite(by, content, kind, version), UNCHANGED <<kind, ix, inserts>>
  PROVE  Inv'
<1> DEFINE image == Written(by, content, kind, version)
<1>1. PICK grown \in BOOLEAN :
        /\ grown => Preallocates(kind)
        /\ saves < MaxSaves /\ saves' = saves + 1
        /\ file' = Truncated(IF grown THEN PreallocatedLen(content, kind) ELSE 0)
        /\ saving' = [on |-> TRUE, at |-> 0, image |-> image]
        /\ saved' = [by |-> by, vecs |-> content.vecs, lists |-> content.lists, ep |-> content.ep,
                     payloads |-> content.payloads, metric |-> content.metric, version |-> version,
                     grown |-> grown, whole |-> FALSE]
        /\ pread' = [pread EXCEPT !.same = FALSE]
  BY DEF BeginWrite
<1>2. kind \in Kinds /\ saves \in 0..MaxSaves /\ MaxSaves \in Nat /\ pread \in Readers
  BY LabeledAssumption DEF Inv, ShapeOK
<1>3. version \in Nat
  BY DEF VERSION, COMPACT_VERSION
<1>4. /\ content.vecs \in Seq(Nat) /\ content.lists \in Lists /\ content.payloads \in Seq(Nat)
      /\ \A i \in 1..Len(content.lists) : Len(content.lists[i]) # 0
  <2>1. Len(content.lists) = Len(content.vecs) /\ content.vecs \in Seq(Nat) /\ content.lists \in Lists
    BY DEF Sound
  <2>2. \A i \in 1..Len(content.vecs) : Len(content.lists[i]) # 0
    BY DEF Sound
  <2>3. content.payloads \in Seq(Nat)
    BY DEF ColumnFits
  <2> QED BY <2>1, <2>2, <2>3
<1>5. image \in Files
  <2>1. c.vecs \in Seq(Nat)
    <3>1. <<>> \in Seq(Nat)
      OBVIOUS
    <3> QED BY <1>4, <3>1 DEF StoreBytes
  <2>2. c.lists \in Lists /\ c.payloads \in Seq(Nat) /\ c.ep \in Seq(Nat)
        /\ \A i \in 1..Len(c.lists) : Len(c.lists[i]) # 0
    BY <1>4
  <2>3. Image(c, kind, content.metric, version) \in Files
    BY <1>2, <1>3, <2>1, <2>2, ImageInFiles
  <2>4. Len(content.vecs) \in Nat
    BY <1>4, LenProperties
  <2>5. WrittenAs(image, Image(c, kind, content.metric, version), content, version)
    BY WrittenIs
  <2> HIDE DEF image
  <2> QED BY <2>3, <2>4, <2>5 DEF WrittenAs
<1>6. image.cells \in Seq(Nat)
  BY <1>5 DEF Files, Words
<1>7. (IF grown THEN PreallocatedLen(content, kind) ELSE 0) \in Nat
  <2>1. GraphCells(content) \in Seq(Nat)
    BY <1>2, <1>4, ImageTyped
  <2>2. Len(GraphCells(content)) \in Nat /\ Len(content.payloads) \in Nat
    BY <1>4, <2>1, LenProperties
  <2>3. FixedStride(kind) \in {0, 1, 2}
    BY DEF FixedStride
  <2>4. \A x \in Nat : \A y \in {0, 1, 2} : x * y \in Nat
    OBVIOUS
  <2>5. Len(content.payloads) * FixedStride(kind) \in Nat
    BY <2>2, <2>3, <2>4
  <2> QED BY <2>2, <2>5 DEF PreallocatedLen
<1> DEFINE len == IF grown THEN PreallocatedLen(content, kind) ELSE 0
<1> HIDE DEF image, len
<1>8. /\ file' \in Files /\ file'.header = NoHeader /\ Torn(file'.cells, image.cells, 0)
      /\ Len(file'.cells) = len
  <2>1. file' = Truncated(len) /\ len \in Nat
    BY <1>1, <1>7 DEF len
  <2> QED BY <1>6, <2>1, TruncatedIs
<1>9. /\ saved' \in Histories /\ saved'.by = by /\ saved'.vecs = content.vecs /\ saved'.lists = content.lists
      /\ saved'.ep = content.ep /\ saved'.payloads = content.payloads /\ saved'.metric = content.metric
      /\ saved'.version = version /\ saved'.grown = grown /\ saved'.whole = FALSE
  BY <1>1, <1>3, <1>4 DEF Histories, Words
<1>10. saving' \in Savings /\ saving'.image = image /\ saving'.at = 0
  BY <1>1, <1>5 DEF Savings
<1>11. pread' \in Readers /\ ReaderInv'
  BY <1>1, <1>2, ReaderStale DEF Inv
<1>12. ShapeOK'
  BY <1>1, <1>2, <1>8, <1>9, <1>10, <1>11 DEF Inv, ShapeOK
<1>13. SavedInv'
  BY <1>1, <1>9 DEF SavedInv
<1>14. SavedImage' = image
  <2> DEFINE d == AsStored(by, saved')
  <2>1. d.vecs = c.vecs /\ d.lists = c.lists /\ d.ep = c.ep /\ d.payloads = c.payloads
    BY <1>9 DEF Histories, AsStored
  <2>2. saved'.vecs = content.vecs /\ saved'.metric = content.metric
    BY <1>9
  <2>3. Written(by, saved', kind, version) = Written(by, content, kind, version)
    BY <2>1, <2>2, SameWritten
  <2> QED BY <1>9, <2>3 DEF SavedImage, image
<1>15. FileAt(0)'
  <2>1. ~grown => Len(file'.cells) = 0
    BY <1>8 DEF len
  <2> QED BY <1>8, <1>9, <1>10, <1>14, <2>1 DEF FileAt
<1>16. FileInv'
  BY <1>15 DEF FileInv
<1>17. IndexInv'
  BY KeepIndex DEF Inv
<1> QED BY <1>11, <1>12, <1>13, <1>16, <1>17 DEF Inv

LEMMA SaveStep ==
  ASSUME Inv, NEW version \in {VERSION, COMPACT_VERSION}, Save(version)
  PROVE  Inv'
<1>1. BeginWrite("memory", ix, kind, version) /\ UNCHANGED <<kind, ix, inserts>>
  BY DEF Save
<1>2. IndexOf(ix, kind)
  BY IndexParts
<1>3. ix.ep \in Seq(Nat) /\ ix.metric \in Nat
  <2>1. ix.ep \in Seq(Nat)
    BY <1>2 DEF IndexOf, Indexes, Words
  <2>2. ix.metric \in Metrics \cup {0}
    BY IndexParts
  <2>3. Metrics \cup {0} \subseteq Nat
    BY LabeledAssumption
  <2>4. ix.metric \in Nat
    BY <2>2, <2>3
  <2> QED BY <2>1, <2>4
<1> DEFINE c == AsStored("memory", ix)
<1>4. c.vecs = StoreBytes("memory", ix.vecs) /\ c.lists = ix.lists /\ c.ep = ix.ep /\ c.payloads = ix.payloads
  BY <1>2 DEF IndexOf, Indexes, AsStored
<1>5. c = AsStored("memory", ix)
  OBVIOUS
<1> HIDE DEF c
<1> QED BY <1>1, <1>2, <1>3, <1>4, <1>5, BeginStep DEF IndexOf

LEMMA SavePreadStep ==
  ASSUME Inv, NEW version \in {VERSION, COMPACT_VERSION}, SavePreadGraph(version)
  PROVE  Inv'
<1>1. BeginWrite("pread", pread, kind, version) /\ UNCHANGED <<kind, ix, inserts>> /\ kind = "none"
  BY DEF SavePreadGraph
<1>2. pread \in Readers /\ Sound(pread.vecs, pread.lists, pread.ep)
  BY DEF Inv, ShapeOK, ReaderInv
<1>3. pread.ep \in Seq(Nat) /\ pread.metric \in Nat /\ pread.payloads = <<>>
  BY <1>2 DEF Readers, Words
<1>4. ColumnFits(kind, pread.vecs, pread.payloads)
  <2>1. <<>> \in Seq(Nat)
    OBVIOUS
  <2> QED BY <1>1, <1>3, <2>1 DEF ColumnFits, Kinds
<1> DEFINE c == AsStored("pread", pread)
<1>5. /\ c.vecs = StoreBytes("pread", pread.vecs) /\ c.lists = pread.lists /\ c.ep = pread.ep
      /\ c.payloads = pread.payloads
  BY <1>2 DEF Readers, AsStored
<1>6. c = AsStored("pread", pread)
  OBVIOUS
<1> HIDE DEF c
<1> QED BY <1>1, <1>2, <1>3, <1>4, <1>5, <1>6, BeginStep

LEMMA EmptyImage ==
  ASSUME NEW c, c.vecs = <<>>, c.lists = <<>>, c.payloads = <<>>, NEW k \in Kinds, NEW metric, NEW version
  PROVE  Image(c, k, metric, version).cells \in Seq(Nat)
<1>1. <<>> \in Seq(Nat) /\ <<>> \in Lists /\ Len(<<>>) = 0
  BY DEF Lists
<1>2. c.vecs \in Seq(Nat) /\ c.lists \in Lists /\ c.payloads \in Seq(Nat)
      /\ \A i \in 1..Len(c.lists) : Len(c.lists[i]) # 0
  BY <1>1
<1> QED BY <1>2, ImageTyped

LEMMA NeverSavedIs ==
  ASSUME NEW by \in {"none", "mapping"}, NEW s, s = [NeverSaved EXCEPT !.by = by]
  PROVE  /\ s \in Histories /\ s.by = by /\ s.vecs = <<>> /\ s.lists = <<>> /\ s.ep = <<>> /\ s.payloads = <<>>
         /\ s.grown = FALSE /\ s.whole = FALSE
         /\ Sound(s.vecs, s.lists, s.ep) /\ \A k \in Kinds : ColumnFits(k, s.vecs, s.payloads)
<1>1. <<>> \in Seq(Nat) /\ <<>> \in Lists /\ Len(<<>>) = 0
  BY DEF Lists
<1>2. s \in Histories
  BY <1>1 DEF NeverSaved, Histories, Words
<1>3. /\ s.by = by /\ s.vecs = <<>> /\ s.lists = <<>> /\ s.ep = <<>> /\ s.payloads = <<>>
      /\ s.grown = FALSE /\ s.whole = FALSE
  BY DEF NeverSaved
<1>4. Sound(<<>>, <<>>, <<>>)
  BY <1>1 DEF Sound, NeighboursFit, FirstListFits, EntryFits
<1>5. \A k \in Kinds : ColumnFits(k, <<>>, <<>>)
  BY <1>1 DEF ColumnFits
<1> QED BY <1>2, <1>3, <1>4, <1>5

LEMMA OverMappingStep ==
  ASSUME Inv, SaveOverMapping
  PROVE  Inv'
<1>1. /\ ~saving.on /\ saves < MaxSaves /\ saves' = saves + 1
      /\ file' = Truncated(0) /\ ix' = Closed /\ saved' = [NeverSaved EXCEPT !.by = "mapping"]
      /\ pread' = [pread EXCEPT !.same = FALSE] /\ UNCHANGED <<kind, saving, inserts>>
  BY DEF SaveOverMapping
<1>2. kind \in Kinds /\ saves \in 0..MaxSaves /\ MaxSaves \in Nat /\ pread \in Readers /\ inserts \in 0..MaxInserts
      /\ saving \in Savings
  BY LabeledAssumption DEF Inv, ShapeOK
<1>3. IndexOf(ix', kind')
  BY <1>1, <1>2, ClosedOK
<1>4. ix' \in Indexes /\ IndexInv'
  BY <1>3 DEF IndexOf, IndexInv, Ids
<1>5. pread' \in Readers /\ ReaderInv'
  BY <1>1, <1>2, ReaderStale DEF Inv
<1>6. /\ saved' \in Histories /\ saved'.by = "mapping" /\ saved'.vecs = <<>> /\ saved'.lists = <<>>
      /\ saved'.ep = <<>> /\ saved'.payloads = <<>> /\ saved'.grown = FALSE /\ saved'.whole = FALSE
  BY <1>1, NeverSavedIs
<1>7. Sound(saved'.vecs, saved'.lists, saved'.ep) /\ ColumnFits(kind', saved'.vecs, saved'.payloads)
  BY <1>1, <1>2, NeverSavedIs
<1>8. SavedInv'
  BY <1>6, <1>7 DEF SavedInv
<1>9. SavedImage'.cells \in Seq(Nat)
  <2> DEFINE d == AsStored(saved'.by, saved')
             image == Image(d, kind', saved'.metric, saved'.version)
  <2>1. WrittenAs(SavedImage', image, saved', saved'.version)
    BY WrittenIs DEF SavedImage
  <2>2. d.vecs = <<>> /\ d.lists = <<>> /\ d.payloads = <<>>
    BY <1>6 DEF Histories, StoreBytes, AsStored
  <2>3. SavedImage'.cells = image.cells
    BY <2>1 DEF WrittenAs
  <2> HIDE DEF d
  <2>4. kind' \in Kinds
    BY <1>1, <1>2
  <2>5. image.cells \in Seq(Nat)
    BY <2>2, <2>4, EmptyImage
  <2> QED BY <2>3, <2>5
<1> DEFINE cells == SavedImage'.cells
<1> HIDE DEF cells
<1>10. file' \in Files /\ file'.header = NoHeader /\ Torn(file'.cells, cells, 0) /\ Len(file'.cells) = 0
  <2>1. cells \in Seq(Nat)
    BY <1>9 DEF cells
  <2> QED BY <1>1, <2>1, TruncatedIs
<1>11. ~saving'.on
  BY <1>1
<1>12. FileAt(0)'
  BY <1>6, <1>10, <1>11 DEF FileAt, cells
<1>13. FileInv'
  BY <1>12 DEF FileInv
<1>14. ShapeOK'
  BY <1>1, <1>2, <1>4, <1>5, <1>6, <1>10 DEF ShapeOK
<1> QED BY <1>4, <1>5, <1>8, <1>13, <1>14 DEF Inv

\* The cells after a word was written behind the first w.
LEMMA TornMore ==
  ASSUME NEW c, NEW image, NEW w, Torn(c, image, w), w + 1 <= Len(image), NEW d,
         d = IF w + 1 <= Len(c) THEN [c EXCEPT ![w + 1] = image[w + 1]] ELSE Append(c, image[w + 1])
  PROVE  Torn(d, image, w + 1) /\ Len(c) <= Len(d) /\ (Len(c) = w => Len(d) = w + 1)
<1>1. /\ c \in Seq(Nat) /\ image \in Seq(Nat) /\ w \in Nat /\ w <= Len(image) /\ w <= Len(c)
      /\ \A p \in 1..w : c[p] = image[p]
      /\ \A p \in (w + 1)..Len(c) : c[p] = 0
  BY DEF Torn
<1>2. Len(c) \in Nat /\ Len(image) \in Nat /\ c \in [1..Len(c) -> Nat]
  BY <1>1, LenProperties
<1>3. image[w + 1] \in Nat
  <2>1. w + 1 \in 1..Len(image)
    BY <1>1, <1>2
  <2> QED BY <1>1, <2>1, ElementOfSeq
<1> DEFINE x == image[w + 1]
           len == Len(c)
<1>6. w <= len /\ len \in Nat /\ w \in Nat
  BY <1>1, <1>2
<1> HIDE DEF x, len
<1>4. CASE w + 1 <= len
  <2>1. d = [c EXCEPT ![w + 1] = x]
    BY <1>4 DEF x, len
  <2>2. w + 1 \in 1..len
    BY <1>1, <1>4
  <2>3. c \in [1..len -> Nat] /\ x \in Nat /\ len \in Nat
    BY <1>2, <1>3 DEF x, len
  <2>4. d \in [1..len -> Nat] /\ d[w + 1] = x /\ \A p \in 1..len : p # w + 1 => d[p] = c[p]
    BY <2>1, <2>2, <2>3
  <2>5. d \in Seq(Nat) /\ Len(d) = len
    BY <2>3, <2>4, SeqDef, LenProperties
  <2>6. \A p \in 1..(w + 1) : d[p] = image[p]
    <3> SUFFICES ASSUME NEW p \in 1..(w + 1) PROVE d[p] = image[p]
      OBVIOUS
    <3>1. CASE p = w + 1
      BY <2>4, <3>1 DEF x
    <3>2. CASE p # w + 1
      <4>1. p \in 1..w /\ p \in 1..len
        BY <1>6, <2>2, <3>2
      <4> QED BY <1>1, <2>4, <3>2, <4>1
    <3> QED BY <3>1, <3>2
  <2>7. \A p \in ((w + 1) + 1)..len : d[p] = 0
    <3> SUFFICES ASSUME NEW p \in ((w + 1) + 1)..len PROVE d[p] = 0
      OBVIOUS
    <3>1. p \in (w + 1)..len /\ p \in 1..len /\ p # w + 1
      BY <1>1, <2>3
    <3> QED BY <1>1, <2>4, <3>1 DEF len
  <2>9. Torn(d, image, w + 1)
    BY <1>1, <1>4, <2>5, <2>6, <2>7 DEF Torn
  <2>10. len <= Len(d) /\ (len = w => Len(d) = w + 1)
    BY <1>1, <1>4, <2>3, <2>5
  <2> QED BY <2>9, <2>10 DEF len
<1>5. CASE ~(w + 1 <= len)
  <2>1. d = Append(c, x)
    BY <1>5 DEF x, len
  <2>2. len = w /\ x \in Nat
    BY <1>3, <1>5, <1>6 DEF x
  <2>3. d \in Seq(Nat) /\ Len(d) = Len(c) + 1 /\ d[Len(c) + 1] = x /\ \A p \in 1..Len(c) : d[p] = c[p]
    BY <1>1, <2>1, <2>2, AppendProperties
  <2>4. Len(d) = w + 1 /\ d[w + 1] = x /\ \A p \in 1..w : d[p] = c[p]
    BY <2>2, <2>3 DEF len
  <2>5. \A p \in 1..(w + 1) : d[p] = image[p]
    <3> SUFFICES ASSUME NEW p \in 1..(w + 1) PROVE d[p] = image[p]
      OBVIOUS
    <3>1. CASE p = w + 1
      BY <2>4, <3>1 DEF x
    <3>2. CASE p # w + 1
      <4>1. p \in 1..w
        BY <1>1, <3>2
      <4> QED BY <1>1, <2>4, <4>1
    <3> QED BY <3>1, <3>2
  <2>6. \A p \in ((w + 1) + 1)..Len(d) : d[p] = 0
    BY <1>1, <2>4
  <2>7. Torn(d, image, w + 1)
    BY <1>1, <2>3, <2>4, <2>5, <2>6 DEF Torn
  <2>8. len <= Len(d) /\ (len = w => Len(d) = w + 1)
    BY <1>1, <2>2, <2>4
  <2> QED BY <2>7, <2>8 DEF len
<1> QED BY <1>4, <1>5

LEMMA WriteStep ==
  ASSUME Inv, WriteNext
  PROVE  Inv'
<1> DEFINE at == saving.at
           image == SavedImage.cells
<1>1. /\ saving.on /\ at <= Len(saving.image.cells) /\ saving' = [saving EXCEPT !.at = at + 1]
      /\ file' = IF at = 0 THEN [file EXCEPT !.header = saving.image.header]
                 ELSE [file EXCEPT !.cells = IF at <= Len(file.cells)
                                             THEN [file.cells EXCEPT ![at] = saving.image.cells[at]]
                                             ELSE Append(file.cells, saving.image.cells[at])]
      /\ UNCHANGED <<kind, ix, pread, inserts, saves, saved>>
  BY DEF WriteNext
<1>2. PICK w \in Nat : FileAt(w)
  BY DEF Inv, FileInv
<1>3. /\ Torn(file.cells, image, w) /\ saving.image = SavedImage /\ ~saved.whole
      /\ saved.version \in {VERSION, COMPACT_VERSION}
      /\ ~saved.grown => Len(file.cells) = w
      /\ at = 0 => w = 0
      /\ at # 0 => w = at - 1 /\ file.header = SavedImage.header
  BY <1>1, <1>2 DEF FileAt
<1>4. saving \in Savings /\ file \in Files /\ at \in Nat /\ saving.image \in Files
  BY DEF Inv, ShapeOK, Savings
<1>5. /\ saving' \in Savings /\ saving'.on /\ saving'.image = saving.image /\ saving'.at = at + 1
  BY <1>1, <1>4 DEF Savings
<1>6. SavedImage' = SavedImage
  BY <1>1 DEF SavedImage
<1>7. IndexInv' /\ SavedInv'
  BY <1>1, KeepIndex, KeepSaved DEF Inv
<1>8. ReaderInv
  BY DEF Inv
<1>9. CASE at = 0
  <2>1. file' = [file EXCEPT !.header = saving.image.header]
    BY <1>1, <1>9
  <2>2. file' \in Files /\ file'.header = SavedImage.header /\ file'.cells = file.cells
    BY <1>3, <1>4, <2>1 DEF Files
  <2>3. w = 0 /\ saving'.at = 1
    BY <1>3, <1>5, <1>9
  <2> HIDE DEF at, image
  <2>4. FileAt(w)'
    BY <1>1, <1>3, <1>5, <1>6, <2>2, <2>3 DEF FileAt, image
  <2>5. FileInv'
    BY <2>4 DEF FileInv
  <2>6. ReaderInv'
    <3>1. ~pread.same \/ \A i \in 1..Len(pread.vecs) : FALSE
      <4>1. pread.same => \A i \in 1..Len(pread.vecs) : i < at
        BY <1>1, <1>8 DEF ReaderInv, at
      <4> QED BY <1>9, <4>1
    <3>2. \A hit \in pread.scored : HitOK(hit)'
      BY <1>1, <1>8 DEF ReaderInv, HitOK
    <3> QED BY <1>1, <1>8, <3>1, <3>2 DEF ReaderInv
  <2>7. ShapeOK'
    BY <1>1, <1>5, <2>2 DEF Inv, ShapeOK
  <2> QED BY <1>7, <2>5, <2>6, <2>7 DEF Inv
<1>10. CASE at # 0
  <2> DEFINE c == file.cells
             d == IF w + 1 <= Len(c) THEN [c EXCEPT ![w + 1] = image[w + 1]] ELSE Append(c, image[w + 1])
  <2>1. at = w + 1 /\ file.header = SavedImage.header
    BY <1>3, <1>4, <1>10
  <2>2. w + 1 <= Len(image)
    BY <1>1, <1>3, <2>1
  <2>3. file' = [file EXCEPT !.cells = d]
    BY <1>1, <1>3, <1>10, <2>1
  <2>4. d = IF w + 1 <= Len(c) THEN [c EXCEPT ![w + 1] = image[w + 1]] ELSE Append(c, image[w + 1])
    OBVIOUS
  <2> HIDE DEF d, c, image, at
  <2>5. Torn(c, image, w)
    BY <1>3 DEF c
  <2>6. Torn(d, image, w + 1) /\ Len(c) <= Len(d)
    BY <2>2, <2>4, <2>5, TornMore
  <2>7. Len(c) = w => Len(d) = w + 1
    BY <2>2, <2>4, <2>5, TornMore
  <2>8. \A p \in 1..w : d[p] = c[p]
    <3>1. \A p \in 1..w : c[p] = image[p]
      BY <2>5 DEF Torn
    <3>2. \A p \in 1..(w + 1) : d[p] = image[p]
      BY <2>6 DEF Torn
    <3>3. \A p \in 1..w : p \in 1..(w + 1)
      OBVIOUS
    <3> QED BY <3>1, <3>2, <3>3
  <2>9. d \in Seq(Nat)
    BY <2>6 DEF Torn
  <2>10. file' \in Files /\ file'.header = file.header /\ file'.cells = d
    BY <1>4, <2>3, <2>9 DEF Files, Words
  <2>11. w + 1 \in Nat /\ saving'.at # 0 /\ w + 1 = saving'.at - 1
    BY <1>4, <1>5, <2>1
  <2>12. FileAt(w + 1)'
    <3>1. Torn(file'.cells, SavedImage'.cells, w + 1)
      BY <1>6, <2>6, <2>10 DEF image
    <3>2. ~saved'.grown => Len(file'.cells) = w + 1
      BY <1>1, <1>3, <2>7, <2>10 DEF c
    <3>3. /\ file'.header = SavedImage'.header /\ saving'.image = SavedImage' /\ ~saved'.whole
          /\ saved'.version \in {VERSION, COMPACT_VERSION}
      BY <1>1, <1>3, <1>5, <1>6, <2>1, <2>10
    <3> QED BY <2>11, <3>1, <3>2, <3>3 DEF FileAt
  <2>13. FileInv'
    BY <2>11, <2>12 DEF FileInv
  <2>14. ReaderInv'
    <3>1. ASSUME pread.same, NEW i \in 1..Len(pread.vecs)
          PROVE  i <= Len(d) /\ d[i] = pread.vecs[i] /\ i < saving'.at
      <4>1. i <= Len(c) /\ c[i] = pread.vecs[i] /\ i < at
        BY <1>1, <1>8, <3>1 DEF ReaderInv, c, at
      <4>2. i \in Nat /\ Len(c) \in Nat /\ Len(d) \in Nat
        BY <2>5, <2>9, LenProperties DEF Torn
      <4>3. i \in 1..w /\ i < at + 1
        BY <1>4, <2>1, <4>1, <4>2
      <4> QED BY <1>5, <2>6, <2>8, <4>1, <4>2, <4>3
    <3>2. \A hit \in pread.scored : HitOK(hit)'
      BY <1>1, <1>8 DEF ReaderInv, HitOK
    <3>3. pread'.same => \A i \in 1..Len(pread'.vecs) :
             i <= Len(file'.cells) /\ file'.cells[i] = pread'.vecs[i] /\ (saving'.on => i < saving'.at)
      BY <1>1, <2>10, <3>1
    <3> QED BY <1>1, <1>8, <3>2, <3>3 DEF ReaderInv
  <2>15. ShapeOK'
    BY <1>1, <1>5, <2>10 DEF Inv, ShapeOK
  <2> QED BY <1>7, <2>13, <2>14, <2>15 DEF Inv
<1> QED BY <1>9, <1>10

\* A save that ended, with its last word written or without.
LEMMA StopStep ==
  ASSUME Inv, saving' = NotSaving, UNCHANGED <<kind, file, pread, inserts, saves>>,
         ix' \in Indexes, IndexInv',
         \/ saved' = saved
         \/ /\ saving.on /\ saving.at = Len(saving.image.cells) + 1
            /\ saved' = [saved EXCEPT !.whole = TRUE]
  PROVE  Inv'
<1>1. PICK w \in Nat : FileAt(w)
  BY DEF Inv, FileInv
<1>2. saved \in Histories /\ saving \in Savings
  BY DEF Inv, ShapeOK
<1>3. saving' \in Savings /\ saving'.on = FALSE
  <2>1. NoFile \in Files
    <3>1. <<>> \in Seq(Nat)
      OBVIOUS
    <3> QED BY <3>1 DEF NoFile, NoHeader, Files, Headers, Words
  <2> QED BY <2>1 DEF NotSaving, Savings
<1>4. /\ saved' \in Histories /\ saved'.by = saved.by /\ saved'.vecs = saved.vecs /\ saved'.lists = saved.lists
      /\ saved'.ep = saved.ep /\ saved'.payloads = saved.payloads /\ saved'.metric = saved.metric
      /\ saved'.version = saved.version /\ saved'.grown = saved.grown
  BY <1>2 DEF Histories
<1>5. SavedImage' = SavedImage
  BY <1>2, <1>4, SameImage
<1>6. saved'.whole => w = Len(SavedImage.cells) /\ file.header = SavedImage.header
  <2>1. CASE saved' = saved
    BY <1>1, <2>1 DEF FileAt
  <2>2. CASE saving.on /\ saving.at = Len(saving.image.cells) + 1
    <3> DEFINE len == Len(SavedImage.cells)
               at == saving.at
    <3>1. saving.image = SavedImage /\ at = len + 1 /\ len \in Nat
      <4>1. saving.image = SavedImage
        BY <1>1, <2>2 DEF FileAt
      <4>2. len \in Nat
        BY <1>1, LenProperties DEF FileAt, Torn
      <4> QED BY <2>2, <4>1, <4>2
    <3>2. at # 0 => w = at - 1 /\ file.header = SavedImage.header
      BY <1>1, <2>2 DEF FileAt
    <3> HIDE DEF len, at
    <3>3. w = len /\ file.header = SavedImage.header
      BY <3>1, <3>2
    <3> QED BY <3>3 DEF len
  <2> QED BY <2>1, <2>2
<1>7. FileAt(w)'
  <2>1. saved'.whole => saved.version \in {VERSION, COMPACT_VERSION}
    BY <1>1 DEF FileAt
  <2> QED BY <1>1, <1>3, <1>4, <1>5, <1>6, <2>1 DEF FileAt
<1>8. FileInv'
  BY <1>7 DEF FileInv
<1>9. SavedInv'
  BY <1>4 DEF Inv, SavedInv
<1>10. ReaderInv'
  <2>1. ReaderInv
    BY DEF Inv
  <2>2. \A hit \in pread.scored : HitOK(hit)'
    BY <2>1 DEF ReaderInv, HitOK
  <2> QED BY <1>3, <2>1, <2>2 DEF ReaderInv
<1>11. ShapeOK'
  BY <1>3, <1>4 DEF Inv, ShapeOK
<1> QED BY <1>8, <1>9, <1>10, <1>11 DEF Inv

LEMMA EndSaveStep ==
  ASSUME Inv, EndSave \/ FailSave
  PROVE  Inv'
<1>1. saving' = NotSaving /\ UNCHANGED <<kind, ix, file, pread, inserts, saves>>
  BY DEF EndSave, FailSave
<1>2. \/ saved' = saved
      \/ /\ saving.on /\ saving.at = Len(saving.image.cells) + 1
         /\ saved' = [saved EXCEPT !.whole = TRUE]
  BY DEF EndSave, FailSave
<1>3. IndexInv' /\ ix' \in Indexes
  BY <1>1, KeepIndex DEF Inv, ShapeOK
<1> QED BY <1>1, <1>2, <1>3, StopStep

LEMMA CrashStep ==
  ASSUME Inv, Crash
  PROVE  Inv'
<1>1. saving' = NotSaving /\ ix' = Closed /\ saved' = saved /\ UNCHANGED <<kind, file, pread, inserts, saves>>
  BY DEF Crash
<1>2. kind \in Kinds
  BY DEF Inv, ShapeOK
<1>3. IndexOf(ix', kind')
  BY <1>1, <1>2, ClosedOK
<1>4. ix' \in Indexes /\ IndexInv'
  BY <1>3 DEF IndexOf, IndexInv, Ids
<1> QED BY <1>1, <1>4, StopStep

-----------------------------------------------------------------------------
(* Steps of the positional reader                                          *)

LEMMA NotOpenedIs ==
  /\ NotOpened \in Readers /\ NotOpened.vecs = <<>> /\ NotOpened.lists = <<>> /\ NotOpened.ep = <<>>
  /\ NotOpened.scored = {} /\ ~NotOpened.answer.ok
  /\ Sound(<<>>, <<>>, <<>>)
<1>1. <<>> \in Seq(Nat) /\ <<>> \in Lists /\ Len(<<>>) = 0
  BY DEF Lists
<1>2. NotOpened \in Readers
  BY <1>1 DEF NotOpened, Readers, Answers, Words
<1>3. Sound(<<>>, <<>>, <<>>)
  BY <1>1 DEF Sound, NeighboursFit, FirstListFits, EntryFits
<1>4. /\ NotOpened.vecs = <<>> /\ NotOpened.lists = <<>> /\ NotOpened.ep = <<>>
      /\ NotOpened.scored = {} /\ NotOpened.answer = Refused
  BY DEF NotOpened
<1>5. ~Refused.ok
  BY DEF Refused
<1> QED BY <1>2, <1>3, <1>4, <1>5

LEMMA OpenStep ==
  ASSUME Inv, NEW opener \in Metrics, OpenPread(opener)
  PROVE  Inv'
<1> DEFINE g == LoadPread(file, opener)
           n == Len(saved.vecs)
<1>1. /\ g.ok
      /\ pread' = [NotOpened EXCEPT !.on = TRUE, !.metric = opener, !.vecs = g.vecs, !.lists = g.lists, !.ep = g.ep]
      /\ UNCHANGED <<kind, ix, file, saving, inserts, saves, saved>>
  BY DEF OpenPread
<1>2. Valid /\ g = Graph(file)
  BY <1>1, GraphReader DEF LoadPread
<1>3. ShapeOK /\ SavedInv /\ FileInv /\ saved.ep \in Seq(Nat) /\ saving \in Savings
  BY DEF Inv, ShapeOK, Histories, Words
<1>4. PICK w, S, end : Backed(w, S, end)
  BY <1>2, <1>3, AcceptedFile DEF Valid
<1> HIDE DEF g
<1>5. GraphAsSaved(g)
  BY <1>2, <1>3, <1>4, GraphIsAsSaved DEF Valid
<1>6. ReadsAs(g, file, w, saved.vecs, saved.lists, n, end)
  BY <1>2, <1>3, <1>4, GraphIsAsSaved DEF Valid
<1>7. Sound(g.vecs, g.lists, g.ep) /\ g.vecs = saved.vecs /\ g.ep = saved.ep
  BY <1>5 DEF GraphAsSaved, SameVectors
<1>8. g.vecs \in Seq(Nat) /\ g.lists \in Lists /\ g.ep \in Seq(Nat) /\ n \in Nat
  BY <1>3, <1>7, LenProperties DEF Sound
<1>9. opener \in Nat
  BY LabeledAssumption
<1>10. pread' \in Readers
  BY <1>1, <1>8, <1>9, NotOpenedIs DEF Readers, Words
<1>11. /\ pread'.vecs = g.vecs /\ pread'.lists = g.lists /\ pread'.ep = g.ep
       /\ pread'.scored = {} /\ ~pread'.answer.ok
  BY <1>1, NotOpenedIs DEF Readers
<1>12. ASSUME NEW i \in 1..Len(g.vecs)
       PROVE  i <= Len(file.cells) /\ file.cells[i] = g.vecs[i] /\ (saving.on => i < saving.at)
  <2> DEFINE image == SavedImage.cells
  <2>1. FileOf(file, image, w, saved.vecs, saved.lists, n, S, end)
    BY <1>4 DEF Backed
  <2>2. 3 * n <= w /\ w \in Nat /\ Torn(file.cells, image, w)
    BY <1>6, <2>1 DEF ReadsAs, FileOf, Torn
  <2>3. i \in 1..n /\ image[i] = saved.vecs[i]
    BY <1>7, <2>1 DEF FileOf, TablesOK
  <2>4. i \in 1..w
    BY <1>8, <2>2, <2>3
  <2>5. file.cells[i] = g.vecs[i]
    BY <1>7, <2>2, <2>3, <2>4 DEF Torn
  <2>6. i <= Len(file.cells)
    <3>1. w <= Len(file.cells) /\ Len(file.cells) \in Nat
      BY <2>2, LenProperties DEF Torn
    <3> QED BY <2>2, <2>4, <3>1
  <2>7. saving.on => i < saving.at
    <3> SUFFICES ASSUME saving.on PROVE i < saving.at
      OBVIOUS
    <3> DEFINE at == saving.at
    <3>1. FileAt(w)
      BY <1>4 DEF Backed
    <3>2. at \in Nat
      BY <1>3 DEF Savings
    <3>3. (at = 0 => w = 0) /\ (at # 0 => w = at - 1)
      BY <3>1 DEF FileAt
    <3> HIDE DEF at
    <3>4. i < at
      BY <2>2, <2>4, <3>2, <3>3
    <3> QED BY <3>4 DEF at
  <2> QED BY <2>5, <2>6, <2>7
<1>13. ReaderInv'
  BY <1>1, <1>7, <1>11, <1>12 DEF ReaderInv
<1> QED BY <1>1, <1>10, <1>13, ReaderStep

LEMMA ResultStep ==
  ASSUME Inv, IntoResult
  PROVE  Inv'
<1>1. /\ pread' = [pread EXCEPT !.done = TRUE,
                    !.answer = IF pread.error THEN Refused ELSE [ok |-> TRUE, hits |-> pread.scored]]
      /\ UNCHANGED <<kind, ix, file, saving, inserts, saves, saved>>
  BY DEF IntoResult
<1>2. pread \in Readers /\ ReaderInv
  BY DEF Inv, ShapeOK
<1>3. (IF pread.error THEN Refused ELSE [ok |-> TRUE, hits |-> pread.scored]) \in Answers
  BY <1>2 DEF Readers, Answers
<1>4. /\ pread' \in Readers /\ pread'.vecs = pread.vecs /\ pread'.lists = pread.lists /\ pread'.ep = pread.ep
      /\ pread'.scored = pread.scored /\ pread'.error = pread.error /\ pread'.same = pread.same
      /\ pread'.done = TRUE
      /\ pread'.answer = IF pread.error THEN Refused ELSE [ok |-> TRUE, hits |-> pread.scored]
  BY <1>1, <1>2, <1>3 DEF Readers
<1>5. pread'.answer.ok => ~pread'.error /\ pread'.answer.hits = pread'.scored
  <2>1. ~Refused.ok
    BY DEF Refused
  <2>2. CASE pread.error
    BY <1>4, <2>1, <2>2
  <2>3. CASE ~pread.error
    <3>1. pread'.answer = [ok |-> TRUE, hits |-> pread.scored]
      BY <1>4, <2>3
    <3> QED BY <1>4, <2>3, <3>1
  <2> QED BY <2>2, <2>3
<1>6. \A hit \in pread'.scored : HitOK(hit)'
  <2>1. \A hit \in pread.scored : HitOK(hit)
    BY <1>2 DEF ReaderInv
  <2> QED BY <1>4, <2>1 DEF HitOK
<1>7. Sound(pread'.vecs, pread'.lists, pread'.ep)
  BY <1>2, <1>4 DEF ReaderInv
<1>8. pread'.same => \A i \in 1..Len(pread'.vecs) :
         i <= Len(file'.cells) /\ file'.cells[i] = pread'.vecs[i] /\ (saving'.on => i < saving'.at)
  BY <1>1, <1>2, <1>4 DEF ReaderInv
<1>9. ReaderInv'
  BY <1>4, <1>5, <1>6, <1>7, <1>8 DEF ReaderInv
<1> QED BY <1>1, <1>4, <1>9, ReaderStep

LEMMA CloseStep ==
  ASSUME Inv, ClosePread
  PROVE  Inv'
<1>1. pread' = NotOpened /\ UNCHANGED <<kind, ix, file, saving, inserts, saves, saved>>
  BY DEF ClosePread
<1>2. \A i \in 1..Len(<<>>) : FALSE
  OBVIOUS
<1>3. ReaderInv'
  BY <1>1, <1>2, NotOpenedIs DEF ReaderInv
<1> QED BY <1>1, <1>3, NotOpenedIs, ReaderStep

\* A node that a search may score is a vector of the reader's.
LEMMA ReachableIds ==
  ASSUME Inv, NEW id \in Reachable
  PROVE  id \in 0..(Len(pread.vecs) - 1)
<1> DEFINE n == Len(pread.vecs)
           lists == pread.lists
<1>1. Sound(pread.vecs, lists, pread.ep) /\ \A hit \in pread.scored : hit.id \in 0..(n - 1)
  BY DEF Inv, ReaderInv, HitOK
<1>2. n \in Nat /\ Len(lists) = n /\ \A i \in 1..n : Len(lists[i]) \in Nat \ {0}
  BY <1>1, SoundSizes DEF Sound
<1>3. pread.ep # <<>>
  BY DEF Reachable
<1>4. CASE id = pread.ep[1]
  BY <1>1, <1>2, <1>3, <1>4 DEF Sound, EntryFits
<1>5. CASE id # pread.ep[1]
  <2>1. PICK x \in ScoredIds : \E j \in DOMAIN lists[x + 1][1] : id = lists[x + 1][1][j]
    BY <1>3, <1>5 DEF Reachable
  <2>2. x \in 0..(n - 1)
    BY <1>1, <2>1 DEF ScoredIds
  <2> DEFINE i == x + 1
  <2>3. i \in 1..n /\ 1 \in 1..Len(lists[i])
    BY <1>2, <2>2
  <2>4. lists[i][1] \in Seq(Nat)
    BY <1>1, <2>3, SoundSizes
  <2>5. PICK j \in DOMAIN lists[i][1] : id = lists[i][1][j]
    BY <2>1
  <2> HIDE DEF i
  <2>6. j \in 1..Len(lists[i][1])
    BY <2>4, <2>5, LenProperties
  <2>7. id \in Nat
    BY <2>4, <2>5, <2>6, ElementOfSeq
  <2>8. id < n
    BY <1>1, <2>3, <2>5, <2>6 DEF Sound, NeighboursFit
  <2> QED BY <1>2, <2>7, <2>8
<1> QED BY <1>4, <1>5

LEMMA ReadStep ==
  ASSUME Inv, NEW id \in Reachable, NEW fails \in BOOLEAN, ReadVector(id, fails)
  PROVE  Inv'
<1> DEFINE read == ~fails /\ id + 1 <= Len(file.cells)
           new == [id |-> id, read |-> read, value |-> IF read THEN file.cells[id + 1] ELSE 0]
<1>1. /\ pread' = [pread EXCEPT !.scored = @ \cup {new}, !.error = @ \/ ~read]
      /\ ~pread.done /\ UNCHANGED <<kind, ix, file, saving, inserts, saves, saved>>
  BY DEF ReadVector
<1>2. pread \in Readers /\ ReaderInv /\ file.cells \in Seq(Nat)
  BY DEF Inv, ShapeOK, Files, Words
<1>3. id \in 0..(Len(pread.vecs) - 1) /\ id \in Nat
  <2>1. id \in 0..(Len(pread.vecs) - 1)
    BY ReachableIds
  <2>2. Len(pread.vecs) \in Nat
    BY <1>2, SoundSizes DEF ReaderInv
  <2> QED BY <2>1, <2>2
<1>4. read \in BOOLEAN /\ new.id = id /\ new.read = read /\ new.value = IF read THEN file.cells[id + 1] ELSE 0
  OBVIOUS
<1>5. new \in Hits
  <2>1. read => file.cells[id + 1] \in Nat
    <3> SUFFICES ASSUME read PROVE file.cells[id + 1] \in Nat
      OBVIOUS
    <3>1. Len(file.cells) \in Nat
      BY <1>2, LenProperties
    <3>2. id + 1 \in 1..Len(file.cells)
      BY <1>3, <3>1
    <3> QED BY <1>2, <3>2, ElementOfSeq
  <2> QED BY <1>3, <2>1 DEF Hits
<1> HIDE DEF read, new
<1>6. /\ pread' \in Readers /\ pread'.vecs = pread.vecs /\ pread'.lists = pread.lists /\ pread'.ep = pread.ep
      /\ pread'.scored = pread.scored \cup {new} /\ pread'.error = (pread.error \/ ~read)
      /\ pread'.same = pread.same /\ pread'.answer = pread.answer
  BY <1>1, <1>2, <1>4, <1>5 DEF Readers
<1>7. ~pread'.answer.ok
  BY <1>1, <1>2, <1>6 DEF ReaderInv
<1>8. ASSUME NEW hit \in pread'.scored PROVE HitOK(hit)'
  <2>1. CASE hit \in pread.scored
    <3>1. HitOK(hit)
      BY <1>2, <2>1 DEF ReaderInv
    <3> QED BY <1>6, <3>1 DEF HitOK
  <2>2. CASE hit = new
    <3>1. hit.id \in 0..(Len(pread'.vecs) - 1) /\ (hit.read \/ pread'.error)
      BY <1>3, <1>4, <1>6, <2>2
    <3>2. ASSUME hit.read, pread'.same PROVE hit.value = pread'.vecs[hit.id + 1]
      <4>1. hit.value = file.cells[id + 1] /\ hit.id = id
        BY <1>4, <2>2, <3>2
      <4>2. Len(pread.vecs) \in Nat
        BY <1>2, SoundSizes DEF ReaderInv
      <4>3. id + 1 \in 1..Len(pread.vecs)
        BY <1>3, <4>2
      <4>4. file.cells[id + 1] = pread.vecs[id + 1]
        BY <1>2, <1>6, <3>2, <4>3 DEF ReaderInv
      <4> QED BY <1>6, <4>1, <4>4
    <3> QED BY <3>1, <3>2 DEF HitOK
  <2> QED BY <1>6, <2>1, <2>2
<1>9. Sound(pread'.vecs, pread'.lists, pread'.ep)
  BY <1>2, <1>6 DEF ReaderInv
<1>10. pread'.same => \A i \in 1..Len(pread'.vecs) :
         i <= Len(file'.cells) /\ file'.cells[i] = pread'.vecs[i] /\ (saving'.on => i < saving'.at)
  BY <1>1, <1>2, <1>6 DEF ReaderInv
<1>11. ReaderInv'
  BY <1>7, <1>8, <1>9, <1>10 DEF ReaderInv
<1> QED BY <1>1, <1>6, <1>11, ReaderStep

-----------------------------------------------------------------------------
(* The invariant holds                                                     *)

LEMMA InitInv ==
  ASSUME Init
  PROVE  Inv
<1>1. /\ kind \in Kinds /\ ix = Closed /\ file = NoFile /\ saving = NotSaving /\ pread = NotOpened
      /\ inserts = 0 /\ saves = 0 /\ saved = NeverSaved
  BY DEF Init
<1>2. <<>> \in Seq(Nat) /\ Len(<<>>) = 0
  OBVIOUS
<1>3. IndexOf(ix, kind)
  BY <1>1, ClosedOK
<1>4. ix \in Indexes /\ IndexInv
  BY <1>3 DEF IndexOf, IndexInv, Ids
<1>5. NoFile \in Files /\ NoFile.header = NoHeader /\ NoFile.cells = <<>>
  BY <1>2 DEF NoFile, NoHeader, Files, Headers, Words
<1>6. saving \in Savings /\ ~saving.on
  BY <1>1, <1>5 DEF NotSaving, Savings
<1>7. NeverSaved = [NeverSaved EXCEPT !.by = "none"]
  BY DEF NeverSaved
<1>8. /\ saved \in Histories /\ saved.by = "none" /\ saved.vecs = <<>> /\ saved.lists = <<>>
      /\ saved.ep = <<>> /\ saved.payloads = <<>> /\ saved.grown = FALSE /\ saved.whole = FALSE
  BY <1>1, <1>7, NeverSavedIs
<1>9. Sound(saved.vecs, saved.lists, saved.ep) /\ ColumnFits(kind, saved.vecs, saved.payloads)
  BY <1>1, <1>7, NeverSavedIs
<1>10. SavedInv
  BY <1>8, <1>9 DEF SavedInv
<1>11. SavedImage.cells \in Seq(Nat)
  <2> DEFINE c == SavedIndex
  <2>1. c.vecs = <<>> /\ c.lists = <<>> /\ c.payloads = <<>>
    BY <1>8 DEF SavedIndex, AsStored, Histories, StoreBytes
  <2> HIDE DEF c
  <2>2. SavedImage.cells = Image(c, kind, saved.metric, saved.version).cells
    <3>1. WrittenAs(SavedImage, Image(c, kind, saved.metric, saved.version), saved, saved.version)
      BY WrittenIs DEF SavedImage, SavedIndex, c
    <3> QED BY <3>1 DEF WrittenAs
  <2> QED BY <1>1, <2>1, <2>2, EmptyImage
<1> DEFINE cells == SavedImage.cells
<1> HIDE DEF cells
<1>12. Torn(<<>>, cells, 0)
  <2>1. cells \in Seq(Nat)
    BY <1>11 DEF cells
  <2>2. Len(cells) \in Nat
    BY <2>1, LenProperties
  <2> QED BY <1>2, <2>1, <2>2 DEF Torn
<1>13. FileAt(0)
  BY <1>1, <1>2, <1>5, <1>6, <1>8, <1>12 DEF FileAt, cells
<1>14. FileInv
  BY <1>13 DEF FileInv
<1>15. pread \in Readers /\ ReaderInv
  <2>1. \A i \in 1..Len(<<>>) : FALSE
    BY <1>2
  <2> QED BY <1>1, <2>1, NotOpenedIs DEF ReaderInv
<1>16. ShapeOK
  BY <1>1, <1>4, <1>5, <1>6, <1>8, <1>15, LabeledAssumption DEF ShapeOK
<1> QED BY <1>4, <1>10, <1>14, <1>15, <1>16 DEF Inv

LEMMA StutterStep ==
  ASSUME Inv, UNCHANGED vars
  PROVE  Inv'
<1>1. UNCHANGED <<kind, file, saving, pread, saves, saved, ix, inserts>>
  BY DEF vars
<1>2. ix' \in Indexes /\ inserts' \in 0..MaxInserts
  BY <1>1 DEF Inv, ShapeOK
<1>3. IndexInv'
  BY <1>1, KeepIndex DEF Inv
<1> QED BY <1>1, <1>2, <1>3, IndexStep

LEMMA NextInv ==
  ASSUME Inv, [Next]_vars
  PROVE  Inv'
<1>1. CASE \E metric \in Metrics : New(metric)
  BY <1>1, NewStep
<1>2. CASE \E level \in 0..TopLevel : Insert(level)
  BY <1>2, InsertStep
<1>3. CASE \E id \in Ids : Remove(id) \/ Restore(id)
  BY <1>3, RemoveStep
<1>4. CASE \E n \in 0..MaxInserts : \E levels \in [1..n -> 0..TopLevel] : Compact(levels)
  <2>1. PICK n \in 0..MaxInserts : \E levels \in [1..n -> 0..TopLevel] : Compact(levels)
    BY <1>4
  <2>2. PICK levels \in [1..n -> 0..TopLevel] : Compact(levels)
    BY <2>1
  <2> QED BY <2>2, CompactStep
<1>5. CASE \E version \in {VERSION, COMPACT_VERSION} : Save(version) \/ SavePreadGraph(version)
  <2>1. PICK version \in {VERSION, COMPACT_VERSION} : Save(version) \/ SavePreadGraph(version)
    BY <1>5
  <2>2. CASE Save(version)
    BY <2>2, SaveStep
  <2>3. CASE SavePreadGraph(version)
    BY <2>3, SavePreadStep
  <2> QED BY <2>1, <2>2, <2>3
<1>6. CASE SaveOverMapping
  BY <1>6, OverMappingStep
<1>7. CASE WriteNext
  BY <1>7, WriteStep
<1>8. CASE EndSave \/ FailSave
  BY <1>8, EndSaveStep
<1>9. CASE Crash
  BY <1>9, CrashStep
<1>10. CASE \E how \in {"owned", "mapped", "fixed"}, opener \in Metrics : Load(how, opener)
  <2>1. PICK how \in {"owned", "mapped", "fixed"}, opener \in Metrics : Load(how, opener)
    BY <1>10
  <2> QED BY <2>1, LoadStep
<1>11. CASE \E opener \in Metrics : OpenPread(opener)
  BY <1>11, OpenStep
<1>12. CASE IntoResult
  BY <1>12, ResultStep
<1>13. CASE ClosePread
  BY <1>13, CloseStep
<1>14. CASE \E id \in Reachable, fails \in BOOLEAN : ReadVector(id, fails)
  BY <1>14, ReadStep
<1>15. CASE UNCHANGED vars
  BY <1>15, StutterStep
<1> QED BY <1>1, <1>2, <1>3, <1>4, <1>5, <1>6, <1>7, <1>8, <1>9, <1>10, <1>11, <1>12, <1>13, <1>14, <1>15
        DEF Next

\* Whatever is inserted, removed, compacted, saved, cut short, loaded or opened,
\* and in whatever order, the file has a beginning of the image of the last
\* save, and the index and the reader's graph are sound.
THEOREM Invariant ==
  Spec => []Inv
<1>1. Init => Inv
  BY InitInv
<1>2. Inv /\ [Next]_vars => Inv'
  BY NextInv
<1> QED BY <1>1, <1>2, PTL DEF Spec

\* The index has as many lists as vectors, tombstones that are ids and an entry
\* point on its own level, loaded from a torn file or not (LabeledIndex, Hnsw),
\* and a save never writes beyond its image.
THEOREM TypeCorrect ==
  Spec => []TypeOK
<1>1. Inv => TypeOK
  BY InvType
<1> QED BY <1>1, Invariant, PTL

\* What a labeled result shows for an id is the vector and the payload that
\* were inserted together, or no payload at all (LabeledIndex::insert, compacted,
\* save, load and the two mapped loaders).
THEOREM PayloadsStayAligned ==
  Spec => []PayloadAligned
<1>1. Inv => PayloadAligned
  BY InvAligned
<1> QED BY <1>1, Invariant, PTL

\* A file that a save left torn costs a reader that accepts it (validate_mapped_graph,
\* read_graph, read_payloads) links of the two last nodes and payloads
\* of the last ones, and nothing else.
THEOREM TornFilesAreBounded ==
  Spec => []TornIsBounded
<1>1. Inv => TornIsBounded
  BY InvTorn
<1> QED BY <1>1, Invariant, PTL

\* A file that was not lengthened in advance (save; File::set_len failed) is
\* refused wherever it was cut, or is what was saved.
THEOREM PrefixesAreRefused ==
  Spec => []PrefixIsRefused
<1>1. Inv => PrefixIsRefused
  BY InvPrefix
<1> QED BY <1>1, Invariant, PTL

\* What a save that returned Ok leaves behind: resident vectors come back as
\* they were saved from every reader that the format and the recorded metric
\* admit (load, load_mmap, load_pread, the payload loaders); no reader opens
\* the file by another metric (check_metric), finds payloads where none were
\* written, or maps payloads of another width.
THEOREM SavesAreReadable ==
  Spec => []SavedIsReadable
<1>1. Inv => SavedIsReadable
  BY InvReadable
<1> QED BY <1>1, Invariant, PTL

\* A positional search that returns Ok (ReadState::into_result) scored every
\* node by its own vector, if no save touched the file meanwhile.
THEOREM PreadsAreExact ==
  Spec => []PreadIsExact
<1>1. Inv => PreadIsExact
  BY InvPread
<1> QED BY <1>1, Invariant, PTL

=============================================================================
