----------------------------- MODULE LoopProofs -----------------------------
(***************************************************************************)
(* Two loops of the source for inputs of every size.  FoldIsExact: the     *)
(* invariant of the loops of every kernel says that below the running      *)
(* index each term was counted once, in one accumulator, and from it on    *)
(* not at all.  PickIsAlgorithm4: the invariant of the selection loop says *)
(* at which positions the candidates selected and discarded so far stand.  *)
(***************************************************************************)
EXTENDS Kernels, SelectionLoop, SequenceTheorems, FiniteSetTheorems, TLAPS

USE KernelsAssumption

-----------------------------------------------------------------------------
(* The kernels                                                             *)

Counts == [Index -> Nat]

\* What a terms-counter holds when the elements below n are in it.
CountedBelow(n, terms) == \A j \in Index : terms[j] = IF j < n THEN 1 ELSE 0

\* No accumulator holds an element at n or past it.
EmptyFrom(n) == \A l \in Slot, j \in Index : j >= n => acc[l][j] = 0

CallOK ==
  /\ metric \in MetricNames /\ shape \in Shapes
  /\ call \in 1..Len(Calls(metric))

LoopOK ==
  /\ kernel \in Kernels
  /\ i \in 0..N
  /\ acc \in [Slot -> Counts] /\ sum \in Counts

Phases == {"between", "blas", "vector", "scalar", "returned"}

\* The inductive invariant.
Inv ==
  /\ CallOK
  /\ phase \in Phases
  /\ phase # "between" => LoopOK
  /\ phase = "blas" => i = 0 /\ EmptyFrom(0) /\ CountedBelow(0, sum)
  /\ phase = "vector" =>
       /\ CountedBelow(0, sum) /\ EmptyFrom(i)
       /\ \A j \in Index : Total(j) = IF j < i THEN 1 ELSE 0
  /\ phase \in {"scalar", "returned"} => EmptyFrom(N) /\ CountedBelow(i, sum)
  /\ phase = "returned" => i = N

-----------------------------------------------------------------------------
\* The common prefix of the slices of a call is never longer than the bound.
LEMMA PrefixBounded ==
  ASSUME CallOK
  PROVE  N \in 0..LongestSlice
<1>1. shape[1] \in 0..LongestSlice /\ shape[2] \in 0..LongestSlice
  BY DEF CallOK
<1>2. Calls(metric)[call][2] \in {1, 2} /\ Calls(metric)[call][3] \in {1, 2}
  <2>1. CASE metric \in {"SquaredEuclidean", "Euclidean", "Manhattan", "DotProduct"}
    <3>1. Calls(metric) \in {<<<<"l2_squared", 1, 2>>>>, <<<<"l1", 1, 2>>>>, <<<<"dot", 1, 2>>>>}
      BY <2>1 DEF Calls
    <3>2. call = 1
      BY <3>1 DEF CallOK
    <3> QED BY <3>1, <3>2
  <2>2. CASE metric = "Cosine"
    <3>1. Calls(metric) = <<<<"dot", 1, 2>>, <<"norm", 1, 1>>, <<"norm", 2, 2>>>>
      BY <2>2 DEF Calls
    <3>2. call \in {1, 2, 3}
      BY <3>1 DEF CallOK
    <3> QED BY <3>1, <3>2
  <2> QED BY <2>1, <2>2 DEF CallOK, MetricNames
<1> QED BY <1>1, <1>2 DEF N, Shorter

\* A kernel is chosen among those the properties of the loops are known for.
LEMMA DispatchedIsKernel ==
  ASSUME NEW op PROVE Dispatched(op) \in Kernels
BY DEF Dispatched, Kernels, Neon

\* Adding a set of indices to a counter.
LEMMA AddedCounts ==
  ASSUME NEW terms \in Counts, NEW S
  PROVE  /\ Added(terms, S) \in Counts
         /\ \A j \in Index : Added(terms, S)[j] = IF j \in S THEN terms[j] + 1 ELSE terms[j]
BY DEF Added, Counts

\* The blocks a kernel loads are the elements from i to i + Stride, each
\* into one accumulator.
LEMMA BlockPartition ==
  ASSUME kernel \in Kernels, i \in Nat, NEW j \in Nat
  PROVE  /\ kernel.lanes \in 1..16 /\ kernel.accumulators \in 1..8
         /\ Stride \in 1..32
         /\ \A l \in Slot : l < kernel.accumulators /\ j \in Load(i + l * kernel.lanes)
                              => i <= j /\ j < i + Stride
         /\ i <= j /\ j < i + Stride =>
              \E l \in Slot : /\ l < kernel.accumulators /\ j \in Load(i + l * kernel.lanes)
                              /\ \A k \in Slot : k < kernel.accumulators /\ j \in Load(i + k * kernel.lanes)
                                                   => k = l
<1> DEFINE In(l) == l < kernel.accumulators /\ j \in Load(i + l * kernel.lanes)
<1>1. CASE kernel = Portable
  <2>1. kernel.lanes = 1 /\ kernel.accumulators = 8 /\ Stride = 8
    BY <1>1 DEF Portable, Kernel, Stride
  <2> QED BY <2>1 DEF Load, Slot
<1>2. CASE kernel = Avx2
  <2>1. kernel.lanes = 8 /\ kernel.accumulators = 2 /\ Stride = 16
    BY <1>2 DEF Avx2, Kernel, Stride
  <2> QED BY <2>1 DEF Load, Slot
<1>3. CASE kernel = Avx512
  <2>1. kernel.lanes = 16 /\ kernel.accumulators = 2 /\ Stride = 32
    BY <1>3 DEF Avx512, Kernel, Stride
  <2> QED BY <2>1 DEF Load, Slot
<1>4. CASE kernel = Blas
  <2>1. kernel.lanes = 1 /\ kernel.accumulators = 1 /\ Stride = 1
    BY <1>4 DEF Blas, Kernel, Stride
  <2> QED BY <2>1 DEF Load, Slot
<1>5. CASE kernel = Neon("l1")
  <2>1. kernel.lanes = 4 /\ kernel.accumulators = 2 /\ Stride = 8
    BY <1>5 DEF Neon, Kernel, Stride
  <2> QED BY <2>1 DEF Load, Slot
<1>6. CASE kernel = Neon("dot")
  <2>1. kernel.lanes = 4 /\ kernel.accumulators = 4 /\ Stride = 16
    BY <1>6 DEF Neon, Kernel, Stride
  <2> QED BY <2>1 DEF Load, Slot
<1> QED BY <1>1, <1>2, <1>3, <1>4, <1>5, <1>6 DEF Kernels

-----------------------------------------------------------------------------
LEMMA InitInv == MetricInit => Inv
<1> SUFFICES ASSUME MetricInit PROVE Inv OBVIOUS
<1>1. Len(Calls(metric)) \in Nat /\ Len(Calls(metric)) >= 1
  BY DEF MetricInit, MetricNames, Calls
<1> QED BY <1>1 DEF MetricInit, Inv, CallOK, Phases

\* While one call runs, its slices stay the same.
LEMMA SameCall ==
  ASSUME CallOK, UNCHANGED <<metric, shape, call>>
  PROVE  CallOK' /\ N' = N
BY DEF CallOK, N

LEMMA BeginKernelStep == ASSUME Inv, BeginKernel PROVE Inv'
<1> USE DEF Inv, BeginKernel
<1>1. CallOK' /\ N' = N
  BY SameCall
<1>2. N \in 0..LongestSlice
  BY PrefixBounded
<1>3. kernel' \in Kernels
  BY DispatchedIsKernel DEF Kernels
<1>4. acc' \in [Slot -> Counts] /\ sum' \in Counts
  BY DEF Nothing, Counts
<1>5. EmptyFrom(0)' /\ CountedBelow(0, sum')
  BY DEF EmptyFrom, CountedBelow, Nothing, Slot, Index
<1>6. \A j \in Index : Total(j)' = 0
  BY DEF Total, Nothing, Slot
<1>7. LoopOK'
  BY <1>1, <1>2, <1>3, <1>4 DEF LoopOK
<1>8. phase' \in {"blas", "vector"} /\ i' = 0
  OBVIOUS
<1>9. \A j \in Index : ~(j < 0)
  BY DEF Index
<1> QED BY <1>1, <1>5, <1>6, <1>7, <1>8, <1>9 DEF Phases

LEMMA CallBlasStep == ASSUME Inv, CallBlas PROVE Inv'
<1> USE DEF Inv, CallBlas
<1>1. CallOK' /\ N' = N
  BY SameCall
<1>2. N \in 0..LongestSlice
  BY PrefixBounded
<1>3. sum' \in Counts /\ \A j \in Index : sum'[j] = IF j \in 0..(N - 1) THEN sum[j] + 1 ELSE sum[j]
  <2> DEFINE all == 0..(N - 1)
  <2>1. sum \in Counts /\ sum' = Added(sum, all)
    BY DEF LoopOK
  <2>2. \A j \in Index : j \in all <=> j \in 0..(N - 1)
    OBVIOUS
  <2> HIDE DEF all
  <2> QED BY <2>1, <2>2, AddedCounts
<1>4. CountedBelow(i, sum)'
  BY <1>2, <1>3 DEF CountedBelow, Index
<1>5. EmptyFrom(N)'
  BY <1>1, <1>2 DEF EmptyFrom, Index
<1>6. LoopOK'
  BY <1>1, <1>2, <1>3 DEF LoopOK
<1> QED BY <1>1, <1>4, <1>5, <1>6 DEF Phases

LEMMA AddBlockStep == ASSUME Inv, AddBlock PROVE Inv'
<1> USE DEF Inv, AddBlock
<1>1. CallOK' /\ N' = N
  BY SameCall
<1>2. N \in 0..LongestSlice /\ i \in 0..N /\ LoopOK
  BY PrefixBounded DEF LoopOK
<1>3. Stride \in 1..32 /\ i' \in 0..N
  BY <1>2, BlockPartition, 0 \in Nat DEF LoopOK, BlockFits
<1> DEFINE In(l, j) == l < kernel.accumulators /\ j \in Load(i + l * kernel.lanes)
<1>4. /\ acc' \in [Slot -> Counts]
      /\ \A l \in Slot, j \in Index : acc'[l][j] = IF In(l, j) THEN acc[l][j] + 1 ELSE acc[l][j]
  <2>1. \A l \in Slot : acc[l] \in Counts
    BY <1>2 DEF LoopOK
  <2>2. ASSUME NEW l \in Slot
        PROVE  /\ acc'[l] \in Counts
               /\ \A j \in Index : acc'[l][j] = IF In(l, j) THEN acc[l][j] + 1 ELSE acc[l][j]
    BY <2>1, AddedCounts
  <2> QED BY <2>2
<1>5. ASSUME NEW j \in Index PROVE Total(j)' = IF j < i' THEN 1 ELSE 0
  <2>0. j \in Nat /\ i \in Nat /\ kernel \in Kernels
    BY <1>2 DEF Index, LoopOK
  <2>1. \A l \in Slot : acc[l][j] \in Nat /\ acc'[l][j] \in Nat
    BY <1>2, <1>4 DEF LoopOK, Counts
  <2>2. Total(j) = IF j < i THEN 1 ELSE 0
    OBVIOUS
  <2>3. CASE i <= j /\ j < i + Stride
    <3>1. PICK l \in Slot : In(l, j) /\ \A k \in Slot : In(k, j) => k = l
      BY <2>0, <2>3, BlockPartition
    <3>2. acc'[l][j] = 1 /\ \A k \in Slot \ {l} : acc'[k][j] = 0
      BY <1>4, <2>0, <2>3, <3>1 DEF EmptyFrom
    <3> HIDE DEF In
    <3>3. Total(j)' = 1
      <4>1. ASSUME NEW k \in Slot PROVE acc'[k][j] = IF k = l THEN 1 ELSE 0
        BY <3>2
      <4>2. l \in {0, 1, 2, 3, 4, 5, 6, 7}
        BY <3>1 DEF Slot
      <4>3. Slot = {0, 1, 2, 3, 4, 5, 6, 7}
        BY DEF Slot
      <4>4. Total(j)' = ((acc'[0][j] + acc'[1][j]) + (acc'[2][j] + acc'[3][j]))
                          + ((acc'[4][j] + acc'[5][j]) + (acc'[6][j] + acc'[7][j]))
        BY DEF Total
      <4> QED BY ONLY <4>1, <4>2, <4>3, <4>4
    <3> QED BY <1>3, <2>0, <2>3, <3>3
  <2>4. CASE ~(i <= j /\ j < i + Stride)
    <3>1. \A l \in Slot : acc'[l][j] = acc[l][j]
      BY <1>4, <2>0, <2>4, BlockPartition
    <3>2. Total(j)' = Total(j)
      BY <3>1 DEF Total, Slot
    <3> QED BY <1>3, <2>0, <2>2, <2>4, <3>2
  <2> QED BY <2>3, <2>4
<1>6. EmptyFrom(i)'
  <2> SUFFICES ASSUME NEW l \in Slot, NEW j \in Index, j >= i' PROVE acc'[l][j] = 0
    BY DEF EmptyFrom
  <2>1. j \in Nat /\ i \in Nat /\ j >= i + Stride /\ kernel \in Kernels
    BY <1>2 DEF Index, LoopOK
  <2>2. ~In(l, j)
    BY <1>3, <2>1, BlockPartition
  <2> QED BY <1>3, <1>4, <2>1, <2>2 DEF EmptyFrom
<1>7. LoopOK'
  BY <1>1, <1>2, <1>3, <1>4 DEF LoopOK
<1> QED BY <1>1, <1>5, <1>6, <1>7 DEF Phases, CountedBelow

LEMMA AddSingleStep == ASSUME Inv, AddSingle PROVE Inv'
<1> USE DEF Inv, AddSingle
<1>1. CallOK' /\ N' = N
  BY SameCall
<1>2. N \in 0..LongestSlice /\ i \in 0..N /\ LoopOK
  BY PrefixBounded DEF LoopOK
<1>3. kernel.lanes \in 1..16
  BY <1>2, BlockPartition, 0 \in Nat DEF LoopOK
<1>4. i' \in 0..N
  BY <1>2, <1>3 DEF SingleFits
<1>5. /\ acc' \in [Slot -> Counts]
      /\ \A j \in Index : acc'[0][j] = IF j \in Load(i) THEN acc[0][j] + 1 ELSE acc[0][j]
      /\ \A l \in Slot \ {0} : acc'[l] = acc[l]
  <2>1. 0 \in Slot /\ \A l \in Slot : acc[l] \in Counts
    BY <1>2 DEF LoopOK, Slot
  <2> QED BY <1>2, <2>1, AddedCounts DEF LoopOK
<1>6. ASSUME NEW j \in Index PROVE Total(j)' = IF j < i' THEN 1 ELSE 0
  <2>1. \A l \in Slot : acc[l][j] \in Nat
    BY <1>2 DEF LoopOK, Counts
  <2>2. Total(j)' = IF j \in Load(i) THEN Total(j) + 1 ELSE Total(j)
    BY <1>5, <2>1 DEF Total, Slot
  <2>3. j \in Load(i) <=> i <= j /\ j < i'
    <3>1. i' = i + kernel.lanes /\ j \in Nat /\ i \in Nat
      BY <1>2 DEF Index
    <3> QED BY ONLY <1>3, <3>1 DEF Load
  <2>4. Total(j) = IF j < i THEN 1 ELSE 0
    OBVIOUS
  <2> QED BY <1>2, <1>3, <2>2, <2>3, <2>4 DEF Index
<1>7. EmptyFrom(i)'
  <2> SUFFICES ASSUME NEW l \in Slot, NEW j \in Index, j >= i' PROVE acc'[l][j] = 0
    BY DEF EmptyFrom
  <2>1. i' = i + kernel.lanes /\ j \in Nat /\ i \in Nat
    BY <1>2 DEF Index
  <2>2. j >= i /\ j \notin Load(i)
    BY ONLY <1>3, <2>1, j >= i' DEF Load
  <2>3. acc[l][j] = 0
    BY <2>2 DEF EmptyFrom
  <2> QED BY <1>5, <2>2, <2>3
<1>8. LoopOK'
  BY <1>1, <1>2, <1>4, <1>5 DEF LoopOK
<1> QED BY <1>1, <1>6, <1>7, <1>8 DEF Phases, CountedBelow

LEMMA ReduceStep == ASSUME Inv, Reduce PROVE Inv'
<1> USE DEF Inv, Reduce
<1>1. CallOK' /\ N' = N
  BY SameCall
<1>2. LoopOK /\ i \in 0..N /\ N \in 0..LongestSlice
  BY PrefixBounded DEF LoopOK
<1>3. sum' \in Counts /\ CountedBelow(i, sum)'
  BY DEF CountedBelow, Counts
<1>4. EmptyFrom(N)'
  BY <1>1, <1>2 DEF EmptyFrom, Index
<1> QED BY <1>1, <1>2, <1>3, <1>4 DEF Phases, LoopOK

LEMMA AddTailStep == ASSUME Inv, AddTail PROVE Inv'
<1> USE DEF Inv, AddTail
<1>1. CallOK' /\ N' = N
  BY SameCall
<1>2. LoopOK /\ i \in 0..N /\ N \in 0..LongestSlice
  BY PrefixBounded DEF LoopOK
<1>3. sum' \in Counts /\ \A j \in Index : sum'[j] = IF j \in {i} THEN sum[j] + 1 ELSE sum[j]
  BY <1>2, AddedCounts DEF LoopOK
<1>4. CountedBelow(i, sum)'
  BY <1>2, <1>3 DEF CountedBelow, Index
<1>5. EmptyFrom(N)'
  BY <1>1 DEF EmptyFrom
<1>6. LoopOK'
  BY <1>1, <1>2, <1>3 DEF LoopOK
<1> QED BY <1>1, <1>4, <1>5, <1>6 DEF Phases

LEMMA ReturnStep == ASSUME Inv, Return PROVE Inv'
<1>1. CallOK' /\ N' = N
  BY SameCall DEF Inv, Return
<1>2. N \in 0..LongestSlice
  BY PrefixBounded DEF Inv
<1> QED BY <1>1, <1>2 DEF Inv, Return, Phases, LoopOK, EmptyFrom, CountedBelow

LEMMA NextCallStep == ASSUME Inv, NextCall PROVE Inv'
<1>1. CallOK'
  <2>1. Len(Calls(metric)) \in Nat
    BY DEF Inv, CallOK, MetricNames, Calls
  <2> QED BY <2>1 DEF Inv, CallOK, NextCall
<1> QED BY <1>1 DEF Inv, NextCall, Phases

LEMMA Stutter == ASSUME Inv, UNCHANGED metricVars PROVE Inv'
<1>1. CallOK' /\ N' = N
  BY SameCall DEF Inv, metricVars
<1> QED
  BY <1>1 DEF Inv, metricVars, LoopOK, EmptyFrom, CountedBelow, Total

\* FoldIsExact, for every length of slice, every build and every processor:
\* no kernel of src/simd.rs reads past the shorter slice or skips or repeats
\* an element of the common prefix.
THEOREM FoldTheorem == MetricSpec => []FoldIsExact
<1>1. Inv /\ [MetricNext]_metricVars => Inv'
  BY BeginKernelStep, CallBlasStep, AddBlockStep, AddSingleStep, ReduceStep,
     AddTailStep, ReturnStep, NextCallStep, Stutter DEF MetricNext
<1>2. Inv => FoldIsExact
  <2> SUFFICES ASSUME Inv PROVE FoldIsExact OBVIOUS
  <2>1. N \in 0..LongestSlice
    BY PrefixBounded DEF Inv
  <2>2. ASSUME phase # "between", NEW j \in Index, j >= N
        PROVE  sum[j] = 0 /\ \A l \in Slot : acc[l][j] = 0
    BY <2>1, <2>2 DEF Inv, Phases, LoopOK, EmptyFrom, CountedBelow, Index
  <2>3. ASSUME phase = "returned", NEW j \in Index, j < N PROVE sum[j] = 1
    BY <2>3 DEF Inv, CountedBelow
  <2> QED BY <2>2, <2>3 DEF FoldIsExact
<1> QED BY InitInv, <1>1, <1>2, PTL DEF MetricSpec

-----------------------------------------------------------------------------
(* The selection loop                                                      *)

HIDE KernelsAssumption

\* Any set of natural numbers that is not empty has a least member.
LEMMA LeastExists ==
  ASSUME NEW T, T \subseteq Nat, T # {}
  PROVE  \E x \in T : \A y \in T : x <= y
<1> DEFINE R == {pair \in Nat \X Nat : pair[1] < pair[2]}
<1>1. IsWellFoundedOn(R, Nat)
  BY NatLessThanWellFounded DEF OpToRel
<1> HIDE DEF R
<1>2. PICK x \in T : \A y \in T : ~(<<y, x>> \in R)
  BY <1>1, WFMin
<1>3. \A y \in T : ~(y < x)
  BY <1>2 DEF R
<1> QED BY <1>3

\* The members of S before n, and that none of them makes the candidate at n
\* redundant.
Below(S, n) == {s \in S : s < n}

Clear(S, n) == \A s \in Below(S, n) : Distance[cands[n]][cands[s]] > Away(cands[n])

\* S is what Algorithm 4 keeps of the candidates.
IsKept(S) ==
  \A n \in 1..Len(cands) : n \in S <=> Cardinality(Below(S, n)) < limit /\ Clear(S, n)

\* The arguments of a call: candidates closest first, nobody twice.
ArgsOK ==
  /\ limit \in Nat \ {0} /\ keep \in BOOLEAN /\ pruning \in BOOLEAN
  /\ q \in Point /\ cands \in Seq(Point)
  /\ \A a, b \in 1..Len(cands) : a < b => Away(cands[a]) <= Away(cands[b])
  /\ \A a, b \in 1..Len(cands) : cands[a] = cands[b] => a = b
  /\ pruning => Len(cands) > limit

LEMMA ArgTypes ==
  ASSUME ArgsOK
  PROVE  /\ Len(cands) \in Nat /\ DOMAIN cands = 1..Len(cands)
         /\ \A n \in 1..Len(cands) : cands[n] \in Point /\ Away(cands[n]) \in Int
         /\ \A n, s \in 1..Len(cands) : Distance[cands[n]][cands[s]] \in Int
<1>1. cands \in Seq(Point) /\ q \in Point
  BY DEF ArgsOK
<1>2. Len(cands) \in Nat /\ DOMAIN cands = 1..Len(cands)
  BY <1>1, LenProperties
<1>3. \A n \in 1..Len(cands) : cands[n] \in Point
  BY <1>1, <1>2, ElementOfSeq
<1> QED BY <1>1, <1>2, <1>3, LoopAssumption DEF Away

\* Algorithm 4 keeps one set of candidates and no other.
LEMMA KeptIs ==
  ASSUME ArgsOK, NEW S \in SUBSET (1..Len(cands)), IsKept(S)
  PROVE  Kept = S
<1> DEFINE L == Len(cands)
           Next0(kept, n) ==
             IF n = 0 THEN {}
             ELSE IF /\ Cardinality(kept[n - 1]) < limit
                     /\ \A s \in kept[n - 1] : Distance[cands[n]][cands[s]] > Away(cands[n])
                  THEN kept[n - 1] \union {n} ELSE kept[n - 1]
           Table(kept) == [n \in 0..L |-> Next0(kept, n)]
           f == [n \in 0..L |-> Below(S, n + 1)]
           g == CHOOSE kept : kept = Table(kept)
<1>1. Kept = g[L]
  BY DEF Kept
<1>2. L \in Nat
  BY ArgTypes
<1> HIDE DEF L
<1>3. \A n \in 0..L : f[n] = Next0(f, n)
  <2> SUFFICES ASSUME NEW n \in 0..L PROVE f[n] = Next0(f, n)
    OBVIOUS
  <2>1. \A s \in S : s \in Nat /\ 1 <= s
    BY DEF L
  <2>2. CASE n = 0
    <3>1. \A s \in S : ~(s < n + 1)
      BY <2>1, <2>2
    <3>2. Below(S, n + 1) = {}
      BY <3>1 DEF Below
    <3> QED BY <2>2, <3>2
  <2>3. CASE n # 0
    <3>1. n \in 1..L /\ n - 1 \in 0..L /\ (n - 1) + 1 = n
      BY <1>2, <2>3
    <3>2. f[n - 1] = Below(S, n) /\ f[n] = Below(S, n + 1)
      BY <3>1
    <3>3. n \in S <=> Cardinality(Below(S, n)) < limit /\ Clear(S, n)
      BY <3>1 DEF IsKept, L
    <3>4. Below(S, n + 1) = IF n \in S THEN Below(S, n) \union {n} ELSE Below(S, n)
      <4>1. n \in Nat /\ \A s \in S : s \in Nat
        BY <1>2, <2>1
      <4>2. \A s \in S : s < n + 1 <=> s < n \/ s = n
        BY <4>1
      <4> QED BY <4>2 DEF Below
    <3> HIDE DEF f
    <3> QED BY <2>3, <3>2, <3>3, <3>4 DEF Clear
  <2> QED BY <2>2, <2>3
<1>4. f = Table(f)
  <2> HIDE DEF Next0
  <2> QED BY <1>3
<1>5. g = Table(g)
  <2> HIDE DEF Table, f
  <2> QED BY <1>4
<1> HIDE DEF f, g
<1>6. \A n \in 0..L : g[n] = Next0(g, n)
  <2>1. \A n \in 0..L : Table(g)[n] = Next0(g, n)
    OBVIOUS
  <2> HIDE DEF Table, Next0
  <2> QED BY <1>5, <2>1
<1>7. g[L] = f[L]
  <2> SUFFICES ASSUME g[L] # f[L] PROVE FALSE
    OBVIOUS
  <2> DEFINE bad == {n \in 0..L : g[n] # f[n]}
  <2>1. bad \subseteq Nat /\ bad # {}
    BY <1>2
  <2>2. PICK n \in bad : \A y \in bad : n <= y
    <3> HIDE DEF bad
    <3> QED BY <2>1, LeastExists
  <2>3. n \in 0..L /\ g[n] # f[n]
    OBVIOUS
  <2>4. CASE n = 0
    BY <1>3, <1>6, <2>3, <2>4
  <2>5. CASE n # 0
    <3>1. n - 1 \in 0..L /\ ~(n <= n - 1)
      BY <1>2, <2>3, <2>5
    <3>2. g[n - 1] = f[n - 1]
      BY <2>2, <3>1
    <3> QED BY <1>3, <1>6, <2>3, <2>5, <3>2
  <2> QED BY <2>4, <2>5
<1>8. f[L] = S
  <2>1. f[L] = Below(S, L + 1)
    BY <1>2 DEF f
  <2>2. \A s \in S : s < L + 1
    BY <1>2 DEF L
  <2> QED BY <2>1, <2>2 DEF Below
<1> QED BY <1>1, <1>7, <1>8

\* A list that has the members of S closest first, then as many of D as the
\* limit allows, closest first too.
Ahead(S, D, s, t) ==
  \/ s \in S /\ t \in D
  \/ (s \in S <=> t \in S) /\ s < t

Picked(pick) == {pick[j] : j \in DOMAIN pick}

ListedFirst(S, D, pick) ==
  /\ Picked(pick) \subseteq S \union D
  /\ \A j, h \in DOMAIN pick : j < h => Ahead(S, D, pick[j], pick[h])
  /\ \A t \in (S \union D) \ Picked(pick) :
       Len(pick) = limit /\ \A s \in Picked(pick) : Ahead(S, D, s, t)

Spare(S) == {t \in (1..Len(cands)) \ S : Cardinality(Below(S, t)) < limit}

ListOf(pick) == [j \in DOMAIN pick |-> cands[pick[j]]]

\* Without ties the order of the candidates is that of NeighbourSelection.
LEMMA OrderIs ==
  ASSUME ArgsOK, ~Ties, NEW s \in 1..Len(cands), NEW t \in 1..Len(cands)
  PROVE  (Distance[q][cands[s]] < Distance[q][cands[t]] \/ (cands[s] = cands[t] /\ s < t)) <=> s < t
<1>1. /\ Len(cands) \in Nat /\ DOMAIN cands = 1..Len(cands)
      /\ Away(cands[s]) \in Int /\ Away(cands[t]) \in Int
  BY ArgTypes
<1>2. s < t => Away(cands[s]) <= Away(cands[t])
  BY DEF ArgsOK
<1>3. t < s => Away(cands[t]) <= Away(cands[s])
  BY DEF ArgsOK
<1>4. s # t => Away(cands[s]) # Away(cands[t])
  BY <1>1 DEF Ties
<1>5. cands[s] = cands[t] => s = t
  BY DEF ArgsOK
<1>6. Away(cands[s]) = Distance[q][cands[s]] /\ Away(cands[t]) = Distance[q][cands[t]]
  BY DEF Away
<1>7. CASE s < t
  BY <1>1, <1>2, <1>4, <1>6, <1>7
<1>8. CASE s = t
  BY <1>1, <1>6, <1>8
<1>9. CASE t < s
  BY <1>1, <1>3, <1>4, <1>5, <1>6, <1>9
<1> QED BY <1>7, <1>8, <1>9

\* Nor does the shortcut of the source reject anybody among distances that
\* are not negative.
LEMMA CloserBlocks ==
  ASSUME ArgsOK, Nonnegative, NEW s \in 1..Len(cands), NEW t \in 1..Len(cands), s < t
  PROVE  Distance[q][cands[s]] <= 2 * Distance[q][cands[t]] /\ ~(Away(cands[s]) > 2 * Away(cands[t]))
<1>1. DOMAIN cands = 1..Len(cands) /\ Away(cands[s]) \in Int /\ Away(cands[t]) \in Int
  BY ArgTypes
<1>2. Away(cands[s]) <= Away(cands[t]) /\ Away(cands[t]) >= 0
  BY <1>1 DEF ArgsOK, Nonnegative
<1>3. Away(cands[s]) = Distance[q][cands[s]] /\ Away(cands[t]) = Distance[q][cands[t]]
  BY DEF Away
<1>4. Away(cands[s]) <= 2 * Away(cands[t])
  BY <1>1, <1>2
<1>5. ~(Away(cands[s]) > 2 * Away(cands[t]))
  BY <1>1, <1>4
<1> QED BY <1>3, <1>4, <1>5

\* The two instances of NeighbourSelection count as this module does.
LEMMA KeepingCounts ==
  ASSUME NEW S
  PROVE  Keeping!Cardinality(S) = Cardinality(S)
  BY DEF Keeping!Cardinality, Cardinality

LEMMA DroppingCounts ==
  ASSUME NEW S
  PROVE  Dropping!Cardinality(S) = Cardinality(S)
  BY DEF Dropping!Cardinality, Cardinality

\* What the loop keeps, the spare candidates after it, is a selection of
\* NeighbourSelection.
LEMMA KeepingSelects ==
  ASSUME ArgsOK, Nonnegative, ~Ties, Len(cands) > limit,
         NEW S \in SUBSET (1..Len(cands)), IsKept(S),
         NEW k \in 0..limit, NEW pick \in [1..k -> 1..Len(cands)], ListedFirst(S, Spare(S), pick)
  PROVE  ListOf(pick) \in Keeping!Selections(q, cands, limit, TRUE)
<1> DEFINE L == Len(cands)
<1>1. L \in Nat /\ DOMAIN cands = 1..L /\ limit \in Nat
  BY ArgTypes DEF ArgsOK
<1>2. \A s, t \in 1..L : Keeping!Precedes(q, cands, s, t) <=> s < t
  BY OrderIs DEF Keeping!Precedes, Keeping!Closer
<1>3. \A t \in 1..L : {s \in S : Keeping!Precedes(q, cands, s, t)} = Below(S, t)
  BY <1>2 DEF Below
<1>4. \A t \in 1..L : Keeping!Examined(q, cands, limit, S, t) <=> Cardinality(Below(S, t)) < limit
  BY <1>3, KeepingCounts DEF Keeping!Examined
<1>5. Keeping!IsDiverse(q, cands, limit, S)
  <2> SUFFICES ASSUME NEW t \in 1..L
               PROVE  t \in S <=> /\ Keeping!Examined(q, cands, limit, S, t)
                                  /\ \A s \in S : Keeping!Precedes(q, cands, s, t)
                                                    => ~Keeping!Blocks(q, cands, s, t)
    BY <1>1 DEF Keeping!IsDiverse
  <2>1. t \in S <=> Cardinality(Below(S, t)) < limit /\ Clear(S, t)
    BY DEF IsKept
  <2>2. ASSUME NEW s \in S, s < t
        PROVE  Keeping!Blocks(q, cands, s, t) <=> ~(Distance[cands[t]][cands[s]] > Away(cands[t]))
    <3>1. Distance[q][cands[s]] <= 2 * Distance[q][cands[t]]
      BY <2>2, CloserBlocks
    <3>2. Distance[cands[t]][cands[s]] \in Int /\ Away(cands[t]) \in Int
      BY ArgTypes
    <3> QED BY <3>1, <3>2 DEF Keeping!Blocks, Away
  <2>3. (\A s \in S : Keeping!Precedes(q, cands, s, t) => ~Keeping!Blocks(q, cands, s, t)) <=> Clear(S, t)
    BY <1>2, <2>2 DEF Clear, Below
  <2> QED BY <1>4, <2>1, <2>3
<1>6. Keeping!Discarded(q, cands, limit, S) = Spare(S)
  BY <1>1, <1>4 DEF Keeping!Discarded, Spare
<1>7. Keeping!IsListing(q, cands, limit, S, Spare(S), pick)
  <2>1. \A s, t \in 1..L : Ahead(S, Spare(S), s, t) <=>
          \/ s \in S /\ t \in Spare(S)
          \/ (s \in S <=> t \in S) /\ Keeping!Precedes(q, cands, s, t)
    <3> SUFFICES ASSUME NEW s \in 1..L, NEW t \in 1..L
                 PROVE  Ahead(S, Spare(S), s, t) <=>
                          \/ s \in S /\ t \in Spare(S)
                          \/ (s \in S <=> t \in S) /\ Keeping!Precedes(q, cands, s, t)
      OBVIOUS
    <3>1. Keeping!Precedes(q, cands, s, t) <=> s < t
      BY <1>2
    <3> QED BY <3>1, Zenon DEF Ahead
  <2>2. DOMAIN pick = 1..k /\ \A j \in 1..k : pick[j] \in 1..L
    OBVIOUS
  <2>3. Picked(pick) \subseteq 1..L /\ S \union Spare(S) \subseteq 1..L
    BY <2>2 DEF Picked, Spare
  <2> QED BY <2>1, <2>2, <2>3 DEF Keeping!IsListing, ListedFirst, Picked
<1>8. pick \in Keeping!DiversePicks(q, cands, limit)
  <2>1. pick \in Keeping!Picks(cands, limit)
    BY <1>1 DEF Keeping!Picks
  <2>2. S \in SUBSET DOMAIN cands
    BY <1>1
  <2> QED BY <1>5, <1>6, <1>7, <2>1, <2>2 DEF Keeping!DiversePicks
<1>9. Cardinality(DOMAIN cands) > limit
  <2>1. 1 \in Int /\ L \in Int /\ L >= 1 /\ L > limit
    BY <1>1
  <2> HIDE DEF L
  <2>2. Cardinality(1..L) = L - 1 + 1
    BY <2>1, FS_Interval
  <2> QED BY <1>1, <2>1, <2>2
<1>10. Keeping!Cardinality(DOMAIN cands) > limit
  BY <1>9, KeepingCounts
<1>11. ListOf(pick) \in Keeping!ListsOf(cands, Keeping!DiversePicks(q, cands, limit))
  BY <1>8 DEF Keeping!ListsOf, ListOf
<1>12. Keeping!Selections(q, cands, limit, TRUE) = Keeping!ListsOf(cands, Keeping!DiversePicks(q, cands, limit))
  BY <1>10 DEF Keeping!Selections
<1> QED BY <1>11, <1>12

\* The same when the rejected candidates are dropped.
LEMMA DroppingSelects ==
  ASSUME ArgsOK, Nonnegative, ~Ties, Len(cands) > limit,
         NEW S \in SUBSET (1..Len(cands)), IsKept(S),
         NEW k \in 0..limit, NEW pick \in [1..k -> 1..Len(cands)], ListedFirst(S, {}, pick)
  PROVE  ListOf(pick) \in Dropping!Selections(q, cands, limit, TRUE)
<1> DEFINE L == Len(cands)
<1>1. L \in Nat /\ DOMAIN cands = 1..L /\ limit \in Nat
  BY ArgTypes DEF ArgsOK
<1>2. \A s, t \in 1..L : Dropping!Precedes(q, cands, s, t) <=> s < t
  BY OrderIs DEF Dropping!Precedes, Dropping!Closer
<1>3. \A t \in 1..L : {s \in S : Dropping!Precedes(q, cands, s, t)} = Below(S, t)
  BY <1>2 DEF Below
<1>4. \A t \in 1..L : Dropping!Examined(q, cands, limit, S, t) <=> Cardinality(Below(S, t)) < limit
  BY <1>3, DroppingCounts DEF Dropping!Examined
<1>5. Dropping!IsDiverse(q, cands, limit, S)
  <2> SUFFICES ASSUME NEW t \in 1..L
               PROVE  t \in S <=> /\ Dropping!Examined(q, cands, limit, S, t)
                                  /\ \A s \in S : Dropping!Precedes(q, cands, s, t)
                                                    => ~Dropping!Blocks(q, cands, s, t)
    BY <1>1 DEF Dropping!IsDiverse
  <2>1. t \in S <=> Cardinality(Below(S, t)) < limit /\ Clear(S, t)
    BY DEF IsKept
  <2>2. ASSUME NEW s \in S, s < t
        PROVE  Dropping!Blocks(q, cands, s, t) <=> ~(Distance[cands[t]][cands[s]] > Away(cands[t]))
    <3>1. Distance[q][cands[s]] <= 2 * Distance[q][cands[t]]
      BY <2>2, CloserBlocks
    <3>2. Distance[cands[t]][cands[s]] \in Int /\ Away(cands[t]) \in Int
      BY ArgTypes
    <3> QED BY <3>1, <3>2 DEF Dropping!Blocks, Away
  <2>3. (\A s \in S : Dropping!Precedes(q, cands, s, t) => ~Dropping!Blocks(q, cands, s, t)) <=> Clear(S, t)
    BY <1>2, <2>2 DEF Clear, Below
  <2> QED BY <1>4, <2>1, <2>3
<1>6. Dropping!Discarded(q, cands, limit, S) = {}
  BY DEF Dropping!Discarded
<1>7. Dropping!IsListing(q, cands, limit, S, {}, pick)
  <2>1. \A s, t \in 1..L : Ahead(S, {}, s, t) <=>
          \/ s \in S /\ t \in {}
          \/ (s \in S <=> t \in S) /\ Dropping!Precedes(q, cands, s, t)
    <3> SUFFICES ASSUME NEW s \in 1..L, NEW t \in 1..L
                 PROVE  Ahead(S, {}, s, t) <=>
                          \/ s \in S /\ t \in {}
                          \/ (s \in S <=> t \in S) /\ Dropping!Precedes(q, cands, s, t)
      OBVIOUS
    <3>1. Dropping!Precedes(q, cands, s, t) <=> s < t
      BY <1>2
    <3> QED BY <3>1, Zenon DEF Ahead
  <2>2. DOMAIN pick = 1..k /\ \A j \in 1..k : pick[j] \in 1..L
    OBVIOUS
  <2>3. Picked(pick) \subseteq 1..L /\ S \union {} \subseteq 1..L
    BY <2>2 DEF Picked
  <2> QED BY <2>1, <2>2, <2>3 DEF Dropping!IsListing, ListedFirst, Picked
<1>8. pick \in Dropping!DiversePicks(q, cands, limit)
  <2>1. pick \in Dropping!Picks(cands, limit)
    BY <1>1 DEF Dropping!Picks
  <2>2. S \in SUBSET DOMAIN cands
    BY <1>1
  <2> QED BY <1>5, <1>6, <1>7, <2>1, <2>2 DEF Dropping!DiversePicks
<1>9. Cardinality(DOMAIN cands) > limit
  <2>1. 1 \in Int /\ L \in Int /\ L >= 1 /\ L > limit
    BY <1>1
  <2> HIDE DEF L
  <2>2. Cardinality(1..L) = L - 1 + 1
    BY <2>1, FS_Interval
  <2> QED BY <1>1, <2>1, <2>2
<1>10. Dropping!Cardinality(DOMAIN cands) > limit
  BY <1>9, DroppingCounts
<1>11. ListOf(pick) \in Dropping!ListsOf(cands, Dropping!DiversePicks(q, cands, limit))
  BY <1>8 DEF Dropping!ListsOf, ListOf
<1>12. Dropping!Selections(q, cands, limit, TRUE) = Dropping!ListsOf(cands, Dropping!DiversePicks(q, cands, limit))
  BY <1>10 DEF Dropping!Selections
<1> QED BY <1>11, <1>12

\* A list that fits is taken as it is.
LEMMA AllSelected ==
  ASSUME ArgsOK, ~Ties, Len(cands) <= limit
  PROVE  /\ cands \in Keeping!Selections(q, cands, limit, TRUE)
         /\ cands \in Dropping!Selections(q, cands, limit, TRUE)
<1> DEFINE L == Len(cands)
           pick == [j \in 1..L |-> j]
<1>1. L \in Nat /\ DOMAIN cands = 1..L /\ limit \in Nat /\ L \in 0..limit
  BY ArgTypes DEF ArgsOK
<1>2. cands = [j \in DOMAIN pick |-> cands[pick[j]]]
  <2>1. cands = [j \in 1..L |-> cands[j]]
    BY <1>1, LenProperties DEF ArgsOK
  <2> QED BY <2>1
<1>3. Cardinality(DOMAIN cands) = L
  <2>1. 1 \in Int /\ L \in Int /\ (1 > L <=> L = 0)
    BY <1>1
  <2> HIDE DEF L
  <2>2. Cardinality(1..L) = IF 1 > L THEN 0 ELSE L - 1 + 1
    BY <2>1, FS_Interval
  <2> QED BY <1>1, <2>1, <2>2
<1>4. ~(Cardinality(DOMAIN cands) > limit)
  BY <1>1, <1>3
<1>5. pick \in [1..L -> DOMAIN cands] /\ DOMAIN pick = 1..L /\ \A j \in 1..L : pick[j] = j
  BY <1>1
<1> HIDE DEF pick, L
<1>6. cands \in Keeping!Selections(q, cands, limit, TRUE)
  <2>1. pick \in Keeping!Picks(cands, limit)
    BY <1>1, <1>5 DEF Keeping!Picks
  <2>2. \A s, t \in 1..L : s < t => Keeping!Precedes(q, cands, s, t)
    BY OrderIs DEF Keeping!Precedes, Keeping!Closer, L
  <2>3. Keeping!IsListing(q, cands, limit, DOMAIN cands, {}, pick)
    BY <1>1, <1>5, <2>2 DEF Keeping!IsListing
  <2>4. pick \in Keeping!NearestPicks(q, cands, limit)
    BY <2>1, <2>3 DEF Keeping!NearestPicks
  <2>5. cands \in Keeping!ListsOf(cands, Keeping!NearestPicks(q, cands, limit))
    BY <1>2, <2>4 DEF Keeping!ListsOf
  <2>6. ~(Keeping!Cardinality(DOMAIN cands) > limit)
    BY <1>4, KeepingCounts
  <2> QED BY <2>5, <2>6 DEF Keeping!Selections
<1>7. cands \in Dropping!Selections(q, cands, limit, TRUE)
  <2>1. pick \in Dropping!Picks(cands, limit)
    BY <1>1, <1>5 DEF Dropping!Picks
  <2>2. \A s, t \in 1..L : s < t => Dropping!Precedes(q, cands, s, t)
    BY OrderIs DEF Dropping!Precedes, Dropping!Closer, L
  <2>3. Dropping!IsListing(q, cands, limit, DOMAIN cands, {}, pick)
    BY <1>1, <1>5, <2>2 DEF Dropping!IsListing
  <2>4. pick \in Dropping!NearestPicks(q, cands, limit)
    BY <2>1, <2>3 DEF Dropping!NearestPicks
  <2>5. cands \in Dropping!ListsOf(cands, Dropping!NearestPicks(q, cands, limit))
    BY <1>2, <2>4 DEF Dropping!ListsOf
  <2>6. ~(Dropping!Cardinality(DOMAIN cands) > limit)
    BY <1>4, DroppingCounts
  <2> QED BY <2>5, <2>6 DEF Dropping!Selections
<1> QED BY <1>6, <1>7

\* What the loop has done when it comes to candidate a: `ps` and `ds` are the
\* positions of the selected and of the discarded candidates.  Those before a
\* were examined while a slot was free, and were kept exactly if none of the
\* kept ones is in their way.
Rising(ps) == \A j, h \in DOMAIN ps : j < h => ps[j] < ps[h]

Examined(S, n) == Cardinality(Below(S, n)) < limit /\ (n \in S <=> Clear(S, n))

Scanned(ps, ds, a, sel, dis) ==
  /\ a \in 1..(Len(cands) + 1)
  /\ ps \in Seq(1..(a - 1)) /\ ds \in Seq(1..(a - 1))
  /\ Rising(ps) /\ Rising(ds)
  /\ sel = ListOf(ps) /\ dis = ListOf(ds)
  /\ Cardinality(Picked(ps)) = Len(ps) /\ Len(ps) <= limit
  /\ \A n \in 1..(a - 1) : Examined(Picked(ps), n)
  /\ Picked(ds) = IF keep THEN (1..(a - 1)) \ Picked(ps) ELSE {}

LEMMA PositionFacts ==
  ASSUME NEW top \in Nat, NEW ps \in Seq(1..top)
  PROVE  /\ Len(ps) \in Nat /\ DOMAIN ps = 1..Len(ps)
         /\ \A j \in 1..Len(ps) : ps[j] \in 1..top
         /\ Picked(ps) \subseteq 1..top /\ IsFiniteSet(Picked(ps))
         /\ ps \in Seq(Nat)
<1>1. Len(ps) \in Nat /\ DOMAIN ps = 1..Len(ps)
  BY LenProperties
<1>2. \A j \in 1..Len(ps) : ps[j] \in 1..top
  BY <1>1, ElementOfSeq
<1>3. Picked(ps) \subseteq 1..top
  BY <1>1, <1>2 DEF Picked
<1>4. IsFiniteSet(1..top)
  BY FS_Interval
<1>5. IsFiniteSet(Picked(ps))
  BY <1>3, <1>4, FS_Subset
<1>6. ps \in Seq(Nat)
  <2>1. ps = [j \in 1..Len(ps) |-> ps[j]]
    BY <1>1, LenProperties
  <2>2. \A j \in 1..Len(ps) : ps[j] \in Nat
    BY <1>2
  <2>3. ps \in [1..Len(ps) -> Nat]
    <3> DEFINE len == Len(ps)
    <3>1. ps = [j \in 1..len |-> ps[j]] /\ \A j \in 1..len : ps[j] \in Nat
      BY <2>1, <2>2
    <3> HIDE DEF len
    <3>2. ps \in [1..len -> Nat]
      BY <3>1
    <3> QED BY <3>2 DEF len
  <2> QED BY <1>1, <2>3, SeqDef
<1> QED BY <1>1, <1>2, <1>3, <1>5, <1>6

\* A position after all those that are listed.
LEMMA PositionMore ==
  ASSUME NEW top \in Nat, NEW ps \in Seq(1..top), Rising(ps)
  PROVE  /\ Append(ps, top + 1) \in Seq(1..(top + 1)) /\ Rising(Append(ps, top + 1))
         /\ Len(Append(ps, top + 1)) = Len(ps) + 1
         /\ Picked(Append(ps, top + 1)) = Picked(ps) \union {top + 1}
         /\ ListOf(Append(ps, top + 1)) = Append(ListOf(ps), cands[top + 1])
<1> DEFINE more == Append(ps, top + 1)
           len == Len(ps)
<1>1. len \in Nat /\ DOMAIN ps = 1..len /\ \A j \in 1..len : ps[j] \in 1..top
  BY PositionFacts
<1>2. ps \in Seq(1..(top + 1)) /\ top + 1 \in 1..(top + 1)
  <2>1. \A j \in 1..len : ps[j] \in 1..(top + 1)
    BY <1>1
  <2>2. ps = [j \in 1..len |-> ps[j]]
    BY <1>1, LenProperties
  <2> HIDE DEF len
  <2>3. ps \in [1..len -> 1..(top + 1)]
    BY <2>1, <2>2
  <2> QED BY <1>1, <2>3, SeqDef
<1>3. more \in Seq(1..(top + 1)) /\ Len(more) = len + 1
  BY <1>2, AppendProperties
<1>4. (\A j \in 1..len : more[j] = ps[j]) /\ more[len + 1] = top + 1
  BY <1>2, AppendProperties
<1>5. DOMAIN more = 1..(len + 1)
  BY <1>3, LenProperties
<1> HIDE DEF more, len
<1>6. Rising(more)
  <2> SUFFICES ASSUME NEW j \in 1..(len + 1), NEW h \in 1..(len + 1), j < h PROVE more[j] < more[h]
    BY <1>5 DEF Rising
  <2>1. j \in 1..len
    BY <1>1
  <2>2. CASE h = len + 1
    BY <1>1, <1>4, <2>1, <2>2
  <2>3. CASE h # len + 1
    <3>1. h \in 1..len
      BY <1>1, <2>3
    <3> QED BY <1>1, <1>4, <2>1, <3>1 DEF Rising
  <2> QED BY <2>2, <2>3
<1>7. Picked(more) = Picked(ps) \union {top + 1}
  <2>1. \A j \in 1..(len + 1) : j \in 1..len \/ j = len + 1
    BY <1>1
  <2>2. \A j \in 1..len : j \in 1..(len + 1)
    BY <1>1
  <2>3. len + 1 \in 1..(len + 1)
    BY <1>1
  <2> QED BY <1>1, <1>4, <1>5, <2>1, <2>2, <2>3 DEF Picked
<1>8. ListOf(more) = Append(ListOf(ps), cands[top + 1])
  <2> DEFINE old == ListOf(ps)
             Values == {cands[x] : x \in 1..(top + 1)}
  <2>1. old = [j \in 1..len |-> cands[ps[j]]]
    BY <1>1 DEF ListOf
  <2>2. old \in [1..len -> Values]
    BY <1>1, <2>1
  <2>3. old \in Seq(Values) /\ Len(old) = len
    BY <1>1, <2>2, SeqDef, LenProperties
  <2> HIDE DEF Values
  <2>4. cands[top + 1] \in Values
    BY <1>2 DEF Values
  <2> HIDE DEF old
  <2>5. /\ Append(old, cands[top + 1]) \in Seq(Values)
        /\ Len(Append(old, cands[top + 1])) = len + 1
        /\ \A j \in 1..len : Append(old, cands[top + 1])[j] = old[j]
        /\ Append(old, cands[top + 1])[len + 1] = cands[top + 1]
    BY <2>3, <2>4, AppendProperties
  <2>6. Append(old, cands[top + 1]) = [j \in 1..(len + 1) |-> Append(old, cands[top + 1])[j]]
    BY <2>5, LenProperties
  <2>7. \A j \in 1..(len + 1) : Append(old, cands[top + 1])[j] = cands[more[j]]
    <3> SUFFICES ASSUME NEW j \in 1..(len + 1)
                 PROVE  Append(old, cands[top + 1])[j] = cands[more[j]]
      OBVIOUS
    <3>1. CASE j = len + 1
      BY <1>4, <2>5, <3>1
    <3>2. CASE j # len + 1
      <4>1. j \in 1..len
        BY <1>1, <3>2
      <4> QED BY <1>4, <2>1, <2>5, <4>1
    <3> QED BY <3>1, <3>2
  <2>8. ListOf(more) = [j \in 1..(len + 1) |-> cands[more[j]]]
    BY <1>5 DEF ListOf
  <2>9. ListOf(more) = Append(old, cands[top + 1])
    BY <2>6, <2>7, <2>8
  <2> QED BY <2>9 DEF old
<1> QED BY <1>3, <1>6, <1>7, <1>8 DEF more, len

\* Positions up to one bound are positions up to a greater one.
Wider(ps, top, a) == ps \in Seq(1..top) => ps \in Seq(1..a)

LEMMA WiderIs ==
  ASSUME NEW ps, NEW top \in Nat, NEW a \in Nat, top <= a
  PROVE  Wider(ps, top, a)
<1> SUFFICES ASSUME ps \in Seq(1..top) PROVE ps \in Seq(1..a)
  BY DEF Wider
<1> DEFINE len == Len(ps)
<1>1. len \in Nat /\ \A j \in 1..len : ps[j] \in 1..top
  BY PositionFacts
<1>2. \A j \in 1..len : ps[j] \in 1..a
  BY <1>1
<1>3. ps = [j \in 1..len |-> ps[j]]
  BY LenProperties
<1> HIDE DEF len
<1>4. ps \in [1..len -> 1..a]
  BY <1>2, <1>3
<1> QED BY <1>1, <1>4, SeqDef

\* Nobody at or after a position that is not yet examined is kept.
LEMMA BelowAll ==
  ASSUME NEW S, NEW top \in Nat, S \subseteq 1..top, NEW n \in Nat, n > top
  PROVE  Below(S, n) = S
<1>1. \A s \in S : s < n
  OBVIOUS
<1> QED BY <1>1 DEF Below

\* The candidate at a is kept: nobody selected is in its way.
LEMMA AcceptScanned ==
  ASSUME ArgsOK, NEW ps, NEW ds, NEW sel, NEW dis, NEW a \in 1..Len(cands),
         Scanned(ps, ds, a, sel, dis), Len(sel) < limit,
         \A j \in 1..Len(sel) : Distance[cands[a]][sel[j]] > Away(cands[a])
  PROVE  Scanned(Append(ps, a), ds, a + 1, Append(sel, cands[a]), dis)
<1> DEFINE top == a - 1
           P == Picked(ps)
           Q == P \union {a}
<1>1. top \in Nat /\ top + 1 = a /\ (a + 1) - 1 = a /\ a \in Nat /\ Len(cands) \in Nat
  BY ArgTypes
<1>2. ps \in Seq(1..top) /\ ds \in Seq(1..top) /\ Rising(ps) /\ Rising(ds)
  BY DEF Scanned
<1> HIDE DEF top
<1>3. Append(ps, a) \in Seq(1..a) /\ Rising(Append(ps, a))
  BY <1>1, <1>2, PositionMore
<1>4. Len(Append(ps, a)) = Len(ps) + 1 /\ Picked(Append(ps, a)) = Q
  BY <1>1, <1>2, PositionMore
<1>5. ListOf(Append(ps, a)) = Append(sel, cands[a]) /\ dis = ListOf(ds)
  BY <1>1, <1>2, PositionMore DEF Scanned
<1>6. Len(ps) \in Nat /\ DOMAIN ps = 1..Len(ps) /\ P \subseteq 1..top /\ IsFiniteSet(P)
  BY <1>1, <1>2, PositionFacts
<1>7. Len(sel) = Len(ps) /\ \A j \in 1..Len(ps) : sel[j] = cands[ps[j]]
  <2>1. sel = [j \in 1..Len(ps) |-> cands[ps[j]]]
    BY <1>6 DEF Scanned, ListOf
  <2>2. Len(sel) = Len(ps)
    BY <1>6, <2>1
  <2> QED BY <2>1, <2>2
<1>8. a \notin P
  BY <1>1, <1>6
<1>9. Cardinality(Q) = Cardinality(P) + 1
  BY <1>6, <1>8, FS_AddElement
<1>10. Cardinality(P) = Len(ps)
  BY DEF Scanned
<1>11. ds \in Seq(1..a)
  BY <1>1, <1>2, WiderIs DEF Wider
<1> HIDE DEF P
<1>12. ASSUME NEW n \in 1..a PROVE Examined(Q, n)
  <2>1. Below(Q, n) = Below(P, n)
    BY <1>1, <1>6 DEF Below
  <2>2. CASE n = a
    <3>1. Below(P, n) = P
      <4>1. n \in Nat /\ n > top
        BY <1>1, <2>2
      <4> QED BY <1>1, <1>6, <4>1, BelowAll
    <3>2. Cardinality(Below(Q, n)) < limit
      BY <1>7, <1>10, <2>1, <3>1
    <3>3. \A s \in P : Distance[cands[a]][cands[s]] > Away(cands[a])
      BY <1>6, <1>7 DEF P, Picked
    <3>4. Clear(Q, n)
      BY <2>1, <2>2, <3>1, <3>3 DEF Clear
    <3> QED BY <2>2, <3>2, <3>4 DEF Examined
  <2>3. CASE n # a
    <3>1. n \in 1..(a - 1)
      BY <1>1, <2>3
    <3>2. Examined(P, n)
      BY <3>1 DEF Scanned, P
    <3> QED BY <2>1, <2>3, <3>2 DEF Examined, Clear
  <2> QED BY <2>2, <2>3
<1>13. Picked(ds) = IF keep THEN (1..a) \ Q ELSE {}
  <2>1. Picked(ds) = IF keep THEN (1..top) \ P ELSE {}
    BY DEF Scanned, P, top
  <2>2. (1..a) \ Q = (1..top) \ P
    BY <1>1
  <2> QED BY <2>1, <2>2
<1>14. Cardinality(Q) = Len(ps) + 1 /\ Len(ps) + 1 <= limit /\ a + 1 \in 1..(Len(cands) + 1)
  <2>1. limit \in Nat
    BY DEF ArgsOK
  <2> QED BY <1>1, <1>6, <1>7, <1>9, <1>10, <2>1
<1> QED BY <1>1, <1>2, <1>3, <1>4, <1>5, <1>11, <1>12, <1>13, <1>14 DEF Scanned

\* It is rejected: somebody is.
LEMMA RejectScanned ==
  ASSUME ArgsOK, NEW ps, NEW ds, NEW sel, NEW dis, NEW a \in 1..Len(cands),
         Scanned(ps, ds, a, sel, dis), Len(sel) < limit,
         NEW h \in 1..Len(sel), Distance[cands[a]][sel[h]] <= Away(cands[a])
  PROVE  \E dd : Scanned(ps, dd, a + 1, sel, IF keep THEN Append(dis, cands[a]) ELSE dis)
<1> DEFINE top == a - 1
           P == Picked(ps)
           dd == IF keep THEN Append(ds, a) ELSE ds
<1>1. top \in Nat /\ top + 1 = a /\ (a + 1) - 1 = a /\ a \in Nat /\ Len(cands) \in Nat
  BY ArgTypes
<1>2. ps \in Seq(1..top) /\ ds \in Seq(1..top) /\ Rising(ps) /\ Rising(ds)
  BY DEF Scanned
<1>0. Wider(ps, top, a) /\ Wider(ds, top, a)
  BY <1>1, <1>2, WiderIs DEF top
<1> HIDE DEF top
<1>3. Append(ds, a) \in Seq(1..a) /\ Rising(Append(ds, a))
  BY <1>1, <1>2, PositionMore
<1>4. Picked(Append(ds, a)) = Picked(ds) \union {a}
  BY <1>1, <1>2, PositionMore
<1>5. ListOf(Append(ds, a)) = Append(dis, cands[a]) /\ dis = ListOf(ds) /\ sel = ListOf(ps)
  BY <1>1, <1>2, PositionMore DEF Scanned
<1>6. Len(ps) \in Nat /\ DOMAIN ps = 1..Len(ps) /\ P \subseteq 1..top
  BY <1>1, <1>2, PositionFacts
<1>7. Len(sel) = Len(ps) /\ \A j \in 1..Len(ps) : sel[j] = cands[ps[j]]
  <2>1. sel = [j \in 1..Len(ps) |-> cands[ps[j]]]
    BY <1>6 DEF Scanned, ListOf
  <2>2. Len(sel) = Len(ps)
    BY <1>6, <2>1
  <2> QED BY <2>1, <2>2
<1>8. a \notin P
  BY <1>1, <1>6
<1>9. Cardinality(P) = Len(ps) /\ Len(ps) <= limit
  BY DEF Scanned
<1>10. dd \in Seq(1..a) /\ Rising(dd) /\ ListOf(dd) = IF keep THEN Append(dis, cands[a]) ELSE dis
  BY <1>0, <1>2, <1>3, <1>5 DEF Wider
<1>11. ps[h] \in P /\ sel[h] = cands[ps[h]] /\ ps[h] \in 1..Len(cands)
  <2>1. h \in 1..Len(ps)
    BY <1>7
  <2>2. ps[h] \in P
    BY <1>6, <2>1 DEF Picked
  <2> QED BY <1>1, <1>6, <1>7, <2>1, <2>2
<1> HIDE DEF P
<1>12. ASSUME NEW n \in 1..a PROVE Examined(P, n)
  <2>1. CASE n = a
    <3>1. Below(P, n) = P
      <4>1. n \in Nat /\ n > top
        BY <1>1, <2>1
      <4> QED BY <1>1, <1>6, <4>1, BelowAll
    <3>2. Cardinality(Below(P, n)) < limit
      BY <1>7, <1>9, <3>1
    <3>3. Distance[cands[a]][cands[ps[h]]] \in Int /\ Away(cands[a]) \in Int
      BY <1>11, ArgTypes
    <3>4. ~Clear(P, n)
      BY <1>11, <2>1, <3>1, <3>3 DEF Clear
    <3> QED BY <1>8, <2>1, <3>2, <3>4 DEF Examined
  <2>2. CASE n # a
    <3>1. n \in 1..(a - 1)
      BY <1>1, <2>2
    <3> QED BY <3>1 DEF Scanned, P
  <2> QED BY <2>1, <2>2
<1>13. Picked(dd) = IF keep THEN (1..a) \ P ELSE {}
  <2>1. Picked(ds) = IF keep THEN (1..top) \ P ELSE {}
    BY DEF Scanned, P, top
  <2>2. (1..a) \ P = ((1..top) \ P) \union {a}
    <3>1. 1..a = (1..top) \union {a}
      BY <1>1
    <3> QED BY <1>8, <3>1
  <2>3. CASE keep
    BY <1>4, <2>1, <2>2, <2>3
  <2>4. CASE ~keep
    BY <2>1, <2>4
  <2> QED BY <2>3, <2>4
<1>14. a + 1 \in 1..(Len(cands) + 1)
  BY <1>1
<1> HIDE DEF dd
<1>15. ps \in Seq(1..a)
  BY <1>0, <1>2 DEF Wider
<1>16. Scanned(ps, dd, a + 1, sel, IF keep THEN Append(dis, cands[a]) ELSE dis)
  BY <1>1, <1>2, <1>5, <1>9, <1>10, <1>12, <1>13, <1>14, <1>15 DEF Scanned, P
<1> QED BY <1>16

\* The end of the loop: what is returned.
Answered(sel) ==
  /\ Len(cands) > limit => {cands[n] : n \in Kept} \subseteq ToSet(sel)
  /\ Len(cands) > limit /\ ~keep => {cands[n] : n \in Kept} = ToSet(sel)
  /\ ~Ties => sel \in IF keep THEN Keeping!Selections(q, cands, limit, TRUE)
                      ELSE Dropping!Selections(q, cands, limit, TRUE)

\* When the loop stops, with all slots taken or all candidates seen, what it
\* has selected is what Algorithm 4 keeps, and what it has discarded is what
\* may fill the other slots.
LEMMA StoppedKept ==
  ASSUME ArgsOK, NEW ps, NEW ds, NEW sel, NEW dis, NEW a, Scanned(ps, ds, a, sel, dis),
         a > Len(cands) \/ ~(Len(ps) < limit)
  PROVE  /\ IsKept(Picked(ps)) /\ Picked(ps) \in SUBSET (1..Len(cands))
         /\ keep => Picked(ds) = Spare(Picked(ps))
         /\ ~keep => Picked(ds) = {}
<1> DEFINE P == Picked(ps)
           L == Len(cands)
           top == a - 1
<1>1. a \in 1..(L + 1) /\ L \in Nat /\ limit \in Nat
  BY ArgTypes DEF Scanned, ArgsOK
<1>2. ps \in Seq(1..top) /\ top \in Nat
  BY <1>1 DEF Scanned
<1>3. P \subseteq 1..top /\ Len(ps) \in Nat
  BY <1>2, PositionFacts
<1>4. Cardinality(P) = Len(ps) /\ Picked(ds) = IF keep THEN (1..top) \ P ELSE {}
  BY DEF Scanned
<1>5. \A n \in 1..top : Examined(P, n)
  BY DEF Scanned
<1>6. a > L \/ ~(Len(ps) < limit)
  OBVIOUS
<1>7. top + 1 = a /\ \A n \in 1..top : n \in 1..L
  BY <1>1
<1> HIDE DEF P, top, L
<1>8. ASSUME NEW n \in 1..L, n \notin 1..top PROVE n \notin P /\ ~(Cardinality(Below(P, n)) < limit)
  <2>1. n \in Nat /\ n > top /\ ~(a > L)
    BY <1>1, <1>2, <1>7, <1>8
  <2>2. Below(P, n) = P
    BY <1>2, <1>3, <2>1, BelowAll
  <2> QED BY <1>3, <1>4, <1>6, <1>8, <2>1, <2>2
<1>9. IsKept(P)
  <2> SUFFICES ASSUME NEW n \in 1..L
               PROVE  n \in P <=> Cardinality(Below(P, n)) < limit /\ Clear(P, n)
    BY DEF IsKept, L
  <2>1. CASE n \in 1..top
    BY <1>5, <2>1 DEF Examined
  <2>2. CASE n \notin 1..top
    BY <1>8, <2>2
  <2> QED BY <2>1, <2>2
<1>10. P \subseteq 1..L
  BY <1>3, <1>7
<1>11. ASSUME keep PROVE Picked(ds) = Spare(P)
  <2>1. ASSUME NEW t \in (1..L) \ P
        PROVE  Cardinality(Below(P, t)) < limit <=> t \in 1..top
    BY <1>5, <1>8 DEF Examined
  <2>2. Spare(P) = {t \in (1..L) \ P : Cardinality(Below(P, t)) < limit}
    BY DEF Spare, L
  <2>3. Spare(P) = (1..top) \ P
    BY <1>7, <2>1, <2>2
  <2> QED BY <1>4, <1>11, <2>3
<1>12. ~keep => Picked(ds) = {}
  BY <1>4
<1> QED BY <1>9, <1>10, <1>11, <1>12 DEF P, L

\* The positions of the selected candidates, then the first k of the
\* discarded ones, as many as there is room for.
Room(ps, ds, k) ==
  k \in 0..Len(ds) /\ Len(ps) + k <= limit /\ (k < Len(ds) => Len(ps) + k = limit)

Lists(ps, ds, sel, dis, k) ==
  \E pick \in [1..(Len(ps) + k) -> 1..Len(cands)] :
    /\ ListedFirst(Picked(ps), Picked(ds), pick)
    /\ ListOf(pick) = sel \o SubSeq(dis, 1, k)
    /\ Picked(ps) \subseteq Picked(pick)

LEMMA PickListed ==
  ASSUME ArgsOK, NEW ps, NEW ds, NEW sel, NEW dis, NEW a, NEW k,
         Scanned(ps, ds, a, sel, dis), Room(ps, ds, k)
  PROVE  Lists(ps, ds, sel, dis, k)
<1> DEFINE P == Picked(ps)
           D == Picked(ds)
           L == Len(cands)
           top == a - 1
           len == Len(ps)
           pick == [j \in 1..(len + k) |-> IF j <= len THEN ps[j] ELSE ds[j - len]]
<1>1. a \in 1..(L + 1) /\ L \in Nat /\ limit \in Nat /\ top \in Nat /\ \A n \in 1..top : n \in 1..L
  BY ArgTypes DEF Scanned, ArgsOK
<1>2. ps \in Seq(1..top) /\ ds \in Seq(1..top) /\ Rising(ps) /\ Rising(ds) /\ sel = ListOf(ps) /\ dis = ListOf(ds)
  BY DEF Scanned
<1> HIDE DEF top
<1>3. len \in Nat /\ DOMAIN ps = 1..len /\ \A j \in 1..len : ps[j] \in 1..top
  BY <1>1, <1>2, PositionFacts
<1>4. Len(ds) \in Nat /\ DOMAIN ds = 1..Len(ds) /\ \A j \in 1..Len(ds) : ds[j] \in 1..top
  BY <1>1, <1>2, PositionFacts
<1>5. D \intersect P = {}
  BY DEF Scanned
<1>6. \A j \in 1..len : ps[j] \in P
  BY <1>3 DEF Picked
<1>7. \A j \in 1..Len(ds) : ds[j] \in D
  BY <1>4 DEF Picked
<1>8. \A t \in P : \E j \in 1..len : ps[j] = t
  BY <1>3 DEF Picked
<1>9. \A t \in D : \E j \in 1..Len(ds) : ds[j] = t
  BY <1>4 DEF Picked
<1>10. k \in Nat /\ k <= Len(ds) /\ len + k <= limit /\ (k < Len(ds) => len + k = limit)
  BY <1>4 DEF Room
<1> HIDE DEF P, D, L, len
<1>11. ASSUME NEW j \in 1..(len + k)
       PROVE  \/ j \in 1..len /\ pick[j] = ps[j]
              \/ j - len \in 1..k /\ j - len \in 1..Len(ds) /\ j > len /\ pick[j] = ds[j - len]
  BY <1>3, <1>4, <1>10
<1>12. ASSUME NEW j \in 1..len PROVE j \in 1..(len + k) /\ pick[j] = ps[j]
  BY <1>3, <1>10
<1>13. ASSUME NEW j \in 1..k PROVE len + j \in 1..(len + k) /\ pick[len + j] = ds[j] /\ j \in 1..Len(ds)
  <2>1. len + j \in 1..(len + k) /\ ~(len + j <= len) /\ (len + j) - len = j /\ j \in 1..Len(ds)
    BY <1>3, <1>4, <1>10
  <2> QED BY <2>1
<1>14. DOMAIN pick = 1..(len + k) /\ pick \in [1..(len + k) -> 1..L]
  <2>1. \A j \in 1..(len + k) : pick[j] \in 1..L
    BY <1>1, <1>3, <1>4, <1>11
  <2> QED BY <2>1
<1>15. Len(pick) = len + k
  BY <1>3, <1>10, <1>14
<1> HIDE DEF pick
<1>16. \A s, t \in P : s < t => Ahead(P, D, s, t)
  BY DEF Ahead
<1>17. \A s \in P, t \in D : Ahead(P, D, s, t)
  BY DEF Ahead
<1>18. \A s, t \in D : s < t => Ahead(P, D, s, t)
  BY <1>5 DEF Ahead
<1>19. Picked(pick) \subseteq P \union D
  BY <1>6, <1>7, <1>11, <1>14 DEF Picked
<1>20. ASSUME NEW j \in 1..(len + k), NEW h \in 1..(len + k), j < h
       PROVE  Ahead(P, D, pick[j], pick[h])
  <2>1. CASE h \in 1..len
    <3>1. j \in 1..len /\ ps[j] < ps[h]
      BY <1>2, <1>3, <1>20, <2>1 DEF Rising
    <3> QED BY <1>6, <1>12, <1>16, <2>1, <3>1
  <2>2. CASE h \notin 1..len
    <3>1. h - len \in 1..Len(ds) /\ h > len /\ pick[h] = ds[h - len]
      BY <1>11, <2>2
    <3>2. CASE j \in 1..len
      BY <1>6, <1>7, <1>12, <1>17, <3>1, <3>2
    <3>3. CASE j \notin 1..len
      <4>1. j - len \in 1..Len(ds) /\ pick[j] = ds[j - len]
        BY <1>11, <3>3
      <4>2. j - len < h - len
        BY <1>3, <1>20
      <4>3. ds[j - len] < ds[h - len]
        BY <1>2, <1>4, <3>1, <4>1, <4>2 DEF Rising
      <4> QED BY <1>7, <1>18, <3>1, <4>1, <4>3
    <3> QED BY <3>2, <3>3
  <2> QED BY <2>1, <2>2
<1>21. ASSUME NEW t \in (P \union D) \ Picked(pick)
       PROVE  Len(pick) = limit /\ \A s \in Picked(pick) : Ahead(P, D, s, t)
  <2>1. t \notin P
    <3> SUFFICES ASSUME t \in P PROVE FALSE
      OBVIOUS
    <3>1. PICK j \in 1..len : ps[j] = t
      BY <1>8
    <3> QED BY <1>12, <1>14, <1>21, <3>1 DEF Picked
  <2>2. PICK x \in 1..Len(ds) : ds[x] = t
    BY <1>9, <2>1
  <2>3. x \notin 1..k
    BY <1>13, <1>14, <1>21, <2>2 DEF Picked
  <2>4. k < x /\ k < Len(ds)
    BY <1>4, <1>10, <2>3
  <2>5. Len(pick) = limit
    BY <1>10, <1>15, <2>4
  <2>6. ASSUME NEW s \in Picked(pick) PROVE Ahead(P, D, s, t)
    <3>1. PICK j \in 1..(len + k) : pick[j] = s
      BY <1>14 DEF Picked
    <3>2. CASE j \in 1..len
      BY <1>6, <1>7, <1>12, <1>17, <2>2, <3>1, <3>2
    <3>3. CASE j \notin 1..len
      <4>1. j - len \in 1..k /\ j - len \in 1..Len(ds) /\ s = ds[j - len]
        BY <1>11, <3>1, <3>3
      <4>2. j - len < x
        BY <1>10, <2>4, <4>1
      <4>3. ds[j - len] < ds[x]
        BY <1>2, <1>4, <4>1, <4>2 DEF Rising
      <4> QED BY <1>7, <1>18, <2>2, <4>1, <4>3
    <3> QED BY <3>2, <3>3
  <2> QED BY <2>5, <2>6
<1>22. ListedFirst(P, D, pick)
  BY <1>14, <1>19, <1>20, <1>21 DEF ListedFirst
<1>23. ListOf(pick) = sel \o SubSeq(dis, 1, k)
  <2> DEFINE Values == {cands[x] : x \in 1..L}
             rest == SubSeq(dis, 1, k)
  <2>1. sel \in [1..len -> Values] /\ \A j \in 1..len : sel[j] = cands[ps[j]]
    <3>1. sel = [j \in 1..len |-> cands[ps[j]]]
      BY <1>2, <1>3 DEF ListOf
    <3> QED BY <1>1, <1>3, <3>1
  <2>2. dis \in [1..Len(ds) -> Values] /\ \A j \in 1..Len(ds) : dis[j] = cands[ds[j]]
    <3>1. dis = [j \in 1..Len(ds) |-> cands[ds[j]]]
      BY <1>2, <1>4 DEF ListOf
    <3> QED BY <1>1, <1>4, <3>1
  <2> HIDE DEF Values
  <2>3. sel \in Seq(Values) /\ Len(sel) = len
    BY <1>3, <2>1, SeqDef, LenProperties
  <2>4. dis \in Seq(Values) /\ Len(dis) = Len(ds)
    BY <1>4, <2>2, SeqDef, LenProperties
  <2>5. rest \in Seq(Values) /\ Len(rest) = k /\ \A j \in 1..k : rest[j] = dis[j]
    <3>1. \A j \in 1..k : dis[j] \in Values
      BY <1>13, <2>2
    <3>2. 1 \in Int /\ k \in Int
      BY <1>10
    <3>3. rest \in Seq(Values)
      BY <3>1, <3>2, SubSeqProperties
    <3>4. Len(rest) = IF 1 <= k THEN k - 1 + 1 ELSE 0
      BY <3>1, <3>2, SubSeqProperties
    <3>5. \A j \in 1..(k - 1 + 1) : rest[j] = dis[1 + j - 1]
      BY <3>1, <3>2, SubSeqProperties
    <3>6. Len(rest) = k
      BY <1>10, <3>4
    <3>7. ASSUME NEW j \in 1..k PROVE rest[j] = dis[j]
      <4>1. j \in 1..(k - 1 + 1) /\ 1 + j - 1 = j
        BY <1>10
      <4> QED BY <3>5, <4>1
    <3> QED BY <3>3, <3>6, <3>7
  <2> HIDE DEF rest
  <2>6. sel \o rest \in Seq(Values) /\ Len(sel \o rest) = len + k
    BY <2>3, <2>5, ConcatProperties
  <2>7. \A j \in 1..len : (sel \o rest)[j] = sel[j]
    BY <2>3, <2>5, ConcatProperties
  <2>8. \A j \in 1..k : (sel \o rest)[len + j] = rest[j]
    BY <2>3, <2>5, ConcatProperties
  <2>9. ASSUME NEW j \in 1..(len + k) PROVE (sel \o rest)[j] = cands[pick[j]]
    <3>1. CASE j \in 1..len
      BY <1>12, <2>1, <2>7, <3>1
    <3>2. CASE j \notin 1..len
      <4>1. j - len \in 1..k /\ j - len \in 1..Len(ds) /\ pick[j] = ds[j - len]
        BY <1>11, <3>2
      <4>2. len + (j - len) = j
        BY <1>3
      <4>3. (sel \o rest)[len + (j - len)] = rest[j - len]
        BY <2>8, <4>1
      <4>4. rest[j - len] = dis[j - len] /\ dis[j - len] = cands[ds[j - len]]
        BY <2>2, <2>5, <4>1
      <4> QED BY <4>1, <4>2, <4>3, <4>4
    <3> QED BY <3>1, <3>2
  <2>10. sel \o rest = [j \in 1..(len + k) |-> (sel \o rest)[j]]
    BY <2>6, LenProperties
  <2>11. ListOf(pick) = [j \in 1..(len + k) |-> cands[pick[j]]]
    BY <1>14 DEF ListOf
  <2>12. ListOf(pick) = sel \o rest
    BY <2>9, <2>10, <2>11
  <2> QED BY <2>12 DEF rest
<1>24. P \subseteq Picked(pick)
  <2> SUFFICES ASSUME NEW t \in P PROVE t \in Picked(pick)
    OBVIOUS
  <2>1. PICK j \in 1..len : ps[j] = t
    BY <1>8
  <2> QED BY <1>12, <1>14, <2>1 DEF Picked
<1> QED BY <1>14, <1>22, <1>23, <1>24 DEF Lists, P, D, L, len

\* What the loop returns once the free slots are filled.
LEMMA FillAnswered ==
  ASSUME ArgsOK, Nonnegative, Len(cands) > limit,
         NEW ps, NEW ds, NEW sel, NEW dis, NEW a, Scanned(ps, ds, a, sel, dis),
         ~(a <= Len(cands) /\ Len(sel) < limit),
         NEW k, k = IF limit - Len(sel) < Len(dis) THEN limit - Len(sel) ELSE Len(dis)
  PROVE  Answered(sel \o SubSeq(dis, 1, k))
<1> DEFINE P == Picked(ps)
           L == Len(cands)
           ret == sel \o SubSeq(dis, 1, k)
<1>1. a \in 1..(L + 1) /\ L \in Nat /\ limit \in Nat /\ a - 1 \in Nat
  BY ArgTypes DEF Scanned, ArgsOK
<1>2. ps \in Seq(1..(a - 1)) /\ ds \in Seq(1..(a - 1))
  BY DEF Scanned
<1>3. Len(ps) \in Nat /\ DOMAIN ps = 1..Len(ps) /\ \A j \in 1..Len(ps) : ps[j] \in 1..(a - 1)
  BY <1>1, <1>2, PositionFacts
<1>4. Len(ds) \in Nat /\ DOMAIN ds = 1..Len(ds)
  BY <1>1, <1>2, PositionFacts
<1>5. Len(sel) = Len(ps)
  <2>1. sel = [j \in 1..Len(ps) |-> cands[ps[j]]]
    BY <1>3 DEF Scanned, ListOf
  <2> QED BY <1>3, <2>1
<1>6. Len(dis) = Len(ds)
  <2> DEFINE n == Len(ds)
  <2>1. dis = [j \in 1..n |-> cands[ds[j]]] /\ n \in Nat
    BY <1>4 DEF Scanned, ListOf
  <2> HIDE DEF n
  <2>2. Len(dis) = n
    BY <2>1
  <2> QED BY <2>2 DEF n
<1>7. Len(ps) <= limit
  BY DEF Scanned
<1>8. k \in 0..Len(ds) /\ Len(ps) + k <= limit /\ (k < Len(ds) => Len(ps) + k = limit)
  <2>1. k = IF limit - Len(ps) < Len(ds) THEN limit - Len(ps) ELSE Len(ds)
    BY <1>5, <1>6
  <2> DEFINE x == Len(ps)
             y == Len(ds)
  <2>2. x \in Nat /\ y \in Nat /\ x <= limit /\ k = IF limit - x < y THEN limit - x ELSE y
    BY <1>3, <1>4, <1>7, <2>1
  <2> HIDE DEF x, y
  <2>3. k \in 0..y /\ x + k <= limit /\ (k < y => x + k = limit)
    BY <1>1, <2>2
  <2> QED BY <2>3 DEF x, y
<1>9. a > L \/ ~(Len(ps) < limit)
  BY <1>1, <1>5
<1>10. IsKept(P) /\ P \in SUBSET (1..L)
  BY <1>9, StoppedKept
<1>11. keep => Picked(ds) = Spare(P)
  BY <1>9, StoppedKept
<1>12. ~keep => Picked(ds) = {}
  BY <1>9, StoppedKept
<1>13. Kept = P
  BY <1>10, KeptIs
<1>14. PICK pick \in [1..(Len(ps) + k) -> 1..L] :
         /\ ListedFirst(P, Picked(ds), pick)
         /\ ListOf(pick) = ret
         /\ P \subseteq Picked(pick)
  <2>1. Room(ps, ds, k)
    BY <1>8 DEF Room
  <2>2. Lists(ps, ds, sel, dis, k)
    BY <2>1, PickListed
  <2> QED BY <2>2 DEF Lists
<1> DEFINE len == Len(ps) + k
<1>15. len \in 0..limit /\ pick \in [1..len -> 1..L]
  BY <1>1, <1>3, <1>8, <1>14
<1>16. Picked(pick) \subseteq P \union Picked(ds)
  BY <1>14 DEF ListedFirst
<1>17. ToSet(ret) = {cands[n] : n \in Picked(pick)}
  <2> HIDE DEF len, ret
  <2>1. ret = [j \in 1..len |-> cands[pick[j]]]
    BY <1>14, <1>15 DEF ListOf
  <2>2. ToSet(ret) = {ret[j] : j \in DOMAIN ret}
    BY DEF ToSet
  <2>3. DOMAIN ret = 1..len /\ DOMAIN pick = 1..len /\ \A j \in 1..len : ret[j] = cands[pick[j]]
    BY <1>15, <2>1
  <2>4. ToSet(ret) = {cands[pick[j]] : j \in 1..len}
    BY <2>2, <2>3
  <2> QED BY <2>3, <2>4 DEF Picked
<1> HIDE DEF ret, len, P, L
<1>18. {cands[n] : n \in Kept} \subseteq ToSet(ret)
  BY <1>13, <1>14, <1>17
<1>19. ~keep => {cands[n] : n \in Kept} = ToSet(ret)
  <2> SUFFICES ASSUME ~keep PROVE Picked(pick) = P
    BY <1>13, <1>17
  <2> QED BY <1>12, <1>14, <1>16
<1>20. ASSUME ~Ties, keep PROVE ret \in Keeping!Selections(q, cands, limit, TRUE)
  <2>1. ListedFirst(P, Spare(P), pick)
    BY <1>11, <1>14, <1>20
  <2>2. ListOf(pick) \in Keeping!Selections(q, cands, limit, TRUE)
    BY <1>10, <1>15, <1>20, <2>1, KeepingSelects DEF L
  <2> QED BY <1>14, <2>2
<1>21. ASSUME ~Ties, ~keep PROVE ret \in Dropping!Selections(q, cands, limit, TRUE)
  <2>1. ListedFirst(P, {}, pick)
    BY <1>12, <1>14, <1>21
  <2>2. ListOf(pick) \in Dropping!Selections(q, cands, limit, TRUE)
    BY <1>10, <1>15, <1>21, <2>1, DroppingSelects DEF L
  <2> QED BY <1>14, <2>2
<1>22. Answered(ret)
  BY <1>18, <1>19, <1>20, <1>21 DEF Answered
<1> QED BY <1>22 DEF ret

\* The arguments of a call do not change, nor what is defined from them.
SameArgs == UNCHANGED <<q, limit, keep, pruning, cands>>

LEMMA ArgsStay ==
  ASSUME SameArgs
  PROVE  /\ ArgsOK' <=> ArgsOK
         /\ Nonnegative' <=> Nonnegative
         /\ Kept' = Kept /\ (Ties' <=> Ties)
<1>1. q' = q /\ limit' = limit /\ keep' = keep /\ pruning' = pruning /\ cands' = cands
  BY DEF SameArgs
<1>2. \A x : Away(x)' = Away(x)
  BY <1>1 DEF Away
<1>3. ArgsOK' <=> ArgsOK
  BY <1>1 DEF ArgsOK, Away
<1>4. Nonnegative' <=> Nonnegative
  BY <1>1 DEF Nonnegative, Away
<1>5. Ties' <=> Ties
  BY <1>1 DEF Ties, Away
<1>6. Kept' = Kept
  BY <1>1 DEF Kept, Away
<1> QED BY <1>3, <1>4, <1>5, <1>6

\* Where the loop is, as a predicate of the state.
ScanOK == \E ps, ds \in Seq(Nat) : Scanned(ps, ds, at, selected, discarded)

LEMMA ScanMoves ==
  ASSUME SameArgs, ArgsOK, NEW ps, NEW ds, Scanned(ps, ds, at', selected', discarded')
  PROVE  ScanOK'
<1>1. q' = q /\ limit' = limit /\ keep' = keep /\ cands' = cands
  BY DEF SameArgs
<1>2. ps \in Seq(Nat) /\ ds \in Seq(Nat)
  <2>1. at' - 1 \in Nat /\ ps \in Seq(1..(at' - 1)) /\ ds \in Seq(1..(at' - 1))
    <3>1. Len(cands) \in Nat
      BY ArgTypes
    <3>2. at' \in 1..(Len(cands) + 1) /\ ps \in Seq(1..(at' - 1)) /\ ds \in Seq(1..(at' - 1))
      BY DEF Scanned
    <3>3. at' - 1 \in Nat
      <4> DEFINE x == at'
                 L == Len(cands)
      <4>1. x \in 1..(L + 1) /\ L \in Nat
        BY <3>1, <3>2
      <4> HIDE DEF x, L
      <4>2. x - 1 \in Nat
        BY <4>1
      <4> QED BY <4>2 DEF x
    <3> QED BY <3>2, <3>3
  <2> DEFINE top == at' - 1
  <2>2. top \in Nat /\ ps \in Seq(1..top) /\ ds \in Seq(1..top)
    BY <2>1
  <2> HIDE DEF top
  <2> QED BY <2>2, PositionFacts
<1>3. Scanned(ps, ds, at, selected, discarded)'
  BY <1>1 DEF Scanned, Examined, Clear, ListOf, Away
<1> QED BY <1>2, <1>3 DEF ScanOK

\* What the selected candidates are: those at the positions ps, before a.
ListedAs(ps, a, sel) ==
  /\ Len(sel) \in Nat /\ Len(sel) = Len(ps)
  /\ \A j \in 1..Len(sel) : ps[j] \in 1..Len(cands) /\ ps[j] < a /\ sel[j] = cands[ps[j]]

LEMMA SelectedIs ==
  ASSUME ArgsOK, NEW ps, NEW ds, NEW sel, NEW dis, NEW a, Scanned(ps, ds, a, sel, dis)
  PROVE  ListedAs(ps, a, sel)
<1> DEFINE top == a - 1
           L == Len(cands)
           len == Len(ps)
<1>1. L \in Nat /\ a \in 1..(L + 1)
  BY ArgTypes DEF Scanned
<1>2. ps \in Seq(1..top) /\ sel = ListOf(ps)
  BY DEF Scanned
<1> HIDE DEF L
<1>3. top \in Nat /\ \A x \in 1..top : x \in 1..L /\ x < a
  BY <1>1
<1> HIDE DEF top
<1>4. len \in Nat /\ DOMAIN ps = 1..len /\ \A j \in 1..len : ps[j] \in 1..top
  BY <1>2, <1>3, PositionFacts
<1> HIDE DEF len
<1>5. sel = [j \in 1..len |-> cands[ps[j]]]
  BY <1>2, <1>4 DEF ListOf
<1>6. Len(sel) = len
  BY <1>4, <1>5
<1>7. ASSUME NEW j \in 1..len PROVE ps[j] \in 1..L /\ ps[j] < a /\ sel[j] = cands[ps[j]]
  BY <1>3, <1>4, <1>5
<1> QED BY <1>4, <1>6, <1>7 DEF ListedAs, len, L

\* The candidate is compared with the selected ones in their order, and all
\* compared so far are out of its way.
InnerOK ==
  /\ Examines
  /\ against \in 1..(Len(selected) + 1)
  /\ \A j \in 1..(against - 1) : Distance[cands[at]][selected[j]] > Away(cands[at])

\* The inductive invariant.
SelectionInv ==
  /\ ArgsOK
  /\ stage \in {"start", "outer", "inner", "done"}
  /\ stage = "start" => at = 1 /\ selected = <<>> /\ discarded = <<>>
  /\ stage \in {"outer", "inner"} => Len(cands) > limit
  /\ stage \in {"outer", "inner"} /\ Nonnegative => ScanOK
  /\ stage = "inner" /\ Nonnegative => InnerOK
  /\ stage = "done" /\ Nonnegative => Answered(selected)

LEMMA AnsweredIs == SelectionInv => PickIsAlgorithm4
  BY DEF SelectionInv, PickIsAlgorithm4, Answered

LEMMA SelectionStart == SelectionInit => SelectionInv
<1> SUFFICES ASSUME SelectionInit PROVE SelectionInv
  OBVIOUS
<1>1. limit \in Nat \ {0} /\ keep \in BOOLEAN /\ pruning \in BOOLEAN
  BY LoopAssumption DEF SelectionInit
<1>2. PICK I \in Indexes :
        /\ q \in I
        /\ \E S \in SUBSET (I \ {q}) : (pruning => Cardinality(S) > limit) /\ cands \in Sorted(S)
  BY DEF SelectionInit
<1>3. PICK S \in SUBSET (I \ {q}) : (pruning => Cardinality(S) > limit) /\ cands \in Sorted(S)
  BY <1>2
<1>4. I \subseteq Point /\ S \subseteq Point /\ q \in Point
  BY <1>2, LoopAssumption
<1>5. Cardinality(S) \in Nat
  <2>1. IsFiniteSet(S)
    BY <1>4, LoopAssumption, FS_Subset
  <2> QED BY <2>1, FS_CardinalityType
<1> DEFINE n == Cardinality(S)
<1>6. cands \in [1..n -> S] /\ IsInjective(cands)
  BY <1>3 DEF Sorted
<1>7. \A a, b \in DOMAIN cands : a < b => Away(cands[a]) <= Away(cands[b])
  BY <1>3 DEF Sorted
<1> HIDE DEF n
<1>8. cands \in [1..n -> Point]
  BY <1>4, <1>6
<1>9. cands \in Seq(Point) /\ Len(cands) = n /\ DOMAIN cands = 1..n
  <2>1. n \in Nat
    BY <1>5 DEF n
  <2> QED BY <1>8, <2>1, SeqDef, LenProperties
<1>10. ArgsOK
  <2>1. \A a, b \in 1..Len(cands) : a < b => Away(cands[a]) <= Away(cands[b])
    BY <1>7, <1>9
  <2>2. \A a, b \in 1..Len(cands) : cands[a] = cands[b] => a = b
    BY <1>6, <1>9 DEF IsInjective
  <2>3. pruning => Len(cands) > limit
    BY <1>3, <1>9 DEF n
  <2> QED BY <1>1, <1>4, <1>9, <2>1, <2>2, <2>3 DEF ArgsOK
<1> QED BY <1>10 DEF SelectionInv, SelectionInit

LEMMA TakeAllKeeps == SelectionInv /\ TakeAll => SelectionInv'
<1> SUFFICES ASSUME SelectionInv, TakeAll PROVE SelectionInv'
  OBVIOUS
<1>1. SameArgs
  BY DEF TakeAll, SameArgs
<1>2. ArgsOK /\ Len(cands) <= limit /\ selected' = cands /\ stage' = "done"
  BY DEF TakeAll, SelectionInv
<1>3. ~(Len(cands) > limit)
  <2>1. Len(cands) \in Nat /\ limit \in Nat
    BY <1>2, ArgTypes DEF ArgsOK
  <2> QED BY <1>2, <2>1
<1>4. Answered(cands)
  <2>1. ASSUME ~Ties PROVE cands \in Keeping!Selections(q, cands, limit, TRUE)
    BY <1>2, <2>1, AllSelected
  <2>2. ASSUME ~Ties PROVE cands \in Dropping!Selections(q, cands, limit, TRUE)
    BY <1>2, <2>2, AllSelected
  <2> QED BY <1>3, <2>1, <2>2 DEF Answered
<1>5. ArgsOK'
  BY <1>1, <1>2, ArgsStay
<1>6. Answered(selected)'
  <2>1. limit' = limit /\ keep' = keep /\ cands' = cands /\ q' = q
    BY <1>1 DEF SameArgs
  <2>2. Kept' = Kept /\ Ties' = Ties
    BY <2>1 DEF Kept, Ties, Away
  <2> QED BY <1>2, <1>4, <2>1, <2>2 DEF Answered
<1> QED BY <1>2, <1>5, <1>6 DEF SelectionInv

LEMMA BeginScanKeeps == SelectionInv /\ BeginScan => SelectionInv'
<1> SUFFICES ASSUME SelectionInv, BeginScan PROVE SelectionInv'
  OBVIOUS
<1>1. SameArgs /\ ArgsOK /\ stage' = "outer"
  BY DEF BeginScan, SameArgs, SelectionInv
<1>2. at' = 1 /\ selected' = <<>> /\ discarded' = <<>>
  BY DEF BeginScan, SelectionInv
<1>3. Len(cands) > limit
  BY DEF BeginScan, SelectionInv, ArgsOK
<1>4. Scanned(<<>>, <<>>, 1, <<>>, <<>>)
  <2>1. Len(cands) \in Nat /\ limit \in Nat
    BY <1>1, ArgTypes DEF ArgsOK
  <2>2. <<>> \in Seq(1..(1 - 1)) /\ Len(<<>>) = 0 /\ DOMAIN <<>> = {}
    BY EmptySeq
  <2>3. Picked(<<>>) = {} /\ Rising(<<>>)
    BY <2>2 DEF Picked, Rising
  <2>4. ListOf(<<>>) = <<>>
    BY <2>2 DEF ListOf
  <2>5. Cardinality({}) = 0
    BY FS_EmptySet
  <2>6. 1..(1 - 1) = {}
    OBVIOUS
  <2> QED BY <2>1, <2>2, <2>3, <2>4, <2>5, <2>6 DEF Scanned
<1>5. ScanOK'
  BY <1>1, <1>2, <1>4, ScanMoves
<1>6. ArgsOK' /\ cands' = cands /\ limit' = limit
  BY <1>1, ArgsStay DEF SameArgs
<1> QED BY <1>1, <1>3, <1>5, <1>6 DEF SelectionInv

LEMMA NextCandidateKeeps == SelectionInv /\ NextCandidate => SelectionInv'
<1> SUFFICES ASSUME SelectionInv, NextCandidate PROVE SelectionInv'
  OBVIOUS
<1>1. SameArgs /\ ArgsOK /\ stage' = "inner" /\ against' = 1 /\ Len(cands) > limit /\ Examines
  BY DEF NextCandidate, SameArgs, SelectionInv
<1>2. at' = at /\ selected' = selected /\ discarded' = discarded /\ cands' = cands /\ limit' = limit
  BY DEF NextCandidate
<1>3. ArgsOK' /\ (Nonnegative' <=> Nonnegative)
  BY <1>1, ArgsStay
<1>4. ASSUME Nonnegative PROVE ScanOK' /\ InnerOK'
  <2>1. PICK ps, ds \in Seq(Nat) : Scanned(ps, ds, at, selected, discarded)
    BY <1>4 DEF NextCandidate, SelectionInv, ScanOK
  <2>2. ScanOK'
    BY <1>1, <1>2, <2>1, ScanMoves
  <2>3. Len(selected) \in Nat
    BY <2>1, SelectedIs DEF ListedAs
  <2>4. InnerOK'
    <3>1. 1 \in 1..(Len(selected) + 1)
      BY <2>3
    <3>2. Examines' /\ against' \in 1..(Len(selected') + 1)
      BY <1>1, <1>2, <3>1 DEF Examines
    <3>3. 1..(against' - 1) = {}
      BY <1>1
    <3> QED BY <3>2, <3>3 DEF InnerOK
  <2> QED BY <2>2, <2>4
<1> QED BY <1>1, <1>2, <1>3, <1>4 DEF SelectionInv

\* Among distances that are not negative a selected candidate, being closer,
\* is never skipped.
LEMMA NeverSkips ==
  ASSUME SelectionInv, Nonnegative, Compares
  PROVE  ~Skips
<1>1. PICK ps, ds \in Seq(Nat) : Scanned(ps, ds, at, selected, discarded)
  BY DEF Compares, SelectionInv, ScanOK
<1>2. ArgsOK /\ Examines /\ against \in 1..(Len(selected) + 1)
  BY DEF Compares, SelectionInv, InnerOK
<1>3. ListedAs(ps, at, selected)
  BY <1>1, <1>2, SelectedIs
<1>4. against \in 1..Len(selected)
  BY <1>2, <1>3 DEF Compares, ListedAs
<1>5. ps[against] \in 1..Len(cands) /\ ps[against] < at /\ selected[against] = cands[ps[against]]
  BY <1>3, <1>4 DEF ListedAs
<1>6. at \in 1..Len(cands)
  BY <1>1, <1>2, ArgTypes DEF Scanned, Examines
<1>7. ~(Away(cands[ps[against]]) > 2 * Away(cands[at]))
  BY <1>2, <1>5, <1>6, CloserBlocks
<1> QED BY <1>5, <1>7 DEF Skips

LEMMA ShortcutKeeps == SelectionInv /\ Shortcut => SelectionInv'
<1> SUFFICES ASSUME SelectionInv, Shortcut PROVE SelectionInv'
  OBVIOUS
<1>1. SameArgs /\ ArgsOK /\ stage' = "inner" /\ Len(cands) > limit
  BY DEF Shortcut, Skips, Compares, SameArgs, SelectionInv
<1>2. cands' = cands /\ limit' = limit
  BY DEF Shortcut
<1>3. ArgsOK' /\ (Nonnegative' <=> Nonnegative)
  BY <1>1, ArgsStay
<1>4. ~Nonnegative
  BY NeverSkips DEF Shortcut, Skips
<1> QED BY <1>1, <1>2, <1>3, <1>4 DEF SelectionInv

LEMMA PassKeeps == SelectionInv /\ Pass => SelectionInv'
<1> SUFFICES ASSUME SelectionInv, Pass PROVE SelectionInv'
  OBVIOUS
<1>1. SameArgs /\ ArgsOK /\ stage' = "inner" /\ Len(cands) > limit
  BY DEF Pass, Compares, SameArgs, SelectionInv
<1>2. /\ at' = at /\ selected' = selected /\ discarded' = discarded /\ cands' = cands
      /\ limit' = limit /\ q' = q /\ against' = against + 1
  BY DEF Pass
<1>3. ArgsOK' /\ (Nonnegative' <=> Nonnegative)
  BY <1>1, ArgsStay
<1>4. ASSUME Nonnegative PROVE ScanOK' /\ InnerOK'
  <2>1. PICK ps, ds \in Seq(Nat) : Scanned(ps, ds, at, selected, discarded)
    BY <1>4 DEF Pass, Compares, SelectionInv, ScanOK
  <2>2. ScanOK'
    BY <1>1, <1>2, <2>1, ScanMoves
  <2>3. /\ Examines /\ against \in 1..(Len(selected) + 1)
        /\ \A j \in 1..(against - 1) : Distance[cands[at]][selected[j]] > Away(cands[at])
    BY <1>4 DEF Pass, Compares, SelectionInv, InnerOK
  <2>4. ListedAs(ps, at, selected)
    BY <1>1, <2>1, <2>3, SelectedIs
  <2>5. Len(selected) \in Nat /\ against \in 1..Len(selected)
    BY <2>3, <2>4 DEF Pass, Compares, ListedAs
  <2>6. at \in 1..Len(cands) /\ ps[against] \in 1..Len(cands) /\ selected[against] = cands[ps[against]]
    BY <1>1, <2>1, <2>3, <2>4, <2>5, ArgTypes DEF Scanned, Examines, ListedAs
  <2>7. Distance[cands[at]][selected[against]] \in Int /\ Away(cands[at]) \in Int
    BY <1>1, <2>6, ArgTypes
  <2>8. Distance[cands[at]][selected[against]] > Away(cands[at])
    BY <2>7 DEF Pass, Redundant
  <2>9. against + 1 \in 1..(Len(selected) + 1) /\ \A j \in 1..((against + 1) - 1) : j \in 1..(against - 1) \/ j = against
    BY <2>5
  <2>10. \A j \in 1..((against + 1) - 1) : Distance[cands[at]][selected[j]] > Away(cands[at])
    BY <2>3, <2>8, <2>9
  <2>11. InnerOK'
    BY <1>2, <2>3, <2>9, <2>10 DEF InnerOK, Examines, Away
  <2> QED BY <2>2, <2>11
<1> QED BY <1>1, <1>2, <1>3, <1>4 DEF SelectionInv

LEMMA RejectKeeps == SelectionInv /\ Reject => SelectionInv'
<1> SUFFICES ASSUME SelectionInv, Reject PROVE SelectionInv'
  OBVIOUS
<1>1. SameArgs /\ ArgsOK /\ stage' = "outer" /\ Len(cands) > limit
  BY DEF Reject, Compares, SameArgs, SelectionInv
<1>2. /\ at' = at + 1 /\ selected' = selected /\ cands' = cands /\ limit' = limit
      /\ discarded' = IF keep THEN Append(discarded, cands[at]) ELSE discarded
  BY DEF Reject
<1>3. ArgsOK' /\ (Nonnegative' <=> Nonnegative)
  BY <1>1, ArgsStay
<1>4. ASSUME Nonnegative PROVE ScanOK'
  <2>1. PICK ps, ds \in Seq(Nat) : Scanned(ps, ds, at, selected, discarded)
    BY <1>4 DEF Reject, Compares, SelectionInv, ScanOK
  <2>2. Examines /\ against \in 1..(Len(selected) + 1)
    BY <1>4 DEF Reject, Compares, SelectionInv, InnerOK
  <2>3. ListedAs(ps, at, selected)
    BY <1>1, <2>1, SelectedIs
  <2>4. against \in 1..Len(selected) /\ Len(selected) < limit
    BY <2>2, <2>3 DEF Reject, Compares, ListedAs, Examines
  <2>5. at \in 1..Len(cands)
    BY <1>1, <2>1, <2>2, ArgTypes DEF Scanned, Examines
  <2>6. Distance[cands[at]][selected[against]] <= Away(cands[at])
    BY DEF Reject, Redundant
  <2>7. \E dd : Scanned(ps, dd, at + 1, selected, IF keep THEN Append(discarded, cands[at]) ELSE discarded)
    BY <1>1, <2>1, <2>4, <2>5, <2>6, RejectScanned
  <2>8. PICK dd : Scanned(ps, dd, at', selected', discarded')
    BY <1>2, <2>7
  <2> QED BY <1>1, <2>8, ScanMoves
<1> QED BY <1>1, <1>2, <1>3, <1>4 DEF SelectionInv

LEMMA AcceptKeeps == SelectionInv /\ Accept => SelectionInv'
<1> SUFFICES ASSUME SelectionInv, Accept PROVE SelectionInv'
  OBVIOUS
<1>1. SameArgs /\ ArgsOK /\ stage' = "outer" /\ Len(cands) > limit
  BY DEF Accept, SameArgs, SelectionInv
<1>2. /\ at' = at + 1 /\ selected' = Append(selected, cands[at]) /\ discarded' = discarded
      /\ cands' = cands /\ limit' = limit
  BY DEF Accept
<1>3. ArgsOK' /\ (Nonnegative' <=> Nonnegative)
  BY <1>1, ArgsStay
<1>4. ASSUME Nonnegative PROVE ScanOK'
  <2>1. PICK ps, ds \in Seq(Nat) : Scanned(ps, ds, at, selected, discarded)
    BY <1>4 DEF Accept, SelectionInv, ScanOK
  <2>2. /\ Examines /\ against \in 1..(Len(selected) + 1)
        /\ \A j \in 1..(against - 1) : Distance[cands[at]][selected[j]] > Away(cands[at])
    BY <1>4 DEF Accept, SelectionInv, InnerOK
  <2>3. ListedAs(ps, at, selected)
    BY <1>1, <2>1, SelectedIs
  <2>4. 1..(against - 1) = 1..Len(selected) /\ Len(selected) < limit
    <3>1. Len(selected) \in Nat /\ against > Len(selected)
      BY <2>3 DEF Accept, ListedAs
    <3>2. against - 1 = Len(selected)
      BY <2>2, <3>1
    <3> QED BY <2>2, <3>2 DEF Examines
  <2>5. at \in 1..Len(cands)
    BY <1>1, <2>1, <2>2, ArgTypes DEF Scanned, Examines
  <2>6. \A j \in 1..Len(selected) : Distance[cands[at]][selected[j]] > Away(cands[at])
    BY <2>2, <2>4
  <2>7. Scanned(Append(ps, at), ds, at + 1, Append(selected, cands[at]), discarded)
    BY <1>1, <2>1, <2>4, <2>5, <2>6, AcceptScanned
  <2>8. \E pp : Scanned(pp, ds, at', selected', discarded')
    BY <1>2, <2>7
  <2>9. PICK pp : Scanned(pp, ds, at', selected', discarded')
    BY <2>8
  <2> QED BY <1>1, <2>9, ScanMoves
<1> QED BY <1>1, <1>2, <1>3, <1>4 DEF SelectionInv

LEMMA FillKeeps == SelectionInv /\ Fill => SelectionInv'
<1> SUFFICES ASSUME SelectionInv, Fill PROVE SelectionInv'
  OBVIOUS
<1>1. SameArgs /\ ArgsOK /\ stage' = "done" /\ Len(cands) > limit
  BY DEF Fill, SameArgs, SelectionInv
<1> DEFINE k == IF Needed < Len(discarded) THEN Needed ELSE Len(discarded)
           ret == selected \o SubSeq(discarded, 1, k)
<1>2. selected' = ret
  BY DEF Fill
<1>3. ArgsOK' /\ (Nonnegative' <=> Nonnegative)
  BY <1>1, ArgsStay
<1>4. ASSUME Nonnegative PROVE Answered(selected)'
  <2>1. PICK ps, ds \in Seq(Nat) : Scanned(ps, ds, at, selected, discarded)
    BY <1>4 DEF Fill, SelectionInv, ScanOK
  <2>2. ~(at <= Len(cands) /\ Len(selected) < limit)
    BY DEF Fill, Examines
  <2>3. k = IF limit - Len(selected) < Len(discarded) THEN limit - Len(selected) ELSE Len(discarded)
    BY DEF Needed
  <2> HIDE DEF k
  <2>4. Answered(ret)
    BY <1>1, <1>4, <2>1, <2>2, <2>3, FillAnswered
  <2> HIDE DEF ret
  <2>5. limit' = limit /\ keep' = keep /\ cands' = cands /\ q' = q
    BY <1>1 DEF SameArgs
  <2>6. Kept' = Kept /\ Ties' = Ties
    BY <2>5 DEF Kept, Ties, Away
  <2> QED BY <1>2, <2>4, <2>5, <2>6 DEF Answered
<1> QED BY <1>1, <1>3, <1>4 DEF SelectionInv

LEMMA SelectionStays == SelectionInv /\ UNCHANGED selectionVars => SelectionInv'
<1> SUFFICES ASSUME SelectionInv, UNCHANGED selectionVars PROVE SelectionInv'
  OBVIOUS
<1>1. SameArgs /\ at' = at /\ against' = against /\ selected' = selected /\ discarded' = discarded /\ stage' = stage
  BY DEF selectionVars, SameArgs
<1>2. limit' = limit /\ keep' = keep /\ cands' = cands /\ q' = q
  BY <1>1 DEF SameArgs
<1>3. ArgsOK' /\ (Nonnegative' <=> Nonnegative)
  BY <1>1, ArgsStay DEF SelectionInv
<1>4. ASSUME ScanOK PROVE ScanOK'
  <2>1. PICK ps, ds \in Seq(Nat) : Scanned(ps, ds, at, selected, discarded)
    BY <1>4 DEF ScanOK
  <2> QED BY <1>1, <2>1, ScanMoves DEF SelectionInv
<1>5. InnerOK' <=> InnerOK
  BY <1>1, <1>2 DEF InnerOK, Examines, Away
<1>6. Answered(selected)' <=> Answered(selected)
  <2>1. Kept' = Kept /\ Ties' = Ties
    BY <1>2 DEF Kept, Ties, Away
  <2> QED BY <1>1, <1>2, <2>1 DEF Answered
<1> QED BY <1>1, <1>2, <1>3, <1>4, <1>5, <1>6 DEF SelectionInv

LEMMA SelectionKept == SelectionInv /\ [SelectionNext]_selectionVars => SelectionInv'
  BY TakeAllKeeps, BeginScanKeeps, NextCandidateKeeps, ShortcutKeeps, PassKeeps, RejectKeeps,
     AcceptKeeps, FillKeeps, SelectionStays DEF SelectionNext

\* The loop of the source returns what Algorithm 4 returns, for every index,
\* every metric without negative distances to the candidates, every limit,
\* and every order an unstable sort leaves ties in (select_neighbours and
\* prune_connections, src/hnsw.rs and src/parallel.rs).
THEOREM PickTheorem == SelectionSpec => []PickIsAlgorithm4
<1>1. SelectionSpec => []SelectionInv
  BY SelectionStart, SelectionKept, PTL DEF SelectionSpec
<1> QED BY <1>1, AnsweredIs, PTL
=============================================================================
