------------------------------ MODULE Kernels ------------------------------
(***************************************************************************)
(* One call of a metric (src/distance.rs) down to the loops of its kernels *)
(* (src/simd.rs).  Floating-point values are left out: what is kept is     *)
(* which elements are read and how often each term enters the result.      *)
(* Addition is taken as exact, so a sum is the bag of its terms.           *)
(***************************************************************************)
EXTENDS Integers, Sequences

CONSTANTS
  LongestSlice,  \* bound: the longest vector
  Shapes,   \* pairs of lengths a metric is called with
  I32Max    \* i32::MAX, the longest vector BLAS takes

ASSUME KernelsAssumption ==
  /\ LongestSlice \in Nat /\ I32Max \in Nat
  /\ Shapes \subseteq (0..LongestSlice) \X (0..LongestSlice)

VARIABLES
  build,    \* target, features of the crate and of the processor
  metric, shape,
  call,     \* which of the metric's kernel calls is next or running
  phase,    \* "between" calls, in the "vector" or the "scalar" loops, "returned"
  kernel,   \* the running kernel
  i,        \* its index
  acc,      \* its accumulators: how often each index was added to each
  sum       \* the scalar result: how often each index was added to it

metricVars == <<build, metric, shape, call, phase, kernel, i, acc, sum>>

-----------------------------------------------------------------------------
(* The metrics: which kernel runs on which two of the slices a and b.      *)

MetricNames == {"SquaredEuclidean", "Euclidean", "Cosine", "DotProduct", "Manhattan"}

\* Cosine takes the norm of each slice in full.
Calls(name) ==
  CASE name \in {"SquaredEuclidean", "Euclidean"} -> <<<<"l2_squared", 1, 2>>>>
    [] name = "Manhattan"  -> <<<<"l1", 1, 2>>>>
    [] name = "DotProduct" -> <<<<"dot", 1, 2>>>>
    [] name = "Cosine"     -> <<<<"dot", 1, 2>>, <<"norm", 1, 1>>, <<"norm", 2, 2>>>>

Op == Calls(metric)[call][1]
Shorter(a, b) == IF a < b THEN a ELSE b
N == Shorter(shape[Calls(metric)[call][2]], shape[Calls(metric)[call][3]])

-----------------------------------------------------------------------------
(* The kernels: floats per load, accumulators, and whether a loop of one   *)
(* load at a time comes between the blocks and the scalar tail.            *)

Kernel(name, lanes, accumulators, single) ==
  [name |-> name, lanes |-> lanes, accumulators |-> accumulators, single |-> single]

Portable == Kernel("portable", 1, 8, FALSE)
Neon(op) == IF op = "l1" THEN Kernel("neon", 4, 2, FALSE) ELSE Kernel("neon", 4, 4, TRUE)
Avx2 == Kernel("avx2", 8, 2, TRUE)
Avx512 == Kernel("avx512", 16, 2, TRUE)
Blas == Kernel("blas", 1, 1, FALSE)
Kernels == {Portable, Avx2, Avx512, Blas} \union {Neon("l1"), Neon("dot")}

\* The widest the build and the processor have.
Dispatched(op) ==
  CASE ~build.simd -> Portable
    [] build.simd /\ build.arch = "aarch64" -> Neon(op)
    [] build.simd /\ build.arch = "x86_64" ->
         IF build.avx512 /\ "avx512f" \in build.cpu THEN Avx512
         ELSE IF {"avx2", "fma"} \subseteq build.cpu THEN Avx2 ELSE Portable
    [] OTHER -> Portable

\* cblas_sdot and cblas_snrm2 take the length as an i32.
UsesBlas(op, n) == build.blas /\ op \in {"dot", "norm"} /\ 0 < n /\ n <= I32Max

\* The processor's features are asked for on x86-64 only.
Builds ==
  [arch : {"aarch64", "other"}, simd : BOOLEAN, avx512 : {FALSE}, blas : BOOLEAN, cpu : {{}}]
  \union [arch : {"x86_64"}, simd : BOOLEAN, avx512 : BOOLEAN, blas : BOOLEAN,
          cpu : {{}, {"avx2"}, {"avx2", "fma"}, {"avx2", "fma", "avx512f"}}]

-----------------------------------------------------------------------------
(* The indices a load could reach, past the end of the slices too.         *)
Index == 0..(LongestSlice + 32)
Slot == 0..7
Nothing == [j \in Index |-> 0]
Added(terms, S) == [j \in Index |-> IF j \in S THEN terms[j] + 1 ELSE terms[j]]

BeginKernel ==
  /\ phase = "between"
  /\ kernel' = IF UsesBlas(Op, N) THEN Blas ELSE Dispatched(Op)
  /\ phase' = IF UsesBlas(Op, N) THEN "blas" ELSE "vector"
  /\ i' = 0
  /\ acc' = [l \in Slot |-> Nothing]
  /\ sum' = Nothing
  /\ UNCHANGED <<build, metric, shape, call>>

\* The library call, taken at its word.
CallBlas ==
  /\ phase = "blas"
  /\ sum' = Added(sum, 0..(N - 1)) /\ i' = N
  /\ phase' = "scalar"
  /\ UNCHANGED <<build, metric, shape, call, kernel, acc>>

Stride == kernel.lanes * kernel.accumulators
Load(at) == at..(at + kernel.lanes - 1)

BlockFitsLate == i + Stride <= N + 1   \* mutant: the bound off by one
BlockFits == i + Stride <= N

AddBlock ==
  /\ phase = "vector" /\ BlockFits
  /\ acc' = [l \in Slot |-> IF l < kernel.accumulators THEN Added(acc[l], Load(i + l * kernel.lanes))
                            ELSE acc[l]]
  /\ i' = i + Stride
  /\ UNCHANGED <<build, metric, shape, call, phase, kernel, sum>>

SingleFits == kernel.single /\ i + kernel.lanes <= N

AddSingle ==
  /\ phase = "vector" /\ ~BlockFits /\ SingleFits
  /\ acc' = [acc EXCEPT ![0] = Added(acc[0], Load(i))]
  /\ i' = i + kernel.lanes
  /\ UNCHANGED <<build, metric, shape, call, phase, kernel, sum>>

TotalOfTwo(j) == acc[0][j] + acc[1][j]   \* mutant: two accumulators forgotten
Total(j) == ((acc[0][j] + acc[1][j]) + (acc[2][j] + acc[3][j]))
            + ((acc[4][j] + acc[5][j]) + (acc[6][j] + acc[7][j]))

\* The horizontal sum, between the vector loops and the tail.
Reduce ==
  /\ phase = "vector" /\ ~BlockFits /\ ~SingleFits
  /\ sum' = [j \in Index |-> Total(j)]
  /\ phase' = "scalar"
  /\ UNCHANGED <<build, metric, shape, call, kernel, i, acc>>

AddTail ==
  /\ phase = "scalar" /\ i < N
  /\ sum' = Added(sum, {i})
  /\ i' = i + 1
  /\ UNCHANGED <<build, metric, shape, call, phase, kernel, acc>>

Return ==
  /\ phase = "scalar" /\ i >= N
  /\ phase' = "returned"
  /\ UNCHANGED <<build, metric, shape, call, kernel, i, acc, sum>>

NextCall ==
  /\ phase = "returned" /\ call < Len(Calls(metric))
  /\ call' = call + 1
  /\ phase' = "between"
  /\ UNCHANGED <<build, metric, shape, kernel, i, acc, sum>>

MetricInit ==
  /\ build \in Builds /\ metric \in MetricNames /\ shape \in Shapes
  /\ call = 1 /\ phase = "between" /\ kernel = Portable /\ i = 0
  /\ acc = <<>> /\ sum = <<>>

MetricNext == BeginKernel \/ CallBlas \/ AddBlock \/ AddSingle \/ Reduce \/ AddTail \/ Return \/ NextCall

MetricSpec == MetricInit /\ [][MetricNext]_metricVars

-----------------------------------------------------------------------------
\* Nothing is read past the shorter of the two slices, and when a kernel
\* returns every element of their common prefix has been counted once: in
\* every build, on every processor, for every metric and pair of lengths.
FoldIsExact ==
  /\ phase # "between" =>
       \A j \in Index : j >= N => sum[j] = 0 /\ \A l \in Slot : acc[l][j] = 0
  /\ phase = "returned" => \A j \in Index : j < N => sum[j] = 1
=============================================================================
