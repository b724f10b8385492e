---------------------------- MODULE MCSideBySide ----------------------------
(* Six modules that share no state, explored by one run: each initial     *)
(* state starts one of them and parks the others where they stay.          *)
EXTENDS QueryWorkspace, Kernels, SelectionLoop, Codec, Sidecar, PairedIndex, TLC

VARIABLE running

SeedSymmetry == Permutations(Seeds)

\* Kernels: lengths around the blocks of every kernel, and unequal pairs.
MCLengths == (0..9) \union {12, 15, 16, 17, 20, 24, 31, 32, 33, 36}
MCShapes ==
  {<<n, n>> : n \in MCLengths}
  \union {<<6, 5>>, <<20, 9>>, <<17, 8>>, <<33, 16>>, <<31, 36>>}

\* SelectionLoop: points on a line, two of them in one place, and vectors of
\* length one under DotProduct, whose distances may be negative.
Position == <<0, 1, 2, 4, 7, 7>>
OnLine == 1..6
Unnormalised == 7..10
MCPoint == OnLine \union Unnormalised
MCIndexes == {OnLine, Unnormalised}
MCDistance ==
  [x \in MCPoint |-> [y \in MCPoint |->
     CASE x \in OnLine /\ y \in OnLine ->
            IF Position[x] < Position[y] THEN Position[y] - Position[x] ELSE Position[x] - Position[y]
       [] x \in Unnormalised /\ y \in Unnormalised -> 1 - (x - 6) * (y - 6)
       [] OTHER -> 0]]

\* Codec: a length for every size of block, and lengths that need padding.
MCDimensions ==
  {1, 7, 8, 10, 16, 24, 31, 32, 33, 64, 128, 256, 384, 512, 520, 768, 769, 1023, 1024, 1536}

\* One code of any value among codes that are all zeros or all ones.
MCCodeRows ==
  UNION {{[p \in 0..(n - 1) |-> IF p = d THEN one ELSE rest] :
            d \in 0..(n - 1), one \in SUBSET (0..(w - 1)), rest \in {{}, 0..(w - 1)}} :
           n \in {8, 16, 24}, w \in 2..4}

-----------------------------------------------------------------------------
MetricParked == build = [arch |-> "other", simd |-> FALSE, avx512 |-> FALSE, blas |-> FALSE, cpu |-> {}]
                /\ metric = "DotProduct" /\ shape = <<0, 0>> /\ MetricInit
SelectionParked == q = 1 /\ cands = <<>> /\ limit = 1 /\ keep = FALSE /\ pruning = FALSE /\ SelectionInit
CodecParked == dims = 1536 /\ bits = 2 /\ CodecInit

MCInit ==
  \/ running = "workspace" /\ Init /\ MetricParked /\ SelectionParked /\ CodecParked /\ SidecarInit /\ PairInit
  \/ running = "metric" /\ Init /\ MetricInit /\ SelectionParked /\ CodecParked /\ SidecarInit /\ PairInit
  \/ running = "selection" /\ Init /\ MetricParked /\ SelectionInit /\ CodecParked /\ SidecarInit /\ PairInit
  \/ running = "codec" /\ Init /\ MetricParked /\ SelectionParked /\ CodecInit /\ SidecarInit /\ PairInit
  \/ running = "sidecar" /\ Init /\ MetricParked /\ SelectionParked /\ CodecParked /\ SidecarInit /\ PairInit
  \/ running = "paired" /\ Init /\ MetricParked /\ SelectionParked /\ CodecParked /\ SidecarInit /\ PairInit

MCNext ==
  /\ UNCHANGED running
  /\ \/ running = "workspace" /\ Next /\ UNCHANGED <<metricVars, selectionVars, codecVars, sidecarVars, pairVars>>
     \/ running = "metric" /\ MetricNext /\ UNCHANGED <<vars, selectionVars, codecVars, sidecarVars, pairVars>>
     \/ running = "selection" /\ SelectionNext /\ UNCHANGED <<vars, metricVars, codecVars, sidecarVars, pairVars>>
     \/ running = "codec" /\ CodecNext /\ UNCHANGED <<vars, metricVars, selectionVars, sidecarVars, pairVars>>
     \/ running = "sidecar" /\ SidecarNext /\ UNCHANGED <<vars, metricVars, selectionVars, codecVars, pairVars>>
     \/ running = "paired" /\ PairNext /\ UNCHANGED <<vars, metricVars, selectionVars, codecVars, sidecarVars>>

MCSpec == MCInit /\ [][MCNext]_<<running, vars, metricVars, selectionVars, codecVars, sidecarVars, pairVars>>
=============================================================================
