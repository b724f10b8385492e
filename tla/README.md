# A verification project for fast-hnsw

This directory holds TLA+ models of the parts of `fast-hnsw` that carry its
logic, the configurations that TLC checks, and proofs that TLAPS checks. The
crate is an approximate nearest-neighbour index: vectors are nodes of a layered
graph (HNSW), a search walks the graph greedily, and an insertion is a search
followed by linking the new node to what was found. Paths below are relative to
the repository.

    tlc -workers 2 -config index.cfg MCHnswIndex.tla          # one run
    tlapm ParallelBuildProofs.tla                              # one proof module

## 1. Inventory

| component | state | operations | what makes it correct |
|---|---|---|---|
| Sequential index, `src/hnsw.rs` | vectors by id, level and adjacency lists of each node, entry point, tombstones and their count, reused scratch buffers | `insert`, `search*`, `exact_search`, `remove`, `restore`, `compacted` | lists are within their limits and on one layer, the entry point is a node of the top layer, answers are live, accepted, ordered and locally optimal, ids are stable until compaction |
| Neighbour selection, `src/hnsw.rs`, `src/parallel.rs` | none (scratch only) | `select_neighbours_simple`, `_heuristic`, `prune_connections_*`, `prune_node` | a selection is within the limit, contains the closest candidate, holds nobody twice |
| Parallel construction, `src/parallel.rs` | lists behind one lock per node, entry point behind a lock, `max_level` atomic, workspaces of the threads | `insert_node`, `prune_node`, promotion | what the sequential index guarantees, at every lock boundary or at least when the pool is joined |
| Query workspace, `src/hnsw.rs` 500-694 | stamps and generation of the visited tracker, a thread-local `RefCell` | `begin`, `visit`, `reserve_nodes`, `with_query_workspace` | a node is met once per layer, whatever ran before or runs inside |
| `PairedIndex`, `src/paired.rs` | two indexes, two files | the index's operations on both sides, `save`, `load`, `load_mmap` | an id means the same item on both sides, deleted on both or on neither |
| `LabeledIndex`, `src/labeled.rs` | an index and a payload column | the same | payload and vector stay aligned, through compaction, saving and loading |
| Persistence, `src/persist.rs`, and payloads, `src/payload.rs` | the file | `save*`, `load*` of versions 1 and 2, with and without a payload column | what is saved can be read; what is accepted is what was saved, wherever a save was cut; a foreign metric and tombstones are refused |
| On-disk vectors, `src/pread.rs` | graph in memory, file handle, first error | `search`, `search_filtered` | a read error is never swallowed |
| Quantized sidecars, `quantized/src/lib.rs` | a file, a mapping of it or of a region of it, prepared queries | `save`, `write_to`, `open_mmap*`, pairing with an index, scoring | a torn or foreign sidecar is refused; a row that is scored belongs to the codec of the query; codes read back as packed |
| Distances and kernels, `src/distance.rs`, `src/simd.rs`, `src/blas.rs` | none | five metrics over portable, NEON, AVX2, AVX-512 and BLAS loops | every element counts once and nothing past the slices is read |
| Builder, errors, crate root, tools, benchmarks, examples | none | setters, wording, measurements | - |

**Interaction.** `PairedIndex` and `LabeledIndex` own `Hnsw` indexes and call
them; `build_parallel` produces the parts of an `Hnsw`; `persist` reads and
writes those parts; `pread` runs `Hnsw`'s search with a distance that reads
the file. Searches share a workspace per thread. Metrics and filters are
callbacks, which may search again or panic.

**Hard behaviour.** Workers see each other's half-linked nodes and stale entry
points (2.1); tombstones are kept apart from the count that routes searches
(2.2); the visited set wraps and is shared (2.3); an operation on two sides may
fail on the second one, and two files are not written at once (2.4); files are
overwritten in place, cut anywhere, and read by other processes meanwhile (2.5,
2.6); unsynced words may be lost (2.6); loops of different strides must meet
without gap or overlap (2.7, 2.8). PROJECT.json lists every hazard with its line
and the properties that cover it.

## 2. Modules

`NeighbourSelection` has the pure part: which lists selecting and pruning may
return. Lists are described rather than computed: the kept neighbours are
*the* set that satisfies the diversity rule of the loop (`IsDiverse`), and a
list is any listing of the picks closest first (`IsListing`). It assumes of the
metric what `DistAssumption` says: distances are symmetric and differ from one
another as seen from any one vector. `SelectionLoop` (2.7) has the same loop
comparison by comparison, ties included, and is proved to agree with it (5).

### 2.1 `ParallelBuild` (`src/parallel.rs`), abstract `EntryPoint`

A step is what a worker does under one lock: `Start` takes a node and reads the
entry point, `Expand` pops a candidate and copies its list, `Connect` selects and
writes the forward edges, `PruneOwn` prunes them, `LinkBack` and `PruneBack` push
and prune one reverse edge, `CheckPromote` and `Promote` are the unlocked and
the locked half of the promotion. Local computation belongs to the step before
it. That no worker holds two node locks is the granularity itself: the code
releases each before it takes the next. `levels` is any function into
`0..TopLevel`: the random draw.

`EntryPoint` is the sequential promise about the entry point; `ParallelBuild`
implements it with `inserted` mapped to the nodes whose worker is done.

### 2.2 `HnswIndex` (`src/hnsw.rs`), abstract `VectorCollection`

Operations run alone but are cut into the steps of their loops, so that the
invariants speak about the middle of an insertion too. `BeginInsert`, `Connect`
(pass 1), `Prune` (pass 2) and `NextLayer` are insertion; `Search` and
`SearchFiltered` start a query, `Expand`/`Descend` are shared by all, `Answer`
returns. `Route` is the choice of the filtered search when there are
tombstones. `BeginCompact`, `Skip`, `Reinsert`, `EndCompact` are `compacted`
followed by the caller's replacement of the index. A vector stands for itself;
its id is its place in `order`. Offering all neighbours of a candidate at once
to the heaps equals the loop over them when distances differ.

`Extended` is `extend_candidates`: a neighbour is offered once for every result
that lists it, as the code does, so that a list may receive it twice (section 4).

`VectorCollection` is the store without a graph: ids, tombstones, dense
renumbering, answers of live vectors in order. It does not say which vectors a
search finds; `AnswerIsComplete` and `AnswerIsLocallyClosest` say what can be
said of an approximate search.

### 2.3 `QueryWorkspace` (`src/hnsw.rs`)

The tracker is a sequence of stamps and a generation modulo `MaxStamp + 1`
(`u32::MAX` in the program). Searches are frames on a stack: a search opened
while the thread-local workspace is borrowed gets a private one. `Unwind` is a
panic in a callback, caught outside. `seen` is a history variable: what the
search has visited in its layer.

### 2.4 `PairedIndex` (`src/paired.rs`)

A side is its items by id, tombstones, dimension and whether it is mapped; an
item is the number of the insert call that brought it. `InsertPair` gives side A
its embedding and then side B, which may refuse; the history variable `halfDone`
remembers that it did. `SaveSideA`, `SaveSideB`, `EndSavePair` are the two file
writes; `InterruptSave` is an I/O error or the death of the process. `LoadPair`
is `load` and `load_mmap`. The release build is modelled: `debug_assert_eq!` is
compiled out. What a torn file reads as is the subject of 2.5; for the alignment
of ids one value of the file covers both outcomes, refused or accepted, since
`LoadPair` is never forced and the vectors come first in a file. The public
fields `index_a` and `index_b` are not used to go around the pair.

### 2.5 `Snapshot` and `LabeledIndex` (`src/persist.rs`, `src/payload.rs`, `src/labeled.rs`, `src/pread.rs`)

`Snapshot` is the format, without state: `Image` is what the save functions put
into a file, `ReadOwned`, `ReadMapped`, `LoadPread` and the three payload loaders
are what each reader makes of *any* file, checks and running positions included.
A cell is one word of the format; the header is apart, so that no section begins
at position 0, which is what unwritten space reads as. Payload types are told
apart by their width: none, `()`, one word, two words, `String`.

`LabeledIndex` is an index with its payload column, the file it is saved to, and
another process that has that file open for positional reads. `Save` checks the
tombstones, truncates the file and lengthens it where the length is known and
the file system allows it; `WriteNext` writes one word; `FailSave` and `Crash`
may come at any of them. `SaveOverMapping` saves a mapped index over the file it
maps: the truncation takes the pages away and the process dies reading them.
`Load` is every reader with every metric of the bound. `OpenPread`, `ReadVector`,
`IntoResult` are a positional search, each score a read of the file as it is at
that moment, which may fail. `SavePreadGraph` saves the graph that such a reader
lends: `Written` has its header announce as many vectors as the store reports,
while `StoreBytes` has none to write. `src/hnsw.rs` 272-274 calls that
unreachable (finding 7). The graph is that of at most three vectors, where insertion links every
two nodes on the layers both have; inserting into an index read from a torn file
(`AsBuilt`) is left out.

### 2.6 `Sidecar` (`quantized/src/lib.rs`)

A file is header, codes, scales, checksum, embedded between words of an
application or not. A save writes the words its header and vectors allow
(`Written`: nothing if the parameters are refused, header and codes up to the
first vector that cannot be encoded, or all of the image). `CutSave` leaves what
was written; `PowerLoss` leaves what unsynced data may be found as: the file as
it was, or a prefix with words missing. `OpenMmap` is the three opens, over any
region. `Pair` compares a mapping with an index, `Serves` a prepared query with
the mapping; a query may have been prepared against any sidecar there ever was.
`Insert` and `Compact` change the index while nothing borrows it.

### 2.7 `SelectionLoop` and `Kernels` (`src/hnsw.rs`, `src/distance.rs`, `src/simd.rs`)

`SelectionLoop` runs the diversity heuristic comparison by comparison, with its
triangle-inequality shortcut, candidates at equal distances in any order, and
distances of any sign. `Kernels` runs one call of a metric down to the blocks,
single loads, horizontal sum and scalar tail of the kernel that the build and the
processor select. Values are left out; kept is how often each element was added
to each accumulator. A metric may be called with slices of different lengths.

### 2.8 `Codec` (`quantized/src/lib.rs`)

Blocking and padding, the butterflies of the rotation followed on unit vectors
(the rotation is linear), packing of codes of two to four bits into bytes, and the
unpacking while a row is scored. A code, a byte and a word are the sets of the
positions of their ones, so that a shift adds to each position, an or is a union,
and a field of a word is what lies between two positions.

### 2.9 `MCSideBySide`

`QueryWorkspace`, `Kernels`, `SelectionLoop`, `Codec`, `Sidecar` and `PairedIndex`
share no state, so one run explores them one after another: the variable
`running` is chosen in the initial state and only that module's steps are taken,
while the others stay in one initial state. It is not a product: the number of
states is the sum of the six.

## 3. Runs

| run | bounds | question |
|---|---|---|
| `parallel` | 2 fair workers, 4 nodes, 2 layers, limits 2, beam 2, diversity pruning with refill | are the lists sound at every interleaving: limits, self links, layers, multiplicity, reverse edges; does the two-step promotion implement the atomic one; does the build finish, with lists within limits and the highest node as entry |
| `parallel_upper` | 2 workers, 3 nodes, 2 layers | **violation**: is the graph as well linked as a sequential one |
| `index` | 4 vectors, 2 layers, limits 2, beam 2, heuristic selection and pruning, `extend_candidates`, k up to 2, two filters, all tombstones | is the graph sound through insertion, deletion and compaction; what a search guarantees; refinement of the collection; does every operation end |
| `extended_twice` | 6 vectors, 1 layer, `m` 2 and `m0` 4, beam 2, `extend_candidates` and `keep_pruned` | **violation**: is a list one over its limit when it is pruned |
| `snapshot` | 3 inserts over 2 layers, 2 saves cut anywhere, 5 payload types, a metric that names itself and one that does not | what does every reader accept, against what was saved; are payloads aligned; is a failed read reported. After a whole save every other payload type is tried too |
| `snapshot_torn` | 2 inserts, 1 save | **violation**: is lengthening the file in advance harmless |
| `saved_lent` | 1 insert, 2 saves | **violation**: can what `save` wrote be loaded, whichever index it was given |
| `typed_column` | 1 insert, 2 saves, 5 payload types | **violation**: does either promise about a payload column hold: that a labeled index, an empty one included, can be reloaded, or that `load_with_payload` refuses another type |
| `side_by_side` | see below | visited sets, kernels, the selection loop, the codec, sidecars, pairs |
| `paired_half` | 3 inserts, two lengths | **violation**: can one side be tombstoned alone |
| `paired_mixed` | 3 inserts, one length, one interrupted save | **violation**: are mismatched files rejected |
| `selection_shortcut` | the points of `side_by_side` | **violation**: is the shortcut sound under `DotProduct` |

Bounds of `side_by_side`, by module. `QueryWorkspace`: 3 nodes, the generation
wraps at 3, nesting 2. `Kernels`: every build, metric and length around the
strides of every kernel (8, 16, 32) up to 36, five pairs of unequal lengths, and a
BLAS limit of 20 so that longer vectors must go elsewhere. `SelectionLoop`: six
points on a line, two in one place, and four vectors longer than one under
`DotProduct`; every set of candidates, limits 1 to 3. `Codec`: a dimension for
every block size and eight that need padding; the loops are run up to rows of 24,
on rows whose codes are all zeros or all ones but for one code of any value.
`Sidecar`: 2 items of three kinds (plain, zero, norm overflowing), two metrics,
two seeds, 2 saves, one hole. `PairedIndex`: 4 inserts, two lengths, one
interrupted save.

**Why the bounds are enough.** Four nodes with limits of two are the smallest
graph in which a list overflows, is pruned and loses an edge whose reverse
remains; two workers suffice for mutual selection, for pushing onto a list the
other is about to prune, and for racing to promote. `M = M0 = 2` is the smallest configuration `validate`
accepts. What the two runs of the graph fix (how lists are selected and pruned, the number
of workers and of layers) the proofs leave open: every safety property and refinement
they check is proved for all of it, within the hypotheses named in section 5. Points on a line at 0, 1, 3, 7, 12, 20 have all distances from one point
different, and are spaced so that the diversity rule rejects some; a beam of two
among four vectors leaves neighbours for `extend_candidates` to add. A generation
counter of three wraps several times within the run; nesting of two has a holder
of the shared tracker and one that is refused it. Two saves have one file
overwrite another of any length, three nodes have lists on either side of a cut,
and each payload type differs from the others in what zeros decode to. In each
run the mutants of PROJECT.json, each a plausible slip in the code, are found
under the same bounds.

Bounds named in the modules: `TopLevel` (levels drawn), `MaxK`, `MaxDead`,
`EfSearch`, `Filters` (what callers ask), `MaxId`, `MaxDepth`, `MaxInserts`,
`MaxInterrupted`, `MaxSaves`, `MaxItems`, `MaxRows`, `MaxHoles`, `Metrics`,
`PreadKinds`, `MaxPread`, `LongestSlice`, `LongestRow`. Three guards are bounds
too: `Calm` (`LabeledIndex`) and `MayChange` (`Sidecar`) let the index in memory
change only while no torn file and no reader is about, since such a change
commutes with theirs; and a compaction without tombstones is not called, since it
is building anew. A vector is in the index once at a time.

**Symmetry** is used for the seeds of `side_by_side` only, which the model
compares and nothing else. **Deadlock** is checked except in
`side_by_side` and `selection_shortcut`, where a kernel, a selection and a codec
come to their end and stop. The finished build is the explicit step `Return`, and
the other systems can always be called again.

**Fairness.** `ParallelBuild`: weak fairness of each worker's steps. The pool's
threads run until the work is exhausted, a worker's step needs one lock, and
locks are held for one step, so a worker is never blocked for good. `HnswIndex`:
weak fairness of `Run`, the loops of an operation that was called; nothing makes
a caller call. `FairSpec` states it with its `ENABLED` written out (`Busy`), which TLC
evaluates far faster: while an operation is under way a step of it is possible
(deadlock is checked), no caller's step is, and each one changes a variable.
`LabeledIndex`: a save that has begun goes on until it returns or fails; only
`typed_column` uses it, and its counterexample is one of safety.

## 4. Findings

1. `parallel_upper`. The builder's documentation says a parallel build is
   equivalent to inserting the vectors one by one. Two nodes drawn above the
   entry point that their workers read are connected only up to that entry
   point's level: on the layer above they have no edge, not even to each other.
   Sequentially the first becomes the entry point before the second is
   inserted, and `UpperLayersLinked` holds (`index`). A search still
   descends from the node that was promoted; the other is found on the layers
   below.
2. `paired_half`. `insert` keeps side A's embedding when side B refuses its
   own. From then on the sides give a pair different ids, a removal through
   the paired methods deletes different items, and `compacted` may report a
   desynchronised pair that the documentation says only direct access to the
   fields can cause.
3. `paired_mixed`. `save` overwrites two files one after the other; `load`
   compares lengths. Files of two generations of equal length are accepted.
   What does survive is `SameIds` (`side_by_side`): ids of one side exist on the
   other.
4. `extended_twice`. With `extend_candidates` a neighbour of two results is
   offered twice, and with `keep_pruned` the second copy, rejected by the first,
   comes back: the new vector lists its neighbour twice, the neighbour gets two
   reverse edges, and the list that is pruned is two over its limit, where
   `prune_connections_heuristic` states that its caller must see to one. Without
   `keep_pruned` neither happens (`index`).
5. `snapshot_torn`. The file is lengthened before it is written, and zeros where
   a list begins are an empty list. A save cut short there leaves a file that the
   readers of the graph accept with the links of its last nodes lost, although
   the comment calls the call a pure performance hint. How much can be lost is
   bounded (`TornIsBounded`, run `snapshot`): the vectors, levels and entry point
   are those of the one save, at most two nodes have lost links, and a reader that
   also takes payloads accepts only a whole graph.
6. `selection_shortcut`. "If d(q,s) > 2 d(q,e), accept" never fires for distances
   that are not negative, since candidates come closest first, and under
   `DotProduct`, whose distances may be negative, it accepts candidates that the
   comparison it skips would reject. (The comment above that loop also accepts on
   equality where the code rejects.)
7. `saved_lent`. `persist::save` takes any `Hnsw`, also the one that
   `PreadIndex::graph` lends, whose vectors stay on disk. It truncates the file,
   writes a header that announces the vectors and none of them, and returns `Ok`,
   and no reader accepts the file. `src/persist.rs` 307 says that the file can be
   loaded back, and `src/hnsw.rs` 272-274 that a non-resident index never gets
   that far. In the shortest trace the graph was read from a save cut short before
   its last zeros, which for one vector is the graph that was saved. This is the
   release build: in a debug build the assertion there panics, after the header is
   written. What the readers may not do, take the tables for vectors, they do not
   (`PrefixIsRefused`, `TornIsBounded`, run `snapshot`).
8. `typed_column`, first save. A `LabeledIndex` without items is saved with `Ok`, with
   a payload count of zero, which `load` and `load_mmap` take for a file without
   payloads. `src/labeled.rs` 280-281 promises that the file can be reloaded with them,
   and the crate's `README.md` (line 142) the same of every index type. Its graph
   alone opens, and so does `load_mmap_fixed` (`SavedIsReadable`).
9. `typed_column`, second save. `load_with_payload` cuts the column by the stride in
   the file and gives every piece to the decoder of the type it is asked for, which
   takes what it needs from the front: a column of `u64` is read as `u32` without an
   error. `src/persist.rs` 413-414 says that another type than was written fails with
   `InvalidData`. Only the lazily mapped column is compared by width
   (`SavedIsReadable`). The unit type, which reads nothing, is not counted.

   The run asks whether one of the two promises (`LabeledReloads`, `OtherTypeIsRefused`)
   holds, so that its one behaviour has to break both, and does: an empty index is
   saved and refused, then an item is inserted, saved and read as another type.

Met on the way, without a run of their own, since the code's words neither promise
nor exclude them, or the property that would show them is not about the models'
subject:

* `build_parallel` ignores `extend_candidates`, which `src/hnsw.rs` alone reads.
* Lists of the parallel build may name a node twice (`LinkedAtMostTwice` bounds
  it) and exceed the limit by more than one between locks, where `PruneStrategy`
  documents lists of `M + 1`.
* A `DotProduct` sidecar of a vector whose norm overflows is saved with `Ok` and
  an infinite scale, and refused by every open (`SavedOpens` says when).
* A sidecar save with invalid parameters has truncated the previous file when it
  reports them.
* `QuantizedHnsw::new` compares row count and dimension: a sidecar from before a
  removal, compaction and insertion has the same of both and is accepted;
  `ServedRowsMatch` therefore speaks of sidecars since the last compaction.
* A file that is overwritten while a positional reader has it open may be read with
  success and give vectors of the new file. `PreadIsExact` demands exact vectors
  where no save touched the file since it was opened, and that a read which fails
  or comes short is reported in any case.

## 5. Proofs

TLAPS checks the following for every value of the constants that the modules'
assumptions admit, TLC having checked the same formulas on the instances above.

`ParallelBuildProofs` (any number of workers, nodes, layers, any limits):

* `TypeCorrect`.
* `PromotionRefines`: the build implements `EntryPoint`. The invariant is that
  `maxLevel` is the level of the entry point, whose level is its node's own,
  and that every inserted node is at or below it; a worker about to lock or to
  promote is not inserted yet. `Start` through `NextLayer` map to stuttering,
  `CheckPromote` and `Promote` to an insertion that does or does not promote.
* `LinksSound`: every edge joins nodes that have its layer. The strengthening
  says of each worker that its candidates, results and pending neighbours have
  the layer it works on, which holds because a search starts from an entry point
  of that layer and follows edges that, by the invariant, stay on it. This is the
  argument why the entry point may be stale. `NeverLinkedToItself` adds that a
  worker's pending neighbours are never its own node.
* `DegreeBounded`: a list exceeds its limit only by what workers that still owe
  it a prune have added. Pruning one node by several workers at once needs the
  counting of those workers, which is why the invariant has a cardinality.
* `NeverIsolatedAgain` (an action property): what a prune keeps of a list that is
  not empty is not empty, by `PrunedNonempty` of `NeighbourSelectionProofs`; and
  `NobodyLeftOut`: a node that is inserted has a link on layer 0. The invariant
  `LinkedInv` says that a search about to connect has found somebody besides its
  own node, which needs the beam to be two where the node itself may be found.
* `OneWayExplained`: where a prune returns a full list, an edge without its
  reverse leads to a full list or is owed one. `OneWayInv` says so of every edge,
  and that a node yet to be told is still listed by the teller or was crowded out.
* `NeverListedThrice`: no node is twice in a list but by the two directions of its
  edge. `TwiceInv` counts the copies against who may have written each of them,
  past or present; pending lists repeat nobody.

`NeighbourSelectionProofs` has what the other modules need of selecting, pruning
and `Closest`: a list that is returned is drawn from what was offered, within the
limit, not empty, names nobody twice, and is full where nothing is discarded; the
closest of a set are so many, hold the closer of any two, and stay the same when
farther ones join.

`QueryWorkspaceProofs` (any stamp width, any ids, any nesting): `TypeCorrect`,
`OneHolderAlways` and `VisitExact`. The inductive invariant adds that no
tracker, in use or not, holds a stamp above its generation (`Clean`): that makes
a new generation fresh, and the wrap, which clears the stamps, keeps it. Between
searches nothing else is known about the stamps, and nothing else is needed.

`PairedIndexProofs` (any number of inserts, saves and interruptions, any embedding
lengths): `SaveIsWhole` (side B's ids and tombstones are among side A's, whatever
inserts were half done, so that a save that started is not refused), `IdsShared`
(no insert half done: equal ids and tombstones), `SidesAligned` (moreover no save
cut short: equal items in memory) and `FilesAligned` (equal items on disk between
saves; one invariant serves both, since loading brings the files into memory, and
it adds what is on disk between the two writes). `halfDone` and `interrupted` are the hypotheses
whose absence `paired_half` and `paired_mixed` show to matter.

`HnswIndexProofs` (any number of vectors and layers, any metric, any configuration
`Config::validate` accepts, any calls) proves every safety property that the runs
check of `HnswIndex`:

* `TypeCorrect`, `TombstonesExact`, `LayersRespected`, by one inductive invariant
  `Inv`. To `TombstonesCounted` it adds that no vector is in the store twice
  (`StoreOK`: then the tombstones by id and the dead vectors are equally many) and
  that a rebuild has passed every vector it holds (`RebuildOK`: then a reinserted
  vector is new). To `LinksStayOnLayer` it adds that exactly the stored vectors
  have levels, that the entry point's level is its vector's own (`EntryOK`), and
  that whatever a search has met has the layer it is on (`SearchOK`): a descent
  keeps it because layers are nested, an expansion because edges stay on their
  layer, and so what is selected, extended candidates included, may be linked.
* `EntryStaysOnTop`: the entry point is the first of the highest level.
* `IndexIsCollection`: the refinement of `VectorCollection`. A compaction maps to
  stuttering until `EndCompact`, for which `RebuiltInv` says that the new index
  holds the live vectors of the old one passed so far, in their order.
* `ListedOnce` and `OneOverAtMost`, under the hypothesis `Plain`: candidates are
  not extended, or selected plainly. It is needed: with `extend_candidates` and
  `keep_pruned` both properties fail (finding 4), and the default is `Plain`. `NewInv`
  says that until a vector is connected on a layer nothing lists it there, so that
  no search meets it and its reverse edges go to lists that do not name it.
* `NobodyIsolated`: a layer of two vectors has no vector without a link.
  `LinkedInv` adds that an insertion's search always has a result, and exempts the
  vector that is being inserted on the layers it has not reached.
* `LocallyClosest` and `AnswersComplete` (action properties): the best answer has
  no closer neighbour; fewer than `k` are returned only when no more are
  reachable, and the answer is exact when the beam holds all that are. `BestInv`
  says that what is found are the closest of all that was met and is eligible, and
  that whatever is not to be expanded has been, or lost to a full beam: the
  early stop, the bounded heap and the filter lose nothing.

`LoopProofs` proves the two loops of arithmetic and comparison:

* `FoldTheorem` (slices of every length, every build): each kernel adds every
  element of the common prefix once and nothing else. The invariant says where
  each index below `i` has been added: once in the accumulators together while the
  vector loops run, once in the sum afterwards.
* `PickTheorem` (any points, any limit, any distances to the candidates that are
  not negative): the loop keeps what Algorithm 4 keeps, ties or not, and without
  ties returns the list that `NeighbourSelection` states, on which the other
  models rest. The invariant (`Scanned`) gives the positions of the candidates
  selected and discarded so far, in increasing order, and says of every
  candidate examined that it was kept exactly if no kept one before it is in its
  way. `KeptIs` shows that a set with that property is the one the recursive
  `Kept` computes, `CloserBlocks` that the shortcut never fires where distances
  are not negative, and `KeepingSelects` and `DroppingSelects` that the list is
  a selection with and without `keep_pruned`.

`SidecarProofs` proves all four properties of `Sidecar` (any number of rows, items,
saves and holes, any embedding and any region that is opened):

* `VerifiedTheorem`: what a verified open accepts is the whole image of one save.
  The invariant says of every word in the file, in the plan of a save and in what
  a power loss may leave, that if it is a checksum, the content it covers followed
  by it is the image of a save: so whatever region ends in a checksum that matches
  is that image.
* `UnverifiedBounded`: without the checksum it is that image but for zeros.
  `Aligned` says of every header in the file, wherever it stands, that the words
  after it are those of one save's image, or zeros, or too few for the rows it
  announces; a power loss and a cut save keep it because they leave a beginning.
* `RowsMatch`: what a pairing scores. The invariant adds that every save since the
  last compaction has the vectors the index begins with.
* `EverySaveOpens` (an action property): as much of the plan is in the file as was
  written, so that at the end the image is there, between the words of the
  application; and an image opens if and only if no scale overflowed.

and of `Codec` (any dimensions, rows of any length, any codes) `CodecExact`, which has
three parts:

* `CodecRowsTile`: the lengths fit together, as `fwht` and the scoring assert.
* `CodecRotation`: the butterflies compute the Walsh-Hadamard transform. The
  invariant (`Turning`) gives for every coordinate the length of the blocks it has
  been transformed in so far (`Level`): the whole block behind the current one, one
  ahead of it, and in it `half`, or twice that where the loops have passed. Where
  they stand (`LoopsStand`) has everything divide what it must. The step is
  `TransformDoubles`: one butterfly takes the transforms of two halves to that of
  both, because the bits below `half` of its two coordinates are the same and the
  bit at `half` is not.
* `CodecCodes`: what is unpacked is what was packed. The invariant (`PackedTo`)
  states a row bit by bit: bit `p` is bit `p % bits` of code `p \div bits`, if that
  code is in. `OrIntoIsCode` shows that packing adds the bits of one code, whichever
  two bytes they fall in, and `LaneIsCode` that the shifts and masks of each of the
  three widths find them.

`LabeledIndexProofs` (up to three vectors, as the model's graph has, of any levels;
any number of saves, any metrics; a save cut at any word) proves all six properties
of `LabeledIndex`: `TypeCorrect`, `PayloadsStayAligned`, `TornFilesAreBounded`,
`PrefixesAreRefused`, `SavesAreReadable`, `PreadsAreExact`. It has three layers. Saves of every source
are covered, the graph a positional reader lends too: without its vectors the
tables stand that many words early, and where a reader looks for the first offset
it meets the count of the first list (`FirstListFits`), which is too small to be
one, so that `GraphValid` refuses the file.

* The layout. The `...Laid` lemmas say at which word of an image each list, each
  payload and each position of the two tables stands (`LaidOut`: parts one after
  another, each where the lengths of those before it put it).
* The readers. A file is `Torn` at `w` if its first `w` words are the image's and
  the others, if any, zeros. What a reader reads before `w` is the image;
  a list behind it reads as empty, so that the walk over the lists (`CutWalk`)
  arrives at the end it is compared with only if what it did not see was empty or
  the last: hence two nodes at the most. The count of a payload column
  stands after the graph, so that a reader which finds it has a whole graph before it.
* The invariant `Inv`. No reader's promise can be derived from one step, since
  a file may hold the beginning of one save, be read back, saved again, and so on.
  `FileInv` says that there is always a `w` at which the file is torn, against the
  image of the last save that began, with nothing of any earlier one
  because the truncation comes first; `SavedInv` and `IndexInv` that the saved and
  the current index are `Sound` (every list names vectors of the index, the entry
  point fits, and every vector but the last has a neighbour on layer 0, which is
  why its empty list cannot be mistaken for unwritten space) even if one of them
  came from a torn file; `ReaderInv` that a
  positional reader scored what the file has, or has an error noted. TLC has checked
  `Inv` itself for two inserts, with `w` up to 60.

Assumptions: `NodeAssumption`, `DistAssumption`, `KeepPrunedAssumption`,
`ConfigAssumption` (from `Config::validate`), `CallerAssumption`,
`BuildAssumption`, `WorkspaceAssumption`, `PairAssumption`, `KernelsAssumption`,
`LoopAssumption`, `SidecarAssumption`, `CodecAssumption`, `LabeledAssumption`. TLC evaluates each on its runs.

**Recursive functions.** An induction theorem takes the formula to be proved as a
parameter, which the provers cannot instantiate; but that a set of numbers has a
least element can be used as a fact (`LeastExists`). Where a recursive function
is met (`Reachable` of `HnswIndex`, `Kept` of `SelectionLoop`, the walks of `Snapshot`, the flattening of the
lists), the proof shows that a function with its
defining equation exists, by the least length for which none does, and then argues
about the one that is chosen. Sorting operators of the libraries stay out of
reach, so `VectorCollection` says what an order or a renumbering is
(`NearestFirst`, a sequence of survivors) rather than compute it.

**Model-checked only.** Liveness (`BuildFinishes`, `OperationsEnd`), because the
prover does not handle fairness. Every other property that a run checks and expects
to hold is proved.

## 6. Not modelled, and why

* Values of floating-point arithmetic, rounding, NaN, and what BLAS computes:
  neither tool reasons about them. The metric is a constant; the kernels are
  modelled by what they read and how often.
* Equal distances in whole indexes. The heaps break ties by id and the sorts are
  unstable; `SelectionLoop` has ties, `HnswIndex` and `ParallelBuild` do not.
* Vectors of length zero (`src/hnsw.rs` 240): the store has no length and every
  id is 0. A file of such an index is refused.
* A worker that panics: the pool propagates it and no graph is returned.
* Of the sidecar: quantization levels, the random signs, the arithmetic of
  scores, and two contents with one CRC32.
* Of the snapshot: the settings in the header, and the bytes within a word.
* Composed payload types (byte buffers, float vectors, pairs), which are made of
  the parts that are modelled.
* Setters of the builder, wording of errors, statistics and getters, the crate
  root, and the tools, benchmarks, examples and plots, which measure or
  demonstrate and on which the library does not depend. Recall and speed are
  measurements, not properties.

## 7. Plan

Done: every component of the library's logic has a model, and every safety and
action property of the models, and every refinement, is proved. Left: ties in
`HnswIndex`, by distances that name the position in a heap order.
