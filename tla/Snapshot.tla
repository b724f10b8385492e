------------------------------ MODULE Snapshot ------------------------------
(***************************************************************************)
(* The file format of src/persist.rs and src/payload.rs: what the writers  *)
(* put into a file and what each reader makes of any file.                 *)
(*                                                                         *)
(* A file is its fixed header and the cells after it.  A cell is one word  *)
(* of the format: a vector, a level, an offset, a count, a neighbour       *)
(* (with its distance in version 1), a word of a payload.  Position p is   *)
(* the p-th cell; the header stands before position 1, so that no section  *)
(* begins at 0, which is what unwritten space reads as.  The settings in   *)
(* the header are left out: they return as written.                        *)
(***************************************************************************)
EXTENDS Integers, Sequences, FiniteSets
Seqs == INSTANCE SequencesExt

VERSION == 1
COMPACT_VERSION == 2

(* A header that is missing or all zeros: read_exact or the magic refuses. *)
NoHeader == [magic |-> FALSE, version |-> 0, n |-> 0, ep |-> <<>>, metric |-> 0]
NoFile == [header |-> NoHeader, cells |-> <<>>]
Refused == [ok |-> FALSE]

-----------------------------------------------------------------------------
(* Payload types, by the words one value takes: "none" is an index saved   *)
(* without payloads, "unit" is (), "narrow" u32, "wide" u64, "text" String. *)
Kinds == {"none", "unit", "narrow", "wide", "text"}

HasFixedStride(kind) == kind \in {"unit", "narrow", "wide"}

FixedStride(kind) == CASE kind = "narrow" -> 1 [] kind = "wide" -> 2 [] OTHER -> 0

Encode(kind, value) ==
  CASE kind = "narrow" -> <<value>>
    [] kind = "wide" -> <<value, 0>>
    [] kind = "text" -> <<1, value>>
    [] OTHER -> <<>>

(* The shortest data the decoder takes, and the value it finds there; an   *)
(* empty String, which is what zeros read as, has the value 0.             *)
Decodes(kind, data) ==
  CASE kind = "text" -> Len(data) >= 1 /\ Len(data) >= 1 + data[1]
    [] OTHER -> Len(data) >= FixedStride(kind)

Decoded(kind, data) ==
  CASE kind = "text" -> IF data[1] = 0 THEN 0 ELSE data[2]
    [] kind = "unit" -> 0
    [] OTHER -> data[1]

(* What a value of this type is once it went through a column.             *)
Stored(kind, value) == IF kind = "unit" THEN 0 ELSE value

-----------------------------------------------------------------------------
(* Writing.  `lists` has for every node the neighbours on each layer.      *)

ListCells(lists) == Seqs!FlattenSeq([l \in DOMAIN lists |-> <<Len(lists[l])>> \o lists[l]])
ConnData(lists) == Seqs!FlattenSeq([i \in DOMAIN lists |-> ListCells(lists[i])])

Levels(lists) == [i \in DOMAIN lists |-> Len(lists[i]) - 1]

ConnOffsets(lists) ==
  [i \in DOMAIN lists |-> 1 + 3 * Len(lists) + Len(ConnData(SubSeq(lists, 1, i - 1)))]

PayloadCells(kind, payloads, start) ==
  LET n == Len(payloads)
      encoded == [i \in 1..n |-> Encode(kind, payloads[i])]
      offsets == [i \in 1..n |-> start + 2 + n + Len(Seqs!FlattenSeq(SubSeq(encoded, 1, i - 1)))]
  IN  IF kind = "none" THEN <<0, 0>>
      ELSE <<n, FixedStride(kind)>>
           \o (IF FixedStride(kind) > 0 THEN <<>> ELSE offsets) \o Seqs!FlattenSeq(encoded)

(* write_hnsw_format: header, vectors, levels, offsets, connection data.   *)
GraphCells(ix) == ix.vecs \o Levels(ix.lists) \o ConnOffsets(ix.lists) \o ConnData(ix.lists)

Image(ix, kind, metric, version) ==
  LET graph == GraphCells(ix) IN
  [header |-> [magic |-> TRUE, version |-> version, n |-> Len(ix.vecs), ep |-> ix.ep, metric |-> metric],
   cells |-> graph \o PayloadCells(kind, ix.payloads, Len(graph) + 1)]

(* The length asked for in advance; none for payloads of varying width.    *)
Preallocates(kind) == kind = "none" \/ HasFixedStride(kind)

PreallocatedLen(ix, kind) ==
  Len(GraphCells(ix)) + 2 + (IF kind = "none" THEN 0 ELSE Len(ix.payloads) * FixedStride(kind))

-----------------------------------------------------------------------------
(* Reading the graph.  Every reader parses the tables the same way.        *)

(* Mutant: an unrecorded metric taken for a different one.                 *)
CheckMetricStrict(recorded, opener) == recorded = opener

CheckMetric(recorded, opener) == recorded = 0 \/ recorded = opener

HeaderValid(file) ==
  LET h == file.header IN
  /\ h.magic /\ h.version \in {VERSION, COMPACT_VERSION}
  /\ h.n = 0 <=> h.ep = <<>>
  /\ h.n <= Len(file.cells)

StoredLevel(file, i) == file.cells[file.header.n + i]

(* The lists in file order: list k is that of a node on a layer.           *)
FirstList(file) ==
  LET first[i \in 1..(file.header.n + 1)] ==
        IF i = 1 THEN 1 ELSE first[i - 1] + StoredLevel(file, i - 1) + 1
  IN  first

(* Where each list begins, found by walking over the counts: the readers'  *)
(* running position.  Past the end nothing is read.                        *)
ListPositions(file) ==
  LET at[k \in 1..FirstList(file)[file.header.n + 1]] ==
        IF k = 1 THEN 3 * file.header.n + 1
        ELSE LET p == at[k - 1] IN p + 1 + (IF p <= Len(file.cells) THEN file.cells[p] ELSE 0)
  IN  at

ListAt(file, p) == SubSeq(file.cells, p + 1, p + file.cells[p])

(* Mutant: the offset table not compared with the running position.        *)
GraphValidUnchecked(file) ==
  LET n == file.header.n
      first == FirstList(file)
      at == ListPositions(file)
      ep == file.header.ep
  IN  /\ 3 * n <= Len(file.cells)
      /\ at[first[n + 1]] <= Len(file.cells) + 1
      /\ ep # <<>> => ep[1] < n /\ StoredLevel(file, ep[1] + 1) = ep[2]

GraphValid(file) ==
  LET n == file.header.n
      first == FirstList(file)
      at == ListPositions(file)
      ep == file.header.ep
  IN  /\ 3 * n <= Len(file.cells)
      /\ at[first[n + 1]] <= Len(file.cells) + 1
      /\ \A i \in 1..n : file.cells[2 * n + i] = at[first[i]]
      /\ \A k \in 1..(first[n + 1] - 1) : \A j \in DOMAIN ListAt(file, at[k]) :
           ListAt(file, at[k])[j] < n
      /\ ep # <<>> => ep[1] < n /\ StoredLevel(file, ep[1] + 1) = ep[2]

Graph(file) ==
  LET n == file.header.n
      first == FirstList(file)
      at == ListPositions(file)
  IN  [ok |-> TRUE, vecs |-> SubSeq(file.cells, 1, n), ep |-> file.header.ep,
       lists |-> [i \in 1..n |->
                    [l \in 1..(StoredLevel(file, i) + 1) |-> ListAt(file, at[first[i] + l - 1])]],
       payloadPos |-> at[first[n + 1]]]

ReadMapped(file, metric) ==
  IF HeaderValid(file) /\ CheckMetric(file.header.metric, metric) /\ GraphValid(file)
  THEN Graph(file) ELSE Refused

ReadOwned(file, metric) ==
  IF file.header.version = COMPACT_VERSION THEN Refused ELSE ReadMapped(file, metric)

(* The graph as for the mapped reader; the vectors stay in the file.       *)
LoadPread(file, metric) == ReadMapped(file, metric)

-----------------------------------------------------------------------------
(* Reading the payload section at position p.                              *)

HeaderFits(file, p) == p + 1 <= Len(file.cells)

FixedChunk(file, p, stride, i) == SubSeq(file.cells, p + 2 + (i - 1) * stride, p + 1 + i * stride)

VariableStart(file, p, i) == file.cells[p + 1 + i]
VariableEnd(file, p, n, i) ==
  IF i < n THEN VariableStart(file, p, i + 1) ELSE Len(file.cells) + 1

VariableTableValid(file, p, n) ==
  LET dataStart == p + 2 + n IN
  /\ dataStart <= Len(file.cells) + 1
  /\ \A i \in 1..n :
       /\ VariableStart(file, p, i) >= dataStart
       /\ VariableEnd(file, p, n, i) \in VariableStart(file, p, i)..(Len(file.cells) + 1)

Column(kind, chunks) ==
  IF \A i \in DOMAIN chunks : Decodes(kind, chunks[i])
  THEN [ok |-> TRUE, payloads |-> [i \in DOMAIN chunks |-> Decoded(kind, chunks[i])]]
  ELSE Refused

ReadPayloads(file, p, n, kind) ==
  IF ~HeaderFits(file, p) \/ file.cells[p] = 0 \/ file.cells[p] # n THEN Refused
  ELSE LET stride == file.cells[p + 1] IN
       IF stride > 0
       THEN IF p + 1 + n * stride > Len(file.cells) THEN Refused
            ELSE Column(kind, [i \in 1..n |-> FixedChunk(file, p, stride, i)])
       ELSE IF ~VariableTableValid(file, p, n) THEN Refused
            ELSE Column(kind, [i \in 1..n |->
                   SubSeq(file.cells, VariableStart(file, p, i), VariableEnd(file, p, n, i) - 1)])

MapFixedPayloads(file, p, n, kind) ==
  LET stride == FixedStride(kind) IN
  IF /\ HeaderFits(file, p) /\ file.cells[p] = n
     /\ stride > 0 /\ file.cells[p + 1] = stride
     /\ p + 1 + n * stride <= Len(file.cells)
  THEN [ok |-> TRUE,
        payloads |-> [i \in 1..n |-> Decoded(kind, FixedChunk(file, p, stride, i))]]
  ELSE Refused

(* An index with its column: refused if either part is.                    *)
WithColumn(graph, column) ==
  IF graph.ok /\ column.ok
  THEN [ok |-> TRUE, vecs |-> graph.vecs, lists |-> graph.lists, ep |-> graph.ep,
        payloads |-> column.payloads]
  ELSE Refused

(* What a loader of a column does with the graph it has read.              *)
WithPayloads(file, graph, kind) ==
  IF ~graph.ok THEN Refused
  ELSE WithColumn(graph, ReadPayloads(file, graph.payloadPos, Len(graph.vecs), kind))

WithMappedPayloads(file, graph, kind) ==
  IF ~graph.ok THEN Refused
  ELSE WithColumn(graph, MapFixedPayloads(file, graph.payloadPos, Len(graph.vecs), kind))

LoadWithPayload(file, metric, kind) == WithPayloads(file, ReadOwned(file, metric), kind)
LoadMmapWithPayload(file, metric, kind) == WithPayloads(file, ReadMapped(file, metric), kind)
LoadMmapWithFixedPayload(file, metric, kind) ==
  WithMappedPayloads(file, ReadMapped(file, metric), kind)
=============================================================================
