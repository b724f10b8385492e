---------------------------- MODULE LabeledIndex ----------------------------
(***************************************************************************)
(* An index with a payload beside every vector (src/labeled.rs), the file  *)
(* it is saved to and loaded from (src/persist.rs), and an index opened    *)
(* for positional reads of that file (src/pread.rs).                       *)
(*                                                                         *)
(* The file is written word by word and the save may fail, or the process  *)
(* die, at any of them.  The reader of positional reads is another process *)
(* that holds the file open meanwhile.  An item is the number of the       *)
(* insert that brought it; its vector and its payload carry that number.   *)
(*                                                                         *)
(* With at most three items, the default settings and M = 2, the graph of  *)
(* an insertion links every two nodes on every layer both have.            *)
(***************************************************************************)
EXTENDS Snapshot

CONSTANTS
  MaxInserts,  \* bound: calls of insert
  MaxSaves,    \* bound: saves begun
  TopLevel,    \* bound: levels drawn for a node
  Metrics,     \* bound: metric ids an index is opened with
  PreadKinds,  \* bound: payload types of files opened for positional reads,
  MaxPread     \*        and the inserts made by then

ASSUME LabeledAssumption ==
  /\ MaxInserts \in 0..3
  /\ MaxSaves \in Nat
  /\ TopLevel \in Nat
  /\ Metrics \subseteq Nat
  /\ PreadKinds \subseteq Kinds
  /\ MaxPread \in Nat

VARIABLES
  kind,     \* the payload type L
  ix,       \* the index in memory
  file,     \* what is on disk
  saving,   \* the save in progress
  pread,    \* the index opened for positional reads, and its search
  inserts, saves,
  saved     \* history: the last save that began

vars == <<kind, ix, file, saving, pread, inserts, saves, saved>>

-----------------------------------------------------------------------------
(* The index in memory.                                                    *)

(* The ids of a set in their order, as a scan over all ids meets them.     *)
Ascending(S) ==
  CHOOSE s \in [1..Cardinality(S) -> S] : \A i, j \in DOMAIN s : i < j => s[i] < s[j]

Complete(levels) ==
  LET n == Len(levels) IN
  [i \in 1..n |-> [l \in 1..(levels[i] + 1) |->
     Ascending({id \in 0..(n - 1) : id # i - 1 /\ levels[id + 1] >= l - 1})]]

(* Mutant: the entry point named without its level.                        *)
HighestUnlevelled(levels) == IF levels = <<>> THEN <<>> ELSE <<0, 0>>

Highest(levels) ==
  IF levels = <<>> THEN <<>>
  ELSE LET i == CHOOSE i \in DOMAIN levels :
                  \A j \in DOMAIN levels : levels[j] < levels[i] \/ (levels[j] = levels[i] /\ i <= j)
       IN  <<i - 1, levels[i]>>

(* `metric` is D::metric_id(), 0 for a metric that declines to name itself. *)
Built(metric, vecs, levels, payloads) ==
  [mode |-> "owned", metric |-> metric, vecs |-> vecs, lists |-> Complete(levels), ep |-> Highest(levels),
   payloads |-> payloads, dead |-> {}]

Closed ==
  [mode |-> "closed", metric |-> 0, vecs |-> <<>>, lists |-> <<>>, ep |-> <<>>,
   payloads |-> <<>>, dead |-> {}]

Open == ix.mode # "closed"

(* Bound: the caller changes the index only where no torn file is left and *)
(* no reader is open.  Its changes do not touch the file, so doing them    *)
(* before the reader opens reaches the same files and answers.             *)
Calm == ~saving.on /\ (saves = 0 \/ saved.whole) /\ ~pread.on
Ids == 0..(Len(ix.vecs) - 1)

(* The payload value of an item, which only a typed index keeps.           *)
Payload(item) == IF kind = "none" THEN <<>> ELSE <<Stored(kind, item)>>

(* An index read from a torn file has lists no insertion would have built; *)
(* inserting into one is left out.                                         *)
AsBuilt == ix.lists = Complete(Levels(ix.lists))

-----------------------------------------------------------------------------
NotSaving == [on |-> FALSE, image |-> NoFile, at |-> 0]
NotOpened == [on |-> FALSE, metric |-> 0, vecs |-> <<>>, lists |-> <<>>, ep |-> <<>>, payloads |-> <<>>,
              scored |-> {}, error |-> FALSE, done |-> FALSE, answer |-> Refused, same |-> TRUE]
NeverSaved == [by |-> "none", vecs |-> <<>>, lists |-> <<>>, ep |-> <<>>, payloads |-> <<>>,
               metric |-> 0, version |-> 0, grown |-> FALSE, whole |-> FALSE]

New(metric) ==
  /\ ~Open
  /\ ix' = Built(metric, <<>>, <<>>, <<>>)
  /\ UNCHANGED <<kind, file, saving, pread, inserts, saves, saved>>

Insert(level) ==
  /\ ix.mode = "owned" /\ AsBuilt /\ Calm
  /\ inserts < MaxInserts
  /\ inserts' = inserts + 1
  /\ ix' = [Built(ix.metric, Append(ix.vecs, inserts + 1), Append(Levels(ix.lists), level),
                  ix.payloads \o Payload(inserts + 1)) EXCEPT !.dead = ix.dead]
  /\ UNCHANGED <<kind, file, saving, pread, saves, saved>>

Remove(id) ==
  /\ Open /\ ix.mode # "fixed" /\ Calm
  /\ id \in Ids \ ix.dead
  /\ ix' = [ix EXCEPT !.dead = @ \cup {id}]
  /\ UNCHANGED <<kind, file, saving, pread, inserts, saves, saved>>

Restore(id) ==
  /\ Open /\ ix.mode # "fixed" /\ Calm
  /\ id \in ix.dead
  /\ ix' = [ix EXCEPT !.dead = @ \ {id}]
  /\ UNCHANGED <<kind, file, saving, pread, inserts, saves, saved>>

(* The survivors in their order, and their payloads by old id.             *)
OldIds == Ascending(Ids \ ix.dead)

(* Mutant: payloads kept at their old places.                              *)
CarriedByNewId(column) == IF kind = "none" THEN <<>> ELSE [i \in DOMAIN OldIds |-> column[i]]

Carried(column) == IF kind = "none" THEN <<>> ELSE [i \in DOMAIN OldIds |-> column[OldIds[i] + 1]]

Compact(levels) ==
  /\ Open /\ ix.mode # "fixed" /\ Calm
  /\ ix.dead # {}
  /\ Len(levels) = Len(OldIds)
  /\ ix' = Built(ix.metric, [i \in DOMAIN OldIds |-> ix.vecs[OldIds[i] + 1]], levels,
                Carried(ix.payloads))
  /\ UNCHANGED <<kind, file, saving, pread, inserts, saves, saved>>

-----------------------------------------------------------------------------
(* Saving: the tombstones are checked, the file is truncated, lengthened   *)
(* to its final size if that is known and the file system allows it, and   *)
(* written from its beginning.                                             *)

RejectTombstones == ix.dead # {}

Zeros(n) == [i \in 1..n |-> 0]

(* Mutant: the file opened for writing without truncating it.              *)
NotTruncated(len) == file

Truncated(len) == [header |-> NoHeader, cells |-> Zeros(len)]

(* A store whose vectors stay on disk has no bytes to write, but reports   *)
(* their number to the header.                                             *)
StoreBytes(by, vecs) == IF by = "pread" THEN <<>> ELSE vecs

Written(by, content, column, version) ==
  [Image([content EXCEPT !.vecs = StoreBytes(by, content.vecs)], column, content.metric, version)
     EXCEPT !.header.n = Len(content.vecs)]

BeginWrite(by, content, column, version) ==
  \E grown \in IF Preallocates(column) THEN BOOLEAN ELSE {FALSE} :
    /\ saves < MaxSaves
    /\ saves' = saves + 1
    /\ file' = Truncated(IF grown THEN PreallocatedLen(content, column) ELSE 0)
    /\ saving' = [on |-> TRUE, at |-> 0, image |-> Written(by, content, column, version)]
    /\ saved' = [by |-> by, vecs |-> content.vecs, lists |-> content.lists, ep |-> content.ep,
                 payloads |-> content.payloads, metric |-> content.metric, version |-> version,
                 grown |-> grown, whole |-> FALSE]
    /\ pread' = [pread EXCEPT !.same = FALSE]

Save(version) ==
  /\ Open /\ ix.mode # "fixed" /\ ~saving.on
  /\ ix.mode = "mapped" => ix.vecs = <<>>
  /\ ~RejectTombstones
  /\ BeginWrite("memory", ix, kind, version)
  /\ UNCHANGED <<kind, ix, inserts>>

(* A mapped index saved over the file it maps: the truncation takes its    *)
(* pages away, and sizing the graph section reads them.                    *)
SaveOverMapping ==
  /\ ix.mode = "mapped" /\ Len(ix.vecs) > 0 /\ ~saving.on
  /\ ~RejectTombstones
  /\ saves < MaxSaves
  /\ saves' = saves + 1
  /\ file' = Truncated(0)
  /\ ix' = Closed
  /\ saved' = [NeverSaved EXCEPT !.by = "mapping"]
  /\ pread' = [pread EXCEPT !.same = FALSE]
  /\ UNCHANGED <<kind, saving, inserts>>

WriteNext ==
  /\ saving.on /\ saving.at <= Len(saving.image.cells)
  /\ saving' = [saving EXCEPT !.at = @ + 1]
  /\ file' = IF saving.at = 0 THEN [file EXCEPT !.header = saving.image.header]
             ELSE LET word == saving.image.cells[saving.at] IN
                  [file EXCEPT !.cells = IF saving.at <= Len(@) THEN [@ EXCEPT ![saving.at] = word]
                                         ELSE Append(@, word)]
  /\ UNCHANGED <<kind, ix, pread, inserts, saves, saved>>

EndSave ==
  /\ saving.on /\ saving.at = Len(saving.image.cells) + 1
  /\ saving' = NotSaving
  /\ saved' = [saved EXCEPT !.whole = TRUE]
  /\ UNCHANGED <<kind, ix, file, pread, inserts, saves>>

(* An error of the file system ends the save and leaves what was written.  *)
FailSave ==
  /\ saving.on
  /\ saving' = NotSaving
  /\ UNCHANGED <<kind, ix, file, pread, inserts, saves, saved>>

Crash ==
  /\ Open
  /\ ix' = Closed
  /\ saving' = NotSaving
  /\ UNCHANGED <<kind, file, pread, inserts, saves, saved>>

-----------------------------------------------------------------------------
(* Loading, with any metric of the bound; the payload type is the index's. *)

Loaded(how, opener) ==
  CASE how = "owned" -> IF kind = "none" THEN ReadOwned(file, opener)
                        ELSE LoadWithPayload(file, opener, kind)
    [] how = "mapped" -> IF kind = "none" THEN ReadMapped(file, opener)
                         ELSE LoadMmapWithPayload(file, opener, kind)
    [] how = "fixed" -> LoadMmapWithFixedPayload(file, opener, kind)

Load(how, opener) ==
  /\ ~Open
  /\ LET read == Loaded(how, opener) IN
     /\ read.ok
     /\ ix' = [mode |-> how, metric |-> opener, vecs |-> read.vecs, lists |-> read.lists, ep |-> read.ep, dead |-> {},
               payloads |-> IF kind = "none" THEN <<>> ELSE read.payloads]
  /\ UNCHANGED <<kind, file, saving, pread, inserts, saves, saved>>

-----------------------------------------------------------------------------
(* Positional reads.  A search scores the entry point and then neighbours  *)
(* of scored nodes; each score reads the vector from the file as it is at  *)
(* that moment.  A failed read scores infinity and is remembered.          *)

OpenPread(opener) ==
  /\ ~pread.on /\ kind \in PreadKinds /\ inserts <= MaxPread
  /\ LET graph == LoadPread(file, opener) IN
     /\ graph.ok
     /\ pread' = [NotOpened EXCEPT !.on = TRUE, !.metric = opener, !.vecs = graph.vecs,
                                   !.lists = graph.lists, !.ep = graph.ep]
  /\ UNCHANGED <<kind, ix, file, saving, inserts, saves, saved>>

ScoredIds == {s.id : s \in pread.scored}

Reachable ==
  IF pread.ep = <<>> THEN {}
  ELSE {pread.ep[1]} \cup
       UNION {{pread.lists[id + 1][1][j] : j \in DOMAIN pread.lists[id + 1][1]} : id \in ScoredIds}

(* read_exact_at: past the end of the file, or when the device says so.    *)
ReadVector(id, fails) ==
  /\ pread.on /\ ~pread.done
  /\ id \in Reachable \ ScoredIds
  /\ LET read == ~fails /\ id + 1 <= Len(file.cells) IN
     pread' = [pread EXCEPT
       !.scored = @ \cup {[id |-> id, read |-> read, value |-> IF read THEN file.cells[id + 1] ELSE 0]},
       !.error = @ \/ ~read]
  /\ UNCHANGED <<kind, ix, file, saving, inserts, saves, saved>>

(* Mutant: the results returned although a read failed.                    *)
IntoResultRegardless ==
  /\ pread.on /\ ~pread.done
  /\ pread.ep # <<>> => pread.scored # {}
  /\ pread' = [pread EXCEPT !.done = TRUE, !.answer = [ok |-> TRUE, hits |-> pread.scored]]
  /\ UNCHANGED <<kind, ix, file, saving, inserts, saves, saved>>

IntoResult ==
  /\ pread.on /\ ~pread.done
  /\ pread.ep # <<>> => pread.scored # {}
  /\ pread' = [pread EXCEPT !.done = TRUE,
                            !.answer = IF pread.error THEN Refused ELSE [ok |-> TRUE, hits |-> pread.scored]]
  /\ UNCHANGED <<kind, ix, file, saving, inserts, saves, saved>>

ClosePread ==
  /\ pread.on /\ pread.done
  /\ pread' = NotOpened
  /\ UNCHANGED <<kind, ix, file, saving, inserts, saves, saved>>

(* persist::save takes any Hnsw, the graph of a positional reader too: its *)
(* store has a length and no data.                                         *)
SavePreadGraph(version) ==
  /\ pread.on /\ ~saving.on /\ kind = "none"
  /\ BeginWrite("pread", pread, "none", version)
  /\ UNCHANGED <<kind, ix, inserts>>

-----------------------------------------------------------------------------
Init ==
  /\ kind \in Kinds
  /\ ix = Closed /\ file = NoFile /\ saving = NotSaving /\ pread = NotOpened
  /\ inserts = 0 /\ saves = 0 /\ saved = NeverSaved

Next ==
  \/ \E metric \in Metrics : New(metric)
  \/ \E level \in 0..TopLevel : Insert(level)
  \/ \E id \in Ids : Remove(id) \/ Restore(id)
  \/ \E n \in 0..MaxInserts : \E levels \in [1..n -> 0..TopLevel] : Compact(levels)
  \/ \E version \in {VERSION, COMPACT_VERSION} : Save(version) \/ SavePreadGraph(version)
  \/ SaveOverMapping \/ WriteNext \/ EndSave \/ FailSave \/ Crash
  \/ \E how \in {"owned", "mapped", "fixed"}, opener \in Metrics : Load(how, opener)
  \/ \E opener \in Metrics : OpenPread(opener)
  \/ IntoResult \/ ClosePread
  \/ \E id \in Reachable, fails \in BOOLEAN : ReadVector(id, fails)

Spec == Init /\ [][Next]_vars

(* A save that has begun writes on until it returns, fails or dies.        *)
FairSpec == Spec /\ WF_vars(WriteNext \/ EndSave)

-----------------------------------------------------------------------------
(* Properties.                                                             *)

(* The index, the file, the save and the reader keep their shapes: as many *)
(* lists as vectors, tombstones that are ids, an entry point that is a node *)
(* on its own level, and never more words written than the image has.      *)
TypeOK ==
  /\ kind \in Kinds
  /\ ix.mode \in {"closed", "owned", "mapped", "fixed"}
  /\ ix.metric \in Metrics \cup {0}
  /\ Len(ix.lists) = Len(ix.vecs)
  /\ ix.dead \subseteq Ids
  /\ ix.ep = <<>> <=> ix.vecs = <<>>
  /\ ix.ep # <<>> => ix.ep[1] \in Ids /\ Len(ix.lists[ix.ep[1] + 1]) = ix.ep[2] + 1
  /\ saving.on => saving.at \in 0..(Len(saving.image.cells) + 1)
  /\ inserts \in 0..MaxInserts /\ saves \in 0..MaxSaves

(* The results of a search show, for an id, a vector and a payload.        *)
LabeledResult(id) == [embedding |-> ix.vecs[id + 1], payload |-> ix.payloads[id + 1]]

(* What a labeled result shows for an id is what was inserted together, or *)
(* no payload at all (zeros) for an index read from a torn file: through   *)
(* compaction, saving and loading, in any order.                           *)
PayloadAligned ==
  kind # "none" /\ Open =>
    /\ Len(ix.payloads) = Len(ix.vecs)
    /\ \A id \in Ids :
         LabeledResult(id).payload \in {Stored(kind, LabeledResult(id).embedding), 0}

GraphReads == {ReadMapped(file, opener) : opener \in Metrics}

ColumnReads ==
  IF kind = "none" THEN {}
  ELSE {LoadMmapWithPayload(file, opener, kind) : opener \in Metrics}
       \cup {LoadMmapWithFixedPayload(file, opener, kind) : opener \in Metrics}

Accepted(reads) == {r \in reads : r.ok}

SameVectors(r) == r.vecs = saved.vecs /\ r.ep = saved.ep /\ Levels(r.lists) = Levels(saved.lists)

(* What a torn file may cost.  Whatever a reader accepts has the vectors,  *)
(* the levels and the entry point of one save, the last that began, never  *)
(* of two; at most the two last nodes have lost links; and a reader that   *)
(* also takes the payloads accepts only a whole graph, with payloads that  *)
(* are those saved or, from some id on, zeros.                             *)
TornIsBounded ==
  /\ \A r \in Accepted(GraphReads) :
       /\ SameVectors(r)
       /\ \A i \in DOMAIN r.lists : i <= Len(r.lists) - 2 => r.lists[i] = saved.lists[i]
  /\ \A r \in Accepted(ColumnReads) :
       /\ SameVectors(r) /\ r.lists = saved.lists
       /\ \E k \in 0..Len(r.payloads) : \A i \in DOMAIN r.payloads :
            r.payloads[i] = IF i <= k THEN saved.payloads[i] ELSE 0

(* Where the file was not lengthened in advance, a reader accepts nothing  *)
(* but what was saved, wherever the save was cut.                          *)
PrefixIsRefused ==
  ~saved.grown =>
    /\ \A r \in Accepted(GraphReads) : SameVectors(r) /\ r.lists = saved.lists
    /\ \A r \in Accepted(ColumnReads) : r.payloads = saved.payloads

(* What a reader gives back is what was saved.                             *)
AsSaved(r) == r.ok /\ SameVectors(r) /\ r.lists = saved.lists

WithItsColumn(r) == AsSaved(r) /\ r.payloads = saved.payloads

(* The metrics a file is meant for: the recorded one, any if none is.      *)
Welcome(opener) == saved.metric \in {0, opener}

(* The vectors were in memory, or there are none.                          *)
Resident == saved.by # "pread" \/ saved.vecs = <<>>

PayloadTypes == Kinds \ {"none"}

(* A save of resident vectors that returned Ok is read back as it was: by  *)
(* the mapped reader in both versions, by the owned one in version 1, with *)
(* its payloads if it has any, lazily if their width is fixed.  Whatever   *)
(* was saved, no reader opens it under another metric, the owned one never *)
(* opens version 2, no reader finds payloads where there are none, and the *)
(* lazy one takes no payloads of another width.                            *)
SavedIsReadable ==
  saved.whole => \A opener \in Metrics :
    LET v1 == saved.version = VERSION
        due == Welcome(opener) /\ Resident
        mapped == ReadMapped(file, opener)
        owned == ReadOwned(file, opener)
    IN  /\ mapped.ok => Welcome(opener)
        /\ owned.ok => Welcome(opener) /\ v1
        /\ \A other \in PayloadTypes :
             /\ kind = "none" => ~WithPayloads(file, mapped, other).ok
             /\ kind = "none" => ~WithPayloads(file, owned, other).ok
             /\ WithMappedPayloads(file, mapped, other).ok => FixedStride(kind) = FixedStride(other)
        /\ due => AsSaved(mapped)
        /\ due /\ v1 => AsSaved(owned)
        /\ due /\ saved.payloads # <<>> => WithItsColumn(WithPayloads(file, mapped, kind))
        /\ due /\ saved.payloads # <<>> /\ v1 => WithItsColumn(WithPayloads(file, owned, kind))
        /\ due /\ FixedStride(kind) > 0 => WithItsColumn(WithMappedPayloads(file, mapped, kind))

(* The doc of persist::save says that the file can be loaded back with     *)
(* load or load_mmap, whichever index was saved.                           *)
PlainReloads ==
  saved.whole /\ kind = "none" /\ saved.version = VERSION =>
    \A opener \in Metrics : Welcome(opener) =>
      ReadOwned(file, opener).ok /\ ReadMapped(file, opener).ok

(* The doc of LabeledIndex::save says that the file can be reloaded with   *)
(* load or load_mmap, however many items the index has.                    *)
LabeledReloads ==
  saved.whole /\ kind # "none" /\ saved.version = VERSION =>
    \A opener \in Metrics : Welcome(opener) =>
      LoadWithPayload(file, opener, kind).ok /\ LoadMmapWithPayload(file, opener, kind).ok

(* The doc of load_with_payload says that it fails if the type does not    *)
(* match what was written.  The unit type, which reads nothing, is let     *)
(* alone.                                                                  *)
OtherTypeIsRefused ==
  saved.whole => \A opener \in Metrics : \A other \in PayloadTypes \ {"unit", kind} :
    ~LoadWithPayload(file, opener, other).ok

(* One of the two promises about a payload column holds.  Both are made;   *)
(* a behaviour that breaks this breaks each of them.                       *)
OneColumnPromiseHolds == []LabeledReloads \/ []OtherTypeIsRefused

(* A positional search that returns Ok had every read succeed, and if no   *)
(* save touched the file since it was opened, scored every node by its own *)
(* vector.                                                                 *)
PreadIsExact ==
  pread.answer.ok => \A hit \in pread.answer.hits :
    /\ hit.read
    /\ pread.same => hit.value = pread.vecs[hit.id + 1]

(* The comment on the preallocation says that it does not affect           *)
(* correctness: a file that is accepted would be the index that was saved. *)
PreallocationIsHarmless ==
  ~saving.on => \A r \in Accepted(GraphReads) : SameVectors(r) /\ r.lists = saved.lists
=============================================================================
