------------------------------ MODULE Sidecar ------------------------------
(***************************************************************************)
(* Quantized sidecars (quantized/src/lib.rs): the file of packed rows that *)
(* is written beside an index, the readers that map it, queries prepared   *)
(* against one mapping, and the pairing of a mapping with an index.        *)
(*                                                                         *)
(* A file is a sequence of cells: header, one code per row, one scale per  *)
(* row, checksum; an application may embed that image between words of its *)
(* own.  The process may die at any word, which leaves what was written so *)
(* far; the machine may lose power before the data is synced, which leaves *)
(* less, zeros in places, or the file as it was before.  The checksum is   *)
(* the content it covers: two contents with one CRC32 are left out.        *)
(***************************************************************************)
EXTENDS Integers, Sequences, FiniteSets

CONSTANTS
  Metrics,     \* QuantizedMetric
  Seeds,       \* seeds of the configurations in use
  Widths,      \* bits asked for, 2..4 being supported
  Lengths,     \* dimensions asked for in a save, Dim being the index's
  Classes,     \* kinds of vectors in the index
  MaxItems,    \* bound: vectors inserted
  MaxRows,     \* bound: vectors in the index at a time
  MaxSaves,    \* bound: saves begun
  MaxHoles     \* bound: words lost by a power loss

Dim == 1

ASSUME SidecarAssumption ==
  /\ Metrics \subseteq {"Cosine", "DotProduct"}
  /\ Widths \subseteq Nat /\ Lengths \subseteq Nat
  /\ Classes \subseteq {"plain", "zero", "huge", "nonfinite"}
  /\ MaxItems \in Nat /\ MaxRows \in Nat /\ MaxSaves \in Nat /\ MaxHoles \in Nat

VARIABLES
  index,      \* the vectors of the index, by id
  items, saves,
  disk,       \* the file, and the content it has for certain
  saving,     \* the save under way
  mapped,     \* the mapping
  paired,     \* a QuantizedHnsw exists: index and mapping are borrowed
  begun,      \* history: the images of all saves
  lost,       \* history: power was lost since the last save began
  current     \* history: those begun since the index was last compacted

sidecarVars == <<index, items, saves, disk, saving, mapped, paired, begun, lost, current>>

-----------------------------------------------------------------------------
(* The image.                                                              *)

Header(metric, width, seed, length, rows) ==
  [tag |-> "header", metric |-> metric, config |-> <<width, seed>>, length |-> length, rows |-> rows]
Word(tag, about) == [tag |-> tag, about |-> about]
Zero == Word("zero", <<>>)
Pad == Word("pad", <<>>)

SupportedWidth(width) == width \in 2..4
ParametersValid(length, width) == length > 0 /\ SupportedWidth(width)

(* CodecParameters::encode: Cosine has no code for a zero vector.          *)
Encodes(metric, length, vector) ==
  /\ length = Dim
  /\ vector.class # "nonfinite"
  /\ metric = "Cosine" => vector.class # "zero"

(* The scale slot: the norm of a dot-product vector, which may be zero or  *)
(* overflow f32.                                                           *)
Scale(metric, vector) ==
  CASE metric = "DotProduct" /\ vector.class = "zero" -> "none"
    [] metric = "DotProduct" /\ vector.class = "huge" -> "infinite"
    [] OTHER -> "finite"

Code(metric, width, seed, vector) == Word("code", <<vector.item, metric, width, seed>>)

Codes(header, vectors) ==
  [i \in DOMAIN vectors |-> Code(header.metric, header.config[1], header.config[2], vectors[i])]
Scales(header, vectors) ==
  [i \in DOMAIN vectors |-> Word("scale", <<Scale(header.metric, vectors[i])>>)]

(* Mutant: the checksum covers the header only.                            *)
ChecksumOfHeader(content) == Word("checksum", <<content[1]>>)

Checksum(content) == Word("checksum", content)

Hashed(header, vectors) == <<header>> \o Codes(header, vectors) \o Scales(header, vectors)

(* Mutant: the scales written without being hashed.                        *)
ImageHashedShort(header, vectors) ==
  Append(Hashed(header, vectors), Checksum(<<header>> \o Codes(header, vectors)))

Image(header, vectors) == Append(Hashed(header, vectors), Checksum(Hashed(header, vectors)))

(* What write_to has written when it returns: all of the image, or nothing *)
(* if the parameters are refused, or the header and the codes before the   *)
(* first vector that cannot be encoded.                                    *)
Encoded(header, vectors) ==
  Cardinality({n \in DOMAIN vectors :
                 \A i \in 1..n : Encodes(header.metric, header.length, vectors[i])})

Accepts(header, vectors) ==
  /\ ParametersValid(header.length, header.config[1])
  /\ Encoded(header, vectors) = Len(vectors)

Written(header, vectors) ==
  IF Accepts(header, vectors) THEN Image(header, vectors)
  ELSE IF ParametersValid(header.length, header.config[1])
  THEN <<header>> \o SubSeq(Codes(header, vectors), 1, Encoded(header, vectors))
  ELSE <<>>

-----------------------------------------------------------------------------
(* Opening.  `cells` is the mapped region.                                 *)

Rows(cells) == cells[1].rows
CodeOf(cells, row) == cells[1 + row]
ScaleOf(cells, row) == cells[1 + Rows(cells) + row]
LayoutBytes(rows) == 2 + 2 * rows

(* Mutant: a region longer than the image is accepted.                     *)
StructureValidLoose(cells) ==
  /\ Len(cells) >= 2
  /\ cells[1].tag = "header"
  /\ Len(cells) >= LayoutBytes(Rows(cells))
  /\ \A row \in 1..Rows(cells) : ScaleOf(cells, row).about # <<"infinite">>

StructureValid(cells) ==
  /\ Len(cells) >= 2
  /\ cells[1].tag = "header"
  /\ Len(cells) = LayoutBytes(Rows(cells))
  /\ \A row \in 1..Rows(cells) : ScaleOf(cells, row).about # <<"infinite">>

ChecksumValid(cells) ==
  LET n == LayoutBytes(Rows(cells)) IN
  cells[n].tag = "checksum" /\ cells[n] = Checksum(SubSeq(cells, 1, n - 1))

Opens(cells, verify) == StructureValid(cells) /\ (verify => ChecksumValid(cells))

(* offset + length must not pass the end of the file.                      *)
RegionFits(offset, length) == offset + length <= Len(disk.cells)
Region(offset, length) == SubSeq(disk.cells, offset + 1, offset + length)

-----------------------------------------------------------------------------
NotSaving == [on |-> FALSE, plan |-> <<>>, at |-> 0, ok |-> FALSE]
NotMapped == [on |-> FALSE, cells |-> <<>>, verified |-> FALSE]

(* The index is changed while nothing borrows it: no save, no pairing.     *)
(* Bound: and no file is left unsynced, since a change commutes with what  *)
(* may happen to the file.                                                 *)
MayChange == ~paired /\ ~saving.on /\ disk.synced

Insert(class) ==
  /\ MayChange /\ items < MaxItems /\ Len(index) < MaxRows
  /\ index' = Append(index, [item |-> items + 1, class |-> class])
  /\ items' = items + 1
  /\ UNCHANGED <<saves, disk, saving, mapped, paired, begun, lost, current>>

(* A removal followed by a compaction: later vectors move up.              *)
Compact(id) ==
  /\ MayChange /\ id \in DOMAIN index
  /\ index' = SubSeq(index, 1, id - 1) \o SubSeq(index, id + 1, Len(index))
  /\ current' = {}
  /\ UNCHANGED <<items, saves, disk, saving, mapped, paired, begun, lost>>

-----------------------------------------------------------------------------
(* save, and write_to between words of an application's own file.  Both    *)
(* begin by truncating the file; a mapped file is left alone (# Safety).   *)

Embeddings == {<<>>, <<Pad>>}

Save(header, pad) ==
  /\ ~saving.on /\ ~mapped.on /\ saves < MaxSaves
  /\ saves' = saves + 1
  /\ header.rows = Len(index)
  /\ disk' = [disk EXCEPT !.cells = <<>>, !.synced = FALSE]
  /\ saving' = [on |-> TRUE, at |-> 0, ok |-> Accepts(header, index),
                plan |-> pad \o Written(header, index)
                             \o (IF Accepts(header, index) THEN pad ELSE <<>>)]
  /\ LET image == IF Accepts(header, index) THEN {Image(header, index)} ELSE {} IN
     begun' = begun \cup image /\ current' = current \cup image
  /\ lost' = FALSE
  /\ UNCHANGED <<index, items, mapped, paired>>

WriteNext ==
  /\ saving.on /\ saving.at < Len(saving.plan)
  /\ saving' = [saving EXCEPT !.at = @ + 1]
  /\ disk' = [disk EXCEPT !.cells = Append(@, saving.plan[saving.at + 1])]
  /\ UNCHANGED <<index, items, saves, mapped, paired, begun, lost, current>>

(* flush and sync_all after the last word; not after an error.             *)
EndSave ==
  /\ saving.on /\ saving.at = Len(saving.plan)
  /\ saving' = NotSaving
  /\ disk' = IF saving.ok THEN [cells |-> disk.cells, synced |-> TRUE, kept |-> disk.cells]
             ELSE disk
  /\ UNCHANGED <<index, items, saves, mapped, paired, begun, lost, current>>

(* An error of the file system, or the death of the process.               *)
CutSave ==
  /\ saving.on
  /\ saving' = NotSaving
  /\ UNCHANGED <<index, items, saves, disk, mapped, paired, begun, lost, current>>

(* What data that was never synced may be found as.  Bound: at most        *)
(* MaxHoles words of it are lost before its end.                           *)
Survivals ==
  {disk.kept} \cup
  UNION {{[i \in 1..n |-> IF i \in holes THEN Zero ELSE disk.cells[i]] :
            holes \in {h \in SUBSET (1..n) : Cardinality(h) <= MaxHoles}} : n \in 0..Len(disk.cells)}

PowerLoss ==
  /\ ~disk.synced
  /\ \E cells \in Survivals : disk' = [cells |-> cells, synced |-> TRUE, kept |-> cells]
  /\ saving' = NotSaving
  /\ mapped' = NotMapped /\ paired' = FALSE
  /\ lost' = TRUE
  /\ UNCHANGED <<index, items, saves, begun, current>>

-----------------------------------------------------------------------------
(* open_mmap, open_mmap_verified, open_mmap_region.                        *)

OpenMmap(offset, length, verify) ==
  /\ ~saving.on /\ ~mapped.on
  /\ RegionFits(offset, length) /\ Opens(Region(offset, length), verify)
  /\ mapped' = [on |-> TRUE, cells |-> Region(offset, length), verified |-> verify]
  /\ UNCHANGED <<index, items, saves, disk, saving, paired, begun, lost, current>>

(* Dropping the mapping ends the pairing.                                  *)
Unmap ==
  /\ mapped.on
  /\ mapped' = NotMapped /\ paired' = FALSE
  /\ UNCHANGED <<index, items, saves, disk, saving, begun, lost, current>>

(* The row count is not part of the identity.                              *)
IdentityOf(header) == [metric |-> header.metric, config |-> header.config, length |-> header.length]

(* A prepared query outlives the mapping it was prepared against: a caller *)
(* may hold one for any sidecar there ever was.                            *)
PreparedQueries == {IdentityOf(image[1]) : image \in begun}

(* Mutant: the identity compared without the codec's settings.             *)
ValidatePreparedLoosely(query) == query.metric = mapped.cells[1].metric

ValidatePrepared(query) == query = IdentityOf(mapped.cells[1])

(* Mutant: a sidecar with fewer rows than the graph has nodes is paired.   *)
CompatibleAnyRows(header) == index # <<>> => header.length = Dim

Compatible(header) ==
  /\ header.rows = Len(index)
  /\ index # <<>> => header.length = Dim

Pair ==
  /\ mapped.on /\ ~paired /\ ~saving.on
  /\ Compatible(mapped.cells[1])
  /\ paired' = TRUE
  /\ UNCHANGED <<index, items, saves, disk, saving, mapped, begun, lost, current>>

(* A search over the pairing checks the query, and then scores the row of  *)
(* every node it visits without checking again.                            *)
Serves(query) == paired /\ ValidatePrepared(query)

(* The pairing is dropped: the index may change under the open mapping.    *)
Unpair ==
  /\ paired
  /\ paired' = FALSE
  /\ UNCHANGED <<index, items, saves, disk, saving, mapped, begun, lost, current>>

-----------------------------------------------------------------------------
SidecarInit ==
  /\ index = <<>> /\ items = 0 /\ saves = 0
  /\ disk = [cells |-> <<>>, synced |-> TRUE, kept |-> <<>>]
  /\ saving = NotSaving /\ mapped = NotMapped /\ paired = FALSE
  /\ begun = {} /\ lost = FALSE /\ current = {}

SidecarNext ==
  \/ \E class \in Classes : Insert(class)
  \/ \E id \in DOMAIN index : Compact(id)
  \/ \E metric \in Metrics, width \in Widths, seed \in Seeds, length \in Lengths, pad \in Embeddings :
       Save(Header(metric, width, seed, length, Len(index)), pad)
  \/ WriteNext \/ EndSave \/ CutSave \/ PowerLoss
  \/ \E offset \in 0..Len(disk.cells) : \E length \in 0..(Len(disk.cells) - offset), verify \in BOOLEAN :
       OpenMmap(offset, length, verify)
  \/ Unmap \/ Pair \/ Unpair

SidecarSpec == SidecarInit /\ [][SidecarNext]_sidecarVars

-----------------------------------------------------------------------------
(* Properties.                                                             *)

(* Whatever interruption the file went through and whichever region of it  *)
(* is asked for, a verified mapping is the whole image of one save.        *)
VerifiedIsWhole == mapped.on /\ mapped.verified => mapped.cells \in begun

(* An unverified mapping is whole too unless power was lost; then it has   *)
(* the header of a save, and each code and scale is that save's or zero.   *)
UnverifiedIsBounded ==
  mapped.on =>
    \E image \in begun :
      /\ Len(image) = Len(mapped.cells) /\ image[1] = mapped.cells[1]
      /\ \A i \in DOMAIN image : mapped.cells[i] \in {image[i]} \cup (IF lost THEN {Zero} ELSE {})

(* A save that returns Ok has left a sidecar that opens, verified and      *)
(* embedded too, unless the norm of a vector overflowed: its scale was     *)
(* written as infinity, which every open refuses.                          *)
SavedOpens ==
  [][EndSave /\ saving.ok =>
       LET pad == IF Head(saving.plan) = Pad THEN 1 ELSE 0
           cells == SubSeq(disk.cells, pad + 1, Len(disk.cells) - pad)
           finite == \A i \in DOMAIN cells : cells[i].tag = "scale" => cells[i].about # <<"infinite">>
       IN  Opens(cells, TRUE) <=> finite]_sidecarVars

(* What a search over a pairing multiplies: for every node of the graph    *)
(* there is a row; it was encoded by the codec the query was rotated with; *)
(* and if the mapping was verified and the index only grew since the save, *)
(* it is the node's own vector.                                            *)
ServedRowsMatch ==
  \A query \in PreparedQueries : Serves(query) =>
    \A id \in DOMAIN index :
      LET code == CodeOf(mapped.cells, id) IN
      /\ id <= Rows(mapped.cells)
      /\ code # Zero => <<code.about[2], <<code.about[3], code.about[4]>>>> = <<query.metric, query.config>>
      /\ mapped.verified /\ mapped.cells \in current => code.about[1] = index[id].item
=============================================================================
