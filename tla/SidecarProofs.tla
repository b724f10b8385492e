--------------------------- MODULE SidecarProofs ---------------------------
(***************************************************************************)
(* The quantized sidecars, of every size, under every interruption.        *)
(* Wherever a checksum is found, on disk or mapped, the content it is the  *)
(* checksum of, followed by it, is the image of a save that was begun      *)
(* (Inv); and wherever a header is found, what follows it is that image    *)
(* but for zeros, or too little for one (Aligned, FileInv).                *)
(*                                                                         *)
(* Then the codec, for vectors of every length: the butterflies have taken *)
(* each coordinate to the transform of a block of some power of two        *)
(* (Level), and bit p of a row is bit p % bits of code p \div bits         *)
(* (PackedTo).                                                             *)
(***************************************************************************)
EXTENDS Sidecar, Codec, SequenceTheorems, FiniteSetTheorems, TLAPS

\* A set of words whose checksums belong to images in B.
Sound(S, B) == \A w \in S : w.tag = "checksum" => Append(w.about, w) \in B

Known(cells, B) == \E S : cells \in Seq(S) /\ Sound(S, B)

IsSequence(s) == \E S : s \in Seq(S)

DiskOK ==
  /\ disk = [cells |-> disk.cells, synced |-> disk.synced, kept |-> disk.kept]
  /\ Known(disk.cells, begun) /\ Known(disk.kept, begun)

SavingOK ==
  /\ saving = [on |-> saving.on, plan |-> saving.plan, at |-> saving.at, ok |-> saving.ok]
  /\ saving.at \in Nat
  /\ Known(saving.plan, begun)

\* The inductive invariant.
Inv ==
  /\ IsSequence(index)
  /\ DiskOK
  /\ SavingOK
  /\ VerifiedIsWhole

-----------------------------------------------------------------------------
\* Sequences of known words.

LEMMA KnownEmpty == ASSUME NEW B PROVE Known(<<>>, B)
<1>1. <<>> \in Seq({}) /\ Sound({}, B)
  BY DEF Sound
<1> QED BY <1>1 DEF Known

LEMMA KnownMonotonic ==
  ASSUME NEW B, NEW C, B \subseteq C, NEW cells, Known(cells, B)
  PROVE  Known(cells, C)
BY DEF Known, Sound

LEMMA KnownConcat ==
  ASSUME NEW B, NEW a, NEW b, Known(a, B), Known(b, B)
  PROVE  Known(a \o b, B)
<1>1. PICK S : a \in Seq(S) /\ Sound(S, B)
  BY DEF Known
<1>2. PICK T : b \in Seq(T) /\ Sound(T, B)
  BY DEF Known
<1>3. a \in Seq(S \cup T) /\ b \in Seq(S \cup T)
  BY <1>1, <1>2, SeqMonotonic
<1>4. a \o b \in Seq(S \cup T)
  BY <1>3, ConcatProperties
<1>5. Sound(S \cup T, B)
  BY <1>1, <1>2 DEF Sound
<1> QED BY <1>4, <1>5 DEF Known

LEMMA KnownOne ==
  ASSUME NEW B, NEW w, w.tag = "checksum" => Append(w.about, w) \in B
  PROVE  Known(<<w>>, B)
<1>1. <<w>> \in Seq({w}) /\ Sound({w}, B)
  BY DEF Sound
<1> QED BY <1>1 DEF Known

LEMMA KnownAppend ==
  ASSUME NEW B, NEW a, NEW w, Known(a, B), w.tag = "checksum" => Append(w.about, w) \in B
  PROVE  Known(Append(a, w), B)
<1>1. PICK S : a \in Seq(S) /\ Sound(S, B)
  BY DEF Known
<1>2. a \in Seq(S \cup {w}) /\ Sound(S \cup {w}, B)
  BY <1>1, SeqMonotonic DEF Sound
<1>3. Append(a, w) \in Seq(S \cup {w})
  BY <1>2, AppendProperties
<1> QED BY <1>2, <1>3 DEF Known

LEMMA KnownSubSeq ==
  ASSUME NEW B, NEW a, Known(a, B), NEW m \in Int, NEW n \in Int, 1 <= m, n <= Len(a)
  PROVE  Known(SubSeq(a, m, n), B)
<1>1. PICK S : a \in Seq(S) /\ Sound(S, B)
  BY DEF Known
<1>2. \A k \in m..n : a[k] \in S
  BY <1>1
<1>3. SubSeq(a, m, n) \in Seq(S)
  BY <1>2, SubSeqProperties
<1> QED BY <1>1, <1>3 DEF Known

LEMMA KnownElement ==
  ASSUME NEW B, NEW a, Known(a, B)
  PROVE  /\ Len(a) \in Nat
         /\ \A k \in 1..Len(a) : a[k].tag = "checksum" => Append(a[k].about, a[k]) \in B
BY DEF Known, Sound

\* A sequence of words of one kind, no checksum among them.
LEMMA KnownMapped ==
  ASSUME NEW B, NEW n \in Nat, NEW s, s = [k \in 1..n |-> s[k]],
         \A k \in 1..n : s[k].tag # "checksum"
  PROVE  Known(s, B)
<1> DEFINE S == {s[k] : k \in 1..n}
<1>1. s \in [1..n -> S]
  OBVIOUS
<1>2. s \in Seq(S)
  BY <1>1, SeqDef
<1>3. Sound(S, B)
  BY DEF Sound
<1> QED BY <1>2, <1>3 DEF Known

-----------------------------------------------------------------------------
\* What a save writes: no word but the last is a checksum.

LEMMA WordTags ==
  ASSUME NEW tag, NEW about
  PROVE  Word(tag, about).tag = tag /\ Word(tag, about).about = about
BY DEF Word

LEMMA CodesKnown ==
  ASSUME NEW B, NEW header, NEW vectors, IsSequence(vectors)
  PROVE  /\ Known(Codes(header, vectors), B)
         /\ Known(Scales(header, vectors), B)
         /\ Len(Codes(header, vectors)) = Len(vectors)
<1>1. Len(vectors) \in Nat /\ DOMAIN vectors = 1..Len(vectors)
  BY DEF IsSequence
<1>2. \A k \in 1..Len(vectors) :
        /\ Codes(header, vectors)[k].tag = "code"
        /\ Scales(header, vectors)[k].tag = "scale"
  BY <1>1, WordTags DEF Codes, Code, Scales
<1>3. /\ Codes(header, vectors) = [k \in 1..Len(vectors) |-> Codes(header, vectors)[k]]
      /\ Scales(header, vectors) = [k \in 1..Len(vectors) |-> Scales(header, vectors)[k]]
  BY <1>1 DEF Codes, Scales
<1>4. Len(Codes(header, vectors)) = Len(vectors)
  BY <1>1 DEF Codes
<1> QED BY <1>1, <1>2, <1>3, <1>4, KnownMapped

LEMMA HashedKnown ==
  ASSUME NEW B, NEW header, header.tag = "header", NEW vectors, IsSequence(vectors)
  PROVE  Known(Hashed(header, vectors), B)
<1>1. Known(<<header>>, B)
  BY KnownOne
<1> QED BY <1>1, CodesKnown, KnownConcat DEF Hashed

LEMMA ImageKnown ==
  ASSUME NEW B, NEW header, header.tag = "header", NEW vectors, IsSequence(vectors),
         Image(header, vectors) \in B
  PROVE  Known(Image(header, vectors), B)
<1> DEFINE w == Checksum(Hashed(header, vectors))
<1>1. w.about = Hashed(header, vectors)
  BY WordTags DEF Checksum
<1>2. Append(w.about, w) \in B
  BY <1>1 DEF Image
<1> HIDE DEF w
<1>3. Known(Append(Hashed(header, vectors), w), B)
  BY <1>2, HashedKnown, KnownAppend
<1> QED BY <1>3 DEF Image, w

LEMMA EncodedBounded ==
  ASSUME NEW header, NEW vectors, IsSequence(vectors)
  PROVE  Encoded(header, vectors) \in 0..Len(vectors)
<1> DEFINE S == {n \in DOMAIN vectors :
                   \A j \in 1..n : Encodes(header.metric, header.length, vectors[j])}
<1>1. Len(vectors) \in Nat /\ DOMAIN vectors = 1..Len(vectors)
  BY DEF IsSequence
<1>2. IsFiniteSet(1..Len(vectors)) /\ Cardinality(1..Len(vectors)) = Len(vectors)
  <2>1. 0 \in Int /\ 1 \in Int /\ Len(vectors) \in Int
    BY <1>1
  <2>2. IsFiniteSet(1..Len(vectors)) /\ Cardinality(1..Len(vectors)) =
          IF 1 > Len(vectors) THEN 0 ELSE Len(vectors) - 1 + 1
    BY <2>1, FS_Interval
  <2> QED BY <1>1, <2>2
<1>3. Cardinality(S) \in Nat /\ Cardinality(S) <= Len(vectors)
  BY <1>1, <1>2, FS_Subset, FS_CardinalityType
<1> QED BY <1>1, <1>3 DEF Encoded

\* Of the image or of the part written before an error.
LEMMA WrittenKnown ==
  ASSUME NEW B, NEW header, header.tag = "header", NEW vectors, IsSequence(vectors),
         Accepts(header, vectors) => Image(header, vectors) \in B
  PROVE  Known(Written(header, vectors), B)
<1> DEFINE n == Encoded(header, vectors)
<1>1. n \in 0..Len(vectors) /\ Len(vectors) \in Nat
  BY EncodedBounded DEF IsSequence
<1>2. Known(SubSeq(Codes(header, vectors), 1, n), B)
  BY <1>1, CodesKnown, KnownSubSeq
<1>3. Known(<<header>> \o SubSeq(Codes(header, vectors), 1, n), B)
  BY <1>2, KnownOne, KnownConcat
<1> QED BY <1>3, KnownEmpty, ImageKnown DEF Written

LEMMA PadKnown == ASSUME NEW B, NEW pad \in Embeddings PROVE Known(pad, B)
<1>1. Pad.tag # "checksum"
  BY WordTags DEF Pad
<1> QED BY <1>1, KnownEmpty, KnownOne DEF Embeddings

\* A verified region of known words is an image.
LEMMA VerifiedRegion ==
  ASSUME NEW B, NEW cells, Known(cells, B), Opens(cells, TRUE)
  PROVE  cells \in B
<1> DEFINE n == Len(cells)
           w == cells[n]
<1>1. n \in Nat /\ n >= 2 /\ n = LayoutBytes(Rows(cells))
  BY KnownElement DEF Opens, StructureValid
<1>2. w.tag = "checksum" /\ w = Checksum(SubSeq(cells, 1, n - 1))
  BY <1>1 DEF Opens, ChecksumValid
<1>3. w.about = SubSeq(cells, 1, n - 1)
  <2> DEFINE content == SubSeq(cells, 1, n - 1)
  <2>1. w = Checksum(content)
    BY <1>2
  <2> HIDE DEF content, w
  <2>2. w.about = content
    BY <2>1, WordTags DEF Checksum
  <2> QED BY <2>2 DEF content
<1>4. Append(w.about, w) \in B
  BY <1>1, <1>2, KnownElement
<1>5. PICK S : cells \in Seq(S)
  BY DEF Known
<1>6. Append(SubSeq(cells, 1, n - 1), w) = cells
  <2>1. SubSeq(cells, 1, n - 1) \in Seq(S) /\ w \in S
    BY <1>1, <1>5
  <2>2. Append(SubSeq(cells, 1, n - 1), w) = SubSeq(cells, 1, n - 1) \o <<w>>
    BY <2>1, AppendIsConcat
  <2>3. SubSeq(cells, 1, n) = SubSeq(cells, 1, n - 1) \o <<w>>
    BY <1>1, <1>5, SubSeqRecursiveSecond
  <2> QED BY <2>2, <2>3, <1>5, SubSeqFull
<1> QED BY <1>3, <1>4, <1>6

-----------------------------------------------------------------------------
LEMMA InitInv == SidecarInit => Inv
<1>1. IsSequence(<<>>)
  <2>1. <<>> \in Seq({})
    OBVIOUS
  <2> QED BY <2>1 DEF IsSequence
<1> QED BY <1>1, KnownEmpty DEF SidecarInit, Inv, DiskOK, SavingOK, NotSaving, NotMapped, VerifiedIsWhole

\* The vectors may change while nothing looks at the file.
LEMMA InsertStep == ASSUME Inv, NEW class \in Classes, Insert(class) PROVE Inv'
<1>1. IsSequence(index')
  <2> DEFINE v == [item |-> items + 1, class |-> class]
  <2>1. PICK S : index \in Seq(S)
    BY DEF Inv, IsSequence
  <2>2. index \in Seq(S \cup {v})
    BY <2>1, SeqMonotonic
  <2>3. Append(index, v) \in Seq(S \cup {v})
    BY <2>2, AppendProperties
  <2> QED BY <2>3 DEF IsSequence, Insert
<1> QED BY <1>1 DEF Inv, Insert, DiskOK, SavingOK, VerifiedIsWhole

LEMMA CompactStep == ASSUME Inv, NEW id \in DOMAIN index, Compact(id) PROVE Inv'
<1>1. IsSequence(index')
  <2>1. PICK S : index \in Seq(S)
    BY DEF Inv, IsSequence
  <2>2. id \in 1..Len(index) /\ Len(index) \in Nat
    BY <2>1
  <2>3. SubSeq(index, 1, id - 1) \in Seq(S) /\ SubSeq(index, id + 1, Len(index)) \in Seq(S)
    BY <2>1, <2>2, ElementOfSeq, SubSeqProperties
  <2>4. index' \in Seq(S)
    BY <2>3, ConcatProperties DEF Compact
  <2> QED BY <2>4 DEF IsSequence
<1> QED BY <1>1 DEF Inv, Compact, DiskOK, SavingOK, VerifiedIsWhole

LEMMA SaveStep ==
  ASSUME Inv, NEW header, header.tag = "header", NEW pad \in Embeddings, Save(header, pad)
  PROVE  Inv'
<1>1. begun \subseteq begun' /\ (Accepts(header, index) => Image(header, index) \in begun')
  BY DEF Save
<1>2. Known(Written(header, index), begun')
  BY <1>1, WrittenKnown DEF Inv
<1>3. Known(saving'.plan, begun')
  <2>1. Known(pad, begun') /\ Known(<<>>, begun')
    BY PadKnown, KnownEmpty
  <2>2. Known(pad \o Written(header, index), begun')
    BY <1>2, <2>1, KnownConcat
  <2>3. saving'.plan = pad \o Written(header, index)
                         \o (IF Accepts(header, index) THEN pad ELSE <<>>)
    BY DEF Save
  <2> QED BY <2>1, <2>2, <2>3, KnownConcat
<1>4. SavingOK'
  BY <1>3 DEF Save, SavingOK
<1>5. DiskOK'
  <2>1. Known(disk.kept, begun')
    BY <1>1, KnownMonotonic DEF Inv, DiskOK
  <2>2. disk' = [cells |-> <<>>, synced |-> FALSE, kept |-> disk.kept]
    BY DEF Save, Inv, DiskOK
  <2> QED BY <2>1, <2>2, KnownEmpty DEF DiskOK
<1> QED BY <1>4, <1>5 DEF Inv, Save, VerifiedIsWhole

LEMMA WriteNextStep == ASSUME Inv, WriteNext PROVE Inv'
<1> DEFINE w == saving.plan[saving.at + 1]
<1>1. saving.at + 1 \in 1..Len(saving.plan)
  BY KnownElement DEF Inv, SavingOK, WriteNext
<1>2. w.tag = "checksum" => Append(w.about, w) \in begun
  BY <1>1, KnownElement DEF Inv, SavingOK
<1>3. Known(Append(disk.cells, w), begun)
  BY <1>2, KnownAppend DEF Inv, DiskOK
<1>4. disk' = [cells |-> Append(disk.cells, w), synced |-> disk.synced, kept |-> disk.kept]
  BY DEF WriteNext, Inv, DiskOK
<1>5. saving' = [on |-> saving.on, plan |-> saving.plan, at |-> saving.at + 1, ok |-> saving.ok]
  BY DEF WriteNext, Inv, SavingOK
<1>6. DiskOK'
  BY <1>3, <1>4 DEF DiskOK, Inv, WriteNext
<1>7. SavingOK'
  BY <1>5 DEF SavingOK, Inv, WriteNext
<1> QED BY <1>6, <1>7 DEF Inv, WriteNext, VerifiedIsWhole

LEMMA NotSavingOK == ASSUME NEW B PROVE Known(NotSaving.plan, B) /\ NotSaving.at \in Nat
BY KnownEmpty DEF NotSaving

LEMMA EndSaveStep == ASSUME Inv, EndSave PROVE Inv'
<1>1. SavingOK'
  BY NotSavingOK DEF EndSave, SavingOK, NotSaving
<1>2. DiskOK'
  BY DEF EndSave, DiskOK, Inv
<1> QED BY <1>1, <1>2 DEF Inv, EndSave, VerifiedIsWhole

LEMMA CutSaveStep == ASSUME Inv, CutSave PROVE Inv'
<1>1. SavingOK'
  BY NotSavingOK DEF CutSave, SavingOK, NotSaving
<1> QED BY <1>1 DEF Inv, CutSave, DiskOK, VerifiedIsWhole

\* What is lost turns into zeros, and a zero is no checksum.
LEMMA SurvivalsKnown ==
  ASSUME Inv, NEW cells \in Survivals PROVE Known(cells, begun)
<1>1. CASE cells = disk.kept
  BY <1>1 DEF Inv, DiskOK
<1>2. CASE cells # disk.kept
  <2> DEFINE Left(n, holes) == [k \in 1..n |-> IF k \in holes THEN Zero ELSE disk.cells[k]]
             Few(n) == {h \in SUBSET (1..n) : Cardinality(h) <= MaxHoles}
  <2>0. cells \in UNION {{Left(n, holes) : holes \in Few(n)} : n \in 0..Len(disk.cells)}
    BY <1>2 DEF Survivals
  <2>1. PICK n \in 0..Len(disk.cells) : \E holes \in Few(n) : cells = Left(n, holes)
    BY <2>0
  <2>2. PICK S : disk.cells \in Seq(S) /\ Sound(S, begun)
    BY DEF Inv, DiskOK, Known
  <2>3. n \in Nat /\ \A k \in 1..n : disk.cells[k] \in S
    BY <2>2
  <2>4. cells \in [1..n -> S \cup {Zero}]
    <3>1. PICK holes \in Few(n) : cells = Left(n, holes)
      BY <2>1
    <3> QED BY <2>3, <3>1
  <2>5. cells \in Seq(S \cup {Zero})
    BY <2>3, <2>4, SeqDef
  <2>6. Sound(S \cup {Zero}, begun)
    BY <2>2, WordTags DEF Sound, Zero
  <2> QED BY <2>5, <2>6 DEF Known
<1> QED BY <1>1, <1>2

LEMMA PowerLossStep == ASSUME Inv, PowerLoss PROVE Inv'
<1>1. SavingOK'
  BY NotSavingOK DEF PowerLoss, SavingOK, NotSaving
<1>2. DiskOK'
  BY SurvivalsKnown DEF PowerLoss, DiskOK
<1> QED BY <1>1, <1>2 DEF Inv, PowerLoss, VerifiedIsWhole, NotMapped

LEMMA OpenMmapStep ==
  ASSUME Inv, NEW off \in Nat, NEW length \in Nat, NEW verify \in BOOLEAN,
         OpenMmap(off, length, verify)
  PROVE  Inv'
<1>1. Known(Region(off, length), begun)
  <2>1. Known(disk.cells, begun) /\ off + length <= Len(disk.cells)
    BY DEF Inv, DiskOK, OpenMmap, RegionFits
  <2>2. off + 1 \in Int /\ off + length \in Int /\ 1 <= off + 1
    OBVIOUS
  <2> DEFINE first == off + 1
             last == off + length
  <2> HIDE DEF first, last
  <2>3. Known(SubSeq(disk.cells, first, last), begun)
    BY <2>1, <2>2, KnownSubSeq DEF first, last
  <2> QED BY <2>3 DEF Region, first, last
<1>2. VerifiedIsWhole'
  <2>1. mapped' = [on |-> TRUE, cells |-> Region(off, length), verified |-> verify]
    BY DEF OpenMmap
  <2>2. verify => Region(off, length) \in begun
    BY <1>1, VerifiedRegion DEF OpenMmap
  <2> QED BY <2>1, <2>2 DEF VerifiedIsWhole, OpenMmap
<1> QED BY <1>2 DEF Inv, OpenMmap, DiskOK, SavingOK

LEMMA UnmapStep == ASSUME Inv, Unmap PROVE Inv'
BY DEF Inv, Unmap, DiskOK, SavingOK, VerifiedIsWhole, NotMapped

LEMMA PairStep == ASSUME Inv, Pair \/ Unpair \/ UNCHANGED sidecarVars PROVE Inv'
BY DEF Inv, Pair, Unpair, sidecarVars, DiskOK, SavingOK, VerifiedIsWhole

\* VerifiedIsWhole, for every number of rows, saves, interruptions and lost
\* words: what open_mmap_verified accepts is the whole image of one save.
THEOREM VerifiedTheorem == SidecarSpec => []VerifiedIsWhole
<1>1. Inv /\ [SidecarNext]_sidecarVars => Inv'
  <2> SUFFICES ASSUME Inv, [SidecarNext]_sidecarVars PROVE Inv'
    OBVIOUS
  <2>1. CASE \E class \in Classes : Insert(class)
    BY <2>1, InsertStep
  <2>2. CASE \E id \in DOMAIN index : Compact(id)
    BY <2>2, CompactStep
  <2>3. CASE \E metric \in Metrics, width \in Widths, seed \in Seeds, length \in Lengths,
                pad \in Embeddings :
               Save(Header(metric, width, seed, length, Len(index)), pad)
    BY <2>3, SaveStep DEF Header
  <2>4. CASE WriteNext
    BY <2>4, WriteNextStep
  <2>5. CASE EndSave
    BY <2>5, EndSaveStep
  <2>6. CASE CutSave
    BY <2>6, CutSaveStep
  <2>7. CASE PowerLoss
    BY <2>7, PowerLossStep
  <2>8. CASE \E off \in 0..Len(disk.cells) : \E length \in 0..(Len(disk.cells) - off),
                verify \in BOOLEAN : OpenMmap(off, length, verify)
    BY <2>8, OpenMmapStep
  <2>9. CASE Unmap
    BY <2>9, UnmapStep
  <2>10. CASE Pair \/ Unpair \/ UNCHANGED sidecarVars
    BY <2>10, PairStep
  <2> QED BY <2>1, <2>2, <2>3, <2>4, <2>5, <2>6, <2>7, <2>8, <2>9, <2>10 DEF SidecarNext
<1>2. Inv => VerifiedIsWhole
  BY DEF Inv
<1> QED BY InitInv, <1>1, <1>2, PTL DEF SidecarSpec

-----------------------------------------------------------------------------
\* Where the words of an image are.

LEMMA Joined ==
  ASSUME NEW a, NEW b, IsSequence(a), IsSequence(b)
  PROVE  /\ IsSequence(a \o b)
         /\ Len(a) \in Nat /\ Len(b) \in Nat
         /\ Len(a \o b) = Len(a) + Len(b)
         /\ \A k \in 1..Len(a) : (a \o b)[k] = a[k]
         /\ \A k \in 1..Len(b) : (a \o b)[Len(a) + k] = b[k]
<1>1. PICK S : a \in Seq(S)
  BY DEF IsSequence
<1>2. PICK T : b \in Seq(T)
  BY DEF IsSequence
<1>3. a \in Seq(S \cup T) /\ b \in Seq(S \cup T)
  BY <1>1, <1>2, SeqMonotonic
<1>4. a \o b \in Seq(S \cup T)
  BY <1>3, ConcatProperties
<1>5. IsSequence(a \o b)
  BY <1>4 DEF IsSequence
<1>6. Len(a) \in Nat /\ Len(b) \in Nat /\ Len(a \o b) = Len(a) + Len(b)
  BY <1>3
<1>7. \A k \in 1..Len(a) : (a \o b)[k] = a[k]
  BY <1>3
<1>8. \A k \in 1..Len(b) : (a \o b)[Len(a) + k] = b[k]
  BY <1>3
<1> QED BY <1>5, <1>6, <1>7, <1>8

JoinOf(c, a, b) ==
  /\ IsSequence(c) /\ Len(a) \in Nat /\ Len(b) \in Nat /\ Len(c) = Len(a) + Len(b)
  /\ \A k \in 1..Len(a) : c[k] = a[k]
  /\ \A k \in 1..Len(b) : c[Len(a) + k] = b[k]

LEMMA JoinedParts ==
  ASSUME NEW a, NEW b, IsSequence(a), IsSequence(b)
  PROVE  JoinOf(a \o b, a, b)
BY Joined DEF JoinOf

LEMMA Single == ASSUME NEW w PROVE IsSequence(<<w>>) /\ Len(<<w>>) = 1 /\ <<w>>[1] = w
<1>1. <<w>> \in Seq({w})
  OBVIOUS
<1> QED BY <1>1 DEF IsSequence

LEMMA NoWords == IsSequence(<<>>) /\ Len(<<>>) = 0
<1>1. <<>> \in Seq({})
  OBVIOUS
<1> QED BY <1>1 DEF IsSequence

LEMMA Extended ==
  ASSUME NEW a, NEW w, IsSequence(a)
  PROVE  /\ IsSequence(Append(a, w))
         /\ Len(Append(a, w)) = Len(a) + 1
         /\ \A k \in 1..Len(a) : Append(a, w)[k] = a[k]
         /\ Append(a, w)[Len(a) + 1] = w
<1>1. PICK S : a \in Seq(S)
  BY DEF IsSequence
<1>2. a \in Seq(S \cup {w}) /\ w \in S \cup {w}
  BY <1>1, SeqMonotonic
<1>3. Append(a, w) \in Seq(S \cup {w})
  BY <1>2, AppendProperties
<1> QED BY <1>2, <1>3 DEF IsSequence

LEMMA CodesSequence ==
  ASSUME NEW header, NEW vectors, IsSequence(vectors)
  PROVE  /\ IsSequence(Codes(header, vectors)) /\ IsSequence(Scales(header, vectors))
         /\ Len(vectors) \in Nat
         /\ Len(Codes(header, vectors)) = Len(vectors) /\ Len(Scales(header, vectors)) = Len(vectors)
         /\ \A k \in 1..Len(vectors) :
              /\ Codes(header, vectors)[k] =
                   Code(header.metric, header.config[1], header.config[2], vectors[k])
              /\ Scales(header, vectors)[k] = Word("scale", <<Scale(header.metric, vectors[k])>>)
<1>1. Len(vectors) \in Nat /\ DOMAIN vectors = 1..Len(vectors)
  BY DEF IsSequence
<1>2. IsSequence(Codes(header, vectors)) /\ IsSequence(Scales(header, vectors))
  BY CodesKnown DEF Known, IsSequence
<1>3. Len(Codes(header, vectors)) = Len(vectors) /\ Len(Scales(header, vectors)) = Len(vectors)
  BY <1>1 DEF Codes, Scales
<1> QED BY <1>1, <1>2, <1>3 DEF Codes, Scales

\* The header, the codes, the scales and the checksum, in this order.
Laid(image, header, vectors, n) ==
  /\ n \in Nat
  /\ IsSequence(image) /\ Len(image) = 2 + 2 * n
  /\ image[1] = header
  /\ \A k \in 1..n :
       /\ image[1 + k] = Code(header.metric, header.config[1], header.config[2], vectors[k])
       /\ image[1 + n + k] = Word("scale", <<Scale(header.metric, vectors[k])>>)
  /\ image[2 + 2 * n] = Checksum(Hashed(header, vectors))
  /\ IsSequence(Hashed(header, vectors)) /\ Len(Hashed(header, vectors)) = 1 + 2 * n
  /\ \A k \in 1..(1 + 2 * n) : image[k] = Hashed(header, vectors)[k]

LEMMA ImageWords ==
  ASSUME NEW header, NEW vectors, IsSequence(vectors)
  PROVE  Laid(Image(header, vectors), header, vectors, Len(vectors))
<1> DEFINE n == Len(vectors)
<1>a. n = Len(vectors)
  OBVIOUS
<1> HIDE DEF n
<1> DEFINE codeWords == Codes(header, vectors)
           scales == Scales(header, vectors)
           front == <<header>> \o codeWords
           all == front \o scales
           word == Checksum(Hashed(header, vectors))
<1>0. /\ IsSequence(codeWords) /\ IsSequence(scales) /\ n \in Nat /\ Len(codeWords) = n /\ Len(scales) = n
      /\ IsSequence(<<header>>) /\ Len(<<header>>) = 1 /\ <<header>>[1] = header
  BY <1>a, CodesSequence, Single
<1>1. /\ all = Hashed(header, vectors) /\ Image(header, vectors) = Append(all, word)
      /\ word = Checksum(Hashed(header, vectors))
  BY DEF Hashed, Image
<1>2. \A k \in 1..n :
        /\ codeWords[k] = Code(header.metric, header.config[1], header.config[2], vectors[k])
        /\ scales[k] = Word("scale", <<Scale(header.metric, vectors[k])>>)
  BY <1>a, CodesSequence
<1> HIDE DEF codeWords, scales, word
<1>3. IsSequence(front) /\ Len(front) = 1 + n /\ front[1] = header /\ \A k \in 1..n : front[1 + k] = codeWords[k]
  <2>1. /\ IsSequence(front) /\ Len(front) = 1 + n
        /\ \A k \in 1..1 : front[k] = <<header>>[k]
        /\ \A k \in 1..n : front[1 + k] = codeWords[k]
    <3>1. JoinOf(front, <<header>>, codeWords)
      BY <1>0, JoinedParts
    <3> HIDE DEF front
    <3> QED BY <1>0, <3>1 DEF JoinOf
  <2>2. front[1] = <<header>>[1]
    BY <2>1
  <2> HIDE DEF front
  <2> QED BY <1>0, <2>1, <2>2
<1> HIDE DEF front
<1>4. /\ IsSequence(all) /\ Len(all) = 1 + n + n
      /\ \A k \in 1..(1 + n) : all[k] = front[k]
      /\ \A k \in 1..n : all[1 + n + k] = scales[k]
  <2>1. /\ IsSequence(all) /\ Len(all) = Len(front) + Len(scales)
        /\ \A k \in 1..Len(front) : all[k] = front[k]
        /\ \A k \in 1..Len(scales) : all[Len(front) + k] = scales[k]
    <3>1. JoinOf(all, front, scales)
      BY <1>0, <1>3, JoinedParts
    <3> HIDE DEF all
    <3> QED BY <3>1 DEF JoinOf
  <2> QED BY <2>1, <1>0, <1>3
<1> HIDE DEF all
<1>5. /\ IsSequence(Append(all, word)) /\ Len(Append(all, word)) = 2 + 2 * n
      /\ \A k \in 1..(1 + 2 * n) : Append(all, word)[k] = all[k]
      /\ Append(all, word)[2 + 2 * n] = word
  <2>1. /\ IsSequence(Append(all, word)) /\ Len(Append(all, word)) = Len(all) + 1
        /\ \A k \in 1..Len(all) : Append(all, word)[k] = all[k]
        /\ Append(all, word)[Len(all) + 1] = word
    BY <1>4, Extended
  <2>2. Len(all) = 1 + 2 * n /\ Len(all) + 1 = 2 + 2 * n
    BY <1>0, <1>4
  <2> QED BY <2>1, <2>2
<1>6. \A k \in 1..n :
        /\ 1 + k \in 1..(1 + 2 * n) /\ 1 + k \in 1..(1 + n)
        /\ 1 + n + k \in 1..(1 + 2 * n)
  BY <1>0
<1>7. \A k \in 1..n : Append(all, word)[1 + k] = codeWords[k] /\ Append(all, word)[1 + n + k] = scales[k]
  BY <1>3, <1>4, <1>5, <1>6
<1>8. Append(all, word)[1] = header
  BY <1>0, <1>3, <1>4, <1>5
<1>9. \A k \in 1..n :
        /\ Append(all, word)[1 + k] = Code(header.metric, header.config[1], header.config[2], vectors[k])
        /\ Append(all, word)[1 + n + k] = Word("scale", <<Scale(header.metric, vectors[k])>>)
  BY <1>2, <1>7
<1>10. Len(all) = 1 + 2 * n
  BY <1>0, <1>4
<1>11. Laid(Append(all, word), header, vectors, n)
  BY <1>0, <1>1, <1>4, <1>5, <1>8, <1>9, <1>10 DEF Laid
<1> QED BY <1>a, <1>1, <1>11

LEMMA CodeWord ==
  ASSUME NEW metric, NEW width, NEW seed, NEW vector
  PROVE  /\ Code(metric, width, seed, vector).tag = "code"
         /\ Code(metric, width, seed, vector).about = <<vector.item, metric, width, seed>>
BY WordTags DEF Code

LEMMA OneHeader ==
  ASSUME NEW header, NEW vectors, IsSequence(vectors)
  PROVE  \A k \in 2..Len(Image(header, vectors)) : Image(header, vectors)[k].tag # "header"
<1> DEFINE n == Len(vectors)
           image == Image(header, vectors)
<1>0. Laid(image, header, vectors, n)
  BY ImageWords
<1> HIDE DEF n, image
<1>1. /\ n \in Nat /\ Len(image) = 2 + 2 * n
      /\ \A k \in 1..n : image[1 + k].tag = "code" /\ image[1 + n + k].tag = "scale"
      /\ image[2 + 2 * n].tag = "checksum"
  <2>1. n \in Nat /\ Len(image) = 2 + 2 * n
    BY <1>0 DEF Laid
  <2>2. ASSUME NEW k \in 1..n PROVE image[1 + k].tag = "code" /\ image[1 + n + k].tag = "scale"
    <3>1. /\ image[1 + k] = Code(header.metric, header.config[1], header.config[2], vectors[k])
          /\ image[1 + n + k] = Word("scale", <<Scale(header.metric, vectors[k])>>)
      BY <1>0 DEF Laid
    <3>2. Code(header.metric, header.config[1], header.config[2], vectors[k]).tag = "code"
      BY CodeWord
    <3>3. Word("scale", <<Scale(header.metric, vectors[k])>>).tag = "scale"
      BY DEF Word
    <3> QED BY <3>1, <3>2, <3>3
  <2>3. image[2 + 2 * n].tag = "checksum"
    BY <1>0, WordTags DEF Laid, Checksum
  <2> QED BY <2>1, <2>2, <2>3
<1> SUFFICES ASSUME NEW k \in 2..(2 + 2 * n) PROVE image[k].tag # "header"
  BY <1>1 DEF image
<1>2. CASE k <= 1 + n
  <2>1. k - 1 \in 1..n /\ 1 + (k - 1) = k
    BY <1>1, <1>2
  <2> QED BY <1>1, <2>1
<1>3. CASE 1 + n < k /\ k <= 1 + 2 * n
  <2>1. k - 1 - n \in 1..n /\ 1 + n + (k - 1 - n) = k
    BY <1>1, <1>3
  <2> QED BY <1>1, <2>1
<1>4. CASE k = 2 + 2 * n
  BY <1>1, <1>4
<1> QED BY <1>1, <1>2, <1>3, <1>4

-----------------------------------------------------------------------------
\* A header that is found in a file, wherever it is, is followed by the words
\* of one save's image or by too little: `spoiled` are the words that may
\* stand in the place of a lost one.

Aligned(cells, B, spoiled) ==
  \A i \in 1..Len(cells) : cells[i].tag = "header" =>
    \/ LayoutBytes(cells[i].rows) \notin 0..(Len(cells) - (i - 1))
    \/ \E image \in B :
         /\ Len(image) = LayoutBytes(cells[i].rows) /\ image[1] = cells[i]
         /\ \A j \in 1..Len(image) :
              i + j - 1 <= Len(cells) => cells[i + j - 1] \in {image[j]} \cup spoiled

LEMMA AlignedEmpty == ASSUME NEW B, NEW Z PROVE Aligned(<<>>, B, Z)
BY NoWords DEF Aligned

LEMMA AlignedMonotonic ==
  ASSUME NEW B, NEW C, B \subseteq C, NEW Y, NEW Z, Y \subseteq Z, NEW cells, Aligned(cells, B, Y)
  PROVE  Aligned(cells, C, Z)
<1> SUFFICES ASSUME NEW i \in 1..Len(cells), cells[i].tag = "header",
                    LayoutBytes(cells[i].rows) \in 0..(Len(cells) - (i - 1))
             PROVE  \E image \in C :
                      /\ Len(image) = LayoutBytes(cells[i].rows) /\ image[1] = cells[i]
                      /\ \A j \in 1..Len(image) :
                           i + j - 1 <= Len(cells) => cells[i + j - 1] \in {image[j]} \cup Z
  BY DEF Aligned
<1>1. PICK image \in B :
         /\ Len(image) = LayoutBytes(cells[i].rows) /\ image[1] = cells[i]
         /\ \A j \in 1..Len(image) :
              i + j - 1 <= Len(cells) => cells[i + j - 1] \in {image[j]} \cup Y
  BY DEF Aligned
<1> QED BY <1>1

\* What is left of a file is its beginning, with some words spoiled.
LEMMA AlignedBeginning ==
  ASSUME NEW B, NEW Y, NEW Z, Y \subseteq Z, \A z \in Z : z.tag # "header",
         NEW cells, Len(cells) \in Nat, Aligned(cells, B, Y),
         NEW left, Len(left) \in Nat, Len(left) <= Len(cells),
         \A k \in 1..Len(left) : left[k] \in {cells[k]} \cup Z
  PROVE  Aligned(left, B, Z)
<1> SUFFICES ASSUME NEW i \in 1..Len(left), left[i].tag = "header",
                    LayoutBytes(left[i].rows) \in 0..(Len(left) - (i - 1))
             PROVE  \E image \in B :
                      /\ Len(image) = LayoutBytes(left[i].rows) /\ image[1] = left[i]
                      /\ \A j \in 1..Len(image) :
                           i + j - 1 <= Len(left) => left[i + j - 1] \in {image[j]} \cup Z
  BY DEF Aligned
<1>1. left[i] = cells[i] /\ i \in 1..Len(cells)
  OBVIOUS
<1> DEFINE L == LayoutBytes(cells[i].rows)
<1>2. L \in 0..(Len(cells) - (i - 1))
  <2>1. L \in 0..(Len(left) - (i - 1))
    BY <1>1
  <2> HIDE DEF L
  <2> QED BY <2>1
<1>3. PICK image \in B :
         /\ Len(image) = L /\ image[1] = cells[i]
         /\ \A j \in 1..Len(image) :
              i + j - 1 <= Len(cells) => cells[i + j - 1] \in {image[j]} \cup Y
  BY <1>1, <1>2 DEF Aligned
<1>4. ASSUME NEW j \in 1..Len(image), i + j - 1 <= Len(left)
      PROVE  left[i + j - 1] \in {image[j]} \cup Z
  <2>1. i + j - 1 \in 1..Len(left) /\ i + j - 1 <= Len(cells)
    BY <1>4
  <2>2. cells[i + j - 1] \in {image[j]} \cup Z
    BY <1>3, <2>1
  <2> QED BY <2>1, <2>2
<1> QED BY <1>1, <1>3, <1>4

\* A region that has the structure of a sidecar is the image of a save.

CutFrom(region, cells, off, length) ==
  Len(region) = length /\ \A k \in 1..length : region[k] = cells[off + k]

OneOf(region, B, spoiled, length) ==
  \E image \in B :
    /\ Len(image) = length /\ image[1] = region[1]
    /\ \A k \in 1..length : region[k] \in {image[k]} \cup spoiled

LEMMA AlignedRegion ==
  ASSUME NEW B, NEW Z, NEW cells, Len(cells) \in Nat, Aligned(cells, B, Z),
         NEW off \in Nat, NEW length \in Nat, off + length <= Len(cells),
         NEW region, CutFrom(region, cells, off, length), StructureValid(region)
  PROVE  OneOf(region, B, Z, length)
<1>0. Len(region) = length /\ \A k \in 1..length : region[k] = cells[off + k]
  BY DEF CutFrom
<1>1. 2 <= length
  BY <1>0 DEF StructureValid
<1>2. region[1].tag = "header" /\ length = LayoutBytes(region[1].rows)
  BY <1>0 DEF StructureValid, Rows
<1>3. region[1] = cells[off + 1]
  BY <1>0, <1>1
<1>4. off + 1 \in 1..Len(cells) /\ length \in 0..(Len(cells) - (off + 1 - 1))
  BY <1>1
<1>5. PICK image \in B :
         /\ Len(image) = length /\ image[1] = cells[off + 1]
         /\ \A j \in 1..length :
              off + 1 + j - 1 <= Len(cells) =>
                cells[off + 1 + j - 1] \in {image[j]} \cup Z
  BY <1>2, <1>3, <1>4 DEF Aligned
<1>6. \A k \in 1..length : off + 1 + k - 1 = off + k /\ off + 1 + k - 1 <= Len(cells)
  OBVIOUS
<1> QED BY <1>0, <1>3, <1>5, <1>6 DEF OneOf

\* What one save puts between the words of the application.

Bare(s) == IsSequence(s) /\ \A k \in 1..Len(s) : s[k].tag # "header"
Headed(s) == IsSequence(s) /\ \A k \in 2..Len(s) : s[k].tag # "header"

Holds(all, a, m, b) ==
  /\ IsSequence(all) /\ Len(a) \in Nat /\ Len(m) \in Nat /\ Len(b) \in Nat
  /\ Len(all) = Len(a) + Len(m) + Len(b)
  /\ \A j \in 1..Len(m) : all[Len(a) + j] = m[j]
  /\ \A i \in 1..Len(all) : all[i].tag = "header" => i = Len(a) + 1

LEMMA InTheMiddle ==
  ASSUME NEW a, NEW m, NEW b, Bare(a), Headed(m), Bare(b)
  PROVE  Holds(a \o m \o b, a, m, b)
<1> DEFINE front == a \o m
           all == front \o b
<1>0. IsSequence(a) /\ IsSequence(m) /\ IsSequence(b)
  BY DEF Bare, Headed
<1>1. /\ IsSequence(front) /\ Len(a) \in Nat /\ Len(m) \in Nat /\ Len(front) = Len(a) + Len(m)
      /\ \A k \in 1..Len(a) : front[k] = a[k]
      /\ \A k \in 1..Len(m) : front[Len(a) + k] = m[k]
  <2>1. JoinOf(front, a, m)
    BY <1>0, JoinedParts
  <2> HIDE DEF front
  <2> QED BY <2>1 DEF JoinOf
<1> HIDE DEF front
<1>2. /\ IsSequence(all) /\ Len(b) \in Nat /\ Len(all) = Len(front) + Len(b)
      /\ \A k \in 1..Len(front) : all[k] = front[k]
      /\ \A k \in 1..Len(b) : all[Len(front) + k] = b[k]
  <2>1. JoinOf(all, front, b)
    BY <1>0, <1>1, JoinedParts
  <2> HIDE DEF all
  <2> QED BY <2>1 DEF JoinOf
<1> HIDE DEF all
<1>3. \A j \in 1..Len(m) : Len(a) + j \in 1..Len(front)
  BY <1>1
<1>4. ASSUME NEW i \in 1..Len(all), i # Len(a) + 1 PROVE all[i].tag # "header"
  <2>1. CASE i <= Len(a)
    <3>1. i \in 1..Len(a) /\ i \in 1..Len(front)
      BY <1>1, <2>1
    <3> QED BY <1>1, <1>2, <3>1 DEF Bare
  <2>2. CASE Len(a) < i /\ i <= Len(front)
    <3>1. i - Len(a) \in 2..Len(m) /\ Len(a) + (i - Len(a)) = i
      BY <1>1, <1>4, <2>2
    <3>2. all[i] = front[i] /\ front[i] = m[i - Len(a)]
      BY <1>1, <1>2, <2>2, <3>1
    <3> QED BY <3>1, <3>2 DEF Headed
  <2>3. CASE Len(front) < i
    <3>1. i - Len(front) \in 1..Len(b) /\ Len(front) + (i - Len(front)) = i
      BY <1>1, <1>2, <2>3
    <3> QED BY <1>2, <3>1 DEF Bare
  <2> QED BY <1>1, <1>2, <2>1, <2>2, <2>3
<1>5. Holds(all, a, m, b)
  BY <1>1, <1>2, <1>3, <1>4 DEF Holds
<1> QED BY <1>5 DEF all, front

LEMMA EmptyBare == Bare(<<>>) /\ Headed(<<>>)
BY NoWords DEF Bare, Headed

\* The pad is no header.
LEMMA Padding ==
  ASSUME NEW pad \in Embeddings
  PROVE  Bare(pad)
<1>1. CASE pad = <<>>
  BY <1>1, EmptyBare
<1>2. CASE pad = <<Pad>>
  <2>1. Pad.tag # "header"
    BY WordTags DEF Pad
  <2> QED BY <1>2, <2>1, Single DEF Bare
<1> QED BY <1>1, <1>2 DEF Embeddings

\* A whole image between words that are no headers.
LEMMA ImageAligned ==
  ASSUME NEW B, NEW header, NEW vectors, IsSequence(vectors), header.rows = Len(vectors),
         Image(header, vectors) \in B, NEW a, NEW b, Bare(a), Bare(b)
  PROVE  Aligned(a \o Image(header, vectors) \o b, B, {})
<1> DEFINE image == Image(header, vectors)
           all == a \o image \o b
<1>1. Laid(image, header, vectors, Len(vectors)) /\ \A k \in 2..Len(image) : image[k].tag # "header"
  BY ImageWords, OneHeader
<1> HIDE DEF image
<1>2. /\ IsSequence(image) /\ Len(image) = LayoutBytes(header.rows) /\ image[1] = header
      /\ Len(image) = 2 + 2 * Len(vectors) /\ Len(vectors) \in Nat
  BY <1>1 DEF Laid, LayoutBytes
<1>3. Holds(all, a, image, b)
  BY <1>1, <1>2, InTheMiddle DEF Headed
<1> HIDE DEF all
<1>4. 1 \in 1..Len(image)
  BY <1>2
<1>5. all[Len(a) + 1] = header /\ Len(a) \in Nat
  BY <1>2, <1>3, <1>4 DEF Holds
<1>6. \A j \in 1..Len(image) : Len(a) + 1 + j - 1 = Len(a) + j
  BY <1>5
<1>7. image \in B
  BY DEF image
<1>8. ASSUME NEW i \in 1..Len(all), all[i].tag = "header"
      PROVE  /\ Len(image) = LayoutBytes(all[i].rows) /\ image[1] = all[i]
             /\ \A j \in 1..Len(image) : all[i + j - 1] = image[j]
  <2>1. i = Len(a) + 1
    BY <1>3, <1>8 DEF Holds
  <2>2. \A j \in 1..Len(image) : all[i + j - 1] = image[j]
    BY <1>3, <1>6, <2>1 DEF Holds
  <2> QED BY <1>2, <1>5, <2>1, <2>2
<1>9. Aligned(all, B, {})
  BY <1>7, <1>8 DEF Aligned
<1> QED BY <1>9 DEF all, image

\* The header and some codes, all that an error leaves: too short for an image.
LEMMA PartAligned ==
  ASSUME NEW B, NEW header, NEW vectors, IsSequence(vectors), header.rows = Len(vectors),
         NEW n \in 0..Len(vectors), NEW a, Bare(a)
  PROVE  Aligned(a \o (<<header>> \o SubSeq(Codes(header, vectors), 1, n)) \o <<>>, B, {})
<1> DEFINE codeWords == Codes(header, vectors)
           short == SubSeq(codeWords, 1, n)
           top == <<header>>
           part == top \o short
           all == a \o part \o <<>>
<1>1. /\ Len(vectors) \in Nat /\ IsSequence(codeWords) /\ Len(codeWords) = Len(vectors)
      /\ \A k \in 1..Len(vectors) :
           codeWords[k] = Code(header.metric, header.config[1], header.config[2], vectors[k])
  BY CodesSequence
<1> HIDE DEF codeWords
<1>2. \A k \in 1..Len(vectors) : codeWords[k].tag # "header"
  <2> SUFFICES ASSUME NEW k \in 1..Len(vectors) PROVE codeWords[k].tag # "header"
    OBVIOUS
  <2>1. codeWords[k] = Code(header.metric, header.config[1], header.config[2], vectors[k])
    BY <1>1
  <2> QED BY <2>1, CodeWord
<1>3. IsSequence(short) /\ Len(short) = n /\ \A k \in 1..n : short[k] = codeWords[k]
  <2>1. PICK S : codeWords \in Seq(S)
    BY <1>1 DEF IsSequence
  <2>2. short \in Seq(S) /\ Len(short) = n /\ \A k \in 1..n : short[k] = codeWords[k]
    BY <1>1, <2>1
  <2> QED BY <2>2 DEF IsSequence
<1>4. IsSequence(top) /\ Len(top) = 1 /\ top[1] = header
  BY Single
<1> HIDE DEF short, top
<1>5. /\ IsSequence(part) /\ Len(part) = 1 + n
      /\ part[1] = header
      /\ \A k \in 1..n : part[1 + k] = short[k]
  <2>1. /\ IsSequence(part) /\ Len(part) = Len(top) + Len(short)
        /\ \A k \in 1..Len(top) : part[k] = top[k]
        /\ \A k \in 1..Len(short) : part[Len(top) + k] = short[k]
    <3>1. IsSequence(top) /\ IsSequence(short)
      BY <1>3, <1>4
    <3>2. JoinOf(part, top, short)
      BY <3>1, JoinedParts
    <3> HIDE DEF part
    <3> QED BY <3>2 DEF JoinOf
  <2> HIDE DEF part
  <2> QED BY <1>3, <1>4, <2>1
<1> HIDE DEF part
<1>6. \A k \in 2..(1 + n) : part[k].tag # "header"
  <2> SUFFICES ASSUME NEW k \in 2..(1 + n) PROVE part[k].tag # "header"
    OBVIOUS
  <2>1. k - 1 \in 1..n /\ 1 + (k - 1) = k /\ k - 1 \in 1..Len(vectors)
    BY <1>1
  <2>2. part[k] = codeWords[k - 1]
    BY <1>3, <1>5, <2>1
  <2> QED BY <1>2, <2>1, <2>2
<1>7. Holds(all, a, part, <<>>)
  BY <1>5, <1>6, EmptyBare, InTheMiddle DEF Headed
<1> HIDE DEF all
<1>8. /\ Len(a) \in Nat /\ Len(all) = Len(a) + 1 + n
      /\ \A i \in 1..Len(all) : all[i].tag = "header" => i = Len(a) + 1
  BY <1>5, <1>7, NoWords DEF Holds
<1>9. all[Len(a) + 1] = header
  BY <1>1, <1>5, <1>7 DEF Holds
<1>10. LayoutBytes(header.rows) \notin 0..(Len(all) - (Len(a) + 1 - 1))
  <2>1. LayoutBytes(header.rows) = 2 + 2 * Len(vectors)
    BY DEF LayoutBytes
  <2>2. Len(all) - (Len(a) + 1 - 1) = 1 + n
    BY <1>1, <1>8
  <2> QED BY <1>1, <2>1, <2>2
<1>11. Aligned(all, B, {})
  BY <1>8, <1>9, <1>10 DEF Aligned
<1> QED BY <1>11 DEF all, part, top, short, codeWords

LEMMA BareAligned == ASSUME NEW B, NEW a, Bare(a) PROVE Aligned(a \o <<>> \o <<>>, B, {})
<1> DEFINE all == a \o <<>> \o <<>>
<1>1. Holds(all, a, <<>>, <<>>)
  BY EmptyBare, InTheMiddle
<1> HIDE DEF all
<1>2. Len(all) = Len(a) /\ Len(a) \in Nat /\ \A i \in 1..Len(all) : all[i].tag # "header"
  BY <1>1, NoWords DEF Holds
<1>3. Aligned(all, B, {})
  BY <1>2 DEF Aligned
<1> QED BY <1>3 DEF all

\* What a save writes is aligned with its image, or too short for one.
LEMMA PlanAligned ==
  ASSUME NEW B, NEW header, NEW vectors, IsSequence(vectors), header.rows = Len(vectors),
         Accepts(header, vectors) => Image(header, vectors) \in B, NEW pad \in Embeddings
  PROVE  Aligned(pad \o Written(header, vectors)
                     \o (IF Accepts(header, vectors) THEN pad ELSE <<>>), B, {})
<1>1. Bare(pad) /\ Encoded(header, vectors) \in 0..Len(vectors)
  BY Padding, EncodedBounded
<1>2. CASE Accepts(header, vectors)
  <2>1. Written(header, vectors) = Image(header, vectors)
    BY <1>2 DEF Written
  <2>2. Aligned(pad \o Image(header, vectors) \o pad, B, {})
    BY <1>1, <1>2, ImageAligned
  <2> QED BY <1>2, <2>1, <2>2
<1>3. CASE ~Accepts(header, vectors) /\ ParametersValid(header.length, header.config[1])
  <2>1. Written(header, vectors) =
          <<header>> \o SubSeq(Codes(header, vectors), 1, Encoded(header, vectors))
    BY <1>3 DEF Written
  <2>2. Aligned(pad \o (<<header>> \o SubSeq(Codes(header, vectors), 1, Encoded(header, vectors)))
                    \o <<>>, B, {})
    BY <1>1, PartAligned
  <2> QED BY <1>3, <2>1, <2>2
<1>4. CASE ~Accepts(header, vectors) /\ ~ParametersValid(header.length, header.config[1])
  <2>1. Written(header, vectors) = <<>>
    BY <1>4 DEF Written
  <2>2. Aligned(pad \o <<>> \o <<>>, B, {})
    BY <1>1, BareAligned
  <2> QED BY <1>4, <2>1, <2>2
<1> QED BY <1>2, <1>3, <1>4

-----------------------------------------------------------------------------
\* The inductive invariant of what a file holds, a mapping shows and a
\* pairing pairs.

Spoiled == IF lost THEN {Zero} ELSE {}

SavedFrom(image, vectors) ==
  /\ IsSequence(vectors)
  /\ \E metric \in Metrics, width \in Widths, seed \in Seeds, length \in Lengths :
       image = Image(Header(metric, width, seed, length, Len(vectors)), vectors)

Begins(vectors, all) == Len(vectors) <= Len(all) /\ \A k \in 1..Len(vectors) : vectors[k] = all[k]

BegunOK == \A image \in begun : \E vectors : SavedFrom(image, vectors)
CurrentOK == \A image \in current : \E vectors : SavedFrom(image, vectors) /\ Begins(vectors, index)

\* As much of the plan is in the file as was written.
PlanOK ==
  saving.on =>
    /\ saving.at <= Len(saving.plan)
    /\ disk.cells = SubSeq(saving.plan, 1, saving.at)
    /\ Aligned(saving.plan, begun, {})
    /\ saving.ok => \E pad \in Embeddings, image \in begun : saving.plan = pad \o image \o pad

FileOK == Aligned(disk.cells, begun, Spoiled) /\ Aligned(disk.kept, begun, {Zero})

PairedOK == paired => mapped.on /\ mapped.cells[1].rows = Len(index)

FileInv ==
  /\ Inv
  /\ BegunOK /\ CurrentOK
  /\ PlanOK /\ FileOK
  /\ UnverifiedIsBounded
  /\ PairedOK

LEMMA ZeroWord == Zero.tag = "zero"
BY WordTags DEF Zero

LEMMA SavedWords ==
  ASSUME NEW image, NEW vectors, SavedFrom(image, vectors)
  PROVE  IsSequence(image) /\ Len(image) \in Nat /\ DOMAIN image = 1..Len(image)
<1>1. PICK metric \in Metrics, width \in Widths, seed \in Seeds, length \in Lengths :
        image = Image(Header(metric, width, seed, length, Len(vectors)), vectors)
  BY DEF SavedFrom
<1> DEFINE header == Header(metric, width, seed, length, Len(vectors))
<1>2. Laid(Image(header, vectors), header, vectors, Len(vectors))
  BY ImageWords DEF SavedFrom
<1> HIDE DEF header
<1>3. IsSequence(image)
  BY <1>1, <1>2 DEF Laid, header
<1> QED BY <1>3 DEF IsSequence

LEMMA InitFile == SidecarInit => FileInv
<1>1. SidecarInit => Inv
  BY InitInv
<1>2. \A B, Z : Aligned(<<>>, B, Z)
  BY AlignedEmpty
<1> QED BY <1>1, <1>2
     DEF SidecarInit, FileInv, BegunOK, CurrentOK, PlanOK, FileOK, UnverifiedIsBounded, PairedOK,
         NotSaving, NotMapped

LEMMA InsertFile == ASSUME FileInv, NEW class \in Classes, Insert(class) PROVE FileInv'
<1> DEFINE v == [item |-> items + 1, class |-> class]
<1>0. index' = Append(index, v) /\ UNCHANGED <<saves, disk, saving, mapped, paired, begun, lost, current>>
  BY DEF Insert
<1> HIDE DEF v
<1>1. Inv'
  BY InsertStep DEF FileInv
<1>2. CurrentOK'
  <2>1. IsSequence(index) /\ Len(index) \in Nat
    BY DEF FileInv, Inv, IsSequence
  <2>2. Len(index') = Len(index) + 1 /\ \A k \in 1..Len(index) : index'[k] = index[k]
    BY <1>0, <2>1, Extended
  <2>3. ASSUME NEW vectors, IsSequence(vectors), Begins(vectors, index) PROVE Begins(vectors, index')
    <3>1. Len(vectors) \in Nat /\ Len(vectors) <= Len(index)
      BY <2>3 DEF Begins, IsSequence
    <3>2. \A k \in 1..Len(vectors) : k \in 1..Len(index)
      BY <2>1, <3>1
    <3> QED BY <2>1, <2>2, <2>3, <3>1, <3>2 DEF Begins
  <2>4. \A image, vectors : SavedFrom(image, vectors) => IsSequence(vectors)
    BY DEF SavedFrom
  <2>5. \A image \in current : \E vectors : SavedFrom(image, vectors) /\ Begins(vectors, index')
    BY <2>3, <2>4 DEF FileInv, CurrentOK
  <2> QED BY <1>0, <2>5 DEF CurrentOK
<1>3. PairedOK'
  BY <1>0 DEF Insert, MayChange, PairedOK
<1>4. BegunOK' /\ PlanOK' /\ FileOK' /\ UnverifiedIsBounded'
  BY <1>0 DEF FileInv, BegunOK, PlanOK, FileOK, Spoiled, UnverifiedIsBounded
<1> QED BY <1>1, <1>2, <1>3, <1>4 DEF FileInv

LEMMA CompactFile == ASSUME FileInv, NEW id \in DOMAIN index, Compact(id) PROVE FileInv'
<1>1. Inv'
  BY CompactStep DEF FileInv
<1>2. CurrentOK' /\ PairedOK'
  BY DEF Compact, MayChange, CurrentOK, PairedOK
<1>3. BegunOK' /\ PlanOK' /\ FileOK' /\ UnverifiedIsBounded'
  BY DEF Compact, FileInv, BegunOK, PlanOK, FileOK, Spoiled, UnverifiedIsBounded
<1> QED BY <1>1, <1>2, <1>3 DEF FileInv

LEMMA SaveFile ==
  ASSUME FileInv,
         NEW metric \in Metrics, NEW width \in Widths, NEW seed \in Seeds, NEW length \in Lengths,
         NEW pad \in Embeddings, Save(Header(metric, width, seed, length, Len(index)), pad)
  PROVE  FileInv'
<1> DEFINE header == Header(metric, width, seed, length, Len(index))
           accepted == Accepts(header, index)
           made == IF accepted THEN {Image(header, index)} ELSE {}
<1>1. Inv'
  <2>1. header.tag = "header"
    BY DEF Header
  <2> QED BY <2>1, SaveStep DEF FileInv
<1>2. IsSequence(index) /\ Len(index) \in Nat /\ header.rows = Len(index)
  BY DEF FileInv, Inv, IsSequence, Header
<1>3. \A image \in made : SavedFrom(image, index) /\ Begins(index, index)
  BY <1>2 DEF SavedFrom, Begins
<1>4. Save(header, pad)
  OBVIOUS
<1> HIDE DEF header
<1>5. /\ begun' = begun \cup made /\ current' = current \cup made
      /\ lost' = FALSE /\ UNCHANGED <<index, mapped, paired>> /\ ~mapped.on
      /\ saving' = [on |-> TRUE, at |-> 0, ok |-> accepted,
                    plan |-> pad \o Written(header, index) \o (IF accepted THEN pad ELSE <<>>)]
      /\ disk' = [cells |-> <<>>, synced |-> FALSE, kept |-> disk.kept]
  BY <1>4 DEF Save, FileInv, Inv, DiskOK
<1>6. begun \subseteq begun' /\ (accepted => Image(header, index) \in begun')
  BY <1>5
<1>7. BegunOK'
  BY <1>3, <1>5 DEF FileInv, BegunOK
<1>8. CurrentOK'
  BY <1>3, <1>5 DEF FileInv, CurrentOK
<1>9. PlanOK'
  <2> DEFINE plan == pad \o Written(header, index) \o (IF accepted THEN pad ELSE <<>>)
  <2>1. Aligned(plan, begun', {})
    BY <1>2, <1>6, PlanAligned
  <2>2. ASSUME accepted
        PROVE  \E image \in begun' : plan = pad \o image \o pad
    <3>1. Written(header, index) = Image(header, index)
      BY <2>2 DEF Written
    <3>2. plan = pad \o Image(header, index) \o pad
      BY <2>2, <3>1
    <3> QED BY <1>6, <2>2, <3>2
  <2>3. Len(plan) \in Nat /\ SubSeq(plan, 1, 0) = <<>>
    <3>1. Known(plan, begun')
      <4>1. saving'.plan = plan
        BY <1>5
      <4>2. Known(saving'.plan, begun')
        BY <1>1 DEF Inv, SavingOK
      <4> QED BY <4>1, <4>2
    <3> HIDE DEF plan
    <3>2. PICK S : plan \in Seq(S)
      BY <3>1 DEF Known
    <3> QED BY <3>2
  <2>4. saving' = [on |-> TRUE, at |-> 0, ok |-> accepted, plan |-> plan] /\ disk'.cells = <<>>
    BY <1>5
  <2> HIDE DEF plan, accepted
  <2> QED BY <2>1, <2>2, <2>3, <2>4 DEF PlanOK
<1>10. FileOK'
  <2>1. Aligned(<<>>, begun', Spoiled')
    BY AlignedEmpty
  <2>2. Aligned(disk.kept, begun', {Zero})
    BY <1>6, AlignedMonotonic DEF FileInv, FileOK
  <2> QED BY <1>5, <2>1, <2>2 DEF FileOK
<1>11. UnverifiedIsBounded' /\ PairedOK'
  BY <1>5 DEF FileInv, UnverifiedIsBounded, PairedOK
<1> QED BY <1>1, <1>7, <1>8, <1>9, <1>10, <1>11 DEF FileInv

LEMMA WriteNextFile == ASSUME FileInv, WriteNext PROVE FileInv'
<1> DEFINE w == saving.plan[saving.at + 1]
<1>1. Inv'
  BY WriteNextStep DEF FileInv
<1>2. PICK S : saving.plan \in Seq(S)
  BY DEF FileInv, Inv, SavingOK, Known
<1>3. saving.on /\ saving.at \in Nat /\ saving.at + 1 <= Len(saving.plan)
  BY <1>2 DEF WriteNext, FileInv, Inv, SavingOK
<1>4. disk' = [cells |-> Append(disk.cells, w), synced |-> disk.synced, kept |-> disk.kept]
  BY DEF WriteNext, FileInv, Inv, DiskOK
<1>5. saving' = [on |-> saving.on, plan |-> saving.plan, at |-> saving.at + 1, ok |-> saving.ok]
  BY DEF WriteNext, FileInv, Inv, SavingOK
<1>6. Append(disk.cells, w) = SubSeq(saving.plan, 1, saving.at + 1)
  <2>1. disk.cells = SubSeq(saving.plan, 1, saving.at)
    BY <1>3 DEF FileInv, PlanOK
  <2>2. SubSeq(saving.plan, 1, saving.at) \in Seq(S) /\ w \in S
    BY <1>2, <1>3
  <2>3. Append(disk.cells, w) = disk.cells \o <<w>>
    BY <2>1, <2>2, AppendIsConcat
  <2>4. SubSeq(saving.plan, 1, saving.at + 1) = SubSeq(saving.plan, 1, saving.at) \o <<w>>
    <3> DEFINE plan == saving.plan
               n == saving.at + 1
    <3>1. plan \in Seq(S) /\ 1 \in 1..Len(plan) /\ n \in 1..Len(plan) /\ n - 1 = saving.at
      BY <1>2, <1>3
    <3> HIDE DEF plan, n
    <3>2. SubSeq(plan, 1, n) = SubSeq(plan, 1, n - 1) \o <<plan[n]>>
      BY <3>1, SubSeqRecursiveSecond
    <3> QED BY <3>1, <3>2 DEF plan, n
  <2> QED BY <2>1, <2>3, <2>4
<1>7. PlanOK'
  <2>1. begun' = begun
    BY DEF WriteNext
  <2> QED BY <1>3, <1>4, <1>5, <1>6, <2>1 DEF FileInv, PlanOK
<1>8. FileOK'
  <2> DEFINE n == saving.at + 1
             left == SubSeq(saving.plan, 1, n)
  <2>1. Len(left) = n /\ n \in Nat /\ n <= Len(saving.plan) /\ \A k \in 1..n : left[k] = saving.plan[k]
    BY <1>2, <1>3
  <2>2. Len(saving.plan) \in Nat
    BY <1>2
  <2>3. Aligned(saving.plan, begun, {})
    BY <1>3 DEF FileInv, PlanOK
  <2> HIDE DEF left, n
  <2>4. \A z \in Spoiled : z.tag # "header"
    BY ZeroWord DEF Spoiled
  <2>5. Aligned(left, begun, Spoiled)
    BY <2>1, <2>2, <2>3, <2>4, AlignedBeginning
  <2>6. disk'.cells = left /\ disk'.kept = disk.kept /\ begun' = begun /\ Spoiled' = Spoiled
    BY <1>4, <1>6 DEF left, n, WriteNext, Spoiled
  <2> QED BY <2>5, <2>6 DEF FileInv, FileOK
<1>9. BegunOK' /\ CurrentOK' /\ UnverifiedIsBounded' /\ PairedOK'
  BY DEF WriteNext, FileInv, BegunOK, CurrentOK, UnverifiedIsBounded, PairedOK
<1> QED BY <1>1, <1>7, <1>8, <1>9 DEF FileInv

LEMMA EndSaveFile == ASSUME FileInv, EndSave PROVE FileInv'
<1>1. Inv'
  BY EndSaveStep DEF FileInv
<1>2. PlanOK'
  BY DEF EndSave, PlanOK, NotSaving
<1>3. FileOK'
  <2>1. Aligned(disk.cells, begun, {Zero})
    BY AlignedMonotonic DEF FileInv, FileOK, Spoiled
  <2>2. /\ disk'.cells = disk.cells /\ (disk'.kept = disk.kept \/ disk'.kept = disk.cells)
        /\ begun' = begun /\ Spoiled' = Spoiled
    BY DEF EndSave, Spoiled
  <2> QED BY <2>1, <2>2 DEF FileInv, FileOK
<1>4. BegunOK' /\ CurrentOK' /\ UnverifiedIsBounded' /\ PairedOK'
  BY DEF EndSave, FileInv, BegunOK, CurrentOK, UnverifiedIsBounded, PairedOK
<1> QED BY <1>1, <1>2, <1>3, <1>4 DEF FileInv

LEMMA CutSaveFile == ASSUME FileInv, CutSave PROVE FileInv'
<1>1. Inv'
  BY CutSaveStep DEF FileInv
<1>2. PlanOK'
  BY DEF CutSave, PlanOK, NotSaving
<1>3. FileOK'
  BY DEF CutSave, FileInv, FileOK, Spoiled
<1>4. BegunOK' /\ CurrentOK' /\ UnverifiedIsBounded' /\ PairedOK'
  BY DEF CutSave, FileInv, BegunOK, CurrentOK, UnverifiedIsBounded, PairedOK
<1> QED BY <1>1, <1>2, <1>3, <1>4 DEF FileInv

\* What a power loss leaves: the file as it was before, or its beginning with
\* zeros in it.
LEMMA SurvivalsAligned ==
  ASSUME FileInv, NEW cells \in Survivals PROVE Aligned(cells, begun, {Zero})
<1>1. CASE cells = disk.kept
  BY <1>1 DEF FileInv, FileOK
<1>2. CASE cells # disk.kept
  <2> DEFINE Left(n, holes) == [k \in 1..n |-> IF k \in holes THEN Zero ELSE disk.cells[k]]
             Few(n) == {h \in SUBSET (1..n) : Cardinality(h) <= MaxHoles}
  <2>0. cells \in UNION {{Left(n, holes) : holes \in Few(n)} : n \in 0..Len(disk.cells)}
    BY <1>2 DEF Survivals
  <2>1. PICK n \in 0..Len(disk.cells) : \E holes \in Few(n) : cells = Left(n, holes)
    BY <2>0
  <2>2. PICK holes \in Few(n) : cells = Left(n, holes)
    BY <2>1
  <2>3. Len(disk.cells) \in Nat
    BY DEF FileInv, Inv, DiskOK, Known
  <2>4. n \in Nat /\ n <= Len(disk.cells)
    BY <2>3
  <2>5. Len(cells) = n /\ \A k \in 1..n : cells[k] \in {disk.cells[k]} \cup {Zero}
    BY <2>2, <2>4
  <2>6. Aligned(disk.cells, begun, {Zero})
    BY AlignedMonotonic DEF FileInv, FileOK, Spoiled
  <2>7. \A z \in {Zero} : z.tag # "header"
    BY ZeroWord
  <2> QED BY <2>3, <2>4, <2>5, <2>6, <2>7, AlignedBeginning
<1> QED BY <1>1, <1>2

LEMMA PowerLossFile == ASSUME FileInv, PowerLoss PROVE FileInv'
<1>1. Inv'
  BY PowerLossStep DEF FileInv
<1>2. PlanOK'
  BY DEF PowerLoss, PlanOK, NotSaving
<1>3. FileOK'
  BY SurvivalsAligned DEF PowerLoss, FileOK, Spoiled
<1>4. BegunOK' /\ CurrentOK' /\ UnverifiedIsBounded' /\ PairedOK'
  BY DEF PowerLoss, FileInv, BegunOK, CurrentOK, UnverifiedIsBounded, PairedOK, NotMapped
<1> QED BY <1>1, <1>2, <1>3, <1>4 DEF FileInv

LEMMA OpenMmapFile ==
  ASSUME FileInv, NEW off \in Nat, NEW length \in Nat, NEW verify \in BOOLEAN,
         OpenMmap(off, length, verify)
  PROVE  FileInv'
<1> DEFINE region == SubSeq(disk.cells, off + 1, off + length)
<1>1. Inv'
  BY OpenMmapStep DEF FileInv
<1>2. /\ UNCHANGED <<index, items, saves, disk, saving, paired, begun, lost, current>>
      /\ mapped' = [on |-> TRUE, cells |-> region, verified |-> verify]
      /\ off + length <= Len(disk.cells) /\ StructureValid(region) /\ ~mapped.on
  BY DEF OpenMmap, RegionFits, Region, Opens
<1>3. PICK S : disk.cells \in Seq(S)
  BY DEF FileInv, Inv, DiskOK, Known
<1>4. /\ Len(disk.cells) \in Nat /\ Len(region) = length
      /\ \A k \in 1..length : region[k] = disk.cells[off + k]
  BY <1>2, <1>3
<1> HIDE DEF region
<1>5. Aligned(disk.cells, begun, Spoiled)
  BY DEF FileInv, FileOK
<1>6. PICK image \in begun :
         /\ Len(image) = length /\ image[1] = region[1]
         /\ \A k \in 1..length : region[k] \in {image[k]} \cup Spoiled
  <2> DEFINE cells == disk.cells
  <2>1. off + length <= Len(cells) /\ StructureValid(region)
    BY <1>2
  <2>2. Len(cells) \in Nat /\ CutFrom(region, cells, off, length)
    BY <1>4 DEF CutFrom
  <2>3. Aligned(cells, begun, Spoiled)
    BY <1>5
  <2> HIDE DEF cells
  <2>4. OneOf(region, begun, Spoiled, length)
    BY <2>1, <2>2, <2>3, AlignedRegion
  <2> QED BY <2>4 DEF OneOf
<1>7. DOMAIN image = 1..length
  BY <1>6, SavedWords DEF FileInv, BegunOK
<1>8. UnverifiedIsBounded'
  <2>1. mapped'.cells = region /\ begun' = begun /\ lost' = lost
    BY <1>2
  <2>2. /\ Len(image) = Len(region) /\ image[1] = region[1]
        /\ \A k \in DOMAIN image : region[k] \in {image[k]} \cup (IF lost THEN {Zero} ELSE {})
    BY <1>4, <1>6, <1>7 DEF Spoiled
  <2> QED BY <2>1, <2>2 DEF UnverifiedIsBounded
<1>9. BegunOK' /\ CurrentOK' /\ PlanOK' /\ FileOK' /\ PairedOK'
  BY <1>2 DEF FileInv, BegunOK, CurrentOK, PlanOK, FileOK, Spoiled, PairedOK
<1> QED BY <1>1, <1>8, <1>9 DEF FileInv

LEMMA UnmapFile == ASSUME FileInv, Unmap PROVE FileInv'
<1>1. Inv'
  BY UnmapStep DEF FileInv
<1> QED BY <1>1 DEF Unmap, FileInv, BegunOK, CurrentOK, PlanOK, FileOK, Spoiled, UnverifiedIsBounded,
                    PairedOK, NotMapped

LEMMA PairFile == ASSUME FileInv, Pair \/ Unpair \/ UNCHANGED sidecarVars PROVE FileInv'
<1>1. Inv'
  BY PairStep DEF FileInv
<1>2. BegunOK' /\ CurrentOK' /\ PlanOK' /\ FileOK' /\ UnverifiedIsBounded'
  <2>1. UNCHANGED <<index, disk, saving, mapped, begun, lost, current>>
    BY DEF Pair, Unpair, sidecarVars
  <2>2. BegunOK' /\ CurrentOK' /\ PlanOK'
    BY <2>1 DEF FileInv, BegunOK, CurrentOK, PlanOK
  <2>3. FileOK' /\ UnverifiedIsBounded'
    BY <2>1 DEF FileInv, FileOK, Spoiled, UnverifiedIsBounded
  <2> QED BY <2>2, <2>3
<1>3. PairedOK'
  BY DEF Pair, Unpair, sidecarVars, FileInv, PairedOK, Compatible
<1> QED BY <1>1, <1>2, <1>3 DEF FileInv

LEMMA FileInvHolds == SidecarSpec => []FileInv
<1>1. FileInv /\ [SidecarNext]_sidecarVars => FileInv'
  <2> SUFFICES ASSUME FileInv, [SidecarNext]_sidecarVars PROVE FileInv'
    OBVIOUS
  <2>1. CASE \E class \in Classes : Insert(class)
    BY <2>1, InsertFile
  <2>2. CASE \E id \in DOMAIN index : Compact(id)
    BY <2>2, CompactFile
  <2>3. CASE \E metric \in Metrics, width \in Widths, seed \in Seeds, length \in Lengths,
                pad \in Embeddings :
               Save(Header(metric, width, seed, length, Len(index)), pad)
    BY <2>3, SaveFile
  <2>4. CASE WriteNext
    BY <2>4, WriteNextFile
  <2>5. CASE EndSave
    BY <2>5, EndSaveFile
  <2>6. CASE CutSave
    BY <2>6, CutSaveFile
  <2>7. CASE PowerLoss
    BY <2>7, PowerLossFile
  <2>8. CASE \E off \in 0..Len(disk.cells) : \E length \in 0..(Len(disk.cells) - off),
                verify \in BOOLEAN : OpenMmap(off, length, verify)
    BY <2>8, OpenMmapFile
  <2>9. CASE Unmap
    BY <2>9, UnmapFile
  <2>10. CASE Pair \/ Unpair \/ UNCHANGED sidecarVars
    BY <2>10, PairFile
  <2> QED BY <2>1, <2>2, <2>3, <2>4, <2>5, <2>6, <2>7, <2>8, <2>9, <2>10 DEF SidecarNext
<1> QED BY InitFile, <1>1, PTL DEF SidecarSpec

\* UnverifiedIsBounded, for every file, embedding, interruption and loss: what
\* open_mmap accepts without looking at the checksum is one save's image, but
\* for the words a power loss turned into zeros.
THEOREM UnverifiedBounded == SidecarSpec => []UnverifiedIsBounded
<1>1. FileInv => UnverifiedIsBounded
  BY DEF FileInv
<1> QED BY <1>1, FileInvHolds, PTL

-----------------------------------------------------------------------------
\* What a pairing multiplies.

LEMMA SavedLaid ==
  ASSUME NEW image, NEW vectors, SavedFrom(image, vectors)
  PROVE  \E metric, width, seed, length, header :
           /\ header = Header(metric, width, seed, length, Len(vectors))
           /\ Laid(image, header, vectors, Len(vectors))
           /\ image = Image(header, vectors)
<1>1. PICK metric \in Metrics, width \in Widths, seed \in Seeds, length \in Lengths :
        image = Image(Header(metric, width, seed, length, Len(vectors)), vectors)
  BY DEF SavedFrom
<1> DEFINE header == Header(metric, width, seed, length, Len(vectors))
<1>2. Laid(Image(header, vectors), header, vectors, Len(vectors))
  BY ImageWords DEF SavedFrom
<1> QED BY <1>1, <1>2

LEMMA HeaderFields ==
  ASSUME NEW metric, NEW width, NEW seed, NEW length, NEW rows, NEW header,
         header = Header(metric, width, seed, length, rows)
  PROVE  /\ header.tag = "header" /\ header.metric = metric /\ header.rows = rows
         /\ header.config = <<width, seed>> /\ header.config[1] = width /\ header.config[2] = seed
BY DEF Header

LEMMA RowsServed == FileInv => ServedRowsMatch
<1> SUFFICES ASSUME FileInv, NEW query \in PreparedQueries, Serves(query), NEW id \in DOMAIN index
             PROVE  LET code == CodeOf(mapped.cells, id) IN
                    /\ id <= Rows(mapped.cells)
                    /\ code # Zero => <<code.about[2], <<code.about[3], code.about[4]>>>> =
                                        <<query.metric, query.config>>
                    /\ mapped.verified /\ mapped.cells \in current => code.about[1] = index[id].item
  BY DEF ServedRowsMatch
<1> DEFINE cells == mapped.cells
           code == cells[1 + id]
<1>1. mapped.on /\ cells[1].rows = Len(index)
  BY DEF Serves, FileInv, PairedOK
<1>2. Len(index) \in Nat /\ id \in 1..Len(index)
  BY DEF FileInv, Inv, IsSequence
<1>3. query.metric = cells[1].metric /\ query.config = cells[1].config
  BY DEF Serves, ValidatePrepared, IdentityOf
<1>4. PICK image \in begun :
         /\ Len(image) = Len(cells) /\ image[1] = cells[1]
         /\ \A i \in DOMAIN image : cells[i] \in {image[i]} \cup (IF lost THEN {Zero} ELSE {})
  BY <1>1 DEF FileInv, UnverifiedIsBounded
<1>5. PICK vectors : SavedFrom(image, vectors)
  BY DEF FileInv, BegunOK
<1>6. PICK metric, width, seed, length, header :
           /\ header = Header(metric, width, seed, length, Len(vectors))
           /\ Laid(image, header, vectors, Len(vectors))
           /\ image = Image(header, vectors)
  BY <1>5, SavedLaid
<1>7. /\ image[1] = header /\ header.rows = Len(index) /\ Len(vectors) = Len(index)
      /\ header.metric = metric /\ header.config = <<width, seed>>
      /\ header.config[1] = width /\ header.config[2] = seed
  <2>1. image[1] = header
    BY <1>6 DEF Laid
  <2>2. header.rows = Len(vectors) /\ header.metric = metric /\ header.config = <<width, seed>>
        /\ header.config[1] = width /\ header.config[2] = seed
    BY <1>6, HeaderFields
  <2> QED BY <1>1, <1>4, <2>1, <2>2
<1>8. image[1 + id] = Code(metric, width, seed, vectors[id]) /\ 1 + id \in DOMAIN image
  <2>1. image[1 + id] = Code(header.metric, header.config[1], header.config[2], vectors[id])
    BY <1>2, <1>6, <1>7 DEF Laid
  <2>2. 1 + id \in 1..Len(image)
    BY <1>2, <1>6, <1>7 DEF Laid
  <2>3. DOMAIN image = 1..Len(image)
    BY <1>5, SavedWords
  <2> QED BY <1>7, <2>1, <2>2, <2>3
<1>9. code # Zero => code.about[2] = query.metric /\ <<code.about[3], code.about[4]>> = query.config
  <2> SUFFICES ASSUME code # Zero
               PROVE  code.about[2] = query.metric /\ <<code.about[3], code.about[4]>> = query.config
    OBVIOUS
  <2>1. code = Code(metric, width, seed, vectors[id])
    BY <1>4, <1>8
  <2>2. code.about = <<vectors[id].item, metric, width, seed>>
    BY <2>1, CodeWord
  <2> HIDE DEF code
  <2> QED BY <1>3, <1>4, <1>7, <2>2
<1>10. ASSUME cells \in current PROVE code.about[1] = index[id].item
  <2>1. PICK held : SavedFrom(cells, held) /\ Begins(held, index)
    BY <1>10 DEF FileInv, CurrentOK
  <2>2. PICK m, w, s, l, h :
           /\ h = Header(m, w, s, l, Len(held))
           /\ Laid(cells, h, held, Len(held))
           /\ cells = Image(h, held)
    BY <2>1, SavedLaid
  <2>3. Len(held) = Len(index)
    <3>1. h.rows = Len(held)
      BY <2>2, HeaderFields
    <3>2. cells[1] = h
      BY <2>2 DEF Laid
    <3> QED BY <1>1, <3>1, <3>2
  <2>4. code = Code(h.metric, h.config[1], h.config[2], held[id])
    BY <1>2, <2>2, <2>3 DEF Laid
  <2>5. code.about = <<held[id].item, h.metric, h.config[1], h.config[2]>>
    BY <2>4, CodeWord
  <2>6. held[id] = index[id]
    BY <1>2, <2>1, <2>3 DEF Begins
  <2> HIDE DEF code
  <2> QED BY <2>5, <2>6
<1>11. id <= Rows(cells)
  BY <1>1, <1>2 DEF Rows
<1> QED BY <1>9, <1>10, <1>11 DEF CodeOf

\* ServedRowsMatch, for every index and sidecar: a search over a pairing has a
\* row for every node, encoded by the codec of its query; and if the mapping was
\* verified and the index only grew, it is the node's own.
THEOREM RowsMatch == SidecarSpec => []ServedRowsMatch
BY RowsServed, FileInvHolds, PTL

-----------------------------------------------------------------------------
\* What a save that returned Ok has left.

Finite(cells) == \A i \in DOMAIN cells : cells[i].tag = "scale" => cells[i].about # <<"infinite">>

LEMMA ImageOpens ==
  ASSUME NEW image, NEW vectors, SavedFrom(image, vectors)
  PROVE  Opens(image, TRUE) <=> Finite(image)
<1> DEFINE n == Len(vectors)
<1>1. PICK metric, width, seed, length, header :
           /\ header = Header(metric, width, seed, length, Len(vectors))
           /\ Laid(image, header, vectors, n)
           /\ image = Image(header, vectors)
  BY SavedLaid
<1>2. header.tag = "header" /\ header.rows = n
  BY <1>1, HeaderFields
<1>3. DOMAIN image = 1..Len(image)
  BY SavedWords
<1> HIDE DEF n
<1>4. n \in Nat /\ Len(image) = 2 + 2 * n /\ image[1] = header
  BY <1>1 DEF Laid
<1>5. \A k \in 1..n : image[1 + k].tag = "code" /\ image[1 + n + k].tag = "scale"
  <2> SUFFICES ASSUME NEW k \in 1..n PROVE image[1 + k].tag = "code" /\ image[1 + n + k].tag = "scale"
    OBVIOUS
  <2>1. /\ image[1 + k] = Code(header.metric, header.config[1], header.config[2], vectors[k])
        /\ image[1 + n + k] = Word("scale", <<Scale(header.metric, vectors[k])>>)
    BY <1>1 DEF Laid
  <2>2. Code(header.metric, header.config[1], header.config[2], vectors[k]).tag = "code"
    BY CodeWord
  <2>3. Word("scale", <<Scale(header.metric, vectors[k])>>).tag = "scale"
    BY DEF Word
  <2> QED BY <2>1, <2>2, <2>3
<1>6. image[2 + 2 * n].tag = "checksum"
  BY <1>1, WordTags DEF Laid, Checksum
<1>7. Rows(image) = n /\ LayoutBytes(Rows(image)) = 2 + 2 * n
  BY <1>2, <1>4 DEF Rows, LayoutBytes
<1>8. ChecksumValid(image)
  <2>1. SubSeq(image, 1, 1 + 2 * n) = Hashed(header, vectors)
    <3> DEFINE hashed == Hashed(header, vectors)
    <3>1. /\ IsSequence(hashed) /\ Len(hashed) = 1 + 2 * n /\ IsSequence(image)
          /\ \A k \in 1..(1 + 2 * n) : image[k] = hashed[k]
      BY <1>1 DEF Laid
    <3> HIDE DEF hashed
    <3>2. PICK S : image \in Seq(S)
      BY <3>1 DEF IsSequence
    <3>3. PICK T : hashed \in Seq(T)
      BY <3>1 DEF IsSequence
    <3> DEFINE m == 1 + 2 * n
               front == SubSeq(image, 1, m)
    <3>4. m \in Nat /\ m <= Len(image)
      BY <1>4
    <3> HIDE DEF m
    <3>5. front \in Seq(S) /\ Len(front) = m /\ \A k \in 1..m : front[k] = image[k]
      BY <3>2, <3>4
    <3> HIDE DEF front
    <3>6. Len(hashed) = m /\ \A k \in 1..m : image[k] = hashed[k]
      BY <3>1 DEF m
    <3>7. front \in Seq(S \cup T) /\ hashed \in Seq(S \cup T)
      BY <3>3, <3>5, SeqMonotonic
    <3>8. front = hashed
      BY <3>5, <3>6, <3>7, SeqEqual
    <3> QED BY <3>8 DEF front, m, hashed
  <2>2. image[2 + 2 * n] = Checksum(Hashed(header, vectors))
    BY <1>1 DEF Laid
  <2> DEFINE last == LayoutBytes(Rows(image))
  <2>3. last = 2 + 2 * n
    BY <1>7
  <2> HIDE DEF last
  <2>4. last = 2 + 2 * n /\ last - 1 = 1 + 2 * n
    BY <1>4, <2>3
  <2>5. image[last] = Checksum(SubSeq(image, 1, last - 1)) /\ image[last].tag = "checksum"
    BY <1>6, <2>1, <2>2, <2>4
  <2> QED BY <2>5 DEF ChecksumValid, last
<1>9. StructureValid(image) <=> \A row \in 1..n : image[1 + n + row].about # <<"infinite">>
  <2>1. \A row : ScaleOf(image, row) = image[1 + n + row]
    BY <1>7 DEF ScaleOf
  <2>2. Len(image) >= 2 /\ image[1].tag = "header" /\ Len(image) = LayoutBytes(Rows(image))
    BY <1>2, <1>4, <1>7
  <2> QED BY <1>7, <2>1, <2>2 DEF StructureValid
<1>10. ASSUME Finite(image), NEW row \in 1..n PROVE image[1 + n + row].about # <<"infinite">>
  <2>1. 1 + n + row \in 1..Len(image)
    BY <1>4
  <2> QED BY <1>3, <1>5, <1>10, <2>1 DEF Finite
<1>11. ASSUME \A row \in 1..n : image[1 + n + row].about # <<"infinite">>,
              NEW i \in DOMAIN image, image[i].tag = "scale"
       PROVE  image[i].about # <<"infinite">>
  <2>1. i \in 1..(2 + 2 * n)
    BY <1>3, <1>4
  <2>2. i # 1
    BY <1>2, <1>4, <1>11
  <2>3. i # 2 + 2 * n
    BY <1>6, <1>11
  <2>4. CASE i <= 1 + n
    <3>1. i - 1 \in 1..n /\ 1 + (i - 1) = i
      BY <1>4, <2>1, <2>2, <2>4
    <3> QED BY <1>5, <1>11, <3>1
  <2>5. CASE i > 1 + n
    <3>1. i - 1 - n \in 1..n /\ 1 + n + (i - 1 - n) = i
      BY <1>4, <2>1, <2>3, <2>5
    <3> QED BY <1>11, <3>1
  <2> QED BY <1>4, <2>1, <2>4, <2>5
<1>12. StructureValid(image) <=> Finite(image)
  BY <1>9, <1>10, <1>11 DEF Finite
<1> QED BY <1>8, <1>12 DEF Opens

\* What is between the words of the application.
LEMMA Unwrapped ==
  ASSUME NEW a, NEW m, NEW b, Bare(a), Headed(m), Bare(b), NEW all, all = a \o m \o b
  PROVE  SubSeq(all, Len(a) + 1, Len(a) + Len(m)) = m
<1>1. Holds(all, a, m, b)
  BY InTheMiddle
<1>2. PICK S : all \in Seq(S)
  BY <1>1 DEF Holds, IsSequence
<1>3. PICK T : m \in Seq(T)
  BY DEF Headed, IsSequence
<1> DEFINE x == Len(a)
           y == Len(m)
           part == SubSeq(all, x + 1, x + y)
<1>4. /\ x \in Nat /\ y \in Nat /\ x + y <= Len(all)
      /\ \A j \in 1..y : all[x + j] = m[j]
  BY <1>1 DEF Holds
<1>5. Len(m) = y
  OBVIOUS
<1> HIDE DEF x, y
<1>6. /\ part \in Seq(S) /\ Len(part) = y
      /\ \A k \in 1..y : part[k] = all[x + k]
  <2>1. x + 1 \in Nat /\ x + y \in Nat
    BY <1>4
  <2> QED BY <1>2, <1>4, <2>1
<1> HIDE DEF part
<1>7. part \in Seq(S \cup T) /\ m \in Seq(S \cup T)
  BY <1>3, <1>6, SeqMonotonic
<1>8. part = m
  BY <1>4, <1>5, <1>6, <1>7, SeqEqual
<1> QED BY <1>8 DEF part, x, y

LEMMA ImageHeaded ==
  ASSUME NEW image, NEW vectors, SavedFrom(image, vectors)
  PROVE  Headed(image) /\ 1 \in 1..Len(image) /\ image[1].tag = "header"
<1>1. PICK metric, width, seed, length, header :
           /\ header = Header(metric, width, seed, length, Len(vectors))
           /\ Laid(image, header, vectors, Len(vectors))
           /\ image = Image(header, vectors)
  BY SavedLaid
<1>2. Headed(image)
  BY <1>1, OneHeader DEF Laid, Headed, SavedFrom
<1>3. image[1].tag = "header"
  BY <1>1, HeaderFields DEF Laid
<1>4. 1 \in 1..Len(image)
  BY <1>1 DEF Laid
<1> QED BY <1>2, <1>3, <1>4

\* The pad is where EndSave's caller put it.
LEMMA PadFound ==
  ASSUME NEW pad \in Embeddings, NEW image, Headed(image), 1 \in 1..Len(image),
         image[1].tag = "header", NEW plan, plan = pad \o image \o pad
  PROVE  Len(pad) = (IF Head(plan) = Pad THEN 1 ELSE 0)
<1>1. Holds(plan, pad, image, pad)
  BY Padding, InTheMiddle
<1>2. IsSequence(plan) /\ Len(plan) \in Nat /\ Len(plan) >= 1
  BY <1>1 DEF Holds, IsSequence
<1>3. Head(plan) = plan[1]
  BY <1>2 DEF IsSequence
<1>4. CASE pad = <<>>
  <2>1. Len(pad) = 0
    BY <1>4, NoWords
  <2>2. plan[0 + 1] = image[1]
    BY <1>1, <2>1 DEF Holds
  <2>3. Pad.tag # "header"
    BY WordTags DEF Pad
  <2>4. plan[1].tag = "header"
    BY <2>2
  <2> QED BY <1>3, <2>1, <2>3, <2>4
<1>5. CASE pad = <<Pad>>
  <2>1. IsSequence(pad) /\ Len(pad) = 1 /\ pad[1] = Pad
    BY <1>5, Single
  <2>2. IsSequence(image)
    BY DEF Headed
  <2> DEFINE front == pad \o image
  <2>3. IsSequence(front) /\ Len(front) = 1 + Len(image) /\ Len(image) \in Nat /\ front[1] = Pad
    <3>1. /\ IsSequence(front) /\ Len(front) = Len(pad) + Len(image) /\ Len(image) \in Nat
          /\ \A k \in 1..Len(pad) : front[k] = pad[k]
      <4>1. JoinOf(front, pad, image)
        BY <2>1, <2>2, JoinedParts
      <4> HIDE DEF front
      <4> QED BY <4>1 DEF JoinOf
    <3> QED BY <2>1, <3>1
  <2> HIDE DEF front
  <2>4. plan = front \o pad
    BY DEF front
  <2>5. \A k \in 1..Len(front) : plan[k] = front[k]
    <3>1. JoinOf(plan, front, pad)
      BY <2>1, <2>3, <2>4, JoinedParts
    <3> QED BY <3>1 DEF JoinOf
  <2>6. plan[1] = Pad
    BY <2>3, <2>5
  <2> QED BY <1>3, <2>1, <2>6
<1> QED BY <1>4, <1>5 DEF Embeddings

\* SavedOpens, for every index, configuration and embedding: when a save
\* returns Ok the file opens, verified, where the image is, unless a norm
\* overflowed.
THEOREM EverySaveOpens == SidecarSpec => SavedOpens
<1>1. ASSUME FileInv, EndSave, saving.ok
      PROVE  LET pad == IF Head(saving.plan) = Pad THEN 1 ELSE 0
                 cells == SubSeq(disk.cells, pad + 1, Len(disk.cells) - pad)
                 finite == \A i \in DOMAIN cells :
                             cells[i].tag = "scale" => cells[i].about # <<"infinite">>
             IN  Opens(cells, TRUE) <=> finite
  <2> DEFINE plan == saving.plan
  <2>1. /\ saving.on /\ saving.at = Len(plan)
        /\ disk.cells = SubSeq(plan, 1, Len(plan))
    BY <1>1 DEF EndSave, FileInv, PlanOK
  <2>2. PICK pad \in Embeddings, image \in begun : plan = pad \o image \o pad
    BY <1>1, <2>1 DEF FileInv, PlanOK
  <2>3. PICK vectors : SavedFrom(image, vectors)
    BY <1>1, <2>2 DEF FileInv, BegunOK
  <2>4. Headed(image) /\ 1 \in 1..Len(image) /\ image[1].tag = "header"
    BY <2>3, ImageHeaded
  <2>5. Bare(pad)
    BY Padding
  <2> HIDE DEF plan
  <2>6. Len(pad) = (IF Head(plan) = Pad THEN 1 ELSE 0)
    BY <2>2, <2>4, PadFound
  <2>7. Holds(plan, pad, image, pad)
    BY <2>2, <2>4, <2>5, InTheMiddle
  <2>8. disk.cells = plan
    <3>1. PICK S : plan \in Seq(S)
      BY <2>7 DEF Holds, IsSequence
    <3> QED BY <2>1, <3>1, SubSeqFull
  <2>9. Len(disk.cells) - Len(pad) = Len(pad) + Len(image)
    BY <2>7, <2>8 DEF Holds
  <2>10. SubSeq(disk.cells, Len(pad) + 1, Len(disk.cells) - Len(pad)) = image
    <3>1. SubSeq(plan, Len(pad) + 1, Len(pad) + Len(image)) = image
      BY <2>2, <2>4, <2>5, Unwrapped
    <3> QED BY <2>8, <2>9, <3>1
  <2>11. Opens(image, TRUE) <=> Finite(image)
    BY <2>3, ImageOpens
  <2> QED BY <2>6, <2>10, <2>11 DEF Finite, plan
<1>2. FileInv /\ [SidecarNext]_sidecarVars =>
        [EndSave /\ saving.ok =>
           LET pad == IF Head(saving.plan) = Pad THEN 1 ELSE 0
               cells == SubSeq(disk.cells, pad + 1, Len(disk.cells) - pad)
               finite == \A i \in DOMAIN cells :
                           cells[i].tag = "scale" => cells[i].about # <<"infinite">>
           IN  Opens(cells, TRUE) <=> finite]_sidecarVars
  BY <1>1
<1> QED BY <1>2, FileInvHolds, PTL DEF SidecarSpec, SavedOpens

-----------------------------------------------------------------------------
(* The codec                                                               *)

\* Division with a remainder: there is one way to do it.
LEMMA Divided ==
  ASSUME NEW n \in Nat, NEW h \in Nat \ {0}
  PROVE  \E k, r \in Nat : r < h /\ n = h * k + r /\ n \div h = k /\ n % h = r
<1>1. n \div h \in Nat /\ n % h \in Nat /\ n % h < h
  OBVIOUS
<1>2. ASSUME NEW k \in Nat, NEW r \in Nat, k = n \div h, r = n % h PROVE n = h * k + r
  BY <1>2
<1> QED BY <1>1, <1>2

LEMMA DividedOnce ==
  ASSUME NEW n \in Nat, NEW h \in Nat \ {0}, NEW k \in Nat, NEW r \in Nat, r < h, n = h * k + r
  PROVE  n \div h = k /\ n % h = r
<1>1. k = n \div h
  OBVIOUS
<1>2. r = n % h
  OBVIOUS
<1> QED BY <1>1, <1>2

\* A number in units of h, and in units of twice h.
LEMMA Halves ==
  ASSUME NEW h \in Nat \ {0}, NEW n \in Nat
  PROVE  /\ n \div h \in Nat /\ n \div (2 * h) \in Nat /\ (n \div h) % 2 \in {0, 1}
         /\ n \div h = 2 * (n \div (2 * h)) + ((n \div h) % 2)
         /\ n % (2 * h) < h => (n \div h) % 2 = 0
<1>1. PICK x, r \in Nat : r < h /\ n = h * x + r /\ n \div h = x
  BY Divided
<1>2. PICK y, t \in Nat : t < 2 /\ x = 2 * y + t /\ x \div 2 = y /\ x % 2 = t
  <2>1. 2 \in Nat \ {0}
    OBVIOUS
  <2> QED BY <2>1, Divided
<1>3. t \in {0, 1}
  BY <1>2
<1> DEFINE g == 2 * h
           s == h * t + r
<1>4. g \in Nat \ {0} /\ s \in Nat /\ s < g /\ n = g * y + s
  <2>1. CASE t = 0
    <3>1. n = h * (2 * y) + r
      BY <1>1, <1>2, <2>1
    <3>2. h * (2 * y) = g * y
      OBVIOUS
    <3> QED BY <1>1, <2>1, <3>1, <3>2
  <2>2. CASE t = 1
    <3>1. n = h * (2 * y + 1) + r
      BY <1>1, <1>2, <2>2
    <3>2. h * (2 * y + 1) = g * y + h
      OBVIOUS
    <3> QED BY <1>1, <2>2, <3>1, <3>2
  <2> QED BY <1>3, <2>1, <2>2
<1>5. n \div g = y /\ n % g = s
  <2> HIDE DEF g, s
  <2> QED BY <1>4, DividedOnce
<1>6. n % g < h => t = 0
  <2>1. t = 1 => s = h + r
    <3>1. h * 1 = h
      OBVIOUS
    <3> QED BY <3>1
  <2>2. ASSUME s < h, t = 1 PROVE FALSE
    <3>1. s = h + r
      BY <2>1, <2>2
    <3> HIDE DEF s
    <3> QED BY <3>1, <2>2, <1>1
  <2> HIDE DEF s, g
  <2> QED BY <1>3, <1>5, <2>2
<1> QED BY <1>1, <1>2, <1>3, <1>5, <1>6

\* Some units of w more.
LEMMA UnitsMore ==
  ASSUME NEW w \in Nat \ {0}, NEW n \in Nat, NEW c \in Nat
  PROVE  (n + w * c) \div w = n \div w + c /\ (n + w * c) % w = n % w
<1>1. PICK k, r \in Nat : r < w /\ n = w * k + r /\ n \div w = k /\ n % w = r
  BY Divided
<1> DEFINE m == n + w * c
           x == k + c
<1>2. m \in Nat /\ x \in Nat /\ m = w * x + r
  <2>1. w * (k + c) = w * k + w * c
    OBVIOUS
  <2> QED BY <1>1, <2>1
<1>3. m \div w = x /\ m % w = r
  <2> HIDE DEF m, x
  <2> QED BY <1>1, <1>2, DividedOnce
<1> QED BY <1>1, <1>3

LEMMA PowersAre ==
  ASSUME NEW h \in PowersOfTwo
  PROVE  h \in Nat \ {0}
  BY DEF PowersOfTwo

\* Twice a power of two that is below another.
LEMMA Doubles ==
  ASSUME NEW h \in PowersOfTwo, NEW n \in PowersOfTwo, h < n
  PROVE  2 * h \in PowersOfTwo /\ 2 * h <= n
  BY DEF PowersOfTwo

\* A power of two is so many times any smaller one, an even number of times.
LEMMA PowersDivide ==
  ASSUME NEW h \in PowersOfTwo, NEW w \in PowersOfTwo, w < h
  PROVE  \E m \in Nat : h = w * (2 * m)
<1> DEFINE Times(m) == m \in Nat /\ h = w * (2 * m)
<1>1. Times(1) \/ Times(2) \/ Times(4) \/ Times(8) \/ Times(16) \/ Times(32) \/ Times(64)
      \/ Times(128) \/ Times(256)
  BY DEF PowersOfTwo
<1> QED BY <1>1

-----------------------------------------------------------------------------
(* The transform one level up. *)

HasBit(w, a) == (a \div w) % 2 = 1

Sign(C, sign) == IF Cardinality(C) % 2 = 0 THEN sign ELSE -sign

\* What coordinate d holds of the unit vector at u once its block of n is transformed.
Transformed(n, d, u, sign) ==
  IF d \div n # u \div n THEN 0 ELSE Sign(CommonBits(n, d, u), sign)

\* A number has its low bits whether or not a higher power is added.
LEMMA LowBitsKept ==
  ASSUME NEW h \in PowersOfTwo, NEW w \in PowersOfTwo, w < h, NEW l \in Nat
  PROVE  HasBit(w, l + h) <=> HasBit(w, l)
<1>1. PICK m \in Nat : h = w * (2 * m)
  BY PowersDivide
<1>2. w \in Nat \ {0}
  BY PowersAre
<1> DEFINE c == 2 * m
           x == l \div w
<1>3. c \in Nat /\ x \in Nat
  BY <1>2
<1>4. (l + h) \div w = x + c
  BY <1>1, <1>2, <1>3, UnitsMore
<1>5. 2 \in Nat \ {0}
  OBVIOUS
<1>6. (x + 2 * m) % 2 = x % 2
  BY <1>3, <1>5, UnitsMore
<1> QED BY <1>4, <1>6 DEF HasBit

LEMMA CommonBitsFinite ==
  ASSUME NEW n, NEW a, NEW b
  PROVE  IsFiniteSet(CommonBits(n, a, b)) /\ Cardinality(CommonBits(n, a, b)) \in Nat
<1>1. CommonBits(n, a, b) \subseteq 1..512
  BY DEF CommonBits, PowersOfTwo
<1>2. IsFiniteSet(1..512)
  <2>1. 1 \in Int /\ 512 \in Int
    OBVIOUS
  <2> QED BY <2>1, FS_Interval
<1>3. IsFiniteSet(CommonBits(n, a, b))
  BY <1>1, <1>2, FS_Subset
<1> QED BY <1>3, FS_CardinalityType

\* The numbers below twice h share the bits below h, and h itself if both have it.
LEMMA CommonBitsNext ==
  ASSUME NEW h \in PowersOfTwo, NEW a \in Nat, NEW b \in Nat
  PROVE  /\ h \notin CommonBits(h, a, b)
         /\ CommonBits(2 * h, a, b) =
              CommonBits(h, a, b) \cup (IF HasBit(h, a) /\ HasBit(h, b) THEN {h} ELSE {})
<1>1. h \in Nat \ {0}
  BY PowersAre
<1>2. \A w \in PowersOfTwo : w < 2 * h <=> w < h \/ w = h
  BY DEF PowersOfTwo
<1>3. h \notin CommonBits(h, a, b)
  BY <1>1 DEF CommonBits
<1>4. ASSUME NEW w PROVE w \in CommonBits(2 * h, a, b) <=>
        w \in CommonBits(h, a, b) \/ (w = h /\ HasBit(h, a) /\ HasBit(h, b))
  BY <1>2 DEF CommonBits, HasBit
<1> QED BY <1>3, <1>4

\* One bit more turns the sign.
LEMMA SignTurns ==
  ASSUME NEW C, IsFiniteSet(C), NEW h, h \notin C, NEW sign \in {1, -1}
  PROVE  Sign(C \cup {h}, sign) = -Sign(C, sign) /\ Sign(C, sign) \in Int
<1>1. Cardinality(C) \in Nat /\ Cardinality(C \cup {h}) = Cardinality(C) + 1
  BY FS_CardinalityType, FS_AddElement
<1> DEFINE k == Cardinality(C)
<1>2. k \in Nat /\ Cardinality(C \cup {h}) = k + 1
  BY <1>1
<1>3. (k + 1) % 2 = 0 <=> k % 2 # 0
  <2> HIDE DEF k
  <2> QED BY <1>2
<1>4. - (- sign) = sign
  OBVIOUS
<1> QED BY <1>2, <1>3, <1>4 DEF Sign

LEMMA TransformedNumber ==
  ASSUME NEW n, NEW d, NEW u, NEW sign \in {1, -1}
  PROVE  Transformed(n, d, u, sign) \in Int
  BY DEF Transformed, Sign

\* A butterfly takes the two halves of a block of twice h to the block.
LEMMA TransformDoubles ==
  ASSUME NEW h \in PowersOfTwo, NEW l \in Nat, NEW u \in Nat, NEW sign \in {1, -1}, l % (2 * h) < h
  PROVE  /\ Transformed(2 * h, l, u, sign) = Transformed(h, l, u, sign) + Transformed(h, l + h, u, sign)
         /\ Transformed(2 * h, l + h, u, sign) = Transformed(h, l, u, sign) - Transformed(h, l + h, u, sign)
<1> DEFINE r == l + h
           x == l \div h
           y == l \div (2 * h)
           U == u \div h
           V == u \div (2 * h)
           C == CommonBits(h, l, u)
<1>1. h \in Nat \ {0} /\ r \in Nat
  BY PowersAre
<1>2. x \in Nat /\ y \in Nat /\ x = 2 * y /\ x % 2 = 0
  <2>1. /\ x \in Nat /\ y \in Nat
        /\ x = 2 * y + (x % 2)
        /\ x % 2 = 0
    BY <1>1, Halves
  <2> HIDE DEF x, y
  <2> QED BY <2>1
<1>3. U \in Nat /\ V \in Nat /\ U % 2 \in {0, 1} /\ U = 2 * V + (U % 2)
  BY <1>1, Halves
<1>4. r \div h = x + 1
  <2>1. (l + h * 1) \div h = x + 1
    BY <1>1, UnitsMore
  <2>2. h * 1 = h
    BY <1>1
  <2> QED BY <2>1, <2>2
<1>5. r \div (2 * h) = y /\ (r \div h) % 2 = 1
  <2> DEFINE y2 == r \div (2 * h)
             t2 == (r \div h) % 2
  <2>1. y2 \in Nat /\ t2 \in {0, 1} /\ x + 1 = 2 * y2 + t2
    BY <1>1, <1>4, Halves
  <2>2. y2 = y /\ t2 = 1
    <3> HIDE DEF y2, t2, x, y
    <3> QED BY <1>2, <2>1
  <2> QED BY <2>2
<1>6. CommonBits(h, r, u) = C
  <2>1. \A w \in PowersOfTwo : w < h => (HasBit(w, r) <=> HasBit(w, l))
    BY LowBitsKept
  <2> QED BY <2>1 DEF CommonBits, HasBit
<1>7. IsFiniteSet(C) /\ h \notin C
  BY CommonBitsFinite, CommonBitsNext
<1>8. CommonBits(2 * h, l, u) = C
  <2>1. ~HasBit(h, l)
    BY <1>2 DEF HasBit
  <2>2. CommonBits(2 * h, l, u) = CommonBits(h, l, u) \cup (IF HasBit(h, l) /\ HasBit(h, u) THEN {h} ELSE {})
    BY CommonBitsNext
  <2> QED BY <2>1, <2>2
<1>9. CommonBits(2 * h, r, u) = IF U % 2 = 1 THEN C \cup {h} ELSE C
  <2>1. HasBit(h, r)
    BY <1>5 DEF HasBit
  <2>2. HasBit(h, u) <=> U % 2 = 1
    BY DEF HasBit
  <2>3. CommonBits(2 * h, r, u) = CommonBits(h, r, u) \cup (IF HasBit(h, r) /\ HasBit(h, u) THEN {h} ELSE {})
    BY <1>1, CommonBitsNext
  <2> QED BY <1>6, <2>1, <2>2, <2>3
<1>10. Sign(C \cup {h}, sign) = -Sign(C, sign) /\ Sign(C, sign) \in Int
  BY <1>7, SignTurns
<1> DEFINE s == Sign(C, sign)
<1>11. /\ Transformed(h, l, u, sign) = IF x # U THEN 0 ELSE s
       /\ Transformed(h, r, u, sign) = IF x + 1 # U THEN 0 ELSE s
       /\ Transformed(2 * h, l, u, sign) = IF y # V THEN 0 ELSE s
       /\ Transformed(2 * h, r, u, sign) = IF y # V THEN 0 ELSE IF U % 2 = 1 THEN -s ELSE s
  <2>1. Transformed(h, l, u, sign) = IF x # U THEN 0 ELSE s
    BY DEF Transformed
  <2>2. Transformed(h, r, u, sign) = IF x + 1 # U THEN 0 ELSE s
    BY <1>4, <1>6 DEF Transformed
  <2>3. Transformed(2 * h, l, u, sign) = IF y # V THEN 0 ELSE s
    BY <1>8 DEF Transformed
  <2>4. Transformed(2 * h, r, u, sign) = IF y # V THEN 0 ELSE IF U % 2 = 1 THEN -s ELSE s
    BY <1>5, <1>9, <1>10 DEF Transformed
  <2> QED BY <2>1, <2>2, <2>3, <2>4
<1>12. s \in Int
  BY <1>10
<1> HIDE DEF s, x, y, U, V, r, C
<1>13. CASE y # V
  <2>1. x # U /\ x + 1 # U
    BY <1>2, <1>3, <1>13
  <2> QED BY <1>11, <1>13, <2>1 DEF r
<1>14. CASE y = V /\ U % 2 = 0
  <2>1. x = U /\ x + 1 # U
    BY <1>2, <1>3, <1>14
  <2> QED BY <1>11, <1>12, <1>14, <2>1 DEF r
<1>15. CASE y = V /\ U % 2 = 1
  <2>1. x # U /\ x + 1 = U
    BY <1>2, <1>3, <1>15
  <2> QED BY <1>11, <1>12, <1>15, <2>1 DEF r
<1> QED BY <1>3, <1>13, <1>14, <1>15

-----------------------------------------------------------------------------
(* The loops of the rotation. *)

Multiple(n, w) == \E k \in Nat : n = w * k

\* The places of a block that the butterflies of this level have passed.
Passed(p, h, s, o) ==
  \/ p < s
  \/ s <= p /\ p - s < o
  \/ s + h <= p /\ p - s - h < o

\* The length of the blocks in which coordinate d is transformed, while the
\* block of B at b is at level h.
Level(d, B, b, h, s, o) ==
  IF d < b THEN B
  ELSE IF b + B <= d THEN 1
  ELSE IF Passed(d - b, h, s, o) THEN 2 * h ELSE h

\* Every coordinate below n is transformed as far as the loops have come.
AtLevels(v, n, B, b, h, s, o, u, sign) ==
  \A d \in 0..(n - 1) : v[d] = Transformed(Level(d, B, b, h, s, o), d, u, sign)

TransformedSoFar(v, n, B, b, h, s, o, u) ==
  \E sign \in {1, -1} : AtLevels(v, n, B, b, h, s, o, u, sign)

\* Where the loops stand: within a block, at a level of it, before a butterfly.
LoopsStand(n, B, b, h, s, o) ==
  /\ h \in PowersOfTwo /\ h <= B
  /\ b \in Nat /\ s \in Nat /\ o \in Nat
  /\ Multiple(b, B) /\ b + B <= n
  /\ h < B => Multiple(s, 2 * h) /\ s + 2 * h <= B /\ o < h
  /\ h = B => s = 0 /\ o = 0

LEMMA MultiplesAdd ==
  ASSUME NEW w \in Nat, NEW x, NEW y, Multiple(x, w), Multiple(y, w)
  PROVE  Multiple(x + y, w)
<1>1. PICK k, j \in Nat : x = w * k /\ y = w * j
  BY DEF Multiple
<1>2. w * (k + j) = w * k + w * j
  OBVIOUS
<1>3. k + j \in Nat /\ x + y = w * (k + j)
  BY <1>1, <1>2
<1> QED BY <1>3 DEF Multiple

LEMMA MultiplesTrans ==
  ASSUME NEW w \in Nat, NEW x, NEW y, Multiple(x, w), Multiple(y, x)
  PROVE  Multiple(y, w)
<1>1. PICK k, j \in Nat : x = w * k /\ y = x * j
  BY DEF Multiple
<1>2. (w * k) * j = w * (k * j)
  OBVIOUS
<1>3. k * j \in Nat /\ y = w * (k * j)
  BY <1>1, <1>2
<1> QED BY <1>3 DEF Multiple

\* Two different multiples are at least one unit apart.
LEMMA MultiplesApart ==
  ASSUME NEW w \in Nat \ {0}, NEW x, NEW y, Multiple(x, w), Multiple(y, w), x < y
  PROVE  x + w <= y
<1>1. PICK k, j \in Nat : x = w * k /\ y = w * j
  BY DEF Multiple
<1>2. k < j
  <2>1. ASSUME NEW e \in Nat, k = j + e PROVE FALSE
    <3>1. w * (j + e) = w * j + w * e /\ w * e \in Nat /\ w * j \in Nat
      OBVIOUS
    <3> QED BY <1>1, <2>1, <3>1
  <2>2. k >= j => k - j \in Nat /\ k = j + (k - j)
    OBVIOUS
  <2> QED BY <2>1, <2>2
<1>3. PICK e \in Nat : j = k + 1 + e
  <2>1. j - k - 1 \in Nat /\ j = k + 1 + (j - k - 1)
    BY <1>2
  <2> QED BY <2>1
<1>4. w * (k + 1 + e) = w * k + w + w * e /\ w * e \in Nat /\ w * k \in Nat
  OBVIOUS
<1> QED BY <1>1, <1>3, <1>4

LEMMA PowersMultiply ==
  ASSUME NEW h \in PowersOfTwo, NEW w \in PowersOfTwo, w <= h
  PROVE  Multiple(h, w)
<1>1. CASE w = h
  <2>1. h = w * 1
    BY <1>1, PowersAre
  <2> QED BY <2>1 DEF Multiple
<1>2. CASE w < h
  <2>1. PICK m \in Nat : h = w * (2 * m)
    BY <1>2, PowersDivide
  <2>2. 2 * m \in Nat
    OBVIOUS
  <2> QED BY <2>1, <2>2 DEF Multiple
<1> QED BY <1>1, <1>2, PowersAre

\* The levels before a butterfly and after it.
LEMMA LevelOfButterfly ==
  ASSUME NEW B \in Nat, NEW b \in Nat, NEW h \in Nat \ {0}, NEW s \in Nat, NEW o \in Nat,
         o < h, s + 2 * h <= B
  PROVE  /\ Level(b + s + o, B, b, h, s, o) = h
         /\ Level(b + s + o + h, B, b, h, s, o) = h
  BY DEF Level, Passed

NextLevel(d, B, b, h, s, o) ==
  IF d \in {b + s + o, b + s + o + h} THEN 2 * h ELSE Level(d, B, b, h, s, o)

AtNextLevels(v, n, B, b, h, s, o, u, sign) ==
  \A d \in 0..(n - 1) : v[d] = Transformed(NextLevel(d, B, b, h, s, o), d, u, sign)

LEMMA LevelNextOffset ==
  ASSUME NEW B \in Nat, NEW b \in Nat, NEW h \in Nat \ {0}, NEW s \in Nat, NEW o \in Nat,
         o + 1 < h, s + 2 * h <= B, NEW d \in Nat
  PROVE  Level(d, B, b, h, s, o + 1) = NextLevel(d, B, b, h, s, o)
  BY DEF Level, Passed, NextLevel

LEMMA LevelNextStart ==
  ASSUME NEW B \in Nat, NEW b \in Nat, NEW h \in Nat \ {0}, NEW s \in Nat, NEW o \in Nat,
         o < h, ~(o + 1 < h), s + 2 * h <= B, NEW d \in Nat
  PROVE  Level(d, B, b, h, s + h * 2, 0) = NextLevel(d, B, b, h, s, o)
  BY DEF Level, Passed, NextLevel

LEMMA LevelNextHalf ==
  ASSUME NEW B \in Nat, NEW b \in Nat, NEW h \in Nat \ {0}, NEW s \in Nat, NEW o \in Nat,
         o < h, ~(o + 1 < h), s + 2 * h = B, NEW d \in Nat
  PROVE  Level(d, B, b, h * 2, 0, 0) = NextLevel(d, B, b, h, s, o)
  BY DEF Level, Passed, NextLevel

\* The next block: the last one is transformed, the others are not begun.
LEMMA LevelNextBlock ==
  ASSUME NEW B \in Nat \ {0}, NEW b \in Nat, NEW d \in Nat
  PROVE  /\ Level(d, B, b + B, 1, 0, 0) = Level(d, B, b, B, 0, 0)
         /\ d < b + B => Level(d, B, b, B, 0, 0) = B
  BY DEF Level, Passed

\* Before a butterfly.
ButterflyIsNext(v, n, B, b, h, s, o, u, sign) ==
  /\ n \in Nat /\ v \in [0..(n - 1) -> Int] /\ B \in PowersOfTwo /\ h \in PowersOfTwo /\ h < B
  /\ b \in Nat /\ s \in Nat /\ o \in Nat /\ u \in Nat /\ sign \in {1, -1}
  /\ LoopsStand(n, B, b, h, s, o)
  /\ AtLevels(v, n, B, b, h, s, o, u, sign)

LEMMA ButterflyTransforms ==
  ASSUME NEW n, NEW v, NEW B, NEW b, NEW h, NEW s, NEW o, NEW u, NEW sign,
         ButterflyIsNext(v, n, B, b, h, s, o, u, sign)
  PROVE  /\ Butterfly(v, b + s + o, b + s + o + h) \in [0..(n - 1) -> Int]
         /\ AtNextLevels(Butterfly(v, b + s + o, b + s + o + h), n, B, b, h, s, o, u, sign)
<1> DEFINE l == b + s + o
           r == l + h
           w == Butterfly(v, l, r)
           g == 2 * h
<1>1. /\ n \in Nat /\ v \in [0..(n - 1) -> Int] /\ B \in PowersOfTwo /\ h \in PowersOfTwo /\ h < B
      /\ b \in Nat /\ s \in Nat /\ o \in Nat /\ u \in Nat /\ sign \in {1, -1}
      /\ LoopsStand(n, B, b, h, s, o)
      /\ AtLevels(v, n, B, b, h, s, o, u, sign)
  BY DEF ButterflyIsNext
<1>2. h \in Nat \ {0} /\ B \in Nat \ {0} /\ g \in Nat \ {0}
  BY <1>1, PowersAre
<1>3. Multiple(b, B) /\ b + B <= n /\ Multiple(s, g) /\ s + 2 * h <= B /\ o < h
  BY <1>1 DEF LoopsStand
<1>4. l \in 0..(n - 1) /\ r \in 0..(n - 1) /\ l # r
  BY <1>1, <1>2, <1>3
<1>5. l % g < h
  <2>1. g \in PowersOfTwo /\ g <= B
    BY <1>1, Doubles
  <2>2. Multiple(B, g)
    BY <1>1, <2>1, PowersMultiply
  <2>3. Multiple(b, g)
    BY <1>1, <1>2, <1>3, <2>2, MultiplesTrans
  <2>4. Multiple(b + s, g)
    BY <1>1, <1>2, <1>3, <2>3, MultiplesAdd
  <2>5. PICK k \in Nat : b + s = g * k
    BY <1>1, <2>4 DEF Multiple
  <2>6. l \in Nat /\ l = g * k + o /\ o < g
    BY <1>1, <1>2, <1>3, <2>5
  <2>7. l % g = o
    <3> HIDE DEF l, g
    <3> QED BY <1>1, <1>2, <2>6, DividedOnce
  <2> QED BY <1>1, <1>3, <2>7
<1>6. v[l] = Transformed(h, l, u, sign) /\ v[r] = Transformed(h, r, u, sign)
  <2>1. Level(l, B, b, h, s, o) = h /\ Level(r, B, b, h, s, o) = h
    BY <1>1, <1>2, <1>3, LevelOfButterfly
  <2> HIDE DEF l, r
  <2> QED BY <1>1, <1>4, <2>1 DEF AtLevels
<1>7. /\ Transformed(g, l, u, sign) = Transformed(h, l, u, sign) + Transformed(h, r, u, sign)
      /\ Transformed(g, r, u, sign) = Transformed(h, l, u, sign) - Transformed(h, r, u, sign)
  <2>1. l \in Nat
    BY <1>1
  <2> HIDE DEF l
  <2> QED BY <1>1, <1>5, <2>1, TransformDoubles DEF r, g
<1>8. v[l] \in Int /\ v[r] \in Int
  <2> HIDE DEF l, r
  <2> QED BY <1>1, <1>4
<1>9. w = [v EXCEPT ![l] = v[l] + v[r], ![r] = v[l] - v[r]]
  BY DEF Butterfly
<1> HIDE DEF l, r, w
<1>10. w \in [0..(n - 1) -> Int]
  BY <1>1, <1>4, <1>8, <1>9
<1>11. w[l] = v[l] + v[r] /\ w[r] = v[l] - v[r] /\ \A d \in 0..(n - 1) \ {l, r} : w[d] = v[d]
  BY <1>1, <1>4, <1>9
<1>12. ASSUME NEW d \in 0..(n - 1) PROVE w[d] = Transformed(NextLevel(d, B, b, h, s, o), d, u, sign)
  <2>1. NextLevel(d, B, b, h, s, o) = IF d \in {l, r} THEN g ELSE Level(d, B, b, h, s, o)
    BY DEF NextLevel, l, r
  <2>2. CASE d = l
    BY <1>1, <1>6, <1>7, <1>11, <2>1, <2>2
  <2>3. CASE d = r
    BY <1>1, <1>6, <1>7, <1>11, <2>1, <2>3
  <2>4. CASE d \notin {l, r}
    BY <1>1, <1>11, <2>1, <2>4 DEF AtLevels
  <2> QED BY <1>1, <2>2, <2>3, <2>4
<1>13. w = Butterfly(v, b + s + o, b + s + o + h)
  BY DEF w, l, r
<1> QED BY <1>1, <1>10, <1>12, <1>13 DEF AtNextLevels

-----------------------------------------------------------------------------
(* The blocks. *)

LEMMA BlockChosen ==
  ASSUME NEW d \in Nat \ {0}
  PROVE  /\ BlockSize(d) \in {8, 16, 32, 64, 128, 256, 512}
         /\ Divides(d) # {} => d % BlockSize(d) = 0
<1> DEFINE D == Divides(d)
           k == CHOOSE i \in D : \A j \in D : i <= j
<1>1. \A i \in D : i \in 1..7 /\ d % BLOCK_CANDIDATES[i] = 0
  BY DEF Divides, BLOCK_CANDIDATES
<1>2. ASSUME D # {} PROVE k \in D
  <2>1. \E i \in D : \A j \in D : i <= j
    <3> HIDE DEF D
    <3> QED BY <1>1, <1>2
  <2> QED BY <2>1
<1>3. CASE D = {}
  BY <1>3 DEF BlockSize
<1>4. CASE D # {}
  <2>1. BlockSize(d) = BLOCK_CANDIDATES[k]
    BY <1>4 DEF BlockSize
  <2> HIDE DEF k
  <2>2. k \in 1..7 /\ d % BLOCK_CANDIDATES[k] = 0
    BY <1>1, <1>2, <1>4
  <2>3. BLOCK_CANDIDATES[k] \in {8, 16, 32, 64, 128, 256, 512}
    BY <2>2 DEF BLOCK_CANDIDATES
  <2> QED BY <2>1, <2>2, <2>3
<1> QED BY <1>3, <1>4

LEMMA BlocksArePowers ==
  ASSUME NEW d \in Nat \ {0}
  PROVE  BlockSize(d) \in PowersOfTwo \ {1, 2, 4}
  BY BlockChosen DEF PowersOfTwo

LEMMA PaddedTiles ==
  ASSUME NEW d \in Nat \ {0}
  PROVE  /\ Padded(d) \in Nat \ {0} /\ Padded(d) >= d /\ Padded(d) - d < 8
         /\ Padded(d) % BlockSize(d) = 0 /\ Padded(d) % 8 = 0
<1> DEFINE B == BlockSize(d)
<1>1. CASE Divides(d) = {}
  <2>1. B = 8 /\ Padded(d) = ((d + 7) \div 8) * 8
    BY <1>1 DEF BlockSize, Padded
  <2> DEFINE q == (d + 7) \div 8
  <2>2. q \in Nat /\ q * 8 <= d + 7 /\ d + 7 < q * 8 + 8
    OBVIOUS
  <2> HIDE DEF q
  <2>3. q * 8 \in Nat \ {0} /\ q * 8 >= d /\ q * 8 - d < 8 /\ (q * 8) % 8 = 0
    BY <2>2
  <2> QED BY <2>1, <2>3 DEF q
<1>2. CASE Divides(d) # {}
  <2>1. Padded(d) = d
    BY <1>2 DEF Padded
  <2>2. B \in {8, 16, 32, 64, 128, 256, 512} /\ d % B = 0
    BY <1>2, BlockChosen
  <2>3. d % 8 = 0
    <3> HIDE DEF B
    <3>1. CASE B = 8
      BY <2>2, <3>1
    <3>2. CASE B = 16
      BY <2>2, <3>2
    <3>3. CASE B = 32
      BY <2>2, <3>3
    <3>4. CASE B = 64
      BY <2>2, <3>4
    <3>5. CASE B = 128
      BY <2>2, <3>5
    <3>6. CASE B = 256
      BY <2>2, <3>6
    <3>7. CASE B = 512
      BY <2>2, <3>7
    <3> QED BY <2>2, <3>1, <3>2, <3>3, <3>4, <3>5, <3>6, <3>7
  <2> QED BY <2>1, <2>2, <2>3
<1> QED BY <1>1, <1>2

LEMMA PaddedIsBlocks ==
  ASSUME NEW d \in Nat \ {0}
  PROVE  Multiple(Padded(d), BlockSize(d)) /\ BlockSize(d) <= Padded(d)
<1> DEFINE n == Padded(d)
           B == BlockSize(d)
<1>1. n \in Nat \ {0} /\ n % B = 0 /\ B \in PowersOfTwo
  BY PaddedTiles, BlocksArePowers
<1>2. B \in Nat \ {0}
  BY <1>1, PowersAre
<1> HIDE DEF n, B
<1>3. PICK k \in Nat : n = B * k
  <2>1. PICK k, r \in Nat : r < B /\ n = B * k + r /\ n \div B = k /\ n % B = r
    BY <1>1, <1>2, Divided
  <2>2. B * k \in Nat
    BY <1>2
  <2> QED BY <1>1, <2>1, <2>2
<1>4. Multiple(n, B)
  BY <1>3 DEF Multiple
<1>5. Multiple(0, B)
  <2>1. 0 = B * 0
    BY <1>2
  <2> QED BY <2>1 DEF Multiple
<1>6. 0 + B <= n
  BY <1>1, <1>2, <1>4, <1>5, MultiplesApart
<1> QED BY <1>1, <1>2, <1>4, <1>6 DEF n, B

\* Rows of every width are whole chunks of eight codes.
LEMMA StrideIsChunks ==
  ASSUME dims \in Nat \ {0}, bits \in 2..4
  PROVE  /\ Padded(dims) \div 8 \in Nat /\ Padded(dims) = 8 * (Padded(dims) \div 8)
         /\ RowStride = (Padded(dims) \div 8) * bits
         /\ RowStride * 8 = Padded(dims) * bits /\ RowStride % bits = 0
<1> DEFINE n == Padded(dims)
<1>1. n \in Nat /\ n % 8 = 0
  BY PaddedTiles
<1>2. RowStride = (n * bits + 7) \div 8
  BY DEF RowStride
<1> HIDE DEF n
<1>3. PICK q \in Nat : n = 8 * q /\ n \div 8 = q
  BY <1>1
<1>4. bits = 2 \/ bits = 3 \/ bits = 4
  OBVIOUS
<1>5. (n * bits + 7) \div 8 = q * bits /\ (q * bits) * 8 = n * bits /\ (q * bits) % bits = 0
  BY <1>3, <1>4
<1> QED BY <1>2, <1>3, <1>5 DEF n

\* The butterflies.

TypeOfDims == dims \in Nat \ {0} /\ bits \in 2..4

Turning ==
  /\ values \in [Coordinates -> Int]
  /\ unit \in Coordinates
  /\ LoopsStand(Padded(dims), Block, block, half, start, offset)
  /\ TransformedSoFar(values, Padded(dims), Block, block, half, start, offset, unit)

LEMMA BlockFacts ==
  ASSUME TypeOfDims
  PROVE  /\ Block \in PowersOfTwo /\ Block \in Nat \ {0} /\ Block > 1
         /\ Padded(dims) \in Nat \ {0}
         /\ Multiple(Padded(dims), Block) /\ Block <= Padded(dims)
<1>1. dims \in Nat \ {0}
  BY DEF TypeOfDims
<1>2. Block \in PowersOfTwo /\ Block \in {8, 16, 32, 64, 128, 256, 512}
  BY <1>1, BlocksArePowers, BlockChosen DEF Block
<1>3. Block \in Nat \ {0} /\ Block > 1
  BY <1>2
<1> QED BY <1>1, <1>2, <1>3, PaddedTiles, PaddedIsBlocks DEF Block

LEMMA TurningBegins ==
  ASSUME TypeOfDims, block = 0, half = 1, start = 0, offset = 0, unit \in 0..(dims - 1),
         \E sign \in {1, -1} : values = [d \in Coordinates |-> IF d = unit THEN sign ELSE 0]
  PROVE  Turning
<1> DEFINE n == Padded(dims)
<1>1. dims \in Nat \ {0} /\ n \in Nat /\ dims <= n
  BY PaddedTiles DEF TypeOfDims
<1>2. PICK sign \in {1, -1} : values = [d \in Coordinates |-> IF d = unit THEN sign ELSE 0]
  OBVIOUS
<1>3. unit \in Coordinates /\ values \in [Coordinates -> Int]
  BY <1>1, <1>2 DEF Coordinates
<1>4. 1 \in PowersOfTwo /\ 2 * 1 \in PowersOfTwo /\ Multiple(0, Block) /\ Multiple(0, 2 * 1)
  <2>1. 0 = Block * 0 /\ 0 = (2 * 1) * 0
    BY BlockFacts
  <2> QED BY <2>1 DEF Multiple, PowersOfTwo
<1>5. 2 * 1 <= Block
  BY BlockFacts
<1>6. LoopsStand(n, Block, 0, 1, 0, 0)
  BY <1>4, <1>5, BlockFacts DEF LoopsStand
<1>7. ASSUME NEW d \in 0..(n - 1)
      PROVE  values[d] = Transformed(Level(d, Block, 0, 1, 0, 0), d, unit, sign)
  <2>1. values[d] = IF d = unit THEN sign ELSE 0
    BY <1>2 DEF Coordinates
  <2>2. Level(d, Block, 0, 1, 0, 0) = 1
    BY <1>1, BlockFacts DEF Level, Passed
  <2>3. d \div 1 = d /\ unit \div 1 = unit
    BY <1>1
  <2>4. CommonBits(1, d, unit) = {}
    BY DEF CommonBits, PowersOfTwo
  <2>5. Cardinality({}) % 2 = 0
    BY FS_EmptySet
  <2>6. Sign(CommonBits(1, d, unit), sign) = sign
    BY <2>4, <2>5 DEF Sign
  <2> QED BY <2>1, <2>2, <2>3, <2>6 DEF Transformed
<1> QED BY <1>2, <1>3, <1>6, <1>7 DEF Turning, TransformedSoFar, AtLevels

\* The loops after a butterfly.
LEMMA LoopsGoOn ==
  ASSUME NEW n \in Nat, NEW B \in PowersOfTwo, NEW b, NEW h, NEW s, NEW o,
         LoopsStand(n, B, b, h, s, o), h < B
  PROVE  /\ o + 1 < h => LoopsStand(n, B, b, h, s, o + 1)
         /\ ~(o + 1 < h) /\ s + h * 2 < B => LoopsStand(n, B, b, h, s + h * 2, 0)
         /\ ~(s + h * 2 < B) => LoopsStand(n, B, b, h * 2, 0, 0) /\ s + 2 * h = B
<1>1. /\ h \in PowersOfTwo /\ b \in Nat /\ s \in Nat /\ o \in Nat
      /\ Multiple(b, B) /\ b + B <= n
      /\ Multiple(s, 2 * h) /\ s + 2 * h <= B /\ o < h
  BY DEF LoopsStand
<1>2. h \in Nat \ {0} /\ B \in Nat \ {0} /\ 2 * h \in PowersOfTwo /\ 2 * h <= B /\ h * 2 = 2 * h
  BY <1>1, PowersAre, Doubles
<1>3. ASSUME o + 1 < h PROVE LoopsStand(n, B, b, h, s, o + 1)
  BY <1>1, <1>2, <1>3 DEF LoopsStand
<1>4. ASSUME s + h * 2 < B PROVE LoopsStand(n, B, b, h, s + h * 2, 0)
  <2>1. Multiple(B, 2 * h)
    BY <1>2, PowersMultiply
  <2>2. Multiple(2 * h, 2 * h)
    BY <1>2, PowersMultiply
  <2>3. Multiple(s + 2 * h, 2 * h)
    <3>1. 2 * h \in Nat
      BY <1>2
    <3> QED BY <1>1, <2>2, <3>1, MultiplesAdd
  <2>4. (s + 2 * h) + 2 * h <= B
    BY <1>1, <1>2, <1>4, <2>1, <2>3, MultiplesApart
  <2> QED BY <1>1, <1>2, <2>3, <2>4 DEF LoopsStand
<1>5. ASSUME ~(s + h * 2 < B) PROVE LoopsStand(n, B, b, h * 2, 0, 0) /\ s + 2 * h = B
  <2>1. s + 2 * h = B
    BY <1>1, <1>2, <1>5
  <2>2. ASSUME 2 * h < B PROVE Multiple(0, 2 * (2 * h)) /\ 0 + 2 * (2 * h) <= B
    <3>1. 2 * (2 * h) \in Nat /\ 2 * (2 * h) <= B
      BY <1>2, <2>2, Doubles
    <3>2. 0 = (2 * (2 * h)) * 0
      BY <3>1
    <3> QED BY <3>1, <3>2 DEF Multiple
  <2>3. LoopsStand(n, B, b, 2 * h, 0, 0)
    BY <1>1, <1>2, <2>2 DEF LoopsStand
  <2> QED BY <1>2, <2>1, <2>3
<1> QED BY <1>3, <1>4, <1>5

LEMMA RotateTurns ==
  ASSUME TypeOfDims, Turning, Rotate
  PROVE  Turning' /\ pc' = "rotate"
<1> DEFINE n == Padded(dims)
<1>1. /\ pc' = pc /\ pc = "rotate" /\ dims' = dims /\ unit' = unit /\ block' = block
      /\ half < Block
      /\ values' = Butterfly(values, block + start + offset, block + start + offset + half)
  BY DEF Rotate
<1>2. Padded(dims)' = n /\ Block' = Block /\ Coordinates' = 0..(n - 1) /\ Coordinates = 0..(n - 1)
  BY <1>1 DEF Coordinates, Block
<1>3. values \in [0..(n - 1) -> Int] /\ unit \in 0..(n - 1) /\ n \in Nat /\ Block \in PowersOfTwo
  BY <1>2, BlockFacts DEF Turning
<1>4. LoopsStand(n, Block, block, half, start, offset)
  BY DEF Turning
<1>5. PICK sign \in {1, -1} : AtLevels(values, n, Block, block, half, start, offset, unit, sign)
  BY DEF Turning, TransformedSoFar
<1>6. /\ half \in PowersOfTwo /\ half \in Nat \ {0} /\ block \in Nat /\ start \in Nat /\ offset \in Nat
      /\ offset < half /\ start + 2 * half <= Block /\ Block \in Nat
  BY <1>1, <1>3, <1>4, PowersAre DEF LoopsStand
<1>7. /\ values' \in [0..(n - 1) -> Int]
      /\ AtNextLevels(values', n, Block, block, half, start, offset, unit, sign)
  <2>1. ButterflyIsNext(values, n, Block, block, half, start, offset, unit, sign)
    BY <1>1, <1>3, <1>4, <1>5, <1>6 DEF ButterflyIsNext
  <2> HIDE DEF n
  <2> QED BY <1>1, <2>1, ButterflyTransforms
<1> DEFINE Levels(h, s, o) == \A d \in 0..(n - 1) :
             Level(d, Block, block, h, s, o) = NextLevel(d, Block, block, half, start, offset)
<1>8. /\ LoopsStand(n, Block, block, half', start', offset')
      /\ Levels(half', start', offset')
  <2>1. CASE offset + 1 < half
    <3>1. offset' = offset + 1 /\ start' = start /\ half' = half
      BY <2>1 DEF Rotate
    <3>2. LoopsStand(n, Block, block, half, start, offset + 1)
      BY <1>1, <1>3, <1>4, <2>1, LoopsGoOn
    <3>3. Levels(half, start, offset + 1)
      BY <1>6, <2>1, LevelNextOffset
    <3> QED BY <3>1, <3>2, <3>3
  <2>2. CASE ~(offset + 1 < half) /\ start + half * 2 < Block
    <3>1. offset' = 0 /\ start' = start + half * 2 /\ half' = half
      BY <2>2 DEF Rotate
    <3>2. LoopsStand(n, Block, block, half, start + half * 2, 0)
      BY <1>1, <1>3, <1>4, <2>2, LoopsGoOn
    <3>3. Levels(half, start + half * 2, 0)
      BY <1>6, <2>2, LevelNextStart
    <3> QED BY <3>1, <3>2, <3>3
  <2>3. CASE ~(offset + 1 < half) /\ ~(start + half * 2 < Block)
    <3>1. offset' = 0 /\ start' = 0 /\ half' = half * 2
      BY <2>3 DEF Rotate
    <3>2. LoopsStand(n, Block, block, half * 2, 0, 0) /\ start + 2 * half = Block
      BY <1>1, <1>3, <1>4, <2>3, LoopsGoOn
    <3>3. Levels(half * 2, 0, 0)
      BY <1>6, <2>3, <3>2, LevelNextHalf
    <3> QED BY <3>1, <3>2, <3>3
  <2> QED BY <2>1, <2>2, <2>3
<1>9. TransformedSoFar(values', n, Block, block, half', start', offset', unit)
  <2>1. AtLevels(values', n, Block, block, half', start', offset', unit, sign)
    BY <1>7, <1>8 DEF AtLevels, AtNextLevels
  <2> QED BY <2>1 DEF TransformedSoFar
<1> QED BY <1>1, <1>2, <1>3, <1>7, <1>8, <1>9 DEF Turning

LEMMA NextBlockTurns ==
  ASSUME TypeOfDims, Turning, NextBlock
  PROVE  (pc' = "rotate" /\ Turning') \/ (pc' = "done" /\ RotationIsHadamard')
<1> DEFINE n == Padded(dims)
<1>1. /\ pc = "rotate" /\ dims' = dims /\ unit' = unit /\ values' = values
      /\ start' = start /\ offset' = offset /\ half >= Block
  BY DEF NextBlock
<1>2. Padded(dims)' = n /\ Block' = Block /\ Coordinates' = 0..(n - 1) /\ Coordinates = 0..(n - 1)
  BY <1>1 DEF Coordinates, Block
<1>3. n \in Nat \ {0} /\ Block \in Nat \ {0} /\ Block > 1 /\ Block \in PowersOfTwo /\ Multiple(n, Block)
  BY BlockFacts
<1>4. /\ half \in Nat \ {0} /\ half = Block /\ start = 0 /\ offset = 0
      /\ block \in Nat /\ Multiple(block, Block) /\ block + Block <= n
  BY <1>1, <1>3, PowersAre DEF Turning, LoopsStand
<1>5. PICK sign \in {1, -1} : AtLevels(values, n, Block, block, Block, 0, 0, unit, sign)
  BY <1>4 DEF Turning, TransformedSoFar
<1>6. CASE block + Block < n
  <2>1. block' = block + Block /\ half' = 1 /\ pc' = pc
    BY <1>6 DEF NextBlock
  <2>2. Multiple(block + Block, Block)
    <3>1. Multiple(Block, Block)
      BY <1>3, PowersMultiply
    <3> QED BY <1>3, <1>4, <3>1, MultiplesAdd
  <2>3. (block + Block) + Block <= n
    BY <1>3, <1>6, <2>2, MultiplesApart
  <2>4. 1 \in PowersOfTwo /\ 2 * 1 \in PowersOfTwo /\ 2 * 1 <= Block /\ Multiple(0, 2 * 1)
    <3>1. 0 = (2 * 1) * 0
      OBVIOUS
    <3> QED BY <1>3, <3>1 DEF PowersOfTwo, Multiple
  <2>5. LoopsStand(n, Block, block + Block, 1, 0, 0)
    BY <1>3, <1>4, <2>2, <2>3, <2>4 DEF LoopsStand
  <2>6. \A d \in 0..(n - 1) : Level(d, Block, block + Block, 1, 0, 0) = Level(d, Block, block, Block, 0, 0)
    BY <1>3, <1>4, LevelNextBlock
  <2>7. TransformedSoFar(values, n, Block, block + Block, 1, 0, 0, unit)
    BY <1>5, <2>6 DEF TransformedSoFar, AtLevels
  <2> QED BY <1>1, <1>2, <1>4, <2>1, <2>5, <2>7 DEF Turning
<1>7. CASE ~(block + Block < n)
  <2>1. pc' = "done"
    BY <1>7 DEF NextBlock
  <2>2. \A d \in 0..(n - 1) : Level(d, Block, block, Block, 0, 0) = Block
    BY <1>3, <1>4, <1>7, LevelNextBlock
  <2>3. \A d \in Coordinates : values[d] = Transformed(Block, d, unit, sign)
    BY <1>2, <1>5, <2>2 DEF AtLevels
  <2>4. RotationIsHadamard'
    <3>1. \A d \in Coordinates' : values'[d] = Transformed(Block', d, unit', sign)
      BY <1>1, <1>2, <2>3
    <3> QED BY <3>1 DEF RotationIsHadamard, Transformed, Sign
  <2> QED BY <2>1, <2>4
<1> QED BY <1>6, <1>7

-----------------------------------------------------------------------------
(* The packing. *)

\* Whether bit p of a row is set once the codes of the first n dimensions are in.
IsSet(p, n) == p \div bits < n /\ p % bits \in codes[p \div bits]

PackedTo(n) ==
  /\ DOMAIN bytes = 0..(RowStride - 1)
  /\ \A b \in 0..(RowStride - 1) : bytes[b] = {j \in 0..7 : IsSet(8 * b + j, n)}

\* What scoring has read, so far the codes of the first n dimensions.
ReadTo(n) ==
  /\ DOMAIN read = 0..(n - 1) /\ read = [d \in DOMAIN read |-> read[d]]
  /\ \A d \in 0..(n - 1) : read[d] = codes[d]

CodesAreRow == codes \in [Coordinates -> CodeValues]

\* The bits or-ed into a byte are those of the code.
LEMMA OrIntoIsCode ==
  ASSUME bits \in 2..4, dim \in Nat, codes[dim] \subseteq 0..(bits - 1), NEW b \in Nat, NEW j
  PROVE  j \in OrInto(b) <=> j \in 0..7 /\ \E k \in codes[dim] : 8 * b + j = dim * bits + k
<1> DEFINE x == BitOffset
<1>1. x \in Nat /\ x = dim * bits
  BY DEF BitOffset
<1>2. x = 8 * Byte + Shift /\ Byte \in Nat /\ Shift \in 0..7
  <2> HIDE DEF x
  <2>1. Byte = x \div 8 /\ Shift = x % 8
    BY DEF Byte, Shift, x
  <2> QED BY <1>1, <2>1
<1>3. Straddles <=> Shift + bits > 8
  BY DEF Straddles
<1>4. \A i : i \in Shifted <=> \E k \in codes[dim] : i = k + Shift
  <2>1. \A k \in codes[dim] : k \in 0..3 /\ k + Shift \in 0..15
    BY <1>2
  <2> QED BY <2>1 DEF Shifted
<1> DEFINE q == Byte
           h == Shift
           AtPlace(i) == \E k \in codes[dim] : i = k + h
<1> HIDE DEF x
<1>5. CASE b = q
  <2>1. j \in OrInto(b) <=> j \in 0..7 /\ AtPlace(j)
    BY <1>4, <1>5 DEF OrInto
  <2>2. ASSUME j \in 0..7, NEW k \in codes[dim] PROVE 8 * b + j = x + k <=> j = k + h
    BY <1>2, <1>5, <2>2
  <2> QED BY <1>1, <2>1, <2>2
<1>6. CASE b = q + 1
  <2>1. j \in OrInto(b) <=> Straddles /\ \E i \in Shifted \ (0..7) : j = i - 8
    BY <1>2, <1>6 DEF OrInto
  <2>2. ASSUME j \in OrInto(b) PROVE j \in 0..7 /\ \E k \in codes[dim] : 8 * b + j = x + k
    <3>1. PICK i \in Shifted \ (0..7) : j = i - 8
      BY <2>1, <2>2
    <3>2. PICK k \in codes[dim] : i = k + Shift
      BY <1>4, <3>1
    <3>3. k \in 0..3
      OBVIOUS
    <3>4. j \in 0..7 /\ 8 * b + j = x + k
      BY <1>2, <1>6, <3>1, <3>2, <3>3
    <3> QED BY <3>4
  <2>3. ASSUME j \in 0..7, NEW k \in codes[dim], 8 * b + j = x + k PROVE j \in OrInto(b)
    <3>1. k \in 0..3 /\ k < bits /\ k \in Nat
      OBVIOUS
    <3>2. k + Shift = j + 8 /\ Shift + bits > 8
      BY <1>2, <1>6, <2>3, <3>1
    <3>3. k + Shift \in Shifted \ (0..7) /\ j = (k + Shift) - 8
      BY <1>4, <2>3, <3>2
    <3> QED BY <1>3, <2>1, <3>2, <3>3
  <2> QED BY <1>1, <2>2, <2>3
<1>7. CASE b # q /\ b # q + 1
  <2>1. OrInto(b) = {}
    BY <1>7 DEF OrInto
  <2>2. ASSUME j \in 0..7, NEW k \in codes[dim], 8 * b + j = x + k PROVE FALSE
    <3>1. k \in 0..3
      OBVIOUS
    <3> QED BY <1>2, <1>7, <2>2, <3>1
  <2> QED BY <1>1, <2>1, <2>2
<1> QED BY <1>5, <1>6, <1>7

\* The bits that one code more sets.
LEMMA OneCodeMore ==
  ASSUME bits \in 2..4, dim \in Nat, codes[dim] \subseteq 0..(bits - 1), NEW p \in Nat
  PROVE  IsSet(p, dim + 1) <=> IsSet(p, dim) \/ \E k \in codes[dim] : p = dim * bits + k
<1>1. bits \in Nat \ {0}
  OBVIOUS
<1>2. PICK c, r \in Nat : r < bits /\ p = bits * c + r /\ p \div bits = c /\ p % bits = r
  BY <1>1, Divided
<1>3. ASSUME c = dim, r \in codes[dim] PROVE \E k \in codes[dim] : p = dim * bits + k
  <2>1. p = dim * bits + r
    BY <1>1, <1>2, <1>3
  <2> QED BY <1>3, <2>1
<1>4. ASSUME NEW k \in codes[dim], p = dim * bits + k PROVE c = dim /\ r \in codes[dim]
  <2>1. k \in Nat /\ k < bits
    OBVIOUS
  <2>2. p = bits * dim + k
    BY <1>1, <1>4, <2>1
  <2>3. p \div bits = dim /\ p % bits = k
    BY <1>1, <2>1, <2>2, DividedOnce
  <2> QED BY <1>2, <1>4, <2>3
<1>5. IsSet(p, dim + 1) <=> IsSet(p, dim) \/ (c = dim /\ r \in codes[dim])
  <2>1. c < dim + 1 <=> c < dim \/ c = dim
    OBVIOUS
  <2> QED BY <1>2, <2>1 DEF IsSet
<1> QED BY <1>3, <1>4, <1>5

LEMMA PackCodePacks ==
  ASSUME TypeOfDims, CodesAreRow, dim \in Coordinates, PackedTo(dim), PackCode
  PROVE  PackedTo(dim)' /\ CodesAreRow' /\ dim' = dim + 1
<1> DEFINE n == dim
<1>1. dims' = dims /\ bits' = bits /\ codes' = codes /\ dim' = dim + 1
      /\ bytes' = [b \in DOMAIN bytes |-> bytes[b] \union OrInto(b)]
  BY DEF PackCode
<1>2. RowStride' = RowStride /\ Coordinates' = Coordinates /\ CodeValues' = CodeValues
  BY <1>1 DEF RowStride, Coordinates, CodeValues
<1>3. bits \in 2..4 /\ dim \in Nat /\ codes[dim] \subseteq 0..(bits - 1)
  BY DEF TypeOfDims, Coordinates, CodesAreRow, CodeValues
<1>4. ASSUME NEW b \in 0..(RowStride - 1)
      PROVE  bytes'[b] = {j \in 0..7 : IsSet(8 * b + j, dim + 1)}
  <2>1. bytes'[b] = {j \in 0..7 : IsSet(8 * b + j, dim)} \union OrInto(b)
    BY <1>1 DEF PackedTo
  <2>2. b \in Nat
    OBVIOUS
  <2>3. ASSUME NEW j PROVE j \in OrInto(b) => j \in 0..7
    BY <1>3, <2>2, OrIntoIsCode
  <2>4. ASSUME NEW j \in 0..7
        PROVE  IsSet(8 * b + j, dim + 1) <=> IsSet(8 * b + j, dim) \/ j \in OrInto(b)
    <3>1. 8 * b + j \in Nat
      BY <2>2
    <3>2. j \in OrInto(b) <=> \E k \in codes[dim] : 8 * b + j = dim * bits + k
      BY <1>3, <2>2, OrIntoIsCode
    <3>3. IsSet(8 * b + j, dim + 1) <=>
            IsSet(8 * b + j, dim) \/ \E k \in codes[dim] : 8 * b + j = dim * bits + k
      BY <1>3, <3>1, OneCodeMore
    <3> QED BY <3>2, <3>3
  <2> QED BY <2>1, <2>3, <2>4
<1>5. PackedTo(dim)'
  BY <1>1, <1>2, <1>4 DEF PackedTo, IsSet
<1>6. CodesAreRow'
  BY <1>1, <1>2 DEF CodesAreRow
<1> QED BY <1>1, <1>5, <1>6

-----------------------------------------------------------------------------
(* The scoring. *)

\* The codes of a row, once it is packed to the end.
RowHolds(b, j, n) == j \in bytes[b] <=> j \in 0..7 /\ IsSet(8 * b + j, n)

\* The bit at k of the code at lane of a chunk of eight, in a chunk that begins at byte c * bits.
LEMMA LaneOfTwo ==
  ASSUME NEW n, bits = 2, NEW c \in Nat, NEW lane \in 0..7, NEW k \in 0..1,
         \A b \in 2 * c..(2 * c + 1) : \A j \in 0..7 : RowHolds(b, j, n)
  PROVE  (lane % 4) * 2 + k \in bytes[2 * c + (lane \div 4)] <=> IsSet(2 * (8 * c + lane) + k, n)
<1> DEFINE b == 2 * c + (lane \div 4)
           j == (lane % 4) * 2 + k
<1>1. b \in 2 * c..(2 * c + 1) /\ j \in 0..7 /\ 8 * b + j = 2 * (8 * c + lane) + k
  OBVIOUS
<1> HIDE DEF b, j
<1>2. j \in bytes[b] <=> IsSet(8 * b + j, n)
  BY <1>1 DEF RowHolds
<1> QED BY <1>1, <1>2 DEF b, j

LEMMA LaneOfFour ==
  ASSUME NEW n, bits = 4, NEW c \in Nat, NEW lane \in 0..7, NEW k \in 0..3,
         \A b \in 4 * c..(4 * c + 3) : \A j \in 0..7 : RowHolds(b, j, n)
  PROVE  (lane % 2) * 4 + k \in bytes[4 * c + (lane \div 2)] <=> IsSet(4 * (8 * c + lane) + k, n)
<1> DEFINE b == 4 * c + (lane \div 2)
           j == (lane % 2) * 4 + k
<1>1. b \in 4 * c..(4 * c + 3) /\ j \in 0..7 /\ 8 * b + j = 4 * (8 * c + lane) + k
  OBVIOUS
<1> HIDE DEF b, j
<1>2. j \in bytes[b] <=> IsSet(8 * b + j, n)
  BY <1>1 DEF RowHolds
<1> QED BY <1>1, <1>2 DEF b, j

LEMMA LaneOfThree ==
  ASSUME NEW n, bits = 3, NEW c \in Nat, NEW lane \in 0..7, NEW k \in 0..2,
         \A b \in 3 * c..(3 * c + 2) : bytes[b] \subseteq 0..7 /\ \A j \in 0..7 : RowHolds(b, j, n)
  PROVE  lane * 3 + k \in bytes[3 * c] \union {i + 8 : i \in bytes[3 * c + 1]}
                                       \union {i + 16 : i \in bytes[3 * c + 2]}
           <=> IsSet(3 * (8 * c + lane) + k, n)
<1> DEFINE x == lane * 3 + k
           f == 3 * c
           word == bytes[f] \union {i + 8 : i \in bytes[f + 1]} \union {i + 16 : i \in bytes[f + 2]}
<1>1. x \in 0..23 /\ f \in Nat /\ 8 * f + x = 3 * (8 * c + lane) + k
  OBVIOUS
<1>2. /\ f \in 3 * c..(3 * c + 2) /\ f + 1 \in 3 * c..(3 * c + 2) /\ f + 2 \in 3 * c..(3 * c + 2)
  OBVIOUS
<1> HIDE DEF x, f
<1>3. bytes[f] \subseteq 0..7 /\ bytes[f + 1] \subseteq 0..7 /\ bytes[f + 2] \subseteq 0..7
  BY <1>2
<1>4. CASE x \in 0..7
  <2>1. x \in word <=> x \in bytes[f]
    BY <1>3, <1>4
  <2>2. x \in bytes[f] <=> IsSet(8 * f + x, n)
    BY <1>2, <1>4 DEF RowHolds
  <2> QED BY <1>1, <2>1, <2>2 DEF x, f
<1>5. CASE x \in 8..15
  <2>1. x \in word <=> x - 8 \in bytes[f + 1]
    <3>1. x \in word <=> \E i \in bytes[f + 1] : x = i + 8
      BY <1>3, <1>5
    <3>2. \A i \in 0..7 : x = i + 8 <=> i = x - 8
      BY <1>5
    <3> QED BY <1>3, <1>5, <3>1, <3>2
  <2>2. x - 8 \in 0..7 /\ 8 * (f + 1) + (x - 8) = 8 * f + x
    BY <1>1, <1>5
  <2>3. x - 8 \in bytes[f + 1] <=> IsSet(8 * (f + 1) + (x - 8), n)
    BY <1>2, <2>2 DEF RowHolds
  <2> QED BY <1>1, <2>1, <2>2, <2>3 DEF x, f
<1>6. CASE x \in 16..23
  <2>1. x \in word <=> x - 16 \in bytes[f + 2]
    <3>1. x \in word <=> \E i \in bytes[f + 2] : x = i + 16
      BY <1>3, <1>6
    <3>2. \A i \in 0..7 : x = i + 16 <=> i = x - 16
      BY <1>6
    <3> QED BY <1>3, <1>6, <3>1, <3>2
  <2>2. x - 16 \in 0..7 /\ 8 * (f + 2) + (x - 16) = 8 * f + x
    BY <1>1, <1>6
  <2>3. x - 16 \in bytes[f + 2] <=> IsSet(8 * (f + 2) + (x - 16), n)
    BY <1>2, <2>2 DEF RowHolds
  <2> QED BY <1>1, <2>1, <2>2, <2>3 DEF x, f
<1> QED BY <1>1, <1>4, <1>5, <1>6

\* The code of a lane, of the first n dimensions.
LEMMA LaneIsCode ==
  ASSUME TypeOfDims, CodesAreRow, PackedTo(Padded(dims)), NEW c \in Nat, dim = 8 * c,
         dim + 8 <= Padded(dims), NEW lane \in 0..7
  PROVE  CodeOfLane(lane) = codes[dim + lane]
<1> DEFINE n == Padded(dims)
           d == 8 * c + lane
<1>1. n \in Nat /\ n \div 8 \in Nat /\ n = 8 * (n \div 8) /\ RowStride = (n \div 8) * bits
      /\ bits \in 2..4 /\ dims \in Nat \ {0}
  BY PaddedTiles, StrideIsChunks DEF TypeOfDims
<1>2. d \in 0..(n - 1) /\ d = dim + lane /\ d \in Nat
  BY <1>1
<1>3. codes[d] \subseteq 0..(bits - 1)
  BY <1>2 DEF CodesAreRow, CodeValues, Coordinates
<1>4. First = c * bits
  BY DEF First
<1>5. c + 1 <= n \div 8
  BY <1>1
<1>6. \A b \in 0..(RowStride - 1) : bytes[b] \subseteq 0..7 /\ \A j \in 0..7 : RowHolds(b, j, n)
  BY DEF PackedTo, RowHolds
<1>7. ASSUME NEW k \in 0..(bits - 1) PROVE IsSet(bits * d + k, n) <=> k \in codes[d]
  <2>1. bits * d + k \in Nat /\ k \in Nat /\ k < bits /\ bits \in Nat \ {0}
    BY <1>1, <1>2
  <2>2. (bits * d + k) \div bits = d /\ (bits * d + k) % bits = k
    <3> DEFINE m == bits * d + k
    <3>1. m \in Nat /\ m = bits * d + k
      BY <2>1
    <3> HIDE DEF m, d
    <3>2. m \div bits = d /\ m % bits = k
      BY <1>2, <2>1, <3>1, DividedOnce
    <3> QED BY <3>2 DEF m
  <2> HIDE DEF d
  <2>3. d < n
    BY <1>1, <1>2
  <2> QED BY <2>2, <2>3 DEF IsSet
<1>8. CASE bits = 2
  <2>1. CodeOfLane(lane) = Field(bytes[2 * c + (lane \div 4)], lane % 4)
    <3>1. First = 2 * c
      BY <1>4, <1>8
    <3> QED BY <1>8, <3>1 DEF CodeOfLane
  <2>2. \A b \in 2 * c..(2 * c + 1) : b \in 0..(RowStride - 1)
    BY <1>1, <1>5, <1>8
  <2>3. ASSUME NEW k \in 0..1
        PROVE  k \in Field(bytes[2 * c + (lane \div 4)], lane % 4) <=> k \in codes[d]
    <3>1. (lane % 4) * 2 + k \in bytes[2 * c + (lane \div 4)] <=> IsSet(2 * (8 * c + lane) + k, n)
      BY <1>6, <1>8, <2>2, LaneOfTwo
    <3> QED BY <1>7, <1>8, <3>1 DEF Field
  <2>4. \A k : k \in Field(bytes[2 * c + (lane \div 4)], lane % 4) => k \in 0..1
    BY <1>8 DEF Field
  <2>5. codes[d] \subseteq 0..1
    BY <1>3, <1>8
  <2> HIDE DEF d
  <2>6. Field(bytes[2 * c + (lane \div 4)], lane % 4) = codes[d]
    BY <2>3, <2>4, <2>5
  <2> QED BY <1>2, <2>1, <2>6
<1>9. CASE bits = 4
  <2>1. CodeOfLane(lane) = Field(bytes[4 * c + (lane \div 2)], lane % 2)
    <3>1. First = 4 * c
      BY <1>4, <1>9
    <3> QED BY <1>9, <3>1 DEF CodeOfLane
  <2>2. \A b \in 4 * c..(4 * c + 3) : b \in 0..(RowStride - 1)
    BY <1>1, <1>5, <1>9
  <2>3. ASSUME NEW k \in 0..3
        PROVE  k \in Field(bytes[4 * c + (lane \div 2)], lane % 2) <=> k \in codes[d]
    <3>1. (lane % 2) * 4 + k \in bytes[4 * c + (lane \div 2)] <=> IsSet(4 * (8 * c + lane) + k, n)
      BY <1>6, <1>9, <2>2, LaneOfFour
    <3> QED BY <1>7, <1>9, <3>1 DEF Field
  <2>4. \A k : k \in Field(bytes[4 * c + (lane \div 2)], lane % 2) => k \in 0..3
    BY <1>9 DEF Field
  <2>5. codes[d] \subseteq 0..3
    BY <1>3, <1>9
  <2> HIDE DEF d
  <2>6. Field(bytes[4 * c + (lane \div 2)], lane % 2) = codes[d]
    BY <2>3, <2>4, <2>5
  <2> QED BY <1>2, <2>1, <2>6
<1>10. CASE bits = 3
  <2> DEFINE word == bytes[3 * c] \union {i + 8 : i \in bytes[3 * c + 1]}
                                  \union {i + 16 : i \in bytes[3 * c + 2]}
  <2>1. CodeOfLane(lane) = Field(word, lane)
    <3>1. First = 3 * c
      BY <1>4, <1>10
    <3> QED BY <1>10, <3>1 DEF CodeOfLane
  <2>2. \A b \in 3 * c..(3 * c + 2) : b \in 0..(RowStride - 1)
    BY <1>1, <1>5, <1>10
  <2>3. ASSUME NEW k \in 0..2 PROVE k \in Field(word, lane) <=> k \in codes[d]
    <3>1. lane * 3 + k \in word <=> IsSet(3 * (8 * c + lane) + k, n)
      BY <1>6, <1>10, <2>2, LaneOfThree
    <3> QED BY <1>7, <1>10, <3>1 DEF Field
  <2>4. \A k : k \in Field(word, lane) => k \in 0..2
    BY <1>10 DEF Field
  <2>5. codes[d] \subseteq 0..2
    BY <1>3, <1>10
  <2> HIDE DEF d, word
  <2>6. Field(word, lane) = codes[d]
    BY <2>3, <2>4, <2>5
  <2> QED BY <1>2, <2>1, <2>6
<1> QED BY <1>1, <1>8, <1>9, <1>10

-----------------------------------------------------------------------------
(* The codec's inductive invariant. *)

InPacking == values = <<>> /\ CodesAreRow /\ dim \in 0..Padded(dims) /\ PackedTo(dim) /\ ReadTo(0)

InScoring ==
  /\ values = <<>> /\ CodesAreRow
  /\ dim \in 0..Padded(dims) /\ Multiple(dim, 8)
  /\ PackedTo(Padded(dims)) /\ ReadTo(dim)

CodecInv ==
  /\ TypeOfDims
  /\ pc = "rotate" => Turning /\ codes = <<>>
  /\ pc = "pack" => InPacking
  /\ pc = "score" => InScoring
  /\ RotationIsHadamard
  /\ CodesReadBack

LEMMA NothingRead == ASSUME read = <<>> PROVE ReadTo(0)
<1>1. read \in [1..0 -> {}]
  OBVIOUS
<1>2. DOMAIN read = 0..(0 - 1)
  BY <1>1
<1> QED BY <1>1, <1>2 DEF ReadTo

LEMMA CodecInvInit == CodecInit => CodecInv
<1> SUFFICES ASSUME CodecInit PROVE CodecInv
  OBVIOUS
<1>1. TypeOfDims
  BY CodecAssumption DEF CodecInit, TypeOfDims
<1>2. CASE Padded(dims) > LongestRow
  BY <1>1, <1>2 DEF CodecInit, CodecInv, RotationIsHadamard, CodesReadBack
<1>3. CASE ~(Padded(dims) > LongestRow) /\ pc = "rotate"
  <2>1. codes = <<>>
    BY <1>3 DEF CodecInit
  <2>2. Turning
    BY <1>1, <1>3, TurningBegins DEF CodecInit
  <2> QED BY <1>1, <1>3, <2>1, <2>2 DEF CodecInv, RotationIsHadamard, CodesReadBack
<1>4. CASE ~(Padded(dims) > LongestRow) /\ pc # "rotate"
  <2>1. /\ pc = "pack" /\ values = <<>> /\ codes \in [Coordinates -> CodeValues]
        /\ bytes = [b \in 0..(RowStride - 1) |-> {}] /\ dim = 0 /\ read = <<>>
    BY <1>4 DEF CodecInit
  <2>2. Padded(dims) \in Nat
    BY <1>1, BlockFacts
  <2>3. PackedTo(dim)
    <3>1. ASSUME NEW b \in 0..(RowStride - 1), NEW j \in 0..7 PROVE ~IsSet(8 * b + j, 0)
      <4>1. bits \in Nat \ {0} /\ 8 * b + j \in Nat
        BY <1>1 DEF TypeOfDims
      <4> DEFINE p == 8 * b + j
      <4>2. p \in Nat
        BY <4>1
      <4> HIDE DEF p
      <4>3. p \div bits \in Nat
        BY <4>1, <4>2, Divided
      <4>4. ~(p \div bits < 0)
        BY <4>3
      <4> QED BY <4>4 DEF IsSet, p
    <3> QED BY <2>1, <3>1 DEF PackedTo
  <2> QED BY <1>1, <2>1, <2>2, <2>3, NothingRead
          DEF CodecInv, InPacking, CodesAreRow, RotationIsHadamard, CodesReadBack
<1> QED BY <1>2, <1>3, <1>4

LEMMA CodecInvNext == CodecInv /\ [CodecNext]_codecVars => CodecInv'
<1> SUFFICES ASSUME CodecInv, [CodecNext]_codecVars PROVE CodecInv'
  OBVIOUS
<1>1. TypeOfDims /\ dims \in Nat \ {0} /\ bits \in 2..4 /\ Padded(dims) \in Nat
  BY BlockFacts DEF CodecInv, TypeOfDims
<1>2. CASE Rotate
  <2>1. Turning /\ codes = <<>>
    BY <1>2 DEF CodecInv, Rotate
  <2>2. Turning' /\ pc' = "rotate"
    BY <1>1, <1>2, <2>1, RotateTurns
  <2>3. codes' = codes /\ dims' = dims /\ bits' = bits
    BY <1>2 DEF Rotate
  <2> QED BY <1>1, <2>1, <2>2, <2>3 DEF CodecInv, TypeOfDims, RotationIsHadamard, CodesReadBack
<1>3. CASE NextBlock
  <2>1. Turning /\ codes = <<>>
    BY <1>3 DEF CodecInv, NextBlock
  <2>2. (pc' = "rotate" /\ Turning') \/ (pc' = "done" /\ RotationIsHadamard')
    BY <1>1, <1>3, <2>1, NextBlockTurns
  <2>3. codes' = codes /\ dims' = dims /\ bits' = bits
    BY <1>3 DEF NextBlock
  <2> QED BY <1>1, <2>1, <2>2, <2>3 DEF CodecInv, TypeOfDims, RotationIsHadamard, CodesReadBack
<1>4. CASE PackCode
  <2>1. InPacking /\ dim < Padded(dims)
    BY <1>4 DEF CodecInv, PackCode
  <2>2. dim \in Coordinates /\ CodesAreRow /\ PackedTo(dim)
    BY <1>1, <2>1 DEF InPacking, Coordinates
  <2>3. PackedTo(dim)' /\ CodesAreRow' /\ dim' = dim + 1
    BY <1>1, <1>4, <2>2, PackCodePacks
  <2>4. /\ pc' = "pack" /\ values' = values /\ codes' = codes /\ read' = read
        /\ dims' = dims /\ bits' = bits
    BY <1>4 DEF PackCode
  <2>5. InPacking'
    <3>1. dim' \in 0..Padded(dims)' /\ ReadTo(0)' /\ values' = <<>>
      BY <1>1, <2>1, <2>3, <2>4 DEF InPacking, ReadTo
    <3> QED BY <2>3, <3>1 DEF InPacking
  <2> QED BY <1>1, <2>4, <2>5 DEF CodecInv, TypeOfDims, RotationIsHadamard, CodesReadBack
<1>5. CASE EndPack
  <2>1. InPacking /\ dim = Padded(dims)
    BY <1>5 DEF CodecInv, EndPack
  <2>2. /\ pc' = "score" /\ dim' = 0 /\ values' = values /\ codes' = codes /\ read' = read
        /\ dims' = dims /\ bits' = bits /\ bytes' = bytes
    BY <1>5 DEF EndPack
  <2>3. PackedTo(Padded(dims))' /\ CodesAreRow' /\ ReadTo(0)' /\ values' = <<>>
    BY <2>1, <2>2 DEF InPacking, PackedTo, IsSet, RowStride, CodesAreRow, Coordinates, CodeValues, ReadTo
  <2>4. Multiple(0, 8)
    <3>1. 0 = 8 * 0
      OBVIOUS
    <3> QED BY <3>1 DEF Multiple
  <2>5. InScoring'
    BY <1>1, <2>2, <2>3, <2>4 DEF InScoring
  <2> QED BY <1>1, <2>2, <2>5 DEF CodecInv, TypeOfDims, InScoring, RotationIsHadamard, CodesReadBack
<1>6. CASE ScoreChunk
  <2>1. InScoring /\ dim + 8 <= Padded(dims)
    BY <1>6 DEF CodecInv, ScoreChunk
  <2>2. /\ pc' = pc /\ pc = "score" /\ dim' = dim + 8 /\ values' = values /\ codes' = codes
        /\ dims' = dims /\ bits' = bits /\ bytes' = bytes
        /\ read' = [d \in DOMAIN read \union dim..(dim + 7) |->
                      IF d \in dim..(dim + 7) THEN CodeOfLane(d - dim) ELSE read[d]]
    BY <1>6 DEF ScoreChunk
  <2>3. PackedTo(Padded(dims))' /\ CodesAreRow' /\ values' = <<>> /\ CodesAreRow /\ PackedTo(Padded(dims))
    BY <2>1, <2>2 DEF InScoring, PackedTo, IsSet, RowStride, CodesAreRow, Coordinates, CodeValues
  <2>4. PICK c \in Nat : dim = 8 * c
    BY <2>1 DEF InScoring, Multiple
  <2>5. \A lane \in 0..7 : CodeOfLane(lane) = codes[dim + lane]
    BY <1>1, <2>1, <2>3, <2>4, LaneIsCode
  <2>6. DOMAIN read = 0..(dim - 1) /\ (\A d \in 0..(dim - 1) : read[d] = codes[d]) /\ dim \in Nat
    BY <1>1, <2>1 DEF InScoring, ReadTo
  <2>7. DOMAIN read \union dim..(dim + 7) = 0..((dim + 8) - 1)
    BY <2>6
  <2>8. read' = [d \in 0..((dim + 8) - 1) |->
                   IF d \in dim..(dim + 7) THEN CodeOfLane(d - dim) ELSE read[d]]
    BY <2>2, <2>7
  <2>9. \A d \in 0..((dim + 8) - 1) : read'[d] = codes[d]
    <3>1. ASSUME NEW d \in dim..(dim + 7) PROVE read'[d] = codes[d]
      <4>1. d \in 0..((dim + 8) - 1) /\ d - dim \in 0..7 /\ dim + (d - dim) = d
        BY <2>6
      <4> QED BY <2>5, <2>8, <4>1
    <3>2. ASSUME NEW d \in 0..(dim - 1) PROVE read'[d] = codes[d]
      <4>1. d \in 0..((dim + 8) - 1) /\ d \notin dim..(dim + 7)
        BY <2>6
      <4> QED BY <2>6, <2>8, <4>1
    <3>3. \A d \in 0..((dim + 8) - 1) : d \in dim..(dim + 7) \/ d \in 0..(dim - 1)
      BY <2>6
    <3> QED BY <3>1, <3>2, <3>3
  <2>10. ReadTo(dim)'
    BY <2>2, <2>8, <2>9 DEF ReadTo
  <2>11. Multiple(dim', 8)
    <3>1. dim' = 8 * (c + 1) /\ c + 1 \in Nat
      BY <2>2, <2>4
    <3> QED BY <3>1 DEF Multiple
  <2>12. dim' \in 0..Padded(dims)'
    BY <1>1, <2>1, <2>2, <2>6
  <2>13. InScoring'
    BY <2>3, <2>10, <2>11, <2>12 DEF InScoring
  <2> QED BY <1>1, <2>2, <2>13 DEF CodecInv, TypeOfDims, RotationIsHadamard, CodesReadBack
<1>7. CASE EndScore
  <2>1. InScoring /\ (First + bits > RowStride \/ dim + 8 > Padded(dims))
    BY <1>7 DEF CodecInv, EndScore
  <2>2. /\ pc' = "done" /\ values' = values /\ codes' = codes /\ read' = read
        /\ dims' = dims /\ bits' = bits
    BY <1>7 DEF EndScore
  <2>3. dim = Padded(dims)
    <3> DEFINE m == Padded(dims) \div 8
    <3>1. m \in Nat /\ Padded(dims) = 8 * m /\ RowStride = m * bits
      BY <1>1, StrideIsChunks
    <3>2. PICK c \in Nat : dim = 8 * c
      BY <2>1 DEF InScoring, Multiple
    <3>3. First = c * bits
      <4>1. dim \div 8 = c
        BY <3>2
      <4> QED BY <4>1 DEF First
    <3> HIDE DEF m
    <3>4. c + 1 > m
      <4>1. CASE dim + 8 > Padded(dims)
        BY <3>1, <3>2, <4>1
      <4>2. CASE First + bits > RowStride
        <5>1. c * bits + bits > m * bits
          BY <3>1, <3>3, <4>2
        <5>2. bits = 2 \/ bits = 3 \/ bits = 4
          BY <1>1
        <5> QED BY <3>1, <5>1, <5>2
      <4> QED BY <2>1, <4>1, <4>2
    <3>5. dim <= Padded(dims)
      BY <1>1, <2>1 DEF InScoring
    <3> QED BY <3>1, <3>2, <3>4, <3>5
  <2>4. read = codes
    <3>1. codes \in [0..(dim - 1) -> CodeValues]
      BY <2>1, <2>3 DEF InScoring, CodesAreRow, Coordinates
    <3>2. /\ DOMAIN read = 0..(dim - 1) /\ read = [d \in DOMAIN read |-> read[d]]
          /\ \A d \in 0..(dim - 1) : read[d] = codes[d]
      BY <2>1 DEF InScoring, ReadTo
    <3> QED BY <3>1, <3>2
  <2> QED BY <1>1, <2>1, <2>2, <2>4 DEF CodecInv, TypeOfDims, InScoring, RotationIsHadamard, CodesReadBack
<1>8. CASE UNCHANGED codecVars
  BY <1>8 DEF CodecInv, codecVars, TypeOfDims, Turning, InPacking, InScoring, Coordinates, Block,
    PackedTo, IsSet, RowStride, CodesAreRow, CodeValues, ReadTo, RotationIsHadamard, CodesReadBack
<1> QED BY <1>2, <1>3, <1>4, <1>5, <1>6, <1>7, <1>8 DEF CodecNext

LEMMA CodecInvAlways == CodecSpec => []CodecInv
<1> QED BY CodecInvInit, CodecInvNext, PTL DEF CodecSpec

\* Every length is cut into whole blocks of a power of two, and the rows of
\* every width into whole chunks (blocking, row_stride).
THEOREM CodecRowsTile == CodecSpec => []RowsTile
<1>1. TypeOfDims => RowsTile
  <2> SUFFICES ASSUME TypeOfDims PROVE RowsTile
    OBVIOUS
  <2>1. dims \in Nat \ {0} /\ bits \in 2..4
    BY DEF TypeOfDims
  <2> QED BY <2>1, PaddedTiles, BlocksArePowers, StrideIsChunks DEF RowsTile, Block
<1>2. CodecInv => RowsTile
  BY <1>1 DEF CodecInv
<1> QED BY <1>2, CodecInvAlways, PTL

\* The butterflies of rotate compute the Walsh-Hadamard transform of each
\* block, for every length.
THEOREM CodecRotation == CodecSpec => []RotationIsHadamard
<1>1. CodecInv => RotationIsHadamard
  BY DEF CodecInv
<1> QED BY <1>1, CodecInvAlways, PTL

\* What score_prepared takes for a code is what pack_code was given, for every
\* length, every row of codes and each of the three widths.
THEOREM CodecCodes == CodecSpec => []CodesReadBack
<1>1. CodecInv => CodesReadBack
  BY DEF CodecInv
<1> QED BY <1>1, CodecInvAlways, PTL

\* The codec is exact: rows tile, the rotation is the transform, and codes are
\* read back (CodecParameters, rotate, pack_code, score_prepared).
THEOREM CodecExact == CodecSpec => []RowIsExact
<1>1. RowsTile /\ RotationIsHadamard /\ CodesReadBack => RowIsExact
  BY DEF RowIsExact
<1> QED BY <1>1, CodecRowsTile, CodecRotation, CodecCodes, PTL
=============================================================================
