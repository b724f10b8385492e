------------------------------- MODULE Codec -------------------------------
(***************************************************************************)
(* The integer work of the quantized codec (quantized/src/lib.rs): how a   *)
(* vector is padded and split into blocks, the butterflies that rotate it, *)
(* the packing of one code per dimension into bytes, and the unpacking     *)
(* while a row is scored.                                                  *)
(*                                                                         *)
(* The rotation is linear and is followed here on plus or minus one unit   *)
(* vector, without its final factor.  A code, a byte and a word of the     *)
(* packing are the sets of the positions of their ones.                    *)
(***************************************************************************)
EXTENDS Integers, Sequences, FiniteSets

CONSTANTS Dimensions,  \* dimensions of vectors
          CodeRows,    \* the rows of codes, one code per coordinate, that are packed
          LongestRow   \* bound: the padded length up to which loops are run

ASSUME CodecAssumption == Dimensions \subseteq Nat \ {0} /\ LongestRow \in Nat

VARIABLES
  dims, bits,
  pc,                  \* "rotate", "pack", "score", "done"
  unit, values,        \* the dimension that is not zero, and the vector
  block, half, start, offset,  \* the loops of rotate and fwht
  codes, bytes,        \* the codes of a row, and the row
  dim,                 \* the dimension being packed, or the first of the chunk being scored
  read                 \* what scoring took so far for the code of each dimension

codecVars == <<dims, bits, pc, unit, values, block, half, start, offset, codes, bytes, dim, read>>

-----------------------------------------------------------------------------
(* blocking: the first block that divides the dimensions, or padding.      *)

BLOCK_CANDIDATES == <<512, 256, 128, 64, 32, 16, 8>>

Divides(d) == {k \in DOMAIN BLOCK_CANDIDATES : d % BLOCK_CANDIDATES[k] = 0}

BlockSize(d) ==
  IF Divides(d) = {} THEN 8
  ELSE BLOCK_CANDIDATES[CHOOSE k \in Divides(d) : \A l \in Divides(d) : k <= l]

Padded(d) == IF Divides(d) = {} THEN ((d + 7) \div 8) * 8 ELSE d

RowStride == (Padded(dims) * bits + 7) \div 8
Block == BlockSize(dims)

-----------------------------------------------------------------------------
(* rotate: fwht on each block.  The last factor, 1/sqrt(Block), is left    *)
(* out.                                                                    *)

Butterfly(v, left, right) ==
  [v EXCEPT ![left] = v[left] + v[right], ![right] = v[left] - v[right]]

Rotate ==
  /\ pc = "rotate" /\ half < Block
  /\ values' = Butterfly(values, block + start + offset, block + start + offset + half)
  /\ IF offset + 1 < half
     THEN offset' = offset + 1 /\ UNCHANGED <<start, half>>
     ELSE /\ offset' = 0
          /\ IF start + half * 2 < Block
             THEN start' = start + half * 2 /\ UNCHANGED half
             ELSE start' = 0 /\ half' = half * 2
  /\ UNCHANGED <<dims, bits, pc, unit, block, codes, bytes, dim, read>>

NextBlock ==
  /\ pc = "rotate" /\ half >= Block
  /\ IF block + Block < Padded(dims)
     THEN block' = block + Block /\ half' = 1 /\ UNCHANGED pc
     ELSE pc' = "done" /\ UNCHANGED <<block, half>>
  /\ UNCHANGED <<dims, bits, unit, values, start, offset, codes, bytes, dim, read>>

-----------------------------------------------------------------------------
(* pack_code: the code is shifted within sixteen bits and its two bytes    *)
(* are or-ed into the row.                                                 *)

BitOffset == dim * bits
Byte == BitOffset \div 8
Shift == BitOffset % 8
Shifted == {k + Shift : k \in codes[dim]} \intersect 0..15

StraddlesLate == Shift + bits > 9   \* mutant: a code that ends one bit into the next byte
Straddles == Shift + bits > 8

\* What is or-ed into byte b.
OrInto(b) ==
  IF b = Byte THEN Shifted \intersect 0..7
  ELSE IF b = Byte + 1 /\ Straddles THEN {k - 8 : k \in Shifted \ (0..7)}
  ELSE {}

PackCode ==
  /\ pc = "pack" /\ dim < Padded(dims)
  /\ bytes' = [b \in DOMAIN bytes |-> bytes[b] \union OrInto(b)]
  /\ dim' = dim + 1
  /\ UNCHANGED <<dims, bits, pc, unit, values, block, half, start, offset, codes, read>>

EndPack ==
  /\ pc = "pack" /\ dim = Padded(dims)
  /\ pc' = "score" /\ dim' = 0
  /\ UNCHANGED <<dims, bits, unit, values, block, half, start, offset, codes, bytes, read>>

-----------------------------------------------------------------------------
(* score_prepared_validated: eight dimensions at a time from `bits` bytes. *)

First == (dim \div 8) * bits   \* the first byte of the chunk

\* The field of a word at a lane: the word shifted right and masked.
Field(word, lane) == {k \in 0..(bits - 1) : lane * bits + k \in word}

CodeOfLane(lane) ==
  CASE bits = 2 -> Field(bytes[First + lane \div 4], lane % 4)
    [] bits = 3 -> Field(bytes[First] \union {k + 8 : k \in bytes[First + 1]}
                                      \union {k + 16 : k \in bytes[First + 2]}, lane)
    [] bits = 4 -> Field(bytes[First + lane \div 2], lane % 2)

ScoreChunk ==
  /\ pc = "score" /\ First + bits <= RowStride /\ dim + 8 <= Padded(dims)
  /\ read' = [d \in DOMAIN read \union dim..(dim + 7) |->
       IF d \in dim..(dim + 7) THEN CodeOfLane(d - dim) ELSE read[d]]
  /\ dim' = dim + 8
  /\ UNCHANGED <<dims, bits, pc, unit, values, block, half, start, offset, codes, bytes>>

\* zip ends with the shorter of the two.
EndScore ==
  /\ pc = "score" /\ (First + bits > RowStride \/ dim + 8 > Padded(dims))
  /\ pc' = "done"
  /\ UNCHANGED <<dims, bits, unit, values, block, half, start, offset, codes, bytes, dim, read>>

-----------------------------------------------------------------------------
Coordinates == 0..(Padded(dims) - 1)
CodeValues == SUBSET (0..(bits - 1))

CodecInit ==
  /\ dims \in Dimensions /\ bits \in 2..4
  /\ block = 0 /\ half = 1 /\ start = 0 /\ offset = 0 /\ dim = 0
  /\ read = <<>>
  /\ IF Padded(dims) > LongestRow
     THEN pc = "done" /\ unit = 0 /\ values = <<>> /\ codes = <<>> /\ bytes = <<>>
     ELSE \/ /\ pc = "rotate"
             /\ unit \in 0..(dims - 1)
             /\ \E sign \in {1, -1} : values = [d \in Coordinates |-> IF d = unit THEN sign ELSE 0]
             /\ codes = <<>> /\ bytes = <<>>
          \/ /\ pc = "pack"
             /\ unit = 0 /\ values = <<>>
             /\ codes \in CodeRows \intersect [Coordinates -> CodeValues]
             /\ bytes = [b \in 0..(RowStride - 1) |-> {}]

CodecNext == Rotate \/ NextBlock \/ PackCode \/ EndPack \/ ScoreChunk \/ EndScore

CodecSpec == CodecInit /\ [][CodecNext]_codecVars

-----------------------------------------------------------------------------
PowersOfTwo == {1, 2, 4, 8, 16, 32, 64, 128, 256, 512}

\* Every length is cut into whole blocks of a power of two, with fewer than
\* eight dimensions of padding, and rows of every width into whole chunks:
\* what the debug assertions of fwht and of scoring state.
RowsTile ==
  /\ Padded(dims) >= dims /\ Padded(dims) - dims < 8
  /\ Padded(dims) % Block = 0 /\ Padded(dims) % 8 = 0
  /\ Block \in PowersOfTwo \ {1, 2, 4}
  /\ RowStride * 8 = Padded(dims) * bits /\ RowStride % bits = 0

\* The bits below n that are set in both a and b.
CommonBits(n, a, b) == {w \in PowersOfTwo : w < n /\ (a \div w) % 2 = 1 /\ (b \div w) % 2 = 1}

\* The butterflies compute the Walsh-Hadamard transform of every block: each
\* coordinate of a unit vector reaches every coordinate of its own block,
\* with the sign of the parity of their common bits, and none of another.
RotationIsHadamard ==
  pc = "done" /\ values # <<>> =>
    \E sign \in {1, -1} : \A d \in Coordinates :
      values[d] = IF d \div Block # unit \div Block THEN 0
                  ELSE IF Cardinality(CommonBits(Block, d, unit)) % 2 = 0 THEN sign ELSE -sign

\* Scoring reads back the code of every dimension.
CodesReadBack == pc = "done" /\ codes # <<>> => read = codes

\* A row is laid out, rotated, packed and read back exactly (rotate, pack_code
\* and score_prepared).
RowIsExact == RowsTile /\ RotationIsHadamard /\ CodesReadBack
=============================================================================
