----------------------------- MODULE ChunkedEncoder -----------------------------
(* The data path of nyuenc by itself: a stream cut into chunks at arbitrary      *)
(* places (files end anywhere), each chunk encoded on its own and merged in      *)
(* order.  Beside it runs the one-pass encoder the program started from.         *)
EXTENDS RLE

CONSTANTS ChunkSize,     \* longest chunk
          Streams        \* the byte streams to encode

ASSUME StreamsAssumption == ChunkSize \in Nat /\ Streams \subseteq Seq(Nat)

VARIABLES data, pos,     \* the stream and how much of it has been encoded
          chunk,         \* the last chunk
          merged,        \* write_result's state after merging that chunk
          sequential     \* the one-pass encoder's state after the same bytes

chunkVars == <<data, pos, chunk, merged, sequential>>

ChunkInit ==
  /\ data \in Streams /\ pos = 0 /\ chunk = <<>>
  /\ merged = WriterStart /\ sequential = WriterStart

NextChunk ==
  \E n \in 1..ChunkSize :
    /\ pos + n <= Len(data)
    /\ pos' = pos + n
    /\ chunk' = SubSeq(data, pos + 1, pos + n)
    /\ merged' = MergeResult(merged, encoder(chunk'))
    /\ sequential' = SequentialUpTo(sequential, chunk')[n]
    /\ UNCHANGED data

ChunkSpec == ChunkInit /\ [][NextChunk]_chunkVars

--------------------------------------------------------------------------------
(* Wherever the stream is cut, flushing after a chunk gives the canonical        *)
(* encoding of the bytes so far: a run is joined over chunk and file boundaries, *)
(* split at every MAX_CHAR_LEN, and no pair is lost when the stream starts with  *)
(* byte 0, which is also current_char before the first result.                   *)
MergeIsCanonical == Flushed(merged) = Canonical(SubSeq(data, 1, pos))

(* The parallel program prints what its sequential first version printed, for a  *)
(* stream of characters that are not negative.                                   *)
SameAsSequential ==
  Range(data) \intersect NegativeChars = {} => Flushed(merged) = Flushed(sequential)

(* The temporary buffer of encoder() (nyuenc.c:98-99) holds what the loop stores *)
(* in it, to be copied to the result: two bytes for each byte of the chunk.      *)
TempBufferSuffices == chunk # <<>> => Len(encoder(chunk)) <= TempBufferPairs(chunk)
================================================================================
