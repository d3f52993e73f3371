---------------------------- MODULE MCChunkedEncoder ----------------------------
(* Every stream over three bytes up to length 5 and every stream of 0s and 1s up *)
(* to length 8; with MAX_CHAR_LEN = 2 and chunks of up to 4 a run is split inside*)
(* a chunk and again by the merge.  The reference itself is checked here: a      *)
(* canonical encoding stands for its input.                                      *)
EXTENDS ChunkedEncoder

MCStreams == UNION {[1..k -> {0, 1, 2}] : k \in 0..5} \union [1..8 -> {0, 1}]

ASSUME CanonicalIsLossless == \A s \in MCStreams : Decode(Canonical(s)) = s
================================================================================
