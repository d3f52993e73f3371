------------------------------ MODULE MCThreadPool ------------------------------
(* Instances of ThreadPool for TLC: the inputs.  Chunks of 2 bytes and runs of at *)
(* most 3 make every file boundary, chunk boundary and run split happen; byte 0   *)
(* is the writer's initial current_char.                                          *)
EXTENDS ThreadPool

(* The threads of -j 3.                                                           *)
ASSUME Cardinality(Workers) = parsing_j(<<[is_j |-> TRUE, atoi |-> 3]>>)

Streams(n) == UNION {[1..k -> {0, 1}] : k \in 0..n}

(* Every stream of up to 3 bytes over {0, 1} as one file, those of 4 as two; no   *)
(* file; an empty file behind another; three files; an overflow of 4 slots.       *)
PoolInputs ==
  {<<s>> : s \in Streams(3)}
  \union {<<SubSeq(s, 1, 3), SubSeq(s, 4, 4)>> : s \in [1..4 -> {0, 1}]}
  \union {<<>>, << <<0>>, <<>> >>, << <<1>>, <<1, 1>>, <<0>> >>,
          << <<0, 0>>, <<1, 1, 1, 1, 1>> >>}
================================================================================
