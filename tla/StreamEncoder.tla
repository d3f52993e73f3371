----------------------------- MODULE StreamEncoder -----------------------------
(* What nyuenc promises, whatever the number of threads: stdout receives the     *)
(* canonical run-length encoding of the concatenated files from left to right,   *)
(* all of it if the program succeeds and nothing at all if it fails.             *)
EXTENDS RLE

CONSTANT Streams      \* the byte streams to encode

VARIABLES input, output, status

vars == <<input, output, status>>

Init == input \in Streams /\ output = <<>> /\ status = "running"

(* Some more pairs reach stdout.                                                 *)
Write ==
  /\ status = "running"
  /\ output' # output /\ IsPrefix(output, output')
  /\ IsPrefix(output', Canonical(input))
  /\ UNCHANGED <<input, status>>

(* The last pairs reach stdout and the program succeeds.                         *)
Complete ==
  /\ status = "running"
  /\ output' = Canonical(input) /\ status' = "ok"
  /\ UNCHANGED input

Fail ==
  /\ status = "running" /\ output = <<>>
  /\ status' = "failed"
  /\ UNCHANGED <<input, output>>

Next == Write \/ Complete \/ Fail

(* The program ends.                                                             *)
Spec == Init /\ [][Next]_vars /\ <>(status # "running")
================================================================================
