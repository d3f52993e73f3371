------------------------------- MODULE MCPillPool -------------------------------
(* Instances of PillPool for TLC: no file, an empty one, one and two chunks, and  *)
(* three chunks, which with three pills overflow five slots.                      *)
EXTENDS PillPool

PillInputs == {<<>>, << <<>> >>, << <<0, 0, 1>> >>, << <<1>>, <<1, 0>> >>,
               << <<1>>, <<1, 1, 1>> >>}
================================================================================
