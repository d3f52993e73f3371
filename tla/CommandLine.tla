------------------------------- MODULE CommandLine -------------------------------
(* The token array of Shell-structure/nyush.c: separate_input fills it,           *)
(* check_redirection removes redirections from it in place, segment_command cuts  *)
(* it at the pipes.                                                               *)
(*                                                                                *)
(* A line is the sequence of its tokens' kinds; a cell of the array holds the     *)
(* number of a token, NULL, or garbage that was never assigned.                   *)
(* TerminatorForgotten and ShiftByOne are deliberately wrong versions of the      *)
(* definitions they precede (PROJECT.json, "mutants").                            *)
EXTENDS Integers, Sequences, FiniteSets, FiniteSetsExt, SequencesExt

CONSTANT MAX_ARGS     \* cells of the array

ASSUME ArgsAssumption == MAX_ARGS \in Nat /\ MAX_ARGS > 1

WORD    == "word"
BUILTIN == "builtin"  \* cd, exit, jobs, fg
INPUT   == "<"
OUTPUT  == ">"        \* and >>
PIPE    == "|"
Kinds   == {WORD, BUILTIN, INPUT, OUTPUT, PIPE}

NULL    == 0
GARBAGE == -1
Cells   == 0..(MAX_ARGS - 1)

TerminatorForgotten(line) == [i \in Cells |-> IF i < Len(line) THEN i + 1 ELSE GARBAGE]

(* separate_input, of a line that fits.                                           *)
separate_input(line) ==
  [i \in Cells |-> IF i < Len(line) THEN i + 1 ELSE IF i = Len(line) THEN NULL ELSE GARBAGE]

(* Longer lines are stored all the same, behind the array.                        *)
Overruns(line) == Len(line) >= MAX_ARGS

(* execute_buildin looks at the first token only.                                 *)
IsBuildin(line) == line[1] = BUILTIN

(* The first NULL; MAX_ARGS if a loop that looks for it leaves the array.         *)
End(array) ==
  IF \E i \in Cells : array[i] = NULL THEN Min({i \in Cells : array[i] = NULL}) ELSE MAX_ARGS

Redirections(line, array) ==
  {i \in 0..(End(array) - 1) : array[i] > 0 /\ line[array[i]] \in {INPUT, OUTPUT}}

ShiftByOne(array, i) ==
  [j \in Cells |-> IF j \in i..(End(array) - 1) THEN array[j + 1] ELSE array[j]]

(* The loop that removes a redirection and its file; it reads one cell behind the *)
(* NULL.                                                                          *)
Removed(array, i) ==
  [j \in Cells |-> IF j \in i..(End(array) - 1) THEN array[j + 2] ELSE array[j]]

ReadsBehind(array) == End(array) + 1 >= MAX_ARGS

PipesIn(line, array) == {i \in 0..(End(array) - 1) : line[array[i]] = PIPE}

(* The test of segment_command.                                                   *)
PipeMisplaced(line, array) ==
  \E i \in PipesIn(line, array) : i = 0 \/ array[i + 1] = NULL

(* Of the pipes, these have been counted in segments_index at cell k.             *)
Before(S, k) == {m \in S : m < k}

(* segment_command: each pipe becomes the NULL that ends a segment, and the next  *)
(* one starts behind it (with no token at all between two pipes).                 *)
SegmentEnd(line, array, k) ==
  LET pipes == PipesIn(line, array)
  IN  IF k = Cardinality(pipes) THEN End(array)
      ELSE CHOOSE i \in pipes : Cardinality(Before(pipes, i)) = k

SegmentStart(line, array, k) == IF k = 0 THEN 0 ELSE SegmentEnd(line, array, k - 1) + 1

segment_command(line, array) ==
  [k \in 0..Cardinality(PipesIn(line, array)) |->
     LET start == SegmentStart(line, array, k)
     IN  [n \in 1..(SegmentEnd(line, array, k) - start) |-> array[start + n - 1]]]

--------------------------------------------------------------------------------
(* What the line means: a redirection takes the token behind it, whatever that    *)
(* is, for its file, so of several < and > in a row every other one is a file;    *)
(* the other tokens are the stages' arguments, cut at the pipes.                  *)

InARow(line, k) == {m \in 1..(k - 1) : \A n \in m..(k - 1) : line[n] \in {INPUT, OUTPUT}}
IsFile(line, k) == Cardinality(InARow(line, k)) % 2 = 1

Operators(line, kinds) == {k \in DOMAIN line : line[k] \in kinds /\ ~IsFile(line, k)}

(* Redirections where nyush.c:419 and 431 and README.md:55 have them: input in the*)
(* first program, output in the last.                                             *)
AtTheEnds(line) ==
  \A p \in Operators(line, {PIPE}) : /\ \A k \in Operators(line, {INPUT})  : k < p
                                     /\ \A k \in Operators(line, {OUTPUT}) : p < k

(* The tokens that stage s, from 0, of the line is executed with.                 *)
StageOf(line, s) ==
  {k \in DOMAIN line : /\ ~IsFile(line, k) /\ k \notin Operators(line, {INPUT, OUTPUT, PIPE})
                       /\ Cardinality(Before(Operators(line, {PIPE}), k)) = s}

InOrder(segment, tokens) ==
  Range(segment) = tokens /\ \A m, n \in DOMAIN segment : m < n => segment[m] < segment[n]
================================================================================
