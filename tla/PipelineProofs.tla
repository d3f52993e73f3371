------------------------------ MODULE PipelineProofs ------------------------------
(* Proofs about Pipeline.tla, for every set of lines, number of stages, length of *)
(* the token array and of the descriptor tables, capacity of a pipe and number of *)
(* units:                                                                         *)
(*                                                                                *)
(*   TypeCorrect, ArrayBoundsHolds, OnlyOwnEndsHolds, NoEarlyEofHolds,            *)
(*   NoEarlyBrokenPipeHolds and StagesAreTheLineHolds state those properties of   *)
(*   Spec.                                                                        *)
(*                                                                                *)
(* They rest on one inductive invariant, IInv, in parts: where check_redirection  *)
(* is in the line (RedirectInv), what the shell's descriptors refer to            *)
(* (ShellInv, EndsInv), what each child's do on its way to exec (ChildInv), and   *)
(* where each unit is (FlowInv, EofInv).  That the stages get the right tokens    *)
(* follows from it in the one step that makes them (StagesCut).                   *)
EXTENDS Pipeline, Recursion

--------------------------------------------------------------------------------
(* The inductive invariant.                                                       *)

ShapeInv ==
  /\ spc \in {"prompt", "redirect", "pipe", "fork", "wait", "exited", "undefined"}
  /\ line \in Seq(Kinds)
  /\ separated_commands \in [Cells -> (1..MAX_ARGS) \union {NULL, GARBAGE}]
  /\ fds \in Tables
  /\ num_segments \in 1..MaxStages /\ next \in 0..num_segments
  /\ pipes \in Seq([r : Fds, w : Fds]) /\ Len(pipes) < num_segments
  /\ fd_in \in Fds \union {-1} /\ fd_out \in Fds \union {-1}
  /\ child \in [Stages -> [at : {"none", "forked", "stdin", "stdout", "run", "ended"},
                           fds : Tables]]
  /\ buffer \in [Stages -> 0..Capacity] /\ held \in [Stages -> 0..1]
  /\ put \in [Stages -> Nat] /\ got \in [Stages -> Nat]
  /\ eof \subseteq Stages /\ broken \subseteq Stages

(* The tokens before token q that stay: neither a redirection nor its file.       *)
Kept(q) == {k \in 1..(q - 1) : ~IsFile(line, k) /\ line[k] \notin {INPUT, OUTPUT}}

(* The array while redirections are removed: cells before from hold the tokens    *)
(* that stay, in order, and the others every token of the line from q on.         *)
Frontier(from, q) ==
  LET n == End(separated_commands)
  IN  /\ n < MAX_ARGS /\ separated_commands[n] = NULL
      /\ from \in 0..n /\ q \in 1..(Len(line) + 1) /\ from < q
      /\ n - from = Len(line) + 1 - q
      /\ ~IsFile(line, q)
      /\ \A p \in from..(n - 1) : separated_commands[p] = q + (p - from)
      /\ {separated_commands[p] : p \in 0..(from - 1)} = Kept(q)
      /\ \A p, r \in 0..(from - 1) : p < r => separated_commands[p] < separated_commands[r]

(* Token k is the last redirection of its kind before token q.                    *)
IsLast(op, q, k) ==
  /\ k \in Operators(line, {op}) /\ k < q
  /\ \A m \in Operators(line, {op}) : m < q => m <= k

(* Descriptor fd, if there is one, is that of the last of these files in table t. *)
LastFile(t, fd, kind, op, q) ==
  fd # -1 => \E k \in 1..Len(line) : IsLast(op, q, k) /\ t[fd] = Desc(kind, k + 1)

Files(t, q) == LastFile(t, fd_in, "in", INPUT, q) /\ LastFile(t, fd_out, "out", OUTPUT, q)

RedirectInv ==
  spc = "redirect" =>
    /\ line \in Lines /\ Len(line) < MAX_ARGS
    /\ \E from, q \in 0..(Len(line) + 1) : Frontier(from, q) /\ Files(fds, q)
    /\ pipes = <<>> /\ next = 0 /\ eof = {} /\ broken = {}
    /\ buffer = Zero /\ held = Zero /\ put = Zero /\ got = Zero

AllFiles(t) == Files(t, Len(line) + 1)

Standard(t) == t[0] = Tty /\ t[1] = Tty /\ t[2] = Tty

(* Table t has both ends of every pipe, and nothing else of one.                  *)
AllEnds(t) ==
  /\ \A j \in DOMAIN pipes : /\ t[pipes[j].r] = Desc("read", j - 1)
                             /\ t[pipes[j].w] = Desc("write", j - 1)
  /\ \A f \in Fds : t[f].kind \in PipeKinds => \E j \in DOMAIN pipes : f \in {pipes[j].r, pipes[j].w}

NoEnds(t) == \A f \in Fds : t[f].kind \notin PipeKinds

ShellInv ==
  /\ spc \in {"prompt", "redirect", "wait"} => Standard(fds) /\ NoEnds(fds)
  /\ spc \in {"pipe", "fork"} => Standard(fds) /\ AllEnds(fds) /\ AllFiles(fds)
  /\ spc \in {"fork", "wait"} => Len(pipes) = num_segments - 1
  /\ spc = "pipe" => next = 0

(* No two of the descriptors the shell opened for a command are the same.         *)
EndsInv ==
  spc \in {"pipe", "fork", "wait"} =>
    /\ \A j \in DOMAIN pipes :
         /\ pipes[j].r > 2 /\ pipes[j].w > 2
         /\ fd_in \notin {pipes[j].r, pipes[j].w} /\ fd_out \notin {pipes[j].r, pipes[j].w}
         /\ \A k \in DOMAIN pipes : /\ pipes[j].r # pipes[k].w
                                    /\ j # k => pipes[j].r # pipes[k].r /\ pipes[j].w # pipes[k].w
    /\ fd_in = -1 \/ fd_in > 2
    /\ fd_out = -1 \/ fd_out > 2
    /\ fd_in = fd_out => fd_in = -1

InDesc(i, d) ==
  IF i > 0 THEN d = Desc("read", i - 1)
  ELSE IF fd_in # -1 THEN \E k \in 1..Len(line) : IsLast(INPUT, Len(line) + 1, k) /\ d = Desc("in", k + 1)
  ELSE d = Tty

OutDesc(i, d) ==
  IF i < num_segments - 1 THEN d = Desc("write", i)
  ELSE IF fd_out # -1 THEN \E k \in 1..Len(line) : IsLast(OUTPUT, Len(line) + 1, k) /\ d = Desc("out", k + 1)
  ELSE d = Tty

OwnRead(i, f)  == i > 0 /\ f = pipes[i].r
OwnWrite(i, f) == i < num_segments - 1 /\ f = pipes[i + 1].w

(* The table of stage i's child, at each point of its way to the program.         *)
ForkedTable(i, t) == Standard(t) /\ AllEnds(t) /\ AllFiles(t)
StdinTable(i, t) ==
  /\ Standard(t) /\ AllFiles(t)
  /\ \A f \in Fds : /\ OwnRead(i, f) => t[f] = Desc("read", i - 1)
                    /\ OwnWrite(i, f) => t[f] = Desc("write", i)
                    /\ t[f].kind \in PipeKinds => OwnRead(i, f) \/ OwnWrite(i, f)
StdoutTable(i, t) ==
  /\ InDesc(i, t[0]) /\ t[1] = Tty
  /\ LastFile(t, fd_out, "out", OUTPUT, Len(line) + 1)
  /\ \A f \in Fds : /\ OwnWrite(i, f) => t[f] = Desc("write", i)
                    /\ t[f].kind \in PipeKinds => f = 0 \/ OwnWrite(i, f)
RunTable(i, t) ==
  InDesc(i, t[0]) /\ OutDesc(i, t[1]) /\ \A f \in Fds \ {0, 1} : t[f].kind \notin PipeKinds

TableOf(i, at, t) ==
  /\ at = "forked" => ForkedTable(i, t)
  /\ at = "stdin" => StdinTable(i, t)
  /\ at = "stdout" => StdoutTable(i, t)
  /\ at = "run" => RunTable(i, t)
  /\ at \in {"none", "ended"} => t = NoChild.fds

TableInv(i) == TableOf(i, child[i].at, child[i].fds)

(* Which stages have been forked, and which are still there.                      *)
StartedInv(i) ==
  /\ spc = "fork" => (child[i].at = "none" <=> i >= next)
  /\ spc = "wait" => /\ child[i].at = "none" <=> i >= num_segments
                     /\ i < next => child[i].at = "ended"
  /\ spc \in {"redirect", "pipe"} => child[i].at = "none"
  /\ spc \notin {"fork", "wait"} => child[i].at \in {"none", "ended"}

ChildInv == \A i \in Stages : TableInv(i) /\ StartedInv(i)

(* Every unit written to a pipe is in it or has been read.                        *)
FlowInv ==
  \A i \in Stages : /\ got[i] = put[i] + held[i] /\ got[i] <= Units
                    /\ i > 0 /\ i < num_segments => put[i - 1] = got[i] + buffer[i - 1]

EofInv ==
  /\ \A i \in eof : i < num_segments
  /\ \A i \in broken : i < num_segments - 1
  /\ NoEarlyEof /\ NoEarlyBrokenPipe

IInv == /\ ShapeInv /\ RedirectInv /\ ShellInv /\ EndsInv /\ ChildInv
        /\ FlowInv /\ EofInv /\ ArrayBounds

--------------------------------------------------------------------------------
(* Lemmas about the operators.                                                    *)

(* The cell at which a loop over the array stops.                                 *)
LEMMA EndIs ==
  ASSUME NEW array \in [Cells -> Int]
  PROVE  \/ End(array) = MAX_ARGS /\ \A m \in Cells : array[m] # NULL
         \/ /\ End(array) \in Cells /\ array[End(array)] = NULL
            /\ \A m \in 0..(End(array) - 1) : array[m] # NULL
<1> DEFINE S == {i \in Cells : array[i] = NULL}
<1>1. CASE S = {}
  BY <1>1 DEF End
<1>2. CASE S # {}
  <2>1. S \in SUBSET Nat
    BY ArgsAssumption DEF Cells
  <2>2. Min(S) \in S /\ \A y \in S : Min(S) <= y
    BY <1>2, <2>1, MinIs
  <2>3. End(array) = Min(S)
    BY <1>2 DEF End
  <2>4. \A m \in 0..(Min(S) - 1) : m \in Cells /\ m \notin S
    BY <2>2, ArgsAssumption DEF Cells
  <2> QED BY <2>2, <2>3, <2>4
<1> QED BY <1>1, <1>2

LEMMA EndAt ==
  ASSUME NEW array \in [Cells -> Int], NEW n \in Cells, array[n] = NULL,
         \A m \in 0..(n - 1) : array[m] # NULL
  PROVE  End(array) = n
BY EndIs, ArgsAssumption DEF Cells

(* A token that follows a word is not a file; the one behind a redirection is,    *)
(* and then the next one is not.                                                  *)
LEMMA FirstIsNoFile ==
  ASSUME NEW l \in Seq(Kinds), NEW k \in 1..(Len(l) + 1),
         k = 1 \/ l[k - 1] \notin {INPUT, OUTPUT}
  PROVE  ~IsFile(l, k)
<1>1. InARow(l, k) = {}
  BY DEF InARow
<1> QED BY <1>1, FS_EmptySet DEF IsFile

LEMMA FileFollows ==
  ASSUME NEW l \in Seq(Kinds), NEW k \in 1..Len(l), l[k] \in {INPUT, OUTPUT}
  PROVE  IsFile(l, k + 1) <=> ~IsFile(l, k)
<1>1. InARow(l, k + 1) = InARow(l, k) \union {k}
  BY DEF InARow
<1>2. k \notin InARow(l, k)
  BY DEF InARow
<1>3. IsFiniteSet(InARow(l, k))
  <2>1. IsFiniteSet(1..(k - 1))
    BY FS_Interval
  <2>2. InARow(l, k) \subseteq 1..(k - 1)
    BY DEF InARow
  <2> QED BY <2>1, <2>2, FS_Subset
<1>4. Cardinality(InARow(l, k + 1)) = Cardinality(InARow(l, k)) + 1
  BY <1>1, <1>2, <1>3, FS_AddElement
<1>5. Cardinality(InARow(l, k)) \in Nat
  BY <1>3, FS_CardinalityType
<1> QED BY <1>4, <1>5 DEF IsFile

(* open, pipe: the lowest free descriptor.                                        *)
LEMMA FreeIs ==
  ASSUME NEW t \in Tables, Free(t) # {}
  PROVE  Min(Free(t)) \in Fds /\ t[Min(Free(t))] = Closed
<1>1. Free(t) \in SUBSET Nat
  BY SizesAssumption DEF Free, Fds
<1>2. Min(Free(t)) \in Free(t)
  BY <1>1, MinIs
<1> QED BY <1>2 DEF Free

LEMMA OpenedIs ==
  ASSUME NEW t \in Tables, Free(t) # {}, NEW d \in Descs
  PROVE  /\ Opened(t, d) \in Tables /\ Opened(t, d)[Min(Free(t))] = d
         /\ \A f \in Fds : f # Min(Free(t)) => Opened(t, d)[f] = t[f]
BY FreeIs DEF Opened, Tables

LEMMA SecondFree ==
  ASSUME NEW t \in Tables, Cardinality(Free(t)) >= 2, NEW d \in Descs, d # Closed
  PROVE  Free(t) # {} /\ Free(Opened(t, d)) # {}
<1>1. Free(t) # {}
  BY FS_EmptySet
<1>2. Free(Opened(t, d)) = Free(t) \ {Min(Free(t))}
  BY <1>1, FreeIs, OpenedIs DEF Free
<1>3. ASSUME Free(Opened(t, d)) = {} PROVE FALSE
  <2>1. Free(t) = {Min(Free(t))}
    BY <1>1, <1>2, <1>3, FreeIs DEF Free
  <2> HIDE DEF Free
  <2>2. Cardinality(Free(t)) = 1
    BY <2>1, FS_Singleton
  <2> QED BY <2>2
<1> QED BY <1>1, <1>3

LEMMA WithoutIs ==
  ASSUME NEW t \in Tables, NEW S
  PROVE  /\ Without(t, S) \in Tables
         /\ \A f \in Fds : Without(t, S)[f] = IF f \in S THEN Closed ELSE t[f]
BY DEF Without, Tables, Descs, Closed

LEMMA DescKinds ==
  /\ \A k, j, m, n : Desc(k, j) = Desc(m, n) <=> k = m /\ j = n
  /\ \A k, j : Desc(k, j).kind = k /\ Desc(k, j).pipe = j
  /\ Closed.kind = "closed" /\ Tty.kind = "tty" /\ Closed # Tty
BY DEF Desc, Closed, Tty

LEMMA PipeDescs ==
  ASSUME NEW j \in Stages
  PROVE  Desc("read", j) \in Descs /\ Desc("write", j) \in Descs
BY DEF Descs

--------------------------------------------------------------------------------
(* What a step of a child or a program leaves alone.                              *)

Live == {"forked", "stdin", "stdout", "run"}

LEMMA TableKept ==
  ASSUME NEW i \in Stages, NEW at, NEW t, TableOf(i, at, t),
         child'[i].at = at, child'[i].fds = t,
         UNCHANGED <<line, pipes, fd_in, fd_out, num_segments>>
  PROVE  TableInv(i)'
<1>1. TableInv(i)' <=> TableOf(i, child[i].at, child[i].fds)'
  BY DEF TableInv
<1>2. TableOf(i, child[i].at, child[i].fds)' <=> TableOf(i, child'[i].at, child'[i].fds)
  BY DEF TableOf, ForkedTable, StdinTable, StdoutTable, RunTable, Standard, AllEnds, AllFiles,
     Files, LastFile, IsLast, OwnRead, OwnWrite, InDesc, OutDesc, NoChild
<1> QED BY <1>1, <1>2

LEMMA LiveChild ==
  ASSUME IInv, NEW i \in Stages, child[i].at \in Live
  PROVE  /\ spc \in {"fork", "wait"} /\ i < num_segments
         /\ spc = "fork" => i < next
         /\ spc = "wait" => i >= next
<1>1. StartedInv(i) /\ num_segments \in Nat /\ next \in 0..num_segments
  BY SizesAssumption DEF IInv, ChildInv, ShapeInv
<1> QED BY <1>1, SizesAssumption DEF StartedInv, Live, Stages

LEMMA ShellKept ==
  ASSUME IInv, UNCHANGED shell, spc # "redirect"
  PROVE  RedirectInv' /\ ShellInv' /\ EndsInv' /\ ArrayBounds'
<1>1. RedirectInv'
  BY DEF RedirectInv, shell
<1>2. ShellInv'
  BY DEF IInv, ShellInv, shell, tokens, Standard, NoEnds, AllEnds, AllFiles, Files, LastFile, IsLast
<1>3. EndsInv'
  BY DEF IInv, EndsInv, shell
<1>4. ArrayBounds'
  BY DEF IInv, ArrayBounds, shell, tokens
<1> QED BY <1>1, <1>2, <1>3, <1>4

(* A child moves on, with another table: what is left to prove is the table.      *)
LEMMA ChildMoves ==
  ASSUME IInv, NEW i \in Stages, child[i].at \in Live,
         NEW at \in (Live \union {"ended"}) , NEW t \in Tables,
         child' = [child EXCEPT ![i] = [at |-> at, fds |-> t]],
         TableOf(i, at, t),
         UNCHANGED <<shell, buffer, held, put, got, eof>>,
         broken' \subseteq Stages,
         \A k \in broken' : k \in broken \/ (k < num_segments - 1 /\ child[k + 1].at = "ended")
  PROVE  IInv'
<1>1. spc \in {"fork", "wait"} /\ i < num_segments /\ spc = "fork" => i < next
  BY LiveChild
<1> USE DEF IInv
<1>2. RedirectInv' /\ ShellInv' /\ EndsInv' /\ ArrayBounds'
  BY LiveChild, ShellKept
<1>3. child' \in [Stages -> [at : {"none", "forked", "stdin", "stdout", "run", "ended"},
                             fds : Tables]]
  BY DEF ShapeInv, Live
<1>4. ShapeInv'
  BY <1>3 DEF ShapeInv, shell, tokens
<1>5. child'[i] = [at |-> at, fds |-> t] /\ \A k \in Stages \ {i} : child'[k] = child[k]
  BY DEF ShapeInv
<1>6. ASSUME NEW k \in Stages PROVE TableInv(k)'
  <2>1. CASE k = i
    BY <1>5, <2>1, TableKept DEF shell, tokens
  <2>2. CASE k # i
    <3>1. TableOf(k, child[k].at, child[k].fds)
      BY DEF ChildInv, TableInv
    <3>2. child'[k].at = child[k].at /\ child'[k].fds = child[k].fds
      BY <1>5, <2>2
    <3> HIDE DEF IInv
    <3> QED BY <3>1, <3>2, TableKept DEF shell, tokens
  <2> QED BY <2>1, <2>2
<1>7. ASSUME NEW k \in Stages PROVE StartedInv(k)'
  <2>1. StartedInv(k)
    BY DEF ChildInv
  <2>2. CASE k = i
    <3>1. child'[i].at = at /\ at # "none" /\ child[i].at \notin {"none", "ended"}
      BY <1>5 DEF Live
    <3> QED BY <1>1, <2>1, <2>2, <3>1 DEF StartedInv, shell
  <2>3. CASE k # i
    BY <1>5, <2>1, <2>3 DEF StartedInv, shell
  <2> QED BY <2>2, <2>3
<1>8. ChildInv'
  BY <1>6, <1>7 DEF ChildInv
<1>9. FlowInv'
  BY DEF FlowInv, shell
<1>10. \A k \in Stages : child[k].at = "ended" => child'[k].at = "ended"
  BY <1>5 DEF Live
<1>11. NoEarlyEof'
  <2> SUFFICES ASSUME NEW k \in eof, k > 0
               PROVE  child'[k - 1].at = "ended" /\ got[k] = put[k - 1]
    BY DEF NoEarlyEof
  <2>1. k - 1 \in Stages
    BY SizesAssumption DEF ShapeInv, Stages
  <2> QED BY <1>10, <2>1 DEF EofInv, NoEarlyEof
<1>12. \A k \in broken' : k < num_segments - 1 /\ child'[k + 1].at = "ended"
  <2> SUFFICES ASSUME NEW k \in broken' PROVE k < num_segments - 1 /\ child'[k + 1].at = "ended"
    OBVIOUS
  <2>1. k < num_segments - 1 /\ child[k + 1].at = "ended"
    BY DEF EofInv, NoEarlyBrokenPipe
  <2>2. k + 1 \in Stages
    BY <2>1, SizesAssumption DEF ShapeInv, Stages
  <2> QED BY <1>10, <2>1, <2>2
<1>13. EofInv'
  BY <1>11, <1>12 DEF EofInv, NoEarlyBrokenPipe, shell
<1> QED BY <1>2, <1>4, <1>8, <1>9, <1>13

(* A program reads or writes: what is left to prove is where the units are.       *)
LEMMA ProgramMoves ==
  ASSUME IInv, NEW i \in Stages, child[i].at \in Live, UNCHANGED <<shell, child, broken>>,
         buffer' \in [Stages -> 0..Capacity], held' \in [Stages -> 0..1],
         put' \in [Stages -> Nat], got' \in [Stages -> Nat], eof' \subseteq Stages,
         FlowInv', \A k \in eof' : k < num_segments, NoEarlyEof'
  PROVE  IInv'
<1> USE DEF IInv
<1>1. RedirectInv' /\ ShellInv' /\ EndsInv' /\ ArrayBounds'
  BY LiveChild, ShellKept
<1>2. ShapeInv'
  BY DEF ShapeInv, shell, tokens
<1>3. ASSUME NEW k \in Stages PROVE TableInv(k)' /\ StartedInv(k)'
  <2>1. TableOf(k, child[k].at, child[k].fds) /\ StartedInv(k)
    BY DEF ChildInv, TableInv
  <2> HIDE DEF IInv
  <2>2. TableInv(k)'
    BY <2>1, TableKept DEF shell, tokens
  <2>3. StartedInv(k)'
    BY <2>1 DEF StartedInv, shell
  <2> QED BY <2>2, <2>3
<1>4. ChildInv'
  BY <1>3 DEF ChildInv
<1>5. EofInv'
  BY DEF EofInv, NoEarlyBrokenPipe, shell
<1> QED BY <1>1, <1>2, <1>4, <1>5

--------------------------------------------------------------------------------
(* The children's steps.                                                          *)

(* What the table lemmas take from the invariant.                                 *)
LEMMA LiveFacts ==
  ASSUME IInv, NEW i \in Stages, child[i].at \in Live
  PROVE  /\ child[i].fds \in Tables /\ TableOf(i, child[i].at, child[i].fds)
         /\ i \in 0..(num_segments - 1) /\ num_segments \in Nat
         /\ DOMAIN pipes = 1..(num_segments - 1)
         /\ \A j \in DOMAIN pipes : pipes[j].r \in Fds /\ pipes[j].w \in Fds
         /\ fd_in \in Fds \union {-1} /\ fd_out \in Fds \union {-1}
         /\ {0, 1, 2} \subseteq Fds /\ Fds \subseteq Nat
         /\ spc \in {"fork", "wait"}
<1>1. spc \in {"fork", "wait"} /\ i < num_segments
  BY LiveChild
<1>2. child[i].fds \in Tables /\ TableOf(i, child[i].at, child[i].fds)
  BY DEF IInv, ShapeInv, ChildInv, TableInv
<1>3. i \in 0..(num_segments - 1) /\ num_segments \in Nat
  BY <1>1, SizesAssumption DEF IInv, ShapeInv, Stages
<1>4. pipes \in Seq([r : Fds, w : Fds]) /\ fd_in \in Fds \union {-1} /\ fd_out \in Fds \union {-1}
  BY DEF IInv, ShapeInv
<1>5. Len(pipes) = num_segments - 1
  BY <1>1 DEF IInv, ShellInv
<1>6. DOMAIN pipes = 1..(num_segments - 1)
  BY <1>4, <1>5
<1>7. \A j \in DOMAIN pipes : pipes[j] \in [r : Fds, w : Fds]
  <2>1. \A S : \A s \in Seq(S) : \A k \in DOMAIN s : s[k] \in S
    OBVIOUS
  <2> QED BY <1>4, <2>1, Zenon
<1>8. {0, 1, 2} \subseteq Fds /\ Fds \subseteq Nat
  BY SizesAssumption DEF Fds
<1> QED BY <1>1, <1>2, <1>3, <1>4, <1>6, <1>7, <1>8

LEMMA CloseUnrelatedKeeps ==
  ASSUME IInv, NEW i \in Stages, CloseUnrelated(i)
  PROVE  IInv'
<1> DEFINE t == child[i].fds
           u == Without(t, Unrelated(i))
<1>1. child[i].at = "forked" /\ child' = [child EXCEPT ![i] = [at |-> "stdin", fds |-> u]]
      /\ UNCHANGED <<shell, programs>>
  BY DEF CloseUnrelated, At
<1>2. ForkedTable(i, t) /\ t \in Tables
  BY <1>1, LiveFacts DEF Live, TableOf
<1>3. u \in Tables /\ \A f \in Fds : u[f] = IF f \in Unrelated(i) THEN Closed ELSE t[f]
  BY <1>2, WithoutIs
<1> HIDE DEF u
<1>4. /\ i \in 0..(num_segments - 1) /\ num_segments \in Nat /\ DOMAIN pipes = 1..(num_segments - 1)
      /\ \A j \in DOMAIN pipes : pipes[j].r \in Fds /\ pipes[j].w \in Fds
      /\ fd_in \in Fds \union {-1} /\ fd_out \in Fds \union {-1} /\ spc \in {"fork", "wait"}
      /\ {0, 1, 2} \subseteq Fds /\ Fds \subseteq Nat
  BY <1>1, LiveFacts DEF Live
<1>5. /\ \A j \in DOMAIN pipes :
           /\ pipes[j].r > 2 /\ pipes[j].w > 2
           /\ fd_in \notin {pipes[j].r, pipes[j].w} /\ fd_out \notin {pipes[j].r, pipes[j].w}
           /\ \A k \in DOMAIN pipes : /\ pipes[j].r # pipes[k].w
                                      /\ j # k => pipes[j].r # pipes[k].r /\ pipes[j].w # pipes[k].w
  BY <1>4 DEF IInv, EndsInv
<1>6. Unrelated(i) \cap {0, 1, 2, fd_in, fd_out} = {}
  BY <1>5 DEF Unrelated
<1>7. Standard(u) /\ AllFiles(u)
  <2>1. Standard(u)
    BY <1>2, <1>3, <1>4, <1>6 DEF Standard, ForkedTable
  <2>2. (fd_in # -1 => u[fd_in] = t[fd_in]) /\ (fd_out # -1 => u[fd_out] = t[fd_out])
    BY <1>3, <1>4, <1>6
  <2> QED BY <1>2, <2>1, <2>2 DEF ForkedTable, AllFiles, Files, LastFile
<1>8. ASSUME NEW f \in Fds, OwnRead(i, f) PROVE u[f] = Desc("read", i - 1)
  <2>1. i \in DOMAIN pipes /\ f = pipes[i].r /\ f \notin Unrelated(i)
    BY <1>4, <1>5, <1>8 DEF OwnRead, Unrelated
  <2> QED BY <1>2, <1>3, <2>1 DEF ForkedTable, AllEnds
<1>9. ASSUME NEW f \in Fds, OwnWrite(i, f) PROVE u[f] = Desc("write", i)
  <2>1. i + 1 \in DOMAIN pipes /\ f = pipes[i + 1].w /\ f \notin Unrelated(i)
    BY <1>4, <1>5, <1>9 DEF OwnWrite, Unrelated
  <2>2. t[f] = Desc("write", (i + 1) - 1) /\ (i + 1) - 1 = i
    BY <1>2, <1>4, <2>1 DEF ForkedTable, AllEnds
  <2> QED BY <1>3, <2>1, <2>2
<1>10. ASSUME NEW f \in Fds, u[f].kind \in PipeKinds PROVE OwnRead(i, f) \/ OwnWrite(i, f)
  <2>1. f \notin Unrelated(i) /\ t[f].kind \in PipeKinds
    BY <1>3, <1>10, DescKinds DEF PipeKinds
  <2>2. PICK j \in DOMAIN pipes : f \in {pipes[j].r, pipes[j].w}
    BY <1>2, <2>1 DEF ForkedTable, AllEnds
  <2>3. CASE f = pipes[j].r
    BY <1>4, <2>1, <2>2, <2>3 DEF Unrelated, OwnRead
  <2>4. CASE f = pipes[j].w
    BY <1>4, <2>1, <2>2, <2>4 DEF Unrelated, OwnWrite
  <2> QED BY <2>2, <2>3, <2>4
<1>11. TableOf(i, "stdin", u)
  BY <1>7, <1>8, <1>9, <1>10 DEF TableOf, StdinTable
<1>12. \A k \in broken' : k \in broken \/ (k < num_segments - 1 /\ child[k + 1].at = "ended")
  <2>1. broken' = broken
    BY <1>1 DEF programs
  <2> QED BY <2>1
<1>13. UNCHANGED <<shell, buffer, held, put, got, eof>> /\ broken' \subseteq Stages
  BY <1>1 DEF programs, IInv, ShapeInv
<1> HIDE DEF t
<1>14. child[i].at \in Live /\ "stdin" \in (Live \union {"ended"})
  BY <1>1 DEF Live
<1> QED BY <1>1, <1>3, <1>11, <1>12, <1>13, <1>14, ChildMoves, Zenon

LEMMA SetStdinKeeps ==
  ASSUME IInv, NEW i \in Stages, SetStdin(i)
  PROVE  IInv'
<1> DEFINE t == child[i].fds
           u == Stdin(i, t)
<1>1. child[i].at = "stdin" /\ child' = [child EXCEPT ![i] = [at |-> "stdout", fds |-> u]]
      /\ UNCHANGED <<shell, programs>>
  BY DEF SetStdin, At
<1>2. StdinTable(i, t) /\ t \in Tables
  BY <1>1, LiveFacts DEF Live, TableOf
<1>4. /\ i \in 0..(num_segments - 1) /\ num_segments \in Nat /\ DOMAIN pipes = 1..(num_segments - 1)
      /\ \A j \in DOMAIN pipes : pipes[j].r \in Fds /\ pipes[j].w \in Fds
      /\ fd_in \in Fds \union {-1} /\ fd_out \in Fds \union {-1} /\ spc \in {"fork", "wait"}
      /\ {0, 1, 2} \subseteq Fds /\ Fds \subseteq Nat
  BY <1>1, LiveFacts DEF Live
<1>5. /\ \A j \in DOMAIN pipes :
           /\ pipes[j].r > 2 /\ pipes[j].w > 2
           /\ fd_in \notin {pipes[j].r, pipes[j].w} /\ fd_out \notin {pipes[j].r, pipes[j].w}
           /\ \A k \in DOMAIN pipes : /\ pipes[j].r # pipes[k].w
                                      /\ j # k => pipes[j].r # pipes[k].r /\ pipes[j].w # pipes[k].w
      /\ (fd_in = -1 \/ fd_in > 2) /\ (fd_out = -1 \/ fd_out > 2) /\ (fd_in = fd_out => fd_in = -1)
  BY <1>4 DEF IInv, EndsInv
<1> DEFINE closed == IF i > 0 THEN {pipes[i].w, pipes[i].r}
                     ELSE IF fd_in # -1 THEN {fd_in} ELSE {}
           from   == IF i > 0 THEN pipes[i].r ELSE IF fd_in # -1 THEN fd_in ELSE 0
<1>6. u \in Tables /\ \A f \in Fds : u[f] = IF f \in closed THEN Closed
                                            ELSE IF f = 0 THEN t[from] ELSE t[f]
  <2>1. from \in Fds
    BY <1>4
  <2>2. Dup2(t, from, 0) \in Tables
        /\ \A f \in Fds : Dup2(t, from, 0)[f] = IF f = 0 THEN t[from] ELSE t[f]
    BY <1>2, <1>4, <2>1 DEF Dup2, Tables
  <2> HIDE DEF from
  <2>3. Without(Dup2(t, from, 0), closed) \in Tables
        /\ \A f \in Fds : Without(Dup2(t, from, 0), closed)[f]
                            = IF f \in closed THEN Closed ELSE IF f = 0 THEN t[from] ELSE t[f]
    BY <2>2, WithoutIs
  <2>4. CASE i > 0 \/ fd_in # -1
    BY <2>3, <2>4, <1>4 DEF Stdin, from
  <2>5. CASE ~(i > 0 \/ fd_in # -1)
    BY <2>5, <1>2, <1>4 DEF Stdin, from
  <2> QED BY <2>4, <2>5
<1> HIDE DEF u
<1>7. 0 \notin closed /\ 1 \notin closed /\ (fd_out # -1 => fd_out \notin closed)
  BY <1>4, <1>5
<1>8. InDesc(i, u[0])
  <2>1. u[0] = t[from]
    BY <1>4, <1>6, <1>7
  <2>2. CASE i > 0
    <3>1. pipes[i].r \in Fds
      BY <1>4, <2>2
    <3> QED BY <1>2, <2>1, <2>2, <3>1 DEF StdinTable, OwnRead, InDesc
  <2>3. CASE i = 0
    BY <1>2, <2>1, <2>3 DEF StdinTable, AllFiles, Files, LastFile, Standard, InDesc
  <2> QED BY <1>4, <2>2, <2>3
<1>9. u[1] = Tty
  BY <1>2, <1>4, <1>6, <1>7 DEF StdinTable, Standard
<1>10. LastFile(u, fd_out, "out", OUTPUT, Len(line) + 1)
  <2>1. fd_out # -1 => u[fd_out] = t[fd_out]
    <3> SUFFICES ASSUME fd_out # -1 PROVE u[fd_out] = t[fd_out]
      OBVIOUS
    <3>1. fd_out \in Fds /\ fd_out # 0 /\ fd_out \notin closed
      BY <1>4, <1>5, <1>7
    <3> HIDE DEF closed
    <3> QED BY <1>6, <3>1
  <2> QED BY <1>2, <2>1 DEF StdinTable, AllFiles, Files, LastFile
<1>11. ASSUME NEW f \in Fds, OwnWrite(i, f) PROVE u[f] = Desc("write", i)
  <2>1. f \notin closed /\ f # 0
    <3>1. i + 1 \in DOMAIN pipes /\ f = pipes[i + 1].w
      BY <1>4, <1>11 DEF OwnWrite
    <3>2. CASE i > 0
      <4>1. i \in DOMAIN pipes /\ i # i + 1
        BY <1>4, <3>2
      <4> QED BY <1>5, <3>1, <3>2, <4>1
    <3>3. CASE i = 0
      BY <1>5, <3>1, <3>3
    <3> QED BY <1>4, <3>2, <3>3
  <2> QED BY <1>2, <1>6, <1>11, <2>1 DEF StdinTable
<1>12. ASSUME NEW f \in Fds, u[f].kind \in PipeKinds PROVE f = 0 \/ OwnWrite(i, f)
  <2>1. CASE f # 0
    <3>1. f \notin closed /\ t[f].kind \in PipeKinds
      BY <1>6, <1>12, <2>1, DescKinds DEF PipeKinds
    <3> QED BY <1>2, <3>1 DEF StdinTable, OwnRead
  <2> QED BY <2>1
<1>13. TableOf(i, "stdout", u)
  BY <1>8, <1>9, <1>10, <1>11, <1>12 DEF TableOf, StdoutTable
<1>14. \A k \in broken' : k \in broken \/ (k < num_segments - 1 /\ child[k + 1].at = "ended")
  <2>1. broken' = broken
    BY <1>1 DEF programs
  <2> QED BY <2>1
<1>15. UNCHANGED <<shell, buffer, held, put, got, eof>> /\ broken' \subseteq Stages
  BY <1>1 DEF programs, IInv, ShapeInv
<1> HIDE DEF t
<1>16. child[i].at \in Live /\ "stdout" \in (Live \union {"ended"})
  BY <1>1 DEF Live
<1> QED BY <1>1, <1>6, <1>13, <1>14, <1>15, <1>16, ChildMoves, Zenon

LEMMA SetStdoutKeeps ==
  ASSUME IInv, NEW i \in Stages, SetStdout(i)
  PROVE  IInv'
<1> DEFINE t == child[i].fds
           u == Stdout(i, t)
<1>1. child[i].at = "stdout" /\ child' = [child EXCEPT ![i] = [at |-> "run", fds |-> u]]
      /\ UNCHANGED <<shell, programs>>
  BY DEF SetStdout, At
<1>2. StdoutTable(i, t) /\ t \in Tables
  BY <1>1, LiveFacts DEF Live, TableOf
<1>4. /\ i \in 0..(num_segments - 1) /\ num_segments \in Nat /\ DOMAIN pipes = 1..(num_segments - 1)
      /\ \A j \in DOMAIN pipes : pipes[j].r \in Fds /\ pipes[j].w \in Fds
      /\ fd_in \in Fds \union {-1} /\ fd_out \in Fds \union {-1} /\ spc \in {"fork", "wait"}
      /\ {0, 1, 2} \subseteq Fds /\ Fds \subseteq Nat
  BY <1>1, LiveFacts DEF Live
<1>5. /\ \A j \in DOMAIN pipes : pipes[j].r > 2 /\ pipes[j].w > 2
      /\ (fd_in = -1 \/ fd_in > 2) /\ (fd_out = -1 \/ fd_out > 2)
  BY <1>4 DEF IInv, EndsInv
<1> DEFINE closed == IF i < num_segments - 1 THEN {pipes[i + 1].r, pipes[i + 1].w}
                     ELSE IF fd_out # -1 THEN {fd_out} ELSE {}
           from   == IF i < num_segments - 1 THEN pipes[i + 1].w
                     ELSE IF fd_out # -1 THEN fd_out ELSE 1
<1>6. u \in Tables /\ \A f \in Fds : u[f] = IF f \in closed THEN Closed
                                            ELSE IF f = 1 THEN t[from] ELSE t[f]
  <2>1. from \in Fds
    BY <1>4
  <2>2. Dup2(t, from, 1) \in Tables
        /\ \A f \in Fds : Dup2(t, from, 1)[f] = IF f = 1 THEN t[from] ELSE t[f]
    BY <1>2, <1>4, <2>1 DEF Dup2, Tables
  <2> HIDE DEF from
  <2>3. Without(Dup2(t, from, 1), closed) \in Tables
        /\ \A f \in Fds : Without(Dup2(t, from, 1), closed)[f]
                            = IF f \in closed THEN Closed ELSE IF f = 1 THEN t[from] ELSE t[f]
    BY <2>2, WithoutIs
  <2>4. CASE i < num_segments - 1 \/ fd_out # -1
    BY <2>3, <2>4, <1>4 DEF Stdout, from
  <2>5. CASE ~(i < num_segments - 1 \/ fd_out # -1)
    BY <2>5, <1>2, <1>4 DEF Stdout, from
  <2> QED BY <2>4, <2>5
<1> HIDE DEF u
<1>7. 0 \notin closed /\ 1 \notin closed
  BY <1>4, <1>5
<1>8. InDesc(i, u[0])
  BY <1>2, <1>4, <1>6, <1>7 DEF StdoutTable
<1>9. OutDesc(i, u[1])
  <2>1. u[1] = t[from]
    BY <1>4, <1>6, <1>7
  <2>2. CASE i < num_segments - 1
    <3>1. pipes[i + 1].w \in Fds
      BY <1>4, <2>2
    <3> QED BY <1>2, <1>4, <2>1, <2>2, <3>1 DEF StdoutTable, OwnWrite, OutDesc
  <2>3. CASE ~(i < num_segments - 1)
    BY <1>2, <2>1, <2>3 DEF StdoutTable, LastFile, OutDesc
  <2> QED BY <2>2, <2>3
<1>10. ASSUME NEW f \in Fds \ {0, 1}, u[f].kind \in PipeKinds PROVE FALSE
  <2>1. f \notin closed /\ t[f].kind \in PipeKinds
    BY <1>6, <1>10, DescKinds DEF PipeKinds
  <2> QED BY <1>2, <2>1 DEF StdoutTable, OwnWrite
<1>13. TableOf(i, "run", u)
  BY <1>8, <1>9, <1>10 DEF TableOf, RunTable
<1>14. \A k \in broken' : k \in broken \/ (k < num_segments - 1 /\ child[k + 1].at = "ended")
  <2>1. broken' = broken
    BY <1>1 DEF programs
  <2> QED BY <2>1
<1>15. UNCHANGED <<shell, buffer, held, put, got, eof>> /\ broken' \subseteq Stages
  BY <1>1 DEF programs, IInv, ShapeInv
<1> HIDE DEF t
<1>16. child[i].at \in Live /\ "run" \in (Live \union {"ended"})
  BY <1>1 DEF Live
<1> QED BY <1>1, <1>6, <1>13, <1>14, <1>15, <1>16, ChildMoves, Zenon

--------------------------------------------------------------------------------
(* The programs' steps.                                                           *)

LEMMA RunFacts ==
  ASSUME IInv, NEW i \in Stages, child[i].at = "run"
  PROVE  /\ FromPipe(i) <=> i > 0
         /\ i > 0 => In(i) = Desc("read", i - 1)
         /\ Out(i).kind = "write" <=> i < num_segments - 1
         /\ i < num_segments - 1 => Out(i) = Desc("write", i)
         /\ i \in 0..(num_segments - 1) /\ num_segments \in 1..MaxStages
<1>1. RunTable(i, child[i].fds) /\ i \in 0..(num_segments - 1)
  BY LiveFacts DEF Live, TableOf
<1>2. num_segments \in 1..MaxStages
  BY DEF IInv, ShapeInv
<1>3. InDesc(i, In(i)) /\ OutDesc(i, Out(i))
  BY <1>1 DEF RunTable, In, Out
<1> HIDE DEF In, Out
<1>4. (FromPipe(i) <=> i > 0) /\ (i > 0 => In(i) = Desc("read", i - 1))
  BY <1>3, DescKinds DEF InDesc, FromPipe
<1>5. /\ Out(i).kind = "write" <=> i < num_segments - 1
      /\ i < num_segments - 1 => Out(i) = Desc("write", i)
  BY <1>3, DescKinds DEF OutDesc
<1> QED BY <1>1, <1>2, <1>4, <1>5

(* Each pipe's numbers as integers, for the steps that count.                     *)
LEMMA FlowFacts ==
  ASSUME IInv, NEW i \in Stages
  PROVE  /\ got[i] \in Nat /\ put[i] \in Nat /\ held[i] \in 0..1 /\ buffer[i] \in 0..Capacity
         /\ got[i] = put[i] + held[i] /\ got[i] <= Units
         /\ i > 0 /\ i < num_segments => put[i - 1] = got[i] + buffer[i - 1]
         /\ i > 0 => i - 1 \in Stages
         /\ i \in Nat
BY SizesAssumption DEF IInv, ShapeInv, FlowInv, Stages

(* An unfinished stage, or the shell that has yet to fork it, holds its ends of   *)
(* the pipes.                                                                     *)
LEMMA WriterHasEnd ==
  ASSUME IInv, NEW k \in Stages, k < num_segments - 1, spc \in {"fork", "wait"},
         child[k].at # "ended"
  PROVE  SomeoneHas(Desc("write", k))
<1>1. k + 1 \in DOMAIN pipes /\ pipes[k + 1].w \in Fds /\ (k + 1) - 1 = k
  <2>1. pipes \in Seq([r : Fds, w : Fds]) /\ Len(pipes) = num_segments - 1 /\ k \in Nat
        /\ num_segments \in Nat
    BY SizesAssumption DEF IInv, ShapeInv, ShellInv, Stages
  <2>2. k + 1 \in DOMAIN pipes /\ (k + 1) - 1 = k
    BY <2>1
  <2>3. \A S : \A s \in Seq(S) : \A j \in DOMAIN s : s[j] \in S
    OBVIOUS
  <2>4. pipes[k + 1] \in [r : Fds, w : Fds]
    BY <2>1, <2>2, <2>3, Zenon
  <2> QED BY <2>2, <2>4
<1>2. TableOf(k, child[k].at, child[k].fds) /\ StartedInv(k) /\ k \in Nat /\ 1 \in Fds
      /\ num_segments \in Nat
      /\ child[k].at \in {"none", "forked", "stdin", "stdout", "run", "ended"}
  BY SizesAssumption DEF IInv, ChildInv, TableInv, Stages, Fds, ShapeInv
<1>3. CASE child[k].at = "none"
  <2>1. spc = "fork"
    BY <1>2, <1>3 DEF StartedInv
  <2>2. fds[pipes[k + 1].w] = Desc("write", k)
    BY <1>1, <2>1 DEF IInv, ShellInv, AllEnds
  <2> QED BY <1>1, <2>2 DEF SomeoneHas, HasOpen
<1>4. CASE child[k].at # "none"
  <2>1. \E f \in Fds : child[k].fds[f] = Desc("write", k)
    <3>1. CASE child[k].at = "forked"
      BY <1>1, <1>2, <3>1 DEF TableOf, ForkedTable, AllEnds
    <3>2. CASE child[k].at = "stdin"
      BY <1>1, <1>2, <3>2 DEF TableOf, StdinTable, OwnWrite
    <3>3. CASE child[k].at = "stdout"
      BY <1>1, <1>2, <3>3 DEF TableOf, StdoutTable, OwnWrite
    <3>4. CASE child[k].at = "run"
      BY <1>2, <3>4 DEF TableOf, RunTable, OutDesc
    <3> QED BY <1>2, <1>4, <3>1, <3>2, <3>3, <3>4
  <2> QED BY <2>1 DEF SomeoneHas, HasOpen
<1> QED BY <1>3, <1>4

LEMMA ReaderHasEnd ==
  ASSUME IInv, NEW k \in Stages, k > 0, k < num_segments, spc \in {"fork", "wait"},
         child[k].at # "ended"
  PROVE  SomeoneHas(Desc("read", k - 1))
<1>1. k \in DOMAIN pipes /\ pipes[k].r \in Fds
  <2>1. pipes \in Seq([r : Fds, w : Fds]) /\ Len(pipes) = num_segments - 1 /\ k \in Nat
        /\ num_segments \in Nat
    BY SizesAssumption DEF IInv, ShapeInv, ShellInv, Stages
  <2>2. k \in DOMAIN pipes
    BY <2>1
  <2>3. \A S : \A s \in Seq(S) : \A j \in DOMAIN s : s[j] \in S
    OBVIOUS
  <2>4. pipes[k] \in [r : Fds, w : Fds]
    BY <2>1, <2>2, <2>3, Zenon
  <2> QED BY <2>2, <2>4
<1>2. TableOf(k, child[k].at, child[k].fds) /\ StartedInv(k) /\ k \in Nat /\ 0 \in Fds
      /\ num_segments \in Nat
      /\ child[k].at \in {"none", "forked", "stdin", "stdout", "run", "ended"}
  BY SizesAssumption DEF IInv, ChildInv, TableInv, Stages, Fds, ShapeInv
<1>3. CASE child[k].at = "none"
  <2>1. spc = "fork"
    BY <1>2, <1>3 DEF StartedInv
  <2>2. fds[pipes[k].r] = Desc("read", k - 1)
    BY <1>1, <2>1 DEF IInv, ShellInv, AllEnds
  <2> QED BY <1>1, <2>2 DEF SomeoneHas, HasOpen
<1>4. CASE child[k].at # "none"
  <2>1. \E f \in Fds : child[k].fds[f] = Desc("read", k - 1)
    <3>1. CASE child[k].at = "forked"
      BY <1>1, <1>2, <3>1 DEF TableOf, ForkedTable, AllEnds
    <3>2. CASE child[k].at = "stdin"
      BY <1>1, <1>2, <3>2 DEF TableOf, StdinTable, OwnRead
    <3>3. CASE child[k].at = "stdout"
      BY <1>2, <3>3 DEF TableOf, StdoutTable, InDesc
    <3>4. CASE child[k].at = "run"
      BY <1>2, <3>4 DEF TableOf, RunTable, InDesc
    <3> QED BY <1>2, <1>4, <3>1, <3>2, <3>3, <3>4
  <2> QED BY <2>1 DEF SomeoneHas, HasOpen
<1> QED BY <1>3, <1>4

LEMMA ProduceKeeps ==
  ASSUME IInv, NEW i \in Stages, Produce(i)
  PROVE  IInv'
<1>1. child[i].at = "run" /\ i = 0 /\ held[i] = 0 /\ got[i] < Units
      /\ held' = [held EXCEPT ![i] = 1] /\ got' = [got EXCEPT ![i] = @ + 1]
      /\ UNCHANGED <<shell, child, buffer, put, eof, broken>>
  BY RunFacts DEF Produce, Running, Stages
<1>2. UNCHANGED num_segments
  BY <1>1 DEF shell
<1>3. /\ buffer' \in [Stages -> 0..Capacity] /\ held' \in [Stages -> 0..1]
      /\ put' \in [Stages -> Nat] /\ got' \in [Stages -> Nat] /\ eof' \subseteq Stages
  BY <1>1 DEF IInv, ShapeInv
<1>4. ASSUME NEW k \in Stages
      PROVE  /\ held'[k] = IF k = i THEN 1 ELSE held[k]
             /\ got'[k] = IF k = i THEN got[i] + 1 ELSE got[k]
  BY <1>1 DEF IInv, ShapeInv
<1>5. FlowInv'
  <2> SUFFICES ASSUME NEW k \in Stages
               PROVE  /\ got'[k] = put'[k] + held'[k] /\ got'[k] <= Units
                      /\ k > 0 /\ k < num_segments' => put'[k - 1] = got'[k] + buffer'[k - 1]
    BY DEF FlowInv
  <2> QED BY <1>1, <1>2, <1>4, FlowFacts, SizesAssumption
<1>6. NoEarlyEof'
  BY <1>1, <1>4 DEF IInv, EofInv, ShapeInv, NoEarlyEof
<1>7. \A k \in eof' : k < num_segments
  BY <1>1 DEF IInv, EofInv
<1> QED BY <1>1, <1>3, <1>5, <1>6, <1>7, ProgramMoves DEF Live

LEMMA ReadKeeps ==
  ASSUME IInv, NEW i \in Stages, Read(i)
  PROVE  IInv'
<1>1. child[i].at = "run" /\ FromPipe(i) /\ held[i] = 0 /\ buffer[In(i).pipe] > 0
      /\ buffer' = [buffer EXCEPT ![In(i).pipe] = @ - 1]
      /\ held' = [held EXCEPT ![i] = 1] /\ got' = [got EXCEPT ![i] = @ + 1]
      /\ UNCHANGED <<shell, child, put, eof, broken>>
  BY DEF Read, Running
<1>2. UNCHANGED num_segments
  BY <1>1 DEF shell
<1>3. i > 0 /\ In(i).pipe = i - 1 /\ i < num_segments /\ i - 1 \in Stages /\ i \in Nat
  BY <1>1, RunFacts, DescKinds, FlowFacts
<1>4. ASSUME NEW k \in Stages
      PROVE  /\ held'[k] = IF k = i THEN 1 ELSE held[k]
             /\ got'[k] = IF k = i THEN got[i] + 1 ELSE got[k]
             /\ buffer'[k] = IF k = i - 1 THEN buffer[i - 1] - 1 ELSE buffer[k]
  BY <1>1, <1>3 DEF IInv, ShapeInv
<1>5. /\ put' \in [Stages -> Nat] /\ got' \in [Stages -> Nat] /\ eof' \subseteq Stages
      /\ held' \in [Stages -> 0..1]
  BY <1>1 DEF IInv, ShapeInv
<1>6. buffer' \in [Stages -> 0..Capacity]
  <2>1. buffer[i - 1] \in 0..Capacity /\ buffer[i - 1] > 0
    BY <1>1, <1>3, FlowFacts
  <2>2. buffer[i - 1] - 1 \in 0..Capacity
    BY <2>1, SizesAssumption
  <2> QED BY <1>1, <1>3, <2>2 DEF IInv, ShapeInv
<1>7. put[i - 1] = got[i] + buffer[i - 1] /\ put[i - 1] <= Units
      /\ got[i] \in Nat /\ buffer[i - 1] \in Nat /\ buffer[i - 1] > 0 /\ put[i] \in Nat
  BY <1>1, <1>3, FlowFacts, SizesAssumption
<1>8. FlowInv'
  <2> SUFFICES ASSUME NEW k \in Stages
               PROVE  /\ got'[k] = put'[k] + held'[k] /\ got'[k] <= Units
                      /\ k > 0 /\ k < num_segments' => put'[k - 1] = got'[k] + buffer'[k - 1]
    BY DEF FlowInv
  <2>1. CASE k = i
    BY <1>1, <1>2, <1>3, <1>4, <1>7, <2>1, FlowFacts, SizesAssumption
  <2>2. CASE k # i
    <3>1. k \in Nat /\ (k > 0 => k - 1 \in Stages /\ k - 1 # i - 1)
      BY <1>3, <2>2, FlowFacts
    <3>2. k > 0 => buffer'[k - 1] = buffer[k - 1]
      BY <1>4, <3>1
    <3> QED BY <1>1, <1>2, <1>4, <2>2, <3>1, <3>2, FlowFacts
  <2> QED BY <2>1, <2>2
<1>9. NoEarlyEof'
  <2> SUFFICES ASSUME NEW k \in eof, k > 0
               PROVE  child[k - 1].at = "ended" /\ got'[k] = put[k - 1]
    BY <1>1 DEF NoEarlyEof
  <2>1. child[k - 1].at = "ended" /\ got[k] = put[k - 1] /\ k \in Stages
    BY DEF IInv, EofInv, NoEarlyEof, ShapeInv
  <2>2. k # i
    BY <1>7, <2>1
  <2> QED BY <1>4, <2>1, <2>2
<1>10. \A k \in eof' : k < num_segments
  BY <1>1 DEF IInv, EofInv
<1> QED BY <1>1, <1>5, <1>6, <1>8, <1>9, <1>10, ProgramMoves DEF Live

LEMMA SeesEndKeeps ==
  ASSUME IInv, NEW i \in Stages, SeesEnd(i)
  PROVE  IInv'
<1>1. child[i].at = "run" /\ eof' = eof \union {i}
      /\ UNCHANGED <<shell, child, buffer, held, put, got, broken>>
      /\ (FromPipe(i) => buffer[In(i).pipe] = 0 /\ ~SomeoneHas(Desc("write", In(i).pipe)))
  BY DEF SeesEnd, Running
<1>2. i \in 0..(num_segments - 1) /\ num_segments \in 1..MaxStages /\ spc \in {"fork", "wait"}
  BY <1>1, RunFacts, LiveChild DEF Live
<1>3. i > 0 => child[i - 1].at = "ended" /\ got[i] = put[i - 1]
  <2> SUFFICES ASSUME i > 0 PROVE child[i - 1].at = "ended" /\ got[i] = put[i - 1]
    OBVIOUS
  <2>1. In(i).pipe = i - 1 /\ buffer[i - 1] = 0 /\ ~SomeoneHas(Desc("write", i - 1))
    BY <1>1, RunFacts, DescKinds
  <2>2. got[i] = put[i - 1] /\ i - 1 \in Stages
    BY <1>2, <2>1, FlowFacts
  <2>3. child[i - 1].at = "ended"
    BY <1>2, <2>1, <2>2, WriterHasEnd
  <2> QED BY <2>2, <2>3
<1>4. /\ buffer' \in [Stages -> 0..Capacity] /\ held' \in [Stages -> 0..1]
      /\ put' \in [Stages -> Nat] /\ got' \in [Stages -> Nat] /\ eof' \subseteq Stages
  BY <1>1 DEF IInv, ShapeInv
<1>5. FlowInv'
  BY <1>1 DEF IInv, FlowInv, shell
<1>6. NoEarlyEof'
  BY <1>1, <1>3 DEF IInv, EofInv, NoEarlyEof
<1>7. \A k \in eof' : k < num_segments
  BY <1>1, <1>2 DEF IInv, EofInv
<1> QED BY <1>1, <1>4, <1>5, <1>6, <1>7, ProgramMoves DEF Live

LEMMA WriteKeeps ==
  ASSUME IInv, NEW i \in Stages, Write(i)
  PROVE  IInv'
<1>1. child[i].at = "run" /\ held[i] = 1
      /\ held' = [held EXCEPT ![i] = 0] /\ put' = [put EXCEPT ![i] = @ + 1]
      /\ UNCHANGED <<shell, child, got, eof, broken>>
  BY DEF Write, Running
<1>2. UNCHANGED num_segments
  BY <1>1 DEF shell
<1>3. i \in 0..(num_segments - 1) /\ num_segments \in 1..MaxStages
  BY <1>1, RunFacts
<1>4. /\ i < num_segments - 1 => /\ buffer[i] < Capacity
                                 /\ buffer' = [buffer EXCEPT ![i] = @ + 1]
      /\ ~(i < num_segments - 1) => buffer' = buffer
  BY <1>1, RunFacts, DescKinds DEF Write
<1>5. ASSUME NEW k \in Stages
      PROVE  /\ held'[k] = IF k = i THEN 0 ELSE held[k]
             /\ put'[k] = IF k = i THEN put[i] + 1 ELSE put[k]
             /\ k # i => buffer'[k] = buffer[k]
             /\ i < num_segments - 1 => buffer'[i] = buffer[i] + 1
  BY <1>1, <1>4 DEF IInv, ShapeInv
<1>6. /\ put' \in [Stages -> Nat] /\ got' \in [Stages -> Nat] /\ eof' \subseteq Stages
      /\ held' \in [Stages -> 0..1]
  BY <1>1 DEF IInv, ShapeInv
<1>7. buffer' \in [Stages -> 0..Capacity]
  <2>1. CASE i < num_segments - 1
    <3>1. buffer[i] + 1 \in 0..Capacity
      BY <1>4, <2>1, FlowFacts, SizesAssumption
    <3> QED BY <1>4, <2>1, <3>1 DEF IInv, ShapeInv
  <2>2. CASE ~(i < num_segments - 1)
    BY <1>4, <2>2 DEF IInv, ShapeInv
  <2> QED BY <2>1, <2>2
<1>8. FlowInv'
  <2> SUFFICES ASSUME NEW k \in Stages
               PROVE  /\ got'[k] = put'[k] + held'[k] /\ got'[k] <= Units
                      /\ k > 0 /\ k < num_segments' => put'[k - 1] = got'[k] + buffer'[k - 1]
    BY DEF FlowInv
  <2>1. got'[k] = put'[k] + held'[k] /\ got'[k] <= Units
    BY <1>1, <1>5, FlowFacts
  <2>2. ASSUME k > 0, k < num_segments PROVE put'[k - 1] = got'[k] + buffer'[k - 1]
    <3>1. k \in Nat /\ k - 1 \in Stages /\ put[k - 1] = got[k] + buffer[k - 1]
          /\ got[k] \in Nat /\ buffer[k - 1] \in Nat
      BY <2>2, FlowFacts, SizesAssumption
    <3>2. CASE k - 1 = i
      <4>1. i < num_segments - 1
        BY <1>3, <2>2, <3>1, <3>2
      <4>2. buffer'[i] = buffer[i] + 1 /\ put'[i] = put[i] + 1
        BY <1>5, <4>1
      <4> QED BY <1>1, <3>1, <3>2, <4>2
    <3>3. CASE k - 1 # i
      <4>1. buffer'[k - 1] = buffer[k - 1] /\ put'[k - 1] = put[k - 1]
        BY <1>5, <3>1, <3>3
      <4> QED BY <1>1, <3>1, <4>1
    <3> QED BY <3>2, <3>3
  <2> QED BY <1>2, <2>1, <2>2
<1>9. NoEarlyEof'
  <2> SUFFICES ASSUME NEW k \in eof, k > 0
               PROVE  child[k - 1].at = "ended" /\ got[k] = put'[k - 1]
    BY <1>1 DEF NoEarlyEof
  <2>1. child[k - 1].at = "ended" /\ got[k] = put[k - 1] /\ k \in Stages
    BY DEF IInv, EofInv, NoEarlyEof, ShapeInv
  <2>2. k - 1 # i /\ k - 1 \in Stages
    BY <1>1, <2>1, FlowFacts
  <2> QED BY <1>5, <2>1, <2>2
<1>10. \A k \in eof' : k < num_segments
  BY <1>1 DEF IInv, EofInv
<1> QED BY <1>1, <1>6, <1>7, <1>8, <1>9, <1>10, ProgramMoves DEF Live

(* The steps in which a program ends.                                             *)
LEMMA EndedKeeps ==
  ASSUME IInv, NEW i \in Stages, child[i].at = "run", Ended(i),
         UNCHANGED <<shell, buffer, held, put, got, eof>>,
         broken' \subseteq Stages,
         \A k \in broken' : k \in broken \/ (k < num_segments - 1 /\ child[k + 1].at = "ended")
  PROVE  IInv'
<1> DEFINE t == NoChild.fds
<1>1. child' = [child EXCEPT ![i] = [at |-> "ended", fds |-> t]]
  <2>1. [NoChild EXCEPT !.at = "ended"] = [at |-> "ended", fds |-> t]
    BY DEF NoChild
  <2> QED BY <2>1 DEF Ended
<1>2. t \in Tables
  BY DEF Tables, Descs, NoChild
<1>3. TableOf(i, "ended", t)
  BY DEF TableOf
<1>4. child[i].at \in Live /\ "ended" \in (Live \union {"ended"})
  BY DEF Live
<1> HIDE DEF t
<1> QED BY <1>1, <1>2, <1>3, <1>4, ChildMoves, Zenon

LEMMA BrokenPipeKeeps ==
  ASSUME IInv, NEW i \in Stages, BrokenPipe(i)
  PROVE  IInv'
<1>1. child[i].at = "run" /\ Out(i).kind = "write" /\ ~SomeoneHas(Desc("read", Out(i).pipe))
      /\ broken' = broken \union {i} /\ Ended(i) /\ UNCHANGED <<shell, buffer, held, put, got, eof>>
  BY DEF BrokenPipe, Running
<1>2. i < num_segments - 1 /\ Out(i).pipe = i /\ i \in Nat /\ num_segments \in 1..MaxStages
      /\ spc \in {"fork", "wait"}
  BY <1>1, RunFacts, DescKinds, LiveChild DEF Live
<1>3. i + 1 \in Stages /\ i + 1 > 0 /\ i + 1 < num_segments /\ (i + 1) - 1 = i
  BY <1>2, SizesAssumption DEF Stages
<1>4. child[i + 1].at = "ended"
  BY <1>1, <1>2, <1>3, ReaderHasEnd
<1>5. broken' \subseteq Stages
  BY <1>1 DEF IInv, ShapeInv
<1>6. \A k \in broken' : k \in broken \/ (k < num_segments - 1 /\ child[k + 1].at = "ended")
  BY <1>1, <1>2, <1>4
<1> QED BY <1>1, <1>5, <1>6, EndedKeeps, Zenon

LEMMA ProgramEnds ==
  ASSUME IInv, NEW i \in Stages, Finishes(i) \/ ExecFails(i) \/ EndsEarly(i)
  PROVE  IInv'
<1>1. child[i].at = "run" /\ Ended(i) /\ UNCHANGED <<shell, programs>>
  BY DEF Finishes, ExecFails, EndsEarly, Running
<1>2. UNCHANGED <<shell, buffer, held, put, got, eof>> /\ broken' = broken
  BY <1>1 DEF programs
<1>3. broken' \subseteq Stages
  BY <1>2 DEF IInv, ShapeInv
<1>4. \A k \in broken' : k \in broken \/ (k < num_segments - 1 /\ child[k + 1].at = "ended")
  BY <1>2
<1> QED BY <1>1, <1>2, <1>3, <1>4, EndedKeeps, Zenon

--------------------------------------------------------------------------------
(* The shell's steps: the line and its token array.                               *)

LEMMA SeparateIs ==
  ASSUME NEW l \in Seq(Kinds), Len(l) < MAX_ARGS
  PROVE  /\ separate_input(l) \in [Cells -> (1..MAX_ARGS) \union {NULL, GARBAGE}]
         /\ End(separate_input(l)) = Len(l) /\ separate_input(l)[Len(l)] = NULL
         /\ \A p \in 0..(Len(l) - 1) : separate_input(l)[p] = p + 1
<1> DEFINE array == separate_input(l)
<1>1. Len(l) \in Cells /\ Len(l) \in Nat
  BY ArgsAssumption DEF Cells
<1>2. \A p \in Cells : array[p] = IF p < Len(l) THEN p + 1
                                  ELSE IF p = Len(l) THEN NULL ELSE GARBAGE
  BY DEF separate_input
<1>3. array \in [Cells -> (1..MAX_ARGS) \union {NULL, GARBAGE}]
  <2>1. \A p \in Cells : p < Len(l) => p + 1 \in 1..MAX_ARGS
    BY ArgsAssumption DEF Cells
  <2> QED BY <2>1 DEF separate_input
<1>4. \A p \in 0..(Len(l) - 1) : p \in Cells /\ array[p] = p + 1
  BY <1>1, <1>2, ArgsAssumption DEF Cells
<1>5. array[Len(l)] = NULL
  BY <1>1, <1>2
<1> HIDE DEF array
<1>6. array \in [Cells -> Int]
  BY <1>3 DEF NULL, GARBAGE
<1>7. \A p \in 0..(Len(l) - 1) : array[p] # NULL
  BY <1>4 DEF NULL
<1>8. End(array) = Len(l)
  BY <1>1, <1>5, <1>6, <1>7, EndAt
<1> QED BY <1>3, <1>4, <1>5, <1>8 DEF array

(* While no child is there, only the children's own state matters.                *)
LEMMA NoChildren ==
  ASSUME IInv, spc \notin {"fork", "wait"}, spc' \notin {"fork", "wait"}, UNCHANGED child,
         spc' \in {"redirect", "pipe"} => spc \in {"redirect", "pipe"}
  PROVE  ChildInv'
<1>1. ASSUME NEW i \in Stages PROVE TableInv(i)' /\ StartedInv(i)'
  <2>1. TableOf(i, child[i].at, child[i].fds) /\ child[i].at \in {"none", "ended"}
    BY DEF IInv, ChildInv, TableInv, StartedInv
  <2>2. child[i].fds = NoChild.fds
    BY <2>1 DEF TableOf
  <2>3. TableInv(i)'
    BY <2>1, <2>2 DEF TableInv, TableOf, NoChild
  <2>4. StartedInv(i)'
    BY <2>1 DEF IInv, ChildInv, StartedInv
  <2> QED BY <2>3, <2>4
<1> QED BY <1>1 DEF ChildInv

LEMMA ProgramsKept ==
  ASSUME IInv, UNCHANGED <<child, programs, num_segments>>
  PROVE  FlowInv' /\ EofInv'
BY DEF IInv, FlowInv, EofInv, NoEarlyEof, NoEarlyBrokenPipe, programs

(* A new line, or the first one: nothing has been read, no child is there.        *)
LEMMA AllAnew ==
  ASSUME child' = [i \in Stages |-> NoChild], spc' \notin {"fork", "wait"},
         buffer' = Zero, held' = Zero, put' = Zero, got' = Zero, eof' = {}, broken' = {}
  PROVE  /\ ChildInv' /\ FlowInv' /\ EofInv'
         /\ child' \in [Stages -> [at : {"none", "forked", "stdin", "stdout", "run", "ended"},
                                   fds : Tables]]
         /\ buffer' \in [Stages -> 0..Capacity] /\ held' \in [Stages -> 0..1]
         /\ put' \in [Stages -> Nat] /\ got' \in [Stages -> Nat]
<1>1. NoChild \in [at : {"none", "forked", "stdin", "stdout", "run", "ended"}, fds : Tables]
  BY DEF NoChild, Tables, Descs
<1>2. \A i \in Stages : child'[i] = NoChild /\ NoChild.at = "none"
  BY DEF NoChild
<1>3. ChildInv'
  <2>1. ASSUME NEW i \in Stages PROVE TableInv(i)' /\ StartedInv(i)'
    <3>1. TableInv(i)'
      BY <1>2 DEF TableInv, TableOf, NoChild
    <3>2. StartedInv(i)'
      BY <1>2 DEF StartedInv
    <3> QED BY <3>1, <3>2
  <2> QED BY <2>1 DEF ChildInv
<1>4. FlowInv'
  <2> SUFFICES ASSUME NEW i \in Stages
               PROVE  /\ got'[i] = put'[i] + held'[i] /\ got'[i] <= Units
                      /\ i > 0 /\ i < num_segments' => put'[i - 1] = got'[i] + buffer'[i - 1]
    BY DEF FlowInv
  <2>1. i \in Nat /\ (i > 0 => i - 1 \in Stages)
    BY SizesAssumption DEF Stages
  <2>2. \A k \in Stages : Zero[k] = 0
    BY DEF Zero
  <2> QED BY <2>1, <2>2, SizesAssumption
<1>5. EofInv'
  BY DEF EofInv, NoEarlyEof, NoEarlyBrokenPipe
<1>6. Zero \in [Stages -> 0..Capacity] /\ Zero \in [Stages -> 0..1] /\ Zero \in [Stages -> Nat]
  BY SizesAssumption DEF Zero
<1> QED BY <1>1, <1>3, <1>4, <1>5, <1>6

LEMMA InitInv == Init => IInv
<1> SUFFICES ASSUME Init PROVE IInv
  OBVIOUS
<1> USE DEF Init
<1>1. <<>> \in Seq(Kinds) /\ Len(<<>>) = 0 /\ <<>> \in Seq([r : Fds, w : Fds])
  OBVIOUS
<1>2. separated_commands \in [Cells -> (1..MAX_ARGS) \union {NULL, GARBAGE}]
  <2>1. Len(<<>>) < MAX_ARGS
    BY <1>1, ArgsAssumption
  <2>2. separate_input(<<>>) \in [Cells -> (1..MAX_ARGS) \union {NULL, GARBAGE}]
    BY <1>1, <2>1, SeparateIs
  <2> QED BY <2>2
<1>3. fds \in Tables /\ Standard(fds) /\ NoEnds(fds)
  <2>1. fds \in Tables
    BY DEF Tables, Descs
  <2>2. {0, 1, 2} \subseteq Fds
    BY SizesAssumption DEF Fds
  <2>3. Standard(fds)
    BY <2>2 DEF Standard
  <2>4. \A f \in Fds : fds[f] \in {Tty, Closed}
    OBVIOUS
  <2>5. NoEnds(fds)
    BY <2>4, DescKinds DEF NoEnds, PipeKinds
  <2> QED BY <2>1, <2>3, <2>5
<1>4. child \in [Stages -> [at : {"none", "forked", "stdin", "stdout", "run", "ended"},
                            fds : Tables]]
  BY DEF NoChild, Tables, Descs
<1>5. Zero \in [Stages -> 0..Capacity] /\ Zero \in [Stages -> 0..1] /\ Zero \in [Stages -> Nat]
  BY SizesAssumption DEF Zero
<1>6. num_segments \in 1..MaxStages /\ next \in 0..num_segments /\ Len(pipes) < num_segments
  BY <1>1, SizesAssumption
<1>7. ShapeInv
  BY <1>1, <1>2, <1>3, <1>4, <1>5, <1>6 DEF ShapeInv
<1>8. RedirectInv /\ ShellInv /\ EndsInv /\ ArrayBounds
  BY <1>3 DEF RedirectInv, ShellInv, EndsInv, ArrayBounds
<1>9. ChildInv
  BY DEF ChildInv, TableInv, TableOf, StartedInv, NoChild
<1>10. FlowInv
  <2> SUFFICES ASSUME NEW i \in Stages
               PROVE  /\ got[i] = put[i] + held[i] /\ got[i] <= Units
                      /\ i > 0 /\ i < num_segments => put[i - 1] = got[i] + buffer[i - 1]
    BY DEF FlowInv
  <2>1. i \in Nat /\ (i > 0 => i - 1 \in Stages)
    BY SizesAssumption DEF Stages
  <2>2. \A k \in Stages : Zero[k] = 0
    BY DEF Zero
  <2> QED BY <2>1, <2>2, SizesAssumption
<1>11. EofInv
  BY DEF EofInv, NoEarlyEof, NoEarlyBrokenPipe
<1> QED BY <1>7, <1>8, <1>9, <1>10, <1>11 DEF IInv

LEMMA ReadLineKeeps ==
  ASSUME IInv, ReadLine
  PROVE  IInv'
<1> USE DEF ReadLine
<1>1. line' \in Lines /\ line' \in Seq(Kinds) /\ line' # <<>>
  BY LinesAssumption
<1>2. Overruns(line') \/ Len(line') < MAX_ARGS
  BY <1>1, ArgsAssumption DEF Overruns
<1>3. separated_commands' \in [Cells -> (1..MAX_ARGS) \union {NULL, GARBAGE}]
  BY <1>1, <1>2, SeparateIs DEF IInv, ShapeInv
<1>4. spc' \in {"undefined", "prompt", "redirect"}
  OBVIOUS
<1>5. /\ ChildInv' /\ FlowInv' /\ EofInv'
      /\ child' \in [Stages -> [at : {"none", "forked", "stdin", "stdout", "run", "ended"},
                                fds : Tables]]
      /\ buffer' \in [Stages -> 0..Capacity] /\ held' \in [Stages -> 0..1]
      /\ put' \in [Stages -> Nat] /\ got' \in [Stages -> Nat]
  BY <1>4, AllAnew
<1>6. ShapeInv'
  <2>1. pipes' \in Seq([r : Fds, w : Fds]) /\ Len(pipes') < num_segments'
        /\ num_segments' \in 1..MaxStages /\ next' \in 0..num_segments'
    BY SizesAssumption DEF IInv, ShapeInv
  <2>2. fds' \in Tables
    BY DEF IInv, ShapeInv
  <2> QED BY <1>1, <1>3, <1>4, <1>5, <2>1, <2>2 DEF ShapeInv
<1>7. RedirectInv'
  <2> SUFFICES ASSUME spc' = "redirect" PROVE RedirectInv'
    BY DEF RedirectInv
  <2>1. Len(line') < MAX_ARGS /\ separated_commands' = separate_input(line') /\ Len(line') \in Nat
        /\ Len(line') > 0
    BY <1>1, <1>2
  <2>2. /\ End(separated_commands') = Len(line') /\ separated_commands'[Len(line')] = NULL
        /\ \A p \in 0..(Len(line') - 1) : separated_commands'[p] = p + 1
    BY <1>1, <2>1, SeparateIs
  <2>3. ~IsFile(line', 1)
    BY <1>1, <2>1, FirstIsNoFile
  <2>4. Frontier(0, 1)'
    <3>1. End(separated_commands)' = Len(line')
      BY <2>2
    <3>2. {separated_commands'[p] : p \in 0..(0 - 1)} = Kept(1)'
      BY DEF Kept
    <3> QED BY <2>1, <2>2, <2>3, <3>1, <3>2 DEF Frontier
  <2>5. Files(fds, 1)'
    BY DEF Files, LastFile
  <2>6. 0 \in 0..(Len(line') + 1) /\ 1 \in 0..(Len(line') + 1)
    BY <2>1
  <2>7. (\E from, q \in 0..(Len(line) + 1) : Frontier(from, q) /\ Files(fds, q))'
    BY <2>4, <2>5, <2>6
  <2> QED BY <1>1, <2>1, <2>7 DEF RedirectInv
<1>8. ShellInv'
  BY <1>4 DEF IInv, ShellInv, Standard, NoEnds
<1>9. EndsInv'
  BY <1>4 DEF EndsInv
<1>10. ArrayBounds'
  <2> SUFFICES ASSUME spc' = "undefined" PROVE Len(line') >= MAX_ARGS - 1
    BY DEF ArrayBounds
  <2>1. Overruns(line')
    OBVIOUS
  <2> QED BY <1>1, <2>1, ArgsAssumption DEF Overruns
<1> QED BY <1>5, <1>6, <1>7, <1>8, <1>9, <1>10 DEF IInv

LEMMA BadRedirectionKeeps ==
  ASSUME IInv, BadRedirection
  PROVE  IInv'
<1> USE DEF BadRedirection, tokens
<1>1. ShapeInv'
  BY DEF IInv, ShapeInv, programs
<1>2. RedirectInv' /\ EndsInv' /\ ArrayBounds'
  BY DEF RedirectInv, EndsInv, ArrayBounds
<1>3. ShellInv'
  BY DEF IInv, ShellInv, Standard, NoEnds
<1>4. ChildInv'
  BY NoChildren
<1>5. FlowInv' /\ EofInv'
  BY ProgramsKept
<1> QED BY <1>1, <1>2, <1>3, <1>4, <1>5 DEF IInv

(* The redirection found first, at cell i: its token is k, everything between the *)
(* frontier and it stays, and it takes token k + 1.                               *)
LEMMA FirstRedirection ==
  ASSUME NEW from, NEW q, Frontier(from, q), line \in Seq(Kinds),
         separated_commands \in [Cells -> (1..MAX_ARGS) \union {NULL, GARBAGE}],
         Redirecting # {}, NEW i, i = Min(Redirecting), NEW k, k = q + (i - from)
  PROVE  /\ i \in from..(End(separated_commands) - 1) /\ separated_commands[i] = k
         /\ k \in 1..Len(line) /\ line[k] \in {INPUT, OUTPUT}
         /\ \A m \in q..(k - 1) : line[m] \notin {INPUT, OUTPUT}
         /\ \A m \in q..k : ~IsFile(line, m)
<1> DEFINE n == End(separated_commands)
<1>1. /\ n < MAX_ARGS /\ from \in 0..n /\ q \in 1..(Len(line) + 1) /\ from < q
      /\ n - from = Len(line) + 1 - q /\ ~IsFile(line, q)
      /\ \A p \in from..(n - 1) : separated_commands[p] = q + (p - from)
      /\ \A p \in 0..(from - 1) : /\ separated_commands[p] \in 1..(q - 1)
                                  /\ line[separated_commands[p]] \notin {INPUT, OUTPUT}
  BY DEF Frontier, Kept
<1>2. n \in Nat /\ Len(line) \in Nat
  <2>1. separated_commands \in [Cells -> Int]
    BY DEF NULL, GARBAGE
  <2>2. n = MAX_ARGS \/ n \in Cells
    BY <2>1, EndIs
  <2> QED BY <2>2, ArgsAssumption DEF Cells
<1>3. Redirecting = {p \in 0..(n - 1) : separated_commands[p] > 0
                                        /\ line[separated_commands[p]] \in {INPUT, OUTPUT}}
  BY DEF Redirecting, Redirections
<1> HIDE DEF n
<1>4. Redirecting \in SUBSET Nat
  BY <1>2, <1>3
<1>5. i \in Redirecting /\ \A y \in Redirecting : i <= y
  BY <1>4, MinIs
<1>6. i \in from..(n - 1)
  <2>1. i \in 0..(n - 1) /\ line[separated_commands[i]] \in {INPUT, OUTPUT}
    BY <1>3, <1>5
  <2>2. ~(i \in 0..(from - 1))
    BY <1>1, <2>1
  <2> QED BY <1>1, <1>2, <2>1, <2>2
<1>7. separated_commands[i] = k
  BY <1>1, <1>6
<1>8. k \in 1..Len(line)
  BY <1>1, <1>2, <1>6
<1>9. line[k] \in {INPUT, OUTPUT}
  BY <1>3, <1>5, <1>7
<1>10. ASSUME NEW m \in q..(k - 1) PROVE line[m] \notin {INPUT, OUTPUT}
  <2> DEFINE p == from + (m - q)
  <2>1. p \in from..(n - 1) /\ p \in 0..(n - 1) /\ p < i /\ q + (p - from) = m /\ m > 0
    BY <1>1, <1>2, <1>6
  <2> HIDE DEF p
  <2>2. separated_commands[p] = m
    BY <1>1, <2>1
  <2>3. p \notin Redirecting
    BY <1>5, <1>6, <2>1, <1>2
  <2> QED BY <1>3, <2>1, <2>2, <2>3
<1>11. ASSUME NEW m \in q..k PROVE ~IsFile(line, m)
  <2>1. CASE m = q
    BY <1>1, <2>1
  <2>2. CASE m # q
    <3>1. m >= q /\ m <= k /\ m \in Int /\ q \in 1..(Len(line) + 1)
      BY <1>1
    <3>2. m - 1 \in q..(k - 1) /\ m \in 1..(Len(line) + 1)
      BY <1>2, <1>8, <2>2, <3>1
    <3> QED BY <1>10, <3>2, FirstIsNoFile
  <2> QED BY <2>1, <2>2
<1> QED BY <1>6, <1>7, <1>8, <1>9, <1>10, <1>11 DEF n

(* The removal of a redirection and its file, away from the array's end.          *)
LEMMA RemovedIs ==
  ASSUME NEW array \in [Cells -> (1..MAX_ARGS) \union {NULL, GARBAGE}], NEW n, n = End(array),
         n + 1 < MAX_ARGS, NEW i \in 0..(n - 2)
  PROVE  /\ Removed(array, i) \in [Cells -> (1..MAX_ARGS) \union {NULL, GARBAGE}]
         /\ End(Removed(array, i)) = n - 2 /\ Removed(array, i)[n - 2] = NULL
         /\ \A p \in 0..(n - 3) :
              Removed(array, i)[p] = IF p < i THEN array[p] ELSE array[p + 2]
<1> DEFINE new == Removed(array, i)
<1>1. array \in [Cells -> Int]
  BY DEF NULL, GARBAGE
<1>2. n \in Cells /\ array[n] = NULL /\ (\A m \in 0..(n - 1) : array[m] # NULL) /\ n \in Nat
  <2>1. n # MAX_ARGS
    BY ArgsAssumption
  <2>2. n \in Cells /\ array[n] = NULL /\ (\A m \in 0..(n - 1) : array[m] # NULL)
    BY <1>1, <2>1, EndIs
  <2> QED BY <2>2, ArgsAssumption DEF Cells
<1>3. \A p \in Cells : new[p] = IF p \in i..(n - 1) THEN array[p + 2] ELSE array[p]
  BY DEF Removed
<1>4. \A p \in i..(n - 1) : p + 2 \in Cells
  BY <1>2, ArgsAssumption DEF Cells
<1>5. new \in [Cells -> (1..MAX_ARGS) \union {NULL, GARBAGE}]
  <2>1. new = [p \in Cells |-> IF p \in i..(n - 1) THEN array[p + 2] ELSE array[p]]
    BY DEF Removed
  <2> HIDE DEF new
  <2>2. \A p \in Cells : (IF p \in i..(n - 1) THEN array[p + 2] ELSE array[p])
                           \in (1..MAX_ARGS) \union {NULL, GARBAGE}
    BY <1>4
  <2> QED BY <2>1, <2>2
<1> HIDE DEF new
<1>6. n - 2 \in Cells /\ new[n - 2] = NULL
  <2>1. n - 2 \in Cells /\ n - 2 \in i..(n - 1) /\ (n - 2) + 2 = n
    BY <1>2, ArgsAssumption DEF Cells
  <2> QED BY <1>2, <1>3, <2>1
<1>7. \A p \in 0..(n - 3) : new[p] = IF p < i THEN array[p] ELSE array[p + 2]
  <2> SUFFICES ASSUME NEW p \in 0..(n - 3)
               PROVE  new[p] = IF p < i THEN array[p] ELSE array[p + 2]
    OBVIOUS
  <2>1. p \in Cells /\ (p \in i..(n - 1) <=> ~(p < i))
    BY <1>2, ArgsAssumption DEF Cells
  <2> QED BY <1>3, <2>1
<1>8. \A p \in 0..((n - 2) - 1) : new[p] # NULL
  <2> SUFFICES ASSUME NEW p \in 0..((n - 2) - 1) PROVE new[p] # NULL
    OBVIOUS
  <2>1. p \in 0..(n - 3) /\ p \in 0..(n - 1) /\ p + 2 \in 0..(n - 1)
    BY <1>2
  <2>2. array[p] # NULL /\ array[p + 2] # NULL
    BY <1>2, <2>1
  <2> QED BY <1>7, <2>1, <2>2
<1>9. new \in [Cells -> Int]
  BY <1>5 DEF NULL, GARBAGE
<1>10. End(new) = n - 2
  BY <1>6, <1>8, <1>9, EndAt
<1> QED BY <1>5, <1>6, <1>7, <1>10 DEF new

LEMMA RedirectionKeeps ==
  ASSUME IInv, Redirection
  PROVE  IInv'
<1>0. PICK i, n : i = Min(Redirecting) /\ n = End(separated_commands)
  OBVIOUS
<1> DEFINE array == separated_commands
           file == separated_commands[i + 1]
<1>1. /\ spc = "redirect" /\ Redirecting # {} /\ file # NULL
      /\ UNCHANGED <<line, segments, num_segments, pipes, next, lines, child, programs>>
      /\ IF line[array[i]] = INPUT
         THEN \E r \in OpenFile(fds, Desc("in", file)) :
                fds' = r.fds /\ fd_in' = r.fd /\ UNCHANGED fd_out
         ELSE \E r \in OpenFile(fds, Desc("out", file)) :
                fds' = r.fds /\ fd_out' = r.fd /\ UNCHANGED fd_in
      /\ IF ReadsBehind(array)
         THEN spc' = "undefined" /\ UNCHANGED separated_commands
         ELSE separated_commands' = Removed(array, i) /\ UNCHANGED spc
  BY <1>0 DEF Redirection
<1>2. PICK from, q \in 0..(Len(line) + 1) : Frontier(from, q) /\ Files(fds, q)
  BY <1>1 DEF IInv, RedirectInv
<1>3. /\ line \in Lines /\ Len(line) < MAX_ARGS /\ pipes = <<>> /\ next = 0 /\ eof = {}
      /\ broken = {} /\ buffer = Zero /\ held = Zero /\ put = Zero /\ got = Zero
      /\ line \in Seq(Kinds) /\ Len(line) \in Nat
      /\ array \in [Cells -> (1..MAX_ARGS) \union {NULL, GARBAGE}]
      /\ fds \in Tables /\ Standard(fds) /\ NoEnds(fds)
      /\ fd_in \in Fds \union {-1} /\ fd_out \in Fds \union {-1}
  BY <1>1 DEF IInv, RedirectInv, ShapeInv, ShellInv
<1>4. /\ n < MAX_ARGS /\ array[n] = NULL /\ from \in 0..n /\ q \in 1..(Len(line) + 1) /\ from < q
      /\ n - from = Len(line) + 1 - q
      /\ \A p \in from..(n - 1) : array[p] = q + (p - from)
      /\ \A p \in 0..(from - 1) : array[p] \in 1..(q - 1)
      /\ \A p, r \in 0..(from - 1) : p < r => array[p] < array[r]
  BY <1>0, <1>2 DEF Frontier, Kept
<1>5. n \in Nat
  <2>1. array \in [Cells -> Int]
    BY <1>3 DEF NULL, GARBAGE
  <2>2. n = MAX_ARGS \/ n \in Cells
    BY <1>0, <2>1, EndIs
  <2> QED BY <2>2, ArgsAssumption DEF Cells
<1> DEFINE k == q + (i - from)
<1>6. /\ i \in from..(n - 1) /\ array[i] = k /\ k \in 1..Len(line) /\ line[k] \in {INPUT, OUTPUT}
      /\ \A m \in q..(k - 1) : line[m] \notin {INPUT, OUTPUT}
      /\ \A m \in q..k : ~IsFile(line, m)
  BY <1>0, <1>1, <1>2, <1>3, FirstRedirection
<1>7. i + 1 \in from..(n - 1) /\ file = k + 1 /\ k + 1 \in 1..Len(line)
  <2>1. i + 1 # n
    BY <1>1, <1>4
  <2>2. i + 1 \in from..(n - 1)
    BY <1>4, <1>5, <1>6, <2>1
  <2>3. file = q + ((i + 1) - from)
    BY <1>4, <2>2
  <2> QED BY <1>3, <1>4, <1>5, <1>6, <2>2, <2>3
<1>8. k \in Nat /\ q \in Nat /\ q <= k /\ k + 1 \in 1..MAX_ARGS
  BY <1>3, <1>4, <1>5, <1>6, <1>7, ArgsAssumption
<1> HIDE DEF k, file
<1>9. ~IsFile(line, k) /\ IsFile(line, k + 1)
  BY <1>3, <1>6, <1>8, FileFollows
<1>10. ~IsFile(line, k + 2)
  <2>1. CASE line[k + 1] \in {INPUT, OUTPUT}
    <3>1. (k + 1) + 1 = k + 2
      BY <1>8
    <3> QED BY <1>3, <1>7, <1>9, <2>1, <3>1, FileFollows
  <2>2. CASE line[k + 1] \notin {INPUT, OUTPUT}
    <3>1. k + 2 \in 1..(Len(line) + 1) /\ (k + 2) - 1 = k + 1
      BY <1>3, <1>7, <1>8
    <3> QED BY <1>3, <2>2, <3>1, FirstIsNoFile
  <2> QED BY <2>1, <2>2
<1>11. ASSUME NEW op \in {INPUT, OUTPUT}, NEW m \in Operators(line, {op}), m < k + 2
       PROVE  m < q \/ (m = k /\ line[k] = op)
  <2>1. m \in 1..Len(line) /\ line[m] = op /\ ~IsFile(line, m)
    BY <1>3, <1>11 DEF Operators
  <2>2. m # k + 1
    BY <1>9, <2>1
  <2>3. m \notin q..(k - 1)
    BY <1>6, <2>1
  <2> QED BY <1>4, <1>8, <1>11, <2>1, <2>2, <2>3
<1>12. ASSUME NEW op \in {INPUT, OUTPUT}, line[k] = op
       PROVE  IsLast(op, k + 2, k)
  <2>1. k \in Operators(line, {op})
    BY <1>3, <1>6, <1>9, <1>12 DEF Operators
  <2>2. \A m \in Operators(line, {op}) : m \in Nat
    BY <1>3 DEF Operators
  <2>3. ASSUME NEW m \in Operators(line, {op}), m < k + 2 PROVE m <= k
    <3>1. m < q \/ m = k
      BY <1>11, <2>3
    <3>2. m \in Nat /\ q \in Nat /\ k \in Nat /\ q <= k
      BY <1>8, <2>2
    <3> QED BY <3>1, <3>2
  <2>4. k < k + 2
    BY <1>8
  <2> QED BY <2>1, <2>3, <2>4 DEF IsLast
<1>13. ASSUME NEW op \in {INPUT, OUTPUT}, line[k] # op, NEW m, IsLast(op, q, m)
       PROVE  IsLast(op, k + 2, m)
  <2>1. m \in Operators(line, {op}) /\ m < q
    BY <1>13 DEF IsLast
  <2>2. m \in Nat
    BY <1>3, <2>1 DEF Operators
  <2>3. m < k + 2
    BY <1>4, <1>8, <2>1, <2>2
  <2> QED BY <1>11, <1>13, <2>1, <2>3 DEF IsLast
<1>14. ASSUME NEW kind \in {"in", "out"}, NEW r \in OpenFile(fds, Desc(kind, file))
       PROVE  /\ r.fds \in Tables /\ Standard(r.fds) /\ NoEnds(r.fds) /\ r.fd \in Fds \union {-1}
              /\ r.fd # -1 => r.fds[r.fd] = Desc(kind, k + 1)
              /\ \A f \in Fds : fds[f] # Closed => r.fds[f] = fds[f]
  <2>1. CASE r = [fds |-> fds, fd |-> -1]
    BY <1>3, <2>1
  <2>2. CASE Free(fds) # {} /\ r = [fds |-> Opened(fds, Desc(kind, file)), fd |-> Min(Free(fds))]
    <3> DEFINE d == Desc(kind, file)
    <3>1. d \in Descs /\ d = Desc(kind, k + 1)
      BY <1>7, <1>8 DEF Descs
    <3>2. d.kind \notin PipeKinds
      BY DescKinds DEF PipeKinds
    <3> HIDE DEF d
    <3>3. /\ Opened(fds, d) \in Tables /\ Opened(fds, d)[Min(Free(fds))] = d
          /\ \A f \in Fds : f # Min(Free(fds)) => Opened(fds, d)[f] = fds[f]
          /\ Min(Free(fds)) \in Fds /\ fds[Min(Free(fds))] = Closed
      BY <1>3, <2>2, <3>1, OpenedIs, FreeIs
    <3>4. r.fds = Opened(fds, d) /\ r.fd = Min(Free(fds))
      BY <2>2 DEF d
    <3>5. \A f \in Fds : fds[f] # Closed => r.fds[f] = fds[f]
      BY <3>3, <3>4
    <3>6. Standard(r.fds)
      <4>1. {0, 1, 2} \subseteq Fds
        BY SizesAssumption DEF Fds
      <4> QED BY <1>3, <3>5, <4>1, DescKinds DEF Standard
    <3>7. NoEnds(r.fds)
      BY <1>3, <3>2, <3>3, <3>4 DEF NoEnds
    <3> QED BY <3>1, <3>3, <3>4, <3>5, <3>6, <3>7
  <2> QED BY <2>1, <2>2 DEF OpenFile
<1>15. /\ fds' \in Tables /\ Standard(fds') /\ NoEnds(fds')
       /\ fd_in' \in Fds \union {-1} /\ fd_out' \in Fds \union {-1}
       /\ LastFile(fds', fd_in', "in", INPUT, k + 2) /\ LastFile(fds', fd_out', "out", OUTPUT, k + 2)
  <2>1. LastFile(fds, fd_in, "in", INPUT, q) /\ LastFile(fds, fd_out, "out", OUTPUT, q)
    BY <1>2 DEF Files
  <2>2. k \in 1..Len(line)
    BY <1>6
  <2>3. CASE line[k] = INPUT
    <3>1. PICK r \in OpenFile(fds, Desc("in", file)) : fds' = r.fds /\ fd_in' = r.fd /\ UNCHANGED fd_out
      BY <1>1, <1>6, <2>3
    <3>2. LastFile(fds', fd_in', "in", INPUT, k + 2)
      BY <1>12, <1>14, <2>2, <2>3, <3>1 DEF LastFile
    <3>3. LastFile(fds', fd_out', "out", OUTPUT, k + 2)
      <4> SUFFICES ASSUME fd_out # -1
                   PROVE  \E m \in 1..Len(line) : IsLast(OUTPUT, k + 2, m) /\ fds'[fd_out] = Desc("out", m + 1)
        BY <3>1 DEF LastFile
      <4>1. PICK m \in 1..Len(line) : IsLast(OUTPUT, q, m) /\ fds[fd_out] = Desc("out", m + 1)
        BY <2>1 DEF LastFile
      <4>2. fds[fd_out] # Closed /\ fd_out \in Fds
        BY <1>3, <4>1, DescKinds
      <4>3. fds'[fd_out] = fds[fd_out]
        BY <1>14, <3>1, <4>2
      <4>4. IsLast(OUTPUT, k + 2, m)
        BY <1>13, <2>3, <4>1 DEF INPUT, OUTPUT
      <4> QED BY <4>1, <4>3, <4>4
    <3> QED BY <1>3, <1>14, <3>1, <3>2, <3>3
  <2>4. CASE line[k] = OUTPUT
    <3>1. PICK r \in OpenFile(fds, Desc("out", file)) : fds' = r.fds /\ fd_out' = r.fd /\ UNCHANGED fd_in
      BY <1>1, <1>6, <2>4 DEF INPUT, OUTPUT
    <3>2. LastFile(fds', fd_out', "out", OUTPUT, k + 2)
      BY <1>12, <1>14, <2>2, <2>4, <3>1 DEF LastFile
    <3>3. LastFile(fds', fd_in', "in", INPUT, k + 2)
      <4> SUFFICES ASSUME fd_in # -1
                   PROVE  \E m \in 1..Len(line) : IsLast(INPUT, k + 2, m) /\ fds'[fd_in] = Desc("in", m + 1)
        BY <3>1 DEF LastFile
      <4>1. PICK m \in 1..Len(line) : IsLast(INPUT, q, m) /\ fds[fd_in] = Desc("in", m + 1)
        BY <2>1 DEF LastFile
      <4>2. fds[fd_in] # Closed /\ fd_in \in Fds
        BY <1>3, <4>1, DescKinds
      <4>3. fds'[fd_in] = fds[fd_in]
        BY <1>14, <3>1, <4>2
      <4>4. IsLast(INPUT, k + 2, m)
        BY <1>13, <2>4, <4>1 DEF INPUT, OUTPUT
      <4> QED BY <4>1, <4>3, <4>4
    <3> QED BY <1>3, <1>14, <3>1, <3>2, <3>3
  <2> QED BY <1>6, <2>3, <2>4
<1>16. CASE ReadsBehind(array)
  <2>1. spc' = "undefined" /\ UNCHANGED separated_commands
    BY <1>1, <1>16
  <2>2. ShapeInv'
    BY <1>1, <1>15, <2>1 DEF IInv, ShapeInv, programs
  <2>3. ArrayBounds'
    <3>1. Len(line) >= MAX_ARGS - 1
      BY <1>3, <1>4, <1>5, <1>16, <1>0, ArgsAssumption DEF ReadsBehind
    <3> QED BY <1>1, <3>1 DEF ArrayBounds
  <2>4. RedirectInv' /\ ShellInv' /\ EndsInv'
    BY <2>1 DEF RedirectInv, ShellInv, EndsInv
  <2>5. ChildInv'
    BY <1>1, <2>1, NoChildren
  <2>6. FlowInv' /\ EofInv'
    BY <1>1, ProgramsKept
  <2> QED BY <2>2, <2>3, <2>4, <2>5, <2>6 DEF IInv
<1>17. CASE ~ReadsBehind(array)
  <2>1. separated_commands' = Removed(array, i) /\ spc' = "redirect" /\ n + 1 < MAX_ARGS
    BY <1>1, <1>5, <1>17, <1>0, ArgsAssumption DEF ReadsBehind
  <2>2. i \in 0..(n - 2)
    BY <1>4, <1>5, <1>6, <1>7
  <2>3. /\ separated_commands' \in [Cells -> (1..MAX_ARGS) \union {NULL, GARBAGE}]
        /\ End(separated_commands') = n - 2 /\ separated_commands'[n - 2] = NULL
        /\ \A p \in 0..(n - 3) : separated_commands'[p] = IF p < i THEN array[p] ELSE array[p + 2]
    BY <1>0, <1>3, <2>1, <2>2, RemovedIs
  <2>4. ShapeInv'
    BY <1>1, <1>15, <2>1, <2>3 DEF IInv, ShapeInv, programs
  <2>5. Frontier(i, k + 2)'
    <3> DEFINE new == separated_commands'
    <3>1. {array[p] : p \in 0..(from - 1)} = Kept(q)
      BY <1>2 DEF Frontier
    <3>2. /\ n - 2 < MAX_ARGS /\ i \in 0..(n - 2) /\ k + 2 \in 1..(Len(line) + 1) /\ i < k + 2
          /\ (n - 2) - i = Len(line) + 1 - (k + 2)
      BY <1>3, <1>4, <1>5, <1>6, <1>7, <1>8, <2>1, <2>2, ArgsAssumption DEF k
    <3>3. ASSUME NEW p \in i..((n - 2) - 1) PROVE new[p] = (k + 2) + (p - i)
      <4>1. p \in 0..(n - 3) /\ ~(p < i) /\ p + 2 \in from..(n - 1)
        BY <1>4, <1>5, <1>6, <3>3
      <4>2. new[p] = q + ((p + 2) - from)
        BY <1>4, <2>3, <4>1
      <4> QED BY <1>4, <1>6, <4>1, <4>2 DEF k
    <3>4. ASSUME NEW p \in 0..(i - 1)
          PROVE  /\ new[p] = array[p]
                 /\ p \in 0..(from - 1) => array[p] \in Kept(q)
                 /\ p \notin 0..(from - 1) => array[p] = q + (p - from) /\ array[p] \in q..(k - 1)
      <4>1. p \in 0..(n - 3) /\ p < i
        BY <1>5, <2>2
      <4>2. new[p] = array[p]
        BY <2>3, <4>1
      <4>3. CASE p \in 0..(from - 1)
        BY <3>1, <4>2, <4>3
      <4>4. CASE p \notin 0..(from - 1)
        <5>1. p \in from..(n - 1)
          BY <1>4, <1>5, <4>1, <4>4
        <5>2. array[p] = q + (p - from)
          BY <1>4, <5>1
        <5>3. q + (p - from) \in q..(k - 1)
          BY <1>4, <1>6, <4>1, <5>1 DEF k
        <5> QED BY <4>2, <4>4, <5>2, <5>3
      <4> QED BY <4>3, <4>4
    <3>5. ASSUME NEW p \in 0..(i - 1), NEW r \in 0..(i - 1), p < r PROVE new[p] < new[r]
      <4>1. new[p] = array[p] /\ new[r] = array[r]
        BY <3>4
      <4>2. CASE r < from
        BY <1>4, <3>5, <4>1, <4>2
      <4>3. CASE ~(r < from) /\ p < from
        <5>1. array[p] \in 1..(q - 1) /\ array[r] = q + (r - from)
          BY <1>4, <1>5, <1>6, <3>4, <4>3
        <5> QED BY <1>4, <4>1, <4>3, <5>1
      <4>4. CASE ~(r < from) /\ ~(p < from)
        <5>1. array[p] = q + (p - from) /\ array[r] = q + (r - from)
          BY <1>4, <1>5, <1>6, <3>4, <4>4
        <5> QED BY <1>4, <3>5, <4>1, <5>1
      <4> QED BY <4>2, <4>3, <4>4
    <3>6. Kept(k + 2) = Kept(q) \union q..(k - 1)
      <4>1. ASSUME NEW m \in Kept(k + 2) PROVE m \in Kept(q) \union q..(k - 1)
        <5>1. m \in 1..(k + 1) /\ ~IsFile(line, m) /\ line[m] \notin {INPUT, OUTPUT}
          BY <1>8 DEF Kept
        <5>2. m # k /\ m # k + 1
          BY <1>6, <1>9, <5>1
        <5>3. m \in 1..(q - 1) \/ m \in q..(k - 1)
          BY <1>8, <5>1, <5>2
        <5> QED BY <5>1, <5>3 DEF Kept
      <4>2. Kept(q) \subseteq Kept(k + 2)
        BY <1>8 DEF Kept
      <4>3. ASSUME NEW m \in q..(k - 1) PROVE m \in Kept(k + 2)
        <5>1. m \in 1..((k + 2) - 1) /\ m \in q..k
          BY <1>4, <1>8
        <5> QED BY <1>6, <5>1 DEF Kept
      <4> QED BY <4>1, <4>2, <4>3
    <3>7. {new[p] : p \in 0..(i - 1)} = Kept(k + 2)
      <4>1. \A p \in 0..(i - 1) : new[p] \in Kept(q) \union q..(k - 1)
        BY <3>4
      <4>2. ASSUME NEW m \in Kept(q) PROVE \E p \in 0..(i - 1) : new[p] = m
        <5>1. PICK p \in 0..(from - 1) : array[p] = m
          BY <3>1
        <5>2. p \in 0..(i - 1)
          BY <1>4, <1>6
        <5> QED BY <3>4, <5>1, <5>2
      <4>3. ASSUME NEW m \in q..(k - 1) PROVE \E p \in 0..(i - 1) : new[p] = m
        <5> DEFINE p == from + (m - q)
        <5>1. p \in 0..(i - 1) /\ p \notin 0..(from - 1) /\ q + (p - from) = m
          BY <1>4, <1>6, <1>8 DEF k
        <5> HIDE DEF p
        <5> QED BY <3>4, <5>1
      <4> QED BY <3>6, <4>1, <4>2, <4>3
    <3>8. End(separated_commands)' = n - 2 /\ Kept(k + 2)' = Kept(k + 2)
      BY <1>1, <2>3 DEF Kept
    <3> QED BY <1>1, <1>10, <2>3, <3>2, <3>3, <3>5, <3>7, <3>8 DEF Frontier
  <2>6. Files(fds, k + 2)'
    BY <1>1, <1>15 DEF Files, LastFile, IsLast
  <2>7. i \in 0..(Len(line) + 1) /\ k + 2 \in 0..(Len(line) + 1)
    BY <1>3, <1>4, <1>5, <1>6, <1>7, <1>8
  <2>8. RedirectInv'
    <3>1. (\E a, b \in 0..(Len(line) + 1) : Frontier(a, b) /\ Files(fds, b))'
      BY <1>1, <2>5, <2>6, <2>7
    <3>2. UNCHANGED <<line, pipes, next, eof, broken, buffer, held, put, got>>
      BY <1>1 DEF programs
    <3> QED BY <1>3, <3>1, <3>2 DEF RedirectInv
  <2>9. ShellInv' /\ EndsInv' /\ ArrayBounds'
    BY <1>15, <2>1 DEF ShellInv, EndsInv, ArrayBounds
  <2>10. ChildInv'
    BY <1>1, <2>1, NoChildren
  <2>11. FlowInv' /\ EofInv'
    BY <1>1, ProgramsKept
  <2> QED BY <2>4, <2>8, <2>9, <2>10, <2>11 DEF IInv
<1> QED BY <1>16, <1>17

--------------------------------------------------------------------------------
(* The shell's steps: pipes and stages.                                           *)

(* Once no redirection is left, the array holds the tokens that stay, in order,   *)
(* and what the descriptors refer to is the last redirection of all.              *)
LEMMA ArrayLeft ==
  ASSUME IInv, spc = "redirect", Redirecting = {}
  PROVE  LET n == End(separated_commands)
         IN  /\ n \in Nat /\ n < MAX_ARGS /\ AllFiles(fds)
             /\ line \in Lines /\ line \in Seq(Kinds) /\ Len(line) \in Nat
             /\ {separated_commands[p] : p \in 0..(n - 1)} = Kept(Len(line) + 1)
             /\ \A p, r \in 0..(n - 1) : p < r => separated_commands[p] < separated_commands[r]
<1> DEFINE array == separated_commands
<1>0. PICK n : n = End(separated_commands)
  OBVIOUS
<1>1. PICK from, q \in 0..(Len(line) + 1) : Frontier(from, q) /\ Files(fds, q)
  BY DEF IInv, RedirectInv
<1>2. /\ line \in Lines /\ Len(line) < MAX_ARGS /\ line \in Seq(Kinds) /\ Len(line) \in Nat
      /\ array \in [Cells -> (1..MAX_ARGS) \union {NULL, GARBAGE}]
  BY DEF IInv, RedirectInv, ShapeInv
<1>3. /\ n < MAX_ARGS /\ from \in 0..n /\ q \in 1..(Len(line) + 1) /\ from < q
      /\ n - from = Len(line) + 1 - q /\ ~IsFile(line, q)
      /\ \A p \in from..(n - 1) : array[p] = q + (p - from)
      /\ {array[p] : p \in 0..(from - 1)} = Kept(q)
      /\ \A p \in 0..(from - 1) : array[p] \in 1..(q - 1)
      /\ \A p, r \in 0..(from - 1) : p < r => array[p] < array[r]
  BY <1>0, <1>1 DEF Frontier, Kept
<1>4. n \in Nat
  <2>1. array \in [Cells -> Int]
    BY <1>2 DEF NULL, GARBAGE
  <2>2. n = MAX_ARGS \/ n \in Cells
    BY <1>0, <2>1, EndIs
  <2> QED BY <2>2, ArgsAssumption DEF Cells
<1>5. \A p \in 0..(n - 1) : array[p] > 0 => line[array[p]] \notin {INPUT, OUTPUT}
  BY <1>0 DEF Redirecting, Redirections
<1>6. ASSUME NEW m \in q..Len(line)
      PROVE  /\ line[m] \notin {INPUT, OUTPUT}
             /\ \E p \in 0..(n - 1) : p \notin 0..(from - 1) /\ array[p] = m
  <2> DEFINE p == from + (m - q)
  <2>1. p \in from..(n - 1) /\ p \in 0..(n - 1) /\ p \notin 0..(from - 1) /\ q + (p - from) = m /\ m > 0
    BY <1>2, <1>3, <1>4
  <2> HIDE DEF p
  <2>2. array[p] = m
    BY <1>3, <2>1
  <2> QED BY <1>5, <2>1, <2>2
<1>7. ASSUME NEW m \in q..Len(line) PROVE ~IsFile(line, m)
  <2>1. CASE m = q
    BY <1>3, <2>1
  <2>2. CASE m # q
    <3>1. m - 1 \in q..Len(line) /\ m \in 1..(Len(line) + 1)
      BY <1>2, <1>3, <2>2
    <3> QED BY <1>2, <1>6, <3>1, FirstIsNoFile
  <2> QED BY <2>1, <2>2
<1>8. ASSUME NEW p \in 0..(n - 1), p \notin 0..(from - 1)
      PROVE  array[p] = q + (p - from) /\ array[p] \in q..Len(line)
  <2>1. p \in from..(n - 1)
    BY <1>3, <1>4, <1>8
  <2>2. array[p] = q + (p - from) /\ q + (p - from) \in q..Len(line)
    BY <1>2, <1>3, <1>4, <2>1
  <2> QED BY <2>2
<1>9. AllFiles(fds)
  <2>1. ASSUME NEW op \in {INPUT, OUTPUT}, NEW m \in Operators(line, {op}) PROVE m < q
    <3>1. m \in 1..Len(line) /\ line[m] \in {INPUT, OUTPUT}
      BY <1>2 DEF Operators
    <3>2. m \notin q..Len(line)
      BY <1>6, <3>1
    <3> QED BY <1>3, <3>1, <3>2
  <2>2. ASSUME NEW op \in {INPUT, OUTPUT}, NEW m, IsLast(op, q, m) PROVE IsLast(op, Len(line) + 1, m)
    <3>1. m \in Operators(line, {op}) /\ m \in 1..Len(line)
          /\ \A j \in Operators(line, {op}) : j < q => j <= m
      BY <1>2, <2>2 DEF IsLast, Operators
    <3>2. m < Len(line) + 1
      BY <1>2, <3>1
    <3> QED BY <2>1, <3>1, <3>2 DEF IsLast
  <2>3. LastFile(fds, fd_in, "in", INPUT, q) /\ LastFile(fds, fd_out, "out", OUTPUT, q)
    BY <1>1 DEF Files
  <2>4. LastFile(fds, fd_in, "in", INPUT, Len(line) + 1)
    BY <2>2, <2>3 DEF LastFile
  <2>5. LastFile(fds, fd_out, "out", OUTPUT, Len(line) + 1)
    BY <2>2, <2>3 DEF LastFile
  <2> QED BY <2>4, <2>5 DEF AllFiles, Files
<1>10. {array[p] : p \in 0..(n - 1)} = Kept(Len(line) + 1)
  <2>1. Kept(Len(line) + 1) = Kept(q) \union q..Len(line)
    <3>1. ASSUME NEW m \in Kept(Len(line) + 1) PROVE m \in Kept(q) \union q..Len(line)
      <4>1. m \in 1..Len(line) /\ ~IsFile(line, m) /\ line[m] \notin {INPUT, OUTPUT}
        BY <1>2 DEF Kept
      <4>2. m \in 1..(q - 1) \/ m \in q..Len(line)
        BY <1>2, <1>3, <4>1
      <4> QED BY <4>1, <4>2 DEF Kept
    <3>2. Kept(q) \subseteq Kept(Len(line) + 1)
      BY <1>2, <1>3 DEF Kept
    <3>3. ASSUME NEW m \in q..Len(line) PROVE m \in Kept(Len(line) + 1)
      <4>1. m \in 1..((Len(line) + 1) - 1)
        BY <1>2, <1>3
      <4> QED BY <1>6, <1>7, <4>1 DEF Kept
    <3> QED BY <3>1, <3>2, <3>3
  <2>2. \A p \in 0..(n - 1) : array[p] \in Kept(q) \union q..Len(line)
    BY <1>3, <1>8
  <2>3. ASSUME NEW m \in Kept(q) PROVE \E p \in 0..(n - 1) : array[p] = m
    <3>1. PICK p \in 0..(from - 1) : array[p] = m
      BY <1>3
    <3>2. p \in 0..(n - 1)
      BY <1>3, <1>4
    <3> QED BY <3>1, <3>2
  <2> QED BY <1>6, <2>1, <2>2, <2>3
<1>11. ASSUME NEW p \in 0..(n - 1), NEW r \in 0..(n - 1), p < r
       PROVE  array[p] < array[r]
  <2>1. CASE r < from
    BY <1>3, <1>4, <1>11, <2>1
  <2>2. CASE ~(r < from) /\ p < from
    <3>1. array[p] \in 1..(q - 1) /\ array[r] \in q..Len(line)
      BY <1>3, <1>4, <1>8, <2>2
    <3> QED BY <1>3, <2>2, <3>1
  <2>3. CASE ~(r < from) /\ ~(p < from)
    <3>1. array[p] = q + (p - from) /\ array[r] = q + (r - from)
      BY <1>3, <1>4, <1>8, <2>3
    <3> QED BY <1>3, <1>11, <3>1
  <2> QED BY <2>1, <2>2, <2>3
<1> QED BY <1>0, <1>2, <1>3, <1>4, <1>9, <1>10, <1>11

(* A set has as many elements as its image has under a function that is different *)
(* at each of them.                                                               *)
LEMMA ImageCount ==
  ASSUME NEW S, IsFiniteSet(S), NEW f, \A x, y \in S : f[x] = f[y] => x = y
  PROVE  Cardinality({f[x] : x \in S}) = Cardinality(S)
<1> DEFINE T == {f[x] : x \in S}
           g == [x \in S |-> f[x]]
<1>1. g \in [S -> T] /\ \A x \in S : g[x] = f[x]
  OBVIOUS
<1>2. IsInjective(g)
  BY DEF IsInjective
<1>3. \A t \in T : \E x \in S : g[x] = t
  OBVIOUS
<1> HIDE DEF T, g
<1>4. g \in Bijection(S, T)
  BY <1>1, <1>2, <1>3 DEF Bijection, Injection, Surjection
<1>5. ExistsBijection(S, T)
  BY <1>4 DEF ExistsBijection
<1>6. Cardinality(T) = Cardinality(S)
  BY <1>5, FS_Bijection
<1> QED BY <1>6 DEF T

(* The pipes that are left in the array are those of the line, in its order.      *)
LEMMA PipesAre ==
  ASSUME IInv, spc = "redirect", Redirecting = {}
  PROVE  LET P == PipesIn(line, separated_commands)
             O == Operators(line, {PIPE})
         IN  /\ IsFiniteSet(P) /\ P \in SUBSET (0..(End(separated_commands) - 1))
             /\ Cardinality(P) = Cardinality(O) /\ Cardinality(P) < MaxStages
             /\ \A p \in 0..(End(separated_commands) - 1) :
                  /\ p \in P <=> separated_commands[p] \in O
                  /\ Cardinality(Before(P, p)) = Cardinality(Before(O, separated_commands[p]))
<1> DEFINE array == separated_commands
           P == PipesIn(line, array)
           O == Operators(line, {PIPE})
           T == {k \in DOMAIN line : line[k] = PIPE}
<1>0. PICK n : n = End(separated_commands)
  OBVIOUS
<1>1. /\ n \in Nat /\ line \in Lines /\ line \in Seq(Kinds) /\ Len(line) \in Nat
      /\ {array[p] : p \in 0..(n - 1)} = Kept(Len(line) + 1)
      /\ \A p, r \in 0..(n - 1) : p < r => array[p] < array[r]
  BY <1>0, ArrayLeft
<1>2. \A p \in 0..(n - 1) : array[p] \in 1..Len(line) /\ ~IsFile(line, array[p])
  BY <1>1 DEF Kept
<1>3. P = {p \in 0..(n - 1) : line[array[p]] = PIPE}
  BY <1>0 DEF PipesIn
<1>4. \A p \in 0..(n - 1) : p \in P <=> array[p] \in O
  BY <1>1, <1>2, <1>3 DEF Operators
<1>5. ASSUME NEW o \in O PROVE \E p \in P : array[p] = o
  <2>1. o \in 1..Len(line) /\ line[o] = PIPE /\ ~IsFile(line, o)
    BY <1>1 DEF Operators
  <2>2. o \in Kept(Len(line) + 1)
    BY <1>1, <2>1 DEF Kept, PIPE, INPUT, OUTPUT
  <2>3. PICK p \in 0..(n - 1) : array[p] = o
    BY <1>1, <2>2
  <2> QED BY <1>3, <2>1, <2>3
<1> HIDE DEF P, O
<1>6. P \in SUBSET (0..(n - 1)) /\ IsFiniteSet(P)
  <2>1. P \in SUBSET (0..(n - 1))
    BY <1>3
  <2>2. IsFiniteSet(0..(n - 1))
    BY <1>1, FS_Interval
  <2> QED BY <2>1, <2>2, FS_Subset
<1>7. \A p, r \in 0..(n - 1) : (array[p] < array[r] <=> p < r) /\ (array[p] = array[r] <=> p = r)
  <2> SUFFICES ASSUME NEW p \in 0..(n - 1), NEW r \in 0..(n - 1)
               PROVE  (array[p] < array[r] <=> p < r) /\ (array[p] = array[r] <=> p = r)
    OBVIOUS
  <2>1. array[p] \in Nat /\ array[r] \in Nat /\ p \in Nat /\ r \in Nat
    BY <1>1, <1>2
  <2>2. (p < r => array[p] < array[r]) /\ (r < p => array[r] < array[p])
    BY <1>1
  <2> QED BY <2>1, <2>2
<1>8. Cardinality(P) = Cardinality(O)
  <2>1. O = {array[p] : p \in P}
    BY <1>4, <1>5, <1>6
  <2>2. \A p, r \in P : array[p] = array[r] => p = r
    BY <1>6, <1>7
  <2> QED BY <1>6, <2>1, <2>2, ImageCount
<1>9. ASSUME NEW p \in 0..(n - 1) PROVE Cardinality(Before(P, p)) = Cardinality(Before(O, array[p]))
  <2> DEFINE S == Before(P, p)
  <2>1. S \subseteq P /\ IsFiniteSet(S)
    <3>1. S \subseteq P
      BY DEF Before
    <3> QED BY <1>6, <3>1, FS_Subset
  <2>2. Before(O, array[p]) = {array[r] : r \in S}
    <3>1. ASSUME NEW o \in O, o < array[p] PROVE \E r \in S : array[r] = o
      <4>1. PICK r \in P : array[r] = o
        BY <1>5
      <4>2. r < p
        BY <1>6, <1>7, <3>1, <4>1
      <4> QED BY <4>1, <4>2 DEF Before
    <3>2. ASSUME NEW r \in S PROVE array[r] \in O /\ array[r] < array[p]
      <4>1. r \in P /\ r < p /\ r \in 0..(n - 1)
        BY <1>6 DEF Before
      <4> QED BY <1>4, <1>7, <4>1
    <3> QED BY <3>1, <3>2 DEF Before
  <2>3. \A r, m \in S : array[r] = array[m] => r = m
    BY <1>6, <1>7, <2>1
  <2> HIDE DEF S
  <2>4. Cardinality({array[r] : r \in S}) = Cardinality(S)
    BY <2>1, <2>3, ImageCount
  <2> QED BY <2>2, <2>4 DEF S
<1>10. Cardinality(O) < MaxStages
  <2>1. IsFiniteSet(T) /\ O \subseteq T
    <3>1. IsFiniteSet(1..Len(line))
      BY <1>1, FS_Interval
    <3>2. T \in SUBSET (1..Len(line))
      BY <1>1
    <3>3. O \subseteq T
      BY DEF O, Operators
    <3> QED BY <3>1, <3>2, <3>3, FS_Subset
  <2>2. Cardinality(T) < MaxStages
    BY <1>1, LinesAssumption
  <2> HIDE DEF T
  <2>3. Cardinality(O) <= Cardinality(T) /\ Cardinality(O) \in Nat /\ Cardinality(T) \in Nat
    BY <2>1, FS_Subset, FS_CardinalityType
  <2> QED BY <2>2, <2>3, SizesAssumption
<1> QED BY <1>0, <1>4, <1>6, <1>8, <1>9, <1>10 DEF P, O

(* So there are not too many of them, and the loop ends at a NULL.                *)
LEMMA SegmentFacts ==
  ASSUME IInv, spc = "redirect", Redirecting = {}
  PROVE  /\ AllFiles(fds) /\ End(separated_commands) # MAX_ARGS
         /\ Cardinality(PipesIn(line, separated_commands)) + 1 \in 1..MaxStages
<1>1. Cardinality(PipesIn(line, separated_commands)) \in Nat
  BY PipesAre, FS_CardinalityType
<1> QED BY <1>1, ArrayLeft, PipesAre, ArgsAssumption, SizesAssumption

LEMMA SegmentKeeps ==
  ASSUME IInv, Segment
  PROVE  IInv'
<1>1. /\ spc = "redirect" /\ Redirecting = {}
      /\ UNCHANGED <<line, separated_commands, fds, pipes, fd_in, fd_out, next, lines, child, programs>>
  BY DEF Segment
<1>2. \/ spc' = "prompt" /\ UNCHANGED num_segments
      \/ spc' = "pipe" /\ num_segments' = Cardinality(PipesIn(line, separated_commands)) + 1
  BY <1>1, SegmentFacts DEF Segment
<1>3. /\ pipes = <<>> /\ next = 0 /\ eof = {} /\ broken = {}
      /\ buffer = Zero /\ held = Zero /\ put = Zero /\ got = Zero
      /\ Standard(fds) /\ NoEnds(fds)
  BY <1>1 DEF IInv, RedirectInv, ShellInv
<1>4. AllFiles(fds) /\ num_segments' \in 1..MaxStages
  BY <1>1, <1>2, SegmentFacts DEF IInv, ShapeInv
<1>5. ShapeInv'
  <2>1. spc' \in {"prompt", "redirect", "pipe", "fork", "wait", "exited", "undefined"}
    BY <1>2
  <2>2. next' \in 0..num_segments' /\ Len(pipes') < num_segments'
    BY <1>1, <1>3, <1>4, SizesAssumption
  <2> QED BY <1>1, <1>4, <2>1, <2>2 DEF IInv, ShapeInv, programs
<1>6. RedirectInv' /\ ArrayBounds'
  BY <1>2 DEF RedirectInv, ArrayBounds
<1>7. ShellInv'
  <2>1. Standard(fds)' /\ NoEnds(fds)' /\ AllFiles(fds)'
    BY <1>1, <1>3, <1>4 DEF Standard, NoEnds, AllFiles, Files, LastFile, IsLast
  <2>2. AllEnds(fds)'
    BY <1>1, <1>3 DEF NoEnds, AllEnds
  <2> QED BY <1>1, <1>2, <1>3, <2>1, <2>2 DEF ShellInv
<1>8. EndsInv'
  <2>1. LastFile(fds, fd_in, "in", INPUT, Len(line) + 1)
        /\ LastFile(fds, fd_out, "out", OUTPUT, Len(line) + 1)
    BY <1>4 DEF AllFiles, Files
  <2>2. fd_in # -1 => fds[fd_in] # Tty /\ fds[fd_in].kind = "in"
    BY <2>1, DescKinds DEF LastFile
  <2>3. fd_out # -1 => fds[fd_out] # Tty /\ fds[fd_out].kind = "out"
    BY <2>1, DescKinds DEF LastFile
  <2>4. fd_in \in Fds \union {-1} /\ fd_out \in Fds \union {-1} /\ Fds \subseteq Nat
    BY SizesAssumption DEF IInv, ShapeInv, Fds
  <2>5. (fd_in = -1 \/ fd_in > 2) /\ (fd_out = -1 \/ fd_out > 2)
    BY <1>3, <2>2, <2>3, <2>4 DEF Standard
  <2>6. fd_in = fd_out => fd_in = -1
    BY <2>2, <2>3
  <2> QED BY <1>1, <1>3, <2>5, <2>6 DEF EndsInv
<1>9. ChildInv'
  BY <1>1, <1>2, NoChildren
<1>10. FlowInv'
  <2> SUFFICES ASSUME NEW k \in Stages
               PROVE  /\ got'[k] = put'[k] + held'[k] /\ got'[k] <= Units
                      /\ k > 0 /\ k < num_segments' => put'[k - 1] = got'[k] + buffer'[k - 1]
    BY DEF FlowInv
  <2>1. k \in Nat /\ (k > 0 => k - 1 \in Stages)
    BY SizesAssumption DEF Stages
  <2>2. \A m \in Stages : Zero[m] = 0
    BY DEF Zero
  <2>3. UNCHANGED <<got, put, held, buffer>>
    BY <1>1 DEF programs
  <2> QED BY <1>3, <2>1, <2>2, <2>3, SizesAssumption
<1>11. EofInv'
  BY <1>1, <1>3 DEF EofInv, NoEarlyEof, NoEarlyBrokenPipe, programs
<1> QED BY <1>5, <1>6, <1>7, <1>8, <1>9, <1>10, <1>11 DEF IInv

LEMMA MakePipeKeeps ==
  ASSUME IInv, MakePipe
  PROVE  IInv'
<1>0. PICK j, rd, one, wr :
        /\ j = Len(pipes) /\ rd = Min(Free(fds)) /\ one = Opened(fds, Desc("read", j))
        /\ wr = Min(Free(one))
  OBVIOUS
<1>1. /\ spc = "pipe" /\ Len(pipes) < num_segments - 1 /\ Cardinality(Free(fds)) >= 2
      /\ fds' = Opened(one, Desc("write", j)) /\ pipes' = Append(pipes, [r |-> rd, w |-> wr])
      /\ UNCHANGED <<spc, tokens, num_segments, fd_in, fd_out, next, lines, child, programs>>
  BY <1>0 DEF MakePipe, PipesWanted
<1>2. /\ pipes \in Seq([r : Fds, w : Fds]) /\ num_segments \in 1..MaxStages /\ fds \in Tables
      /\ Standard(fds) /\ AllEnds(fds) /\ AllFiles(fds) /\ next = 0
      /\ {0, 1, 2} \subseteq Fds /\ Fds \subseteq Nat
  BY <1>1, SizesAssumption DEF IInv, ShapeInv, ShellInv, Fds
<1>3. j \in Stages /\ j \in Nat
  BY <1>0, <1>1, <1>2, SizesAssumption DEF Stages
<1>4. Desc("read", j) \in Descs /\ Desc("write", j) \in Descs /\ Desc("read", j) # Closed
      /\ Desc("write", j) # Closed
  BY <1>3, PipeDescs, DescKinds
<1>5. Free(fds) # {} /\ Free(one) # {}
  BY <1>0, <1>1, <1>2, <1>4, SecondFree
<1>6. /\ rd \in Fds /\ fds[rd] = Closed /\ one \in Tables /\ one[rd] = Desc("read", j)
      /\ \A f \in Fds : f # rd => one[f] = fds[f]
  BY <1>0, <1>2, <1>4, <1>5, FreeIs, OpenedIs
<1>7. /\ wr \in Fds /\ one[wr] = Closed /\ fds' \in Tables /\ fds'[wr] = Desc("write", j)
      /\ \A f \in Fds : f # wr => fds'[f] = one[f]
  BY <1>0, <1>1, <1>4, <1>5, <1>6, FreeIs, OpenedIs
<1>8. rd # wr /\ fds[wr] = Closed
  BY <1>4, <1>6, <1>7
<1>9. /\ fds'[rd] = Desc("read", j) /\ fds'[wr] = Desc("write", j)
      /\ \A f \in Fds : f \notin {rd, wr} => fds'[f] = fds[f]
      /\ \A f \in Fds : fds[f] # Closed => f \notin {rd, wr}
  BY <1>6, <1>7, <1>8
<1>10. /\ pipes' \in Seq([r : Fds, w : Fds]) /\ Len(pipes') = j + 1
       /\ DOMAIN pipes' = 1..(j + 1) /\ DOMAIN pipes = 1..j
       /\ \A m \in 1..j : pipes'[m] = pipes[m]
       /\ pipes'[j + 1] = [r |-> rd, w |-> wr]
  <2>1. [r |-> rd, w |-> wr] \in [r : Fds, w : Fds]
    BY <1>6, <1>7
  <2> DEFINE e == [r |-> rd, w |-> wr]
             R == [r : Fds, w : Fds]
             new == Append(pipes, e)
  <2>3. pipes \in Seq(R) /\ e \in R
    BY <1>2, <2>1
  <2> HIDE DEF e, R
  <2>4. /\ new \in Seq(R) /\ Len(new) = Len(pipes) + 1
        /\ DOMAIN new = 1..(Len(pipes) + 1) /\ DOMAIN pipes = 1..Len(pipes)
        /\ \A m \in 1..Len(pipes) : new[m] = pipes[m]
        /\ new[Len(pipes) + 1] = e
    BY <2>3
  <2> HIDE DEF new
  <2>5. pipes' = new
    BY <1>1 DEF new, e
  <2> QED BY <1>0, <2>4, <2>5 DEF e, R
<1>11. ASSUME NEW m \in 1..j
       PROVE  /\ pipes[m].r \in Fds /\ pipes[m].w \in Fds
              /\ fds[pipes[m].r] = Desc("read", m - 1) /\ fds[pipes[m].w] = Desc("write", m - 1)
              /\ pipes[m].r \notin {rd, wr} /\ pipes[m].w \notin {rd, wr}
  <2>1. \A S : \A s \in Seq(S) : \A k \in DOMAIN s : s[k] \in S
    OBVIOUS
  <2>2. m \in DOMAIN pipes
    BY <1>10
  <2>3. pipes[m] \in [r : Fds, w : Fds]
    BY <1>2, <2>1, <2>2, Zenon
  <2>4. fds[pipes[m].r] = Desc("read", m - 1) /\ fds[pipes[m].w] = Desc("write", m - 1)
    BY <1>2, <2>2 DEF AllEnds
  <2> QED BY <1>9, <2>3, <2>4, DescKinds
<1>12. /\ (fd_in # -1 => fd_in \in Fds /\ fds[fd_in] # Closed)
       /\ (fd_out # -1 => fd_out \in Fds /\ fds[fd_out] # Closed)
       /\ fd_in \notin {rd, wr} /\ fd_out \notin {rd, wr}
  <2>1. fd_in \in Fds \union {-1} /\ fd_out \in Fds \union {-1}
    BY DEF IInv, ShapeInv
  <2>2. /\ (fd_in # -1 => fds[fd_in] # Closed) /\ (fd_out # -1 => fds[fd_out] # Closed)
    BY <1>2, DescKinds DEF AllFiles, Files, LastFile
  <2>3. -1 \notin {rd, wr}
    BY <1>2, <1>6, <1>7
  <2> QED BY <1>9, <2>1, <2>2, <2>3
<1>13. ShapeInv'
  <2>1. Len(pipes') < num_segments'
    BY <1>0, <1>1, <1>2, <1>3, <1>10
  <2> QED BY <1>1, <1>7, <1>10, <2>1 DEF IInv, ShapeInv, tokens, programs
<1>14. RedirectInv' /\ ArrayBounds'
  BY <1>1 DEF RedirectInv, ArrayBounds
<1>15. Standard(fds')
  BY <1>2, <1>9, DescKinds DEF Standard
<1>16. AllFiles(fds)'
  <2>1. (fd_in # -1 => fds'[fd_in] = fds[fd_in]) /\ (fd_out # -1 => fds'[fd_out] = fds[fd_out])
    BY <1>9, <1>12
  <2> QED BY <1>1, <1>2, <2>1 DEF AllFiles, Files, LastFile, IsLast, tokens
<1>17. AllEnds(fds)'
  <2>1. ASSUME NEW m \in 1..(j + 1)
        PROVE  fds'[pipes'[m].r] = Desc("read", m - 1) /\ fds'[pipes'[m].w] = Desc("write", m - 1)
    <3>1. CASE m = j + 1
      <4>1. m - 1 = j /\ pipes'[m].r = rd /\ pipes'[m].w = wr
        BY <1>3, <1>10, <3>1
      <4> QED BY <1>9, <4>1
    <3>2. CASE m # j + 1
      <4>1. m \in 1..j
        BY <1>3, <3>2
      <4> QED BY <1>9, <1>10, <1>11, <4>1
    <3> QED BY <3>1, <3>2
  <2>2. ASSUME NEW f \in Fds, fds'[f].kind \in PipeKinds
        PROVE  \E m \in 1..(j + 1) : f \in {pipes'[m].r, pipes'[m].w}
    <3>1. CASE f \in {rd, wr}
      <4>1. j + 1 \in 1..(j + 1) /\ pipes'[j + 1].r = rd /\ pipes'[j + 1].w = wr
        BY <1>3, <1>10
      <4> QED BY <3>1, <4>1
    <3>2. CASE f \notin {rd, wr}
      <4>1. PICK m \in 1..j : f \in {pipes[m].r, pipes[m].w}
        BY <1>2, <1>9, <1>10, <2>2, <3>2 DEF AllEnds
      <4>2. m \in 1..(j + 1)
        BY <1>3
      <4> QED BY <1>10, <4>1, <4>2
    <3> QED BY <3>1, <3>2
  <2>3. DOMAIN pipes' = 1..(j + 1)
    BY <1>10
  <2> QED BY <2>1, <2>2, <2>3 DEF AllEnds
<1>18. ShellInv'
  <2>1. Standard(fds)'
    BY <1>15 DEF Standard
  <2> QED BY <1>1, <1>2, <1>16, <1>17, <2>1 DEF ShellInv
<1>19. EndsInv'
  <2>1. rd > 2 /\ wr > 2
    <3>1. rd \notin {0, 1, 2} /\ wr \notin {0, 1, 2}
      BY <1>2, <1>6, <1>8, DescKinds DEF Standard
    <3>2. rd \in Nat /\ wr \in Nat
      BY <1>2, <1>6, <1>7
    <3> QED BY <3>1, <3>2
  <2>2. /\ (fd_in = -1 \/ fd_in > 2) /\ (fd_out = -1 \/ fd_out > 2) /\ (fd_in = fd_out => fd_in = -1)
        /\ \A m \in 1..j :
             /\ pipes[m].r > 2 /\ pipes[m].w > 2
             /\ fd_in \notin {pipes[m].r, pipes[m].w} /\ fd_out \notin {pipes[m].r, pipes[m].w}
             /\ \A k \in 1..j : /\ pipes[m].r # pipes[k].w
                                /\ m # k => pipes[m].r # pipes[k].r /\ pipes[m].w # pipes[k].w
    BY <1>1, <1>10 DEF IInv, EndsInv
  <2>3. ASSUME NEW m \in 1..(j + 1)
        PROVE  /\ pipes'[m].r > 2 /\ pipes'[m].w > 2
               /\ fd_in \notin {pipes'[m].r, pipes'[m].w} /\ fd_out \notin {pipes'[m].r, pipes'[m].w}
    <3>1. CASE m = j + 1
      BY <1>10, <1>12, <2>1, <3>1
    <3>2. CASE m # j + 1
      <4>1. m \in 1..j
        BY <1>3, <3>2
      <4> QED BY <1>10, <2>2, <4>1
    <3> QED BY <3>1, <3>2
  <2>4. ASSUME NEW m \in 1..(j + 1), NEW k \in 1..(j + 1)
        PROVE  /\ pipes'[m].r # pipes'[k].w
               /\ m # k => pipes'[m].r # pipes'[k].r /\ pipes'[m].w # pipes'[k].w
    <3>1. \A a \in 1..(j + 1) : a = j + 1 \/ a \in 1..j
      BY <1>3
    <3>2. pipes'[j + 1].r = rd /\ pipes'[j + 1].w = wr
      BY <1>10
    <3> QED BY <1>8, <1>10, <1>11, <2>2, <3>1, <3>2
  <2>5. DOMAIN pipes' = 1..(j + 1)
    BY <1>10
  <2>6. \A m \in DOMAIN pipes' :
          /\ pipes'[m].r > 2 /\ pipes'[m].w > 2
          /\ fd_in \notin {pipes'[m].r, pipes'[m].w} /\ fd_out \notin {pipes'[m].r, pipes'[m].w}
          /\ \A k \in DOMAIN pipes' :
               /\ pipes'[m].r # pipes'[k].w
               /\ m # k => pipes'[m].r # pipes'[k].r /\ pipes'[m].w # pipes'[k].w
    BY <2>3, <2>4, <2>5
  <2> QED BY <1>1, <2>2, <2>6 DEF EndsInv
<1>20. ChildInv'
  BY <1>1, NoChildren
<1>21. FlowInv' /\ EofInv'
  BY <1>1, ProgramsKept
<1> QED BY <1>13, <1>14, <1>18, <1>19, <1>20, <1>21 DEF IInv

LEMMA PipeFailsKeeps ==
  ASSUME IInv, PipeFails
  PROVE  IInv'
<1>1. /\ spc = "pipe" /\ spc' = "exited" /\ fds' = [f \in Fds |-> Closed]
      /\ UNCHANGED <<tokens, num_segments, pipes, fd_in, fd_out, next, lines, child, programs>>
  BY DEF PipeFails
<1>2. fds' \in Tables
  BY <1>1 DEF Tables, Descs
<1>3. ShapeInv'
  BY <1>1, <1>2 DEF IInv, ShapeInv, tokens, programs
<1>4. RedirectInv' /\ ShellInv' /\ EndsInv' /\ ArrayBounds'
  BY <1>1 DEF RedirectInv, ShellInv, EndsInv, ArrayBounds
<1>5. ChildInv'
  BY <1>1, NoChildren
<1>6. FlowInv' /\ EofInv'
  BY <1>1, ProgramsKept
<1> QED BY <1>3, <1>4, <1>5, <1>6 DEF IInv

LEMMA PipesMadeKeeps ==
  ASSUME IInv, PipesMade
  PROVE  IInv'
<1>1. /\ spc = "pipe" /\ spc' = "fork" /\ Len(pipes) = num_segments - 1
      /\ UNCHANGED <<tokens, fds, num_segments, pipes, fd_in, fd_out, next, lines, child, programs>>
  BY DEF PipesMade, PipesWanted
<1>2. ShapeInv'
  BY <1>1 DEF IInv, ShapeInv, tokens, programs
<1>3. RedirectInv' /\ ArrayBounds'
  BY <1>1 DEF RedirectInv, ArrayBounds
<1>4. ShellInv'
  <2>1. Standard(fds)' /\ AllEnds(fds)' /\ AllFiles(fds)'
    BY <1>1 DEF IInv, ShellInv, Standard, AllEnds, AllFiles, Files, LastFile, IsLast, tokens
  <2> QED BY <1>1, <2>1 DEF ShellInv
<1>5. EndsInv'
  BY <1>1 DEF IInv, EndsInv
<1>6. ChildInv'
  <2>1. ASSUME NEW i \in Stages PROVE TableInv(i)' /\ StartedInv(i)'
    <3>1. TableOf(i, child[i].at, child[i].fds) /\ child[i].at = "none"
      BY <1>1 DEF IInv, ChildInv, TableInv, StartedInv
    <3>2. TableInv(i)'
      BY <1>1, <3>1, TableKept DEF tokens
    <3>3. i >= next
      BY <1>1, SizesAssumption DEF IInv, ShellInv, Stages
    <3>4. StartedInv(i)'
      BY <1>1, <3>1, <3>3 DEF StartedInv
    <3> QED BY <3>2, <3>4
  <2> QED BY <2>1 DEF ChildInv
<1>7. FlowInv' /\ EofInv'
  BY <1>1, ProgramsKept
<1> QED BY <1>2, <1>3, <1>4, <1>5, <1>6, <1>7 DEF IInv

LEMMA ForkStageKeeps ==
  ASSUME IInv, ForkStage
  PROVE  IInv'
<1>0. PICK n : n = next
  OBVIOUS
<1>1. /\ spc = "fork" /\ n < num_segments /\ next = n
      /\ child' = [child EXCEPT ![n] = [at |-> "forked", fds |-> fds]] /\ next' = n + 1
      /\ UNCHANGED <<spc, tokens, fds, num_segments, pipes, fd_in, fd_out, lines, programs>>
  BY <1>0 DEF ForkStage
<1>2. /\ n \in Stages /\ n \in Nat /\ num_segments \in 1..MaxStages /\ fds \in Tables
      /\ Stages \subseteq Nat /\ child \in [Stages -> [at : {"none", "forked", "stdin", "stdout", "run", "ended"}, fds : Tables]]
  BY <1>1, SizesAssumption DEF IInv, ShapeInv, Stages
<1>3. /\ Standard(fds) /\ AllEnds(fds) /\ AllFiles(fds)
  BY <1>1 DEF IInv, ShellInv
<1>4. child[n].at = "none"
  BY <1>1, <1>2 DEF IInv, ChildInv, StartedInv
<1>5. /\ child'[n] = [at |-> "forked", fds |-> fds]
      /\ \A i \in Stages \ {n} : child'[i] = child[i]
  BY <1>1, <1>2
<1>6. ShapeInv'
  <2>1. child' \in [Stages -> [at : {"none", "forked", "stdin", "stdout", "run", "ended"}, fds : Tables]]
    BY <1>1, <1>2
  <2>2. next' \in 0..num_segments'
    BY <1>1, <1>2
  <2> QED BY <1>1, <2>1, <2>2 DEF IInv, ShapeInv, tokens, programs
<1>7. RedirectInv' /\ ArrayBounds'
  BY <1>1 DEF RedirectInv, ArrayBounds
<1>8. ShellInv'
  <2>1. Standard(fds)' /\ AllEnds(fds)' /\ AllFiles(fds)'
    BY <1>1, <1>3 DEF Standard, AllEnds, AllFiles, Files, LastFile, IsLast, tokens
  <2> QED BY <1>1, <2>1 DEF IInv, ShellInv
<1>9. EndsInv'
  BY <1>1 DEF IInv, EndsInv
<1>10. ASSUME NEW i \in Stages PROVE TableInv(i)' /\ StartedInv(i)'
  <2>1. CASE i = n
    <3>1. TableOf(n, "forked", fds)
      BY <1>3 DEF TableOf, ForkedTable
    <3>2. TableInv(n)'
      BY <1>1, <1>2, <1>5, <3>1, TableKept DEF tokens
    <3>3. StartedInv(n)'
      BY <1>1, <1>2, <1>5 DEF StartedInv
    <3> QED BY <2>1, <3>2, <3>3
  <2>2. CASE i # n
    <3>1. TableOf(i, child[i].at, child[i].fds) /\ StartedInv(i)
      BY DEF IInv, ChildInv, TableInv
    <3>2. child'[i] = child[i]
      BY <1>5, <2>2
    <3>3. TableInv(i)'
      BY <1>1, <3>1, <3>2, TableKept DEF tokens
    <3>4. i >= n <=> i >= n + 1
      BY <1>2, <2>2
    <3>5. StartedInv(i)'
      BY <1>1, <3>1, <3>2, <3>4 DEF StartedInv
    <3> QED BY <3>3, <3>5
  <2> QED BY <2>1, <2>2
<1>11. ChildInv'
  BY <1>10 DEF ChildInv
<1>12. FlowInv'
  BY <1>1 DEF IInv, FlowInv, programs
<1>13. \A i \in Stages : child[i].at = "ended" => child'[i].at = "ended"
  BY <1>4, <1>5
<1>14. NoEarlyEof'
  <2> SUFFICES ASSUME NEW k \in eof, k > 0
               PROVE  child'[k - 1].at = "ended" /\ got[k] = put[k - 1]
    BY <1>1 DEF NoEarlyEof, programs
  <2>1. k - 1 \in Stages
    BY SizesAssumption DEF IInv, ShapeInv, Stages
  <2> QED BY <1>13, <2>1 DEF IInv, EofInv, NoEarlyEof
<1>15. NoEarlyBrokenPipe'
  <2> SUFFICES ASSUME NEW k \in broken PROVE child'[k + 1].at = "ended"
    BY <1>1 DEF NoEarlyBrokenPipe, programs
  <2>1. k + 1 \in Stages
    BY <1>2, SizesAssumption DEF IInv, ShapeInv, EofInv, Stages
  <2> QED BY <1>13, <2>1 DEF IInv, EofInv, NoEarlyBrokenPipe
<1>16. EofInv'
  BY <1>1, <1>14, <1>15 DEF IInv, EofInv, programs
<1> QED BY <1>6, <1>7, <1>8, <1>9, <1>11, <1>12, <1>16 DEF IInv

LEMMA CloseAllKeeps ==
  ASSUME IInv, CloseAll
  PROVE  IInv'
<1>1. /\ spc = "fork" /\ next = num_segments /\ fds' = Without(fds, PipeEnds) /\ spc' = "wait"
      /\ next' = 0
      /\ UNCHANGED <<tokens, num_segments, pipes, fd_in, fd_out, lines, child, programs>>
  BY DEF CloseAll
<1>2. /\ fds \in Tables /\ Standard(fds) /\ AllEnds(fds) /\ num_segments \in Nat
      /\ {0, 1, 2} \subseteq Fds
  BY <1>1, SizesAssumption DEF IInv, ShapeInv, ShellInv, Fds
<1>3. fds' \in Tables /\ \A f \in Fds : fds'[f] = IF f \in PipeEnds THEN Closed ELSE fds[f]
  BY <1>1, <1>2, WithoutIs
<1>4. ShapeInv'
  <2>1. next' \in 0..num_segments'
    BY <1>1, <1>2
  <2> QED BY <1>1, <1>3, <2>1 DEF IInv, ShapeInv, tokens, programs
<1>5. RedirectInv' /\ ArrayBounds'
  BY <1>1 DEF RedirectInv, ArrayBounds
<1>6. {0, 1, 2} \cap PipeEnds = {}
  BY <1>1 DEF IInv, EndsInv, PipeEnds
<1>7. Standard(fds)'
  BY <1>2, <1>3, <1>6 DEF Standard
<1>8. NoEnds(fds)'
  <2> SUFFICES ASSUME NEW f \in Fds, fds'[f].kind \in PipeKinds PROVE FALSE
    BY DEF NoEnds
  <2>1. f \notin PipeEnds /\ fds[f].kind \in PipeKinds
    BY <1>3, DescKinds DEF PipeKinds
  <2>2. PICK j \in DOMAIN pipes : f \in {pipes[j].r, pipes[j].w}
    BY <1>2, <2>1 DEF AllEnds
  <2> QED BY <2>1, <2>2 DEF PipeEnds
<1>9. ShellInv'
  BY <1>1, <1>7, <1>8 DEF IInv, ShellInv
<1>10. EndsInv'
  BY <1>1 DEF IInv, EndsInv
<1>11. ASSUME NEW i \in Stages PROVE TableInv(i)' /\ StartedInv(i)'
  <2>1. TableOf(i, child[i].at, child[i].fds) /\ StartedInv(i) /\ i \in Nat
    BY SizesAssumption DEF IInv, ChildInv, TableInv, Stages
  <2>2. TableInv(i)'
    BY <1>1, <2>1, TableKept DEF tokens
  <2>3. StartedInv(i)'
    BY <1>1, <2>1 DEF StartedInv
  <2> QED BY <2>2, <2>3
<1>12. ChildInv'
  BY <1>11 DEF ChildInv
<1>13. FlowInv' /\ EofInv'
  BY <1>1, ProgramsKept
<1> QED BY <1>4, <1>5, <1>9, <1>10, <1>12, <1>13 DEF IInv

LEMMA WaitKeeps ==
  ASSUME IInv, Wait
  PROVE  IInv'
<1>1. /\ spc = "wait" /\ next < num_segments /\ child[next].at = "ended" /\ next' = next + 1
      /\ UNCHANGED <<spc, tokens, fds, num_segments, pipes, fd_in, fd_out, lines, child, programs>>
  BY DEF Wait
<1>2. next \in Nat /\ num_segments \in Nat
  BY SizesAssumption DEF IInv, ShapeInv
<1>3. ShapeInv'
  <2>1. next' \in 0..num_segments'
    BY <1>1, <1>2
  <2> QED BY <1>1, <2>1 DEF IInv, ShapeInv, tokens, programs
<1>4. RedirectInv' /\ ArrayBounds'
  BY <1>1 DEF RedirectInv, ArrayBounds
<1>5. ShellInv'
  BY <1>1 DEF IInv, ShellInv, Standard, NoEnds
<1>6. EndsInv'
  BY <1>1 DEF IInv, EndsInv
<1>7. ASSUME NEW i \in Stages PROVE TableInv(i)' /\ StartedInv(i)'
  <2>1. TableOf(i, child[i].at, child[i].fds) /\ StartedInv(i) /\ i \in Nat
    BY SizesAssumption DEF IInv, ChildInv, TableInv, Stages
  <2>2. TableInv(i)'
    BY <1>1, <2>1, TableKept DEF tokens
  <2>3. i < next + 1 => i < next \/ i = next
    BY <1>2, <2>1
  <2>4. StartedInv(i)'
    BY <1>1, <2>1, <2>3 DEF StartedInv
  <2> QED BY <2>2, <2>4
<1>8. ChildInv'
  BY <1>7 DEF ChildInv
<1>9. FlowInv' /\ EofInv'
  BY <1>1, ProgramsKept
<1> QED BY <1>3, <1>4, <1>5, <1>6, <1>8, <1>9 DEF IInv

LEMMA PromptKeeps ==
  ASSUME IInv, Prompt
  PROVE  IInv'
<1>1. /\ spc = "wait" /\ next = num_segments /\ spc' = "prompt"
      /\ UNCHANGED <<tokens, fds, num_segments, pipes, fd_in, fd_out, next, lines, child, programs>>
  BY DEF Prompt
<1>2. ShapeInv'
  BY <1>1 DEF IInv, ShapeInv, tokens, programs
<1>3. RedirectInv' /\ EndsInv' /\ ArrayBounds'
  BY <1>1 DEF RedirectInv, EndsInv, ArrayBounds
<1>4. ShellInv'
  BY <1>1 DEF IInv, ShellInv, Standard, NoEnds
<1>5. ASSUME NEW i \in Stages PROVE TableInv(i)' /\ StartedInv(i)'
  <2>1. TableOf(i, child[i].at, child[i].fds) /\ StartedInv(i) /\ i \in Nat /\ num_segments \in Nat
    BY SizesAssumption DEF IInv, ChildInv, TableInv, Stages, ShapeInv
  <2>2. TableInv(i)'
    BY <1>1, <2>1, TableKept DEF tokens
  <2>3. child[i].at \in {"none", "ended"}
    BY <1>1, <2>1 DEF StartedInv
  <2>4. StartedInv(i)'
    BY <1>1, <2>3 DEF StartedInv
  <2> QED BY <2>2, <2>4
<1>6. ChildInv'
  BY <1>5 DEF ChildInv
<1>7. FlowInv' /\ EofInv'
  BY <1>1, ProgramsKept
<1> QED BY <1>2, <1>3, <1>4, <1>6, <1>7 DEF IInv

LEMMA StutterKeeps ==
  ASSUME IInv, UNCHANGED vars
  PROVE  IInv'
<1>1. UNCHANGED <<shell, child, programs>>
  BY DEF vars
<1>2. UNCHANGED <<spc, line, separated_commands, fds, num_segments, pipes, fd_in, fd_out, next,
                  child, buffer, held, put, got, eof, broken>>
  BY <1>1 DEF shell, tokens, programs
<1>3. ShapeInv' /\ EndsInv' /\ ArrayBounds' /\ FlowInv' /\ EofInv'
  BY <1>2 DEF IInv, ShapeInv, EndsInv, ArrayBounds, FlowInv, EofInv, NoEarlyEof, NoEarlyBrokenPipe
<1>4. RedirectInv'
  <2>1. \A q : Kept(q)' = Kept(q)
    BY <1>2 DEF Kept
  <2>2. \A from, q : Frontier(from, q)' <=> Frontier(from, q)
    BY <1>2, <2>1 DEF Frontier
  <2>3. \A q : Files(fds, q)' <=> Files(fds, q)
    BY <1>2 DEF Files, LastFile, IsLast
  <2> QED BY <1>2, <2>2, <2>3 DEF IInv, RedirectInv
<1>5. ShellInv'
  BY <1>2 DEF IInv, ShellInv, Standard, NoEnds, AllEnds, AllFiles, Files, LastFile, IsLast
<1>6. ASSUME NEW i \in Stages PROVE TableInv(i)' /\ StartedInv(i)'
  <2>1. TableOf(i, child[i].at, child[i].fds) /\ StartedInv(i)
    BY DEF IInv, ChildInv, TableInv
  <2>2. TableInv(i)'
    BY <1>2, <2>1, TableKept
  <2>3. StartedInv(i)'
    BY <1>2, <2>1 DEF StartedInv
  <2> QED BY <2>2, <2>3
<1>7. ChildInv'
  BY <1>6 DEF ChildInv
<1> QED BY <1>3, <1>4, <1>5, <1>7 DEF IInv

LEMMA NextInv == IInv /\ [Next]_vars => IInv'
<1> SUFFICES ASSUME IInv, [Next]_vars PROVE IInv'
  OBVIOUS
<1>1. CASE ReadLine
  BY <1>1, ReadLineKeeps
<1>2. CASE Executes
  BY <1>2, BadRedirectionKeeps, RedirectionKeeps, SegmentKeeps, MakePipeKeeps, PipeFailsKeeps,
     PipesMadeKeeps, ForkStageKeeps, CloseAllKeeps, WaitKeeps, PromptKeeps DEF Executes
<1>3. ASSUME NEW i \in Stages, Keeps(i) \/ EndsEarly(i) PROVE IInv'
  BY <1>3, CloseUnrelatedKeeps, SetStdinKeeps, SetStdoutKeeps, ProduceKeeps, ReadKeeps,
     SeesEndKeeps, WriteKeeps, BrokenPipeKeeps, ProgramEnds DEF Keeps
<1>4. CASE UNCHANGED vars
  BY <1>4, StutterKeeps
<1> QED BY <1>1, <1>2, <1>3, <1>4 DEF Next

(* IInv holds in every state of every execution.                                  *)
THEOREM Invariance == Spec => []IInv
<1>1. Init => IInv
  BY InitInv
<1>2. IInv /\ [Next]_vars => IInv'
  BY NextInv
<1> QED BY <1>1, <1>2, PTL DEF Spec

--------------------------------------------------------------------------------
(* The properties.                                                                *)

LEMMA TypeFollows == IInv => TypeOK
<1> SUFFICES ASSUME IInv PROVE TypeOK
  OBVIOUS
<1>1. ASSUME NEW i \in Stages
      PROVE  child[i].fds \in Tables /\ held[i] \in 0..1 /\ buffer[i] \in 0..Capacity
             /\ put[i] <= got[i] /\ got[i] <= Units
  <2>1. child[i].fds \in Tables
    BY DEF IInv, ShapeInv
  <2> QED BY <2>1, FlowFacts, SizesAssumption
<1> QED BY <1>1 DEF IInv, ShapeInv, TypeOK

(* The shell's and the children's descriptors, the token array, the pipes and the *)
(* counts of units keep their types, whatever the line.                           *)
THEOREM TypeCorrect == Spec => []TypeOK
BY Invariance, TypeFollows, PTL

(* The removals of check_redirection and the loops that look for the array's NULL *)
(* leave the array only for a line that is too long for it or fills it.           *)
THEOREM ArrayBoundsHolds == Spec => []ArrayBounds
<1>1. IInv => ArrayBounds
  BY DEF IInv
<1> QED BY <1>1, Invariance, PTL

LEMMA OwnEndsFollow == IInv => OnlyOwnEnds
<1> SUFFICES ASSUME IInv, NEW i \in Stages, Running(i)
             PROVE  /\ IF i > 0 THEN In(i) = Desc("read", i - 1)
                                ELSE Redirected(In(i), "in", INPUT, fd_in)
                    /\ IF i < num_segments - 1 THEN Out(i) = Desc("write", i)
                                               ELSE Redirected(Out(i), "out", OUTPUT, fd_out)
                    /\ \A f \in Fds \ {0, 1} : child[i].fds[f].kind \notin PipeKinds
  BY DEF OnlyOwnEnds
<1>1. RunTable(i, child[i].fds)
  BY LiveFacts DEF Running, Live, TableOf
<1>2. line \in Seq(Kinds)
  BY DEF IInv, ShapeInv
<1>3. ASSUME NEW op \in {INPUT, OUTPUT}, NEW k, IsLast(op, Len(line) + 1, k)
      PROVE  k + 1 \in FilesOf(op) /\ Max(FilesOf(op)) = k + 1
  <2>1. \A m \in Operators(line, {op}) : m \in Int /\ m < Len(line) + 1
    BY <1>2 DEF Operators
  <2>2. k \in Operators(line, {op}) /\ \A m \in Operators(line, {op}) : m <= k
    BY <1>3, <2>1 DEF IsLast
  <2>3. k + 1 \in FilesOf(op)
    BY <2>2 DEF FilesOf
  <2>4. ASSUME NEW f \in FilesOf(op) PROVE f \in Int /\ f <= k + 1
    <3>1. PICK m \in Operators(line, {op}) : f = m + 1
      BY DEF FilesOf
    <3>2. m \in Int /\ k \in Int /\ m <= k
      BY <2>1, <2>2
    <3> QED BY <3>1, <3>2
  <2>5. FilesOf(op) \in SUBSET Int /\ \A f \in FilesOf(op) : f <= k + 1
    <3> HIDE DEF FilesOf
    <3> QED BY <2>4
  <2>6. Max(FilesOf(op)) = k + 1
    BY <2>3, <2>4, <2>5, MaxIs
  <2> QED BY <2>3, <2>6
<1>4. IF i > 0 THEN In(i) = Desc("read", i - 1) ELSE Redirected(In(i), "in", INPUT, fd_in)
  BY <1>1, <1>3 DEF RunTable, InDesc, In, Redirected
<1>5. IF i < num_segments - 1 THEN Out(i) = Desc("write", i)
                             ELSE Redirected(Out(i), "out", OUTPUT, fd_out)
  BY <1>1, <1>3 DEF RunTable, OutDesc, Out, Redirected
<1> QED BY <1>1, <1>4, <1>5 DEF RunTable

(* A program starts with exactly its own ends of the pipes, and at the ends of    *)
(* the pipeline with the terminal or a file of the line: the file of the last     *)
(* redirection, where the redirections stand at the ends and it was opened.       *)
THEOREM OnlyOwnEndsHolds == Spec => []OnlyOwnEnds
BY Invariance, OwnEndsFollow, PTL

(* A stage sees the end of its input only when the stage before it has ended and  *)
(* everything that one wrote has been read.                                       *)
THEOREM NoEarlyEofHolds == Spec => []NoEarlyEof
<1>1. IInv => NoEarlyEof
  BY DEF IInv, EofInv
<1> QED BY <1>1, Invariance, PTL

(* A program gets SIGPIPE only when its reader has ended.                         *)
THEOREM NoEarlyBrokenPipeHolds == Spec => []NoEarlyBrokenPipe
<1>1. IInv => NoEarlyBrokenPipe
  BY DEF IInv, EofInv
<1> QED BY <1>1, Invariance, PTL

--------------------------------------------------------------------------------
(* The tokens of the stages.                                                      *)

(* How many elements of a set of numbers are before a number: as many or more for *)
(* a larger one, more behind each element.                                        *)
LEMMA BeforeGrows ==
  ASSUME NEW S \in SUBSET Int, IsFiniteSet(S), NEW x \in Int, NEW y \in Int
  PROVE  /\ IsFiniteSet(Before(S, x)) /\ Cardinality(Before(S, x)) \in 0..Cardinality(S)
         /\ x <= y => Cardinality(Before(S, x)) <= Cardinality(Before(S, y))
         /\ x \in S /\ x < y => Cardinality(Before(S, x)) < Cardinality(Before(S, y))
         /\ x \in S => Cardinality(Before(S, x)) < Cardinality(S)
         /\ Before(S, x + 1) = IF x \in S THEN Before(S, x) \union {x} ELSE Before(S, x)
<1>1. \A z \in Int : /\ IsFiniteSet(Before(S, z)) /\ Before(S, z) \subseteq S
                     /\ Cardinality(Before(S, z)) \in Nat
                     /\ Cardinality(Before(S, z)) <= Cardinality(S)
  <2> SUFFICES ASSUME NEW z \in Int
               PROVE  /\ IsFiniteSet(Before(S, z)) /\ Before(S, z) \subseteq S
                      /\ Cardinality(Before(S, z)) \in Nat
                      /\ Cardinality(Before(S, z)) <= Cardinality(S)
    OBVIOUS
  <2>1. Before(S, z) \subseteq S
    BY DEF Before
  <2> QED BY <2>1, FS_Subset, FS_CardinalityType
<1>2. Cardinality(S) \in Nat
  BY FS_CardinalityType
<1>3. ASSUME x <= y PROVE Cardinality(Before(S, x)) <= Cardinality(Before(S, y))
  <2>1. \A k \in S : k < x => k < y
    BY <1>3
  <2>2. Before(S, x) \subseteq Before(S, y)
    BY <2>1 DEF Before
  <2> QED BY <1>1, <2>2, FS_Subset
<1>4. ASSUME x \in S, NEW T, IsFiniteSet(T), Before(S, x) \subseteq T, x \in T
      PROVE  Cardinality(Before(S, x)) < Cardinality(T)
  <2>1. x \notin Before(S, x)
    BY DEF Before
  <2>2. Before(S, x) # T
    BY <1>4, <2>1
  <2>3. Cardinality(Before(S, x)) <= Cardinality(T) /\ Cardinality(Before(S, x)) # Cardinality(T)
    BY <1>4, <2>2, FS_Subset
  <2> QED BY <1>1, <1>4, <2>3, FS_CardinalityType
<1>5. ASSUME x \in S, x < y PROVE Cardinality(Before(S, x)) < Cardinality(Before(S, y))
  <2>1. \A k \in S : k < x => k < y
    BY <1>5
  <2>2. Before(S, x) \subseteq Before(S, y) /\ x \in Before(S, y)
    BY <1>5, <2>1 DEF Before
  <2> QED BY <1>1, <1>4, <1>5, <2>2
<1>6. x \in S => Cardinality(Before(S, x)) < Cardinality(S)
  BY <1>1, <1>4
<1>7. Before(S, x + 1) = IF x \in S THEN Before(S, x) \union {x} ELSE Before(S, x)
  <2>1. \A k \in S : k < x + 1 <=> k < x \/ k = x
    OBVIOUS
  <2> QED BY <2>1 DEF Before
<1> QED BY <1>1, <1>2, <1>3, <1>5, <1>6, <1>7

(* There is one that k others are before.                                         *)
LEMMA KthIs ==
  ASSUME NEW n \in Nat, NEW S \in SUBSET (0..(n - 1)), NEW k \in 0..(Cardinality(S) - 1)
  PROVE  \E x \in S : Cardinality(Before(S, x)) = k
<1> DEFINE Reaches(m) == k < Cardinality(Before(S, m)) => \E x \in S : Cardinality(Before(S, x)) = k
           P == {m \in 0..n : Reaches(m)}
<1>1. IsFiniteSet(S) /\ S \in SUBSET Int /\ \A x \in S : 0 <= x /\ x < n
  <2>1. IsFiniteSet(0..(n - 1))
    BY FS_Interval
  <2>2. IsFiniteSet(S)
    BY <2>1, FS_Subset
  <2>3. \A x \in S : x \in 0..(n - 1)
    OBVIOUS
  <2> QED BY <2>2, <2>3
<1>2. 0 \in P
  <2>1. \A x \in S : ~(x < 0)
    BY <1>1
  <2>2. Before(S, 0) = {}
    BY <2>1 DEF Before
  <2>3. Cardinality(Before(S, 0)) = 0
    BY <2>2, FS_EmptySet
  <2> QED BY <2>3
<1>3. ASSUME NEW m \in 1..n, m - 1 \in P PROVE m \in P
  <2> DEFINE c == Cardinality(Before(S, m - 1))
  <2>1. (m - 1) + 1 = m /\ m - 1 \in Int
    OBVIOUS
  <2>2. IsFiniteSet(Before(S, m - 1)) /\ c \in Nat /\ m - 1 \notin Before(S, m - 1)
    <3>1. IsFiniteSet(Before(S, m - 1))
      BY <1>1, <2>1, BeforeGrows
    <3>2. c \in Nat
      BY <3>1, FS_CardinalityType
    <3>3. m - 1 \notin Before(S, m - 1)
      BY <2>1 DEF Before
    <3> QED BY <3>1, <3>2, <3>3
  <2>3. Before(S, m) = IF m - 1 \in S THEN Before(S, m - 1) \union {m - 1} ELSE Before(S, m - 1)
    BY <1>1, <2>1, BeforeGrows
  <2>4. CASE m - 1 \in S
    <3>1. Cardinality(Before(S, m)) = c + 1
      BY <2>2, <2>3, <2>4, FS_AddElement
    <3>2. k < c \/ k = c \/ ~(k < c + 1)
      BY <2>2
    <3> QED BY <1>3, <2>4, <3>1, <3>2
  <2>5. CASE m - 1 \notin S
    BY <1>3, <2>3, <2>5
  <2> QED BY <2>4, <2>5
<1> HIDE DEF P
<1>4. n \in P
  <2>1. \A m \in 0..n : m \in P
    BY <1>2, <1>3, UpToInduction
  <2> QED BY <2>1
<1>5. Before(S, n) = S
  BY <1>1 DEF Before
<1>6. Cardinality(S) \in Nat
  BY <1>1, FS_CardinalityType
<1>7. k < Cardinality(Before(S, n))
  BY <1>5, <1>6
<1> QED BY <1>4, <1>7 DEF P

(* Segment k is the cells that are no pipe and have k pipes before them.          *)
LEMMA SegmentIs ==
  ASSUME NEW l, NEW array, NEW n \in Nat, n = End(array),
         NEW k \in 0..Cardinality(PipesIn(l, array)), NEW p \in 0..(n - 1)
  PROVE  /\ SegmentStart(l, array, k) \in 0..n /\ SegmentEnd(l, array, k) \in 0..n
         /\ p \in SegmentStart(l, array, k)..(SegmentEnd(l, array, k) - 1) <=>
              p \notin PipesIn(l, array) /\ Cardinality(Before(PipesIn(l, array), p)) = k
<1> DEFINE S == PipesIn(l, array)
           c(x) == Cardinality(Before(S, x))
           C == Cardinality(S)
           from == SegmentStart(l, array, k)
           to == SegmentEnd(l, array, k)
<1>1. S \in SUBSET (0..(n - 1)) /\ IsFiniteSet(S) /\ S \in SUBSET Int /\ C \in Nat
  <2>1. S \in SUBSET (0..(n - 1))
    BY DEF PipesIn
  <2> HIDE DEF S
  <2>2. IsFiniteSet(0..(n - 1)) /\ 0..(n - 1) \subseteq Int
    BY FS_Interval
  <2>3. IsFiniteSet(S)
    BY <2>1, <2>2, FS_Subset
  <2> QED BY <2>1, <2>2, <2>3, FS_CardinalityType DEF C
<1>2. \A m \in 0..C : IF m = C THEN SegmentEnd(l, array, m) = n
                      ELSE SegmentEnd(l, array, m) \in S /\ c(SegmentEnd(l, array, m)) = m
  <2> SUFFICES ASSUME NEW m \in 0..C, m # C
               PROVE  SegmentEnd(l, array, m) \in S /\ c(SegmentEnd(l, array, m)) = m
    BY DEF SegmentEnd
  <2>1. SegmentEnd(l, array, m) = CHOOSE x \in S : c(x) = m
    BY DEF SegmentEnd
  <2>2. m \in 0..(C - 1)
    BY <1>1
  <2> HIDE DEF S
  <2>3. \E x \in S : c(x) = m
    BY <1>1, <2>2, KthIs
  <2> QED BY <2>1, <2>3
<1>3. IF k = C THEN to = n ELSE to \in S /\ c(to) = k
  BY <1>2
<1>4. from = 0 \/ (k > 0 /\ from - 1 \in S /\ c(from - 1) = k - 1)
  <2>1. CASE k = 0
    BY <2>1 DEF SegmentStart
  <2>2. CASE k # 0
    <3>1. from = SegmentEnd(l, array, k - 1) + 1 /\ k - 1 \in 0..C /\ k - 1 # C
      BY <1>1, <2>2 DEF SegmentStart
    <3>2. SegmentEnd(l, array, k - 1) \in S /\ c(SegmentEnd(l, array, k - 1)) = k - 1
      BY <1>2, <3>1
    <3>3. SegmentEnd(l, array, k - 1) \in Int
      BY <1>1, <3>2
    <3>4. from - 1 = SegmentEnd(l, array, k - 1)
      BY <3>1, <3>3
    <3> QED BY <2>2, <3>2, <3>4
  <2> QED BY <2>1, <2>2
<1>5. k = 0 => from = 0
  BY DEF SegmentStart
<1> HIDE DEF S, from, to, C
<1>6. from \in 0..n /\ to \in 0..n
  <2>1. from \in 0..n
    <3>1. CASE from = 0
      BY <3>1
    <3>2. CASE from # 0
      <4>1. from - 1 \in 0..(n - 1)
        BY <1>1, <1>4, <3>2
      <4>2. from = SegmentEnd(l, array, k - 1) + 1
        BY <1>4, <3>2 DEF from, SegmentStart
      <4>3. k - 1 \in 0..C /\ k - 1 # C
        BY <1>1, <1>4, <3>2 DEF C, S
      <4>4. SegmentEnd(l, array, k - 1) \in Int
        BY <1>1, <1>2, <4>3
      <4> QED BY <4>1, <4>2, <4>4
    <3> QED BY <3>1, <3>2
  <2>2. to \in 0..n
    <3>1. CASE k = C
      BY <1>3, <3>1
    <3>2. CASE k # C
      <4>1. to \in 0..(n - 1)
        BY <1>1, <1>3, <3>2
      <4> QED BY <4>1
    <3> QED BY <3>1, <3>2
  <2> QED BY <2>1, <2>2
<1>7. c(p) \in Nat /\ c(p) <= C /\ (p \in S => c(p) < C)
  <2>1. p \in Int
    OBVIOUS
  <2>2. c(p) \in 0..C /\ (p \in S => c(p) < C)
    BY <1>1, <2>1, BeforeGrows DEF C
  <2> QED BY <1>1, <2>2
<1>8. ASSUME NEW x \in S
      PROVE  /\ p < x => c(p) <= c(x) /\ (p \in S => c(p) < c(x))
             /\ x < p => c(x) < c(p)
             /\ c(x) \in Nat /\ x \in Int
  <2>1. p \in Int /\ x \in Int
    BY <1>1
  <2>2. c(x) \in 0..C
    BY <1>1, <2>1, BeforeGrows DEF C
  <2>3. p < x => c(p) <= c(x) /\ (p \in S => c(p) < c(x))
    <3>1. p < x => p <= x
      BY <2>1
    <3> QED BY <1>1, <2>1, <3>1, BeforeGrows
  <2>4. x < p => c(x) < c(p)
    BY <1>1, <2>1, BeforeGrows
  <2> QED BY <1>1, <2>1, <2>2, <2>3, <2>4
<1>9. ASSUME p \in from..(to - 1) PROVE p \notin S /\ c(p) = k
  <2>1. c(p) >= k
    <3>1. CASE from = 0 /\ k = 0
      BY <1>7, <3>1
    <3>2. CASE k > 0 /\ from - 1 \in S /\ c(from - 1) = k - 1
      <4>1. from - 1 < p
        BY <1>6, <1>9
      <4>2. c(from - 1) < c(p)
        BY <1>8, <3>2, <4>1
      <4> QED BY <1>7, <3>2, <4>2
    <3>3. k = 0 \/ k > 0
      BY <1>1 DEF C, S
    <3>4. k > 0 => from # 0
      <4> SUFFICES ASSUME k > 0 PROVE from # 0
        OBVIOUS
      <4>1. k - 1 \in 0..C /\ k - 1 # C /\ from = SegmentEnd(l, array, k - 1) + 1
        BY <1>1 DEF from, SegmentStart, C, S
      <4>2. SegmentEnd(l, array, k - 1) \in 0..(n - 1)
        BY <1>1, <1>2, <4>1
      <4> QED BY <4>1, <4>2
    <3> QED BY <1>4, <1>5, <3>1, <3>2, <3>3, <3>4
  <2>2. c(p) <= k /\ (p \in S => c(p) < k)
    <3>1. CASE k = C
      BY <1>7, <3>1
    <3>2. CASE k # C
      <4>1. p < to /\ to \in S /\ c(to) = k
        BY <1>3, <1>6, <1>9, <3>2
      <4> QED BY <1>8, <4>1
    <3> QED BY <3>1, <3>2
  <2>3. k \in Nat
    BY <1>1 DEF C, S
  <2> QED BY <1>7, <2>1, <2>2, <2>3
<1>10. ASSUME p \notin S, c(p) = k PROVE p \in from..(to - 1)
  <2>1. from <= p
    <3>1. CASE from = 0
      BY <3>1
    <3>2. CASE from - 1 \in S /\ c(from - 1) = k - 1
      <4>1. ASSUME p < from - 1 PROVE FALSE
        <5>1. c(p) <= c(from - 1)
          BY <1>8, <3>2, <4>1
        <5> QED BY <1>7, <1>10, <3>2, <5>1
      <4>2. p # from - 1
        BY <1>10, <3>2
      <4> QED BY <1>6, <4>1, <4>2
    <3> QED BY <1>4, <3>1, <3>2
  <2>2. p < to
    <3>1. CASE k = C
      BY <1>3, <3>1
    <3>2. CASE k # C
      <4>1. to \in S /\ c(to) = k
        BY <1>3, <3>2
      <4>2. ASSUME to < p PROVE FALSE
        <5>1. c(to) < c(p)
          BY <1>8, <4>1, <4>2
        <5> QED BY <1>7, <1>10, <4>1, <5>1
      <4>3. p # to
        BY <1>10, <4>1
      <4> QED BY <1>6, <4>2, <4>3
    <3> QED BY <3>1, <3>2
  <2> QED BY <1>6, <2>1, <2>2
<1> QED BY <1>6, <1>9, <1>10 DEF S, from, to

(* What segment_command makes of the array that is left.                          *)
LEMMA StagesCut ==
  ASSUME IInv, spc = "redirect", Redirecting = {},
         NEW k \in 0..Cardinality(PipesIn(line, separated_commands))
  PROVE  InOrder(segment_command(line, separated_commands)[k], StageOf(line, k))
<1> DEFINE array == separated_commands
           P == PipesIn(line, array)
           O == Operators(line, {PIPE})
           from == SegmentStart(line, array, k)
           to == SegmentEnd(line, array, k)
           s == segment_command(line, array)[k]
<1>0. PICK n : n = End(separated_commands)
  OBVIOUS
<1>1. /\ n \in Nat /\ line \in Seq(Kinds) /\ Len(line) \in Nat
      /\ {array[p] : p \in 0..(n - 1)} = Kept(Len(line) + 1)
      /\ \A p, r \in 0..(n - 1) : p < r => array[p] < array[r]
  BY <1>0, ArrayLeft
<1>2. \A p \in 0..(n - 1) : /\ p \in P <=> array[p] \in O
                            /\ Cardinality(Before(P, p)) = Cardinality(Before(O, array[p]))
  BY <1>0, PipesAre
<1>3. s = [m \in 1..(to - from) |-> array[from + m - 1]]
  BY DEF segment_command
<1>4. \A p \in 0..(n - 1) :
        p \in from..(to - 1) <=> p \notin P /\ Cardinality(Before(P, p)) = k
  BY <1>0, <1>1, SegmentIs
<1>5. from \in Int /\ to \in Int /\ (\A p \in from..(to - 1) : p \in 0..(n - 1))
  <2>1. CASE n = 0
    <3>1. P = {}
      BY <1>0, <2>1 DEF PipesIn
    <3>2. k = 0 /\ Cardinality(P) = 0
      BY <3>1, FS_EmptySet
    <3> HIDE DEF P
    <3>3. from = 0 /\ to = 0
      BY <1>0, <2>1, <3>2 DEF SegmentStart, SegmentEnd, P
    <3> QED BY <3>3
  <2>2. CASE n # 0
    <3>1. 0 \in 0..(n - 1)
      BY <1>1, <2>2
    <3>2. from \in 0..n /\ to \in 0..n
      BY <1>0, <1>1, <3>1, SegmentIs
    <3> QED BY <1>1, <3>2
  <2> QED BY <2>1, <2>2
<1>6. StageOf(line, k) = {t \in Kept(Len(line) + 1) : t \notin O /\ Cardinality(Before(O, t)) = k}
  <2>1. \A t \in 1..Len(line) :
          ~IsFile(line, t) /\ t \notin Operators(line, {INPUT, OUTPUT, PIPE}) <=>
          /\ ~IsFile(line, t) /\ line[t] \notin {INPUT, OUTPUT} /\ t \notin O
    BY <1>1 DEF Operators
  <2>2. \A t : t \in Kept(Len(line) + 1) <=>
                 t \in 1..Len(line) /\ ~IsFile(line, t) /\ line[t] \notin {INPUT, OUTPUT}
    BY <1>1 DEF Kept
  <2>3. DOMAIN line = 1..Len(line)
    BY <1>1
  <2> HIDE DEF O
  <2> QED BY <2>1, <2>2, <2>3 DEF StageOf, O
<1> HIDE DEF P, O, from, to, s
<1>7. \A m \in 1..(to - from) : /\ from + m - 1 \in from..(to - 1) /\ from + m - 1 \in 0..(n - 1)
                                /\ s[m] = array[from + m - 1]
  BY <1>3, <1>5
<1>8. Range(s) = StageOf(line, k)
  <2>1. ASSUME NEW m \in 1..(to - from) PROVE s[m] \in StageOf(line, k)
    <3> DEFINE p == from + m - 1
    <3>1. p \in from..(to - 1) /\ p \in 0..(n - 1) /\ s[m] = array[p]
      BY <1>7
    <3> HIDE DEF p
    <3>2. p \notin P /\ Cardinality(Before(P, p)) = k /\ array[p] \in Kept(Len(line) + 1)
      BY <1>1, <1>4, <3>1
    <3> QED BY <1>2, <1>6, <3>1, <3>2
  <2>2. ASSUME NEW t \in StageOf(line, k) PROVE \E m \in 1..(to - from) : s[m] = t
    <3>1. PICK p \in 0..(n - 1) : array[p] = t
      BY <1>1, <1>6
    <3>2. p \in from..(to - 1)
      BY <1>2, <1>4, <1>6, <3>1
    <3>3. p - from + 1 \in 1..(to - from) /\ from + ((p - from) + 1) - 1 = p
      BY <1>5, <3>2
    <3> QED BY <1>7, <3>1, <3>2, <3>3
  <2>3. DOMAIN s = 1..(to - from)
    BY <1>3
  <2> QED BY <2>1, <2>2, <2>3 DEF Range
<1>9. \A m, r \in DOMAIN s : m < r => s[m] < s[r]
  <2> SUFFICES ASSUME NEW m \in 1..(to - from), NEW r \in 1..(to - from), m < r
               PROVE  s[m] < s[r]
    BY <1>3
  <2> DEFINE p == from + m - 1
             q == from + r - 1
  <2>1. p \in 0..(n - 1) /\ q \in 0..(n - 1) /\ s[m] = array[p] /\ s[r] = array[q]
    BY <1>7
  <2>2. p < q
    BY <1>5
  <2> HIDE DEF p, q
  <2> QED BY <1>1, <2>1, <2>2
<1> QED BY <1>8, <1>9 DEF InOrder, s

(* Nothing but segment_command makes stages, and the line stays until they have   *)
(* all been waited for.                                                           *)
LEMMA StagesKept ==
  ASSUME IInv, StagesAreTheLine, [Next]_vars
  PROVE  StagesAreTheLine'
<1>1. ASSUME UNCHANGED <<line, segments, num_segments>>,
             spc' \in {"pipe", "fork", "wait"} => spc \in {"pipe", "fork", "wait"}
      PROVE  StagesAreTheLine'
  BY <1>1 DEF StagesAreTheLine
<1>2. CASE Segment
  <2> SUFFICES ASSUME spc' = "pipe" PROVE StagesAreTheLine'
    BY <1>2 DEF Segment, StagesAreTheLine
  <2> DEFINE C == Cardinality(PipesIn(line, separated_commands))
  <2>1. /\ spc = "redirect" /\ Redirecting = {} /\ line' = line
        /\ segments' = segment_command(line, separated_commands) /\ num_segments' = C + 1
    BY <1>2 DEF Segment
  <2>2. C = Cardinality(Operators(line, {PIPE})) /\ C \in Nat
    BY <2>1, PipesAre, FS_CardinalityType
  <2>3. DOMAIN segments' = 0..C
    BY <2>1 DEF segment_command
  <2>4. \A k \in 0..C : InOrder(segments'[k], StageOf(line, k))
    BY <2>1, StagesCut
  <2> HIDE DEF C
  <2>5. DOMAIN segments' = 0..(num_segments' - 1)
    BY <2>1, <2>2, <2>3
  <2> QED BY <2>1, <2>2, <2>3, <2>4, <2>5 DEF StagesAreTheLine
<1>3. CASE ReadLine \/ BadRedirection \/ PipeFails \/ Prompt
  BY <1>3 DEF ReadLine, BadRedirection, PipeFails, Prompt, StagesAreTheLine
<1>4. CASE Redirection
  BY <1>4 DEF Redirection, StagesAreTheLine
<1>5. CASE MakePipe \/ PipesMade \/ ForkStage \/ CloseAll \/ Wait
  BY <1>1, <1>5 DEF MakePipe, PipesMade, ForkStage, CloseAll, Wait, tokens
<1>6. ASSUME NEW i \in Stages, Keeps(i) \/ EndsEarly(i) PROVE StagesAreTheLine'
  <2>1. UNCHANGED shell
    BY <1>6 DEF Keeps, EndsEarly, CloseUnrelated, SetStdin, SetStdout, At, Produce, Read, SeesEnd,
                Write, BrokenPipe, Finishes, ExecFails
  <2> QED BY <1>1, <2>1 DEF shell, tokens
<1>7. CASE UNCHANGED vars
  BY <1>1, <1>7 DEF vars, shell, tokens
<1> QED BY <1>2, <1>3, <1>4, <1>5, <1>6, <1>7 DEF Next, Executes

(* Each stage is executed with its own tokens of the line, in their order.        *)
THEOREM StagesAreTheLineHolds == Spec => []StagesAreTheLine
<1>1. Init => StagesAreTheLine
  BY DEF Init, StagesAreTheLine
<1>2. IInv /\ StagesAreTheLine /\ [Next]_vars => StagesAreTheLine'
  BY StagesKept
<1> QED BY <1>1, <1>2, Invariance, PTL DEF Spec
================================================================================
