-------------------------------- MODULE Pipeline ---------------------------------
(* execute_command of Shell-structure/nyush.c, its tokens and file descriptors:   *)
(* the shell opens the files of the redirections, makes a pipe between each two   *)
(* stages, forks the stages, closes its ends and waits; each child puts its own   *)
(* ends in place of standard input and output and closes the others.              *)
(*                                                                                *)
(* Descriptors are the small numbers the kernel hands out, lowest first.  The     *)
(* programs (external) read a unit from a pipe and write it to the next until     *)
(* they see the end of file, or end early.  Nothing stops here: see Nyush.        *)
(* OnePerStage, KeepWriteEnds, OwnReadClosed, OwnWriteClosed and StdinKept are    *)
(* deliberately wrong versions of the definitions they precede (PROJECT.json,     *)
(* "mutants").                                                                    *)
EXTENDS CommandLine

CONSTANTS Lines,       \* the lines a user may type, sequences of kinds
          MaxStages,   \* bound: longest pipeline
          MaxFds,      \* length of a process's descriptor table
          Capacity,    \* units a pipe holds
          Units,       \* bound: units the first program writes
          MaxLines     \* bound: lines executed

ASSUME SizesAssumption ==
  /\ MaxStages \in Nat \ {0} /\ MaxFds \in Nat /\ MaxFds > 3
  /\ Capacity \in Nat \ {0} /\ Units \in Nat /\ MaxLines \in Nat

(* No line is blank (see Nyush), or has more stages than the bound.               *)
ASSUME LinesAssumption ==
  \A l \in Lines : /\ l \in Seq(Kinds) /\ l # <<>>
                   /\ Cardinality({k \in DOMAIN l : l[k] = PIPE}) < MaxStages

Stages == 0..(MaxStages - 1)
Fds    == 0..(MaxFds - 1)

(* What a descriptor refers to: pipe j joins stages j and j + 1, a file is that   *)
(* of token j.                                                                    *)
Desc(kind, j) == [kind |-> kind, pipe |-> j]
Closed == Desc("closed", 0)
Tty    == Desc("tty", 0)

VARIABLES
  spc,             \* the shell: "prompt", "redirect", "pipe", "fork", "wait",
                   \* "exited", or "undefined" once it has left the token array
  line, separated_commands, segments,   \* the line, its token array and stages
  fds,             \* its descriptors
  num_segments, pipes,   \* the pipes' descriptors, a sequence of [r, w]
  fd_in, fd_out,   \* the redirections' descriptors, -1 if there is none or open failed
  next,            \* loop index i of the fork loop, and of the wait loop
  child,           \* of each stage: where it is, and its descriptors
  buffer,          \* units in each pipe
  held, put, got,  \* of each stage: a unit read and not written yet, units written and read
  eof,             \* stages that have seen the end of their input
  broken,          \* history: stages that wrote to a pipe without a reader
  lines

tokens   == <<line, separated_commands, segments>>
shell    == <<spc, tokens, fds, num_segments, pipes, fd_in, fd_out, next, lines>>
programs == <<buffer, held, put, got, eof, broken>>
vars     == <<shell, child, programs>>

NoChild == [at |-> "none", fds |-> [f \in Fds |-> Closed]]
Zero    == [i \in Stages |-> 0]

Init ==
  /\ spc = "prompt" /\ fds = [f \in Fds |-> IF f < 3 THEN Tty ELSE Closed]
  /\ line = <<>> /\ separated_commands = separate_input(<<>>) /\ segments = <<>>
  /\ num_segments = 1 /\ pipes = <<>> /\ fd_in = -1 /\ fd_out = -1 /\ next = 0
  /\ child = [i \in Stages |-> NoChild]
  /\ buffer = Zero /\ held = Zero /\ put = Zero /\ got = Zero /\ eof = {} /\ broken = {}
  /\ lines = 0

--------------------------------------------------------------------------------
(* The shell.                                                                     *)

Free(t)        == {f \in Fds : t[f] = Closed}
Opened(t, d)   == [t EXCEPT ![Min(Free(t))] = d]

(* input_redirection and output_redirection: the lowest free descriptor, or -1    *)
(* when there is none or the file cannot be opened.                               *)
OpenFile(t, d) ==
  {[fds |-> t, fd |-> -1]}
  \union IF Free(t) = {} THEN {} ELSE {[fds |-> Opened(t, d), fd |-> Min(Free(t))]}

(* main: the next line.  A built-in command is done at once (see Nyush).          *)
ReadLine ==
  /\ spc = "prompt" /\ lines < MaxLines /\ lines' = lines + 1
  /\ line' \in Lines
  /\ IF Overruns(line')
     THEN spc' = "undefined" /\ UNCHANGED separated_commands
     ELSE /\ separated_commands' = separate_input(line')
          /\ spc' = IF IsBuildin(line') THEN "prompt" ELSE "redirect"
  /\ segments' = <<>> /\ fd_in' = -1 /\ fd_out' = -1 /\ pipes' = <<>> /\ next' = 0
  /\ child' = [i \in Stages |-> NoChild]
  /\ buffer' = Zero /\ held' = Zero /\ put' = Zero /\ got' = Zero /\ eof' = {} /\ broken' = {}
  /\ UNCHANGED <<fds, num_segments>>

Redirecting == Redirections(line, separated_commands)

(* No file behind a redirection, or none of that name to read: the line is given  *)
(* up, and what has been opened for it stays open.                                *)
BadRedirection ==
  /\ spc = "redirect" /\ Redirecting # {}
  /\ LET i == Min(Redirecting)
     IN  \/ separated_commands[i + 1] = NULL
         \/ line[separated_commands[i]] = INPUT
  /\ spc' = "prompt"
  /\ UNCHANGED <<tokens, fds, num_segments, pipes, fd_in, fd_out, next, lines, child, programs>>

(* check_redirection, of the first redirection left.  A failed open is only noted *)
(* in the status: the command goes on without the redirection.                    *)
Redirection ==
  /\ spc = "redirect" /\ Redirecting # {}
  /\ LET i    == Min(Redirecting)
         file == separated_commands[i + 1]
     IN  /\ file # NULL
         /\ IF line[separated_commands[i]] = INPUT
            THEN \E r \in OpenFile(fds, Desc("in", file)) :
                   fds' = r.fds /\ fd_in' = r.fd /\ UNCHANGED fd_out
            ELSE \E r \in OpenFile(fds, Desc("out", file)) :
                   fds' = r.fds /\ fd_out' = r.fd /\ UNCHANGED fd_in
         /\ IF ReadsBehind(separated_commands)
            THEN spc' = "undefined" /\ UNCHANGED separated_commands
            ELSE separated_commands' = Removed(separated_commands, i) /\ UNCHANGED spc
  /\ UNCHANGED <<line, segments, num_segments, pipes, next, lines, child, programs>>

(* segment_command, and back to the prompt if a pipe is misplaced.                *)
Segment ==
  /\ spc = "redirect" /\ Redirecting = {}
  /\ IF End(separated_commands) = MAX_ARGS
     THEN spc' = "undefined" /\ UNCHANGED <<segments, num_segments>>
     ELSE IF PipeMisplaced(line, separated_commands)
     THEN spc' = "prompt" /\ UNCHANGED <<segments, num_segments>>
     ELSE /\ spc' = "pipe"
          /\ segments' = segment_command(line, separated_commands)
          /\ num_segments' = Cardinality(PipesIn(line, separated_commands)) + 1
  /\ UNCHANGED <<line, separated_commands, fds, pipes, fd_in, fd_out, next, lines, child, programs>>

OnePerStage == num_segments

PipesWanted == num_segments - 1

MakePipe ==
  /\ spc = "pipe" /\ Len(pipes) < PipesWanted /\ Cardinality(Free(fds)) >= 2
  /\ LET j == Len(pipes)
         one == Opened(fds, Desc("read", j))
     IN  /\ fds' = Opened(one, Desc("write", j))
         /\ pipes' = Append(pipes, [r |-> Min(Free(fds)), w |-> Min(Free(one))])
  /\ UNCHANGED <<spc, tokens, num_segments, fd_in, fd_out, next, lines, child, programs>>

(* pipe() has no descriptors left: the shell exits.                               *)
PipeFails ==
  /\ spc = "pipe" /\ Len(pipes) < PipesWanted /\ Cardinality(Free(fds)) < 2
  /\ spc' = "exited" /\ fds' = [f \in Fds |-> Closed]
  /\ UNCHANGED <<tokens, num_segments, pipes, fd_in, fd_out, next, lines, child, programs>>

PipesMade ==
  /\ spc = "pipe" /\ Len(pipes) = PipesWanted /\ spc' = "fork"
  /\ UNCHANGED <<tokens, fds, num_segments, pipes, fd_in, fd_out, next, lines, child, programs>>

ForkStage ==
  /\ spc = "fork" /\ next < num_segments
  /\ child' = [child EXCEPT ![next] = [at |-> "forked", fds |-> fds]]
  /\ next' = next + 1
  /\ UNCHANGED <<spc, tokens, fds, num_segments, pipes, fd_in, fd_out, lines, programs>>

KeepWriteEnds == {pipes[j].r : j \in DOMAIN pipes}

PipeEnds == {pipes[j].r : j \in DOMAIN pipes} \union {pipes[j].w : j \in DOMAIN pipes}

Without(t, closed) == [f \in Fds |-> IF f \in closed THEN Closed ELSE t[f]]

CloseAll ==
  /\ spc = "fork" /\ next = num_segments
  /\ fds' = Without(fds, PipeEnds) /\ spc' = "wait" /\ next' = 0
  /\ UNCHANGED <<tokens, num_segments, pipes, fd_in, fd_out, lines, child, programs>>

Wait ==
  /\ spc = "wait" /\ next < num_segments /\ child[next].at = "ended"
  /\ next' = next + 1
  /\ UNCHANGED <<spc, tokens, fds, num_segments, pipes, fd_in, fd_out, lines, child, programs>>

Prompt ==
  /\ spc = "wait" /\ next = num_segments /\ spc' = "prompt"
  /\ UNCHANGED <<tokens, fds, num_segments, pipes, fd_in, fd_out, next, lines, child, programs>>

--------------------------------------------------------------------------------
(* A child before exec.  pipes[j + 1] is fds[j] of the code.                      *)

At(i, here, there, t) ==
  /\ child[i].at = here
  /\ child' = [child EXCEPT ![i] = [at |-> there, fds |-> t]]
  /\ UNCHANGED <<shell, programs>>

OwnReadClosed(i) ==
  {pipes[j].r : j \in DOMAIN pipes \ {i + 1}} \union {pipes[j].w : j \in DOMAIN pipes \ {i + 1}}

OwnWriteClosed(i) ==
  {pipes[j].r : j \in DOMAIN pipes \ {i}} \union {pipes[j].w : j \in DOMAIN pipes \ {i}}

Unrelated(i) ==
  {pipes[j].r : j \in DOMAIN pipes \ {i}} \union {pipes[j].w : j \in DOMAIN pipes \ {i + 1}}

CloseUnrelated(i) == At(i, "forked", "stdin", Without(child[i].fds, Unrelated(i)))

Dup2(t, old, new) == [t EXCEPT ![new] = t[old]]

StdinKept(i, t) == t

Stdin(i, t) ==
  IF i > 0 THEN Without(Dup2(t, pipes[i].r, 0), {pipes[i].w, pipes[i].r})
  ELSE IF fd_in # -1 THEN Without(Dup2(t, fd_in, 0), {fd_in}) ELSE t

Stdout(i, t) ==
  IF i < num_segments - 1 THEN Without(Dup2(t, pipes[i + 1].w, 1), {pipes[i + 1].r, pipes[i + 1].w})
  ELSE IF fd_out # -1 THEN Without(Dup2(t, fd_out, 1), {fd_out}) ELSE t

SetStdin(i)  == At(i, "stdin", "stdout", Stdin(i, child[i].fds))
SetStdout(i) == At(i, "stdout", "run", Stdout(i, child[i].fds))

--------------------------------------------------------------------------------
(* The programs.                                                                  *)

HasOpen(t, d)  == \E f \in Fds : t[f] = d
SomeoneHas(d)  == HasOpen(fds, d) \/ \E i \in Stages : HasOpen(child[i].fds, d)
In(i)  == child[i].fds[0]
Out(i) == child[i].fds[1]
FromPipe(i) == In(i).kind = "read"

(* A stage without tokens has no program: execvp fails.                           *)
Running(i) == child[i].at = "run" /\ segments[i] # <<>>

(* The first program makes its units up, or finds them in its input.              *)
Produce(i) ==
  /\ Running(i) /\ ~FromPipe(i) /\ held[i] = 0 /\ got[i] < Units
  /\ held' = [held EXCEPT ![i] = 1] /\ got' = [got EXCEPT ![i] = @ + 1]
  /\ UNCHANGED <<shell, child, buffer, put, eof, broken>>

Read(i) ==
  /\ Running(i) /\ FromPipe(i) /\ held[i] = 0 /\ buffer[In(i).pipe] > 0
  /\ buffer' = [buffer EXCEPT ![In(i).pipe] = @ - 1]
  /\ held' = [held EXCEPT ![i] = 1] /\ got' = [got EXCEPT ![i] = @ + 1]
  /\ UNCHANGED <<shell, child, put, eof, broken>>

SeesEnd(i) ==
  /\ Running(i) /\ held[i] = 0 /\ i \notin eof
  /\ IF FromPipe(i) THEN buffer[In(i).pipe] = 0 /\ ~SomeoneHas(Desc("write", In(i).pipe))
                    ELSE got[i] = Units
  /\ eof' = eof \union {i}
  /\ UNCHANGED <<shell, child, buffer, held, put, got, broken>>

Write(i) ==
  /\ Running(i) /\ held[i] = 1
  /\ IF Out(i).kind = "write"
     THEN /\ SomeoneHas(Desc("read", Out(i).pipe)) /\ buffer[Out(i).pipe] < Capacity
          /\ buffer' = [buffer EXCEPT ![Out(i).pipe] = @ + 1]
     ELSE UNCHANGED buffer
  /\ held' = [held EXCEPT ![i] = 0] /\ put' = [put EXCEPT ![i] = @ + 1]
  /\ UNCHANGED <<shell, child, got, eof, broken>>

Ended(i) == child' = [child EXCEPT ![i] = [NoChild EXCEPT !.at = "ended"]]

(* SIGPIPE.                                                                       *)
BrokenPipe(i) ==
  /\ Running(i) /\ held[i] = 1
  /\ Out(i).kind = "write" /\ ~SomeoneHas(Desc("read", Out(i).pipe))
  /\ broken' = broken \union {i} /\ Ended(i)
  /\ UNCHANGED <<shell, buffer, held, put, got, eof>>

Finishes(i) ==
  /\ Running(i) /\ i \in eof /\ Ended(i)
  /\ UNCHANGED <<shell, programs>>

ExecFails(i) ==
  /\ child[i].at = "run" /\ segments[i] = <<>> /\ Ended(i)
  /\ UNCHANGED <<shell, programs>>

(* It has read enough, or there is no such program.                               *)
EndsEarly(i) ==
  /\ Running(i) /\ i \notin eof /\ Ended(i)
  /\ UNCHANGED <<shell, programs>>

Keeps(i) == \/ CloseUnrelated(i) \/ SetStdin(i) \/ SetStdout(i) \/ Produce(i) \/ Read(i)
            \/ SeesEnd(i) \/ Write(i) \/ BrokenPipe(i) \/ Finishes(i) \/ ExecFails(i)

Executes == BadRedirection \/ Redirection \/ Segment
            \/ MakePipe \/ PipeFails \/ PipesMade \/ ForkStage \/ CloseAll \/ Wait \/ Prompt

Next ==
  \/ ReadLine \/ Executes
  \/ \E i \in Stages : Keeps(i) \/ EndsEarly(i)

Spec == Init /\ [][Next]_vars

(* The shell and every program that can go on does; nobody has to end early, or   *)
(* to type a line.                                                                *)
FairSpec == Spec /\ WF_vars(Executes) /\ \A i \in Stages : WF_vars(Keeps(i))

--------------------------------------------------------------------------------

Descs  == {Closed, Tty}
          \union {Desc(k, j) : k \in {"in", "out"}, j \in 1..MAX_ARGS}
          \union {Desc(k, j) : k \in {"read", "write"}, j \in Stages}
Tables == [Fds -> Descs]

TypeOK ==
  /\ spc \in {"prompt", "redirect", "pipe", "fork", "wait", "exited", "undefined"}
  /\ separated_commands \in [Cells -> (1..MAX_ARGS) \union {NULL, GARBAGE}] /\ fds \in Tables
  /\ num_segments \in 1..MaxStages /\ next \in 0..num_segments /\ Len(pipes) < num_segments
  /\ fd_in \in Fds \union {-1} /\ fd_out \in Fds \union {-1}
  /\ \A i \in Stages : child[i].fds \in Tables /\ held[i] \in 0..1 /\ buffer[i] \in 0..Capacity
  /\ \A i \in Stages : put[i] <= got[i] /\ got[i] <= Units

PipeKinds == {"read", "write"}

(* The files of the line's redirections of a kind: its last one counts where the  *)
(* redirections stand at the ends of the pipeline and it could be opened.         *)
FilesOf(op) == {k + 1 : k \in Operators(line, {op})}

Redirected(d, kind, op, fd) ==
  /\ d \in {Tty} \union {Desc(kind, f) : f \in FilesOf(op)}
  /\ AtTheEnds(line) /\ fd # -1 => d = Desc(kind, Max(FilesOf(op)))

(* A program starts with exactly its own ends: standard input from the stage      *)
(* before it, standard output to the stage behind it, and no other end of any     *)
(* pipe; at the ends of the pipeline the terminal or a file of the line's own     *)
(* redirections of that kind, the last of them if they stand at the ends and it   *)
(* could be opened.  No more is claimed where the code does not do what its       *)
(* comments say: a redirection that stands elsewhere (nyush.c:419 and 431, "in    *)
(* first program" and "in last program") applies to the end of the pipeline all   *)
(* the same, and a failed one does not lead "out of the command execution" (377): *)
(* the program runs, on the terminal.                                             *)
OnlyOwnEnds ==
  \A i \in Stages : Running(i) =>
    /\ IF i > 0 THEN In(i) = Desc("read", i - 1)
                ELSE Redirected(In(i), "in", INPUT, fd_in)
    /\ IF i < num_segments - 1 THEN Out(i) = Desc("write", i)
                               ELSE Redirected(Out(i), "out", OUTPUT, fd_out)
    /\ \A f \in Fds \ {0, 1} : child[i].fds[f].kind \notin PipeKinds

(* End of file means it: a stage sees it only when the stage before has ended and *)
(* everything that one wrote has been read, although the stages start at          *)
(* different times.                                                               *)
NoEarlyEof ==
  \A i \in eof : i > 0 => child[i - 1].at = "ended" /\ got[i] = put[i - 1]

(* A program is killed for writing to a pipe only if its reader has ended, and    *)
(* not because the reader has not started yet.                                    *)
NoEarlyBrokenPipe == \A i \in broken : child[i + 1].at = "ended"

(* A pipeline ends when its programs go on until the end of their input: no one   *)
(* waits for a writer that is the waiting process, the shell or a sibling.        *)
PipelineEnds == spc \in {"fork", "wait"} ~> spc = "prompt"

(* The stages are executed with the tokens of the line, each in its place, except *)
(* redirections and their files, however many of those were removed from the      *)
(* array before it was cut.                                                       *)
StagesAreTheLine ==
  spc \in {"pipe", "fork", "wait"} =>
    /\ num_segments = Cardinality(Operators(line, {PIPE})) + 1
    /\ DOMAIN segments = 0..(num_segments - 1)
    /\ \A i \in DOMAIN segments : InOrder(segments[i], StageOf(line, i))

(* Only lines too long for the array, or filling it, lead out of it, although     *)
(* what the removals leave behind the NULL was never assigned.                    *)
ArrayBounds == spc = "undefined" => Len(line) >= MAX_ARGS - 1

(* nyush.c:450: the parent is to "close all file descriptors": behind a command it*)
(* has carried out, with a program in every stage, none is open.                  *)
AllClosedAtPrompt ==
  [][Prompt /\ (\A i \in DOMAIN segments : segments[i] # <<>>)
       => \A f \in Fds : f > 2 => fds'[f] = Closed]_vars
================================================================================
