---------------------------------- MODULE Nyush ----------------------------------
(* Job control of Shell-structure/nyush.c: the shell forks the stages of a        *)
(* command, waits for each until it ends or stops, keeps the stopped ones in the  *)
(* table of jobs, and resumes them with fg.                                       *)
(*                                                                                *)
(* The kernel's side (external to the code) is the table of child processes and   *)
(* the terminal: all children share the shell's process group, so Ctrl-C and      *)
(* Ctrl-Z reach all of them, stopped jobs included.  The shell itself handles     *)
(* both with an empty handler installed by signal(), which restarts getline() and *)
(* waitpid(): they do not appear in it.  Programs take the default action.        *)
(* ContinueForgotten, remove_jobShort, AddedFirst, TableFullOffByOne,             *)
(* ExitAllowedAnyway, NextStageNever and FgCommandNoCopy are deliberately wrong   *)
(* versions of the definitions they precede (PROJECT.json, "mutants").            *)
EXTENDS Naturals, Sequences, SequencesExt

CONSTANTS Pids,        \* process ids; an id is free again once it has been reaped
          Commands,    \* command lines
          LongCommands,\* those of MAX_INPUT_LENGTH bytes or more: getline takes any
          MaxStages,   \* bound: longest pipeline
          MAX_JOBS,    \* length of the table of jobs
          NULL

ASSUME BoundsAssumption == /\ MaxStages \in Nat \ {0} /\ MAX_JOBS \in Nat
                           /\ LongCommands \subseteq Commands

VARIABLES
  proc,        \* of each pid: "none", "fork", "half", "run", "stopped", "zombie"
  interrupted, \* stopped processes with a SIGINT pending
  reported,    \* stopped processes whose stop waitpid has returned
  cmdOf,       \* history: the command a process was forked for
  partners,    \* the other processes of its pipeline, connected with it by pipes
  spc,         \* the shell: "prompt", "read", "fork", "wait", "fg" or "exited"
  why,         \* how it exited
  cwd,         \* its working directory: "there", or "gone" once it has been removed
  cmd, pids, stages, stage,   \* execute_command: input_copy, pids, num_segments, i
  jobs,        \* jobs[0 .. job_count - 1]
  fg           \* buildin_fg: pid and copied command

kernel  == <<proc, interrupted, reported, cmdOf, partners>>
command == <<cmd, pids, stages, stage>>
shell   == <<spc, why, cwd, command, jobs, fg>>
vars    == <<kernel, shell>>

Init ==
  /\ proc = [p \in Pids |-> "none"] /\ interrupted = {} /\ reported = {}
  /\ cmdOf = [p \in Pids |-> NULL] /\ partners = [p \in Pids |-> {}]
  /\ spc = "prompt" /\ why = NULL /\ cwd = "there"
  /\ cmd = NULL /\ pids = <<>> /\ stages = 0 /\ stage = 0
  /\ jobs = <<>> /\ fg = NULL

--------------------------------------------------------------------------------
(* The children, and what the terminal and other programs do to them.             *)

Alive(p) == proc[p] \notin {"none", "zombie"}

Dies(p) ==
  /\ proc' = [proc EXCEPT ![p] = "zombie"]
  /\ interrupted' = interrupted \ {p} /\ reported' = reported \ {p}

(* A new child resets SIGINT (and SIGQUIT), then SIGTSTP, to the default: until   *)
(* then it runs with the shell's empty handler.                                   *)
ResetSignals(p) ==
  /\ spc # "exited"
  /\ \/ proc[p] = "fork" /\ proc' = [proc EXCEPT ![p] = "half"]
     \/ proc[p] = "half" /\ proc' = [proc EXCEPT ![p] = "run"]
  /\ UNCHANGED <<interrupted, reported, cmdOf, partners, shell>>

(* The program ends, or execvp has failed.                                        *)
Ends(p) ==
  /\ spc # "exited" /\ proc[p] = "run" /\ Dies(p)
  /\ UNCHANGED <<cmdOf, partners, shell>>

(* The program stops itself.                                                      *)
StopsItself(p) ==
  /\ spc # "exited" /\ proc[p] = "run"
  /\ proc' = [proc EXCEPT ![p] = "stopped"]
  /\ UNCHANGED <<interrupted, reported, cmdOf, partners, shell>>

(* SIGKILL from another program (kill -9).                                        *)
Killed(p) ==
  /\ spc # "exited" /\ Alive(p) /\ Dies(p)
  /\ UNCHANGED <<cmdOf, partners, shell>>

ContinueForgotten(p) == UNCHANGED <<proc, interrupted, reported>>

(* SIGCONT: a stopped process goes on, or takes the SIGINT it has pending.        *)
Continue(p) ==
  IF proc[p] # "stopped" THEN UNCHANGED <<proc, interrupted, reported>>
  ELSE IF p \in interrupted THEN Dies(p)
  ELSE /\ proc' = [proc EXCEPT ![p] = "run"]
       /\ reported' = reported \ {p} /\ UNCHANGED interrupted

(* SIGCONT from another program (kill -CONT) to a job.                            *)
Continued(p) ==
  /\ spc # "exited" /\ proc[p] = "stopped" /\ Continue(p)
  /\ UNCHANGED <<cmdOf, partners, shell>>

(* SIGINT to the process group: deadly at the default action, lost on a child     *)
(* that has still the shell's handler, pending on a stopped one.                  *)
CtrlC ==
  LET dead == {p \in Pids : proc[p] \in {"half", "run"}}
  IN  /\ spc # "exited"
      /\ proc' = [p \in Pids |-> IF p \in dead THEN "zombie" ELSE proc[p]]
      /\ interrupted' = interrupted \union {p \in Pids : proc[p] = "stopped"}
      /\ UNCHANGED <<reported, cmdOf, partners, shell>>

(* SIGTSTP to the process group.                                                  *)
CtrlZ ==
  /\ spc # "exited"
  /\ proc' = [p \in Pids |-> IF proc[p] = "run" THEN "stopped" ELSE proc[p]]
  /\ UNCHANGED <<interrupted, reported, cmdOf, partners, shell>>

--------------------------------------------------------------------------------
(* The table of jobs.                                                             *)

(* A text in memory: the line it comes from, and where a reader of it finds the   *)
(* end: after the "whole" line; nowhere in the array that holds it, the line being*)
(* "cut" there; or in the "pid" that follows the array, whose last byte is zero.  *)
Text == [line : Commands, end : {"whole", "cut", "pid"}]
Whole(c) == [line |-> c, end |-> "whole"]

(* strncpy to command[MAX_INPUT_LENGTH]: a long text fills it without a zero byte.*)
strncpy(t) == IF t.line \in LongCommands THEN [t EXCEPT !.end = "cut"] ELSE t

(* strdup reads on into the pid of the job where the array has no end.            *)
strdup(t) == IF t.end = "cut" THEN [t EXCEPT !.end = "pid"] ELSE t

IndexOf(p) == CHOOSE n \in DOMAIN jobs :
                jobs[n].pid = p /\ \A m \in 1 .. n - 1 : jobs[m].pid # p

Listed(p) == \E n \in DOMAIN jobs : jobs[n].pid = p

remove_jobShort(p) ==
  IF Listed(p) /\ IndexOf(p) < Len(jobs) - 1 THEN RemoveAt(jobs, IndexOf(p))
  ELSE IF Listed(p) THEN SubSeq(jobs, 1, Len(jobs) - 1) ELSE jobs

(* remove_job: the later jobs move up by one.                                     *)
remove_job(p) == IF Listed(p) THEN RemoveAt(jobs, IndexOf(p)) ELSE jobs

AddedFirst(js, p, t) ==
  <<[pid |-> p, command |-> strncpy(t), index |-> Len(js) + 1]>> \o js

TableFullOffByOne == Len(jobs) > MAX_JOBS
TableFull == Len(jobs) >= MAX_JOBS

(* add_job, when there is room.                                                   *)
Added(js, p, t) ==
  Append(js, [pid |-> p, command |-> strncpy(t), index |-> Len(js) + 1])

Exit(reason) == spc' = "exited" /\ why' = reason

--------------------------------------------------------------------------------
(* The shell.                                                                     *)

(* print_prompt: without a working directory getcwd fails and the shell exits.    *)
PrintPrompt ==
  /\ spc = "prompt"
  /\ IF cwd = "gone" THEN Exit("getcwd") ELSE spc' = "read" /\ UNCHANGED why
  /\ UNCHANGED <<kernel, cwd, command, jobs, fg>>

(* Another program removes the working directory.                                 *)
DirectoryRemoved ==
  /\ spc # "exited" /\ cwd = "there" /\ cwd' = "gone"
  /\ UNCHANGED <<kernel, spc, why, command, jobs, fg>>

(* End of input: read_input exits without a look at the jobs.                     *)
EndOfInput ==
  /\ spc = "read" /\ Exit("eof")
  /\ UNCHANGED <<kernel, cwd, command, jobs, fg>>

NoEffect == spc = "read" /\ spc' = "prompt" /\ UNCHANGED <<kernel, why, command, jobs, fg>>

BlankLine == NoEffect /\ UNCHANGED cwd

(* buildin_cd to a directory that exists; otherwise an error message.             *)
BuildinCd == NoEffect /\ cwd' \in {"there", cwd}

(* buildin_jobs prints the table.                                                 *)
BuildinJobs == NoEffect /\ UNCHANGED cwd

ExitAllowedAnyway == TRUE

(* buildin_exit, when it is not refused.                                          *)
ExitAllowed == jobs = <<>>

BuildinExit ==
  /\ spc = "read" /\ ExitAllowed /\ Exit("exit")
  /\ UNCHANGED <<kernel, cwd, command, jobs, fg>>

ExitRefused == ~ExitAllowed /\ NoEffect /\ UNCHANGED cwd

(* buildin_fg without a valid number of a job.                                    *)
NoSuchJob == NoEffect /\ UNCHANGED cwd

(* execute_command gives a malformed line up: see Pipeline.                       *)
Malformed == NoEffect /\ UNCHANGED cwd

(* execute_command of a line that is no builtin, with its pipes created.          *)
StartCommand ==
  /\ spc = "read"
  /\ \E c \in Commands, n \in 1..MaxStages :
       cmd' = c /\ stages' = n /\ pids' = <<>> /\ stage' = 0
  /\ spc' = "fork"
  /\ UNCHANGED <<kernel, why, cwd, jobs, fg>>

(* pipe() or fork() fails: exit, whatever has been forked.                        *)
ForkFails ==
  /\ spc = "fork" /\ Exit("failed")
  /\ UNCHANGED <<kernel, cwd, command, jobs, fg>>

(* fork() of the next stage; after the last one wait for the first.               *)
Fork ==
  /\ spc = "fork"
  /\ \E p \in Pids :
       /\ proc[p] = "none"
       /\ proc' = [proc EXCEPT ![p] = "fork"] /\ cmdOf' = [cmdOf EXCEPT ![p] = cmd]
       /\ partners' = [q \in Pids |-> IF q = p THEN ToSet(pids)
                                      ELSE IF q \in ToSet(pids) THEN partners[q] \union {p}
                                      ELSE partners[q]]
       /\ pids' = Append(pids, p)
  /\ IF Len(pids) + 1 = stages THEN spc' = "wait" /\ stage' = 1
                               ELSE UNCHANGED <<spc, stage>>
  /\ UNCHANGED <<interrupted, reported, why, cwd, cmd, stages, jobs, fg>>

(* waitpid(p, &status, WUNTRACED) returns an end (and reaps p) or a new stop.     *)
(* That p is a child when it is called is JobsAreUnreaped below.                  *)
WaitedEnd(p) ==
  /\ proc[p] = "zombie"
  /\ proc' = [proc EXCEPT ![p] = "none"] /\ cmdOf' = [cmdOf EXCEPT ![p] = NULL]
  /\ partners' = [q \in Pids |-> IF q = p THEN {} ELSE partners[q] \ {p}]
  /\ UNCHANGED <<interrupted, reported>>

WaitedStop(p) ==
  /\ proc[p] = "stopped" /\ p \notin reported
  /\ reported' = reported \union {p}
  /\ UNCHANGED <<proc, interrupted, cmdOf, partners>>

NextStageNever ==
  /\ stage' = stage + 1
  /\ spc' = "prompt"
  /\ UNCHANGED why

(* On to the next stage, or back to the prompt.                                   *)
NextStage ==
  /\ stage' = stage + 1
  /\ spc' = IF stage = stages THEN "prompt" ELSE "wait"
  /\ UNCHANGED why

StageEnded ==
  /\ spc = "wait"
  /\ WaitedEnd(pids[stage]) /\ NextStage
  /\ UNCHANGED <<cwd, cmd, pids, stages, jobs, fg>>

(* A stage has stopped: add_job with the whole command line.                      *)
StageStopped ==
  /\ spc = "wait" /\ ~TableFull
  /\ WaitedStop(pids[stage])
  /\ jobs' = Added(jobs, pids[stage], Whole(cmd))
  /\ NextStage
  /\ UNCHANGED <<cwd, cmd, pids, stages, fg>>

(* add_job finds the table full and exits.                                        *)
TooManyJobs ==
  /\ spc = "wait" /\ TableFull
  /\ WaitedStop(pids[stage])
  /\ Exit("jobs_full")
  /\ UNCHANGED <<cwd, command, jobs, fg>>

(* buildin_fg up to kill(pid, SIGCONT).                                           *)
Fg ==
  /\ spc = "read"
  /\ \E n \in DOMAIN jobs :
       /\ fg' = [pid |-> jobs[n].pid, command |-> strdup(jobs[n].command)]
       /\ Continue(jobs[n].pid)
  /\ spc' = "fg"
  /\ UNCHANGED <<cmdOf, partners, why, cwd, command, jobs>>

FgEnded ==
  /\ spc = "fg"
  /\ WaitedEnd(fg.pid)
  /\ jobs' = remove_job(fg.pid)
  /\ spc' = "prompt" /\ fg' = NULL
  /\ UNCHANGED <<why, cwd, command>>

(* The command fg adds again: the copy made before remove_job.                    *)
FgCommandNoCopy == LET js == remove_job(fg.pid)
                   IN  IF IndexOf(fg.pid) \in DOMAIN js THEN js[IndexOf(fg.pid)].command
                                                       ELSE fg.command
FgCommand == fg.command

(* Stopped again: to the end of the table.                                        *)
FgStopped ==
  /\ spc = "fg"
  /\ WaitedStop(fg.pid)
  /\ jobs' = Added(remove_job(fg.pid), fg.pid, FgCommand)
  /\ spc' = "prompt" /\ fg' = NULL
  /\ UNCHANGED <<why, cwd, command>>

--------------------------------------------------------------------------------
Shell == \/ PrintPrompt \/ EndOfInput \/ BlankLine
         \/ BuildinCd \/ BuildinJobs \/ BuildinExit \/ ExitRefused \/ NoSuchJob
         \/ Malformed \/ StartCommand \/ ForkFails \/ Fork
         \/ StageEnded \/ StageStopped \/ TooManyJobs
         \/ Fg \/ FgEnded \/ FgStopped

Child(p) == ResetSignals(p) \/ Ends(p) \/ StopsItself(p) \/ Killed(p) \/ Continued(p)

Terminated == spc = "exited" /\ UNCHANGED vars

Next == Shell \/ (\E p \in Pids : Child(p)) \/ CtrlC \/ CtrlZ \/ DirectoryRemoved
        \/ Terminated

Spec == Init /\ [][Next]_vars

(* Children and the shell are scheduled, fork fails when no process id is left,   *)
(* and a program ends that is left to run, unless it is blocked: a stage of a     *)
(* pipeline may read from or write to a process that is stopped, for as long as   *)
(* that is so.  Nothing is assumed of the user's lines and keys.                  *)
CanEnd(p) == \A q \in partners[p] : proc[q] # "stopped"

Waiting == \/ PrintPrompt \/ Fork \/ StageEnded \/ StageStopped \/ TooManyJobs
           \/ FgEnded \/ FgStopped
           \/ ForkFails /\ \A p \in Pids : proc[p] # "none"
Fairness == /\ WF_vars(Waiting)
            /\ \A p \in Pids : WF_vars(ResetSignals(p)) /\ WF_vars(Ends(p) /\ CanEnd(p))

FairSpec == Spec /\ Fairness

--------------------------------------------------------------------------------
(* Properties.                                                                    *)

(* The types of the variables.                                                    *)
TypeOK ==
  /\ proc \in [Pids -> {"none", "fork", "half", "run", "stopped", "zombie"}]
  /\ interrupted \subseteq Pids /\ reported \subseteq Pids
  /\ cmdOf \in [Pids -> Commands \union {NULL}] /\ partners \in [Pids -> SUBSET Pids]
  /\ spc \in {"prompt", "read", "fork", "wait", "fg", "exited"} /\ cwd \in {"there", "gone"}
  /\ cmd \in Commands \union {NULL}
  /\ pids \in Seq(Pids) /\ stages \in 0..MaxStages /\ stage \in 0..MaxStages + 1
  /\ jobs \in Seq([pid : Pids, command : Text, index : Nat])
  /\ Len(jobs) <= MAX_JOBS
  /\ fg \in [pid : Pids, command : Text] \union {NULL}

(* waitpid and kill always get a child of the shell that has not been reaped, so  *)
(* waitpid never fails (its status is then uninitialised, nyush.c:225 and 459)    *)
(* and no reused process id is signalled: the table has no stale and no double    *)
(* entry, whatever happens to suspended jobs behind the shell's back.             *)
JobsAreUnreaped ==
  /\ \A n \in DOMAIN jobs :
       /\ proc[jobs[n].pid] # "none"
       /\ \A m \in DOMAIN jobs \ {n} : jobs[m].pid # jobs[n].pid
  /\ spc = "wait" => \A n \in stage .. stages :
       proc[pids[n]] # "none" /\ ~Listed(pids[n])
  /\ spc = "fg" => Listed(fg.pid)

(* Between two commands every child that still exists is in the table: none runs  *)
(* on unnoticed, and none stays a zombie that nobody will wait for.               *)
NoLostChild ==
  spc \in {"prompt", "read"} => \A p \in Pids : proc[p] # "none" => Listed(p)

(* What add_job keeps of a line: a long one fills the array without a zero byte.  *)
Kept(c) == [line |-> c, end |-> IF c \in LongCommands THEN "cut" ELSE "whole"]

(* A job is listed under the command line it was started with, also after fg has  *)
(* moved it in the table: under the whole line, or, where the line is too long for*)
(* the array, under the part of it that fills the array and never under what fg   *)
(* reads behind that.  (nyush.c:143 and 456 promise "the entire command" and the  *)
(* "full command": of a line of MAX_INPUT_LENGTH bytes or more add_job keeps less,*)
(* and without the zero byte that print_jobs and fg look for.)                    *)
JobKeepsCommand == \A n \in DOMAIN jobs : jobs[n].command = Kept(cmdOf[jobs[n].pid])

Before(js, p, q) == \E n, m \in DOMAIN js : n < m /\ js[n].pid = p /\ js[m].pid = q

(* The table is ordered by the last stop: a job that is reported stopped, for the *)
(* first time or again, is last, and the others keep their order.                 *)
JobsInStopOrder ==
  [][/\ \A p \in reported' \ reported : spc' # "exited" => Last(jobs').pid = p
     /\ \A p, q \in Pids :
          Before(jobs, p, q) /\ Before(jobs', q, p) => p \in reported' \ reported]_vars

(* The shell waits for a running stage of a pipeline another stage of which is    *)
(* stopped: fg resumes one process of a suspended pipeline, not its partners.     *)
WaitsFor(p) == (spc = "wait" /\ p = pids[stage]) \/ (spc = "fg" /\ p = fg.pid)
Hangs == \E p \in Pids : WaitsFor(p) /\ proc[p] = "run" /\ ~CanEnd(p)

(* A command, and fg, return to the next line of input (or the shell exits) once  *)
(* the programs have had their way: no end and no stop of a stage is missed.  Not *)
(* so when the shell hangs on a pipeline one stage of which stays stopped, or when*)
(* other programs continue stopped processes for ever.                            *)
CommandReturns ==
  \/ []<><<\E p \in Pids : Continued(p)>>_vars
  \/ spc \in {"fork", "wait", "fg"} ~> (spc \in {"read", "exited"} \/ []Hangs)

(* The shell's table and waits implement JobControl: in particular exit leaves no *)
(* child behind (nyush.c:134).                                                    *)
Control == INSTANCE JobControl WITH
             Processes <- Pids,
             phase  <- IF spc \in {"prompt", "read"} THEN "prompt"
                       ELSE IF spc # "exited" THEN "busy"
                       ELSE IF why = "exit" THEN "left" ELSE "failed",
             status <- [p \in Pids |->
                          IF proc[p] = "none" THEN "free"
                          ELSE IF Listed(p) /\ (spc = "fg" => p # fg.pid)
                               THEN "suspended" ELSE "foreground"]

ImplementsJobControl == Control!Spec

(* nyush.c:406: the child "makes sure SIGINT, SIGQUIT, SIGTSTP are not ignored in *)
(* child".                                                                        *)
CtrlCReachesChildren ==
  [][CtrlC => \A p \in Pids : Alive(p) => proc'[p] = "zombie" \/ p \in interrupted']_vars
================================================================================
