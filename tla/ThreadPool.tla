------------------------------- MODULE ThreadPool -------------------------------
(* The parallel encoder Shell-multithred/nyuenc.c: the main thread creates the   *)
(* workers, cuts the files of argv into tasks, submits them and a poison pill,   *)
(* then writes the results in task order while the workers encode, and joins     *)
(* the workers.                                                                  *)
(*                                                                               *)
(* A critical section is one action from the lock to the unlock, unless the code *)
(* touches state other threads read without the mutex (a result, a semaphore)    *)
(* before it unlocks.  pthread_cond_wait returns to the lock; a waiting worker   *)
(* may also wake up spuriously.  DownNoWait, NoMoreFilesNoPill,                  *)
(* NextTaskIdPerFile, NextTaskPillReusesId, SignalledNobody and MustWaitOffByOne *)
(* are deliberately wrong versions of the definitions they precede               *)
(* (PROJECT.json, "mutants").                                                    *)
EXTENDS RLE

CONSTANTS Workers,        \* the threads the pool creates (num_threads of them)
          Inputs,         \* the argument lists to check: sequences of file contents
          CHUNK_SIZE,     \* bytes per task
          MAX_TASK_NUM,   \* length of the global arrays
          UINT_MAX,       \* start and end of the poison pill
          NULL, Main, Free

ASSUME WorkersAssumption ==
  Workers # {} /\ Main \notin Workers /\ Free \notin Workers /\ Main # Free
ASSUME SizesAssumption ==
  CHUNK_SIZE \in Nat \ {0} /\ MAX_TASK_NUM \in Nat /\ UINT_MAX \in Nat
ASSUME NullAssumption == NULL \notin [addr : Nat, start : Nat, end : Nat, id : Nat]
(* No file is so large that a chunk could start at UINT_MAX.                     *)
ASSUME InputsAssumption ==
  \A input \in Inputs : /\ input \in Seq(Seq(Nat))
                        /\ \A f \in DOMAIN input : Len(input[f]) < UINT_MAX

VARIABLES
  argv,             \* the files named on the command line
  TASK_QUEUE, RESULT_QUEUE, READY_QUEUE,                \* the three global arrays
  SUBMITTED_TASKS, PROCESSED_TASKS, IS_ALL_PROCESSED,   \* the shared counters, flag
  MUTEX_QUEUE,      \* Free, Main or the worker that holds the mutex
  pc, task,         \* of each worker: where it is, and its local copy of the task
  mpc,              \* where the main thread is
  arg, size, id,    \* locals of create_tasks_from_file
  i, out            \* locals of write_result, with what stdout has received

queue    == <<TASK_QUEUE, SUBMITTED_TASKS>>
results  == <<RESULT_QUEUE, READY_QUEUE>>
progress == <<PROCESSED_TASKS, IS_ALL_PROCESSED>>
reader   == <<argv, arg, size, id>>
writer   == <<i, out>>
vars   == <<argv, TASK_QUEUE, RESULT_QUEUE, READY_QUEUE, SUBMITTED_TASKS,
            PROCESSED_TASKS, IS_ALL_PROCESSED, MUTEX_QUEUE, pc, task, mpc,
            arg, size, id, i, out>>

Slots == 0 .. MAX_TASK_NUM - 1
Task  == [addr : Nat, start : Nat, end : Nat, id : Nat]

(* The task whose start and end are UINT_MAX.                                    *)
IsPill(t) == t.start = UINT_MAX /\ t.end = UINT_MAX

(* A Result *: the null pointer, the poison (len = UINT_MAX), or the pairs       *)
(* encoded for a task.                                                           *)
NoResult     == [kind |-> "NULL", buffer |-> <<>>]
PoisonResult == [kind |-> "poison", buffer |-> <<>>]
Chunk(t)     == SubSeq(argv[t.addr], t.start + 1, t.end)
ResultOf(t)  == [kind |-> "data", buffer |-> encoder(Chunk(t))]

(* The program still runs: not exited, and no write out of an array's bounds.    *)
Running == mpc \notin {"exit", "failed", "overflow"}

DownNoWait(k) == READY_QUEUE' = [READY_QUEUE EXCEPT ![k] = @ - 1]

(* down() and up() on READY_QUEUE[k].                                            *)
down(k) == READY_QUEUE[k] > 0 /\ READY_QUEUE' = [READY_QUEUE EXCEPT ![k] = @ - 1]
up(k)   == READY_QUEUE' = [READY_QUEUE EXCEPT ![k] = @ + 1]

EXIT_FAILURE == 1

(* parsing_j: the number of workers.  options is the sequence of what getopt     *)
(* returns: is it -j, and the atoi of its argument.  A wrong option is answered  *)
(* with EXIT_FAILURE, which main takes for one thread.                           *)
parsing_j(options) ==
  IF \E k \in DOMAIN options : ~options[k].is_j \/ options[k].atoi <= 0
  THEN EXIT_FAILURE
  ELSE IF options = <<>> THEN 1 ELSE Last(options).atoi

Init ==
  /\ argv \in Inputs
  /\ TASK_QUEUE   = [k \in Slots |-> NULL]
  /\ RESULT_QUEUE = [k \in Slots |-> NoResult]
  /\ READY_QUEUE  = [k \in Slots |-> 0]
  /\ SUBMITTED_TASKS = 0 /\ PROCESSED_TASKS = 0 /\ IS_ALL_PROCESSED = FALSE
  /\ MUTEX_QUEUE = Free
  /\ pc = [w \in Workers |-> "unborn"] /\ task = [w \in Workers |-> NULL]
  /\ mpc = "create"
  /\ arg = 1 /\ size = 0 /\ id = 0
  /\ i = 0 /\ out = WriterStart

--------------------------------------------------------------------------------
(* The main thread.                                                              *)

(* pthread_create in main(); the last one leads to create_tasks_from_file.       *)
CreateThread(w) ==
  /\ mpc = "create" /\ pc[w] = "unborn"
  /\ pc' = [pc EXCEPT ![w] = "lock"]
  /\ mpc' = IF \A v \in Workers \ {w} : pc[v] # "unborn" THEN "open" ELSE mpc
  /\ UNCHANGED <<queue, results, progress, MUTEX_QUEUE, task, reader, writer>>

(* handle_error: exit(EXIT_FAILURE) ends every thread of the process.            *)
HandleError ==
  /\ mpc' = "failed"
  /\ UNCHANGED <<queue, results, progress, MUTEX_QUEUE, pc, task, reader, writer>>

CreateFails == mpc = "create" /\ HandleError

(* open, fstat or mmap may fail on any file.                                     *)
OpenFails == mpc = "open" /\ arg <= Len(argv) /\ HandleError

(* They can only all succeed on a file that is not empty (mmap of 0 bytes fails).*)
OpenFile ==
  /\ mpc = "open" /\ arg <= Len(argv) /\ Len(argv[arg]) > 0
  /\ mpc' = "lock" /\ size' = 0
  /\ UNCHANGED <<argv, queue, results, progress, MUTEX_QUEUE, pc, task, arg, id, writer>>

NoMoreFilesNoPill ==
  /\ mpc = "open" /\ arg > Len(argv)
  /\ mpc' = "down"
  /\ UNCHANGED <<queue, results, progress, MUTEX_QUEUE, pc, task, reader, writer>>

(* All files are cut up: go on to submit the poison pill.                        *)
NoMoreFiles ==
  /\ mpc = "open" /\ arg > Len(argv)
  /\ mpc' = "lock"
  /\ UNCHANGED <<queue, results, progress, MUTEX_QUEUE, pc, task, reader, writer>>

(* task_submission: pthread_mutex_lock.                                          *)
MainLock ==
  /\ mpc = "lock" /\ MUTEX_QUEUE = Free
  /\ MUTEX_QUEUE' = Main /\ mpc' = "submit"
  /\ UNCHANGED <<queue, results, progress, pc, task, reader, writer>>

(* The task create_tasks_from_file has built: the next chunk, or the pill.       *)
ChunkEnd == IF size + CHUNK_SIZE > Len(argv[arg]) THEN Len(argv[arg])
                                                  ELSE size + CHUNK_SIZE
NextTaskIdPerFile ==
  IF arg <= Len(argv)
  THEN [addr |-> arg, start |-> size, end |-> ChunkEnd, id |-> size \div CHUNK_SIZE]
  ELSE [addr |-> 0, start |-> UINT_MAX, end |-> UINT_MAX, id |-> id]
NextTaskPillReusesId ==
  IF arg <= Len(argv)
  THEN [addr |-> arg, start |-> size, end |-> ChunkEnd, id |-> id]
  ELSE [addr |-> 0, start |-> UINT_MAX, end |-> UINT_MAX, id |-> id - 1]
NextTask ==
  IF arg <= Len(argv)
  THEN [addr |-> arg, start |-> size, end |-> ChunkEnd, id |-> id]
  ELSE [addr |-> 0, start |-> UINT_MAX, end |-> UINT_MAX, id |-> id]

SignalledNobody(p) == {p}

(* pthread_cond_signal: wakes one of the waiting workers, if there is one.       *)
Signalled(p) ==
  LET waiting == {w \in Workers : p[w] = "waiting"}
  IN  IF waiting = {} THEN {p} ELSE {[p EXCEPT ![w] = "lock"] : w \in waiting}

(* The rest of task_submission and the loops around it: the next chunk of this   *)
(* file, the next file, or (after the pill) write_result.                        *)
Submit ==
  /\ mpc = "submit" /\ SUBMITTED_TASKS < MAX_TASK_NUM
  /\ TASK_QUEUE' = [TASK_QUEUE EXCEPT ![SUBMITTED_TASKS] = NextTask]
  /\ SUBMITTED_TASKS' = SUBMITTED_TASKS + 1
  /\ pc' \in Signalled(pc)
  /\ MUTEX_QUEUE' = Free
  /\ id' = id + 1
  /\ \/ /\ arg <= Len(argv) /\ size + CHUNK_SIZE < Len(argv[arg])
        /\ size' = size + CHUNK_SIZE /\ mpc' = "lock" /\ UNCHANGED arg
     \/ /\ arg <= Len(argv) /\ size + CHUNK_SIZE >= Len(argv[arg])
        /\ arg' = arg + 1 /\ mpc' = "open" /\ UNCHANGED size
     \/ /\ arg > Len(argv)
        /\ mpc' = "down" /\ UNCHANGED <<arg, size>>
  /\ UNCHANGED <<argv, results, progress, task, writer>>

(* TASK_QUEUE[SUBMITTED_TASKS] past the end of the array: undefined behaviour,   *)
(* nothing is said of the program from there on.                                 *)
SubmitOverflows ==
  /\ mpc = "submit" /\ SUBMITTED_TASKS >= MAX_TASK_NUM
  /\ mpc' = "overflow"
  /\ UNCHANGED <<queue, results, progress, MUTEX_QUEUE, pc, task, reader, writer>>

(* write_result: down(&READY_QUEUE[i]).                                          *)
Down ==
  /\ mpc = "down" /\ i \in Slots /\ down(i)
  /\ mpc' = "merge"
  /\ UNCHANGED <<queue, RESULT_QUEUE, progress, MUTEX_QUEUE, pc, task, reader, writer>>

EndOfResults(r) == r.kind = "NULL" \/ r.kind = "poison"

(* write_result: merge the result that is ready, on to the next.                 *)
Merge ==
  /\ mpc = "merge" /\ ~EndOfResults(RESULT_QUEUE[i])
  /\ out' = MergeResult(out, RESULT_QUEUE[i].buffer)
  /\ i' = i + 1 /\ mpc' = "down"
  /\ UNCHANGED <<queue, results, progress, MUTEX_QUEUE, pc, task, reader>>

(* write_result: the termination signal; what is left is written.                *)
Flush ==
  /\ mpc = "merge" /\ EndOfResults(RESULT_QUEUE[i])
  /\ out' = [out EXCEPT !.stdout = Flushed(out)]
  /\ mpc' = "join"
  /\ UNCHANGED <<queue, results, progress, MUTEX_QUEUE, pc, task, reader, i>>

(* pthread_join of every worker, then main() frees everything and returns.       *)
Join ==
  /\ mpc = "join" /\ \A w \in Workers : pc[w] = "done"
  /\ mpc' = "exit"
  /\ UNCHANGED <<queue, results, progress, MUTEX_QUEUE, pc, task, reader, writer>>

--------------------------------------------------------------------------------
(* A worker: thread_process.                                                     *)

Lock(w) ==
  /\ Running /\ pc[w] = "lock" /\ MUTEX_QUEUE = Free
  /\ MUTEX_QUEUE' = w
  /\ pc' = [pc EXCEPT ![w] = "test"]
  /\ UNCHANGED <<queue, results, progress, task, mpc, reader, writer>>

MustWaitOffByOne == SUBMITTED_TASKS < PROCESSED_TASKS /\ ~IS_ALL_PROCESSED

(* The condition of the wait loop.                                               *)
MustWait == SUBMITTED_TASKS <= PROCESSED_TASKS /\ ~IS_ALL_PROCESSED

(* pthread_cond_wait: release the mutex and sleep.                               *)
Wait(w) ==
  /\ Running /\ pc[w] = "test" /\ MustWait
  /\ MUTEX_QUEUE' = Free
  /\ pc' = [pc EXCEPT ![w] = "waiting"]
  /\ UNCHANGED <<queue, results, progress, task, mpc, reader, writer>>

(* A spurious wake-up of pthread_cond_wait.                                      *)
Spurious(w) ==
  /\ Running /\ pc[w] = "waiting"
  /\ pc' = [pc EXCEPT ![w] = "lock"]
  /\ UNCHANGED <<queue, results, progress, MUTEX_QUEUE, task, mpc, reader, writer>>

(* `Task task = *TASK_QUEUE[PROCESSED_TASKS]`, of a slot that holds a task.      *)
CanDereference ==
  PROCESSED_TASKS \in Slots /\ TASK_QUEUE[PROCESSED_TASKS] # NULL

Take(w) ==
  /\ Running /\ pc[w] = "test" /\ ~MustWait /\ CanDereference
  /\ ~IsPill(TASK_QUEUE[PROCESSED_TASKS])
  /\ task' = [task EXCEPT ![w] = TASK_QUEUE[PROCESSED_TASKS]]
  /\ PROCESSED_TASKS' = PROCESSED_TASKS + 1
  /\ MUTEX_QUEUE' = Free
  /\ pc' = [pc EXCEPT ![w] = "encode"]
  /\ UNCHANGED <<queue, results, IS_ALL_PROCESSED, mpc, reader, writer>>

(* The pill stays in the queue for the other workers; the mutex is still held    *)
(* when the semaphore is raised.                                                 *)
Poison(w) ==
  /\ Running /\ pc[w] = "test" /\ ~MustWait /\ CanDereference
  /\ IsPill(TASK_QUEUE[PROCESSED_TASKS])
  /\ task' = [task EXCEPT ![w] = TASK_QUEUE[PROCESSED_TASKS]]
  /\ RESULT_QUEUE' =
       [RESULT_QUEUE EXCEPT ![TASK_QUEUE[PROCESSED_TASKS].id] = PoisonResult]
  /\ IS_ALL_PROCESSED' = TRUE
  /\ pc' \in Signalled([pc EXCEPT ![w] = "pill"])
  /\ UNCHANGED <<queue, READY_QUEUE, PROCESSED_TASKS, MUTEX_QUEUE, mpc, reader, writer>>

(* up, unlock, and the worker ends.                                              *)
PoisonUp(w) ==
  /\ Running /\ pc[w] = "pill"
  /\ up(task[w].id)
  /\ MUTEX_QUEUE' = Free
  /\ pc' = [pc EXCEPT ![w] = "done"]
  /\ UNCHANGED <<queue, RESULT_QUEUE, progress, task, mpc, reader, writer>>

(* Outside the mutex: encode the chunk and publish the result.                   *)
Encode(w) ==
  /\ Running /\ pc[w] = "encode"
  /\ RESULT_QUEUE' = [RESULT_QUEUE EXCEPT ![task[w].id] = ResultOf(task[w])]
  /\ pc' = [pc EXCEPT ![w] = "post"]
  /\ UNCHANGED <<queue, READY_QUEUE, progress, MUTEX_QUEUE, task, mpc, reader, writer>>

Post(w) ==
  /\ Running /\ pc[w] = "post"
  /\ up(task[w].id)
  /\ pc' = [pc EXCEPT ![w] = "lock"]
  /\ UNCHANGED <<queue, RESULT_QUEUE, progress, MUTEX_QUEUE, task, mpc, reader, writer>>

--------------------------------------------------------------------------------
Terminated == ~Running /\ UNCHANGED vars

MainStep == \/ \E w \in Workers : CreateThread(w)
            \/ CreateFails \/ OpenFails \/ OpenFile \/ NoMoreFiles \/ MainLock
            \/ Submit \/ SubmitOverflows \/ Down \/ Merge \/ Flush \/ Join

(* What a worker does by itself, and what the runtime may do to it.              *)
Work(w) == Wait(w) \/ Take(w) \/ Poison(w) \/ PoisonUp(w) \/ Encode(w) \/ Post(w)

Next == \/ MainStep
        \/ \E w \in Workers : Lock(w) \/ Work(w) \/ Spurious(w)
        \/ Terminated

Spec == Init /\ [][Next]_vars

(* Every thread is scheduled; a thread that finds the mutex free again and again *)
(* gets it.  Nothing is assumed of spurious wake-ups, and nothing forces or      *)
(* rules out a failing system call.                                              *)
Fairness == /\ WF_vars(MainStep) /\ SF_vars(MainLock)
            /\ \A w \in Workers : WF_vars(Work(w)) /\ SF_vars(Lock(w))

FairSpec == Spec /\ Fairness

--------------------------------------------------------------------------------
(* Properties.                                                                   *)

(* The types of the variables.                                                   *)
TypeOK ==
  /\ argv \in Inputs
  /\ TASK_QUEUE \in [Slots -> Task \union {NULL}]
  /\ DOMAIN RESULT_QUEUE = Slots
  /\ READY_QUEUE \in [Slots -> Nat]
  /\ SUBMITTED_TASKS \in 0..MAX_TASK_NUM /\ PROCESSED_TASKS \in 0..MAX_TASK_NUM
  /\ IS_ALL_PROCESSED \in BOOLEAN
  /\ MUTEX_QUEUE \in Workers \union {Main, Free}
  /\ pc \in [Workers -> {"unborn", "lock", "test", "waiting", "encode", "post",
                         "pill", "done"}]
  /\ task \in [Workers -> Task \union {NULL}]
  /\ mpc \in {"create", "open", "lock", "submit", "down", "merge", "join",
              "exit", "failed", "overflow"}
  /\ arg \in Nat \ {0} /\ size \in Nat /\ id \in Nat /\ i \in Nat

(* A worker that leaves the wait loop (nyuenc.c:202) dereferences a slot that    *)
(* has been filled, also when it left it only because of IS_ALL_PROCESSED and    *)
(* other workers have taken the pill before it.                                  *)
NoNullDereference ==
  \A w \in Workers : pc[w] = "test" /\ ~MustWait => CanDereference

(* The tasks being encoded outside the mutex are all different and their results *)
(* not yet there or not yet announced: two workers never fill one slot, and the  *)
(* writer has not passed a slot that is still being filled.                      *)
OneWorkerPerTask ==
  \A w \in Workers : pc[w] \in {"encode", "post"} =>
    /\ \A v \in Workers \ {w} :
         pc[v] \in {"encode", "post"} => task[v].id # task[w].id
    /\ task[w].id >= i
    /\ pc[w] = "encode" => RESULT_QUEUE[task[w].id] = NoResult

(* What write_result reads after down(), without the mutex (nyuenc.c:138-142),   *)
(* is the result of task i: the poison exactly when task i is the pill, and      *)
(* otherwise the encoding of that task's chunk.                                  *)
ReadyResultIsComplete ==
  mpc = "merge" =>
    /\ i < SUBMITTED_TASKS
    /\ RESULT_QUEUE[i] = IF IsPill(TASK_QUEUE[i]) THEN PoisonResult
                                                  ELSE ResultOf(TASK_QUEUE[i])

(* The writer stops at the pill and nowhere else: when it goes on to join the    *)
(* workers every task before the pill was encoded and merged.                    *)
WriterStopsAtPill ==
  mpc \in {"join", "exit"} =>
    /\ i = SUBMITTED_TASKS - 1 /\ IsPill(TASK_QUEUE[i])
    /\ \A k \in 0 .. i - 1 : ~IsPill(TASK_QUEUE[k]) /\ RESULT_QUEUE[k] # NoResult

(* The state in which every thread waits for another one: tasks (or the pill)    *)
(* are left in the queue, and each worker that is not done sleeps on COND_QUEUE. *)
(* pthread_cond_signal wakes one waiter only, at each submission and once for    *)
(* each worker that has taken the pill.                                          *)
NoLostWakeup ==
  SUBMITTED_TASKS > PROCESSED_TASKS /\ (\E w \in Workers : pc[w] = "waiting")
    => \E w \in Workers : pc[w] \notin {"unborn", "waiting", "done"}

(* Once a result is in RESULT_QUEUE its contents never change, although every    *)
(* worker stores a poison result of its own into the pill's slot (nyuenc.c:214)  *)
(* while the writer may be reading it.                                           *)
PublishedResultsStay ==
  [][\A k \in Slots : RESULT_QUEUE[k] # NoResult => RESULT_QUEUE'[k] = RESULT_QUEUE[k]]_vars

(* Tasks of the pool: what the loops of create_tasks_from_file submit for the    *)
(* first n files, and for all of them.                                           *)
ChunksOf(file) == (Len(file) + CHUNK_SIZE - 1) \div CHUNK_SIZE

ChunksUpTo(input) ==
  LET upTo[n \in 0..Len(input)] == IF n = 0 THEN 0 ELSE upTo[n - 1] + ChunksOf(input[n])
  IN  upTo

Chunks(input) == ChunksUpTo(input)[Len(input)]

(* The arrays are long enough for the chunks and the one pill (nyuenc.c:18), and *)
(* a run that has a slot for each never writes past their end.                   *)
OverflowOnlyWhenTooLarge ==
  /\ mpc = "overflow" => Chunks(argv) >= MAX_TASK_NUM
  /\ mpc \in {"down", "merge", "join", "exit"} => SUBMITTED_TASKS = Chunks(argv) + 1

(* nyuenc behaves as StreamEncoder: nothing is written before all of the input   *)
(* is read, stdout always is a prefix of the canonical encoding, and is all of   *)
(* it on success: the same bytes for every number of threads.  And it ends: each *)
(* worker is woken to take the pill and has been joined, or a system call failed *)
(* (or the arrays overflowed).                                                   *)
Stream == INSTANCE StreamEncoder WITH
            Streams <- {FlattenSeq(input) : input \in Inputs},
            input   <- FlattenSeq(argv),
            output  <- out.stdout,
            status  <- IF mpc = "exit" THEN "ok"
                       ELSE IF Running THEN "running" ELSE "failed"

ImplementsStreamEncoder == Stream!Spec
================================================================================
