-------------------------------- MODULE PillPool ---------------------------------
(* The thread pool of Shell-multithred/working.c, the version before nyuenc.c:    *)
(* a pill is submitted for each worker, no flag says that all is processed, and   *)
(* no worker wakes another one.  Steps that are the same as in nyuenc.c are those *)
(* of ThreadPool (IS_ALL_PROCESSED is never set here).                            *)
(*                                                                                *)
(* submit_task signals after it has unlocked, and a worker that takes a pill      *)
(* unlocks before it raises the semaphore.  OnePill and CountedAfterPill are      *)
(* deliberately wrong versions of the definitions they precede (PROJECT.json,     *)
(* "mutants").                                                                    *)
EXTENDS ThreadPool, FiniteSets

(* num_threads is an int.                                                         *)
ASSUME PillAssumption == IsFiniteSet(Workers)

VARIABLE pills      \* pills submitted: i of the last loop of create_tasks_from_file

pillVars == <<vars, pills>>

PillInit == Init /\ pills = 0

OnePill == 1

(* create_tasks_from_file is given num_threads.                                   *)
PillsWanted == Cardinality(Workers)

(* submit_task up to its unlock.                                                  *)
SubmitTask ==
  /\ mpc = "submit" /\ SUBMITTED_TASKS < MAX_TASK_NUM
  /\ TASK_QUEUE' = [TASK_QUEUE EXCEPT ![SUBMITTED_TASKS] = NextTask]
  /\ SUBMITTED_TASKS' = SUBMITTED_TASKS + 1
  /\ MUTEX_QUEUE' = Free /\ id' = id + 1 /\ mpc' = "signal"
  /\ UNCHANGED <<results, progress, pc, task, argv, arg, size, writer, pills>>

(* pthread_cond_signal, and the next chunk, file or pill, or write_result.        *)
Signal ==
  /\ mpc = "signal" /\ pc' \in Signalled(pc)
  /\ \/ /\ arg <= Len(argv) /\ size + CHUNK_SIZE < Len(argv[arg])
        /\ size' = size + CHUNK_SIZE /\ mpc' = "lock" /\ UNCHANGED <<arg, pills>>
     \/ /\ arg <= Len(argv) /\ size + CHUNK_SIZE >= Len(argv[arg])
        /\ arg' = arg + 1 /\ mpc' = "open" /\ UNCHANGED <<size, pills>>
     \/ /\ arg > Len(argv) /\ pills' = pills + 1
        /\ mpc' = IF pills' = PillsWanted THEN "down" ELSE "lock"
        /\ UNCHANGED <<arg, size>>
  /\ UNCHANGED <<queue, results, progress, MUTEX_QUEUE, task, argv, id, writer>>

CountedAfterPill == PROCESSED_TASKS + 1

(* A pill taken is not counted as processed: the next worker takes it again.      *)
AfterPill == PROCESSED_TASKS

(* thread_process, with a pill: the poison result, then unlock.                   *)
TakePill(w) ==
  /\ Running /\ pc[w] = "test" /\ ~MustWait /\ CanDereference
  /\ IsPill(TASK_QUEUE[PROCESSED_TASKS])
  /\ task' = [task EXCEPT ![w] = TASK_QUEUE[PROCESSED_TASKS]]
  /\ RESULT_QUEUE' =
       [RESULT_QUEUE EXCEPT ![TASK_QUEUE[PROCESSED_TASKS].id] = PoisonResult]
  /\ PROCESSED_TASKS' = AfterPill
  /\ MUTEX_QUEUE' = Free /\ pc' = [pc EXCEPT ![w] = "pill"]
  /\ UNCHANGED <<queue, READY_QUEUE, IS_ALL_PROCESSED, mpc, reader, writer, pills>>

(* up, and the worker ends.                                                       *)
LastUp(w) ==
  /\ Running /\ pc[w] = "pill" /\ up(task[w].id)
  /\ pc' = [pc EXCEPT ![w] = "done"]
  /\ UNCHANGED <<queue, RESULT_QUEUE, progress, MUTEX_QUEUE, task, mpc, reader, writer, pills>>

--------------------------------------------------------------------------------
(* The steps of nyuenc.c.  write_result has the bound i < SUBMITTED_TASKS here:   *)
(* it always holds, because the writer stops at the first pill.                   *)
StartWorkers == (CreateFails \/ \E w \in Workers : CreateThread(w)) /\ UNCHANGED pills

ReadFiles == (OpenFails \/ OpenFile \/ NoMoreFiles) /\ UNCHANGED pills

StartSubmit == (MainLock \/ SubmitOverflows) /\ UNCHANGED pills

WriteResults == (Down \/ Merge \/ Flush) /\ UNCHANGED pills

JoinWorkers == Join /\ UNCHANGED pills

TakeTask(w) == (Wait(w) \/ Take(w)) /\ UNCHANGED pills

EncodeTask(w) == Encode(w) /\ UNCHANGED pills

PostResult(w) == Post(w) /\ UNCHANGED pills

PillMainStep == StartWorkers \/ ReadFiles \/ StartSubmit \/ SubmitTask \/ Signal
                \/ WriteResults \/ JoinWorkers
PillWork(w)  == TakeTask(w) \/ TakePill(w) \/ LastUp(w) \/ EncodeTask(w) \/ PostResult(w)
LockStep(w)  == Lock(w) /\ UNCHANGED pills

PillNext ==
  \/ PillMainStep
  \/ \E w \in Workers : LockStep(w) \/ PillWork(w) \/ (Spurious(w) /\ UNCHANGED pills)
  \/ Terminated /\ UNCHANGED pills

(* The scheduling assumed is that of ThreadPool.                                  *)
PillSpec ==
  /\ PillInit /\ [][PillNext]_pillVars
  /\ WF_pillVars(PillMainStep) /\ SF_pillVars(MainLock /\ UNCHANGED pills)
  /\ \A w \in Workers : WF_pillVars(PillWork(w)) /\ SF_pillVars(LockStep(w))

--------------------------------------------------------------------------------
(* Only the first of the pills is ever taken, by every worker in turn: the others *)
(* fill slots of the arrays, and only their signals matter                        *)
(* (Shell-multithred/README.md:28, "one poison task is a better choice").         *)
FirstPillOnly ==
  /\ \A k \in Slots : k > Chunks(argv) => RESULT_QUEUE[k] = NoResult /\ READY_QUEUE[k] = 0
  /\ mpc = "overflow" => Chunks(argv) + PillsWanted > MAX_TASK_NUM
  /\ mpc \in {"join", "exit"} => i = Chunks(argv)

(* This version implements StreamEncoder too: "multiple poison tasks creation is  *)
(* also working well" (Shell-multithred/README.md:28), no worker is left asleep.  *)
PillsImplementStreamEncoder == Stream!Spec
================================================================================
