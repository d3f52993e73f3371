---------------------------- MODULE ThreadPoolProofs ----------------------------
(* The safety properties of ThreadPool, and of PillPool, the version before it,  *)
(* proved for every number of workers, every list of files and every size of the *)
(* chunks and of the arrays; and that both implement StreamEncoder.  Only these  *)
(* last proofs need to know what encoder() and the writer compute                *)
(* (EncoderProofs).                                                              *)
EXTENDS PillPool, EncoderProofs

(* The inductive invariant, by part.                                             *)

(* The mutex is held exactly inside the critical sections.                       *)
MutexInv ==
  /\ \A w \in Workers : pc[w] \in {"test", "pill"} <=> MUTEX_QUEUE = w
  /\ mpc = "submit" => MUTEX_QUEUE = Main
  /\ MUTEX_QUEUE = Main => mpc \in {"submit", "overflow"}

PillSubmitted == mpc \in {"down", "merge", "join", "exit"}

(* Slot k holds task k; the pill is the last one, once it has been submitted.    *)
QueueInv ==
  /\ id = SUBMITTED_TASKS
  /\ PillSubmitted => SUBMITTED_TASKS >= 1
  /\ \A k \in Slots :
       IF k < SUBMITTED_TASKS
       THEN /\ TASK_QUEUE[k] \in Task /\ TASK_QUEUE[k].id = k
            /\ IsPill(TASK_QUEUE[k]) <=> PillSubmitted /\ k = SUBMITTED_TASKS - 1
       ELSE TASK_QUEUE[k] = NULL

(* The pill is never counted as processed, and the flag is only set for it.      *)
CountInv ==
  /\ PROCESSED_TASKS <= SUBMITTED_TASKS
  /\ PillSubmitted => PROCESSED_TASKS < SUBMITTED_TASKS
  /\ IS_ALL_PROCESSED => PillSubmitted /\ PROCESSED_TASKS = SUBMITTED_TASKS - 1

Holds(w, k) == pc[w] \in {"encode", "post"} /\ task[w].id = k

(* A worker outside the mutex holds a task of its own; a worker with the pill is *)
(* at the last slot.                                                             *)
HeldInv ==
  /\ \A w \in Workers : pc[w] \in {"encode", "post"} =>
       task[w].id < PROCESSED_TASKS /\ task[w] = TASK_QUEUE[task[w].id]
                                    /\ task[w].id \in Slots
  /\ \A w, v \in Workers : \A k \in Slots : Holds(w, k) /\ Holds(v, k) => w = v
  /\ \A w \in Workers : pc[w] = "pill" =>
       IS_ALL_PROCESSED /\ task[w].id = PROCESSED_TASKS

(* A stored result is that of a task taken before, or the poison of the pill.    *)
ResultInv ==
  /\ \A k \in Slots :
       \/ RESULT_QUEUE[k] = NoResult
       \/ k < PROCESSED_TASKS /\ RESULT_QUEUE[k] = ResultOf(TASK_QUEUE[k])
       \/ IS_ALL_PROCESSED /\ k = PROCESSED_TASKS /\ RESULT_QUEUE[k] = PoisonResult
  /\ IS_ALL_PROCESSED => RESULT_QUEUE[PROCESSED_TASKS] = PoisonResult
  /\ \A w \in Workers : pc[w] \in {"encode", "post"} =>
       (pc[w] = "encode" <=> RESULT_QUEUE[task[w].id] = NoResult)

(* Slots whose semaphore has been raised.                                        *)
Announced(k) ==
  READY_QUEUE[k] > 0 \/ k < i \/ (k = i /\ mpc \in {"merge", "join", "exit"})

AnnouncedInv ==
  \A k \in Slots : Announced(k) =>
    RESULT_QUEUE[k] # NoResult /\ \A w \in Workers : ~Holds(w, k)

(* The writer is at a slot of the queue, and at the pill when it has stopped.    *)
WriterInv ==
  /\ ~PillSubmitted => i = 0
  /\ PillSubmitted => i < SUBMITTED_TASKS
  /\ mpc \in {"join", "exit"} => i = SUBMITTED_TASKS - 1

IInv == /\ TypeOK /\ MutexInv /\ QueueInv /\ CountInv /\ HeldInv
        /\ ResultInv /\ AnnouncedInv /\ WriterInv

(* No worker sleeps unless another one will wake it or the queue is empty.       *)
Active(w) == pc[w] \notin {"unborn", "waiting", "done"}

WakeInv ==
  \A w \in Workers : pc[w] = "waiting" =>
    /\ SUBMITTED_TASKS > PROCESSED_TASKS => \E v \in Workers : Active(v)
    /\ \A u \in Workers : pc[u] = "pill" => \E v \in Workers : pc[v] = "lock"

(* How far the main thread has come in cutting the files into tasks.             *)
CutInv ==
  /\ arg \in 1..(Len(argv) + 1)
  /\ mpc \in {"create", "open"} => SUBMITTED_TASKS = ChunksUpTo(argv)[arg - 1]
  /\ mpc = "create" => arg = 1
  /\ mpc \in {"lock", "submit"} =>
       \/ arg = Len(argv) + 1 /\ SUBMITTED_TASKS = Chunks(argv)
       \/ /\ arg <= Len(argv) /\ size < Len(argv[arg])
          /\ \E q \in Nat : /\ size = q * CHUNK_SIZE
                           /\ SUBMITTED_TASKS = ChunksUpTo(argv)[arg - 1] + q
  /\ PillSubmitted => SUBMITTED_TASKS = Chunks(argv) + 1
  /\ mpc = "overflow" => Chunks(argv) >= MAX_TASK_NUM

(* The first n files one behind the other.                                       *)
Joined(input) ==
  LET upTo[n \in 0..Len(input)] == IF n = 0 THEN <<>> ELSE upTo[n - 1] \o input[n]
  IN  upTo

(* Where the n-th file ends in the stream.                                       *)
Offset(input, n) == Len(Joined(input)[n])

(* Where in the stream a task begins and ends, and how far the first k of the    *)
(* queue reach.                                                                  *)
Begins(t)  == Offset(argv, t.addr - 1) + t.start
Ends(t)    == Offset(argv, t.addr - 1) + t.end
Reached(k) == IF k = 0 THEN 0 ELSE Ends(TASK_QUEUE[k - 1])

IsPiece(t) == t.addr \in 1..Len(argv) /\ t.start < t.end /\ t.end <= Len(argv[t.addr])

(* Each task of the queue begins where the one before it ends, and the next one  *)
(* will begin where create_tasks_from_file stands.                               *)
OrderInv ==
  /\ \A k \in Slots : k < SUBMITTED_TASKS /\ ~IsPill(TASK_QUEUE[k]) =>
       IsPiece(TASK_QUEUE[k]) /\ Begins(TASK_QUEUE[k]) = Reached(k)
  /\ mpc \in {"create", "open"} => Reached(SUBMITTED_TASKS) = Offset(argv, arg - 1)
  /\ mpc \in {"lock", "submit"} =>
       Reached(SUBMITTED_TASKS) = Offset(argv, arg - 1) + (IF arg <= Len(argv) THEN size ELSE 0)
  /\ PillSubmitted => Reached(SUBMITTED_TASKS - 1) = Len(FlattenSeq(argv))

(* The writer is where merging the bytes of the first i tasks would leave it.    *)
OutInv ==
  /\ ~PillSubmitted => out = WriterStart
  /\ mpc \in {"down", "merge"} => out = Written(FlattenSeq(argv))[Reached(i)]
  /\ mpc \in {"join", "exit"} => out.stdout = Canonical(FlattenSeq(argv))

--------------------------------------------------------------------------------
USE DEF queue, results, progress, reader, writer

(* Lemmas about the operators the actions are built from.                        *)

(* parsing_j never asks for less than one worker: Workers # {} is what main() is *)
(* sure of, whatever the options are.                                            *)
LEMMA ThreadsAreCreated ==
  ASSUME NEW options \in Seq([is_j : BOOLEAN, atoi : Int])
  PROVE  parsing_j(options) \in Nat \ {0}
<1> DEFINE Bad == \E k \in DOMAIN options : ~options[k].is_j \/ options[k].atoi <= 0
<1>1. \A k \in DOMAIN options : options[k] \in [is_j : BOOLEAN, atoi : Int]
  <2>1. \A S : \A s \in Seq(S) : \A k \in DOMAIN s : s[k] \in S
    OBVIOUS
  <2> QED
    BY <2>1, Zenon
<1>2. CASE Bad
  BY <1>2 DEF parsing_j, EXIT_FAILURE
<1>3. CASE options = <<>>
  BY <1>3 DEF parsing_j, EXIT_FAILURE
<1>4. CASE ~Bad /\ options # <<>>
  <2>1. parsing_j(options) = options[Len(options)].atoi
    BY <1>4 DEF parsing_j, Last
  <2>2. Len(options) \in DOMAIN options
    BY <1>4
  <2>3. options[Len(options)].atoi \in Int /\ ~(options[Len(options)].atoi <= 0)
    BY <1>1, <1>4, <2>2
  <2> QED
    BY <2>1, <2>3
<1> QED
  BY <1>2, <1>3, <1>4

(* A signal wakes at most one worker, which was waiting.                         *)
LEMMA SignalledWakesOne ==
  ASSUME NEW p, NEW q \in Signalled(p)
  PROVE  \/ q = p /\ \A w \in Workers : p[w] # "waiting"
         \/ \E w \in Workers : p[w] = "waiting" /\ q = [p EXCEPT ![w] = "lock"]
  BY DEF Signalled

(* up() raises one semaphore and leaves the others alone.                        *)
LEMMA UpRaises ==
  ASSUME READY_QUEUE \in [Slots -> Nat], NEW k, up(k)
  PROVE  /\ READY_QUEUE' \in [Slots -> Nat]
         /\ \A j \in Slots : READY_QUEUE'[j] > 0 => READY_QUEUE[j] > 0 \/ j = k
<1>1. CASE k \in Slots
  <2>1. READY_QUEUE[k] + 1 \in Nat BY <1>1
  <2>2. READY_QUEUE' = [READY_QUEUE EXCEPT ![k] = READY_QUEUE[k] + 1] BY DEF up
  <2>3. QED BY <2>1, <2>2
<1>2. CASE k \notin Slots
  <2>1. READY_QUEUE' = READY_QUEUE BY <1>2 DEF up
  <2>2. QED BY <2>1
<1>3. QED BY <1>1, <1>2

(* The task under construction is well-formed, and a pill when no file is left.  *)
LEMMA NextTaskIsTask ==
  ASSUME argv \in Inputs, arg \in Nat \ {0}, size \in Nat, id \in Nat
  PROVE  /\ NextTask \in Task
         /\ NextTask.id = id
         /\ IsPill(NextTask) <=> arg > Len(argv)
<1>1. argv \in Seq(Seq(Nat)) /\ \A f \in DOMAIN argv : Len(argv[f]) < UINT_MAX
  BY InputsAssumption
<1>2. CASE arg > Len(argv)
  <2>1. NextTask = [addr |-> 0, start |-> UINT_MAX, end |-> UINT_MAX, id |-> id]
    BY <1>1, <1>2 DEF NextTask
  <2>2. QED BY <2>1, <1>2, SizesAssumption DEF Task, IsPill
<1>3. CASE ~(arg > Len(argv))
  <2>1. /\ arg \in DOMAIN argv /\ arg <= Len(argv)
        /\ argv[arg] \in Seq(Nat) /\ Len(argv[arg]) \in Nat
        /\ Len(argv[arg]) < UINT_MAX
    BY <1>1, <1>3
  <2>2. NextTask = [addr |-> arg, start |-> size, end |-> ChunkEnd, id |-> id]
    BY <2>1 DEF NextTask
  <2>3. ChunkEnd \in Nat /\ ChunkEnd < UINT_MAX
    BY <2>1, SizesAssumption DEF ChunkEnd
  <2>4. QED BY <2>1, <2>2, <2>3, <1>3, SizesAssumption DEF Task, IsPill
<1>4. QED BY <1>2, <1>3

(* ChunksUpTo adds up the files' tasks.                                          *)
LEMMA ChunksUpToIs ==
  ASSUME NEW input \in Seq(Seq(Nat))
  PROVE  /\ ChunksUpTo(input) \in [0..Len(input) -> Nat]
         /\ ChunksUpTo(input)[0] = 0
         /\ \A n \in 1..Len(input) :
              ChunksUpTo(input)[n] = ChunksUpTo(input)[n - 1] + ChunksOf(input[n])
<1> DEFINE L == Len(input)
           c == [n \in 1..L |-> ChunksOf(input[n])]
           step == [n \in 1..L |-> [x \in Nat |-> x + c[n]]]
           Is(f) == f = [n \in 0..L |-> IF n = 0 THEN 0 ELSE f[n - 1] + ChunksOf(input[n])]
<1>1. L \in Nat /\ c \in [1..L -> Nat] /\ \A n \in 1..L : c[n] = ChunksOf(input[n])
  <2>1. ASSUME NEW n \in 1..L PROVE ChunksOf(input[n]) \in Nat
    <3>1. Len(input[n]) \in Nat
      OBVIOUS
    <3>2. \A m \in Nat : (m + CHUNK_SIZE - 1) \div CHUNK_SIZE \in Nat
      BY SizesAssumption
    <3> QED BY <3>1, <3>2 DEF ChunksOf
  <2> QED BY <2>1
<1> HIDE DEF c, L
<1>2. \A n \in 1..L, x \in Nat : step[n][x] \in Nat /\ step[n][x] = x + c[n]
  BY <1>1
<1>3. PICK f : f \in [0..L -> Nat] /\ f[0] = 0 /\ \A n \in 1..L : f[n] = step[n][f[n - 1]]
  <2>1. L \in Nat /\ 0 \in Nat /\ Stepping(L, Nat, step)
    BY <1>1, <1>2 DEF Stepping
  <2>2. \E f : Iterates(f, L, Nat, 0, step)
    BY <2>1, UpToRecursion
  <2> QED BY <2>2 DEF Iterates
<1> HIDE DEF step
<1>4. f = [n \in 0..L |-> IF n = 0 THEN 0 ELSE f[n - 1] + ChunksOf(input[n])]
  <2>1. \A n \in 1..L : n - 1 \in 0..L /\ n \in 0..L /\ n # 0
    BY <1>1
  <2>2. \A n \in 1..L : f[n - 1] \in Nat
    BY <1>3, <2>1
  <2>3. \A n \in 1..L : step[n][f[n - 1]] = f[n - 1] + c[n]
    BY <1>2, <2>2
  <2>4. \A n \in 1..L : f[n] = f[n - 1] + ChunksOf(input[n])
    BY <1>1, <1>3, <2>3
  <2>5. \A n \in 0..L : n = 0 \/ n \in 1..L
    BY <1>1
  <2> QED BY <1>3, <2>4, <2>5
<1>5. ChunksUpTo(input) = CHOOSE g : Is(g)
  BY DEF ChunksUpTo, L
<1> DEFINE u == ChunksUpTo(input)
<1>6. u = [n \in 0..L |-> IF n = 0 THEN 0 ELSE u[n - 1] + ChunksOf(input[n])]
  <2>1. Is(f)
    BY <1>4
  <2>2. Is(u)
    <3> HIDE DEF Is
    <3> QED BY <2>1, <1>5
  <2> QED BY <2>2
<1> HIDE DEF u
<1>7. u[0] = 0 /\ \A n \in 1..L : u[n] = u[n - 1] + c[n]
  BY <1>1, <1>6
<1>8. \A n \in 0..L : u[n] \in Nat
  <2> DEFINE P == {n \in 0..L : u[n] \in Nat}
  <2>1. 0 \in P /\ \A n \in 1..L : n - 1 \in P => n \in P
    BY <1>1, <1>7
  <2> HIDE DEF P
  <2>2. \A n \in 0..L : n \in P
    BY <1>1, <2>1, UpToInduction
  <2> QED BY <2>2 DEF P
<1>9. u \in [0..L -> Nat]
  BY <1>6, <1>8
<1> QED BY <1>1, <1>7, <1>9 DEF u, L

(* The first files have no more tasks than all of them.                          *)
LEMMA ChunksGrow ==
  ASSUME NEW input \in Seq(Seq(Nat)), NEW n \in 0..Len(input)
  PROVE  ChunksUpTo(input)[n] <= Chunks(input)
<1> DEFINE u == ChunksUpTo(input)
           L == Len(input)
           P == {k \in 0..L : k >= n => u[n] <= u[k]}
<1>1. L \in Nat /\ u \in [0..L -> Nat] /\ \A k \in 1..L : u[k] >= u[k - 1]
  <2>1. \A k \in 1..L : ChunksOf(input[k]) \in Nat
    <3> SUFFICES ASSUME NEW k \in 1..L PROVE ChunksOf(input[k]) \in Nat
      OBVIOUS
    <3>1. Len(input[k]) \in Nat
      OBVIOUS
    <3>2. \A m \in Nat : (m + CHUNK_SIZE - 1) \div CHUNK_SIZE \in Nat
      BY SizesAssumption
    <3> QED BY <3>1, <3>2 DEF ChunksOf
  <2>2. L \in Nat /\ u \in [0..L -> Nat] /\ \A k \in 1..L : u[k] = u[k - 1] + ChunksOf(input[k])
    BY ChunksUpToIs
  <2>3. \A k \in 1..L : k - 1 \in 0..L
    BY <2>2
  <2> HIDE DEF u, L
  <2>4. ASSUME NEW k \in 1..L PROVE u[k] >= u[k - 1]
    <3>1. u[k - 1] \in Nat /\ ChunksOf(input[k]) \in Nat
      BY <2>1, <2>2, <2>3
    <3>2. u[k] = u[k - 1] + ChunksOf(input[k])
      BY <2>2
    <3> QED BY <3>1, <3>2
  <2> QED BY <2>2, <2>4
<1> HIDE DEF u, L
<1>2. 0 \in P /\ \A k \in 1..L : k - 1 \in P => k \in P
  <2>1. n \in 0..L
    BY DEF L
  <2>2. 0 \in P
    BY <1>1, <2>1
  <2>3. ASSUME NEW k \in 1..L, k - 1 \in P PROVE k \in P
    <3>1. u[k - 1] \in Nat /\ u[k] \in Nat /\ u[n] \in Nat /\ u[k] >= u[k - 1] /\ k \in 0..L
      BY <1>1, <2>1
    <3>2. k >= n => k = n \/ k - 1 >= n
      BY <1>1, <2>1
    <3> QED BY <2>3, <3>1, <3>2
  <2> QED BY <2>2, <2>3
<1> HIDE DEF P
<1>3. L \in P
  <2>1. \A k \in 0..L : k \in P
    BY <1>1, <1>2, UpToInduction
  <2> QED BY <1>1, <2>1
<1> QED BY <1>1, <1>3 DEF P, u, L, Chunks

(* A file is cut into pieces of CHUNK_SIZE, and what is left.                    *)
LEMMA CutIs ==
  ASSUME NEW length \in Nat, NEW q \in Nat, q * CHUNK_SIZE < length
  PROVE  /\ q + 1 <= (length + CHUNK_SIZE - 1) \div CHUNK_SIZE
         /\ q * CHUNK_SIZE + CHUNK_SIZE >= length =>
              (length + CHUNK_SIZE - 1) \div CHUNK_SIZE = q + 1
BY SizesAssumption

(* A file that has been cut q times is followed by a piece, and the tasks of the *)
(* files before it and its own are not yet all the tasks.                        *)
LEMMA NextCut ==
  ASSUME NEW input \in Seq(Seq(Nat)), NEW n \in 1..Len(input), NEW q \in Nat,
         q * CHUNK_SIZE < Len(input[n])
  PROVE  /\ ChunksUpTo(input)[n - 1] \in Nat /\ Chunks(input) \in Nat
         /\ ChunksUpTo(input)[n - 1] + q < Chunks(input)
         /\ (q + 1) * CHUNK_SIZE = q * CHUNK_SIZE + CHUNK_SIZE
         /\ q * CHUNK_SIZE + CHUNK_SIZE >= Len(input[n]) =>
              ChunksUpTo(input)[n] = ChunksUpTo(input)[n - 1] + (q + 1)
<1> DEFINE u == ChunksUpTo(input)
           L == Len(input)
<1>1. /\ L \in Nat /\ u \in [0..L -> Nat] /\ Chunks(input) = u[L]
      /\ u[n] = u[n - 1] + ChunksOf(input[n]) /\ Len(input[n]) \in Nat
  BY ChunksUpToIs DEF Chunks
<1>2. u[n] <= Chunks(input)
  BY <1>1, ChunksGrow
<1> HIDE DEF u, L
<1>3. u[n - 1] \in Nat /\ u[n] \in Nat /\ u[L] \in Nat
  <2>1. n - 1 \in 0..L /\ n \in 0..L /\ L \in 0..L
    BY <1>1 DEF L
  <2> QED BY <1>1, <2>1
<1>4. ChunksOf(input[n]) \in Int
  <2>1. \A m \in Nat : (m + CHUNK_SIZE - 1) \div CHUNK_SIZE \in Int
    BY SizesAssumption
  <2> QED BY <1>1, <2>1 DEF ChunksOf
<1>5. /\ q + 1 <= ChunksOf(input[n])
      /\ q * CHUNK_SIZE + CHUNK_SIZE >= Len(input[n]) => ChunksOf(input[n]) = q + 1
  BY <1>1, CutIs DEF ChunksOf
<1>6. (q + 1) * CHUNK_SIZE = q * CHUNK_SIZE + CHUNK_SIZE
  <2>1. \A m \in Nat : (m + 1) * CHUNK_SIZE = m * CHUNK_SIZE + CHUNK_SIZE
    BY SizesAssumption
  <2> QED BY <2>1
<1>7. /\ u[n - 1] + q < Chunks(input)
      /\ q * CHUNK_SIZE + CHUNK_SIZE >= Len(input[n]) => u[n] = u[n - 1] + (q + 1)
  <2>1. u[n] = u[n - 1] + ChunksOf(input[n]) /\ Chunks(input) \in Nat
    BY <1>1, <1>3
  <2>2. u[n - 1] + q < Chunks(input)
    BY <1>2, <1>3, <1>4, <1>5, <2>1
  <2>3. q * CHUNK_SIZE + CHUNK_SIZE >= Len(input[n]) => u[n] = u[n - 1] + (q + 1)
    BY <1>5, <2>1
  <2> QED BY <2>2, <2>3
<1> QED BY <1>1, <1>3, <1>6, <1>7 DEF u

(* Joined adds one file after the other.                                         *)
LEMMA JoinedIs ==
  ASSUME NEW input \in Seq(Seq(Nat))
  PROVE  /\ Joined(input) \in [0..Len(input) -> Seq(Nat)] /\ Joined(input)[0] = <<>>
         /\ \A n \in 1..Len(input) : Joined(input)[n] = Joined(input)[n - 1] \o input[n]
<1> DEFINE L == Len(input)
           step == [n \in 1..L |-> [x \in Seq(Nat) |-> x \o input[n]]]
           Is(f) == f = [n \in 0..L |-> IF n = 0 THEN <<>> ELSE f[n - 1] \o input[n]]
           u == Joined(input)
<1>1. L \in Nat /\ \A n \in 1..L : input[n] \in Seq(Nat)
  OBVIOUS
<1>2. <<>> \in Seq(Nat)
  OBVIOUS
<1>3. u = CHOOSE f : Is(f)
  BY Zenon DEF Joined
<1> HIDE DEF L, u
<1>4. Stepping(L, Seq(Nat), step)
  <2> SUFFICES ASSUME NEW n \in 1..L, NEW x \in Seq(Nat) PROVE x \o input[n] \in Seq(Nat)
    BY DEF Stepping
  <2> QED BY <1>1
<1>5. ASSUME NEW f, NEW n \in 1..L, f[n - 1] \in Seq(Nat)
      PROVE  step[n][f[n - 1]] = f[n - 1] \o input[n]
  BY <1>5
<1> HIDE DEF step
<1>6. Is(u)
  <2>1. PICK f : Iterates(f, L, Seq(Nat), <<>>, step)
    BY <1>1, <1>2, <1>4, UpToRecursion
  <2>2. \A n \in 1..L : n - 1 \in 0..L /\ n # 0
    BY <1>1
  <2>3. \A n \in 1..L : f[n] = f[n - 1] \o input[n]
    BY <1>5, <2>1, <2>2 DEF Iterates
  <2>4. f = [n \in 0..L |-> f[n]] /\ f[0] = <<>>
    BY <2>1 DEF Iterates
  <2>5. \A n \in 0..L : n = 0 \/ n \in 1..L
    BY <1>1
  <2>6. Is(f)
    BY <2>2, <2>3, <2>4, <2>5
  <2> HIDE DEF Is
  <2> QED BY <1>3, <2>6
<1>7. /\ u = [n \in 0..L |-> u[n]] /\ u[0] = <<>>
      /\ \A n \in 1..L : u[n] = u[n - 1] \o input[n]
  <2>1. 0 \in 0..L /\ \A n \in 1..L : n \in 0..L /\ n # 0
    BY <1>1
  <2> QED BY <1>6, <2>1
<1>8. Iterates(u, L, Seq(Nat), <<>>, step)
  <2>1. Follows(u, L, Seq(Nat), <<>>, step)
    <3> HIDE DEF Is
    <3> QED BY <1>5, <1>7 DEF Follows
  <2> QED BY <1>1, <1>2, <1>4, <2>1, FollowsIterates
<1>9. u \in [0..L -> Seq(Nat)]
  BY <1>8 DEF Iterates
<1> QED BY <1>7, <1>9 DEF L, u

(* FlattenSeq joins all of them.                                                 *)
LEMMA FlattenIs ==
  ASSUME NEW input \in Seq(Seq(Nat))
  PROVE  FlattenSeq(input) = Joined(input)[Len(input)]
<1> DEFINE L == Len(input)
           u == Joined(input)
           Is(f) == f = [n \in 1..L |-> IF n = 1 THEN input[n] ELSE f[n - 1] \o input[n]]
           f0 == CHOOSE f : Is(f)
<1>1. /\ L \in Nat /\ u \in [0..L -> Seq(Nat)] /\ u[0] = <<>>
      /\ \A n \in 1..L : u[n] = u[n - 1] \o input[n] /\ input[n] \in Seq(Nat)
  <2>1. L \in Nat /\ \A n \in 1..L : input[n] \in Seq(Nat)
    OBVIOUS
  <2> HIDE DEF u
  <2>2. /\ u \in [0..L -> Seq(Nat)] /\ u[0] = <<>>
        /\ \A n \in 1..L : u[n] = u[n - 1] \o input[n]
    BY JoinedIs DEF u
  <2> QED BY <2>1, <2>2
<1>2. CASE L = 0
  <2>1. FlattenSeq(input) = input /\ input = <<>>
    BY <1>2 DEF FlattenSeq
  <2> QED BY <1>1, <1>2, <2>1
<1>3. CASE L > 0
  <2>1. FlattenSeq(input) = f0[L]
    <3>1. Len(input) # 0
      BY <1>1, <1>3
    <3> QED BY <3>1, Zenon DEF FlattenSeq
  <2> DEFINE g == [n \in 1..L |-> u[n]]
  <2> HIDE DEF L, u
  <2>2. Is(g)
    <3>1. 1 \in 1..L => u[1] = input[1]
      <4> SUFFICES ASSUME 1 \in 1..L PROVE u[1] = input[1]
        OBVIOUS
      <4>1. u[1] = <<>> \o input[1] /\ input[1] \in Seq(Nat)
        <5>1. 1 - 1 = 0
          OBVIOUS
        <5> QED BY <1>1, <5>1
      <4> QED BY <4>1
    <3>2. \A n \in 1..L : n # 1 => n - 1 \in 1..L /\ g[n] = g[n - 1] \o input[n]
      <4>1. \A n \in 1..L : n # 1 => n - 1 \in 1..L
        BY <1>1
      <4>2. \A n \in 1..L : u[n] = u[n - 1] \o input[n]
        BY <1>1
      <4> HIDE DEF Is
      <4> QED BY <4>1, <4>2
    <3> QED BY <3>1, <3>2
  <2>3. Is(f0)
    <3> HIDE DEF Is, g
    <3> QED BY <2>2
  <2> HIDE DEF f0
  <2> DEFINE P == {n \in 0..L : n > 0 => f0[n] = g[n]}
  <2>4. 0 \in P
    BY <1>1
  <2>5. ASSUME NEW n \in 1..L, n - 1 \in P PROVE n \in P
    <3>1. n # 1 => n - 1 \in 1..L /\ n - 1 > 0
      BY <1>1
    <3>2. f0[n] = g[n]
      <4>1. f0[n] = IF n = 1 THEN input[n] ELSE f0[n - 1] \o input[n]
        BY <2>3
      <4>2. g[n] = IF n = 1 THEN input[n] ELSE g[n - 1] \o input[n]
        BY <2>2
      <4>3. n # 1 => f0[n - 1] = g[n - 1]
        BY <2>5, <3>1
      <4> QED BY <4>1, <4>2, <4>3
    <3> HIDE DEF g
    <3> QED BY <1>1, <3>2
  <2>6. L \in P
    <3>1. L \in 0..L
      BY <1>1
    <3> HIDE DEF P
    <3>2. \A n \in 0..L : n \in P
      BY <1>1, <2>4, <2>5, UpToInduction
    <3> QED BY <3>1, <3>2
  <2>7. g[L] = u[L]
    BY <1>1, <1>3
  <2> QED BY <1>3, <2>1, <2>6, <2>7 DEF L, u
<1> QED BY <1>1, <1>2, <1>3

(* Each file follows the ones before it.                                         *)
LEMMA OffsetIs ==
  ASSUME NEW input \in Seq(Seq(Nat)), NEW n \in 1..Len(input)
  PROVE  LET s == Joined(input)[n - 1]
             t == Joined(input)[n]
         IN  /\ s \in Seq(Nat) /\ t \in Seq(Nat) /\ input[n] \in Seq(Nat)
             /\ Extends(t, s) /\ Len(t) = Len(s) + Len(input[n])
             /\ \A k \in 1..Len(input[n]) : t[Len(s) + k] = input[n][k]
<1> DEFINE s == Joined(input)[n - 1]
           t == Joined(input)[n]
<1>1. n - 1 \in 0..Len(input) /\ n \in 0..Len(input) /\ input[n] \in Seq(Nat)
  OBVIOUS
<1>2. s \in Seq(Nat) /\ t \in Seq(Nat) /\ t = s \o input[n]
  BY <1>1, JoinedIs
<1> HIDE DEF s, t
<1>3. /\ Len(t) = Len(s) + Len(input[n]) /\ Len(s) \in Nat /\ Len(input[n]) \in Nat
      /\ \A k \in 1..Len(s) : t[k] = s[k]
      /\ \A k \in 1..Len(input[n]) : t[Len(s) + k] = input[n][k]
  <2>1. \A x, y \in Seq(Nat) :
          /\ Len(x \o y) = Len(x) + Len(y) /\ Len(x) \in Nat /\ Len(y) \in Nat
          /\ \A k \in 1..Len(x) : (x \o y)[k] = x[k]
          /\ \A k \in 1..Len(y) : (x \o y)[Len(x) + k] = y[k]
    OBVIOUS
  <2> QED BY <1>1, <1>2, <2>1, Zenon
<1>4. Extends(t, s)
  BY <1>3 DEF Extends
<1> QED BY <1>1, <1>2, <1>3, <1>4 DEF s, t

(* What the stream of all files is made of.                                      *)
LEMMA StreamIs ==
  ASSUME NEW input \in Seq(Seq(Nat)), NEW n \in 0..Len(input)
  PROVE  /\ FlattenSeq(input) \in Seq(Nat) /\ Joined(input)[n] \in Seq(Nat)
         /\ Extends(FlattenSeq(input), Joined(input)[n])
         /\ Offset(input, n) \in Nat /\ Offset(input, n) <= Len(FlattenSeq(input))
         /\ Offset(input, 0) = 0 /\ Offset(input, Len(input)) = Len(FlattenSeq(input))
<1> DEFINE L == Len(input)
           f == Joined(input)
<1>1. L \in Nat /\ L \in n..L /\ n \in 0..L
  OBVIOUS
<1>2. f \in [0..L -> Seq(Nat)] /\ f[0] = <<>>
  BY JoinedIs
<1>3. \A m \in 1..L : Extends(f[m], f[m - 1])
  BY OffsetIs
<1> HIDE DEF L, f
<1>4. Extends(f[L], f[n])
  BY <1>1, <1>2, <1>3, LaterExtends
<1>5. FlattenSeq(input) = f[L]
  BY FlattenIs DEF f, L
<1>6. f[L] \in Seq(Nat) /\ f[n] \in Seq(Nat)
  BY <1>1, <1>2
<1>7. Len(f[n]) \in Nat /\ Len(<<>>) = 0
  BY <1>6
<1>8. Len(f[n]) <= Len(f[L])
  BY <1>4 DEF Extends
<1> QED BY <1>2, <1>4, <1>5, <1>6, <1>7, <1>8 DEF Offset, f, L

(* A piece of a file is a piece of the stream.                                   *)
LEMMA ChunkOfStream ==
  ASSUME NEW input \in Seq(Seq(Nat)), NEW n \in 1..Len(input),
         NEW a \in Nat, NEW m \in Nat, a < m, m <= Len(input[n])
  PROVE  LET o == Offset(input, n - 1)
         IN  /\ o + m <= Len(FlattenSeq(input)) /\ o \in Nat
             /\ SubSeq(input[n], a + 1, m) = SubSeq(FlattenSeq(input), (o + a) + 1, (o + a) + (m - a))
<1> DEFINE o == Offset(input, n - 1)
           d == FlattenSeq(input)
           s == Joined(input)[n - 1]
           t == Joined(input)[n]
           c == SubSeq(d, (o + a) + 1, (o + a) + (m - a))
           l == Len(input[n])
<1>1. n - 1 \in 0..Len(input) /\ n \in 0..Len(input) /\ input[n] \in Seq(Nat)
      /\ l \in Nat /\ m <= l
  OBVIOUS
<1>2. /\ o = Len(s) /\ Len(t) = o + l
      /\ \A k \in 1..l : t[o + k] = input[n][k]
  BY OffsetIs DEF Offset
<1>3. d \in Seq(Nat) /\ o \in Nat /\ t \in Seq(Nat) /\ Extends(d, t)
  BY <1>1, StreamIs
<1> HIDE DEF o, d, s, t, l
<1>4. Len(d) \in Nat /\ o + l <= Len(d)
      /\ \A k \in 1..l : d[o + k] = input[n][k]
  <2>1. Len(d) \in Nat
    BY <1>3
  <2>2. Len(t) <= Len(d) /\ \A k \in 1..Len(t) : t[k] = d[k]
    BY <1>3 DEF Extends
  <2>3. ASSUME NEW k \in 1..l PROVE o + k \in 1..Len(t)
    <3>1. Len(t) = o + l /\ o \in Nat /\ l \in Nat
      BY <1>1, <1>2, <1>3
    <3> QED BY <3>1
  <2> QED BY <1>2, <2>1, <2>2, <2>3
<1>5. o + m <= Len(d) /\ (o + a) + (m - a) = o + m /\ m - a \in Nat \ {0} /\ o + a \in Nat
  BY <1>1, <1>3, <1>4
<1>6. c \in Seq(Nat) /\ Len(c) = m - a /\ \A k \in 1..(m - a) : c[k] = d[(o + a) + k]
  <2> DEFINE p == o + a
             r == m - a
  <2>1. d \in Seq(Nat) /\ p \in Nat /\ r \in Nat \ {0} /\ p + r <= Len(d)
    BY <1>3, <1>5
  <2> HIDE DEF c, p, r
  <2>2. /\ SubSeq(d, p + 1, p + r) \in Seq(Nat) /\ Len(SubSeq(d, p + 1, p + r)) = r
        /\ \A k \in 1..r : SubSeq(d, p + 1, p + r)[k] = d[p + k]
    BY <2>1, ChunkIs
  <2> QED BY <2>2 DEF c, p, r
<1>7. /\ SubSeq(input[n], a + 1, a + (m - a)) \in Seq(Nat)
      /\ Len(SubSeq(input[n], a + 1, a + (m - a))) = m - a
      /\ \A k \in 1..(m - a) : SubSeq(input[n], a + 1, a + (m - a))[k] = input[n][a + k]
  <2> DEFINE f == input[n]
             r == m - a
  <2>1. f \in Seq(Nat) /\ a \in Nat /\ r \in Nat \ {0} /\ a + r <= Len(f)
    BY <1>1, <1>5 DEF l
  <2> HIDE DEF f, r
  <2>2. /\ SubSeq(f, a + 1, a + r) \in Seq(Nat) /\ Len(SubSeq(f, a + 1, a + r)) = r
        /\ \A k \in 1..r : SubSeq(f, a + 1, a + r)[k] = f[a + k]
    BY <2>1, ChunkIs
  <2> QED BY <2>2 DEF f, r
<1>8. a + (m - a) = m
  OBVIOUS
<1> DEFINE e == SubSeq(input[n], a + 1, m)
<1>9. /\ e \in Seq(Nat) /\ Len(e) = m - a /\ \A k \in 1..(m - a) : e[k] = input[n][a + k]
  BY <1>7, <1>8
<1> HIDE DEF c, e
<1>10. \A k \in 1..(m - a) : e[k] = c[k]
  <2> SUFFICES ASSUME NEW k \in 1..(m - a) PROVE e[k] = c[k]
    OBVIOUS
  <2>1. a + k \in 1..l /\ (o + a) + k = o + (a + k)
    BY <1>1, <1>3
  <2>2. d[(o + a) + k] = input[n][a + k]
    BY <1>4, <2>1
  <2> QED BY <1>6, <1>9, <2>2
<1>11. e = c
  <2>1. \A x \in Seq(Nat) : x = [k \in 1..Len(x) |-> x[k]]
    OBVIOUS
  <2>2. e = [k \in 1..(m - a) |-> e[k]] /\ c = [k \in 1..(m - a) |-> c[k]]
    BY <1>6, <1>9, <2>1
  <2> QED BY <1>10, <2>2
<1> QED BY <1>3, <1>5, <1>11 DEF o, d, c, e

--------------------------------------------------------------------------------
(* Types.                                                                        *)

(* The initial values have their types.                                          *)
LEMMA InitType == Init => TypeOK
<1> SUFFICES ASSUME Init PROVE TypeOK OBVIOUS
<1>1. /\ argv \in Inputs
      /\ TASK_QUEUE \in [Slots -> Task \union {NULL}]
      /\ DOMAIN RESULT_QUEUE = Slots
      /\ READY_QUEUE \in [Slots -> Nat]
  BY DEF Init
<1>2. /\ SUBMITTED_TASKS \in 0..MAX_TASK_NUM /\ PROCESSED_TASKS \in 0..MAX_TASK_NUM
      /\ arg \in Nat \ {0} /\ size \in Nat /\ id \in Nat /\ i \in Nat
  BY SizesAssumption DEF Init
<1>3. /\ IS_ALL_PROCESSED \in BOOLEAN
      /\ MUTEX_QUEUE \in Workers \union {Main, Free}
      /\ task \in [Workers -> Task \union {NULL}]
  BY DEF Init
<1>4. QED BY <1>1, <1>2, <1>3 DEF Init, TypeOK

(* Every action keeps the types.                                                 *)
LEMMA TypeStep ==
  ASSUME TypeOK, [Next]_vars
  PROVE  TypeOK'
<1> USE WorkersAssumption, SizesAssumption, NullAssumption DEF Slots, Task
<1>1. ASSUME NEW w \in Workers, CreateThread(w)  PROVE TypeOK'
  BY <1>1 DEF TypeOK, CreateThread
<1>2. ASSUME CreateFails \/ OpenFails  PROVE TypeOK'
  BY <1>2 DEF TypeOK, CreateFails, OpenFails, HandleError
<1>3. ASSUME OpenFile  PROVE TypeOK'
  BY <1>3 DEF TypeOK, OpenFile
<1>4. ASSUME NoMoreFiles  PROVE TypeOK'
  BY <1>4 DEF TypeOK, NoMoreFiles
<1>5. ASSUME MainLock  PROVE TypeOK'
  BY <1>5 DEF TypeOK, MainLock
<1>6. ASSUME Submit  PROVE TypeOK'
  <2>1. TASK_QUEUE' \in [Slots -> Task \union {NULL}]
    BY <1>6, NextTaskIsTask DEF TypeOK, Submit
  <2>2. pc' \in [Workers -> {"unborn", "lock", "test", "waiting", "encode", "post",
                             "pill", "done"}]
    <3>1. \/ pc' = pc
          \/ \E v \in Workers : pc' = [pc EXCEPT ![v] = "lock"]
      BY <1>6, SignalledWakesOne DEF Submit
    <3>2. QED BY <3>1 DEF TypeOK
  <2>3. arg' \in Nat \ {0} /\ size' \in Nat /\ mpc' \in {"lock", "open", "down"}
    BY <1>6 DEF TypeOK, Submit
  <2>4. SUBMITTED_TASKS' \in 0..MAX_TASK_NUM /\ id' \in Nat
    BY <1>6 DEF TypeOK, Submit
  <2> QED BY <1>6, <2>1, <2>2, <2>3, <2>4 DEF TypeOK, Submit
<1>7. ASSUME SubmitOverflows  PROVE TypeOK'
  BY <1>7 DEF TypeOK, SubmitOverflows
<1>8. ASSUME Down  PROVE TypeOK'
  BY <1>8 DEF TypeOK, Down, down
<1>9. ASSUME Merge  PROVE TypeOK'
  BY <1>9 DEF TypeOK, Merge
<1>10. ASSUME Flush  PROVE TypeOK'
  BY <1>10 DEF TypeOK, Flush
<1>11. ASSUME Join  PROVE TypeOK'
  BY <1>11 DEF TypeOK, Join
<1>12. ASSUME NEW w \in Workers, Lock(w)  PROVE TypeOK'
  BY <1>12 DEF TypeOK, Lock
<1>13. ASSUME NEW w \in Workers, Wait(w)  PROVE TypeOK'
  BY <1>13 DEF TypeOK, Wait
<1>14. ASSUME NEW w \in Workers, Spurious(w)  PROVE TypeOK'
  BY <1>14 DEF TypeOK, Spurious
<1>15. ASSUME NEW w \in Workers, Take(w)  PROVE TypeOK'
  <2>1. TASK_QUEUE[PROCESSED_TASKS] \in Task /\ PROCESSED_TASKS \in Slots
    BY <1>15 DEF TypeOK, Take, CanDereference
  <2> QED BY <1>15, <2>1 DEF TypeOK, Take
<1>16. ASSUME NEW w \in Workers, Poison(w)  PROVE TypeOK'
  <2>1. TASK_QUEUE[PROCESSED_TASKS] \in Task
    BY <1>16 DEF TypeOK, Poison, CanDereference
  <2>2. pc' \in [Workers -> {"unborn", "lock", "test", "waiting", "encode", "post",
                             "pill", "done"}]
    <3>1. \/ pc' = [pc EXCEPT ![w] = "pill"]
          \/ \E v \in Workers : pc' = [[pc EXCEPT ![w] = "pill"] EXCEPT ![v] = "lock"]
      BY <1>16, SignalledWakesOne DEF Poison
    <3>2. QED BY <3>1 DEF TypeOK
  <2> QED BY <1>16, <2>1, <2>2 DEF TypeOK, Poison
<1>17. ASSUME NEW w \in Workers, PoisonUp(w)  PROVE TypeOK'
  <2>1. READY_QUEUE' \in [Slots -> Nat]
    BY <1>17, UpRaises DEF TypeOK, PoisonUp
  <2> QED BY <1>17, <2>1 DEF TypeOK, PoisonUp
<1>18. ASSUME NEW w \in Workers, Encode(w)  PROVE TypeOK'
  BY <1>18 DEF TypeOK, Encode
<1>19. ASSUME NEW w \in Workers, Post(w)  PROVE TypeOK'
  <2>1. READY_QUEUE' \in [Slots -> Nat]
    BY <1>19, UpRaises DEF TypeOK, Post
  <2> QED BY <1>19, <2>1 DEF TypeOK, Post
<1>20. ASSUME UNCHANGED vars  PROVE TypeOK'
  BY <1>20 DEF TypeOK, vars
<1> QED
  BY <1>1, <1>2, <1>3, <1>4, <1>5, <1>6, <1>7, <1>8, <1>9, <1>10, <1>11, <1>12, <1>13,
     <1>14, <1>15, <1>16, <1>17, <1>18, <1>19, <1>20
  DEF Next, MainStep, Work, Terminated

(* TypeOK holds in every reachable state, for every instance.                    *)
THEOREM TypeCorrect == Spec => []TypeOK
<1>1. Init => TypeOK BY InitType
<1>2. TypeOK /\ [Next]_vars => TypeOK' BY TypeStep
<1> QED BY <1>1, <1>2, PTL DEF Spec

(* A submission moves no worker but one that waits, and wakes one if there is.   *)
LEMMA SubmitWakes ==
  ASSUME TypeOK, Submit
  PROVE  /\ \A v \in Workers : \/ pc'[v] = pc[v]
                               \/ pc[v] = "waiting" /\ pc'[v] = "lock"
         /\ (\E v \in Workers : pc[v] = "waiting") =>
              \E v \in Workers : pc[v] = "waiting" /\ pc'[v] = "lock"
<1>1. \/ pc' = pc /\ \A v \in Workers : pc[v] # "waiting"
      \/ \E v \in Workers : pc[v] = "waiting" /\ pc' = [pc EXCEPT ![v] = "lock"]
  BY SignalledWakesOne DEF Submit
<1>2. QED BY <1>1 DEF TypeOK

(* A worker that takes the pill moves to its end and wakes one that waits.       *)
LEMMA PoisonWakes ==
  ASSUME TypeOK, NEW w \in Workers, Poison(w)
  PROVE  /\ pc'[w] = "pill"
         /\ \A v \in Workers \ {w} : \/ pc'[v] = pc[v]
                                     \/ pc[v] = "waiting" /\ pc'[v] = "lock"
         /\ (\E v \in Workers : pc[v] = "waiting") =>
              \E v \in Workers : pc[v] = "waiting" /\ pc'[v] = "lock"
<1> DEFINE p == [pc EXCEPT ![w] = "pill"]
<1>1. pc[w] = "test" /\ p[w] = "pill" /\ \A v \in Workers \ {w} : p[v] = pc[v]
  BY DEF Poison, TypeOK
<1>2. pc' \in Signalled(p)
  BY DEF Poison
<1>3. p \in [Workers -> {"unborn", "lock", "test", "waiting", "encode", "post",
                         "pill", "done"}]
  BY DEF TypeOK
<1> HIDE DEF p
<1>4. \/ pc' = p /\ \A v \in Workers : p[v] # "waiting"
      \/ \E v \in Workers : p[v] = "waiting" /\ pc' = [p EXCEPT ![v] = "lock"]
  BY <1>2, SignalledWakesOne
<1>5. QED BY <1>1, <1>3, <1>4

--------------------------------------------------------------------------------
(* The inductive invariant: one lemma for each part.                             *)

(* Every lock and unlock is paired.                                              *)
LEMMA MutexStep ==
  ASSUME TypeOK, MutexInv, [Next]_vars
  PROVE  MutexInv'
<1> USE WorkersAssumption
<1>1. ASSUME NEW w \in Workers, CreateThread(w)  PROVE MutexInv'
  BY <1>1 DEF TypeOK, MutexInv, CreateThread
<1>2. ASSUME CreateFails \/ OpenFails  PROVE MutexInv'
  BY <1>2 DEF TypeOK, MutexInv, CreateFails, OpenFails, HandleError
<1>3. ASSUME OpenFile  PROVE MutexInv'
  BY <1>3 DEF TypeOK, MutexInv, OpenFile
<1>4. ASSUME NoMoreFiles  PROVE MutexInv'
  BY <1>4 DEF TypeOK, MutexInv, NoMoreFiles
<1>5. ASSUME MainLock  PROVE MutexInv'
  BY <1>5 DEF TypeOK, MutexInv, MainLock
<1>6. ASSUME Submit  PROVE MutexInv'
  BY <1>6, SubmitWakes DEF TypeOK, MutexInv, Submit
<1>7. ASSUME SubmitOverflows  PROVE MutexInv'
  BY <1>7 DEF TypeOK, MutexInv, SubmitOverflows
<1>8. ASSUME Down  PROVE MutexInv'
  BY <1>8 DEF TypeOK, MutexInv, Down
<1>9. ASSUME Merge  PROVE MutexInv'
  BY <1>9 DEF TypeOK, MutexInv, Merge
<1>10. ASSUME Flush  PROVE MutexInv'
  BY <1>10 DEF TypeOK, MutexInv, Flush
<1>11. ASSUME Join  PROVE MutexInv'
  BY <1>11 DEF TypeOK, MutexInv, Join
<1>12. ASSUME NEW w \in Workers, Lock(w)  PROVE MutexInv'
  BY <1>12 DEF TypeOK, MutexInv, Lock
<1>13. ASSUME NEW w \in Workers, Wait(w)  PROVE MutexInv'
  BY <1>13 DEF TypeOK, MutexInv, Wait
<1>14. ASSUME NEW w \in Workers, Spurious(w)  PROVE MutexInv'
  BY <1>14 DEF TypeOK, MutexInv, Spurious
<1>15. ASSUME NEW w \in Workers, Take(w)  PROVE MutexInv'
  BY <1>15 DEF TypeOK, MutexInv, Take
<1>16. ASSUME NEW w \in Workers, Poison(w)  PROVE MutexInv'
  BY <1>16, PoisonWakes DEF TypeOK, MutexInv, Poison
<1>17. ASSUME NEW w \in Workers, PoisonUp(w)  PROVE MutexInv'
  BY <1>17 DEF TypeOK, MutexInv, PoisonUp
<1>18. ASSUME NEW w \in Workers, Encode(w)  PROVE MutexInv'
  BY <1>18 DEF TypeOK, MutexInv, Encode
<1>19. ASSUME NEW w \in Workers, Post(w)  PROVE MutexInv'
  BY <1>19 DEF TypeOK, MutexInv, Post
<1>20. ASSUME UNCHANGED vars  PROVE MutexInv'
  BY <1>20 DEF TypeOK, MutexInv, vars
<1> QED
  BY <1>1, <1>2, <1>3, <1>4, <1>5, <1>6, <1>7, <1>8, <1>9, <1>10, <1>11, <1>12, <1>13,
     <1>14, <1>15, <1>16, <1>17, <1>18, <1>19, <1>20
  DEF Next, MainStep, Work, Terminated

(* Submissions fill the slots in order, the pill last.                           *)
LEMMA QueueStep ==
  ASSUME TypeOK, QueueInv, [Next]_vars
  PROVE  QueueInv'
<1> USE SizesAssumption, NullAssumption DEF Slots
<1>1. ASSUME NEW w \in Workers, CreateThread(w)  PROVE QueueInv'
  BY <1>1 DEF TypeOK, QueueInv, PillSubmitted, IsPill, CreateThread
<1>2. ASSUME CreateFails \/ OpenFails  PROVE QueueInv'
  BY <1>2
  DEF TypeOK, QueueInv, PillSubmitted, IsPill, CreateFails, OpenFails,
      HandleError
<1>3. ASSUME OpenFile  PROVE QueueInv'
  BY <1>3 DEF TypeOK, QueueInv, PillSubmitted, IsPill, OpenFile
<1>4. ASSUME NoMoreFiles  PROVE QueueInv'
  BY <1>4 DEF TypeOK, QueueInv, PillSubmitted, IsPill, NoMoreFiles
<1>5. ASSUME MainLock  PROVE QueueInv'
  BY <1>5 DEF TypeOK, QueueInv, PillSubmitted, IsPill, MainLock
<1>6. ASSUME Submit  PROVE QueueInv'
  <2>1. NextTask \in Task /\ NextTask.id = id /\ (IsPill(NextTask) <=> arg > Len(argv))
    BY NextTaskIsTask DEF TypeOK
  <2>2. PillSubmitted' <=> arg > Len(argv)
    BY <1>6 DEF PillSubmitted, Submit, TypeOK
  <2>3. ~PillSubmitted  BY <1>6 DEF PillSubmitted, Submit
  <2> QED BY <1>6, <2>1, <2>2, <2>3 DEF TypeOK, QueueInv, Submit, IsPill, Task
<1>7. ASSUME SubmitOverflows  PROVE QueueInv'
  BY <1>7 DEF TypeOK, QueueInv, PillSubmitted, IsPill, SubmitOverflows
<1>8. ASSUME Down  PROVE QueueInv'
  BY <1>8 DEF TypeOK, QueueInv, PillSubmitted, IsPill, Down
<1>9. ASSUME Merge  PROVE QueueInv'
  BY <1>9 DEF TypeOK, QueueInv, PillSubmitted, IsPill, Merge
<1>10. ASSUME Flush  PROVE QueueInv'
  BY <1>10 DEF TypeOK, QueueInv, PillSubmitted, IsPill, Flush
<1>11. ASSUME Join  PROVE QueueInv'
  BY <1>11 DEF TypeOK, QueueInv, PillSubmitted, IsPill, Join
<1>12. ASSUME NEW w \in Workers, Lock(w)  PROVE QueueInv'
  BY <1>12 DEF TypeOK, QueueInv, PillSubmitted, IsPill, Lock
<1>13. ASSUME NEW w \in Workers, Wait(w)  PROVE QueueInv'
  BY <1>13 DEF TypeOK, QueueInv, PillSubmitted, IsPill, Wait
<1>14. ASSUME NEW w \in Workers, Spurious(w)  PROVE QueueInv'
  BY <1>14 DEF TypeOK, QueueInv, PillSubmitted, IsPill, Spurious
<1>15. ASSUME NEW w \in Workers, Take(w)  PROVE QueueInv'
  BY <1>15 DEF TypeOK, QueueInv, PillSubmitted, IsPill, Take
<1>16. ASSUME NEW w \in Workers, Poison(w)  PROVE QueueInv'
  BY <1>16 DEF TypeOK, QueueInv, PillSubmitted, IsPill, Poison
<1>17. ASSUME NEW w \in Workers, PoisonUp(w)  PROVE QueueInv'
  BY <1>17 DEF TypeOK, QueueInv, PillSubmitted, IsPill, PoisonUp
<1>18. ASSUME NEW w \in Workers, Encode(w)  PROVE QueueInv'
  BY <1>18 DEF TypeOK, QueueInv, PillSubmitted, IsPill, Encode
<1>19. ASSUME NEW w \in Workers, Post(w)  PROVE QueueInv'
  BY <1>19 DEF TypeOK, QueueInv, PillSubmitted, IsPill, Post
<1>20. ASSUME UNCHANGED vars  PROVE QueueInv'
  BY <1>20 DEF TypeOK, QueueInv, PillSubmitted, IsPill, vars
<1> QED
  BY <1>1, <1>2, <1>3, <1>4, <1>5, <1>6, <1>7, <1>8, <1>9, <1>10, <1>11, <1>12, <1>13,
     <1>14, <1>15, <1>16, <1>17, <1>18, <1>19, <1>20
  DEF Next, MainStep, Work, Terminated

(* PROCESSED_TASKS never passes the pill.                                        *)
LEMMA CountStep ==
  ASSUME TypeOK, MutexInv, QueueInv, CountInv, [Next]_vars
  PROVE  CountInv'
<1> USE SizesAssumption, NullAssumption DEF Slots
<1>1. ASSUME NEW w \in Workers, CreateThread(w)  PROVE CountInv'
  BY <1>1
  DEF TypeOK, CountInv, QueueInv, PillSubmitted, CanDereference, CreateThread
<1>2. ASSUME CreateFails \/ OpenFails  PROVE CountInv'
  BY <1>2
  DEF TypeOK, CountInv, QueueInv, PillSubmitted, CanDereference, CreateFails,
      OpenFails, HandleError
<1>3. ASSUME OpenFile  PROVE CountInv'
  BY <1>3 DEF TypeOK, CountInv, QueueInv, PillSubmitted, CanDereference, OpenFile
<1>4. ASSUME NoMoreFiles  PROVE CountInv'
  BY <1>4 DEF TypeOK, CountInv, QueueInv, PillSubmitted, CanDereference, NoMoreFiles
<1>5. ASSUME MainLock  PROVE CountInv'
  BY <1>5 DEF TypeOK, CountInv, QueueInv, PillSubmitted, CanDereference, MainLock
<1>6. ASSUME Submit  PROVE CountInv'
  BY <1>6 DEF TypeOK, CountInv, QueueInv, PillSubmitted, CanDereference, Submit
<1>7. ASSUME SubmitOverflows  PROVE CountInv'
  BY <1>7
  DEF TypeOK, CountInv, QueueInv, PillSubmitted, CanDereference, SubmitOverflows
<1>8. ASSUME Down  PROVE CountInv'
  BY <1>8 DEF TypeOK, CountInv, QueueInv, PillSubmitted, CanDereference, Down
<1>9. ASSUME Merge  PROVE CountInv'
  BY <1>9 DEF TypeOK, CountInv, QueueInv, PillSubmitted, CanDereference, Merge
<1>10. ASSUME Flush  PROVE CountInv'
  BY <1>10 DEF TypeOK, CountInv, QueueInv, PillSubmitted, CanDereference, Flush
<1>11. ASSUME Join  PROVE CountInv'
  BY <1>11 DEF TypeOK, CountInv, QueueInv, PillSubmitted, CanDereference, Join
<1>12. ASSUME NEW w \in Workers, Lock(w)  PROVE CountInv'
  BY <1>12 DEF TypeOK, CountInv, QueueInv, PillSubmitted, CanDereference, Lock
<1>13. ASSUME NEW w \in Workers, Wait(w)  PROVE CountInv'
  BY <1>13 DEF TypeOK, CountInv, QueueInv, PillSubmitted, CanDereference, Wait
<1>14. ASSUME NEW w \in Workers, Spurious(w)  PROVE CountInv'
  BY <1>14 DEF TypeOK, CountInv, QueueInv, PillSubmitted, CanDereference, Spurious
<1>15. ASSUME NEW w \in Workers, Take(w)  PROVE CountInv'
  BY <1>15 DEF TypeOK, CountInv, QueueInv, PillSubmitted, CanDereference, Take
<1>16. ASSUME NEW w \in Workers, Poison(w)  PROVE CountInv'
  BY <1>16 DEF TypeOK, CountInv, QueueInv, PillSubmitted, CanDereference, Poison
<1>17. ASSUME NEW w \in Workers, PoisonUp(w)  PROVE CountInv'
  BY <1>17 DEF TypeOK, CountInv, QueueInv, PillSubmitted, CanDereference, PoisonUp
<1>18. ASSUME NEW w \in Workers, Encode(w)  PROVE CountInv'
  BY <1>18 DEF TypeOK, CountInv, QueueInv, PillSubmitted, CanDereference, Encode
<1>19. ASSUME NEW w \in Workers, Post(w)  PROVE CountInv'
  BY <1>19 DEF TypeOK, CountInv, QueueInv, PillSubmitted, CanDereference, Post
<1>20. ASSUME UNCHANGED vars  PROVE CountInv'
  BY <1>20 DEF TypeOK, CountInv, QueueInv, PillSubmitted, CanDereference, vars
<1> QED
  BY <1>1, <1>2, <1>3, <1>4, <1>5, <1>6, <1>7, <1>8, <1>9, <1>10, <1>11, <1>12, <1>13,
     <1>14, <1>15, <1>16, <1>17, <1>18, <1>19, <1>20
  DEF Next, MainStep, Work, Terminated

(* A task goes to one worker.                                                    *)
LEMMA HeldStep ==
  ASSUME IInv, [Next]_vars
  PROVE  HeldInv'
<1> USE SizesAssumption, NullAssumption DEF Slots
<1>1. ASSUME NEW w \in Workers, CreateThread(w)  PROVE HeldInv'
  BY <1>1
  DEF IInv, TypeOK, HeldInv, MutexInv, QueueInv, CountInv, PillSubmitted,
      CanDereference, Holds, Task, CreateThread
<1>2. ASSUME CreateFails \/ OpenFails  PROVE HeldInv'
  BY <1>2 DEF IInv, HeldInv, Holds, CreateFails, OpenFails, HandleError
<1>3. ASSUME OpenFile  PROVE HeldInv'
  BY <1>3 DEF IInv, HeldInv, Holds, OpenFile
<1>4. ASSUME NoMoreFiles  PROVE HeldInv'
  BY <1>4 DEF IInv, HeldInv, Holds, NoMoreFiles
<1>5. ASSUME MainLock  PROVE HeldInv'
  BY <1>5 DEF IInv, HeldInv, Holds, MainLock
<1>6. ASSUME Submit  PROVE HeldInv'
  <2>1. \A w \in Workers : pc'[w] \in {"encode", "post", "pill"} => pc'[w] = pc[w]
    BY <1>6, SubmitWakes DEF IInv
  <2>2. \A k \in Slots : k < PROCESSED_TASKS => TASK_QUEUE'[k] = TASK_QUEUE[k]
    BY <1>6 DEF IInv, TypeOK, CountInv, Submit
  <2>3. task' = task /\ PROCESSED_TASKS' = PROCESSED_TASKS
        /\ IS_ALL_PROCESSED' = IS_ALL_PROCESSED
    BY <1>6 DEF Submit
  <2> QED BY <2>1, <2>2, <2>3 DEF IInv, HeldInv, Holds
<1>7. ASSUME SubmitOverflows  PROVE HeldInv'
  BY <1>7 DEF IInv, HeldInv, Holds, SubmitOverflows
<1>8. ASSUME Down  PROVE HeldInv'
  BY <1>8 DEF IInv, HeldInv, Holds, Down
<1>9. ASSUME Merge  PROVE HeldInv'
  BY <1>9 DEF IInv, HeldInv, Holds, Merge
<1>10. ASSUME Flush  PROVE HeldInv'
  BY <1>10 DEF IInv, HeldInv, Holds, Flush
<1>11. ASSUME Join  PROVE HeldInv'
  BY <1>11 DEF IInv, HeldInv, Holds, Join
<1>12. ASSUME NEW w \in Workers, Lock(w)  PROVE HeldInv'
  BY <1>12
  DEF IInv, TypeOK, HeldInv, MutexInv, QueueInv, CountInv, PillSubmitted,
      CanDereference, Holds, Task, Lock
<1>13. ASSUME NEW w \in Workers, Wait(w)  PROVE HeldInv'
  BY <1>13
  DEF IInv, TypeOK, HeldInv, MutexInv, QueueInv, CountInv, PillSubmitted,
      CanDereference, Holds, Task, Wait
<1>14. ASSUME NEW w \in Workers, Spurious(w)  PROVE HeldInv'
  BY <1>14
  DEF IInv, TypeOK, HeldInv, MutexInv, QueueInv, CountInv, PillSubmitted,
      CanDereference, Holds, Task, Spurious
<1>15. ASSUME NEW w \in Workers, Take(w)  PROVE HeldInv'
  BY <1>15
  DEF IInv, TypeOK, HeldInv, MutexInv, QueueInv, CountInv, PillSubmitted,
      CanDereference, Holds, Task, Take
<1>16. ASSUME NEW w \in Workers, Poison(w)  PROVE HeldInv'
  <2>1. \A v \in Workers \ {w} :
          pc'[v] \in {"encode", "post", "pill"} => pc'[v] = pc[v] /\ task'[v] = task[v]
    BY <1>16, PoisonWakes DEF IInv, TypeOK, Poison
  <2>2. pc'[w] = "pill"
    BY <1>16, PoisonWakes DEF IInv
  <2>3. task'[w].id = PROCESSED_TASKS /\ IS_ALL_PROCESSED'
        /\ UNCHANGED <<TASK_QUEUE, PROCESSED_TASKS>>
    BY <1>16 DEF IInv, TypeOK, QueueInv, Poison, CanDereference
  <2>4. \A v \in Workers : pc'[v] \in {"encode", "post"} =>
          v # w /\ pc[v] = pc'[v] /\ task'[v] = task[v]
    BY <2>1, <2>2
  <2>5. \A v \in Workers : pc'[v] = "pill" =>
          IS_ALL_PROCESSED' /\ task'[v].id = PROCESSED_TASKS'
    BY <2>1, <2>2, <2>3 DEF IInv, HeldInv
  <2> QED BY <2>3, <2>4, <2>5 DEF IInv, HeldInv, Holds
<1>17. ASSUME NEW w \in Workers, PoisonUp(w)  PROVE HeldInv'
  BY <1>17
  DEF IInv, TypeOK, HeldInv, MutexInv, QueueInv, CountInv, PillSubmitted,
      CanDereference, Holds, Task, PoisonUp
<1>18. ASSUME NEW w \in Workers, Encode(w)  PROVE HeldInv'
  BY <1>18
  DEF IInv, TypeOK, HeldInv, MutexInv, QueueInv, CountInv, PillSubmitted,
      CanDereference, Holds, Task, Encode
<1>19. ASSUME NEW w \in Workers, Post(w)  PROVE HeldInv'
  BY <1>19
  DEF IInv, TypeOK, HeldInv, MutexInv, QueueInv, CountInv, PillSubmitted,
      CanDereference, Holds, Task, Post
<1>20. ASSUME UNCHANGED vars  PROVE HeldInv'
  BY <1>20
  DEF IInv, TypeOK, HeldInv, MutexInv, QueueInv, CountInv, PillSubmitted,
      CanDereference, Holds, Task, vars
<1> QED
  BY <1>1, <1>2, <1>3, <1>4, <1>5, <1>6, <1>7, <1>8, <1>9, <1>10, <1>11, <1>12, <1>13,
     <1>14, <1>15, <1>16, <1>17, <1>18, <1>19, <1>20
  DEF Next, MainStep, Work, Terminated

(* Results are stored where their task was taken from.                           *)
LEMMA ResultStep ==
  ASSUME IInv, [Next]_vars
  PROVE  ResultInv'
<1> USE SizesAssumption, NullAssumption DEF Slots
<1>1. ASSUME NEW w \in Workers, CreateThread(w)  PROVE ResultInv'
  BY <1>1
  DEF IInv, TypeOK, ResultInv, HeldInv, CountInv, QueueInv, Holds,
      PillSubmitted, CanDereference, ResultOf, Chunk, PoisonResult, NoResult,
      CreateThread
<1>2. ASSUME CreateFails \/ OpenFails  PROVE ResultInv'
  BY <1>2
  DEF IInv, TypeOK, ResultInv, HeldInv, CountInv, QueueInv, Holds,
      PillSubmitted, CanDereference, ResultOf, Chunk, PoisonResult, NoResult,
      CreateFails, OpenFails, HandleError
<1>3. ASSUME OpenFile  PROVE ResultInv'
  BY <1>3
  DEF IInv, TypeOK, ResultInv, HeldInv, CountInv, QueueInv, Holds,
      PillSubmitted, CanDereference, ResultOf, Chunk, PoisonResult, NoResult,
      OpenFile
<1>4. ASSUME NoMoreFiles  PROVE ResultInv'
  BY <1>4
  DEF IInv, TypeOK, ResultInv, HeldInv, CountInv, QueueInv, Holds,
      PillSubmitted, CanDereference, ResultOf, Chunk, PoisonResult, NoResult,
      NoMoreFiles
<1>5. ASSUME MainLock  PROVE ResultInv'
  BY <1>5
  DEF IInv, TypeOK, ResultInv, HeldInv, CountInv, QueueInv, Holds,
      PillSubmitted, CanDereference, ResultOf, Chunk, PoisonResult, NoResult,
      MainLock
<1>6. ASSUME Submit  PROVE ResultInv'
  <2>1. \A w \in Workers : pc'[w] \in {"encode", "post"} => pc'[w] = pc[w]
    BY <1>6, SubmitWakes DEF IInv
  <2>2. \A k \in Slots : k < PROCESSED_TASKS => TASK_QUEUE'[k] = TASK_QUEUE[k]
    BY <1>6 DEF IInv, TypeOK, CountInv, Submit
  <2>3. \A k \in Slots : k < PROCESSED_TASKS =>
          ResultOf(TASK_QUEUE[k])' = ResultOf(TASK_QUEUE[k])
    BY <1>6, <2>2 DEF Submit, ResultOf, Chunk
  <2>4. UNCHANGED <<RESULT_QUEUE, task, PROCESSED_TASKS, IS_ALL_PROCESSED>>
    BY <1>6 DEF Submit
  <2> QED BY <2>1, <2>3, <2>4 DEF IInv, ResultInv
<1>7. ASSUME SubmitOverflows  PROVE ResultInv'
  BY <1>7
  DEF IInv, TypeOK, ResultInv, HeldInv, CountInv, QueueInv, Holds,
      PillSubmitted, CanDereference, ResultOf, Chunk, PoisonResult, NoResult,
      SubmitOverflows
<1>8. ASSUME Down  PROVE ResultInv'
  BY <1>8
  DEF IInv, TypeOK, ResultInv, HeldInv, CountInv, QueueInv, Holds,
      PillSubmitted, CanDereference, ResultOf, Chunk, PoisonResult, NoResult,
      Down
<1>9. ASSUME Merge  PROVE ResultInv'
  BY <1>9
  DEF IInv, TypeOK, ResultInv, HeldInv, CountInv, QueueInv, Holds,
      PillSubmitted, CanDereference, ResultOf, Chunk, PoisonResult, NoResult,
      Merge
<1>10. ASSUME Flush  PROVE ResultInv'
  BY <1>10
  DEF IInv, TypeOK, ResultInv, HeldInv, CountInv, QueueInv, Holds,
      PillSubmitted, CanDereference, ResultOf, Chunk, PoisonResult, NoResult,
      Flush
<1>11. ASSUME Join  PROVE ResultInv'
  BY <1>11
  DEF IInv, TypeOK, ResultInv, HeldInv, CountInv, QueueInv, Holds,
      PillSubmitted, CanDereference, ResultOf, Chunk, PoisonResult, NoResult,
      Join
<1>12. ASSUME NEW w \in Workers, Lock(w)  PROVE ResultInv'
  BY <1>12
  DEF IInv, TypeOK, ResultInv, HeldInv, CountInv, QueueInv, Holds,
      PillSubmitted, CanDereference, ResultOf, Chunk, PoisonResult, NoResult,
      Lock
<1>13. ASSUME NEW w \in Workers, Wait(w)  PROVE ResultInv'
  BY <1>13
  DEF IInv, TypeOK, ResultInv, HeldInv, CountInv, QueueInv, Holds,
      PillSubmitted, CanDereference, ResultOf, Chunk, PoisonResult, NoResult,
      Wait
<1>14. ASSUME NEW w \in Workers, Spurious(w)  PROVE ResultInv'
  BY <1>14
  DEF IInv, TypeOK, ResultInv, HeldInv, CountInv, QueueInv, Holds,
      PillSubmitted, CanDereference, ResultOf, Chunk, PoisonResult, NoResult,
      Spurious
<1>15. ASSUME NEW w \in Workers, Take(w)  PROVE ResultInv'
  BY <1>15
  DEF IInv, TypeOK, ResultInv, HeldInv, CountInv, QueueInv, Holds,
      PillSubmitted, CanDereference, ResultOf, Chunk, PoisonResult, NoResult,
      Take
<1>16. ASSUME NEW w \in Workers, Poison(w)  PROVE ResultInv'
  <2>1. PROCESSED_TASKS \in Slots /\ TASK_QUEUE[PROCESSED_TASKS].id = PROCESSED_TASKS
    BY <1>16 DEF IInv, TypeOK, QueueInv, Poison, CanDereference
  <2>2. /\ RESULT_QUEUE' = [RESULT_QUEUE EXCEPT ![PROCESSED_TASKS] = PoisonResult]
        /\ IS_ALL_PROCESSED' /\ UNCHANGED <<argv, TASK_QUEUE, PROCESSED_TASKS>>
    BY <1>16, <2>1 DEF Poison
  <2>3. /\ RESULT_QUEUE'[PROCESSED_TASKS] = PoisonResult
        /\ \A k \in Slots : k # PROCESSED_TASKS => RESULT_QUEUE'[k] = RESULT_QUEUE[k]
    BY <2>1, <2>2 DEF IInv, TypeOK
  <2>4. \A v \in Workers : pc'[v] \in {"encode", "post"} =>
          v # w /\ pc[v] = pc'[v] /\ task'[v] = task[v]
    BY <1>16, PoisonWakes DEF IInv, TypeOK, Poison
  <2>5. \A v \in Workers : pc'[v] \in {"encode", "post"} =>
          task[v].id \in Slots /\ task[v].id # PROCESSED_TASKS
    BY <2>4, <2>1 DEF IInv, HeldInv
  <2>6. \A k \in Slots : k < PROCESSED_TASKS => ResultOf(TASK_QUEUE[k])' = ResultOf(TASK_QUEUE[k])
    BY <2>2 DEF ResultOf, Chunk
  <2>7. \A k \in Slots :
          \/ RESULT_QUEUE'[k] = NoResult
          \/ k < PROCESSED_TASKS' /\ RESULT_QUEUE'[k] = ResultOf(TASK_QUEUE[k])'
          \/ IS_ALL_PROCESSED' /\ k = PROCESSED_TASKS' /\ RESULT_QUEUE'[k] = PoisonResult
    BY <2>1, <2>2, <2>3, <2>6 DEF IInv, ResultInv
  <2> QED BY <2>2, <2>3, <2>4, <2>5, <2>7 DEF IInv, ResultInv
<1>17. ASSUME NEW w \in Workers, PoisonUp(w)  PROVE ResultInv'
  BY <1>17
  DEF IInv, TypeOK, ResultInv, HeldInv, CountInv, QueueInv, Holds,
      PillSubmitted, CanDereference, ResultOf, Chunk, PoisonResult, NoResult,
      PoisonUp
<1>18. ASSUME NEW w \in Workers, Encode(w)  PROVE ResultInv'
  BY <1>18
  DEF IInv, TypeOK, ResultInv, HeldInv, CountInv, QueueInv, Holds,
      PillSubmitted, CanDereference, ResultOf, Chunk, PoisonResult, NoResult,
      Encode
<1>19. ASSUME NEW w \in Workers, Post(w)  PROVE ResultInv'
  BY <1>19
  DEF IInv, TypeOK, ResultInv, HeldInv, CountInv, QueueInv, Holds,
      PillSubmitted, CanDereference, ResultOf, Chunk, PoisonResult, NoResult,
      Post
<1>20. ASSUME UNCHANGED vars  PROVE ResultInv'
  BY <1>20
  DEF IInv, TypeOK, ResultInv, HeldInv, CountInv, QueueInv, Holds,
      PillSubmitted, CanDereference, ResultOf, Chunk, PoisonResult, NoResult,
      vars
<1> QED
  BY <1>1, <1>2, <1>3, <1>4, <1>5, <1>6, <1>7, <1>8, <1>9, <1>10, <1>11, <1>12, <1>13,
     <1>14, <1>15, <1>16, <1>17, <1>18, <1>19, <1>20
  DEF Next, MainStep, Work, Terminated

(* A semaphore is raised after its result has been stored.                       *)
LEMMA AnnouncedStep ==
  ASSUME IInv, [Next]_vars
  PROVE  AnnouncedInv'
<1> USE SizesAssumption, NullAssumption DEF Slots
<1>1. ASSUME NEW w \in Workers, CreateThread(w)  PROVE AnnouncedInv'
  BY <1>1
  DEF IInv, TypeOK, AnnouncedInv, Announced, ResultInv, HeldInv, CountInv,
      QueueInv, Holds, PillSubmitted, CanDereference, PoisonResult, NoResult,
      ResultOf, CreateThread
<1>2. ASSUME CreateFails \/ OpenFails  PROVE AnnouncedInv'
  BY <1>2
  DEF IInv, TypeOK, AnnouncedInv, Announced, ResultInv, HeldInv, CountInv,
      QueueInv, Holds, PillSubmitted, CanDereference, PoisonResult, NoResult,
      ResultOf, CreateFails, OpenFails, HandleError
<1>3. ASSUME OpenFile  PROVE AnnouncedInv'
  BY <1>3
  DEF IInv, TypeOK, AnnouncedInv, Announced, ResultInv, HeldInv, CountInv,
      QueueInv, Holds, PillSubmitted, CanDereference, PoisonResult, NoResult,
      ResultOf, OpenFile
<1>4. ASSUME NoMoreFiles  PROVE AnnouncedInv'
  BY <1>4
  DEF IInv, TypeOK, AnnouncedInv, Announced, ResultInv, HeldInv, CountInv,
      QueueInv, Holds, PillSubmitted, CanDereference, PoisonResult, NoResult,
      ResultOf, NoMoreFiles
<1>5. ASSUME MainLock  PROVE AnnouncedInv'
  BY <1>5
  DEF IInv, TypeOK, AnnouncedInv, Announced, ResultInv, HeldInv, CountInv,
      QueueInv, Holds, PillSubmitted, CanDereference, PoisonResult, NoResult,
      ResultOf, MainLock
<1>6. ASSUME Submit  PROVE AnnouncedInv'
  BY <1>6, SubmitWakes
  DEF IInv, TypeOK, AnnouncedInv, Announced, ResultInv, HeldInv, CountInv,
      QueueInv, Holds, PillSubmitted, Submit
<1>7. ASSUME SubmitOverflows  PROVE AnnouncedInv'
  BY <1>7
  DEF IInv, TypeOK, AnnouncedInv, Announced, ResultInv, HeldInv, CountInv,
      QueueInv, Holds, PillSubmitted, CanDereference, PoisonResult, NoResult,
      ResultOf, SubmitOverflows
<1>8. ASSUME Down  PROVE AnnouncedInv'
  BY <1>8
  DEF IInv, TypeOK, AnnouncedInv, Announced, ResultInv, HeldInv, CountInv,
      QueueInv, Holds, PillSubmitted, Down, down
<1>9. ASSUME Merge  PROVE AnnouncedInv'
  BY <1>9
  DEF IInv, TypeOK, AnnouncedInv, Announced, ResultInv, HeldInv, CountInv,
      QueueInv, Holds, PillSubmitted, CanDereference, PoisonResult, NoResult,
      ResultOf, Merge
<1>10. ASSUME Flush  PROVE AnnouncedInv'
  BY <1>10
  DEF IInv, TypeOK, AnnouncedInv, Announced, ResultInv, HeldInv, CountInv,
      QueueInv, Holds, PillSubmitted, CanDereference, PoisonResult, NoResult,
      ResultOf, Flush
<1>11. ASSUME Join  PROVE AnnouncedInv'
  BY <1>11
  DEF IInv, TypeOK, AnnouncedInv, Announced, ResultInv, HeldInv, CountInv,
      QueueInv, Holds, PillSubmitted, CanDereference, PoisonResult, NoResult,
      ResultOf, Join
<1>12. ASSUME NEW w \in Workers, Lock(w)  PROVE AnnouncedInv'
  BY <1>12
  DEF IInv, TypeOK, AnnouncedInv, Announced, ResultInv, HeldInv, CountInv,
      QueueInv, Holds, PillSubmitted, CanDereference, PoisonResult, NoResult,
      ResultOf, Lock
<1>13. ASSUME NEW w \in Workers, Wait(w)  PROVE AnnouncedInv'
  BY <1>13
  DEF IInv, TypeOK, AnnouncedInv, Announced, ResultInv, HeldInv, CountInv,
      QueueInv, Holds, PillSubmitted, CanDereference, PoisonResult, NoResult,
      ResultOf, Wait
<1>14. ASSUME NEW w \in Workers, Spurious(w)  PROVE AnnouncedInv'
  BY <1>14
  DEF IInv, TypeOK, AnnouncedInv, Announced, ResultInv, HeldInv, CountInv,
      QueueInv, Holds, PillSubmitted, CanDereference, PoisonResult, NoResult,
      ResultOf, Spurious
<1>15. ASSUME NEW w \in Workers, Take(w)  PROVE AnnouncedInv'
  BY <1>15
  DEF IInv, TypeOK, AnnouncedInv, Announced, ResultInv, HeldInv, CountInv,
      QueueInv, Holds, PillSubmitted, CanDereference, PoisonResult, NoResult,
      ResultOf, Take
<1>16. ASSUME NEW w \in Workers, Poison(w)  PROVE AnnouncedInv'
  <2>1. \A v \in Workers, k \in Slots : Holds(v, k)' => Holds(v, k)
    <3>1. task' = [task EXCEPT ![w] = TASK_QUEUE[PROCESSED_TASKS]]
      BY <1>16 DEF Poison
    <3>2. \A v \in Workers : pc'[v] \in {"encode", "post"} => v # w /\ pc'[v] = pc[v]
      BY <1>16, PoisonWakes DEF IInv
    <3> QED BY <3>1, <3>2 DEF IInv, TypeOK, Holds
  <2>2. \A k \in Slots : Announced(k)' => Announced(k)
    BY <1>16 DEF Announced, Poison
  <2>3. \A k \in Slots : RESULT_QUEUE[k] # NoResult => RESULT_QUEUE'[k] # NoResult
    BY <1>16 DEF IInv, TypeOK, Poison, PoisonResult, NoResult
  <2> QED BY <2>1, <2>2, <2>3 DEF IInv, AnnouncedInv
<1>17. ASSUME NEW w \in Workers, PoisonUp(w)  PROVE AnnouncedInv'
  <2>1. \A v \in Workers, k \in Slots : Holds(v, k)' => Holds(v, k)
    BY <1>17 DEF IInv, TypeOK, Holds, PoisonUp
  <2>2. \A k \in Slots : Announced(k)' => Announced(k) \/ k = task[w].id
    BY <1>17, UpRaises DEF IInv, TypeOK, Announced, PoisonUp
  <2>3. RESULT_QUEUE' = RESULT_QUEUE
    BY <1>17 DEF PoisonUp
  <2>4. ASSUME task[w].id \in Slots
        PROVE  RESULT_QUEUE[task[w].id] # NoResult /\ \A v \in Workers : ~Holds(v, task[w].id)
    <3>1. IS_ALL_PROCESSED /\ task[w].id = PROCESSED_TASKS
      BY <1>17 DEF IInv, HeldInv, PoisonUp
    <3>2. \A v \in Workers : ~Holds(v, task[w].id)
      BY <2>4, <3>1 DEF IInv, HeldInv, Holds, TypeOK, CountInv
    <3> QED BY <2>4, <3>1, <3>2 DEF IInv, ResultInv, PoisonResult, NoResult
  <2> QED BY <2>1, <2>2, <2>3, <2>4 DEF IInv, AnnouncedInv
<1>18. ASSUME NEW w \in Workers, Encode(w)  PROVE AnnouncedInv'
  BY <1>18
  DEF IInv, TypeOK, AnnouncedInv, Announced, ResultInv, HeldInv, CountInv,
      QueueInv, Holds, PillSubmitted, CanDereference, PoisonResult, NoResult,
      ResultOf, Encode
<1>19. ASSUME NEW w \in Workers, Post(w)  PROVE AnnouncedInv'
  <2>1. \A v \in Workers, k \in Slots : Holds(v, k)' => v # w /\ Holds(v, k)
    BY <1>19 DEF IInv, TypeOK, Holds, Post
  <2>2. \A k \in Slots : Announced(k)' => Announced(k) \/ k = task[w].id
    BY <1>19, UpRaises DEF IInv, TypeOK, Announced, Post
  <2>3. RESULT_QUEUE' = RESULT_QUEUE
    BY <1>19 DEF Post
  <2>4. /\ task[w].id \in Slots /\ RESULT_QUEUE[task[w].id] # NoResult
        /\ \A v \in Workers \ {w} : ~Holds(v, task[w].id)
    BY <1>19 DEF IInv, HeldInv, ResultInv, Holds, Post
  <2> QED BY <2>1, <2>2, <2>3, <2>4 DEF IInv, AnnouncedInv
<1>20. ASSUME UNCHANGED vars  PROVE AnnouncedInv'
  BY <1>20
  DEF IInv, TypeOK, AnnouncedInv, Announced, ResultInv, HeldInv, CountInv,
      QueueInv, Holds, PillSubmitted, CanDereference, PoisonResult, NoResult,
      ResultOf, vars
<1> QED
  BY <1>1, <1>2, <1>3, <1>4, <1>5, <1>6, <1>7, <1>8, <1>9, <1>10, <1>11, <1>12, <1>13,
     <1>14, <1>15, <1>16, <1>17, <1>18, <1>19, <1>20
  DEF Next, MainStep, Work, Terminated

(* The writer stays within the submitted tasks.                                  *)
LEMMA WriterStep ==
  ASSUME IInv, [Next]_vars
  PROVE  WriterInv'
<1> USE SizesAssumption DEF Slots
<1>1. ASSUME NEW w \in Workers, CreateThread(w)  PROVE WriterInv'
  BY <1>1 DEF IInv, TypeOK, WriterInv, QueueInv, PillSubmitted, CreateThread
<1>2. ASSUME CreateFails \/ OpenFails  PROVE WriterInv'
  BY <1>2
  DEF IInv, TypeOK, WriterInv, QueueInv, PillSubmitted, CreateFails, OpenFails,
      HandleError
<1>3. ASSUME OpenFile  PROVE WriterInv'
  BY <1>3 DEF IInv, TypeOK, WriterInv, QueueInv, PillSubmitted, OpenFile
<1>4. ASSUME NoMoreFiles  PROVE WriterInv'
  BY <1>4 DEF IInv, TypeOK, WriterInv, QueueInv, PillSubmitted, NoMoreFiles
<1>5. ASSUME MainLock  PROVE WriterInv'
  BY <1>5 DEF IInv, TypeOK, WriterInv, QueueInv, PillSubmitted, MainLock
<1>6. ASSUME Submit  PROVE WriterInv'
  BY <1>6 DEF IInv, TypeOK, WriterInv, QueueInv, PillSubmitted, Submit
<1>7. ASSUME SubmitOverflows  PROVE WriterInv'
  BY <1>7 DEF IInv, TypeOK, WriterInv, QueueInv, PillSubmitted, SubmitOverflows
<1>8. ASSUME Down  PROVE WriterInv'
  BY <1>8 DEF IInv, TypeOK, WriterInv, QueueInv, PillSubmitted, Down
<1>9. ASSUME Merge  PROVE WriterInv'
  BY <1>9
  DEF IInv, TypeOK, AnnouncedInv, Announced, ResultInv, CountInv, QueueInv,
      PillSubmitted, WriterInv, Merge, EndOfResults, NoResult, PoisonResult
<1>10. ASSUME Flush  PROVE WriterInv'
  BY <1>10
  DEF IInv, TypeOK, AnnouncedInv, Announced, ResultInv, CountInv, QueueInv,
      PillSubmitted, WriterInv, Flush, EndOfResults, NoResult, ResultOf
<1>11. ASSUME Join  PROVE WriterInv'
  BY <1>11 DEF IInv, TypeOK, WriterInv, QueueInv, PillSubmitted, Join
<1>12. ASSUME NEW w \in Workers, Lock(w)  PROVE WriterInv'
  BY <1>12 DEF IInv, TypeOK, WriterInv, QueueInv, PillSubmitted, Lock
<1>13. ASSUME NEW w \in Workers, Wait(w)  PROVE WriterInv'
  BY <1>13 DEF IInv, TypeOK, WriterInv, QueueInv, PillSubmitted, Wait
<1>14. ASSUME NEW w \in Workers, Spurious(w)  PROVE WriterInv'
  BY <1>14 DEF IInv, TypeOK, WriterInv, QueueInv, PillSubmitted, Spurious
<1>15. ASSUME NEW w \in Workers, Take(w)  PROVE WriterInv'
  BY <1>15 DEF IInv, TypeOK, WriterInv, QueueInv, PillSubmitted, Take
<1>16. ASSUME NEW w \in Workers, Poison(w)  PROVE WriterInv'
  BY <1>16 DEF IInv, TypeOK, WriterInv, QueueInv, PillSubmitted, Poison
<1>17. ASSUME NEW w \in Workers, PoisonUp(w)  PROVE WriterInv'
  BY <1>17 DEF IInv, TypeOK, WriterInv, QueueInv, PillSubmitted, PoisonUp
<1>18. ASSUME NEW w \in Workers, Encode(w)  PROVE WriterInv'
  BY <1>18 DEF IInv, TypeOK, WriterInv, QueueInv, PillSubmitted, Encode
<1>19. ASSUME NEW w \in Workers, Post(w)  PROVE WriterInv'
  BY <1>19 DEF IInv, TypeOK, WriterInv, QueueInv, PillSubmitted, Post
<1>20. ASSUME UNCHANGED vars  PROVE WriterInv'
  BY <1>20 DEF IInv, TypeOK, WriterInv, QueueInv, PillSubmitted, vars
<1> QED
  BY <1>1, <1>2, <1>3, <1>4, <1>5, <1>6, <1>7, <1>8, <1>9, <1>10, <1>11, <1>12, <1>13,
     <1>14, <1>15, <1>16, <1>17, <1>18, <1>19, <1>20
  DEF Next, MainStep, Work, Terminated

(* Whenever one worker goes to sleep or ends, another one that waits is woken.   *)
LEMMA WakeStep ==
  ASSUME IInv, WakeInv, [Next]_vars
  PROVE  WakeInv'
<1> USE WorkersAssumption
<1>1. ASSUME NEW w \in Workers, CreateThread(w)  PROVE WakeInv'
  BY <1>1 DEF IInv, TypeOK, MutexInv, WakeInv, Active, MustWait, CreateThread
<1>2. ASSUME CreateFails \/ OpenFails  PROVE WakeInv'
  BY <1>2
  DEF IInv, TypeOK, MutexInv, WakeInv, Active, MustWait, CreateFails, OpenFails,
      HandleError
<1>3. ASSUME OpenFile  PROVE WakeInv'
  BY <1>3 DEF IInv, TypeOK, MutexInv, WakeInv, Active, MustWait, OpenFile
<1>4. ASSUME NoMoreFiles  PROVE WakeInv'
  BY <1>4 DEF IInv, TypeOK, MutexInv, WakeInv, Active, MustWait, NoMoreFiles
<1>5. ASSUME MainLock  PROVE WakeInv'
  BY <1>5 DEF IInv, TypeOK, MutexInv, WakeInv, Active, MustWait, MainLock
<1>6. ASSUME Submit  PROVE WakeInv'
  BY <1>6, SubmitWakes DEF IInv, TypeOK, MutexInv, WakeInv, Active, Submit
<1>7. ASSUME SubmitOverflows  PROVE WakeInv'
  BY <1>7 DEF IInv, TypeOK, MutexInv, WakeInv, Active, MustWait, SubmitOverflows
<1>8. ASSUME Down  PROVE WakeInv'
  BY <1>8 DEF IInv, TypeOK, MutexInv, WakeInv, Active, MustWait, Down
<1>9. ASSUME Merge  PROVE WakeInv'
  BY <1>9 DEF IInv, TypeOK, MutexInv, WakeInv, Active, MustWait, Merge
<1>10. ASSUME Flush  PROVE WakeInv'
  BY <1>10 DEF IInv, TypeOK, MutexInv, WakeInv, Active, MustWait, Flush
<1>11. ASSUME Join  PROVE WakeInv'
  BY <1>11 DEF IInv, TypeOK, MutexInv, WakeInv, Active, MustWait, Join
<1>12. ASSUME NEW w \in Workers, Lock(w)  PROVE WakeInv'
  BY <1>12 DEF IInv, TypeOK, MutexInv, WakeInv, Active, MustWait, Lock
<1>13. ASSUME NEW w \in Workers, Wait(w)  PROVE WakeInv'
  BY <1>13 DEF IInv, TypeOK, MutexInv, WakeInv, Active, MustWait, Wait
<1>14. ASSUME NEW w \in Workers, Spurious(w)  PROVE WakeInv'
  BY SMTT(30), <1>14 DEF IInv, TypeOK, MutexInv, WakeInv, Active, MustWait, Spurious
<1>15. ASSUME NEW w \in Workers, Take(w)  PROVE WakeInv'
  BY <1>15 DEF IInv, TypeOK, MutexInv, WakeInv, Active, MustWait, Take
<1>16. ASSUME NEW w \in Workers, Poison(w)  PROVE WakeInv'
  BY ZenonT(60), <1>16, PoisonWakes DEF IInv, TypeOK, MutexInv, WakeInv, Active, Poison
<1>17. ASSUME NEW w \in Workers, PoisonUp(w)  PROVE WakeInv'
  BY <1>17 DEF IInv, TypeOK, MutexInv, WakeInv, Active, MustWait, PoisonUp
<1>18. ASSUME NEW w \in Workers, Encode(w)  PROVE WakeInv'
  BY <1>18 DEF IInv, TypeOK, MutexInv, WakeInv, Active, MustWait, Encode
<1>19. ASSUME NEW w \in Workers, Post(w)  PROVE WakeInv'
  BY SMTT(30), <1>19 DEF IInv, TypeOK, MutexInv, WakeInv, Active, MustWait, Post
<1>20. ASSUME UNCHANGED vars  PROVE WakeInv'
  BY <1>20 DEF IInv, TypeOK, MutexInv, WakeInv, Active, MustWait, vars
<1> QED
  BY <1>1, <1>2, <1>3, <1>4, <1>5, <1>6, <1>7, <1>8, <1>9, <1>10, <1>11, <1>12, <1>13,
     <1>14, <1>15, <1>16, <1>17, <1>18, <1>19, <1>20
  DEF Next, MainStep, Work, Terminated

(* Cutting the files goes on from where it stands.                               *)
LEMMA CutStep ==
  ASSUME TypeOK, CutInv, [Next]_vars
  PROVE  CutInv'
<1> DEFINE u == ChunksUpTo(argv)
           L == Len(argv)
<1>1. /\ L \in Nat /\ u \in [0..L -> Nat] /\ u[0] = 0 /\ Chunks(argv) = u[L]
      /\ argv \in Seq(Seq(Nat)) /\ \A n \in 1..L : Len(argv[n]) \in Nat
  <2>1. argv \in Seq(Seq(Nat))
    BY InputsAssumption DEF TypeOK
  <2>2. \A n \in 1..L : Len(argv[n]) \in Nat
    BY <2>1
  <2> QED BY <2>1, <2>2, ChunksUpToIs DEF Chunks
<1>2. SUBMITTED_TASKS \in Nat /\ arg \in Nat \ {0} /\ size \in Nat /\ L \in Nat /\ arg <= L + 1
  BY <1>1 DEF TypeOK, CutInv
<1> HIDE DEF u
<1>3. ASSUME UNCHANGED <<argv, SUBMITTED_TASKS, mpc, arg, size>> PROVE CutInv'
  BY <1>3 DEF CutInv, PillSubmitted
<1>4. ASSUME UNCHANGED <<argv, SUBMITTED_TASKS, arg, size>>, mpc' \in {"failed", "create"},
             mpc' = "create" => mpc = "create"
      PROVE  CutInv'
  BY <1>4 DEF CutInv, PillSubmitted
<1>5. ASSUME NEW w \in Workers, CreateThread(w)  PROVE CutInv'
  BY <1>5 DEF CreateThread, CutInv, PillSubmitted
<1>6. ASSUME OpenFile  PROVE CutInv'
  <2>1. /\ mpc = "open" /\ mpc' = "lock" /\ size' = 0 /\ arg <= L /\ Len(argv[arg]) > 0
        /\ UNCHANGED <<argv, SUBMITTED_TASKS, arg>>
    BY <1>6 DEF OpenFile
  <2>2. 0 = 0 * CHUNK_SIZE /\ 0 \in Nat
    BY SizesAssumption
  <2>3. SUBMITTED_TASKS = u[arg - 1] + 0
    <3>1. SUBMITTED_TASKS = u[arg - 1] /\ arg - 1 \in 0..L
      BY <1>1, <1>2, <2>1 DEF CutInv, u
    <3> QED BY <1>1, <3>1
  <2>4. \E q \in Nat : size' = q * CHUNK_SIZE /\ SUBMITTED_TASKS = u[arg - 1] + q
    BY <2>1, <2>2, <2>3
  <2> QED BY <2>1, <2>4 DEF CutInv, PillSubmitted, u
<1>7. ASSUME NoMoreFiles  PROVE CutInv'
  <2>1. /\ mpc = "open" /\ mpc' = "lock" /\ arg = L + 1
        /\ UNCHANGED <<argv, SUBMITTED_TASKS, arg, size>>
    BY <1>2, <1>7 DEF NoMoreFiles
  <2>2. SUBMITTED_TASKS = u[L]
    BY <1>1, <2>1 DEF CutInv, u
  <2> QED BY <1>1, <2>1, <2>2 DEF CutInv, PillSubmitted
<1>8. ASSUME MainLock  PROVE CutInv'
  BY <1>8 DEF MainLock, CutInv, PillSubmitted
<1>9. ASSUME Submit  PROVE CutInv'
  <2>1. /\ mpc = "submit" /\ SUBMITTED_TASKS' = SUBMITTED_TASKS + 1 /\ argv' = argv
        /\ SUBMITTED_TASKS < MAX_TASK_NUM
    BY <1>9 DEF Submit
  <2>2. CASE arg = L + 1
    <3>1. mpc' = "down" /\ arg' = arg /\ SUBMITTED_TASKS = u[L]
      BY <1>1, <1>2, <1>9, <2>1, <2>2 DEF Submit, CutInv
    <3> QED BY <1>1, <1>2, <2>1, <2>2, <3>1 DEF CutInv, PillSubmitted
  <2>3. CASE arg <= L
    <3> DEFINE length == Len(argv[arg])
    <3>1. arg \in 1..L /\ length \in Nat /\ size < length
      BY <1>1, <1>2, <2>1, <2>3 DEF CutInv
    <3>2. PICK q \in Nat : size = q * CHUNK_SIZE /\ SUBMITTED_TASKS = u[arg - 1] + q
      BY <1>1, <1>2, <2>1, <2>3 DEF CutInv, u
    <3>3. /\ u[arg - 1] \in Nat /\ (q + 1) * CHUNK_SIZE = size + CHUNK_SIZE
          /\ size + CHUNK_SIZE >= length => u[arg] = u[arg - 1] + (q + 1)
      BY <1>1, <3>1, <3>2, NextCut DEF u
    <3>4. SUBMITTED_TASKS' = u[arg - 1] + (q + 1)
      BY <2>1, <3>2, <3>3
    <3>5. CASE size + CHUNK_SIZE < length
      <4>1. size' = size + CHUNK_SIZE /\ mpc' = "lock" /\ arg' = arg
        BY <1>2, <1>9, <2>3, <3>1, <3>5, SizesAssumption DEF Submit
      <4>2. \E r \in Nat : size' = r * CHUNK_SIZE /\ SUBMITTED_TASKS' = u[arg - 1] + r
        <5>1. q + 1 \in Nat
          OBVIOUS
        <5> QED BY <3>3, <3>4, <4>1, <5>1
      <4> QED BY <1>2, <2>1, <2>3, <3>1, <3>5, <4>1, <4>2 DEF CutInv, PillSubmitted, u
    <3>6. CASE size + CHUNK_SIZE >= length
      <4>1. arg' = arg + 1 /\ mpc' = "open"
        BY <1>2, <1>9, <2>3, <3>1, <3>6, SizesAssumption DEF Submit
      <4>2. SUBMITTED_TASKS' = u[arg' - 1]
        BY <3>1, <3>3, <3>4, <3>6, <4>1
      <4> QED BY <1>1, <1>2, <2>1, <2>3, <4>1, <4>2 DEF CutInv, PillSubmitted, u
    <3> QED BY <3>1, <3>5, <3>6, <1>2, SizesAssumption
  <2> QED BY <1>1, <1>2, <2>2, <2>3
<1>10. ASSUME SubmitOverflows  PROVE CutInv'
  <2>1. /\ mpc = "submit" /\ mpc' = "overflow" /\ SUBMITTED_TASKS >= MAX_TASK_NUM
        /\ UNCHANGED <<argv, SUBMITTED_TASKS, arg, size>>
    BY <1>10 DEF SubmitOverflows
  <2>2. SUBMITTED_TASKS <= Chunks(argv)
    <3>1. CASE arg = L + 1
      BY <1>1, <1>2, <2>1, <3>1 DEF CutInv
    <3>2. CASE arg <= L
      <4>1. arg \in 1..L /\ size < Len(argv[arg])
        BY <1>1, <1>2, <2>1, <3>2 DEF CutInv
      <4>2. PICK q \in Nat : size = q * CHUNK_SIZE /\ SUBMITTED_TASKS = u[arg - 1] + q
        BY <1>1, <1>2, <2>1, <3>2 DEF CutInv, u
      <4>3. Chunks(argv) \in Nat /\ SUBMITTED_TASKS < Chunks(argv)
        BY <1>1, <4>1, <4>2, NextCut DEF u
      <4> QED BY <1>2, <4>3
    <3> QED BY <1>2, <3>1, <3>2
  <2>3. Chunks(argv) \in Nat
    BY <1>1
  <2> QED BY <1>2, <2>1, <2>2, <2>3, SizesAssumption DEF CutInv, PillSubmitted
<1>11. ASSUME Down \/ Merge \/ Flush \/ Join  PROVE CutInv'
  BY <1>11 DEF Down, Merge, Flush, Join, CutInv, PillSubmitted
<1>12. ASSUME NEW w \in Workers, Lock(w) \/ Work(w) \/ Spurious(w)  PROVE CutInv'
  BY <1>3, <1>12 DEF Lock, Work, Spurious, Wait, Take, Poison, PoisonUp, Encode, Post, queue, reader
<1>13. ASSUME CreateFails \/ OpenFails  PROVE CutInv'
  BY <1>4, <1>13 DEF CreateFails, OpenFails, HandleError, queue, reader
<1>14. ASSUME UNCHANGED vars  PROVE CutInv'
  BY <1>3, <1>14 DEF vars
<1> QED
  BY <1>5, <1>6, <1>7, <1>8, <1>9, <1>10, <1>11, <1>12, <1>13, <1>14 DEF Next, MainStep, Terminated

--------------------------------------------------------------------------------
(* The invariant holds initially.                                                *)
LEMMA InitInv == Init => IInv /\ WakeInv
<1> SUFFICES ASSUME Init PROVE IInv /\ WakeInv OBVIOUS
<1>1. TypeOK BY InitType
<1>2. MutexInv BY WorkersAssumption DEF Init, MutexInv
<1>3. QueueInv /\ CountInv /\ WriterInv
  BY SizesAssumption DEF Init, QueueInv, CountInv, WriterInv, PillSubmitted, Slots
<1>4. HeldInv /\ ResultInv BY DEF Init, HeldInv, ResultInv, Holds
<1>5. AnnouncedInv BY SizesAssumption DEF Init, AnnouncedInv, Announced, Slots
<1>6. WakeInv BY DEF Init, WakeInv
<1>7. QED BY <1>1, <1>2, <1>3, <1>4, <1>5, <1>6 DEF IInv

(* Every step keeps it.                                                          *)
LEMMA NextInv == IInv /\ [Next]_vars => IInv'
<1> SUFFICES ASSUME IInv, [Next]_vars PROVE IInv' OBVIOUS
<1>1. TypeOK' BY TypeStep DEF IInv
<1>2. MutexInv' BY MutexStep DEF IInv
<1>3. QueueInv' BY QueueStep DEF IInv
<1>4. CountInv' BY CountStep DEF IInv
<1>5. HeldInv' /\ ResultInv' /\ AnnouncedInv' /\ WriterInv'
  BY HeldStep, ResultStep, AnnouncedStep, WriterStep
<1>6. QED BY <1>1, <1>2, <1>3, <1>4, <1>5 DEF IInv

(* So both parts of the invariant hold in every reachable state.                 *)
THEOREM Invariance == Spec => [](IInv /\ WakeInv)
<1>1. Init => IInv /\ WakeInv BY InitInv
<1>2. IInv /\ WakeInv /\ [Next]_vars => (IInv /\ WakeInv)' BY NextInv, WakeStep
<1> QED BY <1>1, <1>2, PTL DEF Spec

(* So does CutInv.                                                              *)
LEMMA CutHolds == Spec => []CutInv
<1>1. Init => CutInv
  <2> SUFFICES ASSUME Init PROVE CutInv
    OBVIOUS
  <2>1. argv \in Seq(Seq(Nat)) /\ arg = 1 /\ SUBMITTED_TASKS = 0 /\ mpc = "create"
    BY InputsAssumption DEF Init
  <2>2. ChunksUpTo(argv)[0] = 0 /\ arg - 1 = 0
    BY <2>1, ChunksUpToIs
  <2>3. Len(argv) \in Nat
    BY <2>1
  <2> QED BY <2>1, <2>2, <2>3 DEF CutInv, PillSubmitted
<1>2. TypeOK /\ TypeOK' /\ CutInv /\ [Next]_vars => CutInv'
  BY CutStep
<1> QED BY <1>1, <1>2, TypeCorrect, PTL DEF Spec

(* In such a state what the writer reads is complete.                            *)
LEMMA ReadyIsComplete ==
  ASSUME IInv
  PROVE  ReadyResultIsComplete
<1> SUFFICES ASSUME mpc = "merge"
               PROVE  /\ i < SUBMITTED_TASKS
                      /\ RESULT_QUEUE[i] = IF IsPill(TASK_QUEUE[i]) THEN PoisonResult
                                           ELSE ResultOf(TASK_QUEUE[i])
  BY DEF ReadyResultIsComplete
<1>1. PillSubmitted /\ i < SUBMITTED_TASKS /\ i \in Slots
  BY SizesAssumption DEF IInv, TypeOK, WriterInv, PillSubmitted, Slots
<1>2. RESULT_QUEUE[i] # NoResult
  BY <1>1 DEF IInv, AnnouncedInv, Announced
<1>3. IsPill(TASK_QUEUE[i]) <=> i = SUBMITTED_TASKS - 1
  BY <1>1 DEF IInv, QueueInv
<1> QED BY <1>1, <1>2, <1>3, SizesAssumption DEF IInv, TypeOK, ResultInv, CountInv, Slots

--------------------------------------------------------------------------------
(* The properties.                                                               *)

(* No worker dereferences an empty slot or one past the end of the queue, however*)
(* many workers come for the one pill.                                           *)
THEOREM NoNullDereferenceHolds == Spec => []NoNullDereference
<1>1. IInv => NoNullDereference
  <2> SUFFICES ASSUME IInv, NEW w \in Workers, ~MustWait
               PROVE  CanDereference
    BY DEF NoNullDereference
  <2>1. PROCESSED_TASKS < SUBMITTED_TASKS
    BY DEF IInv, TypeOK, CountInv, QueueInv, MustWait
  <2>2. PROCESSED_TASKS \in Slots
    BY <2>1, SizesAssumption DEF IInv, TypeOK, Slots
  <2> QED BY <2>1, <2>2, NullAssumption DEF IInv, QueueInv, CanDereference, Task
<1> QED BY <1>1, Invariance, PTL

(* No two workers ever fill the same slot, and the writer never passes a slot    *)
(* that is still being filled.                                                   *)
THEOREM OneWorkerPerTaskHolds == Spec => []OneWorkerPerTask
<1>1. IInv => OneWorkerPerTask
  <2> SUFFICES ASSUME IInv, NEW w \in Workers, pc[w] \in {"encode", "post"}
               PROVE  /\ \A v \in Workers \ {w} :
                           pc[v] \in {"encode", "post"} => task[v].id # task[w].id
                      /\ task[w].id >= i
                      /\ pc[w] = "encode" => RESULT_QUEUE[task[w].id] = NoResult
    BY DEF OneWorkerPerTask
  <2>1. task[w].id \in Slots /\ task[w].id \in Nat /\ i \in Nat
    BY SizesAssumption DEF IInv, HeldInv, TypeOK, Slots
  <2>2. ~Announced(task[w].id)
    BY <2>1 DEF IInv, AnnouncedInv, Holds
  <2>3. task[w].id >= i
    BY <2>1, <2>2 DEF Announced
  <2> QED BY <2>1, <2>3 DEF IInv, HeldInv, Holds, ResultInv
<1> QED BY <1>1, Invariance, PTL

(* What the writer reads after down() is complete: the encoding of task i, or    *)
(* the poison exactly at the pill.                                               *)
THEOREM ReadyResultIsCompleteHolds == Spec => []ReadyResultIsComplete
BY ReadyIsComplete, Invariance, PTL

(* The writer stops at the pill, and has then merged a result for every task.    *)
THEOREM WriterStopsAtPillHolds == Spec => []WriterStopsAtPill
<1>1. IInv => WriterStopsAtPill
  <2> SUFFICES ASSUME IInv, mpc \in {"join", "exit"}
               PROVE  /\ i = SUBMITTED_TASKS - 1 /\ IsPill(TASK_QUEUE[i])
                      /\ \A k \in 0 .. i - 1 : /\ ~IsPill(TASK_QUEUE[k])
                                               /\ RESULT_QUEUE[k] # NoResult
    BY DEF WriterStopsAtPill
  <2>1. PillSubmitted /\ i = SUBMITTED_TASKS - 1 /\ i \in Slots /\ i \in Nat
    BY SizesAssumption DEF IInv, TypeOK, WriterInv, QueueInv, PillSubmitted, Slots
  <2>2. IsPill(TASK_QUEUE[i])
    BY <2>1, SizesAssumption DEF IInv, TypeOK, QueueInv
  <2>3. ASSUME NEW k \in 0 .. i - 1
        PROVE  ~IsPill(TASK_QUEUE[k]) /\ RESULT_QUEUE[k] # NoResult
    <3>1. k \in Slots /\ k < i /\ k < SUBMITTED_TASKS /\ k # SUBMITTED_TASKS - 1
      BY <2>1, <2>3, SizesAssumption DEF IInv, TypeOK, Slots
    <3> QED BY <3>1 DEF IInv, QueueInv, AnnouncedInv, Announced
  <2> QED BY <2>1, <2>2, <2>3
<1> QED BY <1>1, Invariance, PTL

(* The workers never all sleep while there is a task, or the pill, to take: no   *)
(* wake-up is lost for any number of workers.                                    *)
THEOREM NoLostWakeupHolds == Spec => []NoLostWakeup
<1>1. WakeInv => NoLostWakeup BY DEF WakeInv, NoLostWakeup, Active
<1> QED BY <1>1, Invariance, PTL

(* A result that is in the queue is never changed.                               *)
THEOREM PublishedResultsStayHolds == Spec => PublishedResultsStay
<1> DEFINE Stays == \A k \in Slots :
              RESULT_QUEUE[k] # NoResult => RESULT_QUEUE'[k] = RESULT_QUEUE[k]
<1>1. ASSUME IInv, [Next]_vars PROVE Stays
  <2>1. ASSUME NEW w \in Workers, Poison(w) PROVE Stays
    <3>1. PROCESSED_TASKS \in Slots /\ TASK_QUEUE[PROCESSED_TASKS].id = PROCESSED_TASKS
      BY <1>1, <2>1 DEF IInv, TypeOK, QueueInv, Poison, CanDereference
    <3>2. RESULT_QUEUE' = [RESULT_QUEUE EXCEPT ![PROCESSED_TASKS] = PoisonResult]
      BY <2>1, <3>1 DEF Poison
    <3>3. RESULT_QUEUE[PROCESSED_TASKS] \in {NoResult, PoisonResult}
      BY <1>1, <3>1, SizesAssumption DEF IInv, TypeOK, ResultInv, Slots
    <3> QED BY <1>1, <3>1, <3>2, <3>3 DEF IInv, TypeOK
  <2>2. ASSUME NEW w \in Workers, Encode(w) PROVE Stays
    <3>1. task[w].id \in Slots /\ RESULT_QUEUE[task[w].id] = NoResult
      BY <1>1, <2>2 DEF IInv, HeldInv, ResultInv, Encode
    <3> QED BY <1>1, <2>2, <3>1 DEF IInv, TypeOK, Encode
  <2>3. CASE UNCHANGED RESULT_QUEUE BY <2>3
  <2> QED
    BY <1>1, <2>1, <2>2, <2>3
    DEF Next, MainStep, Work, Terminated, CreateThread, CreateFails, OpenFails,
        HandleError, OpenFile, NoMoreFiles, MainLock, Submit, SubmitOverflows, Down,
        Merge, Flush, Join, Lock, Wait, Spurious, Take, PoisonUp, Post, vars
<1>2. IInv /\ [Next]_vars => [Stays]_vars BY <1>1
<1> QED BY <1>2, Invariance, PTL DEF PublishedResultsStay, Spec

(* The arrays are only too short for files that have more chunks than slots, and *)
(* a run that has cut up all its files has submitted a task for each chunk and   *)
(* one pill.                                                                     *)
THEOREM OverflowOnlyWhenTooLargeHolds == Spec => []OverflowOnlyWhenTooLarge
<1>1. CutInv => OverflowOnlyWhenTooLarge
  BY DEF CutInv, PillSubmitted, OverflowOnlyWhenTooLarge
<1> QED BY <1>1, CutHolds, PTL

--------------------------------------------------------------------------------
(* What is written.                                                              *)

(* Merging the result of a task takes the writer from where the task begins to   *)
(* where it ends.                                                                *)
LEMMA TaskMerged ==
  ASSUME argv \in Inputs, NEW t \in Task, IsPiece(t)
  PROVE  /\ Begins(t) \in 0..Len(FlattenSeq(argv)) /\ Ends(t) \in 0..Len(FlattenSeq(argv))
         /\ Begins(t) < Ends(t)
         /\ MergeResult(Written(FlattenSeq(argv))[Begins(t)], encoder(Chunk(t)))
              = Written(FlattenSeq(argv))[Ends(t)]
<1> DEFINE d == FlattenSeq(argv)
           a == Begins(t)
           o == Offset(argv, t.addr - 1)
<1>1. argv \in Seq(Seq(Nat))
  BY InputsAssumption
<1>2. t.start \in Nat /\ t.end \in Nat /\ t.start < t.end
  BY DEF Task, IsPiece
<1>3. d \in Seq(Nat) /\ Len(d) \in Nat
  <2>1. 0 \in 0..Len(argv)
    BY <1>1
  <2>2. d \in Seq(Nat)
    BY <1>1, <2>1, StreamIs
  <2> QED BY <2>2
<1> HIDE DEF d
<1>4. /\ o + t.end <= Len(d) /\ o \in Nat
      /\ Chunk(t) = SubSeq(d, (o + t.start) + 1, (o + t.start) + (t.end - t.start))
  BY <1>1, <1>2, ChunkOfStream DEF IsPiece, Chunk, d
<1>5. a = o + t.start /\ Ends(t) = o + t.end
  BY DEF Begins, Ends
<1> HIDE DEF a, o
<1>6. /\ a \in 0..Len(d) /\ Ends(t) \in 0..Len(d) /\ a < Ends(t) /\ a \in Nat
      /\ t.end - t.start \in Nat \ {0} /\ Ends(t) = a + (t.end - t.start)
      /\ a + (t.end - t.start) <= Len(d)
  <2>1. \A x, y, z, l \in Nat : y < z /\ x + z <= l =>
          /\ x + y \in 0..l /\ x + z \in 0..l /\ x + y < x + z /\ x + y \in Nat
          /\ z - y \in Nat \ {0} /\ x + z = (x + y) + (z - y) /\ (x + y) + (z - y) <= l
    OBVIOUS
  <2>2. /\ t.start \in Nat /\ t.end \in Nat /\ t.start < t.end /\ o \in Nat /\ Len(d) \in Nat
        /\ o + t.end <= Len(d)
    BY <1>2, <1>3, <1>4
  <2> QED BY <1>5, <2>1, <2>2
<1>7. MergeResult(Written(d)[a], encoder(Chunk(t))) = Written(d)[a + (t.end - t.start)]
  BY <1>3, <1>4, <1>5, <1>6, ChunkMerged
<1> QED BY <1>6, <1>7 DEF a, d

(* At the end of the stream what the writer has left completes the encoding.     *)
LEMMA StreamFlushed ==
  ASSUME argv \in Inputs, out = Written(FlattenSeq(argv))[Len(FlattenSeq(argv))],
         out' = [out EXCEPT !.stdout = Flushed(out)]
  PROVE  out'.stdout = Canonical(FlattenSeq(argv))
<1> DEFINE d == FlattenSeq(argv)
<1>1. d \in Seq(Nat)
  <2>1. argv \in Seq(Seq(Nat))
    BY InputsAssumption
  <2>2. 0 \in 0..Len(argv)
    BY <2>1
  <2> QED BY <2>1, <2>2, StreamIs
<1>2. out = Written(d)[Len(d)]
  OBVIOUS
<1> HIDE DEF d
<1>3. Flushed(out) = Canonical(d) /\ out \in Writer
  <2>1. Len(d) \in 0..Len(d) /\ Len(d) \in Len(d)..Len(d)
    BY <1>1
  <2>2. Written(d) \in [0..Len(d) -> Writer]
    BY <1>1, WrittenIs
  <2>3. Canonical(d) = Flushed(Written(d)[Len(d)])
    BY <1>1, <2>1, WrittenGrows
  <2> QED BY <1>2, <2>1, <2>2, <2>3
<1>4. out'.stdout = Flushed(out)
  BY <1>3 DEF Writer
<1> QED BY <1>3, <1>4 DEF d

(* A task put into the queue: those before it reach as far as they did.          *)
LEMMA QueueGrows ==
  ASSUME NEW n \in Slots, NEW t, argv' = argv, DOMAIN TASK_QUEUE = Slots,
         TASK_QUEUE' = [TASK_QUEUE EXCEPT ![n] = t]
  PROVE  /\ \A k \in 0..n : Reached(k)' = Reached(k)
         /\ Reached(n + 1)' = Ends(t)
         /\ TASK_QUEUE'[n] = t /\ \A k \in Slots : k # n => TASK_QUEUE'[k] = TASK_QUEUE[k]
<1>1. TASK_QUEUE'[n] = t /\ \A k \in Slots : k # n => TASK_QUEUE'[k] = TASK_QUEUE[k]
  OBVIOUS
<1>2. \A x : Ends(x)' = Ends(x)
  BY DEF Ends
<1>3. ASSUME NEW k \in 0..n PROVE Reached(k)' = Reached(k)
  <2>1. k # 0 => k - 1 \in Slots /\ k - 1 # n
    BY SizesAssumption DEF Slots
  <2>2. k # 0 => TASK_QUEUE'[k - 1] = TASK_QUEUE[k - 1]
    BY <1>1, <2>1
  <2> QED BY <1>2, <2>2 DEF Reached
<1>4. Reached(n + 1)' = Ends(t)
  <2>1. n + 1 # 0 /\ (n + 1) - 1 = n
    BY SizesAssumption DEF Slots
  <2>2. Reached(n + 1)' = Ends(t)'
    BY <1>1, <2>1 DEF Reached
  <2> QED BY <1>2, <2>2
<1> QED BY <1>1, <1>3, <1>4

(* The tasks before the pill reach to a place in the stream.                     *)
LEMMA ReachedIs ==
  ASSUME TypeOK, QueueInv, OrderInv, NEW k \in Nat, k <= SUBMITTED_TASKS,
         PillSubmitted => k < SUBMITTED_TASKS
  PROVE  Reached(k) \in 0..Len(FlattenSeq(argv))
<1>1. Len(FlattenSeq(argv)) \in Nat
  <2>1. argv \in Seq(Seq(Nat)) /\ 0 \in 0..Len(argv)
    BY InputsAssumption DEF TypeOK
  <2>2. FlattenSeq(argv) \in Seq(Nat)
    BY <2>1, StreamIs
  <2> QED BY <2>2
<1>2. CASE k = 0
  BY <1>1, <1>2 DEF Reached
<1>3. CASE k # 0
  <2> DEFINE t == TASK_QUEUE[k - 1]
  <2>1. PillSubmitted => k - 1 # SUBMITTED_TASKS - 1
    BY <1>3 DEF TypeOK
  <2>2. k - 1 \in Slots /\ k - 1 < SUBMITTED_TASKS
    BY <1>3, SizesAssumption DEF TypeOK, Slots
  <2>3. ~IsPill(t) /\ t \in Task
    BY <2>1, <2>2 DEF QueueInv
  <2>4. IsPiece(t) /\ Reached(k) = Ends(t) /\ argv \in Inputs
    BY <1>3, <2>2, <2>3 DEF OrderInv, Reached, TypeOK
  <2> HIDE DEF t
  <2> QED BY <2>3, <2>4, TaskMerged
<1> QED BY <1>2, <1>3

(* Steps that leave the queue alone.                                             *)
LEMMA OrderKept ==
  ASSUME OrderInv, UNCHANGED <<argv, TASK_QUEUE, SUBMITTED_TASKS>>,
         \/ UNCHANGED <<mpc, arg, size>>
         \/ mpc \in {"create", "open"} /\ mpc' \in {"create", "open"} /\ arg' = arg
         \/ mpc \in {"create", "open", "submit"} /\ mpc' \in {"failed", "overflow"}
         \/ mpc = "lock" /\ mpc' = "submit" /\ UNCHANGED <<arg, size>>
         \/ PillSubmitted /\ PillSubmitted'
  PROVE  OrderInv'
<1>1. /\ \A k : Reached(k)' = Reached(k)
      /\ \A t : Begins(t)' = Begins(t)
      /\ \A t : IsPiece(t)' = IsPiece(t)
  BY DEF Reached, Begins, Ends, IsPiece
<1>2. \A k \in Slots : k < SUBMITTED_TASKS' /\ ~IsPill(TASK_QUEUE'[k]) =>
       IsPiece(TASK_QUEUE[k])' /\ Begins(TASK_QUEUE[k])' = Reached(k)'
  BY <1>1 DEF OrderInv
<1> QED BY <1>1, <1>2 DEF OrderInv, PillSubmitted

(* The task just built is the next piece of the file.                            *)
LEMMA NextPiece ==
  ASSUME argv \in Inputs, arg \in Nat \ {0}, size \in Nat, arg <= Len(argv),
         size < Len(argv[arg])
  PROVE  /\ IsPiece(NextTask) /\ NextTask.start = size /\ NextTask.addr = arg
         /\ NextTask.end = IF size + CHUNK_SIZE < Len(argv[arg]) THEN size + CHUNK_SIZE
                                                               ELSE Len(argv[arg])
<1>1. argv \in Seq(Seq(Nat)) /\ arg \in Nat \ {0} /\ size \in Nat /\ CHUNK_SIZE \in Nat \ {0}
  BY InputsAssumption, SizesAssumption
<1>2. Len(argv) \in Nat /\ arg \in 1..Len(argv)
  BY <1>1
<1>3. Len(argv[arg]) \in Nat
  BY <1>1, <1>2
<1>4. size < Len(argv[arg])
  OBVIOUS
<1>5. NextTask = [addr |-> arg, start |-> size, end |-> ChunkEnd, id |-> id]
  BY DEF NextTask
<1>6. /\ ChunkEnd = IF size + CHUNK_SIZE < Len(argv[arg]) THEN size + CHUNK_SIZE
                                                          ELSE Len(argv[arg])
      /\ size < ChunkEnd /\ ChunkEnd <= Len(argv[arg])
  <2> DEFINE l == Len(argv[arg])
  <2>1. ChunkEnd = IF size + CHUNK_SIZE > l THEN l ELSE size + CHUNK_SIZE
    BY DEF ChunkEnd
  <2>2. l \in Nat /\ size < l
    BY <1>3, <1>4
  <2> HIDE DEF l
  <2>3. ChunkEnd = IF size + CHUNK_SIZE < l THEN size + CHUNK_SIZE ELSE l
    BY <1>1, <2>1, <2>2
  <2>4. size < ChunkEnd /\ ChunkEnd <= l
    BY <1>1, <2>1, <2>2
  <2> QED BY <2>3, <2>4 DEF l
<1> QED BY <1>2, <1>5, <1>6 DEF IsPiece

(* Every task is submitted where the last one ended.                             *)
LEMMA OrderSubmit ==
  ASSUME TypeOK, QueueInv, CutInv, OrderInv, Submit
  PROVE  OrderInv'
<1>1. PICK n \in Nat, t \in Task, o \in {Offset(argv, arg - 1)}, l \in {Len(argv[arg])} :
        n = SUBMITTED_TASKS /\ t = NextTask /\ o = Offset(argv, arg - 1) /\ l = Len(argv[arg])
  <2>1. SUBMITTED_TASKS \in Nat /\ NextTask \in Task
    BY NextTaskIsTask, SizesAssumption DEF TypeOK
  <2> QED BY <2>1, Zenon
<1>2. /\ mpc = "submit" /\ n < MAX_TASK_NUM /\ argv' = argv /\ SUBMITTED_TASKS' = n + 1
      /\ TASK_QUEUE' = [TASK_QUEUE EXCEPT ![n] = t]
  BY <1>1 DEF Submit
<1>3. /\ argv \in Seq(Seq(Nat)) /\ arg \in Nat \ {0} /\ size \in Nat /\ CHUNK_SIZE \in Nat \ {0}
      /\ n \in Slots /\ TASK_QUEUE \in [Slots -> Task \union {NULL}]
  BY <1>1, <1>2, InputsAssumption, SizesAssumption DEF TypeOK, Slots
<1>4. Len(argv) \in Nat
  BY <1>3
<1>5. TASK_QUEUE'[n] = t /\ \A k \in Slots : k # n => TASK_QUEUE'[k] = TASK_QUEUE[k]
  BY <1>2, <1>3
<1>6. /\ \A x : Begins(x)' = Begins(x)
      /\ \A x : IsPiece(x)' = IsPiece(x)
  BY <1>2 DEF Begins, IsPiece
<1>7. /\ \A k \in 0..n : Reached(k)' = Reached(k)
      /\ Reached(n + 1)' = Ends(t)
  BY <1>2, <1>3, QueueGrows
<1>8. Reached(SUBMITTED_TASKS)' = Ends(t) /\ n \in 0..n
  <2>1. Reached(SUBMITTED_TASKS)' = Reached(n + 1)'
    BY <1>2 DEF Reached
  <2> QED BY <1>7, <2>1
<1>9. Reached(n) = o + (IF arg <= Len(argv) THEN size ELSE 0)
  BY <1>1, <1>2 DEF OrderInv
<1>10. IsPill(t) <=> arg > Len(argv)
  BY <1>1, NextTaskIsTask DEF TypeOK
<1>11. arg <= Len(argv) =>
        /\ arg \in 1..Len(argv) /\ IsPiece(t) /\ t.start = size /\ t.addr = arg
        /\ t.end = IF size + CHUNK_SIZE < l THEN size + CHUNK_SIZE ELSE l
  <2>1. arg <= Len(argv) => arg \in 1..Len(argv) /\ size < Len(argv[arg]) /\ argv \in Inputs
    BY <1>2, <1>3, <1>4 DEF CutInv, TypeOK
  <2> QED BY <1>1, <1>3, <2>1, NextPiece
<1>12. arg <= Len(argv) => Begins(t) = Reached(n) /\ Ends(t) = o + t.end
  BY <1>1, <1>9, <1>11 DEF Begins, Ends
<1>13. ASSUME NEW k \in Slots, k < SUBMITTED_TASKS', ~IsPill(TASK_QUEUE'[k])
       PROVE  IsPiece(TASK_QUEUE[k])' /\ Begins(TASK_QUEUE[k])' = Reached(k)'
  <2>1. k \in 0..n
    BY <1>2, <1>13, SizesAssumption DEF Slots
  <2>2. IsPiece(TASK_QUEUE'[k]) /\ Begins(TASK_QUEUE'[k]) = Reached(k)
    <3>1. CASE k = n
      <4>1. TASK_QUEUE'[k] = t /\ arg <= Len(argv)
        BY <1>3, <1>4, <1>5, <1>10, <1>13, <3>1
      <4> QED BY <1>11, <1>12, <3>1, <4>1
    <3>2. CASE k # n
      <4>1. TASK_QUEUE'[k] = TASK_QUEUE[k] /\ k < n
        BY <1>5, <2>1, <3>2
      <4>2. IsPiece(TASK_QUEUE[k]) /\ Begins(TASK_QUEUE[k]) = Reached(k)
        BY <1>1, <1>13, <4>1 DEF OrderInv
      <4> QED BY <4>1, <4>2
    <3> QED BY <3>1, <3>2
  <2>3. PICK x : x = TASK_QUEUE'[k]
    OBVIOUS
  <2>4. IsPiece(TASK_QUEUE[k])' = IsPiece(x)' /\ Begins(TASK_QUEUE[k])' = Begins(x)'
    BY <2>3 DEF IsPiece, Begins
  <2> QED BY <1>6, <1>7, <2>1, <2>2, <2>3, <2>4
<1>14. CASE arg <= Len(argv)
  <2>1. CASE size + CHUNK_SIZE < l
    <3>1. size' = size + CHUNK_SIZE /\ mpc' = "lock" /\ arg' = arg
      BY <1>1, <1>3, <1>4, <1>11, <1>14, <2>1 DEF Submit
    <3>2. Reached(SUBMITTED_TASKS)' = o + size' /\ Offset(argv, arg - 1)' = o
      BY <1>1, <1>2, <1>8, <1>11, <1>12, <1>14, <2>1, <3>1 DEF Offset
    <3> QED BY <1>2, <1>13, <1>14, <3>1, <3>2 DEF OrderInv, PillSubmitted
  <2>2. CASE ~(size + CHUNK_SIZE < l)
    <3>1. arg' = arg + 1 /\ mpc' = "open"
      <4>1. l \in Nat
        BY <1>1, <1>3, <1>11, <1>14
      <4>2. size + CHUNK_SIZE >= l /\ size + CHUNK_SIZE >= Len(argv[arg])
        BY <1>1, <1>3, <2>2, <4>1
      <4>3. ~(size + CHUNK_SIZE < Len(argv[arg])) /\ ~(arg > Len(argv))
        BY <1>1, <1>3, <1>4, <1>14, <2>2
      <4> QED BY <4>2, <4>3 DEF Submit
    <3>2. Reached(SUBMITTED_TASKS)' = o + l
      BY <1>8, <1>11, <1>12, <1>14, <2>2
    <3>3. Offset(argv, arg) = o + l
      BY <1>1, <1>3, <1>11, <1>14, OffsetIs DEF Offset
    <3>4. Offset(argv, arg - 1)' = Offset(argv, arg)
      <4>1. arg' - 1 = arg
        BY <1>3, <3>1
      <4> QED BY <1>2, <4>1 DEF Offset
    <3> QED BY <1>13, <3>1, <3>2, <3>3, <3>4 DEF OrderInv, PillSubmitted
  <2> QED BY <2>1, <2>2
<1>15. CASE ~(arg <= Len(argv))
  <2>1. mpc' = "down" /\ arg = Len(argv) + 1
    <3>1. arg > Len(argv)
      BY <1>3, <1>4, <1>15
    <3> QED BY <1>3, <1>4, <1>15, <3>1 DEF Submit, CutInv
  <2>2. Reached(n) = Len(FlattenSeq(argv))
    <3>1. arg - 1 = Len(argv) /\ Len(argv) \in 0..Len(argv)
      BY <1>4, <2>1
    <3>2. Offset(argv, Len(argv)) = Len(FlattenSeq(argv)) /\ Offset(argv, Len(argv)) \in Nat
      BY <1>3, <3>1, StreamIs
    <3> QED BY <1>1, <1>9, <1>15, <3>1, <3>2
  <2>3. Reached(SUBMITTED_TASKS - 1)' = Reached(n)' /\ Len(FlattenSeq(argv))' = Len(FlattenSeq(argv))
    <3>1. SUBMITTED_TASKS' - 1 = n
      BY <1>2
    <3> QED BY <1>2, <3>1 DEF Reached
  <2>4. Reached(n)' = Reached(n)
    BY <1>7, <1>8
  <2> QED BY <1>13, <2>1, <2>2, <2>3, <2>4 DEF OrderInv, PillSubmitted
<1> QED BY <1>14, <1>15

(* The other steps leave the tasks where they are.                               *)
LEMMA OrderStep ==
  ASSUME IInv, CutInv, OrderInv, [Next]_vars
  PROVE  OrderInv'
<1>1. ASSUME NEW w \in Workers, CreateThread(w)  PROVE OrderInv'
  BY <1>1, OrderKept DEF CreateThread
<1>2. ASSUME CreateFails \/ OpenFails  PROVE OrderInv'
  BY <1>2, OrderKept DEF CreateFails, OpenFails, HandleError
<1>3. ASSUME OpenFile  PROVE OrderInv'
  <2>1. /\ mpc = "open" /\ mpc' = "lock" /\ size' = 0 /\ arg <= Len(argv)
        /\ UNCHANGED <<argv, TASK_QUEUE, SUBMITTED_TASKS, arg>>
    BY <1>3 DEF OpenFile
  <2>2. /\ \A k : Reached(k)' = Reached(k)
        /\ \A t : Begins(t)' = Begins(t)
        /\ \A t : IsPiece(t)' = IsPiece(t)
    BY <2>1 DEF Reached, Begins, Ends, IsPiece
  <2>3. \A k \in Slots : k < SUBMITTED_TASKS' /\ ~IsPill(TASK_QUEUE'[k]) =>
         IsPiece(TASK_QUEUE[k])' /\ Begins(TASK_QUEUE[k])' = Reached(k)'
    BY <2>1, <2>2 DEF OrderInv
  <2>4. Offset(argv, arg - 1) \in Nat
    <3>1. argv \in Seq(Seq(Nat)) /\ arg \in Nat \ {0}
      BY InputsAssumption DEF IInv, TypeOK
    <3>2. arg - 1 \in 0..Len(argv)
      BY <2>1, <3>1
    <3> QED BY <3>1, <3>2, StreamIs
  <2>5. Reached(SUBMITTED_TASKS)' = Offset(argv, arg - 1) + 0
    BY <2>1, <2>4 DEF OrderInv, Reached, Ends
  <2> QED BY <2>1, <2>3, <2>5 DEF OrderInv, PillSubmitted
<1>4. ASSUME NoMoreFiles  PROVE OrderInv'
  <2>1. /\ mpc = "open" /\ mpc' = "lock" /\ arg > Len(argv)
        /\ UNCHANGED <<argv, TASK_QUEUE, SUBMITTED_TASKS, arg>>
    BY <1>4 DEF NoMoreFiles
  <2>2. /\ \A k : Reached(k)' = Reached(k)
        /\ \A t : Begins(t)' = Begins(t)
        /\ \A t : IsPiece(t)' = IsPiece(t)
    BY <2>1 DEF Reached, Begins, Ends, IsPiece
  <2>3. \A k \in Slots : k < SUBMITTED_TASKS' /\ ~IsPill(TASK_QUEUE'[k]) =>
         IsPiece(TASK_QUEUE[k])' /\ Begins(TASK_QUEUE[k])' = Reached(k)'
    BY <2>1, <2>2 DEF OrderInv
  <2>4. Offset(argv, arg - 1) \in Nat /\ ~(arg <= Len(argv))
    <3>1. argv \in Seq(Seq(Nat)) /\ arg \in Nat \ {0} /\ arg \in 1..(Len(argv) + 1)
      BY InputsAssumption DEF IInv, TypeOK, CutInv
    <3>2. arg - 1 \in 0..Len(argv)
      BY <2>1, <3>1
    <3> QED BY <2>1, <3>1, <3>2, StreamIs
  <2>5. Reached(SUBMITTED_TASKS)' = Offset(argv, arg - 1) + 0
    BY <2>1, <2>4 DEF OrderInv, Reached, Ends
  <2> QED BY <2>1, <2>3, <2>4, <2>5 DEF OrderInv, PillSubmitted
<1>5. ASSUME MainLock  PROVE OrderInv'
  BY <1>5, OrderKept DEF MainLock
<1>6. ASSUME Submit  PROVE OrderInv'
  BY <1>6, OrderSubmit DEF IInv
<1>7. ASSUME SubmitOverflows  PROVE OrderInv'
  BY <1>7, OrderKept DEF SubmitOverflows
<1>8. ASSUME Down \/ Merge \/ Flush \/ Join  PROVE OrderInv'
  <2>1. UNCHANGED <<argv, TASK_QUEUE, SUBMITTED_TASKS>> /\ PillSubmitted /\ PillSubmitted'
    BY <1>8 DEF Down, Merge, Flush, Join, PillSubmitted
  <2> QED BY <2>1, OrderKept
<1>9. ASSUME NEW w \in Workers, Lock(w) \/ Work(w) \/ Spurious(w)  PROVE OrderInv'
  <2>1. UNCHANGED <<argv, TASK_QUEUE, SUBMITTED_TASKS, mpc, arg, size>>
    BY <1>9 DEF Lock, Work, Spurious, Wait, Take, Poison, PoisonUp, Encode, Post
  <2> QED BY <2>1, OrderKept
<1>10. ASSUME UNCHANGED vars  PROVE OrderInv'
  BY <1>10, OrderKept DEF vars
<1> QED
  BY <1>1, <1>2, <1>3, <1>4, <1>5, <1>6, <1>7, <1>8, <1>9, <1>10 DEF Next, MainStep, Terminated

(* Merging the next result brings the writer to the end of its task.             *)
LEMMA MergeReaches ==
  ASSUME IInv, OrderInv, OutInv, Merge
  PROVE  /\ out' = Written(FlattenSeq(argv))[Reached(i + 1)]
         /\ i + 1 < SUBMITTED_TASKS /\ Reached(i) < Reached(i + 1)
<1> DEFINE t == TASK_QUEUE[i]
<1>1. argv \in Inputs /\ i \in Nat /\ SUBMITTED_TASKS \in Nat
  BY SizesAssumption DEF IInv, TypeOK
<1>2. mpc = "merge" /\ out' = MergeResult(out, RESULT_QUEUE[i].buffer) /\ ~EndOfResults(RESULT_QUEUE[i])
  BY DEF Merge
<1>3. /\ i < SUBMITTED_TASKS /\ i \in Slots
      /\ RESULT_QUEUE[i] = IF IsPill(t) THEN PoisonResult ELSE ResultOf(t)
  <2>1. i < SUBMITTED_TASKS /\ RESULT_QUEUE[i] = IF IsPill(t) THEN PoisonResult ELSE ResultOf(t)
    BY <1>2, ReadyIsComplete DEF ReadyResultIsComplete
  <2> QED BY <1>1, <2>1, SizesAssumption DEF IInv, TypeOK, Slots
<1>4. ~IsPill(t) /\ RESULT_QUEUE[i].buffer = encoder(Chunk(t))
  BY <1>2, <1>3 DEF EndOfResults, PoisonResult, ResultOf
<1>5. t \in Task /\ i # SUBMITTED_TASKS - 1
  BY <1>2, <1>3, <1>4 DEF IInv, QueueInv, PillSubmitted
<1>6. IsPiece(t) /\ Begins(t) = Reached(i)
  BY <1>3, <1>4 DEF OrderInv
<1>7. Reached(i + 1) = Ends(t)
  <2>1. i + 1 # 0 /\ (i + 1) - 1 = i
    BY <1>1
  <2> QED BY <2>1 DEF Reached
<1>8. out = Written(FlattenSeq(argv))[Reached(i)]
  BY <1>2 DEF OutInv
<1> HIDE DEF t
<1>9. /\ MergeResult(Written(FlattenSeq(argv))[Begins(t)], encoder(Chunk(t)))
           = Written(FlattenSeq(argv))[Ends(t)]
      /\ Begins(t) < Ends(t)
  BY <1>1, <1>5, <1>6, TaskMerged
<1>10. i + 1 < SUBMITTED_TASKS
  BY <1>1, <1>3, <1>5
<1> QED BY <1>2, <1>4, <1>6, <1>7, <1>8, <1>9, <1>10

(* At the pill the writer has merged the whole stream.                           *)
LEMMA FlushReaches ==
  ASSUME IInv, OrderInv, OutInv, Flush
  PROVE  out = Written(FlattenSeq(argv))[Len(FlattenSeq(argv))] /\ out'.stdout = Canonical(FlattenSeq(argv))
<1> DEFINE d == FlattenSeq(argv)
<1>1. argv \in Seq(Seq(Nat)) /\ i \in Nat /\ SUBMITTED_TASKS \in Nat
  BY InputsAssumption, SizesAssumption DEF IInv, TypeOK
<1>2. mpc = "merge" /\ out' = [out EXCEPT !.stdout = Flushed(out)] /\ EndOfResults(RESULT_QUEUE[i])
  BY DEF Flush
<1>3. /\ i < SUBMITTED_TASKS /\ i \in Slots
      /\ RESULT_QUEUE[i] = IF IsPill(TASK_QUEUE[i]) THEN PoisonResult ELSE ResultOf(TASK_QUEUE[i])
  <2>1. /\ i < SUBMITTED_TASKS
        /\ RESULT_QUEUE[i] = IF IsPill(TASK_QUEUE[i]) THEN PoisonResult ELSE ResultOf(TASK_QUEUE[i])
    BY <1>2, ReadyIsComplete DEF ReadyResultIsComplete
  <2> QED BY <1>1, <2>1, SizesAssumption DEF IInv, TypeOK, Slots
<1>4. IsPill(TASK_QUEUE[i])
  BY <1>2, <1>3 DEF EndOfResults, ResultOf
<1>5. i = SUBMITTED_TASKS - 1
  BY <1>3, <1>4 DEF IInv, QueueInv
<1>6. Reached(i) = Len(d) /\ out = Written(d)[Reached(i)]
  BY <1>2, <1>5 DEF OrderInv, OutInv, PillSubmitted
<1>7. argv \in Inputs
  BY DEF IInv, TypeOK
<1> QED BY <1>2, <1>6, <1>7, StreamFlushed

(* Every step keeps the writer where it should be.                               *)
LEMMA OutStep ==
  ASSUME IInv, OrderInv, OutInv, [Next]_vars
  PROVE  OutInv'
<1>1. argv' = argv
  BY DEF Next, MainStep, Terminated, CreateThread, CreateFails, OpenFails, HandleError, OpenFile,
     NoMoreFiles, MainLock, Submit, SubmitOverflows, Down, Merge, Flush, Join, Work, Lock, Wait,
     Spurious, Take, Poison, PoisonUp, Encode, Post, vars
<1>2. ASSUME out' = out, ~PillSubmitted, ~PillSubmitted'  PROVE OutInv'
  BY <1>2 DEF OutInv, PillSubmitted
<1>3. ASSUME UNCHANGED <<TASK_QUEUE, i, out>>,
             \/ mpc' = mpc
             \/ mpc \in {"down", "merge"} /\ mpc' \in {"down", "merge"}
             \/ mpc \in {"join", "exit"} /\ mpc' \in {"join", "exit"}
      PROVE  OutInv'
  <2>1. Reached(i)' = Reached(i) /\ FlattenSeq(argv)' = FlattenSeq(argv)
    BY <1>1, <1>3 DEF Reached, Ends
  <2>2. /\ Written(FlattenSeq(argv))' = Written(FlattenSeq(argv))
        /\ Canonical(FlattenSeq(argv))' = Canonical(FlattenSeq(argv))
    BY <1>1
  <2> QED BY <1>3, <2>1, <2>2 DEF OutInv, PillSubmitted
<1>4. ASSUME NEW w \in Workers, CreateThread(w)  PROVE OutInv'
  BY <1>2, <1>4 DEF CreateThread, PillSubmitted
<1>5. ASSUME CreateFails \/ OpenFails \/ OpenFile \/ NoMoreFiles \/ MainLock \/ SubmitOverflows
      PROVE  OutInv'
  BY <1>2, <1>5 DEF CreateFails, OpenFails, HandleError, OpenFile, NoMoreFiles, MainLock,
     SubmitOverflows, PillSubmitted
<1>6. ASSUME Submit  PROVE OutInv'
  <2>1. mpc = "submit" /\ UNCHANGED <<i, out>> /\ mpc' \in {"lock", "open", "down"}
    BY <1>6 DEF Submit
  <2>2. i = 0 /\ out = WriterStart
    BY <2>1 DEF IInv, WriterInv, OutInv, PillSubmitted
  <2>3. Written(FlattenSeq(argv))[0] = WriterStart
    <3>1. argv \in Seq(Seq(Nat))
      BY InputsAssumption DEF IInv, TypeOK
    <3>2. FlattenSeq(argv) \in Seq(Nat)
      <4>1. 0 \in 0..Len(argv)
        BY <3>1
      <4> QED BY <3>1, <4>1, StreamIs
    <3> QED BY <3>2, WrittenIs
  <2>4. Reached(i)' = 0
    BY <2>1, <2>2 DEF Reached
  <2>5. out' = Written(FlattenSeq(argv))[Reached(i)]'
    BY <1>1, <2>1, <2>2, <2>3, <2>4
  <2> QED BY <2>1, <2>2, <2>5 DEF OutInv, PillSubmitted
<1>7. ASSUME Down  PROVE OutInv'
  BY <1>3, <1>7 DEF Down
<1>8. ASSUME Merge  PROVE OutInv'
  <2>1. mpc' = "down" /\ i' = i + 1 /\ TASK_QUEUE' = TASK_QUEUE
    BY <1>8 DEF Merge
  <2>2. out' = Written(FlattenSeq(argv))[Reached(i + 1)]
    BY <1>8, MergeReaches
  <2>3. Reached(i)' = Reached(i + 1)
    BY <1>1, <2>1 DEF Reached, Ends
  <2>4. Written(FlattenSeq(argv))[Reached(i)]' = Written(FlattenSeq(argv))[Reached(i + 1)]
    BY <1>1, <2>3
  <2> QED BY <2>1, <2>2, <2>4 DEF OutInv, PillSubmitted
<1>9. ASSUME Flush  PROVE OutInv'
  <2>1. out'.stdout = Canonical(FlattenSeq(argv)) /\ mpc' = "join"
    BY <1>9, FlushReaches DEF Flush
  <2>2. Canonical(FlattenSeq(argv))' = Canonical(FlattenSeq(argv))
    BY <1>1
  <2> QED BY <2>1, <2>2 DEF OutInv, PillSubmitted
<1>10. ASSUME Join  PROVE OutInv'
  BY <1>3, <1>10 DEF Join
<1>11. ASSUME NEW w \in Workers, Lock(w) \/ Work(w) \/ Spurious(w)  PROVE OutInv'
  <2>1. UNCHANGED <<TASK_QUEUE, i, out, mpc>>
    BY <1>11 DEF Lock, Work, Spurious, Wait, Take, Poison, PoisonUp, Encode, Post
  <2> QED BY <1>3, <2>1
<1>12. ASSUME UNCHANGED vars  PROVE OutInv'
  BY <1>3, <1>12 DEF vars
<1> QED
  BY <1>4, <1>5, <1>6, <1>7, <1>8, <1>9, <1>10, <1>11, <1>12 DEF Next, MainStep, Terminated

(* They hold initially.                                                          *)
LEMMA OrderInit == Init => OrderInv /\ OutInv
<1> SUFFICES ASSUME Init PROVE OrderInv /\ OutInv
  OBVIOUS
<1>1. /\ argv \in Seq(Seq(Nat)) /\ arg = 1 /\ SUBMITTED_TASKS = 0 /\ mpc = "create"
      /\ out = WriterStart
  BY InputsAssumption DEF Init
<1>2. Offset(argv, 0) = 0 /\ arg - 1 = 0
  <2>1. 0 \in 0..Len(argv)
    BY <1>1
  <2> QED BY <1>1, <2>1, StreamIs
<1>3. \A k \in Slots : ~(k < 0)
  BY SizesAssumption DEF Slots
<1> QED BY <1>1, <1>2, <1>3 DEF OrderInv, OutInv, Reached, PillSubmitted

(* All invariants together.                                                      *)
THEOREM OutputInvariance == Spec => [](IInv /\ CutInv /\ OrderInv /\ OutInv)
<1>1. Init => OrderInv /\ OutInv
  BY OrderInit
<1>2. IInv /\ CutInv /\ OrderInv /\ OutInv /\ [Next]_vars => OrderInv' /\ OutInv'
  BY OrderStep, OutStep
<1> QED BY <1>1, <1>2, Invariance, CutHolds, PTL DEF Spec

--------------------------------------------------------------------------------
(* The refinement of StreamEncoder.                                              *)

(* It has the same canonical encoding.                                           *)
LEMMA SameCanonical ==
  ASSUME NEW d
  PROVE  Stream!Canonical(d) = Canonical(d)
<1>1. \A S : Stream!Cardinality(S) = Cardinality(S)
  BY DEF Stream!Cardinality, Cardinality
<1>2. \A S : Stream!Max(S) = Max(S)
  BY DEF Stream!Max, Max
<1>3. Stream!RunStarts(d) = RunStarts(d)
  BY DEF Stream!RunStarts, RunStarts
<1>4. \A k : Stream!OffsetInRun(d, k) = OffsetInRun(d, k)
  BY <1>2, <1>3 DEF Stream!OffsetInRun, OffsetInRun
<1>5. Stream!PairStarts(d) = PairStarts(d)
  BY <1>4 DEF Stream!PairStarts, PairStarts
<1>6. \A S, k : Stream!Kth(S, k) = Kth(S, k)
  BY <1>1 DEF Stream!Kth, Kth
<1> QED BY <1>1, <1>5, <1>6 DEF Stream!Canonical, Canonical

(* Nothing is written before the start.                                          *)
LEMMA StreamInit == Init => Stream!Init
<1> SUFFICES ASSUME Init PROVE Stream!Init
  OBVIOUS
<1>1. argv \in Inputs /\ out = WriterStart /\ mpc = "create"
  BY DEF Init
<1>2. FlattenSeq(argv) \in {FlattenSeq(input) : input \in Inputs}
  BY <1>1
<1>3. out.stdout = <<>>
  BY <1>1 DEF WriterStart
<1> QED BY <1>1, <1>2, <1>3 DEF Stream!Init, Running

(* Steps that write nothing and do not end the program.                          *)
LEMMA StreamStutter ==
  ASSUME argv' = argv, out'.stdout = out.stdout, mpc' = mpc \/ (Running /\ Running')
  PROVE  [Stream!Next]_(Stream!vars)
BY DEF Stream!vars, Running

(* Steps that write the next pairs.                                              *)
LEMMA StreamWrite ==
  ASSUME argv' = argv, Running, Running', IsPrefix(out.stdout, out'.stdout),
         IsPrefix(out'.stdout, Canonical(FlattenSeq(argv)))
  PROVE  [Stream!Next]_(Stream!vars)
<1>1. CASE out'.stdout = out.stdout
  BY <1>1, StreamStutter
<1>2. CASE out'.stdout # out.stdout
  <2>1. mpc # "exit" /\ mpc' # "exit" /\ FlattenSeq(argv)' = FlattenSeq(argv)
    BY DEF Running
  <2>2. Stream!Canonical(FlattenSeq(argv)) = Canonical(FlattenSeq(argv))
    BY SameCanonical
  <2>3. Stream!Write
    BY <1>2, <2>1, <2>2 DEF Stream!Write, Stream!IsPrefix, IsPrefix
  <2> QED BY <2>3 DEF Stream!Next
<1> QED BY <1>1, <1>2

(* The writer moves on in the stream.                                            *)
LEMMA StreamMerge ==
  ASSUME argv \in Inputs, argv' = argv, Running, Running',
         NEW a \in 0..Len(FlattenSeq(argv)), NEW b \in 0..Len(FlattenSeq(argv)), a < b,
         out = Written(FlattenSeq(argv))[a], out' = Written(FlattenSeq(argv))[b]
  PROVE  [Stream!Next]_(Stream!vars)
<1> DEFINE d == FlattenSeq(argv)
<1>1. d \in Seq(Nat) /\ a \in 0..Len(d) /\ b \in a..Len(d)
  <2>1. argv \in Seq(Seq(Nat))
    BY InputsAssumption
  <2>2. 0 \in 0..Len(argv)
    BY <2>1
  <2> QED BY <2>1, <2>2, StreamIs
<1> HIDE DEF d
<1>2. IsPrefix(Written(d)[a].stdout, Written(d)[b].stdout) /\ IsPrefix(Written(d)[b].stdout, Canonical(d))
  BY <1>1, WrittenGrows
<1> QED BY <1>2, StreamWrite DEF d

(* The writer prints what is left.                                               *)
LEMMA StreamFlush ==
  ASSUME argv \in Inputs, argv' = argv, Running, Running',
         out = Written(FlattenSeq(argv))[Len(FlattenSeq(argv))],
         out' = [out EXCEPT !.stdout = Flushed(out)]
  PROVE  [Stream!Next]_(Stream!vars)
<1> DEFINE d == FlattenSeq(argv)
<1>1. d \in Seq(Nat) /\ Len(d) \in 0..Len(d) /\ Len(d) \in Len(d)..Len(d)
  <2>1. argv \in Seq(Seq(Nat))
    BY InputsAssumption
  <2>2. 0 \in 0..Len(argv)
    BY <2>1
  <2>3. d \in Seq(Nat)
    BY <2>1, <2>2, StreamIs
  <2> QED BY <2>3
<1>2. out'.stdout = Canonical(d)
  BY StreamFlushed
<1> HIDE DEF d
<1>3. IsPrefix(Written(d)[Len(d)].stdout, Canonical(d)) /\ Canonical(d) \in Seq(Pairs)
  BY <1>1, WrittenGrows
<1>4. IsPrefix(Canonical(d), Canonical(d))
  <2>1. \A s \in Seq(Pairs) : Len(s) <= Len(s)
    OBVIOUS
  <2> QED BY <1>3, <2>1 DEF IsPrefix
<1> QED BY <1>2, <1>3, <1>4, StreamWrite DEF d

(* The program succeeds.                                                         *)
LEMMA StreamComplete ==
  ASSUME argv' = argv, out' = out, mpc = "join", mpc' = "exit",
         out.stdout = Canonical(FlattenSeq(argv))
  PROVE  [Stream!Next]_(Stream!vars)
<1>1. Stream!Canonical(FlattenSeq(argv)) = Canonical(FlattenSeq(argv))
  BY SameCanonical
<1>2. /\ Running /\ mpc # "exit" /\ FlattenSeq(argv)' = FlattenSeq(argv)
      /\ out'.stdout = Canonical(FlattenSeq(argv))
  BY DEF Running
<1>3. Stream!Complete
  BY <1>1, <1>2 DEF Stream!Complete
<1> QED BY <1>3 DEF Stream!Next

(* Steps that end the program before it has written anything.                    *)
LEMMA StreamFail ==
  ASSUME argv' = argv, out' = WriterStart, out = WriterStart, Running, mpc' \in {"failed", "overflow"}
  PROVE  [Stream!Next]_(Stream!vars)
<1>1. /\ mpc # "exit" /\ mpc' # "exit" /\ ~Running' /\ FlattenSeq(argv)' = FlattenSeq(argv)
      /\ out.stdout = <<>> /\ out'.stdout = <<>>
  BY DEF Running, WriterStart
<1>2. Stream!Fail
  BY <1>1 DEF Stream!Fail
<1> QED BY <1>2 DEF Stream!Next

(* Every step of the pool is one of StreamEncoder, or none.                      *)
LEMMA StreamNext ==
  ASSUME IInv, OrderInv, OutInv, [Next]_vars
  PROVE  [Stream!Next]_(Stream!vars)
<1>1. argv \in Inputs /\ i \in Nat /\ SUBMITTED_TASKS \in Nat
  BY SizesAssumption DEF IInv, TypeOK
<1>2. ASSUME NEW w \in Workers, CreateThread(w)  PROVE [Stream!Next]_(Stream!vars)
  <2>1. UNCHANGED <<argv, out>> /\ Running /\ Running'
    BY <1>2 DEF CreateThread, Running
  <2> QED BY <2>1, StreamStutter
<1>3. CASE CreateFails \/ OpenFails \/ SubmitOverflows
  <2>1. UNCHANGED <<argv, out>> /\ mpc \in {"create", "open", "submit"} /\ mpc' \in {"failed", "overflow"}
    BY <1>3 DEF CreateFails, OpenFails, HandleError, SubmitOverflows
  <2>2. out = WriterStart /\ Running
    BY <2>1 DEF OutInv, PillSubmitted, Running
  <2> QED BY <2>1, <2>2, StreamFail
<1>4. CASE OpenFile \/ NoMoreFiles \/ MainLock \/ Submit \/ Down
  <2>1. /\ UNCHANGED <<argv, out>> /\ mpc \in {"open", "lock", "submit", "down"}
        /\ mpc' \in {"lock", "submit", "open", "down", "merge"}
    BY <1>4 DEF OpenFile, NoMoreFiles, MainLock, Submit, Down
  <2>2. Running /\ Running'
    BY <2>1 DEF Running
  <2> QED BY <2>1, <2>2, StreamStutter
<1>5. CASE Merge
  <2>1. mpc = "merge" /\ mpc' = "down" /\ argv' = argv
    BY <1>5 DEF Merge
  <2>2. /\ out' = Written(FlattenSeq(argv))[Reached(i + 1)] /\ i + 1 < SUBMITTED_TASKS
        /\ Reached(i) < Reached(i + 1)
    BY <1>5, MergeReaches
  <2>3. out = Written(FlattenSeq(argv))[Reached(i)]
    BY <2>1 DEF OutInv
  <2>4. Reached(i) \in 0..Len(FlattenSeq(argv)) /\ Reached(i + 1) \in 0..Len(FlattenSeq(argv))
    <3>1. i <= SUBMITTED_TASKS /\ i < SUBMITTED_TASKS /\ i + 1 <= SUBMITTED_TASKS /\ i + 1 \in Nat
      BY <1>1, <2>2
    <3> QED BY <1>1, <2>2, <3>1, ReachedIs DEF IInv
  <2>5. Running /\ Running'
    BY <2>1 DEF Running
  <2> QED BY <1>1, <2>1, <2>2, <2>3, <2>4, <2>5, StreamMerge
<1>6. CASE Flush
  <2>1. mpc = "merge" /\ mpc' = "join" /\ argv' = argv /\ out' = [out EXCEPT !.stdout = Flushed(out)]
    BY <1>6 DEF Flush
  <2>2. out = Written(FlattenSeq(argv))[Len(FlattenSeq(argv))]
    BY <1>6, FlushReaches
  <2>3. Running /\ Running'
    BY <2>1 DEF Running
  <2> QED BY <1>1, <2>1, <2>2, <2>3, StreamFlush
<1>7. CASE Join
  BY <1>7, StreamComplete DEF Join, OutInv
<1>8. ASSUME NEW w \in Workers, Lock(w) \/ Work(w) \/ Spurious(w)
      PROVE  [Stream!Next]_(Stream!vars)
  <2>1. UNCHANGED <<argv, out, mpc>>
    BY <1>8 DEF Lock, Work, Spurious, Wait, Take, Poison, PoisonUp, Encode, Post
  <2> QED BY <2>1, StreamStutter
<1>9. CASE UNCHANGED vars
  <2>1. UNCHANGED <<argv, out, mpc>>
    BY <1>9 DEF vars
  <2> QED BY <2>1, StreamStutter
<1> QED
  BY <1>2, <1>3, <1>4, <1>5, <1>6, <1>7, <1>8, <1>9 DEF Next, MainStep, Terminated

(* Whatever the threads do, stdout receives a prefix of the canonical encoding   *)
(* of all files, all of it on success and nothing on failure: the safety part of *)
(* ImplementsStreamEncoder.                                                      *)
THEOREM StreamEncoderImplemented == Spec => Stream!Init /\ [][Stream!Next]_(Stream!vars)
<1>1. Init => Stream!Init
  BY StreamInit
<1>2. IInv /\ OrderInv /\ OutInv /\ [Next]_vars => [Stream!Next]_(Stream!vars)
  BY StreamNext
<1> QED BY <1>1, <1>2, OutputInvariance, PTL DEF Spec

(* What is left to the scheduling of the threads is that the program ends: every *)
(* run that does is one of StreamEncoder.                                        *)
THEOREM EndingRunsImplementStreamEncoder == Spec /\ <>~Running => ImplementsStreamEncoder
<1> DEFINE status == IF mpc = "exit" THEN "ok" ELSE IF Running THEN "running" ELSE "failed"
<1>1. ~Running => status # "running"
  BY DEF Running
<1> QED BY <1>1, StreamEncoderImplemented, PTL DEF ImplementsStreamEncoder, Stream!Spec

--------------------------------------------------------------------------------
(* The version with a pill for each worker (PillPool).                           *)

(* The types of the variables that matter; the others are free.                  *)
PillTypes ==
  /\ argv \in Inputs
  /\ TASK_QUEUE \in [Slots -> Task \union {NULL}]
  /\ DOMAIN RESULT_QUEUE = Slots /\ READY_QUEUE \in [Slots -> Nat]
  /\ SUBMITTED_TASKS \in 0..MAX_TASK_NUM /\ PROCESSED_TASKS \in Nat
  /\ DOMAIN pc = Workers /\ DOMAIN task = Workers
  /\ arg \in Nat \ {0} /\ size \in Nat /\ id \in Nat /\ i \in Nat /\ pills \in Nat

(* 1 between submit_task's unlock and its signal: the task is in the queue, the  *)
(* loops have not gone on.                                                       *)
Ahead == IF mpc = "signal" THEN 1 ELSE 0

(* How far the main thread has come with the files and the pills.                *)
PillCutInv ==
  /\ arg \in 1..(Len(argv) + 1)
  /\ mpc \in {"create", "open"} => pills = 0 /\ SUBMITTED_TASKS = ChunksUpTo(argv)[arg - 1]
  /\ mpc = "create" => arg = 1
  /\ mpc \in {"lock", "submit", "signal"} =>
       \/ /\ arg = Len(argv) + 1 /\ pills < PillsWanted
          /\ SUBMITTED_TASKS = Chunks(argv) + pills + Ahead
       \/ /\ arg <= Len(argv) /\ size < Len(argv[arg]) /\ pills = 0
          /\ \E q \in Nat : /\ size = q * CHUNK_SIZE
                           /\ SUBMITTED_TASKS = ChunksUpTo(argv)[arg - 1] + q + Ahead
  /\ mpc = "overflow" => Chunks(argv) + PillsWanted > MAX_TASK_NUM

(* Slot k holds task k, which is a pill from the last chunk on.                  *)
PillQueueInv ==
  /\ id = SUBMITTED_TASKS
  /\ \A k \in Slots :
       IF k < SUBMITTED_TASKS
       THEN /\ TASK_QUEUE[k] \in Task /\ TASK_QUEUE[k].id = k
            /\ IsPill(TASK_QUEUE[k]) <=> k >= Chunks(argv)
       ELSE TASK_QUEUE[k] = NULL

(* A worker holds a task before the first pill, or that pill; a worker about to  *)
(* raise a semaphore has stored the result.                                      *)
PillHeldInv ==
  /\ PROCESSED_TASKS <= Chunks(argv)
  /\ \A w \in Workers :
       /\ pc[w] \in {"encode", "post"} =>
            /\ task[w].id \in Slots /\ task[w].id < Chunks(argv)
            /\ task[w].id < SUBMITTED_TASKS /\ task[w] = TASK_QUEUE[task[w].id]
       /\ pc[w] = "pill" => task[w].id \in Slots /\ task[w].id = Chunks(argv)
       /\ pc[w] \in {"post", "pill"} => RESULT_QUEUE[task[w].id] # NoResult

(* Results are those of the chunks, and the poison at the first pill.            *)
PillResultInv ==
  \A k \in Slots :
    \/ RESULT_QUEUE[k] = NoResult /\ READY_QUEUE[k] = 0
    \/ /\ k < Chunks(argv) /\ k < SUBMITTED_TASKS
       /\ RESULT_QUEUE[k] = ResultOf(TASK_QUEUE[k])
    \/ k = Chunks(argv) /\ RESULT_QUEUE[k] = PoisonResult

(* The writer comes no further than the first pill.                              *)
PillWriterInv ==
  /\ i <= Chunks(argv)
  /\ mpc = "merge" => i \in Slots /\ RESULT_QUEUE[i] # NoResult
  /\ mpc \in {"join", "exit"} => i = Chunks(argv)

PillInv == PillTypes /\ PillCutInv /\ PillQueueInv /\ PillHeldInv /\ PillResultInv
           /\ PillWriterInv

(* The tasks adjoin: each begins where the one before it ends, and the next one  *)
(* will begin where create_tasks_from_file stands.                               *)
PillOrderInv ==
  /\ \A k \in Slots : k < SUBMITTED_TASKS /\ k < Chunks(argv) =>
       IsPiece(TASK_QUEUE[k]) /\ Begins(TASK_QUEUE[k]) = Reached(k)
  /\ mpc \in {"create", "open"} => Reached(SUBMITTED_TASKS) = Offset(argv, arg - 1)
  /\ mpc \in {"lock", "submit", "signal"} /\ arg <= Len(argv) =>
       Reached(SUBMITTED_TASKS) =
         Offset(argv, arg - 1) + (IF mpc = "signal" THEN ChunkEnd ELSE size)
  /\ (mpc \in {"lock", "submit", "signal"} /\ arg > Len(argv)) \/ PillSubmitted =>
       Reached(Chunks(argv)) = Len(FlattenSeq(argv))

(* The writer is where merging the bytes of the first i tasks would leave it.    *)
PillOutInv ==
  /\ ~PillSubmitted => out = WriterStart /\ i = 0
  /\ mpc \in {"down", "merge"} => out = Written(FlattenSeq(argv))[Reached(i)]
  /\ mpc \in {"join", "exit"} => out.stdout = Canonical(FlattenSeq(argv))


(* The types are kept.                                                           *)
LEMMA PillTypeStep ==
  ASSUME PillTypes, [PillNext]_pillVars
  PROVE  PillTypes'
<1> USE SizesAssumption
<1>1. ASSUME StartWorkers \/ ReadFiles \/ StartSubmit \/ JoinWorkers PROVE PillTypes'
  BY <1>1 DEF PillTypes, StartWorkers, CreateFails, CreateThread, ReadFiles, OpenFails, OpenFile,
              NoMoreFiles, HandleError, StartSubmit, MainLock, SubmitOverflows, JoinWorkers, Join
<1>2. ASSUME SubmitTask PROVE PillTypes'
  <2>1. NextTask \in Task
    BY NextTaskIsTask DEF PillTypes
  <2>2. TASK_QUEUE' \in [Slots -> Task \union {NULL}]
    BY <1>2, <2>1 DEF PillTypes, SubmitTask
  <2>3. SUBMITTED_TASKS' \in 0..MAX_TASK_NUM /\ id' \in Nat
    BY <1>2 DEF PillTypes, SubmitTask
  <2> QED BY <1>2, <2>2, <2>3 DEF PillTypes, SubmitTask
<1>3. ASSUME Signal PROVE PillTypes'
  <2>1. DOMAIN pc' = Workers
    BY <1>3, SignalledWakesOne DEF PillTypes, Signal
  <2>2. arg' \in Nat \ {0} /\ size' \in Nat /\ pills' \in Nat
    BY <1>3 DEF PillTypes, Signal
  <2> QED BY <1>3, <2>1, <2>2 DEF PillTypes, Signal
<1>4. ASSUME WriteResults PROVE PillTypes'
  BY <1>4 DEF PillTypes, WriteResults, Down, down, Merge, Flush
<1>5. ASSUME NEW w \in Workers, TakeTask(w) \/ LockStep(w) \/ (Spurious(w) /\ UNCHANGED pills)
      PROVE  PillTypes'
  BY <1>5 DEF PillTypes, TakeTask, Wait, Take, LockStep, Lock, Spurious
<1>6. ASSUME NEW w \in Workers, TakePill(w) \/ EncodeTask(w) PROVE PillTypes'
  <2>1. PROCESSED_TASKS' \in Nat
    BY <1>6 DEF PillTypes, TakePill, AfterPill, EncodeTask, Encode
  <2> QED BY <1>6, <2>1 DEF PillTypes, TakePill, EncodeTask, Encode
<1>7. ASSUME NEW w \in Workers, LastUp(w) \/ PostResult(w) PROVE PillTypes'
  <2>1. READY_QUEUE' \in [Slots -> Nat]
    BY <1>7, UpRaises DEF PillTypes, LastUp, PostResult, Post
  <2> QED BY <1>7, <2>1 DEF PillTypes, LastUp, PostResult, Post
<1>8. ASSUME UNCHANGED pillVars PROVE PillTypes'
  BY <1>8 DEF PillTypes, pillVars, vars
<1> QED BY <1>1, <1>2, <1>3, <1>4, <1>5, <1>6, <1>7, <1>8
        DEF PillNext, PillMainStep, PillWork, Terminated, pillVars

(* What the cutting needs to know of the number of tasks.                        *)
LEMMA PillCounts ==
  ASSUME PillTypes, PillCutInv
  PROVE  /\ Chunks(argv) \in Nat /\ PillsWanted \in Nat \ {0}
         /\ argv \in Seq(Seq(Nat)) /\ Len(argv) \in Nat
         /\ \A n \in 0..Len(argv) : ChunksUpTo(argv)[n] \in Nat
         /\ mpc = "submit" => (arg > Len(argv) <=> SUBMITTED_TASKS >= Chunks(argv))
<1>1. argv \in Seq(Seq(Nat))
  BY InputsAssumption DEF PillTypes
<1>2. /\ Len(argv) \in Nat /\ Chunks(argv) = ChunksUpTo(argv)[Len(argv)]
      /\ \A n \in 0..Len(argv) : ChunksUpTo(argv)[n] \in Nat
  <2>1. ChunksUpTo(argv) \in [0..Len(argv) -> Nat]
    BY <1>1, ChunksUpToIs
  <2> QED BY <1>1, <2>1 DEF Chunks
<1>3. Chunks(argv) \in Nat
  <2>1. Len(argv) \in 0..Len(argv)
    BY <1>2
  <2> QED BY <1>2, <2>1
<1>4. PillsWanted \in Nat \ {0}
  BY FS_CardinalityType, FS_EmptySet, PillAssumption, WorkersAssumption DEF PillsWanted
<1>5. ASSUME mpc = "submit" PROVE arg > Len(argv) <=> SUBMITTED_TASKS >= Chunks(argv)
  <2>1. CASE arg = Len(argv) + 1
    <3>1. SUBMITTED_TASKS = Chunks(argv) + pills + 0 /\ pills \in Nat
      BY <1>2, <1>5, <2>1 DEF PillCutInv, PillTypes, Ahead
    <3> QED BY <1>2, <1>3, <2>1, <3>1
  <2>2. CASE arg <= Len(argv)
    <3>1. arg \in 1..Len(argv)
      BY <1>2, <2>2 DEF PillTypes
    <3>2. PICK q \in Nat : size = q * CHUNK_SIZE /\ SUBMITTED_TASKS = ChunksUpTo(argv)[arg - 1] + q + 0
      BY <1>2, <1>5, <2>2 DEF PillCutInv, Ahead
    <3>3. size < Len(argv[arg])
      BY <1>2, <1>5, <2>2 DEF PillCutInv
    <3>4. ChunksUpTo(argv)[arg - 1] \in Nat /\ ChunksUpTo(argv)[arg - 1] + q < Chunks(argv)
      BY <1>1, <3>1, <3>2, <3>3, NextCut
    <3> QED BY <1>2, <1>3, <2>2, <3>1, <3>2, <3>4
  <2>3. Len(argv) \in Nat /\ arg \in 1..(Len(argv) + 1)
    BY <1>2 DEF PillCutInv
  <2> QED BY <2>1, <2>2, <2>3
<1> QED BY <1>1, <1>2, <1>3, <1>4, <1>5

(* The main thread goes on from where it stands, through files and pills.        *)
LEMMA PillCutStep ==
  ASSUME PillTypes, PillCutInv, [PillNext]_pillVars
  PROVE  PillCutInv'
<1> DEFINE u == ChunksUpTo(argv)
           L == Len(argv)
           C == Chunks(argv)
           P == PillsWanted
<1>1. /\ L \in Nat /\ C \in Nat /\ P \in Nat \ {0} /\ argv \in Seq(Seq(Nat)) /\ C = u[L] /\ u[0] = 0
      /\ \A n \in 0..L : u[n] \in Nat
  BY PillCounts, ChunksUpToIs DEF Chunks
<1>2. /\ SUBMITTED_TASKS \in Nat /\ arg \in Nat \ {0} /\ size \in Nat /\ pills \in Nat
      /\ arg <= L + 1 /\ CHUNK_SIZE \in Nat \ {0} /\ MAX_TASK_NUM \in Nat
  BY <1>1, SizesAssumption DEF PillTypes, PillCutInv
<1> HIDE DEF u, C, P
<1>3. ASSUME UNCHANGED <<argv, SUBMITTED_TASKS, mpc, arg, size, pills>> PROVE PillCutInv'
  BY <1>3 DEF PillCutInv, Ahead
<1>4. ASSUME UNCHANGED <<argv, SUBMITTED_TASKS, arg, size, pills>>,
             mpc' \notin {"create", "open", "lock", "submit", "signal", "overflow"}
      PROVE  PillCutInv'
  BY <1>4 DEF PillCutInv
<1>5. ASSUME StartWorkers PROVE PillCutInv'
  BY <1>5 DEF PillCutInv, Ahead, StartWorkers, CreateFails, HandleError, CreateThread
<1>6. ASSUME ReadFiles PROVE PillCutInv'
  <2>1. CASE OpenFails
    BY <1>4, <1>6, <2>1 DEF ReadFiles, OpenFails, HandleError
  <2>2. CASE OpenFile
    <3>1. /\ mpc = "open" /\ mpc' = "lock" /\ size' = 0 /\ arg <= L /\ Len(argv[arg]) > 0
          /\ UNCHANGED <<argv, SUBMITTED_TASKS, arg, pills>>
      BY <1>6, <2>2 DEF ReadFiles, OpenFile
    <3>2. pills = 0 /\ SUBMITTED_TASKS = u[arg - 1]
      BY <3>1 DEF PillCutInv, u
    <3>3. 0 = 0 * CHUNK_SIZE /\ SUBMITTED_TASKS = u[arg - 1] + 0 + 0
      BY <1>2, <3>2
    <3>4. \E q \in Nat : size' = q * CHUNK_SIZE /\ SUBMITTED_TASKS = u[arg - 1] + q + 0
      BY <3>1, <3>3
    <3> QED BY <3>1, <3>2, <3>4 DEF PillCutInv, Ahead, u
  <2>3. CASE NoMoreFiles
    <3>1. /\ mpc = "open" /\ mpc' = "lock" /\ arg = L + 1
          /\ UNCHANGED <<argv, SUBMITTED_TASKS, arg, size, pills>>
      BY <1>1, <1>2, <1>6, <2>3 DEF ReadFiles, NoMoreFiles
    <3>2. pills = 0 /\ SUBMITTED_TASKS = u[arg - 1]
      BY <3>1 DEF PillCutInv, u
    <3>3. arg - 1 = L /\ SUBMITTED_TASKS = C + pills + 0 /\ pills < P
      BY <1>1, <1>2, <3>1, <3>2
    <3> QED BY <1>1, <3>1, <3>3 DEF PillCutInv, Ahead, C, P
  <2> QED BY <1>6, <2>1, <2>2, <2>3 DEF ReadFiles
<1>7. ASSUME StartSubmit PROVE PillCutInv'
  <2>1. CASE MainLock
    BY <1>7, <2>1 DEF PillCutInv, Ahead, StartSubmit, MainLock
  <2>2. CASE SubmitOverflows
    <3>1. /\ mpc = "submit" /\ mpc' = "overflow" /\ SUBMITTED_TASKS >= MAX_TASK_NUM
          /\ UNCHANGED <<argv, SUBMITTED_TASKS, arg, size, pills>>
      BY <1>7, <2>2 DEF StartSubmit, SubmitOverflows
    <3>2. CASE arg = L + 1
      <4>1. SUBMITTED_TASKS = C + pills + 0 /\ pills < P
        BY <1>1, <3>1, <3>2 DEF PillCutInv, Ahead, C, P
      <4>2. C + P > MAX_TASK_NUM
        BY <1>1, <1>2, <3>1, <4>1
      <4> QED BY <3>1, <4>2 DEF PillCutInv, C, P
    <3>3. CASE arg <= L
      <4>1. SUBMITTED_TASKS < C
        BY <1>1, <1>2, <3>1, <3>3, PillCounts DEF C
      <4>2. C + P > MAX_TASK_NUM
        BY <1>1, <1>2, <3>1, <4>1
      <4> QED BY <3>1, <4>2 DEF PillCutInv, C, P
    <3> QED BY <1>1, <1>2, <3>2, <3>3
  <2> QED BY <1>7, <2>1, <2>2 DEF StartSubmit
<1>8. ASSUME SubmitTask PROVE PillCutInv'
  <2>1. /\ mpc = "submit" /\ mpc' = "signal" /\ SUBMITTED_TASKS' = SUBMITTED_TASKS + 1
        /\ UNCHANGED <<argv, arg, size, pills>>
    BY <1>8 DEF SubmitTask
  <2>2. CASE arg = L + 1
    <3>1. SUBMITTED_TASKS = C + pills + 0 /\ pills < P
      BY <1>1, <2>1, <2>2 DEF PillCutInv, Ahead, C, P
    <3>2. SUBMITTED_TASKS' = C + pills + 1
      BY <1>1, <1>2, <2>1, <3>1
    <3> QED BY <1>1, <2>1, <2>2, <3>1, <3>2 DEF PillCutInv, Ahead, C, P
  <2>3. CASE arg <= L
    <3>1. PICK q \in Nat : size = q * CHUNK_SIZE /\ SUBMITTED_TASKS = u[arg - 1] + q + 0
      BY <1>1, <1>2, <2>1, <2>3 DEF PillCutInv, Ahead, u
    <3>2. u[arg - 1] \in Nat
      <4>1. arg - 1 \in 0..L
        BY <1>1, <1>2, <2>3
      <4> QED BY <1>1, <4>1
    <3>3. SUBMITTED_TASKS' = u[arg - 1] + q + 1
      BY <2>1, <3>1, <3>2
    <3>4. size < Len(argv[arg]) /\ pills = 0
      BY <1>1, <1>2, <2>1, <2>3 DEF PillCutInv
    <3> QED BY <1>1, <1>2, <2>1, <2>3, <3>1, <3>3, <3>4 DEF PillCutInv, Ahead, u
  <2> QED BY <1>1, <1>2, <2>2, <2>3
<1>9. ASSUME Signal PROVE PillCutInv'
  <2>1. mpc = "signal" /\ UNCHANGED <<argv, SUBMITTED_TASKS>>
    BY <1>9 DEF Signal
  <2>2. CASE arg = L + 1
    <3>1. SUBMITTED_TASKS = C + pills + 1 /\ pills < P
      BY <1>1, <2>1, <2>2 DEF PillCutInv, Ahead, C, P
    <3>2. /\ pills' = pills + 1 /\ UNCHANGED <<arg, size>>
          /\ mpc' = IF pills' = P THEN "down" ELSE "lock"
      BY <1>1, <1>2, <1>9, <2>2 DEF Signal, P
    <3>3. CASE pills' = P
      BY <1>4, <2>1, <2>2, <3>2, <3>3 DEF PillCutInv
    <3>4. CASE pills' # P
      <4>1. SUBMITTED_TASKS = C + pills' + 0 /\ pills' < P /\ mpc' = "lock"
        BY <1>1, <1>2, <3>1, <3>2, <3>4
      <4> QED BY <1>1, <2>1, <2>2, <3>2, <4>1 DEF PillCutInv, Ahead, C, P
    <3> QED BY <3>3, <3>4
  <2>3. CASE arg <= L
    <3> DEFINE length == Len(argv[arg])
    <3>1. arg \in 1..L /\ length \in Nat /\ size < length /\ pills = 0
      BY <1>1, <1>2, <2>1, <2>3 DEF PillCutInv
    <3>2. PICK q \in Nat : size = q * CHUNK_SIZE /\ SUBMITTED_TASKS = u[arg - 1] + q + 1
      BY <1>1, <1>2, <2>1, <2>3 DEF PillCutInv, Ahead, u
    <3>3. /\ u[arg - 1] \in Nat /\ (q + 1) * CHUNK_SIZE = size + CHUNK_SIZE
          /\ size + CHUNK_SIZE >= length => u[arg] = u[arg - 1] + (q + 1)
      BY <1>1, <3>1, <3>2, NextCut DEF u
    <3>4. SUBMITTED_TASKS' = u[arg - 1] + (q + 1) + 0
      BY <2>1, <3>2, <3>3
    <3>5. CASE size + CHUNK_SIZE < length
      <4>1. size' = size + CHUNK_SIZE /\ mpc' = "lock" /\ arg' = arg /\ pills' = pills
        BY <1>1, <1>2, <1>9, <2>3, <3>1, <3>5 DEF Signal
      <4>2. \E r \in Nat : size' = r * CHUNK_SIZE /\ SUBMITTED_TASKS' = u[arg - 1] + r + 0
        <5>1. q + 1 \in Nat
          OBVIOUS
        <5> QED BY <3>3, <3>4, <4>1, <5>1
      <4> QED BY <1>2, <2>1, <2>3, <3>1, <3>5, <4>1, <4>2 DEF PillCutInv, Ahead, u
    <3>6. CASE size + CHUNK_SIZE >= length
      <4>1. arg' = arg + 1 /\ mpc' = "open" /\ pills' = pills
        BY <1>1, <1>2, <1>9, <2>3, <3>1, <3>6 DEF Signal
      <4>2. SUBMITTED_TASKS' = u[arg' - 1]
        BY <3>1, <3>3, <3>4, <3>6, <4>1
      <4> QED BY <1>1, <1>2, <2>1, <2>3, <3>1, <4>1, <4>2 DEF PillCutInv, u
    <3> QED BY <1>2, <3>1, <3>5, <3>6
  <2> QED BY <1>1, <1>2, <2>2, <2>3
<1>10. ASSUME WriteResults \/ JoinWorkers PROVE PillCutInv'
  BY <1>4, <1>10 DEF WriteResults, Down, Merge, Flush, JoinWorkers, Join
<1>11. ASSUME NEW w \in Workers, LockStep(w) \/ PillWork(w) \/ (Spurious(w) /\ UNCHANGED pills)
       PROVE  PillCutInv'
  BY <1>3, <1>11 DEF LockStep, Lock, PillWork, TakeTask, Wait, Take, TakePill, LastUp, EncodeTask,
                     Encode, PostResult, Post, Spurious
<1>12. ASSUME UNCHANGED pillVars PROVE PillCutInv'
  BY <1>3, <1>12 DEF pillVars, vars
<1> QED BY <1>5, <1>6, <1>7, <1>8, <1>9, <1>10, <1>11, <1>12
        DEF PillNext, PillMainStep, Terminated, pillVars

(* A task is put behind the others.                                              *)
LEMMA PillQueueStep ==
  ASSUME PillTypes, PillCutInv, PillQueueInv, [PillNext]_pillVars
  PROVE  PillQueueInv'
<1>1. ASSUME UNCHANGED <<argv, id, queue>> PROVE PillQueueInv'
  BY <1>1 DEF PillQueueInv, IsPill
<1>2. ASSUME SubmitTask PROVE PillQueueInv'
  <2>1. /\ NextTask \in Task /\ NextTask.id = id
        /\ (IsPill(NextTask) <=> SUBMITTED_TASKS >= Chunks(argv))
    <3>1. mpc = "submit"
      BY <1>2 DEF SubmitTask
    <3>2. NextTask \in Task /\ NextTask.id = id /\ (IsPill(NextTask) <=> arg > Len(argv))
      BY NextTaskIsTask DEF PillTypes
    <3> QED BY <3>1, <3>2, PillCounts
  <2>2. /\ argv' = argv /\ id' = id + 1 /\ SUBMITTED_TASKS' = SUBMITTED_TASKS + 1
        /\ SUBMITTED_TASKS \in Slots /\ TASK_QUEUE' = [TASK_QUEUE EXCEPT ![SUBMITTED_TASKS] = NextTask]
    BY <1>2, SizesAssumption DEF SubmitTask, PillTypes, Slots
  <2>3. \A k \in Slots : k \in Nat /\ (k < SUBMITTED_TASKS' <=> k < SUBMITTED_TASKS \/ k = SUBMITTED_TASKS)
    BY <2>2, SizesAssumption DEF Slots, PillTypes
  <2>4. \A k \in Slots : TASK_QUEUE'[k] = IF k = SUBMITTED_TASKS THEN NextTask ELSE TASK_QUEUE[k]
    BY <2>2 DEF PillTypes
  <2>5. Chunks(argv)' = Chunks(argv)
    BY <2>2
  <2> HIDE DEF Slots
  <2>6. ASSUME NEW k \in Slots
        PROVE  IF k < SUBMITTED_TASKS'
               THEN /\ TASK_QUEUE'[k] \in Task /\ TASK_QUEUE'[k].id = k
                    /\ IsPill(TASK_QUEUE'[k]) <=> k >= Chunks(argv)
               ELSE TASK_QUEUE'[k] = NULL
    <3>1. CASE k = SUBMITTED_TASKS
      BY <2>1, <2>3, <2>4, <3>1 DEF PillQueueInv
    <3>2. CASE k # SUBMITTED_TASKS
      BY <2>3, <2>4, <3>2 DEF PillQueueInv
    <3> QED BY <3>1, <3>2
  <2>7. id' = SUBMITTED_TASKS'
    BY <2>2 DEF PillQueueInv
  <2> QED BY <2>2, <2>5, <2>6, <2>7 DEF PillQueueInv, IsPill
<1>3. ASSUME StartWorkers \/ ReadFiles \/ StartSubmit \/ Signal \/ WriteResults \/ JoinWorkers
      PROVE  PillQueueInv'
  BY <1>1, <1>3 DEF StartWorkers, CreateFails, CreateThread, ReadFiles, OpenFails, OpenFile,
             NoMoreFiles, HandleError, StartSubmit, MainLock, SubmitOverflows, Signal,
             WriteResults, Down, Merge, Flush, JoinWorkers, Join
<1>4. ASSUME NEW w \in Workers, LockStep(w) \/ PillWork(w) \/ (Spurious(w) /\ UNCHANGED pills)
      PROVE  PillQueueInv'
  BY <1>1, <1>4 DEF LockStep, Lock, PillWork, TakeTask, Wait, Take, TakePill, LastUp, EncodeTask,
                    Encode, PostResult, Post, Spurious
<1>5. ASSUME UNCHANGED pillVars PROVE PillQueueInv'
  BY <1>1, <1>5 DEF pillVars, vars
<1> QED BY <1>2, <1>3, <1>4, <1>5 DEF PillNext, PillMainStep, Terminated, pillVars

(* A task leaves the wait loop with a slot that is filled.                       *)
LEMMA PillTaken ==
  ASSUME PillTypes, PillCutInv, PillQueueInv, CanDereference
  PROVE  /\ PROCESSED_TASKS \in Slots /\ PROCESSED_TASKS < SUBMITTED_TASKS
         /\ TASK_QUEUE[PROCESSED_TASKS].id = PROCESSED_TASKS
         /\ IsPill(TASK_QUEUE[PROCESSED_TASKS]) <=> PROCESSED_TASKS >= Chunks(argv)
  BY DEF CanDereference, PillQueueInv

(* The three kinds of results.                                                   *)
LEMMA ResultKinds ==
  /\ \A t : ResultOf(t).kind = "data" /\ ResultOf(t) # NoResult /\ ResultOf(t) # PoisonResult
  /\ PoisonResult.kind = "poison" /\ PoisonResult # NoResult
  BY DEF ResultOf, NoResult, PoisonResult

(* What the workers hold, and the results they store.                            *)
LEMMA PillHeldStep ==
  ASSUME PillTypes, PillCutInv, PillQueueInv, PillHeldInv, PillResultInv, [PillNext]_pillVars
  PROVE  PillHeldInv' /\ PillResultInv'
<1> DEFINE C == Chunks(argv)
<1>1. C \in Nat /\ SUBMITTED_TASKS \in Nat /\ PROCESSED_TASKS \in Nat
  BY PillCounts, SizesAssumption DEF PillTypes
<1>2. \A k \in Slots : k \in Nat
  BY SizesAssumption DEF Slots
<1> HIDE DEF C
<1>3. \A t : ResultOf(t) # NoResult /\ ResultOf(t) # PoisonResult /\ PoisonResult # NoResult
  BY ResultKinds
<1>4. ASSUME UNCHANGED <<argv, queue, results, progress, task>>, DOMAIN pc' = Workers,
             \A w \in Workers : pc'[w] \in {"encode", "post", "pill"} => pc'[w] = pc[w]
      PROVE  PillHeldInv' /\ PillResultInv'
  BY <1>4 DEF PillHeldInv, PillResultInv, ResultOf, Chunk
<1>5. ASSUME StartWorkers \/ ReadFiles \/ StartSubmit \/ JoinWorkers PROVE PillHeldInv' /\ PillResultInv'
  <2>1. /\ UNCHANGED <<argv, queue, results, progress, task>>
        /\ pc' = pc \/ \E w \in Workers : pc' = [pc EXCEPT ![w] = "lock"]
    BY <1>5 DEF StartWorkers, CreateFails, CreateThread, ReadFiles, OpenFails, OpenFile,
             NoMoreFiles, HandleError, StartSubmit, MainLock, SubmitOverflows, JoinWorkers, Join
  <2> QED BY <1>4, <2>1 DEF PillTypes
<1>6. ASSUME Signal PROVE PillHeldInv' /\ PillResultInv'
  <2>1. /\ UNCHANGED <<argv, queue, results, progress, task>>
        /\ pc' = pc \/ \E w \in Workers : pc' = [pc EXCEPT ![w] = "lock"]
    BY <1>6, SignalledWakesOne DEF Signal
  <2> QED BY <1>4, <2>1 DEF PillTypes
<1>7. ASSUME SubmitTask PROVE PillHeldInv' /\ PillResultInv'
  <2>1. /\ UNCHANGED <<argv, results, progress, pc, task>> /\ SUBMITTED_TASKS' = SUBMITTED_TASKS + 1
        /\ \A k \in Slots : k < SUBMITTED_TASKS => k < SUBMITTED_TASKS' /\ TASK_QUEUE'[k] = TASK_QUEUE[k]
    BY <1>1, <1>2, <1>7 DEF SubmitTask, PillTypes
  <2>2. PillHeldInv'
    BY <1>1, <1>2, <2>1 DEF PillHeldInv
  <2>3. PillResultInv'
    BY <1>1, <1>2, <2>1 DEF PillResultInv, ResultOf, Chunk
  <2> QED BY <2>2, <2>3
<1>8. ASSUME WriteResults PROVE PillHeldInv' /\ PillResultInv'
  <2>1. /\ UNCHANGED <<argv, queue, RESULT_QUEUE, progress, pc, task>>
        /\ \A k \in Slots : READY_QUEUE[k] = 0 => READY_QUEUE'[k] = 0
    BY <1>8 DEF WriteResults, Down, down, Merge, Flush, PillTypes
  <2>2. PillHeldInv'
    BY <2>1 DEF PillHeldInv
  <2>3. PillResultInv'
    BY <2>1 DEF PillResultInv, ResultOf, Chunk
  <2> QED BY <2>2, <2>3
<1>9. ASSUME NEW w \in Workers, LockStep(w) \/ (Wait(w) /\ UNCHANGED pills) \/ (Spurious(w) /\ UNCHANGED pills)
      PROVE  PillHeldInv' /\ PillResultInv'
  BY <1>4, <1>9 DEF LockStep, Lock, Wait, Spurious, PillTypes
<1>10. ASSUME NEW w \in Workers, Take(w) PROVE PillHeldInv' /\ PillResultInv'
  <2>1. /\ UNCHANGED <<argv, queue, results>> /\ PROCESSED_TASKS' = PROCESSED_TASKS + 1
        /\ task' = [task EXCEPT ![w] = TASK_QUEUE[PROCESSED_TASKS]]
        /\ pc' = [pc EXCEPT ![w] = "encode"] /\ CanDereference /\ ~IsPill(TASK_QUEUE[PROCESSED_TASKS])
    BY <1>10 DEF Take
  <2>2. /\ PROCESSED_TASKS \in Slots /\ PROCESSED_TASKS < SUBMITTED_TASKS /\ PROCESSED_TASKS < C
        /\ TASK_QUEUE[PROCESSED_TASKS].id = PROCESSED_TASKS
    BY <1>1, <2>1, PillTaken DEF C
  <2>3. PillHeldInv'
    BY <1>1, <2>1, <2>2 DEF PillHeldInv, PillTypes, C
  <2>4. PillResultInv'
    BY <2>1 DEF PillResultInv, ResultOf, Chunk
  <2> QED BY <2>3, <2>4
<1>11. ASSUME NEW w \in Workers, TakePill(w) PROVE PillHeldInv' /\ PillResultInv'
  <2>1. /\ UNCHANGED <<argv, queue, READY_QUEUE>> /\ PROCESSED_TASKS' = PROCESSED_TASKS
        /\ task' = [task EXCEPT ![w] = TASK_QUEUE[PROCESSED_TASKS]]
        /\ RESULT_QUEUE' = [RESULT_QUEUE EXCEPT ![TASK_QUEUE[PROCESSED_TASKS].id] = PoisonResult]
        /\ pc' = [pc EXCEPT ![w] = "pill"] /\ CanDereference /\ IsPill(TASK_QUEUE[PROCESSED_TASKS])
    BY <1>11 DEF TakePill, AfterPill
  <2>2. /\ PROCESSED_TASKS \in Slots /\ PROCESSED_TASKS = C
        /\ TASK_QUEUE[PROCESSED_TASKS].id = C
    BY <1>1, <2>1, PillTaken DEF C, PillHeldInv
  <2>3. /\ RESULT_QUEUE'[C] = PoisonResult
        /\ \A k \in Slots : k # C => RESULT_QUEUE'[k] = RESULT_QUEUE[k]
    BY <2>1, <2>2 DEF PillTypes
  <2>4. PillHeldInv'
    BY <1>1, <1>3, <2>1, <2>2, <2>3 DEF PillHeldInv, PillTypes, C
  <2>5. PillResultInv'
    BY <2>1, <2>2, <2>3 DEF PillResultInv, ResultOf, Chunk, C
  <2> QED BY <2>4, <2>5
<1>12. ASSUME NEW w \in Workers, LastUp(w) \/ PostResult(w) PROVE PillHeldInv' /\ PillResultInv'
  <2>1. /\ UNCHANGED <<argv, queue, RESULT_QUEUE, progress, task>>
        /\ pc' = [pc EXCEPT ![w] = "done"] \/ pc' = [pc EXCEPT ![w] = "lock"]
        /\ up(task[w].id) /\ RESULT_QUEUE[task[w].id] # NoResult
    BY <1>12 DEF LastUp, PostResult, Post, PillHeldInv
  <2>2. /\ READY_QUEUE' \in [Slots -> Nat] /\ READY_QUEUE \in [Slots -> Nat]
        /\ \A k \in Slots : READY_QUEUE[k] = 0 /\ k # task[w].id => READY_QUEUE'[k] = 0
    <3>1. \A k \in Slots : READY_QUEUE'[k] > 0 => READY_QUEUE[k] > 0 \/ k = task[w].id
      BY <2>1, UpRaises DEF PillTypes
    <3>2. READY_QUEUE' \in [Slots -> Nat] /\ READY_QUEUE \in [Slots -> Nat]
      BY <2>1, UpRaises DEF PillTypes
    <3> QED BY <3>1, <3>2
  <2>3. PillHeldInv'
    BY <2>1 DEF PillHeldInv, PillTypes
  <2>4. PillResultInv'
    BY <2>1, <2>2 DEF PillResultInv, ResultOf, Chunk
  <2> QED BY <2>3, <2>4
<1>13. ASSUME NEW w \in Workers, EncodeTask(w) PROVE PillHeldInv' /\ PillResultInv'
  <2> DEFINE k0 == task[w].id
  <2>1. /\ UNCHANGED <<argv, queue, READY_QUEUE, progress, task>> /\ pc[w] = "encode"
        /\ RESULT_QUEUE' = [RESULT_QUEUE EXCEPT ![k0] = ResultOf(task[w])]
        /\ pc' = [pc EXCEPT ![w] = "post"]
    BY <1>13 DEF EncodeTask, Encode
  <2>2. k0 \in Slots /\ k0 < C /\ k0 < SUBMITTED_TASKS /\ task[w] = TASK_QUEUE[k0]
    BY <2>1 DEF PillHeldInv, C
  <2>3. /\ RESULT_QUEUE'[k0] = ResultOf(TASK_QUEUE[k0])
        /\ \A k \in Slots : k # k0 => RESULT_QUEUE'[k] = RESULT_QUEUE[k]
    BY <2>1, <2>2 DEF PillTypes
  <2> HIDE DEF k0
  <2>4. PillHeldInv'
    <3>1. \A v \in Workers : /\ pc'[v] \in {"encode", "pill"} => pc'[v] = pc[v]
                             /\ pc'[v] = "post" => v = w \/ pc[v] = "post"
      BY <2>1 DEF PillTypes
    <3>2. \A k \in Slots : RESULT_QUEUE[k] # NoResult => RESULT_QUEUE'[k] # NoResult
      BY <1>3, <2>3
    <3>3. RESULT_QUEUE'[k0] # NoResult
      BY <1>3, <2>3
    <3> QED BY <2>1, <2>2, <3>1, <3>2, <3>3 DEF PillHeldInv, k0, C
  <2>5. PillResultInv'
    BY <2>1, <2>2, <2>3 DEF PillResultInv, ResultOf, Chunk, C
  <2> QED BY <2>4, <2>5
<1>14. ASSUME UNCHANGED pillVars PROVE PillHeldInv' /\ PillResultInv'
  BY <1>4, <1>14 DEF pillVars, vars, PillTypes
<1> QED BY <1>5, <1>6, <1>7, <1>8, <1>9, <1>10, <1>11, <1>12, <1>13, <1>14
        DEF PillNext, PillMainStep, PillWork, TakeTask, Terminated, pillVars

(* The writer goes on after a chunk and stops at the first poison.               *)
LEMMA PillWriterStep ==
  ASSUME PillInv, [PillNext]_pillVars
  PROVE  PillWriterInv'
<1> DEFINE C == Chunks(argv)
<1>1. C \in Nat /\ i \in Nat /\ i <= C
  BY PillCounts DEF PillInv, PillTypes, PillWriterInv
<1> HIDE DEF C
<1>2. \A k \in Slots : RESULT_QUEUE[k] # NoResult => RESULT_QUEUE'[k] # NoResult
  <2>1. ASSUME NEW w \in Workers, TakePill(w) \/ EncodeTask(w), NEW k \in Slots, RESULT_QUEUE[k] # NoResult
        PROVE  RESULT_QUEUE'[k] # NoResult
    <3>1. \E j : \/ RESULT_QUEUE' = [RESULT_QUEUE EXCEPT ![j] = PoisonResult]
                \/ RESULT_QUEUE' = [RESULT_QUEUE EXCEPT ![j] = ResultOf(task[w])]
      BY <2>1 DEF TakePill, EncodeTask, Encode
    <3> QED BY <2>1, <3>1, ResultKinds DEF PillInv, PillTypes
  <2>2. CASE UNCHANGED RESULT_QUEUE
    BY <2>2
  <2> QED BY <2>1, <2>2
          DEF PillNext, PillMainStep, StartWorkers, CreateFails, CreateThread, ReadFiles, OpenFails,
              OpenFile, NoMoreFiles, HandleError, StartSubmit, MainLock, SubmitOverflows, SubmitTask,
              Signal, WriteResults, Down, Merge, Flush, JoinWorkers, Join, LockStep, Lock, PillWork,
              TakeTask, Wait, Take, LastUp, PostResult, Post, Spurious, Terminated, pillVars, vars
<1>3. ASSUME UNCHANGED <<argv, i>>, mpc' \in {"merge", "join", "exit"} => mpc' = mpc
      PROVE  PillWriterInv'
  BY <1>2, <1>3 DEF PillInv, PillWriterInv
<1>4. ASSUME Down PROVE PillWriterInv'
  <2>1. i \in Slots /\ READY_QUEUE[i] > 0 /\ mpc' = "merge" /\ UNCHANGED <<argv, i, RESULT_QUEUE>>
    BY <1>4 DEF Down, down
  <2>2. RESULT_QUEUE[i] # NoResult
    BY <2>1, ResultKinds DEF PillInv, PillResultInv
  <2> QED BY <1>1, <2>1, <2>2 DEF PillWriterInv, C
<1>5. ASSUME Merge \/ Flush PROVE i \in Slots /\ RESULT_QUEUE[i] # NoResult
  BY <1>5 DEF Merge, Flush, PillInv, PillWriterInv
<1>6. ASSUME Merge PROVE PillWriterInv'
  <2>1. /\ RESULT_QUEUE[i].kind # "poison" /\ i' = i + 1 /\ mpc' = "down" /\ argv' = argv
    BY <1>6 DEF Merge, EndOfResults
  <2>2. i < C
    BY <1>5, <1>6, <2>1 DEF PillInv, PillResultInv, PoisonResult, C
  <2> QED BY <1>1, <2>1, <2>2 DEF PillWriterInv, C
<1>7. ASSUME Flush PROVE PillWriterInv'
  <2>1. RESULT_QUEUE[i].kind # "data" /\ i' = i /\ mpc' = "join" /\ argv' = argv
    BY <1>7 DEF Flush, EndOfResults
  <2>2. i = C
    BY <1>5, <1>7, <2>1, ResultKinds DEF PillInv, PillResultInv, C
  <2> QED BY <1>1, <2>1, <2>2 DEF PillWriterInv, C
<1>8. ASSUME JoinWorkers PROVE PillWriterInv'
  BY <1>8 DEF PillInv, PillWriterInv, JoinWorkers, Join
<1>9. ASSUME StartWorkers \/ ReadFiles \/ StartSubmit \/ SubmitTask \/ Signal PROVE PillWriterInv'
  BY <1>3, <1>9 DEF StartWorkers, CreateFails, CreateThread, ReadFiles, OpenFails, OpenFile,
             NoMoreFiles, HandleError, StartSubmit, MainLock, SubmitOverflows, SubmitTask, Signal
<1>10. ASSUME NEW w \in Workers, LockStep(w) \/ PillWork(w) \/ (Spurious(w) /\ UNCHANGED pills)
       PROVE  PillWriterInv'
  BY <1>3, <1>10 DEF LockStep, Lock, PillWork, TakeTask, Wait, Take, TakePill, LastUp, EncodeTask,
                     Encode, PostResult, Post, Spurious
<1>11. ASSUME UNCHANGED pillVars PROVE PillWriterInv'
  BY <1>3, <1>11 DEF pillVars, vars
<1> QED BY <1>4, <1>6, <1>7, <1>8, <1>9, <1>10, <1>11
        DEF PillNext, PillMainStep, WriteResults, Terminated, pillVars

(* PillInv holds in every reachable state.                                       *)
THEOREM PillInvariance == PillSpec => []PillInv
<1>1. PillInit => PillInv
  <2> SUFFICES ASSUME PillInit PROVE PillInv
    OBVIOUS
  <2>1. PillTypes
    BY SizesAssumption DEF PillInit, Init, PillTypes
  <2>2. argv \in Seq(Seq(Nat)) /\ Len(argv) \in Nat /\ ChunksUpTo(argv)[0] = 0
    <3>1. argv \in Seq(Seq(Nat))
      BY <2>1, InputsAssumption DEF PillTypes
    <3> QED BY <3>1, ChunksUpToIs
  <2>3. PillCutInv
    <3>1. arg = 1 /\ mpc = "create" /\ pills = 0 /\ SUBMITTED_TASKS = 0 /\ arg - 1 = 0
      BY DEF PillInit, Init
    <3> QED BY <2>2, <3>1 DEF PillCutInv
  <2>4. Chunks(argv) \in Nat
    BY <2>1, <2>3, PillCounts
  <2>5. PillQueueInv /\ PillHeldInv /\ PillResultInv /\ PillWriterInv
    BY <2>4, SizesAssumption
       DEF PillInit, Init, PillQueueInv, PillHeldInv, PillResultInv, PillWriterInv, Slots
  <2> QED BY <2>1, <2>3, <2>5 DEF PillInv
<1>2. PillInv /\ [PillNext]_pillVars => PillInv'
  BY PillTypeStep, PillCutStep, PillQueueStep, PillHeldStep, PillWriterStep DEF PillInv
<1> QED BY <1>1, <1>2, PTL DEF PillSpec

(* However many pills are submitted, only the first is taken, by every worker,   *)
(* the slots of the others stay empty, and the writer stops at the first.        *)
THEOREM FirstPillOnlyHolds == PillSpec => []FirstPillOnly
<1>1. PillInv => FirstPillOnly
  <2> SUFFICES ASSUME PillInv PROVE FirstPillOnly
    OBVIOUS
  <2>1. Chunks(argv) \in Nat
    BY PillCounts DEF PillInv
  <2>2. ASSUME NEW k \in Slots, k > Chunks(argv) PROVE RESULT_QUEUE[k] = NoResult /\ READY_QUEUE[k] = 0
    <3>1. k \in Nat
      BY SizesAssumption DEF Slots
    <3> QED BY <2>1, <2>2, <3>1 DEF PillInv, PillResultInv
  <2> QED BY <2>2 DEF FirstPillOnly, PillInv, PillCutInv, PillWriterInv
<1> QED BY <1>1, PillInvariance, PTL

(* Steps that leave the queue alone keep the order.                              *)
LEMMA PillOrderKept ==
  ASSUME PillOrderInv, UNCHANGED <<argv, TASK_QUEUE, SUBMITTED_TASKS>>,
         \/ UNCHANGED <<mpc, arg, size>>
         \/ mpc \in {"create", "open"} /\ mpc' \in {"create", "open"} /\ arg' = arg
         \/ mpc' \in {"failed", "overflow"}
         \/ mpc = "lock" /\ mpc' = "submit" /\ UNCHANGED <<arg, size>>
         \/ mpc = "signal" /\ ~(arg <= Len(argv)) /\ arg > Len(argv) /\ arg' = arg /\ mpc' \in {"lock", "down"}
         \/ PillSubmitted /\ PillSubmitted'
  PROVE  PillOrderInv'
<1>1. /\ \A k : Reached(k)' = Reached(k)
      /\ \A t : Begins(t)' = Begins(t)
      /\ \A t : IsPiece(t)' = IsPiece(t)
  BY DEF Reached, Begins, Ends, IsPiece
<1>2. \A k \in Slots : k < SUBMITTED_TASKS' /\ k < Chunks(argv') =>
        IsPiece(TASK_QUEUE[k])' /\ Begins(TASK_QUEUE[k])' = Reached(k)'
  BY <1>1 DEF PillOrderInv
<1>3. /\ Reached(SUBMITTED_TASKS)' = Reached(SUBMITTED_TASKS)
      /\ Reached(Chunks(argv))' = Reached(Chunks(argv))
      /\ Len(FlattenSeq(argv))' = Len(FlattenSeq(argv))
      /\ arg' = arg => Offset(argv, arg - 1)' = Offset(argv, arg - 1)
      /\ UNCHANGED <<arg, size>> => ChunkEnd' = ChunkEnd
  BY <1>1 DEF Reached, Ends, ChunkEnd
<1> QED BY <1>2, <1>3 DEF PillOrderInv, PillSubmitted

(* Every task is submitted where the last one ended.                             *)
LEMMA PillOrderSubmit ==
  ASSUME PillTypes, PillCutInv, PillOrderInv, SubmitTask
  PROVE  PillOrderInv'
<1> DEFINE C == Chunks(argv)
           o == Offset(argv, arg - 1)
<1>1. PICK n \in Slots, t \in Task : n = SUBMITTED_TASKS /\ t = NextTask
  <2>1. SUBMITTED_TASKS \in Slots /\ NextTask \in Task
    BY NextTaskIsTask, SizesAssumption DEF PillTypes, SubmitTask, Slots
  <2> QED BY <2>1, Zenon
<1>2. /\ mpc = "submit" /\ mpc' = "signal" /\ UNCHANGED <<argv, arg, size>> /\ SUBMITTED_TASKS' = n + 1
      /\ TASK_QUEUE' = [TASK_QUEUE EXCEPT ![n] = t]
  BY <1>1 DEF SubmitTask
<1>3. /\ argv \in Inputs /\ arg \in Nat \ {0} /\ size \in Nat /\ DOMAIN TASK_QUEUE = Slots
      /\ Len(argv) \in Nat /\ C \in Nat /\ n \in Nat /\ n \in 0..n
      /\ arg > Len(argv) <=> n >= C
  BY <1>1, <1>2, PillCounts, SizesAssumption DEF PillTypes, Slots
<1>4. /\ \A k \in 0..n : Reached(k)' = Reached(k)
      /\ Reached(n + 1)' = Ends(t)
      /\ TASK_QUEUE'[n] = t /\ \A k \in Slots : k # n => TASK_QUEUE'[k] = TASK_QUEUE[k]
  BY <1>2, <1>3, QueueGrows
<1>5. /\ \A x : Begins(x)' = Begins(x)
      /\ \A x : IsPiece(x)' = IsPiece(x)
  BY <1>2 DEF Begins, IsPiece
<1>6. Reached(SUBMITTED_TASKS)' = Ends(t) /\ Reached(C)' = Reached(Chunks(argv))' /\ ChunkEnd' = ChunkEnd
  <2>1. Reached(SUBMITTED_TASKS)' = Reached(n + 1)'
    BY <1>2 DEF Reached
  <2> QED BY <1>2, <1>4, <2>1 DEF ChunkEnd
<1>7. ASSUME arg <= Len(argv)
      PROVE  IsPiece(t) /\ Begins(t) = Reached(n) /\ Ends(t) = o + ChunkEnd
  <2>1. size < Len(argv[arg]) /\ Reached(n) = o + size
    BY <1>1, <1>2, <1>3, <1>7 DEF PillCutInv, PillOrderInv
  <2>2. IsPiece(t) /\ t.start = size /\ t.addr = arg
    BY <1>1, <1>3, <1>7, <2>1, NextPiece
  <2>3. t.end = ChunkEnd
    BY <1>1, <1>7 DEF NextTask
  <2> QED BY <2>1, <2>2, <2>3 DEF Begins, Ends
<1>8. ASSUME NEW k \in Slots, k < SUBMITTED_TASKS', k < Chunks(argv')
      PROVE  IsPiece(TASK_QUEUE[k])' /\ Begins(TASK_QUEUE[k])' = Reached(k)'
  <2>1. k \in 0..n /\ k < C
    BY <1>2, <1>3, <1>8, SizesAssumption DEF Slots
  <2>2. IsPiece(TASK_QUEUE'[k]) /\ Begins(TASK_QUEUE'[k]) = Reached(k)
    <3>1. CASE k = n
      <4>1. arg <= Len(argv)
        BY <1>3, <2>1, <3>1
      <4> QED BY <1>4, <1>7, <3>1, <4>1
    <3>2. CASE k # n
      <4>1. TASK_QUEUE'[k] = TASK_QUEUE[k] /\ k < n
        BY <1>3, <1>4, <2>1, <3>2
      <4> QED BY <1>1, <2>1, <4>1 DEF PillOrderInv
    <3> QED BY <3>1, <3>2
  <2>3. PICK x : x = TASK_QUEUE'[k]
    OBVIOUS
  <2>4. IsPiece(TASK_QUEUE[k])' = IsPiece(x)' /\ Begins(TASK_QUEUE[k])' = Begins(x)'
    BY <2>3 DEF IsPiece, Begins
  <2> QED BY <1>4, <1>5, <2>1, <2>2, <2>3, <2>4
<1>9. CASE arg <= Len(argv)
  <2>1. ~(arg' > Len(argv'))
    BY <1>2, <1>3, <1>9
  <2>2. Reached(SUBMITTED_TASKS)' = Offset(argv, arg - 1)' + ChunkEnd'
    BY <1>2, <1>6, <1>7, <1>9 DEF Offset
  <2> QED BY <1>2, <1>8, <2>1, <2>2 DEF PillOrderInv, PillSubmitted
<1>10. CASE ~(arg <= Len(argv))
  <2>1. arg > Len(argv) /\ C \in 0..n
    BY <1>3, <1>10
  <2>2. Reached(C) = Len(FlattenSeq(argv))
    BY <1>2, <2>1 DEF PillOrderInv
  <2>3. Reached(C)' = Reached(Chunks(argv)) /\ Len(FlattenSeq(argv))' = Len(FlattenSeq(argv))
    <3>1. PICK c \in 0..n : c = Chunks(argv)
      BY <2>1
    <3>2. Reached(C)' = Reached(c)'
      BY <1>2, <3>1 DEF Reached
    <3> QED BY <1>2, <1>4, <3>1, <3>2
  <2> QED BY <1>2, <1>6, <1>8, <1>10, <2>2, <2>3 DEF PillOrderInv, PillSubmitted
<1> QED BY <1>9, <1>10

(* The other steps leave the tasks where they are.                               *)
LEMMA PillOrderStep ==
  ASSUME PillInv, PillOrderInv, [PillNext]_pillVars
  PROVE  PillOrderInv'
<1>1. /\ argv \in Seq(Seq(Nat)) /\ Len(argv) \in Nat /\ arg \in Nat \ {0} /\ size \in Nat
      /\ arg <= Len(argv) + 1 /\ CHUNK_SIZE \in Nat \ {0} /\ arg - 1 \in 0..Len(argv)
  BY PillCounts, SizesAssumption DEF PillInv, PillTypes, PillCutInv
<1>2. Offset(argv, arg - 1) \in Nat /\ Offset(argv, Len(argv)) = Len(FlattenSeq(argv))
  BY <1>1, StreamIs
<1>3. ASSUME StartWorkers PROVE PillOrderInv'
  BY <1>3, PillOrderKept DEF StartWorkers, CreateFails, HandleError, CreateThread
<1>4. ASSUME UNCHANGED <<argv, TASK_QUEUE, SUBMITTED_TASKS>>
      PROVE  /\ \A k \in Slots : k < SUBMITTED_TASKS' /\ k < Chunks(argv') =>
                  IsPiece(TASK_QUEUE[k])' /\ Begins(TASK_QUEUE[k])' = Reached(k)'
             /\ Reached(SUBMITTED_TASKS)' = Reached(SUBMITTED_TASKS)
             /\ Reached(Chunks(argv))' = Reached(Chunks(argv))
  <2>1. /\ \A k : Reached(k)' = Reached(k)
        /\ \A t : Begins(t)' = Begins(t)
        /\ \A t : IsPiece(t)' = IsPiece(t)
    BY <1>4 DEF Reached, Begins, Ends, IsPiece
  <2>2. /\ Reached(SUBMITTED_TASKS)' = Reached(SUBMITTED_TASKS)
        /\ Reached(Chunks(argv))' = Reached(Chunks(argv))
    BY <1>4 DEF Reached, Ends
  <2> QED BY <1>4, <2>1, <2>2 DEF PillOrderInv
<1>5. ASSUME ReadFiles PROVE PillOrderInv'
  <2>1. CASE OpenFails
    BY <1>5, <2>1, PillOrderKept DEF ReadFiles, OpenFails, HandleError
  <2>2. CASE OpenFile
    <3>1. /\ mpc = "open" /\ mpc' = "lock" /\ size' = 0 /\ arg <= Len(argv)
          /\ UNCHANGED <<argv, TASK_QUEUE, SUBMITTED_TASKS, arg>>
      BY <1>5, <2>2 DEF OpenFile
    <3>2. Reached(SUBMITTED_TASKS)' = Offset(argv, arg - 1) + 0
      BY <1>2, <1>4, <3>1 DEF PillOrderInv
    <3>3. Offset(argv, arg - 1)' = Offset(argv, arg - 1) /\ ~(arg > Len(argv))
      BY <1>1, <3>1 DEF Offset
    <3> QED BY <1>4, <3>1, <3>2, <3>3 DEF PillOrderInv, PillSubmitted
  <2>3. CASE NoMoreFiles
    <3>1. /\ mpc = "open" /\ mpc' = "lock" /\ arg > Len(argv)
          /\ UNCHANGED <<argv, TASK_QUEUE, SUBMITTED_TASKS, arg>>
      BY <1>5, <2>3 DEF NoMoreFiles
    <3>2. arg - 1 = Len(argv) /\ ~(arg <= Len(argv))
      BY <1>1, <3>1
    <3>3. SUBMITTED_TASKS = Chunks(argv) /\ Reached(SUBMITTED_TASKS) = Offset(argv, Len(argv))
      BY <3>1, <3>2 DEF PillInv, PillCutInv, PillOrderInv, Chunks
    <3>4. Reached(Chunks(argv))' = Len(FlattenSeq(argv))
      BY <1>2, <1>4, <3>1, <3>3
    <3> QED BY <1>4, <3>1, <3>2, <3>4 DEF PillOrderInv, PillSubmitted
  <2> QED BY <1>5, <2>1, <2>2, <2>3 DEF ReadFiles
<1>6. ASSUME StartSubmit PROVE PillOrderInv'
  BY <1>6, PillOrderKept DEF StartSubmit, MainLock, SubmitOverflows
<1>7. ASSUME SubmitTask PROVE PillOrderInv'
  BY <1>7, PillOrderSubmit DEF PillInv
<1>8. ASSUME Signal PROVE PillOrderInv'
  <2>1. mpc = "signal" /\ UNCHANGED <<argv, TASK_QUEUE, SUBMITTED_TASKS>>
    BY <1>8 DEF Signal
  <2>2. CASE ~(arg <= Len(argv))
    <3>1. arg > Len(argv) /\ arg' = arg /\ mpc' \in {"lock", "down"}
      BY <1>1, <1>8, <2>2 DEF Signal
    <3> QED BY <2>1, <2>2, <3>1, PillOrderKept
  <2>3. CASE arg <= Len(argv)
    <3> DEFINE l == Len(argv[arg])
               o == Offset(argv, arg - 1)
    <3>1. arg \in 1..Len(argv) /\ l \in Nat /\ ~(arg > Len(argv))
      BY <1>1, <2>3
    <3>2. Reached(SUBMITTED_TASKS)' = o + ChunkEnd
      BY <1>4, <2>1, <2>3 DEF PillOrderInv
    <3>3. CASE size + CHUNK_SIZE < l
      <4>1. size' = size + CHUNK_SIZE /\ mpc' = "lock" /\ arg' = arg
        BY <1>1, <1>8, <3>1, <3>3 DEF Signal
      <4>2. ChunkEnd = size' /\ Offset(argv, arg - 1)' = o
        BY <1>1, <2>1, <3>1, <3>3, <4>1 DEF ChunkEnd, Offset
      <4> QED BY <1>4, <2>1, <3>1, <3>2, <4>1, <4>2 DEF PillOrderInv, PillSubmitted
    <3>4. CASE ~(size + CHUNK_SIZE < l)
      <4>1. arg' = arg + 1 /\ mpc' = "open"
        BY <1>1, <1>8, <3>1, <3>4 DEF Signal
      <4>2. ChunkEnd = l
        <5>1. ChunkEnd = IF size + CHUNK_SIZE > l THEN l ELSE size + CHUNK_SIZE
          BY DEF ChunkEnd
        <5> HIDE DEF l
        <5> QED BY <1>1, <3>1, <3>4, <5>1
      <4>3. Offset(argv, arg) = o + l
        BY <1>1, <3>1, OffsetIs DEF Offset
      <4>4. Offset(argv, arg - 1)' = Offset(argv, arg)
        <5>1. arg' - 1 = arg
          BY <1>1, <4>1
        <5> QED BY <2>1, <5>1 DEF Offset
      <4> QED BY <1>4, <2>1, <3>2, <4>1, <4>2, <4>3, <4>4 DEF PillOrderInv, PillSubmitted
    <3> QED BY <3>3, <3>4
  <2> QED BY <2>2, <2>3
<1>9. ASSUME WriteResults \/ JoinWorkers PROVE PillOrderInv'
  <2>1. UNCHANGED <<argv, TASK_QUEUE, SUBMITTED_TASKS>> /\ PillSubmitted /\ PillSubmitted'
    BY <1>9 DEF WriteResults, Down, Merge, Flush, JoinWorkers, Join, PillSubmitted
  <2> QED BY <2>1, PillOrderKept
<1>10. ASSUME NEW w \in Workers, LockStep(w) \/ PillWork(w) \/ (Spurious(w) /\ UNCHANGED pills)
       PROVE  PillOrderInv'
  <2>1. UNCHANGED <<argv, TASK_QUEUE, SUBMITTED_TASKS, mpc, arg, size>>
    BY <1>10 DEF LockStep, Lock, PillWork, TakeTask, Wait, Take, TakePill, LastUp, EncodeTask,
                 Encode, PostResult, Post, Spurious
  <2> QED BY <2>1, PillOrderKept
<1>11. ASSUME UNCHANGED pillVars PROVE PillOrderInv'
  BY <1>11, PillOrderKept DEF pillVars, vars
<1> QED BY <1>3, <1>5, <1>6, <1>7, <1>8, <1>9, <1>10, <1>11
        DEF PillNext, PillMainStep, Terminated, pillVars

(* What the writer merges is the result of a task, and where the tasks end is the*)
(* end of the stream.                                                            *)
LEMMA PillMergeReaches ==
  ASSUME PillInv, PillOrderInv, PillOutInv
  PROVE  /\ Merge => /\ out' = Written(FlattenSeq(argv))[Reached(i + 1)]
                     /\ Reached(i) \in 0..Len(FlattenSeq(argv))
                     /\ Reached(i + 1) \in 0..Len(FlattenSeq(argv)) /\ Reached(i) < Reached(i + 1)
         /\ Flush => out = Written(FlattenSeq(argv))[Len(FlattenSeq(argv))]
<1> DEFINE t == TASK_QUEUE[i]
<1>1. argv \in Inputs /\ i \in Nat /\ Chunks(argv) \in Nat
  BY PillCounts DEF PillInv, PillTypes
<1>2. mpc = "merge" => i \in Slots /\ RESULT_QUEUE[i] # NoResult /\ out = Written(FlattenSeq(argv))[Reached(i)]
  BY DEF PillInv, PillWriterInv, PillOutInv
<1>3. ASSUME Merge
      PROVE  /\ out' = Written(FlattenSeq(argv))[Reached(i + 1)]
             /\ Reached(i) \in 0..Len(FlattenSeq(argv))
             /\ Reached(i + 1) \in 0..Len(FlattenSeq(argv)) /\ Reached(i) < Reached(i + 1)
  <2>1. /\ mpc = "merge" /\ out' = MergeResult(out, RESULT_QUEUE[i].buffer)
        /\ RESULT_QUEUE[i].kind # "poison"
    BY <1>3 DEF Merge, EndOfResults
  <2>2. i < Chunks(argv) /\ i < SUBMITTED_TASKS /\ RESULT_QUEUE[i] = ResultOf(t)
    BY <1>2, <2>1, ResultKinds DEF PillInv, PillResultInv
  <2>3. t \in Task /\ IsPiece(t) /\ Begins(t) = Reached(i)
    BY <1>2, <2>1, <2>2 DEF PillInv, PillQueueInv, PillOrderInv
  <2>4. Reached(i + 1) = Ends(t)
    <3>1. i + 1 # 0 /\ (i + 1) - 1 = i
      BY <1>1
    <3> QED BY <3>1 DEF Reached
  <2>5. RESULT_QUEUE[i].buffer = encoder(Chunk(t))
    BY <2>2 DEF ResultOf
  <2> HIDE DEF t
  <2> QED BY <1>1, <1>2, <2>1, <2>3, <2>4, <2>5, TaskMerged
<1>4. ASSUME Flush PROVE out = Written(FlattenSeq(argv))[Len(FlattenSeq(argv))]
  <2>1. mpc = "merge" /\ RESULT_QUEUE[i].kind # "data"
    BY <1>4 DEF Flush, EndOfResults
  <2>2. i = Chunks(argv)
    BY <1>2, <2>1, ResultKinds DEF PillInv, PillResultInv
  <2>3. Reached(Chunks(argv)) = Len(FlattenSeq(argv))
    BY <2>1 DEF PillOrderInv, PillSubmitted
  <2> QED BY <1>2, <2>1, <2>2, <2>3
<1> QED BY <1>3, <1>4

(* Every step keeps the writer where it should be.                               *)
LEMMA PillOutStep ==
  ASSUME PillInv, PillOrderInv, PillOutInv, [PillNext]_pillVars
  PROVE  PillOutInv'
<1>1. argv \in Inputs
  BY DEF PillInv, PillTypes
<1>2. ASSUME UNCHANGED <<i, out>>, ~PillSubmitted, ~PillSubmitted'  PROVE PillOutInv'
  BY <1>2 DEF PillOutInv, PillSubmitted
<1>3. ASSUME UNCHANGED <<argv, TASK_QUEUE, i, out>>,
             \/ mpc' = mpc
             \/ mpc \in {"down", "merge"} /\ mpc' \in {"down", "merge"}
             \/ mpc \in {"join", "exit"} /\ mpc' \in {"join", "exit"}
      PROVE  PillOutInv'
  <2>1. Reached(i)' = Reached(i) /\ FlattenSeq(argv)' = FlattenSeq(argv)
    BY <1>3 DEF Reached, Ends
  <2>2. /\ Written(FlattenSeq(argv))' = Written(FlattenSeq(argv))
        /\ Canonical(FlattenSeq(argv))' = Canonical(FlattenSeq(argv))
    BY <1>3
  <2> QED BY <1>3, <2>1, <2>2 DEF PillOutInv, PillSubmitted
<1>4. ASSUME StartWorkers \/ ReadFiles \/ StartSubmit \/ SubmitTask PROVE PillOutInv'
  BY <1>2, <1>4 DEF StartWorkers, CreateFails, CreateThread, ReadFiles, OpenFails, OpenFile,
             NoMoreFiles, HandleError, StartSubmit, MainLock, SubmitOverflows, SubmitTask, PillSubmitted
<1>5. ASSUME Signal PROVE PillOutInv'
  <2>1. mpc = "signal" /\ UNCHANGED <<argv, i, out>> /\ mpc' \in {"lock", "open", "down"}
    BY <1>5 DEF Signal
  <2>2. i = 0 /\ out = WriterStart
    BY <2>1 DEF PillOutInv, PillSubmitted
  <2>3. Written(FlattenSeq(argv))[0] = WriterStart
    <3>1. argv \in Seq(Seq(Nat))
      BY <1>1, InputsAssumption
    <3>2. FlattenSeq(argv) \in Seq(Nat)
      <4>1. 0 \in 0..Len(argv)
        BY <3>1
      <4> QED BY <3>1, <4>1, StreamIs
    <3> QED BY <3>2, WrittenIs
  <2>4. Reached(i)' = 0
    BY <2>1, <2>2 DEF Reached
  <2>5. out' = Written(FlattenSeq(argv))[Reached(i)]'
    BY <2>1, <2>2, <2>3, <2>4
  <2> QED BY <2>1, <2>2, <2>5 DEF PillOutInv, PillSubmitted
<1>6. ASSUME Down PROVE PillOutInv'
  BY <1>3, <1>6 DEF Down
<1>7. ASSUME Merge PROVE PillOutInv'
  <2>1. mpc' = "down" /\ i' = i + 1 /\ UNCHANGED <<argv, TASK_QUEUE>>
    BY <1>7 DEF Merge
  <2>2. out' = Written(FlattenSeq(argv))[Reached(i + 1)]
    BY <1>7, PillMergeReaches
  <2>3. Reached(i)' = Reached(i + 1)
    BY <2>1 DEF Reached, Ends
  <2>4. Written(FlattenSeq(argv))[Reached(i)]' = Written(FlattenSeq(argv))[Reached(i + 1)]
    BY <2>1, <2>3
  <2> QED BY <2>1, <2>2, <2>4 DEF PillOutInv, PillSubmitted
<1>8. ASSUME Flush PROVE PillOutInv'
  <2>1. mpc' = "join" /\ argv' = argv /\ out' = [out EXCEPT !.stdout = Flushed(out)]
    BY <1>8 DEF Flush
  <2>2. out'.stdout = Canonical(FlattenSeq(argv))
    BY <1>1, <1>8, <2>1, PillMergeReaches, StreamFlushed
  <2> QED BY <2>1, <2>2 DEF PillOutInv, PillSubmitted
<1>9. ASSUME JoinWorkers PROVE PillOutInv'
  BY <1>3, <1>9 DEF JoinWorkers, Join
<1>10. ASSUME NEW w \in Workers, LockStep(w) \/ PillWork(w) \/ (Spurious(w) /\ UNCHANGED pills)
       PROVE  PillOutInv'
  BY <1>3, <1>10 DEF LockStep, Lock, PillWork, TakeTask, Wait, Take, TakePill, LastUp, EncodeTask,
                     Encode, PostResult, Post, Spurious
<1>11. ASSUME UNCHANGED pillVars PROVE PillOutInv'
  BY <1>3, <1>11 DEF pillVars, vars
<1> QED BY <1>4, <1>5, <1>6, <1>7, <1>8, <1>9, <1>10, <1>11
        DEF PillNext, PillMainStep, WriteResults, Terminated, pillVars

(* PillOrderInv and PillOutInv hold too.                                         *)
LEMMA PillOutput == PillSpec => [](PillOrderInv /\ PillOutInv)
<1>1. PillInit => PillOrderInv /\ PillOutInv
  <2> SUFFICES ASSUME PillInit PROVE PillOrderInv /\ PillOutInv
    OBVIOUS
  <2>1. OrderInv /\ OutInv
    BY OrderInit DEF PillInit
  <2>2. mpc = "create" /\ SUBMITTED_TASKS = 0 /\ i = 0
    BY DEF PillInit, Init
  <2>3. \A k \in Slots : ~(k < 0)
    BY SizesAssumption DEF Slots
  <2> QED BY <2>1, <2>2, <2>3 DEF OrderInv, OutInv, PillOrderInv, PillOutInv, PillSubmitted
<1>2. PillInv /\ PillOrderInv /\ PillOutInv /\ [PillNext]_pillVars => PillOrderInv' /\ PillOutInv'
  BY PillOrderStep, PillOutStep
<1> QED BY <1>1, <1>2, PillInvariance, PTL DEF PillSpec

(* Every step of this pool too is one of StreamEncoder, or none.                 *)
LEMMA PillStreamNext ==
  ASSUME PillInv, PillOrderInv, PillOutInv, [PillNext]_pillVars
  PROVE  [Stream!Next]_(Stream!vars)
<1>1. argv \in Inputs
  BY DEF PillInv, PillTypes
<1>2. CASE CreateFails \/ OpenFails \/ SubmitOverflows
  <2>1. UNCHANGED <<argv, out>> /\ mpc \in {"create", "open", "submit"} /\ mpc' \in {"failed", "overflow"}
    BY <1>2 DEF CreateFails, OpenFails, HandleError, SubmitOverflows
  <2>2. out = WriterStart /\ Running
    BY <2>1 DEF PillOutInv, PillSubmitted, Running
  <2> QED BY <2>1, <2>2, StreamFail
<1>3. CASE OpenFile \/ NoMoreFiles \/ MainLock \/ SubmitTask \/ Signal \/ Down \/ \E w \in Workers : CreateThread(w)
  <2>1. UNCHANGED <<argv, out>> /\ Running /\ Running'
    BY <1>3 DEF OpenFile, NoMoreFiles, MainLock, SubmitTask, Signal, Down, CreateThread, Running
  <2> QED BY <2>1, StreamStutter
<1>4. CASE Merge
  <2>1. mpc = "merge" /\ mpc' = "down" /\ argv' = argv /\ Running /\ Running'
    BY <1>4 DEF Merge, Running
  <2>2. out = Written(FlattenSeq(argv))[Reached(i)]
    BY <2>1 DEF PillOutInv
  <2> QED BY <1>1, <1>4, <2>1, <2>2, PillMergeReaches, StreamMerge
<1>5. CASE Flush
  <2>1. argv' = argv /\ out' = [out EXCEPT !.stdout = Flushed(out)] /\ Running /\ Running'
    BY <1>5 DEF Flush, Running
  <2> QED BY <1>1, <1>5, <2>1, PillMergeReaches, StreamFlush
<1>6. CASE Join
  BY <1>6, StreamComplete DEF Join, PillOutInv
<1>7. ASSUME NEW w \in Workers, LockStep(w) \/ PillWork(w) \/ (Spurious(w) /\ UNCHANGED pills)
      PROVE  [Stream!Next]_(Stream!vars)
  <2>1. UNCHANGED <<argv, out, mpc>>
    BY <1>7 DEF LockStep, Lock, PillWork, TakeTask, Wait, Take, TakePill, LastUp, EncodeTask,
                Encode, PostResult, Post, Spurious
  <2> QED BY <2>1, StreamStutter
<1>8. CASE UNCHANGED pillVars
  <2>1. UNCHANGED <<argv, out, mpc>>
    BY <1>8 DEF pillVars, vars
  <2> QED BY <2>1, StreamStutter
<1> QED BY <1>2, <1>3, <1>4, <1>5, <1>6, <1>7, <1>8
        DEF PillNext, PillMainStep, StartWorkers, ReadFiles, StartSubmit, WriteResults, JoinWorkers,
            Terminated, pillVars

(* The earlier pool writes what StreamEncoder may write: the safety part of      *)
(* PillsImplementStreamEncoder.                                                  *)
THEOREM PillsStreamEncoderImplemented ==
  PillSpec => Stream!Init /\ [][Stream!Next]_(Stream!vars)
<1>1. PillInit => Stream!Init
  BY StreamInit DEF PillInit
<1>2. PillInv /\ PillOrderInv /\ PillOutInv /\ [PillNext]_pillVars => [Stream!Next]_(Stream!vars)
  BY PillStreamNext
<1> QED BY <1>1, <1>2, PillInvariance, PillOutput, PTL DEF PillSpec

(* Its runs that end are runs of StreamEncoder.                                  *)
THEOREM EndingPillRunsImplementStreamEncoder ==
  PillSpec /\ <>~Running => PillsImplementStreamEncoder
<1> DEFINE status == IF mpc = "exit" THEN "ok" ELSE IF Running THEN "running" ELSE "failed"
<1>1. ~Running => status # "running"
  BY DEF Running
<1> QED BY <1>1, PillsStreamEncoderImplemented, PTL DEF PillsImplementStreamEncoder, Stream!Spec

================================================================================
