# A formal model of NYUSHell

NYUSHell (`src/`) holds three C programs that share no code and do not run together:

| program | source | what it is |
|---|---|---|
| `nyuenc` | `src/Shell-multithred/nyuenc.c` | a run-length encoder with a pool of threads |
| `nyush` | `src/Shell-structure/nyush.c` | a shell with pipelines, redirections and job control |
| `nyufile` | `src/Shell-fat32/nyufile.c`, `nyufile.h` | recovery of deleted files on a FAT32 image |

This directory models each of them from its input to its end, and looks longest where they are
hard to test: the thread pool and the merge of its results, the job table against a kernel that
changes processes behind the shell's back, the token array that is rewritten while it is read, the
descriptors of a pipeline while its stages start one by one, the addresses of a FAT32 root
directory in 32 bits, the backtracking search for clusters, and a recovery that is cut short
between two stores. TLC checks the models on small instances. TLAPS proves the safety properties
of seven of them for every instance (any number of workers, files, stages, jobs, clusters, FATs, any
line, disk and schedule): what the encoder's output is, that the shell loses no child, that no
program of a pipeline keeps an end it does not own, that the search misses no arrangement, that a
reported recovery is intact.

Line numbers below are those of the three files in the table unless another file is named.

## 1. Inventory

### nyuenc

*State.* Three global arrays of `MAX_TASK_NUM` slots, `TASK_QUEUE`, `RESULT_QUEUE` and
`READY_QUEUE` (a semaphore per slot), two counters, the flag `IS_ALL_PROCESSED`, one mutex and
one condition variable (37-48). A worker keeps a copy of its task. The main thread keeps the
position in the input and, later, the run it has not written yet.

*Operations and interaction.* The main thread creates the workers (292), maps each file and cuts
it into chunks (235), submits a task per chunk and at last one *poison pill* (185, 269), then
turns into the writer: for each slot it waits for the semaphore, merges the result into the
current run and writes what is final (128), and stops at the poison. It joins the workers (305).
A worker takes the next task under the mutex, encodes it without the mutex and raises the slot's
semaphore (195). The pill is never taken out of the queue: each worker that sees it stores a
poison result in the same slot, signals the next worker, raises the semaphore once more and ends.

*Hard.* One signal wakes one waiter, one pill has to end all the workers, the semaphores are the
only order between a result and its reader, the wait loop can be left on the flag alone, runs
cross the borders of chunks and files, and an error while files are opened meets workers that
are already encoding.

*Correct when* no worker dereferences an empty slot, no slot is filled twice with data, the
writer reads only complete results and stops at the pill and nowhere else, every thread ends, and
the output is the canonical encoding of the concatenated files for every number of threads.

*The version before*, `working.c`, has the same arrays and threads but submits one pill for each
worker, has no flag, wakes nobody when a pill is taken, and does some steps in another order: it
signals after the unlock (122) and unlocks before it raises the pill's semaphore (145). The
directory's README calls it "also working well".

### nyush

*State.* The token array `separated_commands` and its segments; the table `jobs`/`job_count`
(19-27); per command the pids, the pipes' descriptors `fds[][2]`, `fd_in`, `fd_out` (368-397); in
the kernel, the children and their signal handlers, the descriptor tables and the pipes.

*Operations and interaction.* `main` prints a prompt, for which `getcwd` must work (43), reads a line
(65), cuts it into tokens (89) and executes a built-in (`cd`, `jobs`, `fg`, `exit`) or a command.
`check_redirection` removes redirections from the array in place, `segment_command` cuts what is left
at the pipes (269-355). `execute_command` opens the redirections, creates the pipes, forks
the stages, closes its own ends and waits for one stage after the other with `WUNTRACED`
(360-467); a stage that has stopped is put in the table (144). `fg` sends SIGCONT, waits, and
removes the job or moves it to the end of the table (200); each stage is a job of its own, and `fg`
resumes that one only. A job keeps the first `MAX_INPUT_LENGTH` bytes of its line (148). `exit` refuses while there are jobs
(129), the end of the input does not (65). Each child resets its signals, closes the unrelated
ends, moves its own to 0 and 1 and executes the program (404-446). All children stay in the
shell's process group, so Ctrl-C and Ctrl-Z reach every one of them.

*Hard.* The loop that removes two tokens copies from one cell behind the array's NULL, and goes on
at the same index in what it has just shifted; a stage may be left without a token. Signals arrive
between any two steps, also between `fork` and the reset of the handlers; a listed job may be
killed, continued or interrupted behind the shell's back; only some stages of a pipeline may stop, and
`fg` may then wait for one that waits for another; the copy of a long command has no end; a
pipe ends only when every write end is closed, in the shell and in every sibling.

*Correct when* `waitpid` and `kill` are always given a child that has not been reaped, no child is
forgotten, `exit` leaves none behind, the table shows the jobs in the order of their last stop under
their own command line as far as the array holds it; each stage gets the tokens of the line that are its own, and no line that
fits makes the shell leave the array; each program starts with exactly its own ends, sees an end of
file or a broken pipe only when it is a real one, and every command ends in a new prompt.

### nyufile

*State.* The image, mapped shared: the boot sector, the FATs, the root directory, the data clusters.
The options noted while the line is parsed (`filename_r`, `filename_R`, the digests). During `-R`
the array of unallocated clusters shared by all recursive calls, and `matched_cluster`, the clusters
of the current branch.

*Operations and interaction.* `main` maps the disk and takes the options in order: `-i` and `-l`
print at once, `-r`, `-R` and `-s` are noted and carried out when the whole line has been accepted
(590-661). Listing and recovery walk the root's cluster chain from entry to entry, by addresses
computed in `unsigned int` (184, 206, 222). `-r` restores the name of a deleted entry and links the
clusters that follow its start cluster, in every FAT, then `msync` (343); with `-s` it picks the
candidate whose content has the digest (369). `-R` searches, depth first, the sequences of
unallocated clusters in a small window for one with the digest (406-519), links them, and sets the
start cluster and last the name (537). Between runs the image is used by a FAT driver.

*Hard.* The first and last cluster of the chain, clusters below 2 in `current_cluster - 2`, slots of
long names whose bytes mean something else, also where an entry has its cluster and size, which `-r`
and `-R` use unchecked (277, 300, 464); options in any order. Backtracking in one shared array
over all depths and all entries; the order of stores when the program is killed, and of the pages
written back when the power fails; the rounding of sizes.

*Correct when* the listing shows each file and directory of the root once, a recovery touches only a
deleted entry, gives it the name asked for and leaves the root's own chain as it was, the program breaks down
only where an option or an entry is at fault, every command line ends; the search undoes its marks,
finds an arrangement whenever there is one and only real ones, and ends; and a recovery that was
reported is complete on the storage, in every FAT, without ever harming another file.

### Everything else

| part | here? |
|---|---|
| release of memory at the end of the programs | not modelled: nothing depends on it any more |
| the characters of a line, of messages and of numbers | abstracted: a token is its kind; a line of a listing is a record |
| `final_1.c`, `final_2.c`, `nyush_without_*.c`, `nyush_*pipe*.c` | superseded drafts, not modelled; `final_version.c` and `nyush_99_version.c` are identical to the programs modelled |
| `nyuenc0.1.c` | its one-pass encoder is the reference of `SameAsSequential`; its parallel mode is a draft |
| Makefiles, autograders, reference outputs | no logic of the programs |

## 2. Modules

```
RLE ───────── StreamEncoder (abstract)         JobControl (abstract)     Fat32
 ├─ ChunkedEncoder ─┬─ MCChunkedEncoder         ▲ Control                ├─ ClusterSearch ─┬─ MCClusterSearch
 │                  └─ EncoderProofs          Nyush ─ NyushProofs        │                 └─ ClusterSearchProofs
 └─ ThreadPool ─┬─ MCThreadPool                                          └─ Nyufile ─┬─ MCNyufile
      │ Stream  └─ PillPool ─┬─ MCPillPool                                           └─ NyufileProofs
      ▼                      └─ ThreadPoolProofs *
    StreamEncoder                             CommandLine
                                               └─ Pipeline ─┬─ MCPipeline
                                                            └─ PipelineProofs
                                              RootDirectory
                                               └─ NyufileCommand ─┬─ MCNyufileCommand
                                                                  └─ NyufileCommandProofs
```

An upward or downward arrow is an `INSTANCE ... WITH` with a refinement mapping, a plain line
an `EXTENDS`; `ThreadPoolProofs` (*), which has the proofs about both pools, also extends
`EncoderProofs`. The modules of one program meet where one takes the outcome of the other: `Nyush` starts
and loses processes and leaves their descriptors to `Pipeline`, where nothing stops; `NyufileCommand`
takes every entry that the disk can hold but leaves open which candidate, and which clusters, the
search finds, and has the first FAT only, the one that is read. `ClusterSearch` is the search, and
`Nyufile` has the other FATs and the storage; both take entries that are those of files. `Recursion` holds the induction that the proofs share.

| module | models | state and actions |
|---|---|---|
| `RLE` | pure: `encoder()` (91-125), the merge in `write_result` (142-168), the one-pass loop of `nyuenc0.1.c` | operators only; `Canonical` and `Decode` are the reference |
| `ChunkedEncoder` | the data path alone: a stream cut anywhere | one action per chunk, beside the one-pass encoder |
| `ThreadPool` | the whole of `nyuenc` (`parsing_j` as an operator: the set of workers is a constant) | globals under their C names; `mpc`/`pc` are the program counters of main and workers |
| `StreamEncoder` | what `nyuenc` promises | the output grows to the canonical encoding, or nothing is written at all |
| `PillPool` | `working.c`: the steps of `ThreadPool` that are the same, and those that are not | `pills` counts the pills submitted |
| `Nyush` | prompt, built-ins, fork, wait, job table, `fg`, `exit`, end of input, with the kernel's processes and the terminal | `spc` is the shell's program counter, `proc` the kernel's process table |
| `JobControl` | what job control promises | a process is in the foreground, suspended or gone |
| `CommandLine` | pure: `separate_input`, the removal loop of `check_redirection`, `segment_command`, on an array with cells that were never assigned | operators only; `StageOf` is the reference |
| `Pipeline` | `execute_command`: tokens and descriptors from the line to the prompt, data flowing through the pipes | `fds` and `child[i].fds` are descriptor tables |
| `RootDirectory` | pure: 8.3 names, which entries are listed or match, addresses in `unsigned int`, the image a FAT driver leaves | operators only |
| `NyufileCommand` | `main`, `command_parsing`, `-i`, `-l`, the walk of `get_recoverable_files` | `pc`, one action per option and per entry of a walk |
| `Fat32` | pure: cluster counting in `unsigned int`, content of a cluster list | operators only |
| `ClusterSearch` | `get_unallocated_cluster`, `match_non_cont_file`, `matched_permutation`, `cluster_permutation` | the recursion is a stack of frames, one action per loop step |
| `Nyufile` | `-r`, `-r -s`, `-R` store by store; page cache, storage, kill, power failure; the FAT driver | `pc`, `copy` and `j` say which store comes next |

How an action corresponds to the code:

* **ThreadPool.** A critical section is one action from the test to the unlock, except where it
  touches something another thread reads without the mutex: `Poison` (stores the poison result,
  signals) and `PoisonUp` (raises the semaphore, unlocks) are apart, and so are `Encode` and `Post`.
  `Lock` and `Wait` are apart, since `pthread_cond_wait` returns through the lock. `Signalled` wakes
  one waiter of any choice; `Spurious` wakes one for no reason. The failure of `pthread_create`,
  `open`, `fstat` and `mmap` is `CreateFails`/`OpenFails`, the one of `mmap` on an empty file
  follows from the guard of `OpenFile`. A store behind the end of `TASK_QUEUE` is `SubmitOverflows`,
  after which nothing is claimed.
* **PillPool.** An action of `ThreadPool` is taken over where `working.c` has the same code, under a
  name of its own (`TakeTask`, `WriteResults`, ...). `IS_ALL_PROCESSED` does not exist there and is
  never set here.
* **Nyush.** One action per system call whose result matters. A new child is `"fork"` until it has
  reset SIGINT, `"half"` until it has reset SIGTSTP, then `"run"` (404-409). `WaitedEnd` and
  `WaitedStop` are the two ways `waitpid` returns; with each goes all the code does with it
  (`remove_job`, `add_job`, next stage), as nothing else can observe the order. A line without
  effect on processes is one action of its own for each kind (`BlankLine`, `BuildinCd`, `NoSuchJob`,
  `Malformed`, ...). A command in memory is its line and where a reader finds its end: `strncpy`
  (148) leaves a line of `LongCommands` "cut" and without a zero byte, so that `printf` (183) and
  `strdup` (218) go on into the `pid` behind the array. `partners` are the processes a stage is
  connected with by pipes.
* **Pipeline.** `ReadLine` is `separate_input`, `Redirection` one turn of the loop of
  `check_redirection` with its `open` and its removal, `BadRedirection` and `Segment` are the tests
  that give the line up, after files may have been opened. A cell that was never assigned is
  `GARBAGE`; when the code would read or write outside the array the shell is `"undefined"` and
  nothing more is claimed. A child runs `CloseUnrelated`, `SetStdin`, `SetStdout` (411-439) in steps
  of its own, between those of the shell and its siblings.
* **NyufileCommand.** `OptionI` ... `OptionOther` are the cases of the `getopt` loop, `OptionsEnd`
  is what follows it. A walk looks at one entry in a step (`ListEntry`,
  `ScanEntry`) and follows the chain in another (`NextCluster`). A recovery changes the entry and stores the links in the FAT (`Linked`), which a
  later `-R` walks through. What lies at an address that is no slot of the root is read as any
  entry of `Foreign`. `Undefined` is the step after which nothing is claimed: a store outside
  the FAT or into what only looks like an entry, a read behind the disk's last cluster, a candidate
  or a cluster more than the arrays hold (277, 300, 357, 464).
* **ClusterSearch.** `Scan` and `ScanEnds` are the loop of `get_unallocated_cluster`. `Descend` marks and calls down (452-466), `Return0` is the return with the
  restore and the loop's increment (472-473, 449), `Match` the return of 1 through all the calls,
  which leaves the array marked as the code does.
* **Nyufile.** A recovery decides on its clusters and then makes its stores one by one in the order
  of the code (`NameStore`, `LinkStore`, `FatsEnd`, `StartStore`, `Msync`). The two halves of the start cluster are one store, as the entry still is a deleted one
  while they differ. `-R` and `-r` in one command line are two runs.

## 3. What is outside and how it is modelled

These parts are not in `src/`; the models take from them what the code relies on.

* **Threads and semaphores**: a mutex is granted to any thread that asks; `cond_signal` wakes one
  waiter of the scheduler's choice; memory is sequentially consistent between a mutex or semaphore
  and the accesses it orders.
* **Kernel, processes**: a pid is reused only after it has been reaped. Handlers installed with
  `signal()` restart `getline` and `waitpid`, so Ctrl-C and Ctrl-Z do not appear in the shell
  itself. Programs take the default action for signals. A stopped process keeps SIGINT pending until
  it is continued; SIGKILL and SIGCONT may come from other programs at any time.
* **Kernel, descriptors**: the lowest free descriptor is handed out; end of file on a pipe when it
  is empty and no process has its write end, SIGPIPE when none has its read end.
* **Storage**: a page of a shared mapping may be written back at any time and in any order; `msync`
  writes all of them and does not fail. A killed program leaves its stores in the page cache, a
  power failure loses what has not been written back.
* **FAT driver**: goes by the first FAT, writes all of them, puts a new file into any unlinked
  clusters, and has synced the image when it is unmounted. Deleting overwrites the first character
  of the name and frees the chain. It does not touch files whose links are unsound (those of an
  interrupted recovery).
* **getopt**: returns the options in their order and moves the operands behind them; an unknown
  option is `?`.
* **SHA-1**: no collisions; a digest is the content it was computed of.

## 4. Runs

The twelve runs, their bounds, and why those are enough.

| run | checks | instance | states |
|---|---|---|---|
| `pool` | `TypeOK` `NoNullDereference` `OneWorkerPerTask` `ReadyResultIsComplete` `WriterStopsAtPill` `NoLostWakeup` `OverflowOnlyWhenTooLarge` `PublishedResultsStay` `ImplementsStreamEncoder` | 3 workers, 0-4 chunks of 2 bytes, 4 slots; every stream of up to 3 bytes of 0 and 1 in one file, of 4 in two | 392 thousand |
| `pills` | `FirstPillOnly` `PillsImplementStreamEncoder` | 3 workers, 0-3 chunks, 5 slots | 52 thousand |
| `encode` | `MergeIsCanonical` `SameAsSequential` | every stream of 3 bytes up to length 5 and of 2 up to length 8, chunks of 1-4, runs up to 2, one byte negative | 12 thousand |
| `nyush` | `TypeOK` `JobsAreUnreaped` `NoLostChild` `JobKeepsCommand` `JobsInStopOrder` `CommandReturns` `ImplementsJobControl` | 3 pids, 2 command lines, one of them too long for a job, pipelines of 1-2, 2 jobs | 354 thousand |
| `pipeline` | `TypeOK` `OnlyOwnEnds` `NoEarlyEof` `NoEarlyBrokenPipe` `StagesAreTheLine` `ArrayBounds` `PipelineEnds` | 2 lines: all of up to 3 tokens and 14 longer ones; 11 cells, up to 3 stages, 9 descriptors, pipes of 1 unit, 2 units | 205 thousand |
| `root` | `ListingIsTheRoot` `CrashOnlyWithoutDigest` `RecoversOnlyTheDeleted` `CommandEnds` | command lines of up to 3 options, roots of 2-3 of 12 objects, 6 of them deleted, names of 3+1 characters, 1 or 2 entries per cluster, 2 candidates, 2 clusters in `-R`, a window of 8 | 1.02 million |
| `search` | `TypeOK` `MarksAreUndone` `FoundIsAnArrangement` `NoMatchMissed` `SearchEnds` | 3 data clusters of 2 bytes, every set of unallocated ones, 1-2 entries of sizes 0, 1, 4, 5 | 439 thousand |
| `recovery` | `RecoveredIsIntact` `NoCrossLinks` `KilledRLeavesNoHalfFile` `FilesStay` | 2 FATs, 2 entries, 2 clusters, 2 names, 2 creations, 1 kill, 1 power failure | 5.0 million |
| `encode_temp_buffer`, `nyush_deaf_child`, `pipeline_leak`, `recovery_counter` | one property each, violated | see section 7 | small |

**pool.** Three workers are the fewest for which one takes the pill, one is between lock and wait
and one sleeps at the same time. The inputs have no file, an empty file (which `mmap` refuses), one,
two and three chunks, and four chunks, which with the pill overflow four slots. `NoNullDereference`
is the interesting one in line 206: a worker may leave the wait loop only because the flag is set,
when `SUBMITTED_TASKS > PROCESSED_TASKS` was never tested. `NoLostWakeup` says that the workers
never all sleep with work in the queue. With chunks of 2 and runs of up to 3 the streams split runs
inside, at and over chunk and file borders; the first byte 0 is what `current_char` holds before any
result. `ImplementsStreamEncoder` says what a user may rely on: nothing is written before all input
is read, stdout is always a prefix of the canonical encoding, it is all of it on success and nothing
on failure, and the program ends, whatever the schedule. Here, "written" means handed to `fwrite`.

**pills.** The same three workers, each with a pill of its own. `FirstPillOnly` says that they all
take the first one, and that the arrays can be too short because of the other pills alone; five
slots are too few for three chunks only.

**encode.** The same data path without threads, so that longer streams and freely placed cuts fit,
and with a byte that a signed `char` reads as negative (`encoder()` never extends a run of those,
and begins with a pair of count 0; the merge repairs both). `SameAsSequential` speaks of streams
without such bytes: `nyuenc0.1.c` has the same comparison, and writes them one by one.
`MCChunkedEncoder` also assumes, and TLC evaluates, that the reference is one: decoding a canonical
encoding gives the stream back.

**nyush.** Two stages and two jobs are enough for a pipeline that stops in part, a job removed
before another one and a full table; three pids let a third command run with two jobs in the
background, `fork` fail for want of a pid, and a reaped pid come back. Every child may be killed,
continued, interrupted or stop itself at every step, and the working directory may be removed.
One of the two lines fills a job's array; `JobKeepsCommand` says that it stays listed under the part
that fits, also after `fg` has copied it with the bytes behind it. `CommandReturns` makes two
exceptions, explained in section 5: a stage waited for that may be blocked for ever by a stopped one,
and stopped processes that others continue for ever.
`ImplementsJobControl` is the summary: a line is taken only with no process in the foreground, the
shell leaves by `exit` only when nothing is suspended, and it gives up on its children only where
the code exits on a failure.

**pipeline.** Three stages are the first with a middle child, the one case in which a child has ends
of two pipes of its own. The lines are all of up to three tokens (a lone operator, an operator as
file, pipes at either end), pipelines with redirections in front, in the middle and behind, two
pipes in a row, several redirections of one kind, and lines that fill the array of eleven cells to
the last one, by one less and by two less, with and without a redirection to remove. Two lines fill
nine descriptors, so that `pipe` and `open` fail as well (after the leak of section 7). One unit in
a pipe makes a writer block on a slow or unborn reader. `OnlyOwnEnds` says from which file the first
program reads, and to which the last one writes, only where the code does what its comments say: when
the redirections stand in the first and in the last program of the line and the last of them could be
opened. In the other lines of the run it still says that each program has its own ends, and at
the ends of the pipeline the terminal or one of the line's files (section 7).

**root.** The objects are what a FAT32 root can hold: files with and without clusters, directories,
deleted files and directories, a volume label, slots of long names whose bytes happen to look like
the end of the directory, a short name or a deleted one. Six of the twelve are deleted: among
them some that, in one image or the other, begin in the root's own chain, at the end of the disk or
behind the FAT, or have a size that wraps or needs more clusters than the search has room for. Three of them in three clusters take the
walk over two links of the chain, two of them fill a cluster that is followed by an empty one; the
root at clusters 7 and 10 leaves `unsigned int` (made 42 wide), of which `ListingIsTheRoot` claims nothing.
`RecoversOnlyTheDeleted` is about every image: of the directory only one deleted entry changes. That
the links of the root's chain stay, too, is said of `Sound` images, in which each deleted entry of a
name on the line can be that of a file (`Harmless`); and `CrashOnlyWithoutDigest` says that, apart
from a missing digest or disk, the program can break down or become undefined only where the image is
not `Sound`. Option lines of
three with `-R` first and in every order of two others have `-s` before, between and behind; `?`,
operands, a missing disk and one that cannot be mapped end the program early.

**search.** Contents are chosen so that no, one or several arrangements have the content sought, that
the last bytes of a cluster do not matter, and that a later entry matches after an earlier one was
searched in vain with the same array. The window is the whole of the data clusters.

**recovery.** Two files are enough to share, lose or overwrite a cluster, two FATs to be out of
step, and two names that differ in their first character give one deleted entry two possible names
and one name two candidates. Clusters are blocks of one unit; what happens within a cluster is
checked by `search`. One power failure after or instead of a kill cuts every sequence of stores at
every place with every subset of pages written back.

Bounds that stand in guards: `MaxStages`, `MaxLines`, `Units`, `MaxSize`, `MaxCreates`, `MaxKills`,
`MaxPowerFailures`. The others are lengths of real arrays (`MAX_TASK_NUM`, `MAX_ARGS`, `MAX_JOBS`,
`MaxCandidates`, `MaxClusters`, `Window`, `ScanLimit`, `MaxFds`, `NameLen`, `ExtLen`) or widths (`MAX_CHAR_LEN`, `UIntMod`,
`ShortMod`) made small. `CHECK_DEADLOCK FALSE` stands where a behaviour ends: the stream is encoded,
the lines are used up, the search has its answer, the events of the disk are used up. In the other
runs a deadlock would be an error: the end of the program is a step of its own there (`Terminated`).

For every property of a passing run `PROJECT.json` names a mutant, an operator of the module
that makes a plausible mistake in the code (a dropped restore, a signal that wakes no
one, the FAT copies after the first forgotten, the name stored first ...), under which TLC finds
the property violated in the same run.

## 5. Fairness

| specification | assumed | because |
|---|---|---|
| `ThreadPool!FairSpec` | weak fairness of the main thread and of each worker; strong fairness of taking the mutex | threads are scheduled; a thread that keeps finding the mutex free gets it. Nothing is assumed of spurious wake-ups or failing calls |
| `PillPool!PillSpec` | the same | the same |
| `Nyush!FairSpec` | weak fairness of the shell's own steps once it has a line, of a child's reset of its signals, and of the end of a program that runs while no stage it has a pipe to is stopped (`CanEnd`) | processes are scheduled. That a program left to run ends is an assumption about the environment: `sleep infinity` never lets the shell return. Nothing is assumed of a program next to a stopped one, nor of the user |
| `Pipeline!FairSpec` | weak fairness of the shell and of each program's reading, writing and ending at the end of its input | processes are scheduled. No program has to end early, so the ends of file must really arrive |
| `ClusterSearch!Spec`, `NyufileCommand!Spec` | weak fairness of `Next` | one thread that never blocks |

A reader whose writer is stopped waits for ever, and so does a writer whose reader is. `fg` resumes one
stage of a suspended pipeline, so the shell can hang on it; `CommandReturns` excludes exactly that
(`[]Hangs`: from some point on the shell waits for a running stage next to a stopped one) and the case
that other programs continue stopped processes without end. `partners` keeps no direction and no
data: a stage whose neighbour is stopped is allowed to end, and is allowed not to.

`ChunkedEncoder` and `Nyufile` have no liveness properties and no fairness.

## 6. Proofs

All proofs are checked by TLAPS and hold for every value of the constants that the named assumptions
of the modules admit: any number of workers, files, stages, jobs, clusters or FATs, any bytes, lines
and disks. Each `...Proofs` module begins with the parts of its inductive invariant, then has the
lemmas on operators, one lemma for each action (or, in `ThreadPoolProofs`, for each part), and at the
end the theorems. `ThreadPoolProofs` does so twice, once for each pool. A theorem `XHolds` states property `X` of the specification the run checks.

### nyuenc: the pool (`ThreadPoolProofs`)

`TypeCorrect`, `Invariance`, `NoNullDereferenceHolds`, `OneWorkerPerTaskHolds`,
`ReadyResultIsCompleteHolds`, `WriterStopsAtPillHolds`, `NoLostWakeupHolds`,
`OverflowOnlyWhenTooLargeHolds`, `PublishedResultsStayHolds`; `StreamEncoderImplemented`, from
`OutputInvariance`, and `EndingRunsImplementStreamEncoder`.

*Assumptions.* There is a worker (itself proved of `parsing_j`, for every sequence of options:
`ThreadsAreCreated`), the markers `Main`, `Free` and `NULL` are none of the things they are compared
with, and no file is so long that a chunk starts at `UINT_MAX`, which would be taken for the pill.

*The invariant.* None of the properties is inductive: each needs to know where the pill is.

* `MutexInv`: the holder of the mutex is in a critical section, and the only one there.
* `QueueInv`: slot `k` holds task `k`, the slots behind are empty, and the pill is the last one
  exactly when the main thread has gone on to write.
* `CountInv`: the pill is never counted as processed. So `PROCESSED_TASKS` stays at the
  pill once `IS_ALL_PROCESSED` is set, and line 206 finds it there for every later worker: with
  `QueueInv` this is `NoNullDereference`.
* `HeldInv`: tasks outside the mutex are distinct and below `PROCESSED_TASKS`; a worker with the
  pill is at the last slot.
* `ResultInv`: what is stored in slot `k` is the result of task `k`, or the poison exactly at the
  pill. A second poison therefore overwrites an equal one, and a data result only an empty slot:
  `PublishedResultsStay`.
* `AnnouncedInv`: a slot whose semaphore has been raised (now, or before the writer passed it)
  holds a result, and no worker is still filling it: with `ResultInv`, `ReadyResultIsComplete`.
* `WriterInv`: the writer is within the queue and stops at the last slot.
* `WakeInv`, on top of `IInv`: if a worker sleeps while there is work, another one is awake; and
  while one is between storing the poison and raising the semaphore, the one it has signalled is on its
  way to the lock. This is the chain by which one pill ends all workers.
* `CutInv`: what has been submitted is the tasks of the files before `arg` and those of this file up
  to `size`. The sum over the files is a recursive function, taken apart by `ChunksUpToIs`.

*The refinement.* `StreamEncoder` knows nothing of chunks, threads or files: its output grows to
the encoding of one stream. Two more parts relate it to the pool.

* `OrderInv`: every task begins where the one before it ends in the files joined (`Begins`, `Ends`), is
  that piece of them (`IsPiece`), and the next one to be submitted begins where the last ends. So
  the order of submission, which no thread can change, is the order of the bytes.
* `OutInv`: what the writer holds is `Written(stream)`, of `EncoderProofs`, at the place the results
  it has taken reach (`Reached`). Each result is the encoding of its task (`ResultInv`), so
  `ChunkMerged` takes the writer from one place to the next (`MergeReaches`), and with
  `WrittenIsCanonical` what is printed is the canonical encoding of a prefix (`OutStep`).

`StreamNext` then maps a merge that prints to `Write`, the end of the writer to `Complete`, the failing
ends to `Fail`, and everything else to a stutter. `StreamEncoder` also promises that the output ends; this
is `<>~Running`, the hypothesis of `EndingRunsImplementStreamEncoder`, which TLC checks under `FairSpec`.

### nyuenc: the pool with a pill for each worker (`ThreadPoolProofs`, second part)

`PillInvariance`, `FirstPillOnlyHolds`; `PillsStreamEncoderImplemented`, from `PillOutput`, and
`EndingPillRunsImplementStreamEncoder`.

*Assumptions.* Those of the pool, and `PillAssumption`: there are finitely many workers, as
`num_threads` is an `int`.

*The invariant* is another one. The flag `IS_ALL_PROCESSED` is never set; what stops the workers is
that nobody counts the first pill as processed. None of the properties proved needs the mutex or
who sleeps: this program has no second flag to keep in step with the counter.

* `PillCutInv`: how many tasks there are, from where the main thread stands in the files and among
  the pills. A task is in the queue before the loops go on, by the signal in between (`Ahead`).
  When the arrays are full, chunks and pills together are too many for them.
* `PillQueueInv`: slot `k` holds task `k`, which is a pill exactly from `Chunks(argv)` on.
* `PillHeldInv`: `PROCESSED_TASKS` never passes `Chunks(argv)`, so that a worker with a pill has the
  first one, and a worker with a chunk one before it.
* `PillResultInv`, `PillWriterInv`: results are those of the chunks, the poison is in slot `Chunks(argv)`
  and nothing behind it, and the writer stops there. With `PillCutInv` this is `FirstPillOnly`.
* `PillOrderInv`, `PillOutInv`: as in the pool, restricted to the slots before the first pill.
  How a merge and the end of the writer map to `StreamEncoder` is shared with it (`TaskMerged`,
  `StreamFlushed`, `StreamMerge`, `StreamFlush`, `StreamComplete`).

### nyuenc: the encoding (`EncoderProofs`)

`MergeIsCanonicalHolds`, `SameAsSequentialHolds`, from `CutInvariance`: for every stream of bytes,
every way to cut it, every `MAX_CHAR_LEN`, with or without bytes that are negative as a `char`.

* `Written(data)` is the writer that is given the bytes one at a time, as pairs of count 1. It
  knows nothing of chunks. `ChunkMerged`: merging what `encoder()` makes of a chunk takes
  `Written(data)[pos]` to `Written(data)[pos + n]`, by induction over the chunk with `RunGrows` (a run
  of `n + 1` is merged like the run of `n` and one byte more). So the invariant is
  `merged = Written(data)[pos]`, and the cuts are gone.
* The reference speaks of positions: which of them start a pair (`PairStarts`) and which is the
  `k`-th. `StartsGrow` and `CanonicalGrows` say how it changes when a byte is appended: the last pair is
  extended, or a pair of one byte is added. `NextByte` says the same of the writer, and
  `WrittenIsCanonical` puts the two together. Byte 0 at the very start is `FirstByte`.

### nyush: job control (`NyushProofs`)

`TypeCorrect`, `JobsAreUnreapedHolds`, `NoLostChildHolds`, `JobKeepsCommandHolds`,
`JobsInStopOrderHolds`, and `JobControlImplemented`: each step of the shell, a child, the kernel or the
user is a step of `JobControl` or a stutter (`ControlInit`, `ControlNext`; `Spec => Control!Spec`).

*Assumptions.* `BoundsAssumption`: the bounds are numbers, and the lines too long for a job's array are
some of the lines.

*The invariant.* The properties about the prompt have to be carried through a command. The stages
that have been forked and not waited for are `Pending`: each is a child of its own, not reaped, not
in the table (`PendingInv`). A job is such a child too and no process is listed twice (`TableInv`);
`fg` waits for a listed one, with a copy of its command (`FgInv`). For a line that fills the array that
copy ends in the `pid` behind it; `KeptAgain` is why the table does not show it: `add_job` cuts it
at the same place again. *Every child is pending or in the table*
(`ChildrenInv`) is what `NoLostChild` is at the prompt, where nothing is pending. What
`remove_job` and `add_job` do to a sequence is in `RemoveAtProperties`, `RemovedTable`, `AddedTable`.

### nyush: pipelines (`PipelineProofs`)

`TypeCorrect`, `ArrayBoundsHolds`, `OnlyOwnEndsHolds`, `NoEarlyEofHolds`, `NoEarlyBrokenPipeHolds`,
`StagesAreTheLineHolds`.

*Assumptions.* The lines are sequences of tokens that are not blank and have fewer pipes than
`MaxStages`; a table has more than the three standard descriptors.

* `RedirectInv`: while redirections are removed, the cells before some `from` hold the tokens before
  some `q` that stay (`Kept`), in their order, and the cells from there hold *every* token of the
  line from `q` on (`Frontier`). The removal moves both ends alike, so that the array never grows and `ArrayBounds` follows.
  `Files` says that `fd_in` and `fd_out` are the *last* redirection of their kind so far.
* `ShellInv`, `EndsInv`: the shell has both ends of every pipe and no two of its descriptors are the
  same one (`dup2` on 0 and 1 can then not close the wrong one); `ChildInv` has the table of a child at
  each point between `fork` and `exec` (`ForkedTable`, `StdinTable`, `StdoutTable`, `RunTable`), with
  exactly the ends it still is to move. `RunTable`, with `Files` for the ends of the pipeline, gives
  `OnlyOwnEnds`.
* `FlowInv`, `EofInv`: what has been written to a pipe is in it or has been read; a reader sees the
  end only when no table has the write end, which by `ChildInv` are only the shell's, those of
  children before `exec`, and the stage before.
* `StagesAreTheLine` needs nothing more: in the one step that makes the stages the array is what
  `Frontier` says with no token left (`ArrayLeft`), so its pipes are those of the line, as many before
  each cell as before its token (`PipesAre`); and the cells of segment `k` are those with `k` pipes
  before them (`SegmentIs`, by counting: `BeforeGrows`, `KthIs`).

### nyufile: the search (`ClusterSearchProofs`)

`TypeCorrect`, `MarksAreUndoneHolds`, `FoundIsAnArrangementHolds`, `NoMatchMissedHolds`.

*Assumptions.* `WindowAssumption`: the sizes tried have at most `MaxClusters` clusters (the length
of `matched_cluster`) and their sum in `file_cluster_counter` does not wrap.

`MarkInv` and `OfferInv`: the pending calls have marked the array at distinct places, and putting
their clusters back gives the window. `BranchInv`: `matched_cluster` and `file_content` are those of the
pending calls, for which nothing of another branch is left. Completeness is `PassedInv`: an
arrangement with the content sought that agrees with the pending calls down to depth `d` has not
been passed by at depth `d`. At depth 1, when the loop is over, it says that there is none.

### nyufile: recovery (`NyufileProofs`)

`RecoveredIsIntactHolds`, `NoCrossLinksHolds`, `KilledRLeavesNoHalfFileHolds`, `FilesStayHolds`.

*Assumptions.* `NoWrap`: `MaxSize + ClusterSize <= UIntMod`, stated in the theorems. It excludes only
files within a cluster of 4 GiB, for which the code is wrong (run `recovery_counter`).

`SyncInv` says what the storage may lack: only entries that are, or were being, recovered. `TrustInv`
has the chains of the other files, the same in the page cache and on the storage, and disjoint.
`ProgressInv` and `StoresInv` say which stores of the run have been made, in the order of the code for
each option, and `ClustersInv` what is known of the clusters they link. That the chain of an entry is
unique when there is one (`ChainUnique`) makes `ChainOf` more than a choice; links outside a chain do
not disturb it (`ChainKept`).

### nyufile: the command line (`NyufileCommandProofs`)

`CrashOnlyWithoutDigestHolds`, `RecoversOnlyTheDeletedHolds`, `ListingIsTheRootHolds`.

*Assumptions.* `ImagesAssumption`: the images are what a FAT driver leaves (`WellFormed`): the chain of
the root is made of distinct clusters and has room for the objects; the names of files and
directories are made of legal characters, a directory has size 0 and an empty file no cluster; slots
of labels and long names, and deleted entries, may hold anything; the first FAT holds the chain and
reaches over all clusters of the disk (`Tabled`). What is read elsewhere are entries
(`ForeignAssumption`), the arrays have a length (`ArraysAssumption`), and a name asked for begins with a
character (`CommandLinesAssumption`). The listing is claimed for roots whose clusters begin
within 2^32 bytes (`WithinUInt`), beyond which `cluster_to_dir` wraps (184).

`LineInv` (which options have been taken), `GivenInv` (what has been noted of them: no `-s` among
those taken while there is no digest), `ScanInv` (only recoverable entries are found, wherever the FAT
links lead), `ImageInv` (what still is a deleted entry is the one the image was formatted with: a second
recovery takes none that the first has taken). That giving a deleted entry its first character makes `format83` the name asked
for is `RenamedIs`: the blanks at the end of name and extension stay where they were.

That the program stays within the image, the FAT and the arrays is an argument about a whole run, as a
first recovery changes the links by which the second one walks. `SoundInv` has it: on a `Sound` image
the root's links are those it was formatted with (`RootKept`), so a walk is on the root's chain or
behind its end; all it has found are candidates among the root's objects (`FromRoot`), no more than
the slots passed so far hold (`Passed`), hence never more than `MaxCandidates` (`SoundScan`). Each of
them is `Harmless`, so that its clusters are in the FAT, on the disk and outside the root
(`SoundClusters`; for `-R` they are unallocated, and the root's are not), and storing their links keeps
`RootKept` (`SoundRecovery`). With this the links of the root in `RecoversOnlyTheDeleted`, and the
last case of `CrashOnlyWithoutDigest` (`CrashStep`), follow step by step.

The listing rests on three parts. *Names*: `format83` of the padded name of an object is its name
(`GenuineName`) and passes `filename_checker` (`GenuineChecked`), so that its line is `Shown`
(`DisplayedIs`). *Places*: slots have addresses of their own (`CellsApart`, `AddressApart`), the image
has at each the entry of its object (`SlotHolds`) and nothing behind them; the FAT leads from each
cluster of the chain to the next and the last to an end mark (`TabledIs`, `SlotReached`). *The walk*: `WalkInv` says
that a walk stands at a slot of the chain and that the lines noted stand for the objects of the
slots it has passed (`Listed`). A recovery in the same run does not matter to it, as `-l`
walks before anything is written (`FormatInv`).

### `Recursion`

Induction and recursion up to `n`, stated with sets and functions, as the induction theorems of the
library take an operator, which the provers here cannot instantiate. `MinIs` and `MaxIs` rest on the
well-foundedness of inclusion among finite sets, `UpToInduction` on `MinIs`; `UpToRecursion` and
`FollowsIterates` give what a recursive function equals at each step.

### Only model-checked

Liveness: the end of the program in `ImplementsStreamEncoder` and `PillsImplementStreamEncoder`,
`CommandReturns`, `PipelineEnds`, `CommandEnds`, `SearchEnds`. Fairness is stated with ENABLED, which
is out of the provers' reach.

## 7. Findings

Four places where the code does not do what a comment beside it says. Each has a run that TLC
ends with a counterexample.

* **`encode_temp_buffer`**, `nyuenc.c:102`. `task->addr[i]` is a plain `char`, `current_char` an
  `unsigned char`; where `char` is signed no byte from 128 on is ever equal to it. Each starts a pair
  of its own, the first one after a pair of count 0, so a chunk of `n` such bytes
  stores `n + 1` pairs in `temp_buffer`, which has room for `n` (98-99). The output is
  nevertheless right (`MergeIsCanonical` holds with such bytes), as the merge adds the pairs up.
* **`nyush_deaf_child`**, `nyush.c:407`. The comment in line 406 says the signals are not ignored
  in the child, but a Ctrl-C between `fork` and line 407 runs the handler inherited from the shell
  and is lost. The command then goes on, and the shell waits for it.
* **`pipeline_leak`**, `nyush.c:451`. The comment in line 450 says "close all file descriptors";
  `fd_in` and `fd_out` are not closed. The run shows it of a command that was carried out, with a
  program in every stage: line 451 has been passed, and the file is still open at the prompt. A long session of redirections runs out of
  descriptors: then `open` fails, or `pipe`, on which the shell exits.
* **`recovery_counter`**, `nyufile.c:239`. `DIR_FileSize + cluster_size - 1` wraps for files within
  a cluster of 4 GiB: the count is 0 and `-r` restores the name without a chain.

Other places where the code differs from what is said of it. They are steps of the models, and the
properties that pass are stated so that they do not claim what is said:

* Redirections belong "in first program" and "in last program" (`nyush.c:419`, 431) and stand "only at
  ends of pipelines" (`src/README.md:55`, and 65). The code takes them from any place of the line: in
  `< f a | < g b` the first program reads `g`. `OnlyOwnEnds` says which file it is only for
  lines that have them at the ends.
* A redirection that fails is to lead "out of the command execution" (`nyush.c:377`); the command is
  executed, on the terminal or, when a later redirection of the kind succeeds, with that one's file
  (378). `OnlyOwnEnds` allows it and asks for neither.
* A job is to have "the entire command" and "its full command" (`nyush.c:143`, 456). Of a line of
  `MAX_INPUT_LENGTH` bytes or more, which `getline` takes (60), `strncpy` keeps what fills the array,
  without a zero byte (148); `jobs` (183) and `fg` (218) read on into the `pid` that follows, whose highest
  byte is zero. `JobKeepsCommand` says what is kept.
* `-r` and `-R` look at the name of a deleted entry and not at its kind, start or size. A deleted
  slot of a long name, or an entry whose place on the disk has been reused, can lead the stores out
  of the FAT into another copy, the directory or nowhere (`nyufile.c:277`), the reads behind the
  image (296-304), and the search behind `matched_cluster` (464). `NyufileCommand` is undefined from
  there on; `Sound` and `Harmless` name the images for which the properties exclude it.

Seen in reading, and not modelled as a property: `TooManyJobs`, a failed `fork`, a failed
`getcwd` and the end of the input let the shell exit and leave its children behind (153, 403, 43,
65; actions of `Nyush`, `GiveUp` of `JobControl`), and nothing in the repository says what should
become of them; the `index` stored in a job is not corrected when jobs move up (168), but nothing
reads it; a line of `MAX_ARGS` tokens or more is stored behind the array although it is reported
(100), and a redirection in a line that fills the array reads behind it (306; both `"undefined"` in
`Pipeline`); `-r` does not look whether the clusters it links are still unallocated
(`nyufile.c:277`), which the history variable `overwriting` of `Nyufile` excludes from the
properties; slots of long names and labels are listed when their bytes look like a short name (the
decoys of `ListingIsTheRoot`); `-R` without `-s` hands a null pointer to `hex_to_binary` (573).

## 8. Not modelled

* `final_1.c`, `final_2.c`, the parallel mode of `nyuenc0.1.c` and the drafts of `nyush`:
  superseded, each a subset of what is modelled or a version that its author has replaced;
  `final_version.c` and `nyush_99_version.c` are the programs modelled, line for line.
* `print_result` of `working.c`: never called.
* Printed text, and the characters of which names, tokens and numbers are made, except for those of
  8.3 names, of which a short alphabet is modelled.
* `msync` that fails, or whose length wraps to 0 for an image of exactly 4 GiB (`nyufile.c:352`):
  its result is not looked at, so nothing would be left to claim of the storage.
* What the program does once it has left an array or the image: a file of six clusters or more
  in `-R`, for which `matched_cluster` is too short (464), more than 100 candidates (357), a deleted
  entry with a start or size that is no file's. That it comes to this is a step (`Undefined` of
  `NyufileCommand`); what follows is the compiler's choice. `ClusterSearch` and `Nyufile` take only entries
  within these limits ("small unallocated window, small file cluster count", `src/README.md`).
* Pipes and stops together: in `Pipeline` nothing stops, in `Nyush` a pipe is only the relation
  `partners`. Whether a stage next to a stopped one can go on is left open.
* A root directory whose chain runs into a cycle or a free entry: not an image a FAT driver leaves;
  the walk would not end (206).
* Build files, autograders and reference outputs.

Hazards that a property comes near and does not catch, because it leaves them out:

* the exits that leave children behind (`nyush.c:403`): `JobControl` allows them (`GiveUp`), so
  `ImplementsJobControl` holds whether they happen or not;
* lines of `MAX_ARGS - 1` tokens and more (`nyush.c:100`): `ArrayBounds` is about shorter ones;
* `-r` over clusters that have been reused (`nyufile.c:277`): excluded from `NoCrossLinks` and
  `FilesStay` by the history variable `overwriting`;
* a root beyond 4 GiB (`nyufile.c:184`): excluded from `ListingIsTheRoot` by `WithinUInt`;
* ill-formed chains (`nyufile.c:206`): `CommandEnds` is about images with a well-formed one.

## 9. Plan

The order in which the models were planned, and where they stand.

1. `RLE`, `ThreadPool`, `StreamEncoder` with the safety proof: the most concurrent part. *Done.*
2. `Nyush` with `JobControl`; `Pipeline`. *Done, checked by TLC.*
3. `Fat32`, `ClusterSearch`, `Nyufile`. *Done, checked by TLC.*
4. `CommandLine`, the token array under `Pipeline`; prompt and built-ins in `Nyush`. *Done, checked by TLC.*
5. `RootDirectory` and `NyufileCommand`: command line, listing, the walk through the root. *Done, checked by TLC.*
6. `PillPool`, the earlier pool. *Done, checked by TLC.*
7. Proofs: `ThreadPool`, `PillPool`, `EncoderProofs`, `Nyush` with its refinement of `JobControl`, `Pipeline`,
   `ClusterSearch`, `Nyufile`, `NyufileCommand`. *Done, as section 6 says.*
8. `ThreadPool` and `PillPool` implement `StreamEncoder`: the tasks adjoin, the writer is the encoder of
   the stream. *Done.*
9. Left to TLC: liveness.
