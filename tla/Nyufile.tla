--------------------------------- MODULE Nyufile ---------------------------------
(* Recovery of deleted files by Shell-fat32/nyufile.c: -r takes the clusters that *)
(* follow the entry's start cluster, -R those that ClusterSearch finds.           *)
(*                                                                                *)
(* The program writes through a shared mapping, one store at a time.  The kernel  *)
(* may write a page back at any moment, msync writes all of them, a signal may    *)
(* kill the program between two stores, and a power failure loses what has not    *)
(* been written back.  Between runs the image is mounted and files are created    *)
(* and deleted by a FAT driver (external), which goes by the first FAT.           *)
(* SyncDirectory, AnyCluster, FirstFatUpdated and NameFirst are deliberately      *)
(* wrong versions of the definitions they precede (PROJECT.json, "mutants").      *)
EXTENDS Fat32

CONSTANTS
  NumFATs,       \* BPB_NumFATs
  Slots,         \* entries of the root directory, in the order of its cluster chain
  LastCluster,   \* data clusters are 2 .. LastCluster
  Names,         \* file names, records of the first character and the rest
  Blocks,        \* contents of a cluster of a file
  Blank,         \* content of a cluster never used
  MaxSize,       \* bound: largest file
  MaxCreates, MaxKills, MaxPowerFailures,   \* bounds: how often each happens
  NULL

ASSUME DiskAssumption ==
  /\ NumFATs \in Nat \ {0} /\ LastCluster \in Nat /\ MaxSize \in Nat \ {0}
  /\ Slots \subseteq Nat /\ NULL \notin Slots
  /\ \A name \in Names : name = [first |-> name.first, rest |-> name.rest]

DataClusters == 2..LastCluster
FatIndexes   == 2..(LastCluster + ClustersOf(MaxSize) - 1)  \* its sector goes on behind them
FREE == 0
EOF  == -1
Copies == 1..NumFATs
DIR    == 0
Pages  == {DIR} \union Copies

VARIABLES
  cache,       \* the image as the mapping shows it: a FAT per copy, and the directory
  image,       \* the same pages on the storage device
  data,        \* the data clusters, never written by nyufile
  pc,          \* "idle", "name", "fat" or "start" (the stores), "msync" or "done"
  cmd,         \* option, filename and the SHA-1 given, or NULL
  slot,        \* the entry being recovered
  clusters,    \* the clusters its file is to have
  copy, j,     \* the loop over the FATs, and the one over the clusters
  deletedAs,   \* history: name and content each deleted file had
  interrupted, \* history: entries whose recovery was cut short
  overwriting, \* history: some -r was used on a file whose clusters are not free
  creates, kills, failures

run     == <<pc, cmd, slot, clusters, copy, j>>
history == <<deletedAs, interrupted, overwriting>>
bounds  == <<creates, kills, failures>>
vars    == <<cache, image, data, run, history, bounds>>

Unused == [state |-> "unused", name |-> NULL, start |-> 0, size |-> 0]
NoCmd  == [opt |-> NULL, name |-> NULL, sha1 |-> NULL]

Init ==
  /\ cache = [p \in Pages |-> IF p = DIR THEN [s \in Slots |-> Unused]
                              ELSE [c \in FatIndexes |-> FREE]]
  /\ image = cache
  /\ data = [c \in DataClusters |-> Blank]
  /\ pc = "idle" /\ cmd = NoCmd /\ slot = NULL /\ clusters = <<>> /\ copy = 1 /\ j = 1
  /\ deletedAs = [s \in Slots |-> NULL] /\ interrupted = {} /\ overwriting = FALSE
  /\ creates = 0 /\ kills = 0 /\ failures = 0

--------------------------------------------------------------------------------
(* Reading the image.                                                             *)

Dir(d)      == d[DIR]
Live(d)     == {s \in Slots : Dir(d)[s].state = "live"}
Unlinked(d) == {c \in DataClusters : d[1][c] = FREE}

(* fat_updater and update_non_cont_fat: the FAT entry for the k-th cluster.       *)
Link(cs, k) == IF k = Len(cs) THEN EOF ELSE cs[k + 1]

(* The ways to read a copy of the FAT as the chain of an entry: from its start    *)
(* cluster on, as many clusters as its size needs, and the end mark behind them.  *)
(* (There is no more than one.)                                                   *)
Chains(fat, entry) ==
  LET n == ClustersOf(entry.size)
  IN  {cs \in [1..n -> DataClusters] :
         /\ IsInjective(cs) /\ (n > 0 => cs[1] = entry.start)
         /\ \A k \in 1..n : fat[cs[k]] = Link(cs, k)}

ChainOf(d, p, s) == CHOOSE cs \in Chains(d[p], Dir(d)[s]) : TRUE
Clusters(d, s)   == Range(ChainOf(d, 1, s))

(* The entry's file is all there, in each copy.                                   *)
Complete(d, s) == \A p \in Copies : Chains(d[p], Dir(d)[s]) # {}

Content(d, s) == FileContent(data, ChainOf(d, 1, s), Dir(d)[s].size)

--------------------------------------------------------------------------------
(* The FAT driver that mounts the image between runs, and unmounts it.            *)

Links(fat, cs) ==
  [c \in DOMAIN fat |->
     IF \E k \in DOMAIN cs : cs[k] = c
     THEN Link(cs, CHOOSE k \in DOMAIN cs : cs[k] = c) ELSE fat[c]]

Create(s, name, size) ==
  /\ pc = "idle" /\ creates < MaxCreates /\ s \notin Live(cache)
  /\ \A t \in Live(cache) : Dir(cache)[t].name # name
  /\ \E cs \in [1..ClustersOf(size) -> Unlinked(cache)], bs \in [1..ClustersOf(size) -> Blocks] :
       /\ IsInjective(cs)
       /\ cache' = [p \in Pages |->
            IF p = DIR
            THEN [Dir(cache) EXCEPT ![s] = [state |-> "live", name |-> name, size |-> size,
                                            start |-> IF size = 0 THEN 0 ELSE cs[1]]]
            ELSE Links(cache[p], cs)]
       /\ data' = [c \in DataClusters |->
            IF \E k \in DOMAIN cs : cs[k] = c
            THEN bs[CHOOSE k \in DOMAIN cs : cs[k] = c] ELSE data[c]]
  /\ image' = cache' /\ creates' = creates + 1
  /\ deletedAs' = [deletedAs EXCEPT ![s] = NULL] /\ interrupted' = interrupted \ {s}
  /\ UNCHANGED <<run, overwriting, kills, failures>>

(* (Of files whose links are known to be sound: what a driver makes of others is  *)
(* not the program's doing.)                                                      *)
Delete(s) ==
  /\ pc = "idle" /\ s \in Live(cache) \ interrupted /\ ~overwriting
  /\ cache' = [p \in Pages |->
       IF p = DIR THEN [Dir(cache) EXCEPT ![s].state = "deleted"]
       ELSE [c \in FatIndexes |-> IF c \in Clusters(cache, s) THEN FREE ELSE cache[p][c]]]
  /\ image' = cache'
  /\ deletedAs' = [deletedAs EXCEPT ![s] = [name |-> Dir(cache)[s].name, content |-> Content(cache, s)]]
  /\ UNCHANGED <<data, run, interrupted, overwriting, bounds>>

(* The kernel writes a page of the mapping back (which can only be told once the  *)
(* power fails).                                                                  *)
WriteBack(p) ==
  /\ failures < MaxPowerFailures
  /\ image[p] # cache[p] /\ image' = [image EXCEPT ![p] = cache[p]]
  /\ UNCHANGED <<cache, data, run, history, bounds>>

--------------------------------------------------------------------------------
(* Choosing the entry.                                                            *)

(* is_recoverable: deletion has overwritten the first character of the name.      *)
is_recoverable(entry, filename) ==
  entry.state = "deleted" /\ entry.name.rest = filename.rest

(* get_recoverable_files.                                                         *)
get_recoverable_files(filename) ==
  {s \in Slots : is_recoverable(Dir(cache)[s], filename)}

(* The loops over them go in the order of the directory.                          *)
IsFirst(s, files) == s \in files /\ \A t \in files : s <= t

AnyCluster == DataClusters

(* is_unallocated, of the clusters in the window of get_unallocated_cluster.       *)
Unallocated == Unlinked(cache)

(* fat_updater's clusters: those that follow the start cluster.                   *)
Contiguous(s) ==
  [k \in 1..file_cluster_counter(Dir(cache)[s].size) |-> Dir(cache)[s].start + k - 1]

(* sha1_calculator = the digest given (the image has nothing behind its end).     *)
HasSha1(s, sha1) ==
  /\ Range(Contiguous(s)) \subseteq DataClusters
  /\ FileContent(data, Contiguous(s), Dir(cache)[s].size) = sha1

(* match_entry_sha1 takes the first of these.                                     *)
matching(files, sha1) == {s \in files : HasSha1(s, sha1)}

NameFirst(opt) ==
  IF opt = "R" THEN [idle |-> "name", name |-> "fat", fat |-> "start", start |-> "msync"]
               ELSE [idle |-> "name", name |-> "fat", fat |-> "msync"]

(* recover_current_entry stores the name first, then the FATs; for -R             *)
(* recover_with_clusters stores the FATs, the start cluster, and last the name.   *)
Following(opt) ==
  IF opt = "R" THEN [idle |-> "fat", fat |-> "start", start |-> "name", name |-> "msync"]
               ELSE [idle |-> "name", name |-> "fat", fat |-> "msync"]

Run(opt, filename, sha1, s, cs) ==
  /\ pc = "idle" /\ pc' = Following(opt)[pc]
  /\ cmd' = [opt |-> opt, name |-> filename, sha1 |-> sha1]
  /\ slot' = s /\ clusters' = cs
  /\ UNCHANGED <<cache, image, data, copy, j, deletedAs, interrupted, bounds>>

Overwrites(s) == ~(Range(Contiguous(s)) \subseteq Unlinked(cache))

(* recover_cont_file without -s: the only candidate ("multiple candidates found"  *)
(* and "file not found" change nothing).                                          *)
RecoverOnly(filename) ==
  \E s \in Slots :
    /\ get_recoverable_files(filename) = {s}
    /\ Run("r", filename, NULL, s, Contiguous(s))
    /\ overwriting' = (overwriting \/ Overwrites(s))

(* recover_cont_file with -s.                                                     *)
RecoverMatching(filename, sha1) ==
  \E s \in Slots :
    /\ IsFirst(s, matching(get_recoverable_files(filename), sha1))
    /\ Run("r", filename, sha1, s, Contiguous(s))
    /\ overwriting' = (overwriting \/ Overwrites(s))

(* recover_non_cont_file: the first candidate with an arrangement (ClusterSearch  *)
(* finds one, and misses none).                                                   *)
RecoverArranged(filename, sha1) ==
  LET found(s) == Arrangements(data, Unallocated, Dir(cache)[s].size, sha1)
  IN  \E s \in Slots :
        /\ IsFirst(s, {t \in get_recoverable_files(filename) : found(t) # {}})
        /\ \E cs \in found(s) : Run("R", filename, sha1, s, cs)
        /\ UNCHANGED overwriting

--------------------------------------------------------------------------------
(* The stores of a recovery, one at a time.                                       *)

Stored == pc' = Following(cmd.opt)[pc] /\ UNCHANGED <<copy, j>>

NameStore ==
  /\ pc = "name" /\ Stored
  /\ cache' = [cache EXCEPT ![DIR][slot] =
                [@ EXCEPT !.state = "live", !.name.first = cmd.name.first]]
  /\ UNCHANGED <<image, data, cmd, slot, clusters, history, bounds>>

(* (The start cluster's two halves as one: the entry still is a deleted one.  An  *)
(* empty file's start cluster is written back as it was.)                         *)
StartStore ==
  /\ pc = "start" /\ Stored
  /\ cache' = [cache EXCEPT ![DIR][slot].start = IF Len(clusters) = 0 THEN @ ELSE clusters[1]]
  /\ UNCHANGED <<image, data, cmd, slot, clusters, history, bounds>>

FirstFatUpdated == copy > 1 \/ Len(clusters) = 0

FatsUpdated == copy > NumFATs \/ Len(clusters) = 0

LinkStore ==
  /\ pc = "fat" /\ ~FatsUpdated
  /\ cache' = [cache EXCEPT ![copy][clusters[j]] = Link(clusters, j)]
  /\ IF j < Len(clusters) THEN j' = j + 1 /\ UNCHANGED copy ELSE j' = 1 /\ copy' = copy + 1
  /\ UNCHANGED <<image, data, pc, cmd, slot, clusters, history, bounds>>

FatsEnd ==
  /\ pc = "fat" /\ FatsUpdated /\ pc' = Following(cmd.opt)[pc]
  /\ copy' = 1 /\ j' = 1
  /\ UNCHANGED <<cache, image, data, cmd, slot, clusters, history, bounds>>

SyncDirectory == [image EXCEPT ![DIR] = cache[DIR]]

Synced == cache

(* msync, then "successfully recovered".                                          *)
Msync ==
  /\ pc = "msync" /\ image' = Synced /\ pc' = "done"
  /\ interrupted' = interrupted \ {slot}
  /\ UNCHANGED <<cache, data, cmd, slot, clusters, copy, j, deletedAs, overwriting, bounds>>

Finish ==
  /\ pc' = "idle" /\ cmd' = NoCmd /\ slot' = NULL /\ clusters' = <<>> /\ copy' = 1 /\ j' = 1

Exit ==
  /\ pc = "done" /\ Finish
  /\ UNCHANGED <<cache, image, data, history, bounds>>

(* A signal kills the program: what it stored stays in the page cache.            *)
Kill ==
  /\ pc \notin {"idle", "done"} /\ kills < MaxKills /\ kills' = kills + 1 /\ Finish
  /\ interrupted' = interrupted \union {slot}
  /\ UNCHANGED <<cache, image, data, deletedAs, overwriting, creates, failures>>

PowerFailure ==
  /\ cache # image /\ failures < MaxPowerFailures /\ failures' = failures + 1
  /\ cache' = image /\ Finish
  /\ interrupted' = interrupted \union ({slot} \ {NULL})
  /\ UNCHANGED <<image, data, deletedAs, overwriting, creates, kills>>

Sizes == 0..MaxSize

(* The digests a user may hold: of the files deleted.                             *)
Sha1s == {deletedAs[s].content : s \in {t \in Slots : deletedAs[t] # NULL}}

Next ==
  \/ \E s \in Slots, name \in Names, size \in Sizes : Create(s, name, size)
  \/ \E s \in Slots : Delete(s)
  \/ \E p \in Pages : WriteBack(p)
  \/ \E name \in Names : RecoverOnly(name)
  \/ \E name \in Names, sha1 \in Sha1s : RecoverMatching(name, sha1)
  \/ \E name \in Names, sha1 \in Sha1s : RecoverArranged(name, sha1)
  \/ NameStore \/ StartStore \/ LinkStore \/ FatsEnd \/ Msync \/ Exit \/ Kill \/ PowerFailure

Spec == Init /\ [][Next]_vars

--------------------------------------------------------------------------------

(* Once "successfully recovered" is printed, the storage itself holds the file:   *)
(* under the name given, linked completely in every copy of the FAT, and with the *)
(* content of the SHA-1 given.  (Without -s the clusters must have been free.)    *)
RecoveredIsIntact ==
  pc = "done" =>
    /\ slot \in Live(image) /\ Dir(image)[slot].name = cmd.name
    /\ cmd.sha1 # NULL \/ ~overwriting => Complete(image, slot)
    /\ cmd.sha1 # NULL => Content(image, slot) = cmd.sha1

Trusted == Live(cache) \ (interrupted \union {slot})

(* No recovery damages another file: whatever is stored, killed or lost, the      *)
(* files that are not being recovered are well linked, alike in all copies of the *)
(* FAT, and share no cluster (as long as -r is asked only for files whose         *)
(* clusters are still free, which it does not check).                             *)
NoCrossLinks ==
  ~overwriting =>
    /\ \A s \in Trusted : /\ Complete(cache, s)
                         /\ \A p \in Copies : ChainOf(cache, p, s) = ChainOf(cache, 1, s)
    /\ \A s, t \in Trusted :
         s # t => Clusters(cache, s) \intersect Clusters(cache, t) = {}

(* A file outlives the stores, kills and power failures of later recoveries: its  *)
(* entry and its links stay as they are until the file is deleted, which reaches  *)
(* the storage at once.                                                           *)
FilesStay ==
  [][~overwriting' => \A s \in Trusted :
       \/ Dir(cache')[s].state = "deleted" /\ image' # image
       \/ /\ Dir(cache')[s] = Dir(cache)[s]
          /\ \A c \in Clusters(cache, s) :
               data'[c] = data[c] /\ \A p \in Copies : cache'[p][c] = cache[p][c]]_vars

(* -R names the file last: killed at any point it leaves either a deleted entry   *)
(* or the whole file.                                                             *)
KilledRLeavesNoHalfFile ==
  cmd.opt = "R" /\ slot \in Live(cache) => Complete(cache, slot)

(* "calculate how many cluster does the file needs" (nyufile.c:237).              *)
CounterIsEnough == \A s \in Slots :
  file_cluster_counter(Dir(cache)[s].size) = ClustersOf(Dir(cache)[s].size)
================================================================================
