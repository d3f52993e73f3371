------------------------------ MODULE ClusterSearch ------------------------------
(* The search of nyufile -R for the clusters of a deleted file: for each matching *)
(* directory entry in turn, cluster_permutation tries the sequences of clusters   *)
(* that the first FAT calls unallocated, depth first, in one array shared by all  *)
(* the calls: a cluster in use is overwritten with -1 and put back on return.     *)
(*                                                                                *)
(* The recursion is modelled by its stack: one frame for each pending call, with  *)
(* the caller's i and previous_cluster.  NoRestore, ScanShort, NotMarked,         *)
(* AdvanceTwice and AdvanceForgotten are deliberately wrong versions of the       *)
(* definitions they precede (PROJECT.json, "mutants").                            *)
EXTENDS Fat32, SequencesExt

CONSTANTS
  Clusters,     \* clusters that have an entry in the FAT
  ScanLimit,    \* 20: get_unallocated_cluster looks at clusters 0 .. ScanLimit - 1
  MaxClusters,  \* 5: length of matched_cluster
  Datas,        \* bound: contents of the disk, each a function from Clusters to blocks
  EntryLists,   \* bound: sizes of the entries that match the name, in directory order
  Wants,        \* bound: contents sought
  NULL

(* The window lies within the FAT, and the files asked for have no more clusters  *)
(* than matched_cluster: the limits src/README.md gives for this search.          *)
ASSUME WindowAssumption ==
  /\ ScanLimit \in Nat /\ MaxClusters \in Nat /\ EntryLists \subseteq Seq(Nat)
  /\ Clusters \subseteq Nat /\ 0..(ScanLimit - 1) \subseteq Clusters
  /\ \A sizes \in EntryLists : \A k \in DOMAIN sizes :
        ClustersOf(sizes[k]) <= MaxClusters /\ sizes[k] + ClusterSize <= UIntMod

VARIABLES
  data, free,        \* the disk: contents, and clusters whose entry in FAT 1 is zero
  entries, want,     \* recoverable_entries (their sizes), the SHA-1 to match
  pc,                \* "scan", "entry", "search", "found" or "none"
  e,                 \* match_non_cont_file: the entry being tried
  unallocated_array, \* clusters, or -1 for one in use
  frames,            \* pending calls of cluster_permutation; current_depth of them
  i,                 \* loop index of the scan, then of the innermost call
  file_content, matched_cluster

disk == <<data, free, entries, want>>
vars == <<disk, pc, e, unallocated_array, frames, i, file_content, matched_cluster>>

Depths        == 0..(MaxClusters - 1)
current_depth == Len(frames)
Needed        == file_cluster_counter(entries[e])

Init ==
  /\ data \in Datas /\ free \in SUBSET {c \in Clusters : c >= 2}
  /\ entries \in EntryLists /\ want \in Wants
  /\ pc = "scan" /\ e = 1 /\ i = 0 /\ frames = <<>> /\ unallocated_array = <<>>
  /\ file_content = [d \in Depths |-> NULL] /\ matched_cluster = [d \in Depths |-> NULL]

ScanShort == i >= ScanLimit - 1
ScanDone == i >= ScanLimit

(* get_unallocated_cluster: the next cluster, if is_unallocated, is kept.         *)
Scan ==
  /\ pc = "scan" /\ ~ScanDone
  /\ unallocated_array' = IF i \in free THEN Append(unallocated_array, i)
                                       ELSE unallocated_array
  /\ i' = i + 1
  /\ UNCHANGED <<disk, pc, e, frames, file_content, matched_cluster>>

ScanEnds ==
  /\ pc = "scan" /\ ScanDone /\ pc' = "entry" /\ i' = 1
  /\ UNCHANGED <<disk, e, unallocated_array, frames, file_content, matched_cluster>>

(* match_non_cont_file: no entry is left.                                         *)
NoneMatches ==
  /\ pc = "entry" /\ e > Len(entries) /\ pc' = "none"
  /\ UNCHANGED <<disk, e, unallocated_array, frames, i, file_content, matched_cluster>>

(* matched_permutation of an empty file: its digest is known, and its own start   *)
(* cluster is recorded, to be written back unchanged.                             *)
EmptyFile ==
  /\ pc = "entry" /\ e <= Len(entries) /\ entries[e] = 0
  /\ IF want = <<>> THEN pc' = "found" /\ e' = e ELSE pc' = pc /\ e' = e + 1
  /\ UNCHANGED <<disk, unallocated_array, frames, i, file_content, matched_cluster>>

(* matched_permutation of any other: the first call, with a buffer of its own.    *)
Search ==
  /\ pc = "entry" /\ e <= Len(entries) /\ entries[e] # 0
  /\ pc' = "search" /\ i' = 1 /\ file_content' = [d \in Depths |-> NULL]
  /\ UNCHANGED <<disk, e, unallocated_array, frames, matched_cluster>>

CopyChunk(chunk) == [file_content EXCEPT ![current_depth] = chunk]

NotMarked(k) == unallocated_array

Marked(k) == [unallocated_array EXCEPT ![k] = -1]

(* Use the i-th cluster at this depth and call down.                              *)
Descend ==
  /\ pc = "search" /\ current_depth < Needed
  /\ i <= Len(unallocated_array) /\ unallocated_array[i] # -1
  /\ LET previous_cluster == unallocated_array[i]
     IN  /\ file_content' = CopyChunk(Chunk(data[previous_cluster], entries[e], current_depth))
         /\ matched_cluster' = [matched_cluster EXCEPT ![current_depth] = previous_cluster]
         /\ frames' = Append(frames, [i |-> i, previous_cluster |-> previous_cluster])
  /\ unallocated_array' = Marked(i) /\ i' = 1
  /\ UNCHANGED <<disk, pc, e>>

(* The i-th cluster is in use further up.                                         *)
Skip ==
  /\ pc = "search" /\ current_depth < Needed
  /\ i <= Len(unallocated_array) /\ unallocated_array[i] = -1
  /\ i' = i + 1
  /\ UNCHANGED <<disk, pc, e, unallocated_array, frames, file_content, matched_cluster>>

NoRestore(frame) == unallocated_array

Restore(frame) == [unallocated_array EXCEPT ![frame.i] = frame.previous_cluster]

AdvanceForgotten(frame) == frame.i

AdvanceTwice(frame) == frame.i + 2

Advance(frame) == frame.i + 1

(* The innermost call returns 0: its caller puts the cluster back and goes on.    *)
Return0 ==
  /\ unallocated_array' = Restore(Last(frames))
  /\ i' = Advance(Last(frames)) /\ frames' = Front(frames)
  /\ UNCHANGED <<disk, pc, e, file_content, matched_cluster>>

ContentIsWanted == [d \in 1..Needed |-> file_content[d - 1]] = want

(* All clusters are chosen: compare the digests.  A match returns 1 through all   *)
(* the calls, which leaves the clusters marked.                                   *)
Match ==
  /\ pc = "search" /\ current_depth = Needed /\ ContentIsWanted
  /\ pc' = "found"
  /\ UNCHANGED <<disk, e, unallocated_array, frames, i, file_content, matched_cluster>>

Mismatch == pc = "search" /\ current_depth = Needed /\ ~ContentIsWanted /\ Return0

Exhausted ==
  /\ pc = "search" /\ current_depth < Needed /\ current_depth > 0
  /\ i > Len(unallocated_array) /\ Return0

(* The first call returns 0: match_non_cont_file goes on to the next entry.       *)
NextEntry ==
  /\ pc = "search" /\ current_depth = 0 /\ i > Len(unallocated_array)
  /\ pc' = "entry" /\ e' = e + 1
  /\ UNCHANGED <<disk, unallocated_array, frames, i, file_content, matched_cluster>>

Next == \/ Scan \/ ScanEnds \/ NoneMatches \/ EmptyFile \/ Search \/ Descend \/ Skip
        \/ Match \/ Mismatch \/ Exhausted \/ NextEntry

(* One thread that never blocks.                                                  *)
Spec == Init /\ [][Next]_vars /\ WF_vars(Next)

--------------------------------------------------------------------------------

TypeOK ==
  /\ pc \in {"scan", "entry", "search", "found", "none"} /\ e \in 1..(Len(entries) + 1)
  /\ i \in IF pc = "scan" THEN 0..ScanLimit ELSE 1..(Len(unallocated_array) + 1)
  /\ unallocated_array \in Seq(free \union {-1})
  /\ frames \in Seq([i : Nat \ {0}, previous_cluster : free])
  /\ current_depth <= MaxClusters
  /\ matched_cluster \in [Depths -> free \union {NULL}]

Window == free \intersect 0..(ScanLimit - 1)

(* Where the caller at depth d has put -1, and what it will put back.             *)
MarkedBy(d, k) == frames[d].i = k
Restored(k) == IF \E d \in DOMAIN frames : MarkedBy(d, k)
               THEN frames[CHOOSE d \in DOMAIN frames : MarkedBy(d, k)].previous_cluster
               ELSE unallocated_array[k]

(* Once the pending calls have put their clusters back, the array offers every    *)
(* unallocated cluster of the window, each once; and what they have not marked is *)
(* there now: no cluster is lost to later branches or entries and none is used    *)
(* twice.                                                                         *)
MarksAreUndone ==
  pc # "scan" =>
    /\ {Restored(k) : k \in DOMAIN unallocated_array} = Window
    /\ \A k, l \in DOMAIN unallocated_array : Restored(k) = Restored(l) => k = l
    /\ \A k \in DOMAIN unallocated_array :
         unallocated_array[k] = -1 <=> \E d \in DOMAIN frames : MarkedBy(d, k)

(* A match is one: the clusters recorded for the entry are distinct, unallocated, *)
(* and hold exactly the content that was asked for.                               *)
FoundIsAnArrangement ==
  pc = "found" /\ entries[e] # 0 =>
    [d \in 1..Needed |-> matched_cluster[d - 1]]
      \in Arrangements(data, free, entries[e], want)

(* An entry is given up only if no sequence of unallocated clusters in the window *)
(* holds the content sought, so "file not found" is the truth about the window.   *)
NoMatchMissed ==
  \A k \in 1..(e - 1) :
    Arrangements(data, Window, entries[k], want) = {}

(* The search always ends.                                                        *)
SearchEnds == <>(pc \in {"found", "none"})
================================================================================
