---------------------------------- MODULE Fat32 ----------------------------------
(* What the recoveries of Shell-fat32/nyufile.c compute with: how many clusters a *)
(* file has, which bytes of a cluster are the file's, and when a list of clusters *)
(* holds the file that a SHA-1 names.                                             *)
(*                                                                                *)
(* A block is the sequence of a cluster's bytes, the content of a file the        *)
(* sequence of its clusters' parts.  SHA-1 is external and taken to have no       *)
(* collisions, so a digest is represented by the content it is the digest of.     *)
EXTENDS Integers, Sequences, Functions

CONSTANTS ClusterSize,  \* BPB_BytsPerSec * BPB_SecPerClus
          UIntMod       \* 2^32, the width of unsigned int

ASSUME SizesAssumption == ClusterSize \in Nat \ {0} /\ UIntMod \in Nat \ {0}

(* The clusters a file of that size occupies in any FAT file system.              *)
ClustersOf(size) == (size + ClusterSize - 1) \div ClusterSize

(* file_cluster_counter: the same quotient, of a sum in unsigned int.             *)
file_cluster_counter(size) == ((size + ClusterSize - 1) % UIntMod) \div ClusterSize

(* bytes_to_copy, for the part at depth d (from 0) of a file.                     *)
BytesToCopy(size, d) ==
  LET rest_copy_size == size - d * ClusterSize
  IN  IF rest_copy_size > ClusterSize THEN ClusterSize ELSE rest_copy_size

Chunk(block, size, d) == SubSeq(block, 1, BytesToCopy(size, d))

(* What a file of that size would contain if it were in these clusters.           *)
FileContent(data, clusters, size) ==
  [d \in 1..Len(clusters) |-> Chunk(data[clusters[d]], size, d - 1)]

(* The ways to place a file of that size in distinct clusters of the set so that  *)
(* its content is the one sought.                                                 *)
Arrangements(data, clusters, size, want) ==
  LET n == file_cluster_counter(size)
  IN  {s \in [1..n -> clusters] : IsInjective(s) /\ FileContent(data, s, size) = want}
================================================================================
