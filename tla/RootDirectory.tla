------------------------------ MODULE RootDirectory ------------------------------
(* How Shell-fat32/nyufile.c finds and reads the entries of the root directory:   *)
(* addresses in the mapped image, the chain of the root's clusters, and names.    *)
(*                                                                                *)
(* A character is a string; only those the code tells apart matter.  Of the image *)
(* we keep the boot sector (be), the entries of the root's slots by their address *)
(* (dir) and the first FAT by its clusters (fat), the only one that is read.      *)
(* MatchesAnyEntry, NoTwoClusters and NextOfRoot are deliberately wrong versions  *)
(* of the definitions they precede (PROJECT.json, "mutants").                     *)
EXTENDS Naturals, Sequences, FiniteSets, FiniteSetsExt, SequencesExt

CONSTANTS NameLen, ExtLen,           \* 8 and 3
          Legal,                     \* characters of valid_char, letters and digits
          EntrySize, FatEntrySize,   \* sizeof(DirEntry), sizeof(unsigned int)
          UIntMod, ShortMod,         \* 2^32 and 2^16
          EndMark,                   \* 0x0FFFFFF8
          Window,                    \* 20, clusters searched by get_unallocated_cluster
          Foreign                    \* entries a place that is no slot may look like

ASSUME NameLenAssumption == NameLen \in Nat \ {0} /\ ExtLen \in Nat \ {0}

ASSUME WidthsAssumption ==
  /\ {EntrySize, FatEntrySize, UIntMod, ShortMod, EndMark, Window} \subseteq Nat \ {0}
  /\ EndMark < UIntMod

NUL   == "NUL"
SPACE == " "
DOT   == "."
GONE  == "E5"     \* first character of a deleted entry's name

ASSUME LegalAssumption == Legal \subseteq STRING \ {NUL, SPACE, DOT, GONE}

(* The fields of the boot sector that are used, and of an entry.                  *)
BootEntry == [NumFATs : Nat, BytsPerSec : 0..ShortMod - 1, SecPerClus : Nat,
              RsvdSecCnt : 0..ShortMod - 1, FATSz32 : 0..UIntMod - 1,
              RootClus : 0..UIntMod - 1]

DirEntry == [name : [1..NameLen + ExtLen -> STRING],
             attr : SUBSET {"directory", "label", "long"},
             hi : 0..ShortMod - 1, lo : 0..ShortMod - 1, size : 0..UIntMod - 1]

--------------------------------------------------------------------------------
(* Names.                                                                         *)

UpTo(s, c) == LET ends == {k \in DOMAIN s : s[k] = c}
              IN  IF ends = {} THEN s ELSE SubSeq(s, 1, Min(ends) - 1)

(* format83, as the C string its callers see: it ends at the first NUL.           *)
format83(name) ==
  LET ext == SubSeq(name, NameLen + 1, NameLen + ExtLen)
  IN  UpTo(UpTo(SubSeq(name, 1, NameLen), SPACE)
             \o (IF Head(ext) = SPACE THEN <<>> ELSE <<DOT>> \o UpTo(ext, SPACE)), NUL)

(* One dot at most, no other character but the legal ones, and short enough.      *)
filename_checker(s) ==
  LET dots  == {i \in DOMAIN s : s[i] = DOT}
      after == {i \in DOMAIN s \ dots : \E d \in dots : d < i}
  IN  /\ Cardinality(dots) <= 1
      /\ \A i \in DOMAIN s \ dots : s[i] \in Legal
      /\ Cardinality(after) <= ExtLen
      /\ Cardinality((DOMAIN s \ dots) \ after) <= NameLen

get_start_cluster(entry) == entry.hi * ShortMod + entry.lo

(* file_cluster_counter: the sum is an unsigned int.                              *)
file_cluster_counter(entry, cluster_size) ==
  ((entry.size + cluster_size - 1) % UIntMod) \div cluster_size

(* What display_entries prints of an entry; an empty file has no cluster to show. *)
Line(entry) ==
  LET dir   == "directory" \in entry.attr
      empty == ~dir /\ entry.size = 0
  IN  [name |-> format83(entry.name), dir |-> dir,
       size |-> IF dir THEN 0 ELSE entry.size,
       start |-> IF empty THEN 0 ELSE get_start_cluster(entry)]

(* The entries that are printed at all.                                           *)
Displayed(entry) ==
  entry.name[1] \notin {GONE, NUL} /\ filename_checker(format83(entry.name))

Rest(s) == SubSeq(s, 2, Len(s))

MatchesAnyEntry(entry, filename) == Rest(format83(entry.name)) = Rest(filename)

(* is_recoverable: deleted, and the same name but for the first character.        *)
is_recoverable(entry, filename) ==
  entry.name[1] = GONE /\ Rest(format83(entry.name)) = Rest(filename)

--------------------------------------------------------------------------------
(* Addresses.  be is the boot sector (BootEntry).                                 *)

entries_per_cluster(be) == (be.BytsPerSec * be.SecPerClus) \div EntrySize

NoTwoClusters(be, c) ==
  ((be.RsvdSecCnt + be.NumFATs * be.FATSz32 + c * be.SecPerClus) * be.BytsPerSec) % UIntMod

(* cluster_to_dir: the offset of a cluster's first entry, in unsigned int.        *)
cluster_to_dir(be, c) ==
  ((be.RsvdSecCnt + be.NumFATs * be.FATSz32 + (c + UIntMod - 2) * be.SecPerClus)
     * be.BytsPerSec) % UIntMod

FatEntries(be) == (be.FATSz32 * be.BytsPerSec) \div FatEntrySize

NextOfRoot(image, c) == image.fat[image.be.RootClus]

get_next_cluster(image, c) == image.fat[c]

(* The FAT after clusters have been linked to a chain, with EOF in the last.      *)
Linked(fat, clusters) ==
  [c \in DOMAIN fat |->
     IF c \in Range(clusters)
     THEN Append(clusters, UIntMod - 1)[(CHOOSE n \in DOMAIN clusters : clusters[n] = c) + 1]
     ELSE fat[c]]

(* get_unallocated_cluster                                                        *)
Unallocated(image) == {c \in 0..Window - 1 : image.fat[c] = 0}

(* What is read as an entry: a slot of the root, or whatever else stands there.   *)
EntriesAt(image, at) == IF at \in DOMAIN image.dir THEN {image.dir[at]} ELSE Foreign

--------------------------------------------------------------------------------
(* The image a FAT driver (external) leaves: the root's objects in the clusters   *)
(* of its chain, behind the reserved sectors and the FATs.                        *)

Padded(s, n) == [i \in 1..n |-> IF i <= Len(s) THEN s[i] ELSE SPACE]

(* A deleted object differs from the live one in the first byte of its name; the  *)
(* name of a slot of a long name is given as it is stored.                        *)
Entry(object) ==
  LET name == IF object.kind = "long" THEN object.base
              ELSE Padded(object.base, NameLen) \o Padded(object.ext, ExtLen)
  IN  [name |-> IF object.deleted THEN [name EXCEPT ![1] = GONE] ELSE name,
       attr |-> {object.kind} \ {"file"}, size |-> object.size,
       hi |-> object.start \div ShortMod, lo |-> object.start % ShortMod]

(* Files and directories have names that filename_checker knows; a directory has  *)
(* no size, an empty file no cluster.                                             *)
Genuine(object) == object.kind \in {"file", "directory"} /\ ~object.deleted

RootObject ==
  {o \in [kind : {"file", "directory", "label", "long"}, base : Seq(STRING),
          ext : Seq(STRING), size : Nat, start : Nat, deleted : BOOLEAN] :
     Genuine(o) => /\ o.base \in Seq(Legal) \ {<<>>} /\ Len(o.base) <= NameLen
                   /\ o.ext \in Seq(Legal) /\ Len(o.ext) <= ExtLen
                   /\ o.kind = "directory" => o.size = 0
                   /\ o.kind = "file" /\ o.size = 0 => o.start = 0}

Address(be, chain, k) ==
  LET per == (be.BytsPerSec * be.SecPerClus) \div EntrySize
  IN  (be.RsvdSecCnt + be.NumFATs * be.FATSz32) * be.BytsPerSec
        + (chain[(k - 1) \div per + 1] - 2) * be.SecPerClus * be.BytsPerSec
        + ((k - 1) % per) * EntrySize

(* The chain consists of distinct clusters and has room for the objects.          *)
WellFormed(be, chain, root) ==
  /\ be \in BootEntry /\ entries_per_cluster(be) > 0
  /\ chain \in Seq(2..EndMark - 1) \ {<<>>} /\ IsInjective(chain)
  /\ chain[1] = be.RootClus
  /\ root \in Seq(RootObject) /\ Len(root) <= Len(chain) * entries_per_cluster(be)

(* The first FAT holds the chain, has its two reserved entries, and reaches over  *)
(* all clusters of the disk; last is the last of those, and the window ends there *)
(* at the latest.                                                                 *)
Tabled(be, chain, links, last) ==
  /\ be.NumFATs > 0 /\ links \in [0..FatEntries(be) - 1 -> 0..UIntMod - 1]
  /\ last \in 2..FatEntries(be) - 1 /\ Range(chain) \subseteq 2..last
  /\ Window <= last + 1
  /\ \A n \in DOMAIN chain :
       IF n = Len(chain) THEN links[chain[n]] >= EndMark ELSE links[chain[n]] = chain[n + 1]
  /\ 0 \notin {links[0], links[1]}

(* A slot that was never used, behind the last object.                            *)
Never == [name |-> [i \in 1..NameLen + ExtLen |-> NUL], attr |-> {}, hi |-> 0, lo |-> 0, size |-> 0]

Slots(be, chain) == 1..Len(chain) * entries_per_cluster(be)

Formatted(be, chain, root, links) ==
  [be  |-> be,
   dir |-> [at \in {Address(be, chain, k) : k \in Slots(be, chain)} |->
              LET k == CHOOSE k \in Slots(be, chain) : Address(be, chain, k) = at
              IN  IF k \in DOMAIN root THEN Entry(root[k]) ELSE Never],
   fat |-> links]
================================================================================
