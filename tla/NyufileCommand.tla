------------------------------ MODULE NyufileCommand -----------------------------
(* One run of Shell-fat32/nyufile.c from its command line to its exit: the image  *)
(* is mapped, the options are taken in order (-i and -l print at once), and only  *)
(* then are -r and -R carried out, with whatever -s was given.                    *)
(*                                                                                *)
(* getopt (external) moves operands behind the options, so argv[1], the disk, may *)
(* stand before them.  Which of the candidates holds the file of the SHA-1, and   *)
(* in which clusters, is left open: Nyufile and ClusterSearch are about that, and *)
(* Nyufile about the other copies of the FAT, which the program only writes.      *)
(*                                                                                *)
(* -r and -R believe a deleted entry.  Where its start and size, or a damaged     *)
(* chain, lead a store out of the FAT or an access out of the image, the program  *)
(* is "undefined" from then on: it may do anything, breaking down included.       *)
(* DigestForEarlierOnly is a deliberately wrong version of the definition it      *)
(* precedes (PROJECT.json, "mutants").                                            *)
EXTENDS RootDirectory

CONSTANTS CommandLines,  \* records: disk, options, operands behind the disk
          Images,        \* records: be, chain, root, links and last, see Tabled
          MaxCandidates, \* 100, recoverable_entries
          MaxClusters,   \* 5, matched_cluster
          NULL

ASSUME ArraysAssumption == MaxCandidates \in Nat /\ MaxClusters \in Nat

ASSUME ForeignAssumption == Foreign \subseteq DirEntry

(* The name asked for is that of a file the disk once held: it has a first        *)
(* character, and that is neither padding nor the mark of a deleted entry.  The   *)
(* digest has its 40 digits.                                                      *)
ASSUME CommandLinesAssumption ==
  \A l \in CommandLines :
    /\ l.operands \in Nat
    /\ l.options \in Seq([opt : {"i", "l", "r", "R", "s", "?"}, arg : Seq(STRING)])
    /\ \A k \in DOMAIN l.options :
         /\ l.options[k].arg # NULL
         /\ l.options[k].opt \in {"r", "R"} =>
              l.options[k].arg # <<>> /\ l.options[k].arg[1] \notin {SPACE, NUL, GONE}

ASSUME ImagesAssumption ==
  \A format \in Images :
    LET image == Formatted(format.be, format.chain, format.root, format.links)
    IN  /\ WellFormed(format.be, format.chain, format.root)
        /\ Tabled(format.be, format.chain, format.links, format.last)
        /\ \A at \in DOMAIN image.dir : image.dir[at] \in DirEntry

VARIABLES
  line,        \* the command line
  format,      \* history: what the image was formatted from
  image,       \* the mapping
  pc,          \* "main", "getopt", "list", "scan", "done", "usage",
               \* "crashed" or "undefined"
  options,     \* those getopt has still to return
  filename_r, filename_R, sha1_r, sha1_R,
  opt,         \* "r" or "R" while it is carried out
  current_cluster, i, found,   \* the walk through the root, and what it has found
  out          \* what has been printed

given == <<filename_r, filename_R, sha1_r, sha1_R>>
walk  == <<opt, current_cluster, i, found>>
vars  == <<line, format, image, pc, options, given, walk, out>>

Init ==
  /\ line \in CommandLines /\ format \in Images
  /\ image = Formatted(format.be, format.chain, format.root, format.links)
  /\ pc = "main" /\ options = line.options
  /\ filename_r = NULL /\ filename_R = NULL /\ sha1_r = NULL /\ sha1_R = NULL
  /\ opt = NULL /\ current_cluster = 0 /\ i = 0 /\ found = <<>> /\ out = <<>>

Goto(where) == pc' = where /\ UNCHANGED <<line, format, image, given, walk>>

(* invalid_command_handler                                                        *)
Usage == Goto("usage") /\ out' = Append(out, [kind |-> "usage"]) /\ UNCHANGED options

(* main and disk_mapped: no argument, or a disk that cannot be opened.  (A disk   *)
(* that can be opened but not mapped, an empty file say, leaves be = NULL.)       *)
DiskMapped ==
  /\ pc = "main"
  /\ IF line.disk \in {"none", "missing"} THEN Usage
     ELSE Goto("getopt") /\ UNCHANGED <<options, out>>

Mapped == line.disk = "image"

(* be is dereferenced although it is NULL, or hex_to_binary gets a NULL string.   *)
Crash == Goto("crashed") /\ UNCHANGED <<options, out>>

(* An access outside the image, a store outside the FAT or an array, or one into  *)
(* what only looks like an entry of the root.                                     *)
Undefined == Goto("undefined") /\ UNCHANGED <<options, out>>

StartWalk(o, where) ==
  /\ opt' = o /\ current_cluster' = image.be.RootClus /\ i' = 0 /\ found' = <<>>
  /\ pc' = where

Next_option == IF options = <<>> THEN "none" ELSE Head(options).opt

(* -i: display_fsinfo                                                             *)
OptionI ==
  /\ pc = "getopt" /\ Next_option = "i"
  /\ IF Mapped
     THEN /\ out' = Append(out, [kind |-> "info", NumFATs |-> image.be.NumFATs,
                                 BytsPerSec |-> image.be.BytsPerSec,
                                 SecPerClus |-> image.be.SecPerClus,
                                 RsvdSecCnt |-> image.be.RsvdSecCnt])
          /\ options' = Tail(options) /\ Goto("getopt")
     ELSE Crash

(* -l: display_rootinfo                                                           *)
OptionL ==
  /\ pc = "getopt" /\ Next_option = "l"
  /\ IF Mapped
     THEN StartWalk(NULL, "list") /\ options' = Tail(options)
          /\ UNCHANGED <<line, format, image, given, out>>
     ELSE Crash

(* -r and -R only note the name.                                                  *)
OptionName ==
  /\ pc = "getopt" /\ Next_option \in {"r", "R"}
  /\ IF Next_option = "r" THEN filename_r' = Head(options).arg /\ UNCHANGED filename_R
                          ELSE filename_R' = Head(options).arg /\ UNCHANGED filename_r
  /\ options' = Tail(options)
  /\ UNCHANGED <<line, format, image, pc, sha1_r, sha1_R, walk, out>>

DigestForEarlierOnly(sha1) ==
  /\ sha1_r' = IF filename_r # NULL THEN sha1 ELSE sha1_r
  /\ sha1_R' = IF filename_R # NULL THEN sha1 ELSE sha1_R

NoteDigest(sha1) == sha1_r' = sha1 /\ sha1_R' = sha1

OptionS ==
  /\ pc = "getopt" /\ Next_option = "s" /\ NoteDigest(Head(options).arg)
  /\ options' = Tail(options)
  /\ UNCHANGED <<line, format, image, pc, filename_r, filename_R, walk, out>>

(* An unknown option, or one that lacks its argument.                             *)
OptionOther == pc = "getopt" /\ Next_option = "?" /\ Usage

(* Of the operands exactly one, the disk, may be left.  Then -r comes first.      *)
OptionsEnd ==
  /\ pc = "getopt" /\ Next_option = "none"
  /\ IF line.operands > 0 THEN Usage
     ELSE IF filename_r = NULL /\ filename_R = NULL
     THEN Goto("done") /\ UNCHANGED <<options, out>>
     ELSE IF ~Mapped THEN Crash
     ELSE /\ StartWalk(IF filename_r # NULL THEN "r" ELSE "R", "scan")
          /\ UNCHANGED <<line, format, image, options, given, out>>

--------------------------------------------------------------------------------
(* The walk through the root directory, one entry at a time.                      *)

(* The entry of current_cluster that is looked at.                                *)
Here == cluster_to_dir(image.be, current_cluster) + i * EntrySize

AtEntry(where) ==
  pc = where /\ current_cluster < EndMark /\ i < entries_per_cluster(image.be)

(* The entry is taken, with what is noted of it, or passed over.                  *)
Look(taken, note) ==
  /\ found' = IF taken THEN Append(found, note) ELSE found
  /\ i' = i + 1
  /\ UNCHANGED <<line, format, image, pc, options, given, opt, current_cluster, out>>

NextCluster ==
  /\ pc \in {"list", "scan"}
  /\ current_cluster < EndMark /\ i >= entries_per_cluster(image.be)
  /\ current_cluster' = get_next_cluster(image, current_cluster) /\ i' = 0
  /\ UNCHANGED <<line, format, image, pc, options, given, opt, found, out>>

ListEntry ==
  /\ AtEntry("list")
  /\ \E entry \in EntriesAt(image, Here) : Look(Displayed(entry), Line(entry))

(* "Total number of entries"                                                      *)
ListEnd ==
  /\ pc = "list" /\ current_cluster >= EndMark
  /\ out' = Append(out, [kind |-> "list", lines |-> found, total |-> Len(found)])
  /\ Goto("getopt") /\ UNCHANGED options

filename == IF opt = "r" THEN filename_r ELSE filename_R

(* get_recoverable_files.  A chain that an earlier -r has damaged may lead behind *)
(* the last cluster of the disk.                                                  *)
ScanEntry ==
  /\ AtEntry("scan")
  /\ IF current_cluster > format.last THEN Undefined
     ELSE \E entry \in EntriesAt(image, Here) :
            IF is_recoverable(entry, filename) /\ Len(found) = MaxCandidates THEN Undefined
            ELSE Look(is_recoverable(entry, filename), [at |-> Here, entry |-> entry])

AfterRecovery ==
  IF opt = "r" /\ filename_R # NULL THEN StartWalk("R", "scan")
                                    ELSE pc' = "done" /\ UNCHANGED walk

(* An entry of those found gets its name back, and its clusters are linked.       *)
Renamed(entry) == [entry EXCEPT !.name[1] = filename[1]]

Recover(at, entry, clusters) ==
  IF at \in DOMAIN image.dir /\ Range(clusters) \subseteq DOMAIN image.fat
  THEN /\ image' = [image EXCEPT !.dir = [@ EXCEPT ![at] = Renamed(entry)],
                                 !.fat = Linked(@, clusters)]
       /\ AfterRecovery
       /\ out' = Append(out, [kind |-> "recovered", name |-> filename])
       /\ UNCHANGED <<line, format, options, given>>
  ELSE Undefined

(* "file not found", or "multiple candidates found"                               *)
RecoverNone ==
  /\ AfterRecovery
  /\ out' = Append(out, [kind |-> "not_recovered", name |-> filename])
  /\ UNCHANGED <<line, format, image, options, given>>

Scanned(o) == pc = "scan" /\ opt = o /\ current_cluster >= EndMark

Count(entry) == file_cluster_counter(entry, image.be.SecPerClus * image.be.BytsPerSec)

(* The sum in file_cluster_counter wraps exactly for these sizes.                 *)
Wraps(entry) == entry.size # 0 /\ Count(entry) = 0

(* The clusters -r takes for the file's: one behind the other, from the first.    *)
Run(entry) == [n \in 1..Count(entry) |-> get_start_cluster(entry) + n - 1]

(* copy_entry_content stays within the disk; it does not use the counter.         *)
Readable(entry) == ~Wraps(entry) /\ Range(Run(entry)) \subseteq 2..format.last

(* recover_cont_file: without a digest only a single candidate, with one the      *)
(* first that matches it, the content of those before it having been read.        *)
RecoverCont ==
  /\ Scanned("r")
  /\ \/ sha1_r = NULL /\ Len(found) = 1 /\ Recover(found[1].at, found[1].entry, Run(found[1].entry))
     \/ (sha1_r # NULL \/ Len(found) # 1) /\ RecoverNone
     \/ sha1_r # NULL /\ \E f \in Range(found) :
          Recover(f.at, f.entry, Run(f.entry)) \/ (~Readable(f.entry) /\ Undefined)

(* The arrangements of unallocated clusters the search can end with: of as many   *)
(* as the counter says, without repetition.                                       *)
Arrangements(entry) ==
  {s \in [1..Count(entry) -> Unallocated(image)] : IsInjective(s)}

(* The start is stored again as it was for an empty file.                         *)
Restarted(entry, s) ==
  IF s = <<>> THEN entry
  ELSE [entry EXCEPT !.hi = (s[1] \div ShortMod) % ShortMod, !.lo = s[1] % ShortMod]

(* cluster_permutation writes behind matched_cluster when there are clusters and  *)
(* depth enough; with a counter that has wrapped, content and clusters were never *)
(* written.                                                                       *)
Overflows(entry) ==
  \/ Wraps(entry)
  \/ Count(entry) > MaxClusters /\ Cardinality(Unallocated(image)) > MaxClusters

(* recover_non_cont_file: candidates are always compared with the digest.         *)
RecoverNonCont ==
  /\ Scanned("R")
  /\ \/ found # <<>> /\ sha1_R = NULL /\ Crash
     \/ (found = <<>> \/ sha1_R # NULL) /\ RecoverNone
     \/ sha1_R # NULL /\ \E f \in Range(found) :
          \/ Overflows(f.entry) /\ Undefined
          \/ ~Overflows(f.entry) /\ Count(f.entry) <= MaxClusters
               /\ \E s \in Arrangements(f.entry) : Recover(f.at, Restarted(f.entry, s), s)

Ended == pc \in {"done", "usage", "crashed", "undefined"}

Terminated == Ended /\ UNCHANGED vars

Next == \/ DiskMapped \/ OptionI \/ OptionL \/ OptionName \/ OptionS \/ OptionOther
        \/ OptionsEnd \/ ListEntry \/ NextCluster \/ ListEnd \/ ScanEntry
        \/ RecoverCont \/ RecoverNonCont \/ Terminated

(* A program that runs on its own: it takes its next step.                        *)
Spec == Init /\ [][Next]_vars /\ WF_vars(Next)

--------------------------------------------------------------------------------
(* Properties.                                                                    *)

Name(object) == object.base \o (IF object.ext = <<>> THEN <<>> ELSE <<DOT>> \o object.ext)

Shown(object) == [name |-> Name(object), dir |-> object.kind = "directory",
                  size |-> object.size, start |-> object.start]

(* A slot of a long name or a volume label whose bytes happen to look like a name *)
(* is listed too: the attributes that tell it are not looked at.                  *)
Decoy(object) == object.kind \in {"long", "label"} /\ ~object.deleted

StandsFor(l, object) ==
  \/ Genuine(object) /\ l = Shown(object)
  \/ Decoy(object) /\ l.name = format83(Entry(object).name)

(* The lines stand for objects of the first slots, in the order of the slots:     *)
(* for every file and directory, and besides them only for decoys.                *)
Listed(lines, root, slots) ==
  \E at \in [DOMAIN lines -> {k \in DOMAIN root : k <= slots}] :
    /\ \A a, b \in DOMAIN lines : a < b => at[a] < at[b]
    /\ \A k \in DOMAIN root : k <= slots /\ Genuine(root[k]) => \E a \in DOMAIN lines : at[a] = k
    /\ \A a \in DOMAIN lines : StandsFor(lines[a], root[at[a]])

(* The clusters of the root begin within the first 2^32 bytes.                    *)
WithinUInt ==
  \A m \in DOMAIN format.chain :
    Address(format.be, format.chain, (m - 1) * entries_per_cluster(format.be) + 1) < UIntMod

(* -l prints the files and directories of the root, each once, in the order of    *)
(* its clusters and with its name, size and start cluster; besides them it prints *)
(* only decoys, and the total is the number of lines.                             *)
ListingIsTheRoot ==
  WithinUInt => \A n \in DOMAIN out : out[n].kind = "list" =>
    Listed(out[n].lines, format.root, Len(format.root)) /\ out[n].total = Len(out[n].lines)

(* The deleted entries that -r or -R name can be those of a file: -r finds their  *)
(* clusters on the disk and outside the root, -R has them all in matched_cluster, *)
(* and they fit into recoverable_entries.  Slots of long names, directories that  *)
(* have been reused and the like need not: nothing in the code looks.             *)
Harmless(entry, o) ==
  \/ entry.size = 0
  \/ o = "r" /\ Readable(entry) /\ Range(Run(entry)) \cap Range(format.chain) = {}
  \/ o = "R" /\ Count(entry) \in 1..MaxClusters

Candidates(root, name) == {k \in DOMAIN root : is_recoverable(Entry(root[k]), name)}

Sound ==
  /\ WithinUInt
  /\ \A n \in DOMAIN line.options : line.options[n].opt \in {"r", "R"} =>
       LET candidates == Candidates(format.root, line.options[n].arg)
       IN  /\ Cardinality(candidates) <= MaxCandidates
           /\ \A k \in candidates : Harmless(Entry(format.root[k]), line.options[n].opt)

(* Nothing is written before the whole command line has been accepted, and then   *)
(* of the directory only the entry of one deleted object, which gets the very     *)
(* name asked for, and no link of the root's own chain, so that an -R behind an   *)
(* -r finds the root as it was; no entry is recovered a second time.              *)
RecoversOnlyTheDeleted ==
  [][image' # image =>
       /\ options = <<>> /\ line.operands = 0
       /\ Last(out') = [kind |-> "recovered", name |-> filename]
       /\ \E at \in DOMAIN image.dir :
            /\ image.dir[at].name[1] = GONE
            /\ format83(image'.dir[at].name) = filename
            /\ \A a \in DOMAIN image.dir \ {at} : image'.dir[a] = image.dir[a]
       /\ Sound => \A n \in DOMAIN format.chain :
            image'.fat[format.chain[n]] = format.links[format.chain[n]]]_vars

HasOption(o) == \E k \in DOMAIN line.options : line.options[k].opt = o

(* The order of the options does not matter: the program breaks down, or leaves   *)
(* the image, the FAT or its arrays, only when -R is given and no -s anywhere on  *)
(* the line, when the disk cannot be mapped, or when a deleted entry of the name  *)
(* cannot be that of a file, which the code does not look into.                   *)
CrashOnlyWithoutDigest ==
  pc \in {"crashed", "undefined"} =>
    ~Mapped \/ (HasOption("R") /\ ~HasOption("s")) \/ ~Sound

(* The program comes to an end: each walk reaches the end mark of the chain.      *)
CommandEnds == <>Ended
================================================================================
