--------------------------- MODULE ClusterSearchProofs ---------------------------
(* The safety properties of ClusterSearch, proved for every disk, every set of    *)
(* unallocated clusters and every list of entries: the search undoes its marks,   *)
(* finds only arrangements with the content sought, and misses none.              *)
EXTENDS ClusterSearch, TLAPS

(* The inductive invariant, by part.                                              *)

(* The disk and the arguments stay what they were.                                *)
DiskInv ==
  /\ data \in Datas /\ free \subseteq {c \in Clusters : c >= 2} /\ entries \in EntryLists
  /\ want \in Wants

(* Which entry is tried, and how deep.                                            *)
EntryInv ==
  /\ pc = "scan" => e = 1
  /\ pc \in {"search", "found"} => e \in 1..Len(entries)
  /\ pc = "search" => entries[e] # 0
  /\ pc \notin {"search", "found"} => frames = <<>>
  /\ pc \in {"search", "found"} =>
       IF entries[e] = 0 THEN frames = <<>> ELSE current_depth <= Needed
  /\ pc = "found" /\ entries[e] # 0 => current_depth = Needed /\ ContentIsWanted
  /\ DOMAIN file_content = Depths

(* The scan has kept the unallocated clusters below i.                            *)
ScanInv ==
  pc = "scan" =>
    /\ \A k \in DOMAIN unallocated_array : unallocated_array[k] \in 0..(i - 1)
    /\ {unallocated_array[k] : k \in DOMAIN unallocated_array} = free \intersect 0..(i - 1)
    /\ \A k, l \in DOMAIN unallocated_array :
         unallocated_array[k] = unallocated_array[l] => k = l

(* The pending calls have marked the array, each at its own place.                *)
MarkInv ==
  /\ \A d \in DOMAIN frames :
       /\ frames[d].i \in DOMAIN unallocated_array /\ unallocated_array[frames[d].i] = -1
       /\ \A c \in DOMAIN frames : frames[c].i = frames[d].i => c = d
  /\ \A k \in DOMAIN unallocated_array :
       unallocated_array[k] = -1 => \E d \in DOMAIN frames : MarkedBy(d, k)

(* The array with their clusters put back.                                        *)
OfferInv ==
  pc # "scan" =>
    /\ {Restored(k) : k \in DOMAIN unallocated_array} = Window
    /\ \A k, l \in DOMAIN unallocated_array : Restored(k) = Restored(l) => k = l

(* What the pending calls have recorded and copied.                               *)
BranchInv ==
  \A d \in DOMAIN frames :
    LET c == frames[d].previous_cluster
    IN  /\ matched_cluster[d - 1] = c
        /\ file_content[d - 1] = Chunk(data[c], entries[e], d - 1)

(* The call at depth d has tried the places below this one.                       *)
TriedBelow(d) == IF d <= current_depth THEN frames[d].i ELSE i

(* s agrees with the pending calls above depth d.                                 *)
Agrees(s, d) == \A c \in 1..(d - 1) : s[c] = frames[c].previous_cluster

(* No arrangement with the content sought has been passed by.                     *)
PassedInv ==
  pc = "search" =>
    \A s \in Arrangements(data, Window, entries[e], want) : \A d \in 1..Needed :
      d <= current_depth + 1 /\ Agrees(s, d) =>
        \A k \in DOMAIN unallocated_array : k < TriedBelow(d) => Restored(k) # s[d]

IInv == /\ TypeOK /\ DiskInv /\ EntryInv /\ ScanInv /\ MarkInv /\ OfferInv /\ BranchInv
        /\ PassedInv /\ NoMatchMissed

--------------------------------------------------------------------------------
(* Lemmas.                                                                        *)

(* Within the limits the sum of file_cluster_counter does not wrap: an empty file *)
(* has no cluster, any other at least one, and matched_cluster has room for all.  *)
LEMMA NeededIs ==
  ASSUME DiskInv, NEW k \in 1..Len(entries)
  PROVE  /\ entries[k] \in Nat /\ file_cluster_counter(entries[k]) \in 0..MaxClusters
         /\ entries[k] = 0 <=> file_cluster_counter(entries[k]) = 0
<1> DEFINE size == entries[k]
<1>1. entries \in EntryLists /\ entries \in Seq(Nat)
  BY WindowAssumption DEF DiskInv
<1>2. size \in Nat /\ ClustersOf(size) <= MaxClusters /\ size + ClusterSize <= UIntMod
  BY <1>1, WindowAssumption
<1> HIDE DEF size
<1>3. ClusterSize \in Nat \ {0} /\ UIntMod \in Nat \ {0}
  BY SizesAssumption
<1>4. (size + ClusterSize - 1) % UIntMod = size + ClusterSize - 1
  BY <1>2, <1>3
<1>5. file_cluster_counter(size) = ClustersOf(size)
  BY <1>4 DEF file_cluster_counter, ClustersOf
<1>6. (size + ClusterSize - 1) \div ClusterSize \in Nat
  BY <1>2, <1>3
<1>7. size # 0 => (size + ClusterSize - 1) \div ClusterSize >= 1
  BY <1>2, <1>3
<1>8. size = 0 => (size + ClusterSize - 1) \div ClusterSize = 0
  BY <1>2, <1>3
<1>9. file_cluster_counter(size) \in 0..MaxClusters /\ (size = 0 <=> file_cluster_counter(size) = 0)
  BY <1>2, <1>5, <1>6, <1>7, <1>8, WindowAssumption DEF ClustersOf
<1> QED BY <1>2, <1>9 DEF size

(* Restored, as a function of the array and of the calls.                         *)
PutBack(array, calls, k) ==
  IF \E d \in DOMAIN calls : calls[d].i = k
  THEN calls[CHOOSE d \in DOMAIN calls : calls[d].i = k].previous_cluster
  ELSE array[k]

LEMMA RestoredIsPutBack ==
  ASSUME NEW k
  PROVE  /\ Restored(k) = PutBack(unallocated_array, frames, k)
         /\ Restored(k)' = PutBack(unallocated_array', frames', k)
BY DEF Restored, PutBack, MarkedBy

LEMMA PutBackIs ==
  ASSUME NEW array, NEW calls, NEW k,
         \A c, d \in DOMAIN calls : calls[c].i = calls[d].i => c = d
  PROVE  /\ \A d \in DOMAIN calls : calls[d].i = k =>
              PutBack(array, calls, k) = calls[d].previous_cluster
         /\ (\A d \in DOMAIN calls : calls[d].i # k) => PutBack(array, calls, k) = array[k]
BY DEF PutBack

LEMMA RestoredIs ==
  ASSUME MarkInv, NEW d \in DOMAIN frames
  PROVE  Restored(frames[d].i) = frames[d].previous_cluster
BY DEF Restored, MarkedBy, MarkInv

LEMMA FrameTypes ==
  ASSUME TypeOK, NEW d \in DOMAIN frames
  PROVE  /\ frames[d] \in [i : Nat \ {0}, previous_cluster : free]
         /\ frames[d].i \in Nat \ {0} /\ frames[d].previous_cluster \in free
<1> DEFINE Frame == [i : Nat \ {0}, previous_cluster : free]
<1>1. frames \in Seq(Frame)
  BY DEF TypeOK
<1>2. \A S : \A t \in Seq(S) : \A k \in DOMAIN t : t[k] \in S
  OBVIOUS
<1>3. frames[d] \in Frame
  BY <1>1, <1>2, Zenon
<1> QED BY <1>3

(* What the calls offer, before and after a place is marked.                      *)
LEMMA DescendKeeps ==
  ASSUME IInv, Descend
  PROVE  /\ unallocated_array' \in Seq(free \union {-1})
         /\ Len(unallocated_array') = Len(unallocated_array)
         /\ i \in DOMAIN unallocated_array /\ unallocated_array[i] \in free
         /\ \A k \in DOMAIN unallocated_array :
              unallocated_array'[k] = IF k = i THEN -1 ELSE unallocated_array[k]
         /\ frames' \in Seq([i : Nat \ {0}, previous_cluster : free])
         /\ Len(frames') = current_depth + 1 /\ DOMAIN frames = 1..current_depth
         /\ \A d \in DOMAIN frames : frames'[d] = frames[d] /\ frames[d].i # i
         /\ frames'[current_depth + 1].i = i
         /\ frames'[current_depth + 1].previous_cluster = unallocated_array[i]
         /\ \A k \in DOMAIN unallocated_array : Restored(k)' = Restored(k)
<1> DEFINE A == unallocated_array
           Frame == [i : Nat \ {0}, previous_cluster : free]
           f == [i |-> i, previous_cluster |-> A[i]]
<1>1. /\ pc = "search" /\ i <= Len(A) /\ A[i] # -1 /\ frames' = Append(frames, f)
      /\ A' = [A EXCEPT ![i] = -1]
  BY DEF Descend, Marked
<1>2. /\ A \in Seq(free \union {-1}) /\ frames \in Seq(Frame) /\ i \in 1..(Len(A) + 1)
      /\ Len(A) \in Nat /\ DOMAIN A = 1..Len(A)
  BY <1>1 DEF IInv, TypeOK
<1>3. i \in 1..Len(A)
  BY <1>1, <1>2
<1>4. A[i] \in free
  BY <1>1, <1>2, <1>3
<1>5. f \in Frame
  BY <1>3, <1>4
<1>6. /\ A' \in Seq(free \union {-1}) /\ Len(A') = Len(A) /\ DOMAIN A' = DOMAIN A
      /\ \A k \in DOMAIN A : A'[k] = IF k = i THEN -1 ELSE A[k]
  BY <1>1, <1>2, <1>3
<1>7. \A d \in DOMAIN frames : frames[d].i # i
  BY <1>1 DEF IInv, MarkInv
<1> HIDE DEF f
<1>8. /\ frames' \in Seq(Frame) /\ Len(frames') = current_depth + 1
      /\ DOMAIN frames = 1..current_depth /\ DOMAIN frames' = 1..(current_depth + 1)
      /\ current_depth \in Nat
      /\ \A d \in DOMAIN frames : frames'[d] = frames[d]
      /\ frames'[current_depth + 1] = f
  BY <1>1, <1>2, <1>5 DEF current_depth
<1>9. f.i = i /\ f.previous_cluster = A[i]
  BY DEF f
<1>10. \A c, d \in DOMAIN frames : frames[c].i = frames[d].i => c = d
  BY DEF IInv, MarkInv
<1>11. \A c, d \in DOMAIN frames' : frames'[c].i = frames'[d].i => c = d
  BY <1>7, <1>8, <1>9, <1>10
<1>12. ASSUME NEW k \in DOMAIN A PROVE PutBack(A', frames', k) = PutBack(A, frames, k)
  <2>1. CASE k = i
    <3>1. PutBack(A, frames, k) = A[k]
      BY <1>7, <1>10, <2>1, PutBackIs
    <3>2. PutBack(A', frames', k) = A[k]
      BY SMTT(30), <1>8, <1>9, <1>11, <2>1, PutBackIs
    <3> QED BY <3>1, <3>2
  <2>2. CASE k # i /\ \E d \in DOMAIN frames : frames[d].i = k
    <3>1. PICK d \in DOMAIN frames : frames[d].i = k
      BY <2>2
    <3>2. PutBack(A, frames, k) = frames[d].previous_cluster
      BY <1>10, <3>1, PutBackIs
    <3>3. d \in DOMAIN frames' /\ frames'[d] = frames[d]
      BY <1>8
    <3>4. PutBack(A', frames', k) = frames'[d].previous_cluster
      BY <1>11, <3>1, <3>3, PutBackIs
    <3> QED BY <3>2, <3>3, <3>4
  <2>3. CASE k # i /\ \A d \in DOMAIN frames : frames[d].i # k
    <3>1. PutBack(A, frames, k) = A[k]
      BY <1>10, <2>3, PutBackIs
    <3>2. \A d \in DOMAIN frames' : frames'[d].i # k
      BY <1>8, <1>9, <2>3
    <3>3. PutBack(A', frames', k) = A'[k]
      BY <1>11, <3>2, PutBackIs
    <3> QED BY <1>6, <2>3, <3>1, <3>3
  <2> QED BY <2>1, <2>2, <2>3
<1> QED BY <1>2, <1>3, <1>4, <1>6, <1>7, <1>8, <1>9, <1>12, RestoredIsPutBack

(* And before and after the innermost call returns 0.                             *)
LEMMA Return0Keeps ==
  ASSUME IInv, pc = "search", current_depth > 0, Return0
  PROVE  /\ unallocated_array' \in Seq(free \union {-1})
         /\ Len(unallocated_array') = Len(unallocated_array)
         /\ current_depth \in DOMAIN frames /\ frames[current_depth].i \in DOMAIN unallocated_array
         /\ \A k \in DOMAIN unallocated_array :
              unallocated_array'[k] = IF k = frames[current_depth].i
                                      THEN frames[current_depth].previous_cluster
                                      ELSE unallocated_array[k]
         /\ frames' \in Seq([i : Nat \ {0}, previous_cluster : free])
         /\ Len(frames') = current_depth - 1 /\ DOMAIN frames = 1..current_depth
         /\ \A d \in 1..(current_depth - 1) : frames'[d] = frames[d]
         /\ i' = frames[current_depth].i + 1
         /\ \A k \in DOMAIN unallocated_array : Restored(k)' = Restored(k)
<1> DEFINE A == unallocated_array
           Frame == [i : Nat \ {0}, previous_cluster : free]
           n == current_depth
           f == frames[n]
<1>1. /\ frames' = Front(frames) /\ i' = Last(frames).i + 1
      /\ A' = [A EXCEPT ![Last(frames).i] = Last(frames).previous_cluster]
  BY DEF Return0, Restore, Advance
<1>2. /\ A \in Seq(free \union {-1}) /\ frames \in Seq(Frame)
      /\ Len(A) \in Nat /\ DOMAIN A = 1..Len(A) /\ n \in Nat \ {0} /\ DOMAIN frames = 1..n
  BY DEF IInv, TypeOK, current_depth
<1>3. n \in DOMAIN frames /\ f \in Frame /\ f.i \in DOMAIN A /\ f.previous_cluster \in free
  BY <1>2, FrameTypes DEF IInv, MarkInv
<1>4. Last(frames) = f
  BY DEF Last, current_depth
<1> HIDE DEF f
<1>5. /\ A' \in Seq(free \union {-1}) /\ Len(A') = Len(A) /\ DOMAIN A' = DOMAIN A
      /\ \A k \in DOMAIN A : A'[k] = IF k = f.i THEN f.previous_cluster ELSE A[k]
  BY <1>1, <1>2, <1>3, <1>4
<1>6. /\ frames' \in Seq(Frame) /\ Len(frames') = n - 1 /\ DOMAIN frames' = 1..(n - 1)
      /\ \A d \in 1..(n - 1) : frames'[d] = frames[d]
  <2>1. frames' = SubSeq(frames, 1, n - 1) /\ n = Len(frames)
    BY <1>1 DEF Front, current_depth
  <2> HIDE DEF n, Frame
  <2>2. \A S : \A t \in Seq(S) : \A m \in 0..Len(t) :
          /\ SubSeq(t, 1, m) \in Seq(S) /\ Len(SubSeq(t, 1, m)) = m
          /\ \A d \in 1..m : SubSeq(t, 1, m)[d] = t[d]
    OBVIOUS
  <2>3. n - 1 \in 0..Len(frames)
    BY <1>2, <2>1
  <2>4. /\ frames' \in Seq(Frame) /\ Len(frames') = n - 1
        /\ \A d \in 1..(n - 1) : frames'[d] = frames[d]
    BY <1>2, <2>1, <2>2, <2>3
  <2> QED BY <2>3, <2>4
<1>7. \A c, d \in DOMAIN frames : frames[c].i = frames[d].i => c = d
  BY DEF IInv, MarkInv
<1>8. \A c, d \in DOMAIN frames' : frames'[c].i = frames'[d].i => c = d
  BY <1>2, <1>6, <1>7
<1>9. \A d \in DOMAIN frames' : frames'[d].i # f.i
  <2> SUFFICES ASSUME NEW d \in DOMAIN frames' PROVE frames'[d].i # f.i
    OBVIOUS
  <2>1. d \in DOMAIN frames /\ d # n /\ frames'[d] = frames[d]
    BY <1>2, <1>6
  <2> QED BY <1>3, <1>7, <2>1 DEF f
<1>10. ASSUME NEW k \in DOMAIN A PROVE PutBack(A', frames', k) = PutBack(A, frames, k)
  <2>1. CASE k = f.i
    <3>1. PutBack(A, frames, k) = f.previous_cluster
      BY <1>3, <1>7, <2>1, PutBackIs DEF f
    <3>2. PutBack(A', frames', k) = A'[k]
      BY <1>8, <1>9, <2>1, PutBackIs
    <3> QED BY <1>5, <2>1, <3>1, <3>2
  <2>2. CASE k # f.i /\ \E d \in DOMAIN frames : frames[d].i = k
    <3>1. PICK d \in DOMAIN frames : frames[d].i = k
      BY <2>2
    <3>2. PutBack(A, frames, k) = frames[d].previous_cluster
      BY <1>7, <3>1, PutBackIs
    <3>3. d \in DOMAIN frames' /\ frames'[d] = frames[d]
      BY <1>2, <1>6, <2>2, <3>1 DEF f
    <3>4. PutBack(A', frames', k) = frames'[d].previous_cluster
      BY <1>8, <3>1, <3>3, PutBackIs
    <3> QED BY <3>2, <3>3, <3>4
  <2>3. CASE k # f.i /\ \A d \in DOMAIN frames : frames[d].i # k
    <3>1. PutBack(A, frames, k) = A[k]
      BY <1>7, <2>3, PutBackIs
    <3>2. \A d \in DOMAIN frames' : frames'[d].i # k
      BY <1>2, <1>6, <2>3
    <3>3. PutBack(A', frames', k) = A'[k]
      BY <1>8, <3>2, PutBackIs
    <3> QED BY <1>5, <2>3, <3>1, <3>3
  <2> QED BY <2>1, <2>2, <2>3
<1> QED BY <1>1, <1>2, <1>3, <1>4, <1>5, <1>6, <1>10, RestoredIsPutBack DEF f

--------------------------------------------------------------------------------
(* The invariant is inductive.                                                    *)

LEMMA InitInv == Init => IInv
<1> SUFFICES ASSUME Init PROVE IInv
  OBVIOUS
<1>1. frames = <<>> /\ unallocated_array = <<>> /\ pc = "scan" /\ i = 0 /\ e = 1
  BY DEF Init
<1>2. TypeOK
  <2>1. matched_cluster \in [Depths -> free \union {NULL}]
    BY DEF Init
  <2>2. Len(entries) \in Nat
    BY WindowAssumption DEF Init
  <2> QED BY <1>1, <2>1, <2>2, WindowAssumption DEF TypeOK, current_depth
<1>3. DiskInv
  BY DEF Init, DiskInv
<1>4. EntryInv
  BY <1>1 DEF Init, EntryInv
<1>5. ScanInv /\ MarkInv /\ BranchInv
  BY <1>1 DEF ScanInv, MarkInv, BranchInv
<1>6. OfferInv /\ PassedInv /\ NoMatchMissed
  BY <1>1 DEF OfferInv, PassedInv, NoMatchMissed
<1> QED BY <1>2, <1>3, <1>4, <1>5, <1>6 DEF IInv

LEMMA ScanStep ==
  ASSUME IInv, Scan
  PROVE  IInv'
<1> DEFINE A == unallocated_array
<1>1. /\ pc = "scan" /\ i < ScanLimit /\ i' = i + 1 /\ pc' = pc /\ e' = e /\ frames' = frames
      /\ data' = data /\ free' = free /\ entries' = entries /\ want' = want
      /\ file_content' = file_content /\ matched_cluster' = matched_cluster
      /\ A' = IF i \in free THEN Append(A, i) ELSE A
  BY WindowAssumption DEF Scan, ScanDone, disk, IInv, TypeOK
<1>2. /\ i \in Nat /\ i' \in 0..ScanLimit /\ A \in Seq(free \union {-1}) /\ frames = <<>>
      /\ Len(A) \in Nat /\ DOMAIN A = 1..Len(A) /\ e = 1
  BY <1>1, WindowAssumption DEF IInv, TypeOK, EntryInv
<1>3. A' \in Seq(free \union {-1})
  BY <1>1, <1>2
<1>4. TypeOK'
  BY <1>1, <1>2, <1>3 DEF IInv, TypeOK, Depths, current_depth
<1>5. DiskInv'
  BY <1>1 DEF IInv, DiskInv
<1>6. EntryInv'
  BY <1>1, <1>2 DEF IInv, EntryInv, Depths
<1>7. ScanInv'
  <2>1. /\ \A k \in DOMAIN A : A[k] \in 0..(i - 1)
        /\ {A[k] : k \in DOMAIN A} = free \intersect 0..(i - 1)
        /\ \A k, l \in DOMAIN A : A[k] = A[l] => k = l
    BY <1>1 DEF IInv, ScanInv
  <2>2. CASE i \notin free
    <3>1. free \intersect 0..(i + 1 - 1) = free \intersect 0..(i - 1)
      BY <1>2, <2>2
    <3>2. \A k \in DOMAIN A : A[k] \in 0..(i + 1 - 1)
      BY <1>2, <2>1
    <3>3. i' - 1 = i + 1 - 1 /\ free' = free /\ A' = A
      BY <1>1, <1>2, <2>2
    <3> QED BY <2>1, <3>1, <3>2, <3>3, Zenon DEF ScanInv
  <2>3. CASE i \in free
    <3>1. /\ DOMAIN A' = 1..(Len(A) + 1) /\ A'[Len(A) + 1] = i
          /\ \A k \in 1..Len(A) : A'[k] = A[k]
      BY <1>1, <1>2, <2>3
    <3>2. \A k \in DOMAIN A' : A'[k] \in 0..(i + 1 - 1)
      BY <1>2, <2>1, <3>1
    <3>3. {A'[k] : k \in DOMAIN A'} = {A[k] : k \in DOMAIN A} \union {i}
      BY <1>2, <3>1
    <3>4. (free \intersect 0..(i - 1)) \union {i} = free \intersect 0..(i + 1 - 1)
      BY <1>2, <2>3
    <3>5. \A k, l \in DOMAIN A' : A'[k] = A'[l] => k = l
      BY <1>2, <2>1, <3>1
    <3>6. i' - 1 = i + 1 - 1 /\ free' = free
      BY <1>1, <1>2
    <3>7. {A'[k] : k \in DOMAIN A'} = free' \intersect 0..(i' - 1)
      BY <2>1, <3>3, <3>4, <3>6, Zenon
    <3> QED BY <3>2, <3>5, <3>6, <3>7, Zenon DEF ScanInv
  <2> QED BY <2>2, <2>3
<1>8. MarkInv' /\ BranchInv'
  <2>1. \A k \in DOMAIN A' : A'[k] # -1
    BY <1>1, <1>2, <1>7 DEF ScanInv
  <2> QED BY <1>1, <1>2, <2>1 DEF MarkInv, BranchInv
<1>9. OfferInv' /\ PassedInv' /\ NoMatchMissed'
  BY <1>1, <1>2 DEF OfferInv, PassedInv, NoMatchMissed
<1> QED BY <1>4, <1>5, <1>6, <1>7, <1>8, <1>9 DEF IInv

(* When the scan is over, nothing is marked yet.                                  *)
LEMMA ScanEndsStep ==
  ASSUME IInv, ScanEnds
  PROVE  IInv'
<1> DEFINE A == unallocated_array
<1>1. /\ pc = "scan" /\ i >= ScanLimit /\ i' = 1 /\ pc' = "entry" /\ e' = e /\ frames' = frames
      /\ data' = data /\ free' = free /\ entries' = entries /\ want' = want
      /\ file_content' = file_content /\ matched_cluster' = matched_cluster /\ A' = A
  BY DEF ScanEnds, ScanDone, disk
<1>2. i = ScanLimit /\ frames = <<>> /\ e = 1 /\ Len(A) \in Nat
  BY <1>1, WindowAssumption DEF IInv, TypeOK, EntryInv
<1>3. TypeOK'
  BY <1>1, <1>2 DEF IInv, TypeOK, Depths, current_depth
<1>4. DiskInv'
  BY <1>1 DEF IInv, DiskInv
<1>5. EntryInv'
  BY <1>1, <1>2 DEF IInv, EntryInv, Depths
<1>6. ScanInv' /\ MarkInv' /\ BranchInv' /\ PassedInv'
  BY <1>1, <1>2 DEF IInv, ScanInv, MarkInv, BranchInv, PassedInv, MarkedBy
<1>7. \A k : Restored(k)' = A[k]
  BY <1>1, <1>2 DEF Restored
<1>8. /\ {A[k] : k \in DOMAIN A} = Window'
      /\ \A k, l \in DOMAIN A : A[k] = A[l] => k = l
  BY <1>1, <1>2 DEF IInv, ScanInv, Window
<1>9. OfferInv'
  <2>1. {Restored(k)' : k \in DOMAIN A} = {A[k] : k \in DOMAIN A}
    BY <1>7
  <2>2. {Restored(k)' : k \in DOMAIN A} = Window'
    BY <1>8, <2>1, Zenon
  <2> QED BY <1>1, <1>7, <1>8, <2>2 DEF OfferInv
<1>10. NoMatchMissed'
  BY <1>1, <1>2 DEF NoMatchMissed
<1> QED BY <1>3, <1>4, <1>5, <1>6, <1>9, <1>10 DEF IInv

(* Steps that leave the array, and the calls, alone.                              *)
LEMMA QuietStep ==
  ASSUME IInv, disk' = disk, unallocated_array' = unallocated_array, frames' = frames,
         pc # "scan", pc' # "scan"
  PROVE  /\ DiskInv' /\ ScanInv' /\ MarkInv' /\ OfferInv'
         /\ \A k : Restored(k)' = Restored(k)
<1>1. DiskInv'
  BY DEF IInv, DiskInv, disk
<1>2. ScanInv' /\ MarkInv'
  BY DEF IInv, ScanInv, MarkInv, MarkedBy
<1>3. \A k : Restored(k)' = Restored(k)
  BY RestoredIsPutBack
<1>4. OfferInv'
  <2>1. {Restored(k)' : k \in DOMAIN unallocated_array} = Window
    BY <1>3 DEF IInv, OfferInv
  <2> QED BY <1>3, <2>1 DEF IInv, OfferInv, Window, disk
<1> QED BY <1>1, <1>2, <1>3, <1>4

(* Nothing is passed by when an entry is given up: an empty file has one          *)
(* arrangement, and else every first cluster has been tried.                      *)
LEMMA GivenUp ==
  ASSUME IInv, disk' = disk, e \in 1..Len(entries), e' = e + 1,
         Arrangements(data, Window, entries[e], want) = {}
  PROVE  NoMatchMissed'
<1>1. \A k \in 1..(e - 1) : Arrangements(data, Window, entries[k], want) = {}
  BY DEF IInv, NoMatchMissed
<1>2. \A k \in 1..(e' - 1) : k \in 1..(e - 1) \/ k = e
  OBVIOUS
<1>3. data' = data /\ entries' = entries /\ want' = want /\ Window' = Window
  BY DEF disk, Window
<1>4. \A k \in 1..(e' - 1) : Arrangements(data, Window, entries[k], want) = {}
  BY <1>1, <1>2
<1> QED BY <1>3, <1>4 DEF NoMatchMissed

LEMMA NoneMatchesStep ==
  ASSUME IInv, NoneMatches
  PROVE  IInv'
<1>1. /\ pc = "entry" /\ pc' = "none" /\ disk' = disk /\ e' = e /\ i' = i
      /\ unallocated_array' = unallocated_array /\ frames' = frames
      /\ file_content' = file_content /\ matched_cluster' = matched_cluster
  BY DEF NoneMatches
<1>2. DiskInv' /\ ScanInv' /\ MarkInv' /\ OfferInv'
  BY <1>1, QuietStep
<1>3. TypeOK'
  BY <1>1 DEF IInv, TypeOK, disk, Depths, current_depth
<1>4. EntryInv' /\ BranchInv' /\ PassedInv'
  BY <1>1 DEF IInv, EntryInv, BranchInv, PassedInv, Depths, disk
<1>5. NoMatchMissed'
  BY <1>1 DEF IInv, NoMatchMissed, Window, disk
<1> QED BY <1>2, <1>3, <1>4, <1>5 DEF IInv

LEMMA EmptyFileStep ==
  ASSUME IInv, EmptyFile
  PROVE  IInv'
<1>1. /\ pc = "entry" /\ e <= Len(entries) /\ entries[e] = 0 /\ disk' = disk /\ i' = i
      /\ unallocated_array' = unallocated_array /\ frames' = frames
      /\ file_content' = file_content /\ matched_cluster' = matched_cluster
      /\ IF want = <<>> THEN pc' = "found" /\ e' = e ELSE pc' = pc /\ e' = e + 1
  BY DEF EmptyFile
<1>2. e \in 1..Len(entries) /\ frames = <<>> /\ Len(entries) \in Nat
  <2>1. Len(entries) \in Nat
    BY WindowAssumption DEF IInv, DiskInv
  <2> QED BY <1>1, <2>1 DEF IInv, TypeOK, EntryInv
<1>3. DiskInv' /\ ScanInv' /\ MarkInv' /\ OfferInv'
  BY <1>1, QuietStep
<1>4. e' \in 1..(Len(entries) + 1)
  BY <1>1, <1>2
<1>5. TypeOK'
  BY <1>1, <1>4 DEF IInv, TypeOK, disk, Depths, current_depth
<1>6. EntryInv'
  BY <1>1, <1>2 DEF IInv, EntryInv, Depths, disk
<1>7. BranchInv' /\ PassedInv'
  BY <1>1, <1>2 DEF BranchInv, PassedInv
<1>8. NoMatchMissed'
  <2>1. CASE want = <<>>
    BY <1>1, <2>1 DEF IInv, NoMatchMissed, Window, disk
  <2>2. CASE want # <<>>
    <3>1. file_cluster_counter(entries[e]) = 0
      BY <1>1, <1>2, NeededIs DEF IInv
    <3>2. \A s \in [1..0 -> Window] : FileContent(data, s, entries[e]) = <<>>
      <4> SUFFICES ASSUME NEW s \in [1..0 -> Window]
                   PROVE  FileContent(data, s, entries[e]) = <<>>
        OBVIOUS
      <4>1. s = <<>>
        OBVIOUS
      <4> QED BY <4>1 DEF FileContent
    <3>3. Arrangements(data, Window, entries[e], want) = {}
      BY <2>2, <3>1, <3>2 DEF Arrangements
    <3> QED BY <1>1, <1>2, <2>2, <3>3, GivenUp
  <2> QED BY <2>1, <2>2
<1> QED BY <1>3, <1>5, <1>6, <1>7, <1>8 DEF IInv

LEMMA SearchStep ==
  ASSUME IInv, Search
  PROVE  IInv'
<1>1. /\ pc = "entry" /\ e <= Len(entries) /\ entries[e] # 0 /\ disk' = disk /\ i' = 1
      /\ unallocated_array' = unallocated_array /\ frames' = frames /\ e' = e
      /\ file_content' = [d \in Depths |-> NULL] /\ matched_cluster' = matched_cluster
      /\ pc' = "search"
  BY DEF Search
<1>2. /\ e \in 1..Len(entries) /\ frames = <<>> /\ Len(entries) \in Nat
      /\ Len(unallocated_array) \in Nat
  <2>1. Len(entries) \in Nat
    BY WindowAssumption DEF IInv, DiskInv
  <2> QED BY <1>1, <2>1 DEF IInv, TypeOK, EntryInv
<1>3. DiskInv' /\ ScanInv' /\ MarkInv' /\ OfferInv'
  BY <1>1, QuietStep
<1>4. TypeOK'
  BY <1>1, <1>2 DEF IInv, TypeOK, disk, Depths, current_depth
<1>5. EntryInv'
  <2>1. Needed \in Nat
    BY <1>2, NeededIs DEF IInv, Needed
  <2> QED BY <1>1, <1>2, <2>1 DEF EntryInv, Depths, disk, current_depth, Needed
<1>6. BranchInv'
  BY <1>1, <1>2 DEF BranchInv
<1>7. PassedInv'
  <2>1. \A k \in DOMAIN unallocated_array : ~(k < 1)
    BY <1>2 DEF IInv, TypeOK
  <2>2. current_depth' = 0
    BY <1>1, <1>2 DEF current_depth
  <2>3. \A d \in 1..Needed' : d <= current_depth' => FALSE
    BY <2>2
  <2> QED BY <1>1, <2>1, <2>3 DEF PassedInv, TriedBelow
<1>8. NoMatchMissed'
  BY <1>1 DEF IInv, NoMatchMissed, Window, disk
<1> QED BY <1>3, <1>4, <1>5, <1>6, <1>7, <1>8 DEF IInv

LEMMA MatchStep ==
  ASSUME IInv, Match
  PROVE  IInv'
<1>1. /\ pc = "search" /\ pc' = "found" /\ disk' = disk /\ e' = e /\ i' = i
      /\ unallocated_array' = unallocated_array /\ frames' = frames
      /\ file_content' = file_content /\ matched_cluster' = matched_cluster
      /\ current_depth = Needed /\ ContentIsWanted
  BY DEF Match
<1>2. DiskInv' /\ ScanInv' /\ MarkInv' /\ OfferInv'
  BY <1>1, QuietStep
<1>3. TypeOK'
  BY <1>1 DEF IInv, TypeOK, disk, Depths, current_depth
<1>4. EntryInv'
  BY <1>1 DEF IInv, EntryInv, Depths, disk, current_depth, Needed, ContentIsWanted
<1>5. BranchInv' /\ PassedInv'
  BY <1>1 DEF IInv, BranchInv, PassedInv, Depths, disk
<1>6. NoMatchMissed'
  BY <1>1 DEF IInv, NoMatchMissed, Window, disk
<1> QED BY <1>2, <1>3, <1>4, <1>5, <1>6 DEF IInv

LEMMA NextEntryStep ==
  ASSUME IInv, NextEntry
  PROVE  IInv'
<1>1. /\ pc = "search" /\ pc' = "entry" /\ disk' = disk /\ e' = e + 1 /\ i' = i
      /\ unallocated_array' = unallocated_array /\ frames' = frames
      /\ file_content' = file_content /\ matched_cluster' = matched_cluster
      /\ current_depth = 0 /\ i > Len(unallocated_array)
  BY DEF NextEntry
<1>2. /\ e \in 1..Len(entries) /\ entries[e] # 0 /\ frames = <<>> /\ Len(entries) \in Nat
      /\ DOMAIN unallocated_array = 1..Len(unallocated_array)
  <2>1. Len(entries) \in Nat
    BY WindowAssumption DEF IInv, DiskInv
  <2> QED BY <1>1, <2>1 DEF IInv, TypeOK, EntryInv, current_depth
<1>3. DiskInv' /\ ScanInv' /\ MarkInv' /\ OfferInv'
  BY <1>1, QuietStep
<1>4. TypeOK'
  BY <1>1, <1>2 DEF IInv, TypeOK, disk, Depths, current_depth
<1>5. EntryInv'
  BY <1>1, <1>2 DEF IInv, EntryInv, Depths, disk
<1>6. BranchInv' /\ PassedInv'
  BY <1>1, <1>2 DEF BranchInv, PassedInv
<1>7. Arrangements(data, Window, entries[e], want) = {}
  <2> SUFFICES ASSUME NEW s \in Arrangements(data, Window, entries[e], want) PROVE FALSE
    OBVIOUS
  <2>1. Needed \in Nat /\ Needed >= 1
    BY <1>2, NeededIs DEF IInv, Needed
  <2>2. s[1] \in Window
    BY <2>1 DEF Arrangements, Needed
  <2>3. PICK k \in DOMAIN unallocated_array : Restored(k) = s[1]
    BY <1>1, <2>2 DEF IInv, OfferInv
  <2>4. k < TriedBelow(1)
    BY <1>1, <1>2, <2>3 DEF TriedBelow, IInv, TypeOK
  <2>5. 1 \in 1..Needed /\ 1 <= current_depth + 1 /\ Agrees(s, 1)
    BY <1>1, <2>1 DEF Agrees
  <2> QED BY <1>1, <2>3, <2>4, <2>5 DEF IInv, PassedInv
<1>8. NoMatchMissed'
  BY <1>1, <1>2, <1>7, GivenUp
<1> QED BY <1>3, <1>4, <1>5, <1>6, <1>8 DEF IInv

(* A cluster that is in use further up cannot be used once more.                  *)
LEMMA SkipStep ==
  ASSUME IInv, Skip
  PROVE  IInv'
<1> DEFINE A == unallocated_array
<1>1. /\ pc = "search" /\ pc' = "search" /\ disk' = disk /\ e' = e /\ i' = i + 1
      /\ A' = A /\ frames' = frames /\ file_content' = file_content
      /\ matched_cluster' = matched_cluster /\ i <= Len(A) /\ A[i] = -1
      /\ current_depth < Needed
  BY DEF Skip
<1>2. /\ e \in 1..Len(entries) /\ i \in 1..Len(A) /\ DOMAIN A = 1..Len(A) /\ Len(A) \in Nat
      /\ current_depth \in Nat /\ DOMAIN frames = 1..current_depth
  BY <1>1 DEF IInv, TypeOK, EntryInv, current_depth
<1>3. /\ DiskInv' /\ ScanInv' /\ MarkInv' /\ OfferInv' /\ \A k : Restored(k)' = Restored(k)
  BY <1>1, QuietStep
<1>4. TypeOK'
  BY <1>1, <1>2 DEF IInv, TypeOK, disk, Depths, current_depth
<1>5. EntryInv'
  BY <1>1, <1>2 DEF IInv, EntryInv, Depths, disk, current_depth, Needed
<1>6. BranchInv'
  BY <1>1 DEF IInv, BranchInv, disk
<1>7. NoMatchMissed'
  BY <1>1 DEF IInv, NoMatchMissed, Window, disk
<1>8. PassedInv'
  <2> SUFFICES ASSUME NEW s \in Arrangements(data, Window, entries[e], want), NEW d \in 1..Needed,
                      d <= current_depth + 1, Agrees(s, d),
                      NEW k \in DOMAIN A, k < TriedBelow(d)'
               PROVE  Restored(k) # s[d]
    BY <1>1, <1>3 DEF PassedInv, Agrees, Window, disk, Needed, current_depth
  <2>1. Needed \in Nat /\ s \in [1..Needed -> Window] /\ IsInjective(s)
    BY <1>2, NeededIs DEF IInv, Needed, Arrangements
  <2>2. CASE k < TriedBelow(d)
    BY <1>1, <2>2 DEF IInv, PassedInv
  <2>3. CASE ~(k < TriedBelow(d))
    <3>1. d = current_depth + 1 /\ k = i
      BY <1>1, <1>2, <2>1, <2>3 DEF TriedBelow, current_depth
    <3>2. PICK c \in DOMAIN frames : frames[c].i = k
      BY <1>1, <1>2, <3>1 DEF IInv, MarkInv, MarkedBy
    <3>3. Restored(k) = frames[c].previous_cluster
      BY <3>2, RestoredIs DEF IInv
    <3>4. s[c] = frames[c].previous_cluster /\ c \in 1..Needed /\ c # d
      BY <1>1, <1>2, <2>1, <3>1 DEF Agrees
    <3>5. s[c] # s[d]
      BY <2>1, <3>4 DEF IsInjective
    <3> QED BY <3>3, <3>4, <3>5
  <2> QED BY <2>2, <2>3
<1> QED BY <1>3, <1>4, <1>5, <1>6, <1>7, <1>8 DEF IInv

(* A call that marks a place passes nothing by.                                   *)
LEMMA DescendStep ==
  ASSUME IInv, Descend
  PROVE  IInv'
<1> DEFINE A == unallocated_array
           n == current_depth
<1>1. /\ pc = "search" /\ pc' = "search" /\ disk' = disk /\ e' = e /\ i' = 1 /\ n < Needed
      /\ file_content' = [file_content EXCEPT ![n] = Chunk(data[A[i]], entries[e], n)]
      /\ matched_cluster' = [matched_cluster EXCEPT ![n] = A[i]]
  BY DEF Descend, CopyChunk
<1>2. /\ A' \in Seq(free \union {-1}) /\ Len(A') = Len(A)
      /\ i \in DOMAIN A /\ A[i] \in free
      /\ \A k \in DOMAIN A : A'[k] = IF k = i THEN -1 ELSE A[k]
      /\ frames' \in Seq([i : Nat \ {0}, previous_cluster : free])
      /\ Len(frames') = n + 1 /\ DOMAIN frames = 1..n
      /\ \A d \in DOMAIN frames : frames'[d] = frames[d] /\ frames[d].i # i
      /\ frames'[n + 1].i = i /\ frames'[n + 1].previous_cluster = A[i]
      /\ \A k \in DOMAIN A : Restored(k)' = Restored(k)
  BY DescendKeeps
<1>3. /\ e \in 1..Len(entries) /\ entries[e] # 0 /\ n \in Nat /\ Needed \in Nat
      /\ Needed <= MaxClusters /\ n \in Depths
  <2>1. e \in 1..Len(entries) /\ entries[e] # 0 /\ n \in Nat
    BY <1>1 DEF IInv, TypeOK, EntryInv, current_depth
  <2>2. Needed \in Nat /\ Needed <= MaxClusters
    BY <2>1, NeededIs, WindowAssumption DEF IInv, Needed
  <2> QED BY <1>1, <2>1, <2>2, WindowAssumption DEF Depths
<1>4. /\ DOMAIN A = 1..Len(A) /\ DOMAIN A' = DOMAIN A /\ Len(A) \in Nat
      /\ DOMAIN frames' = 1..(n + 1) /\ current_depth' = n + 1
  BY <1>2, <1>3 DEF IInv, TypeOK, current_depth
<1> HIDE DEF n
<1>5. /\ data' = data /\ free' = free /\ entries' = entries /\ want' = want
      /\ Window' = Window /\ Needed' = Needed /\ Depths' = Depths
  BY <1>1 DEF disk, Window, Needed, Depths
<1>6. TypeOK'
  <2>1. matched_cluster' \in [Depths -> free \union {NULL}]
    BY <1>1, <1>2, <1>3 DEF IInv, TypeOK
  <2> QED BY <1>1, <1>2, <1>3, <1>4, <1>5, <2>1, WindowAssumption DEF IInv, TypeOK
<1>7. DiskInv'
  BY <1>5 DEF IInv, DiskInv
<1>8. EntryInv'
  BY <1>1, <1>3, <1>4, <1>5 DEF IInv, EntryInv
<1>9. ScanInv'
  BY <1>1 DEF ScanInv
<1>10. MarkInv'
  <2>1. \A d \in DOMAIN frames' : d \in DOMAIN frames \/ d = n + 1
    BY <1>2, <1>3, <1>4
  <2>2. /\ n + 1 \in DOMAIN frames'
        /\ \A d \in DOMAIN frames : d \in DOMAIN frames'
    BY <1>2, <1>3, <1>4
  <2>3. \A d \in DOMAIN frames :
          /\ frames[d].i \in DOMAIN A /\ A[frames[d].i] = -1
          /\ \A c \in DOMAIN frames : frames[c].i = frames[d].i => c = d
    BY DEF IInv, MarkInv
  <2>4. \A d \in DOMAIN frames' : frames'[d].i \in DOMAIN A' /\ A'[frames'[d].i] = -1
    BY <1>2, <1>4, <2>1, <2>3
  <2>5. \A c, d \in DOMAIN frames' : frames'[c].i = frames'[d].i => c = d
    BY SMTT(30), <1>2, <2>1, <2>3
  <2>6. ASSUME NEW k \in DOMAIN A', A'[k] = -1 PROVE \E d \in DOMAIN frames' : frames'[d].i = k
    <3>1. CASE k = i
      BY <1>2, <2>2, <3>1
    <3>2. CASE k # i
      <4>1. k \in DOMAIN A /\ A[k] = -1
        BY <1>2, <1>4, <2>6, <3>2
      <4>2. PICK d \in DOMAIN frames : frames[d].i = k
        BY <4>1 DEF IInv, MarkInv, MarkedBy
      <4> QED BY <1>2, <2>2, <4>2
    <3> QED BY <3>1, <3>2
  <2> QED BY <2>4, <2>5, <2>6 DEF MarkInv, MarkedBy
<1>11. OfferInv'
  <2>1. {Restored(k)' : k \in DOMAIN A} = {Restored(k) : k \in DOMAIN A}
    BY <1>2
  <2>2. {Restored(k) : k \in DOMAIN A} = Window
    BY <1>1 DEF IInv, OfferInv
  <2>3. {Restored(k)' : k \in DOMAIN A'} = Window'
    BY <1>4, <1>5, <2>1, <2>2
  <2> QED BY <1>1, <1>2, <1>4, <2>3 DEF IInv, OfferInv
<1>12. BranchInv'
  <2> SUFFICES ASSUME NEW d \in 1..(n + 1)
               PROVE  /\ matched_cluster'[d - 1] = frames'[d].previous_cluster
                      /\ file_content'[d - 1] =
                           Chunk(data[frames'[d].previous_cluster], entries[e], d - 1)
    BY <1>1, <1>4, <1>5 DEF BranchInv
  <2>1. CASE d = n + 1
    <3>1. d - 1 = n /\ n \in DOMAIN file_content /\ n \in DOMAIN matched_cluster
      BY <1>3, <2>1 DEF IInv, EntryInv, TypeOK
    <3> QED BY <1>1, <1>2, <2>1, <3>1
  <2>2. CASE d \in 1..n
    <3>1. d - 1 # n /\ d - 1 \in Depths /\ d \in DOMAIN frames
      BY <1>2, <1>3, <2>2, WindowAssumption DEF Depths
    <3>2. file_content'[d - 1] = file_content[d - 1] /\ matched_cluster'[d - 1] = matched_cluster[d - 1]
      BY <1>1, <3>1 DEF IInv, EntryInv, TypeOK
    <3> QED BY <1>2, <3>1, <3>2 DEF IInv, BranchInv
  <2> QED BY <1>3, <2>1, <2>2
<1>13. NoMatchMissed'
  BY <1>1, <1>5 DEF IInv, NoMatchMissed
<1>14. PassedInv'
  <2> SUFFICES ASSUME NEW s \in Arrangements(data, Window, entries[e], want), NEW d \in 1..Needed,
                      d <= n + 2, Agrees(s, d)',
                      NEW k \in DOMAIN A, k < TriedBelow(d)'
               PROVE  Restored(k) # s[d]
    <3>1. Arrangements(data, Window, entries[e], want)' = Arrangements(data, Window, entries[e], want)
      BY <1>1, <1>5
    <3>2. \A d \in 1..Needed : d <= current_depth' + 1 <=> d <= n + 2
      BY <1>3, <1>4
    <3>3. \A k \in DOMAIN A : Restored(k)' = Restored(k)
      BY <1>2
    <3> QED BY <1>4, <1>5, <3>1, <3>2, <3>3 DEF PassedInv
  <2>1. TriedBelow(d)' = IF d <= n + 1 THEN frames'[d].i ELSE 1
    BY <1>1, <1>4 DEF TriedBelow
  <2>2. CASE d = n + 2
    BY <1>3, <1>4, <2>1, <2>2
  <2>3. CASE d <= n + 1
    <3>1. TriedBelow(d)' = TriedBelow(d)
      <4>1. CASE d = n + 1
        BY <1>2, <1>3, <2>1, <4>1 DEF TriedBelow, n
      <4>2. CASE d <= n
        <5>1. d \in DOMAIN frames
          BY <1>2, <1>3, <4>2
        <5>2. frames'[d] = frames[d]
          BY <1>2, <5>1
        <5> QED BY <2>1, <2>3, <4>2, <5>2 DEF TriedBelow, n
      <4> QED BY <1>3, <2>3, <4>1, <4>2
    <3>2. Agrees(s, d)
      <4>1. \A c \in 1..(d - 1) : c \in DOMAIN frames
        BY <1>2, <1>3, <2>3
      <4>2. \A c \in 1..(d - 1) : frames'[c] = frames[c]
        BY <1>2, <4>1
      <4> QED BY <4>2 DEF Agrees
    <3> QED BY <1>1, <2>3, <3>1, <3>2 DEF IInv, PassedInv, n
  <2> QED BY <1>3, <2>2, <2>3
<1> QED BY <1>6, <1>7, <1>8, <1>9, <1>10, <1>11, <1>12, <1>13, <1>14 DEF IInv

(* A call may return 0 when no arrangement with the content sought agrees with    *)
(* all the pending calls.                                                         *)
LEMMA Return0Step ==
  ASSUME IInv, pc = "search", Return0, current_depth > 0,
         \A s \in Arrangements(data, Window, entries[e], want) : ~Agrees(s, current_depth + 1)
  PROVE  IInv'
<1> DEFINE A == unallocated_array
           n == current_depth
<1>1. /\ pc' = "search" /\ disk' = disk /\ e' = e /\ file_content' = file_content
      /\ matched_cluster' = matched_cluster
  BY DEF Return0
<1>2. /\ A' \in Seq(free \union {-1}) /\ Len(A') = Len(A)
      /\ n \in DOMAIN frames /\ frames[n].i \in DOMAIN A
      /\ \A k \in DOMAIN A :
           A'[k] = IF k = frames[n].i THEN frames[n].previous_cluster ELSE A[k]
      /\ frames' \in Seq([i : Nat \ {0}, previous_cluster : free])
      /\ Len(frames') = n - 1 /\ DOMAIN frames = 1..n
      /\ \A d \in 1..(n - 1) : frames'[d] = frames[d]
      /\ i' = frames[n].i + 1
      /\ \A k \in DOMAIN A : Restored(k)' = Restored(k)
  BY Return0Keeps
<1>3. /\ e \in 1..Len(entries) /\ entries[e] # 0 /\ n \in Nat \ {0} /\ Needed \in Nat
      /\ n <= Needed /\ n <= MaxClusters
  <2>1. /\ e \in 1..Len(entries) /\ entries[e] # 0 /\ n \in Nat \ {0} /\ n <= Needed
        /\ n <= MaxClusters
    BY DEF IInv, TypeOK, EntryInv, current_depth
  <2>2. Needed \in Nat
    BY <2>1, NeededIs, WindowAssumption DEF IInv, Needed
  <2> QED BY <2>1, <2>2
<1>4. /\ DOMAIN A = 1..Len(A) /\ DOMAIN A' = DOMAIN A /\ Len(A) \in Nat
      /\ DOMAIN frames' = 1..(n - 1) /\ current_depth' = n - 1
  BY <1>2, <1>3 DEF IInv, TypeOK, current_depth
<1>5. /\ data' = data /\ free' = free /\ entries' = entries /\ want' = want
      /\ Window' = Window /\ Needed' = Needed /\ Depths' = Depths
  BY <1>1 DEF disk, Window, Needed, Depths
<1>6. /\ frames[n].previous_cluster \in free /\ frames[n].previous_cluster # -1
      /\ frames[n].i \in Nat
  BY <1>2, FrameTypes, WindowAssumption DEF IInv, DiskInv
<1>7. \A d \in DOMAIN frames :
        /\ frames[d].i \in DOMAIN A /\ A[frames[d].i] = -1
        /\ \A c \in DOMAIN frames : frames[c].i = frames[d].i => c = d
  BY DEF IInv, MarkInv
<1> HIDE DEF n
<1>8. \A d \in DOMAIN frames' : d \in DOMAIN frames /\ d # n /\ frames'[d] = frames[d]
  BY <1>2, <1>3, <1>4
<1>9. TypeOK'
  <2>1. i' \in 1..(Len(A') + 1)
    BY <1>2, <1>4
  <2> QED BY <1>1, <1>2, <1>3, <1>4, <1>5, <2>1, WindowAssumption DEF IInv, TypeOK
<1>10. DiskInv'
  BY <1>5 DEF IInv, DiskInv
<1>11. EntryInv'
  BY <1>1, <1>3, <1>4, <1>5 DEF IInv, EntryInv
<1>12. ScanInv'
  BY <1>1 DEF ScanInv
<1>13. MarkInv'
  <2>1. \A d \in DOMAIN frames' :
          /\ frames'[d].i \in DOMAIN A' /\ A'[frames'[d].i] = -1
          /\ \A c \in DOMAIN frames' : frames'[c].i = frames'[d].i => c = d
    BY <1>2, <1>4, <1>7, <1>8
  <2>2. ASSUME NEW k \in DOMAIN A', A'[k] = -1 PROVE \E d \in DOMAIN frames' : frames'[d].i = k
    <3>1. k # frames[n].i /\ k \in DOMAIN A /\ A[k] = -1
      BY <1>2, <1>4, <1>6, <2>2
    <3>2. PICK d \in DOMAIN frames : frames[d].i = k
      BY <3>1 DEF IInv, MarkInv, MarkedBy
    <3>3. d \in 1..(n - 1)
      BY <1>2, <1>3, <3>1, <3>2
    <3> QED BY <1>2, <1>4, <3>2, <3>3
  <2> QED BY <2>1, <2>2 DEF MarkInv, MarkedBy
<1>14. OfferInv'
  <2>1. {Restored(k)' : k \in DOMAIN A} = {Restored(k) : k \in DOMAIN A}
    BY <1>2
  <2>2. {Restored(k) : k \in DOMAIN A} = Window
    BY DEF IInv, OfferInv
  <2>3. {Restored(k)' : k \in DOMAIN A'} = Window'
    BY <1>4, <1>5, <2>1, <2>2
  <2> QED BY <1>2, <1>4, <2>3 DEF IInv, OfferInv
<1>15. BranchInv'
  BY <1>1, <1>5, <1>8 DEF IInv, BranchInv
<1>16. NoMatchMissed'
  BY <1>1, <1>5 DEF IInv, NoMatchMissed
<1>17. PassedInv'
  <2> SUFFICES ASSUME NEW s \in Arrangements(data, Window, entries[e], want), NEW d \in 1..Needed,
                      d <= n, Agrees(s, d)',
                      NEW k \in DOMAIN A, k < TriedBelow(d)'
               PROVE  Restored(k) # s[d]
    <3>1. Arrangements(data, Window, entries[e], want)' = Arrangements(data, Window, entries[e], want)
      BY <1>1, <1>5
    <3>2. \A d \in 1..Needed : d <= current_depth' + 1 <=> d <= n
      BY <1>3, <1>4
    <3>3. \A k \in DOMAIN A : Restored(k)' = Restored(k)
      BY <1>2
    <3> QED BY <1>4, <1>5, <3>1, <3>2, <3>3 DEF PassedInv
  <2>1. TriedBelow(d)' = IF d <= n - 1 THEN frames'[d].i ELSE frames[n].i + 1
    BY <1>2, <1>4 DEF TriedBelow
  <2>2. TriedBelow(d) = frames[d].i
    BY DEF TriedBelow, n
  <2>3. Agrees(s, d)
    <3>1. \A c \in 1..(d - 1) : c \in 1..(n - 1)
      BY <1>3
    <3>2. \A c \in 1..(d - 1) : frames'[c] = frames[c]
      BY <1>2, <3>1
    <3> QED BY <3>2 DEF Agrees
  <2>4. k < TriedBelow(d) => Restored(k) # s[d]
    <3>1. d <= n + 1
      BY <1>3
    <3> QED BY <2>3, <3>1 DEF IInv, PassedInv, n
  <2>5. CASE d <= n - 1
    <3>1. frames'[d] = frames[d]
      BY <1>2, <1>3, <2>5
    <3> QED BY <2>1, <2>2, <2>4, <2>5, <3>1
  <2>6. CASE d = n
    <3>1. k < frames[n].i \/ k = frames[n].i
      BY <1>3, <1>4, <1>6, <2>1, <2>6
    <3>2. CASE k = frames[n].i
      <4>1. Restored(k) = frames[n].previous_cluster
        BY <1>2, <3>2, RestoredIs DEF IInv
      <4>2. s[n] = frames[n].previous_cluster => Agrees(s, n + 1)
        BY <1>3, <2>3, <2>6 DEF Agrees
      <4>3. ~Agrees(s, n + 1)
        BY DEF n
      <4> QED BY <2>6, <4>1, <4>2, <4>3
    <3> QED BY <2>2, <2>4, <2>6, <3>1, <3>2
  <2> QED BY <1>3, <2>5, <2>6
<1> QED BY <1>9, <1>10, <1>11, <1>12, <1>13, <1>14, <1>15, <1>16, <1>17 DEF IInv

(* What the calls of a whole branch have copied is the content of their clusters. *)
LEMMA BranchContent ==
  ASSUME IInv, entries[e] # 0, e \in 1..Len(entries), current_depth = Needed,
         NEW s, DOMAIN s = 1..Needed, Len(s) = Needed, Agrees(s, Needed + 1)
  PROVE  FileContent(data, s, entries[e]) = [d \in 1..Needed |-> file_content[d - 1]]
<1>1. Needed \in Nat /\ DOMAIN frames = 1..Needed
  BY NeededIs DEF IInv, TypeOK, Needed, current_depth
<1>2. ASSUME NEW d \in 1..Needed
      PROVE  Chunk(data[s[d]], entries[e], d - 1) = file_content[d - 1]
  <2>1. s[d] = frames[d].previous_cluster
    BY <1>1 DEF Agrees
  <2> QED BY <1>1, <2>1 DEF IInv, BranchInv
<1> QED BY <1>2 DEF FileContent

LEMMA MismatchStep ==
  ASSUME IInv, Mismatch
  PROVE  IInv'
<1>1. pc = "search" /\ current_depth = Needed /\ ~ContentIsWanted /\ Return0
  BY DEF Mismatch
<1>2. e \in 1..Len(entries) /\ entries[e] # 0 /\ Needed \in Nat /\ Needed > 0
  <2>1. e \in 1..Len(entries) /\ entries[e] # 0
    BY <1>1 DEF IInv, EntryInv
  <2> QED BY <2>1, NeededIs DEF IInv, Needed
<1>3. ASSUME NEW s \in Arrangements(data, Window, entries[e], want), Agrees(s, current_depth + 1)
      PROVE  FALSE
  <2>1. s \in [1..Needed -> Window] /\ FileContent(data, s, entries[e]) = want
    BY DEF Arrangements, Needed
  <2>2. Len(s) = Needed
    BY <1>2, <2>1
  <2>3. FileContent(data, s, entries[e]) = [d \in 1..Needed |-> file_content[d - 1]]
    BY <1>1, <1>2, <1>3, <2>1, <2>2, BranchContent
  <2> QED BY <1>1, <2>1, <2>3 DEF ContentIsWanted
<1> QED BY <1>1, <1>2, <1>3, Return0Step

LEMMA ExhaustedStep ==
  ASSUME IInv, Exhausted
  PROVE  IInv'
<1>1. /\ pc = "search" /\ current_depth < Needed /\ current_depth > 0
      /\ i > Len(unallocated_array) /\ Return0
  BY DEF Exhausted
<1>2. /\ e \in 1..Len(entries) /\ Needed \in Nat /\ current_depth \in Nat
      /\ DOMAIN unallocated_array = 1..Len(unallocated_array) /\ i \in Nat
      /\ Len(unallocated_array) \in Nat
  <2>1. e \in 1..Len(entries)
    BY <1>1 DEF IInv, EntryInv
  <2> QED BY <1>1, <2>1, NeededIs DEF IInv, TypeOK, Needed, current_depth
<1>3. ASSUME NEW s \in Arrangements(data, Window, entries[e], want), Agrees(s, current_depth + 1)
      PROVE  FALSE
  <2> DEFINE d == current_depth + 1
  <2>1. d \in 1..Needed /\ d <= current_depth + 1 /\ ~(d <= current_depth)
    BY <1>1, <1>2
  <2>2. s[d] \in Window
    BY <1>2, <2>1 DEF Arrangements, Needed
  <2>3. PICK k \in DOMAIN unallocated_array : Restored(k) = s[d]
    BY <1>1, <2>2 DEF IInv, OfferInv
  <2>4. k < TriedBelow(d)
    BY <1>1, <1>2, <2>1 DEF TriedBelow
  <2> QED BY <1>1, <1>3, <2>1, <2>3, <2>4 DEF IInv, PassedInv
<1> QED BY <1>1, <1>3, Return0Step

LEMMA NextInv == IInv /\ [Next]_vars => IInv'
<1> SUFFICES ASSUME IInv, [Next]_vars PROVE IInv'
  OBVIOUS
<1>1. CASE vars' = vars
  <2>1. /\ pc' = pc /\ e' = e /\ i' = i /\ disk' = disk /\ frames' = frames
        /\ unallocated_array' = unallocated_array /\ file_content' = file_content
        /\ matched_cluster' = matched_cluster
    BY <1>1 DEF vars
  <2>2. TypeOK' /\ DiskInv' /\ EntryInv' /\ ScanInv' /\ MarkInv' /\ BranchInv'
    BY <2>1 DEF IInv, TypeOK, DiskInv, EntryInv, ScanInv, MarkInv, MarkedBy, BranchInv, disk,
       Depths, current_depth, Needed, ContentIsWanted
  <2>3. \A k : Restored(k)' = Restored(k)
    BY <2>1, RestoredIsPutBack
  <2>4. OfferInv'
    <3>1. {Restored(k)' : k \in DOMAIN unallocated_array} = {Restored(k) : k \in DOMAIN unallocated_array}
      BY <2>3
    <3> QED BY <2>1, <2>3, <3>1 DEF IInv, OfferInv, Window, disk
  <2>5. NoMatchMissed'
    BY <2>1 DEF IInv, NoMatchMissed, Window, disk
  <2>6. /\ Arrangements(data, Window, entries[e], want)' = Arrangements(data, Window, entries[e], want)
        /\ \A s, d : Agrees(s, d)' <=> Agrees(s, d)
        /\ \A d : TriedBelow(d)' = TriedBelow(d)
        /\ Needed' = Needed /\ current_depth' = current_depth
    BY <2>1 DEF Window, disk, Agrees, TriedBelow, Needed, current_depth
  <2>7. PassedInv'
    BY <2>1, <2>3, <2>6 DEF IInv, PassedInv
  <2> QED BY <2>2, <2>4, <2>5, <2>7 DEF IInv
<1>2. CASE Next
  BY <1>2, ScanStep, ScanEndsStep, NoneMatchesStep, EmptyFileStep, SearchStep, DescendStep,
     SkipStep, MatchStep, MismatchStep, ExhaustedStep, NextEntryStep DEF Next
<1> QED BY <1>1, <1>2

(* Every reachable state satisfies the inductive invariant.                       *)
THEOREM Invariance == Spec => []IInv
<1>1. Init => IInv
  BY InitInv
<1>2. IInv /\ [Next]_vars => IInv'
  BY NextInv
<1> QED BY <1>1, <1>2, PTL DEF Spec

--------------------------------------------------------------------------------
(* The types, the bounds of matched_cluster among them.                           *)
THEOREM TypeCorrect == Spec => []TypeOK
BY Invariance, PTL DEF IInv

(* The calls that have returned have put back all they had marked.                *)
THEOREM MarksAreUndoneHolds == Spec => []MarksAreUndone
<1>1. ASSUME IInv PROVE MarksAreUndone
  <2>1. /\ pc # "scan" => {Restored(k) : k \in DOMAIN unallocated_array} = Window
        /\ pc # "scan" => \A k, l \in DOMAIN unallocated_array : Restored(k) = Restored(l) => k = l
    BY <1>1 DEF IInv, OfferInv
  <2>2. \A k \in DOMAIN unallocated_array :
          unallocated_array[k] = -1 <=> \E d \in DOMAIN frames : MarkedBy(d, k)
    BY <1>1 DEF IInv, MarkInv, MarkedBy
  <2> QED BY <2>1, <2>2 DEF MarksAreUndone
<1> QED BY <1>1, Invariance, PTL

(* What is found is an arrangement of unallocated clusters with the content.      *)
THEOREM FoundIsAnArrangementHolds == Spec => []FoundIsAnArrangement
<1>1. ASSUME IInv, pc = "found", entries[e] # 0
      PROVE  [d \in 1..Needed |-> matched_cluster[d - 1]]
               \in Arrangements(data, free, entries[e], want)
  <2> DEFINE s == [d \in 1..Needed |-> matched_cluster[d - 1]]
  <2>1. e \in 1..Len(entries) /\ current_depth = Needed /\ ContentIsWanted
    BY <1>1 DEF IInv, EntryInv
  <2>2. Needed \in Nat /\ DOMAIN frames = 1..Needed
    BY <1>1, <2>1, NeededIs DEF IInv, TypeOK, Needed, current_depth
  <2>3. \A d \in 1..Needed : s[d] = frames[d].previous_cluster /\ s[d] \in free
    BY <1>1, <2>2, FrameTypes DEF IInv, BranchInv
  <2>4. IsInjective(s)
    <3> SUFFICES ASSUME NEW c \in 1..Needed, NEW d \in 1..Needed, s[c] = s[d] PROVE c = d
      BY DEF IsInjective
    <3>1. \A a, b \in DOMAIN frames : frames[a].i = frames[b].i => a = b
      BY <1>1 DEF IInv, MarkInv
    <3>2. Restored(frames[c].i) = s[c] /\ Restored(frames[d].i) = s[d]
      BY <1>1, <2>2, <2>3, RestoredIs DEF IInv
    <3>3. frames[c].i \in DOMAIN unallocated_array /\ frames[d].i \in DOMAIN unallocated_array
      BY <1>1, <2>2 DEF IInv, MarkInv
    <3>4. frames[c].i = frames[d].i
      BY <1>1, <3>2, <3>3 DEF IInv, OfferInv
    <3> QED BY <2>2, <3>1, <3>4
  <2>5. s \in [1..Needed -> free] /\ DOMAIN s = 1..Needed
    BY <2>3
  <2>6. Len(s) = Needed
    BY <2>2
  <2>7. Agrees(s, Needed + 1)
    BY <2>2, <2>3 DEF Agrees
  <2> HIDE DEF s
  <2>8. FileContent(data, s, entries[e]) = want
    BY <1>1, <2>1, <2>5, <2>6, <2>7, BranchContent DEF ContentIsWanted
  <2>9. s \in Arrangements(data, free, entries[e], want)
    BY <2>4, <2>5, <2>8 DEF Arrangements, Needed
  <2> QED BY <2>9 DEF s
<1>2. IInv => FoundIsAnArrangement
  BY <1>1 DEF FoundIsAnArrangement
<1> QED BY <1>2, Invariance, PTL

(* When the search gives an entry up, the window has no arrangement for it.       *)
THEOREM NoMatchMissedHolds == Spec => []NoMatchMissed
BY Invariance, PTL DEF IInv
================================================================================
