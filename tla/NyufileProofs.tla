------------------------------ MODULE NyufileProofs ------------------------------
(* The safety properties of Nyufile, proved for every number of FATs, entries and *)
(* clusters, every content, and any number of files, kills and power failures:    *)
(* what is reported recovered is intact on the storage, -R leaves no half file,   *)
(* and no other file is damaged.                                                  *)
EXTENDS Nyufile, Recursion

(* The files for which the sum of file_cluster_counter does not wrap.  (Of others *)
(* CounterIsEnough is violated.)                                                  *)
NoWrap == MaxSize + ClusterSize <= UIntMod

(* The inductive invariant, by part.                                              *)

IsName(n) == n = [first |-> n.first, rest |-> n.rest]

(* An entry with clusters has a start cluster, whatever has been stored in it.    *)
EntryOK(e) ==
  /\ e = [state |-> e.state, name |-> e.name, start |-> e.start, size |-> e.size]
  /\ e.state \in {"unused", "live", "deleted"} /\ e.size \in Sizes
  /\ ClustersOf(e.size) > 0 => e.start \in DataClusters
  /\ e.state # "unused" => IsName(e.name)

DiskOK(d) ==
  /\ d = [p \in Pages |-> d[p]] /\ d[DIR] = [s \in Slots |-> d[DIR][s]]
  /\ \A s \in Slots : EntryOK(d[DIR][s])
  /\ \A p \in Copies : d[p] \in [FatIndexes -> Int]

DiskInv ==
  /\ DiskOK(cache) /\ DiskOK(image) /\ data = [c \in DataClusters |-> data[c]]
  /\ interrupted \subseteq Slots /\ overwriting \in BOOLEAN

(* cs is the entry's chain in every copy of the FAT.                              *)
Linked(d, entry, cs) == \A p \in Copies : cs \in Chains(d[p], entry)

(* What the storage may lack concerns entries that are, or were being recovered:  *)
(* the others it has, with the same links as the mapping.                         *)
SyncInv ==
  /\ \A s \in Slots \ (interrupted \union {slot}) : Dir(image)[s] = Dir(cache)[s]
  /\ pc = "done" => image = cache

TrustInv ==
  ~overwriting =>
    /\ \A s \in Trusted : /\ Linked(cache, Dir(cache)[s], ChainOf(cache, 1, s))
                         /\ Linked(image, Dir(cache)[s], ChainOf(cache, 1, s))
    /\ \A s, t \in Trusted :
         s # t => Clusters(cache, s) \intersect Clusters(cache, t) = {}

(* The stores of the run that have been made.                                     *)
Named   == pc # "name" /\ (cmd.opt = "R" => pc \notin {"fat", "start"})
Started == cmd.opt = "R" => pc \notin {"fat", "start"}
LinkStored(p, k) ==
  \/ pc \in {"start", "msync", "done"} \/ (pc = "name" /\ cmd.opt = "R")
  \/ pc = "fat" /\ (p < copy \/ (p = copy /\ k < j))

ProgressInv ==
  /\ pc = "idle" => slot = NULL /\ cmd = NoCmd /\ copy = 1 /\ j = 1
  /\ pc # "idle" =>
       /\ slot \in Slots /\ cmd.opt \in {"r", "R"} /\ IsName(cmd.name)
       /\ pc \in {"name", "fat", "msync", "done"} \/ (pc = "start" /\ cmd.opt = "R")
       /\ pc # "fat" => copy = 1 /\ j = 1
       /\ pc = "fat" => /\ copy \in Nat \ {0} /\ j \in Nat \ {0}
                        /\ j <= Len(clusters) \/ (Len(clusters) = 0 /\ j = 1)

(* The clusters the file is to have: those its size needs, each once, with the    *)
(* content of the digest, and of no file that is to be kept.                      *)
ClustersInv ==
  pc # "idle" =>
    LET e == Dir(cache)[slot]
    IN  /\ clusters \in [1..ClustersOf(e.size) -> FatIndexes] /\ IsInjective(clusters)
        /\ cmd.opt = "R" \/ cmd.sha1 # NULL \/ ~overwriting => Range(clusters) \subseteq DataClusters
        /\ cmd.sha1 # NULL => FileContent(data, clusters, e.size) = cmd.sha1
        /\ ~overwriting => \A t \in Trusted : Range(clusters) \intersect Clusters(cache, t) = {}

StoresInv ==
  pc # "idle" =>
    LET e == Dir(cache)[slot]
    IN  /\ e.state = (IF Named THEN "live" ELSE "deleted")
        /\ e.name.rest = cmd.name.rest /\ (Named => e.name = cmd.name)
        /\ Started /\ ClustersOf(e.size) > 0 => e.start = clusters[1]
        /\ \A p \in Copies, k \in 1..ClustersOf(e.size) :
             LinkStored(p, k) => cache[p][clusters[k]] = Link(clusters, k)

IInv == DiskInv /\ SyncInv /\ TrustInv /\ ProgressInv /\ ClustersInv /\ StoresInv

--------------------------------------------------------------------------------
(* Lemmas about the operators.                                                    *)

LEMMA ConstantsAre ==
  /\ NumFATs \in Nat \ {0} /\ LastCluster \in Nat /\ MaxSize \in Nat \ {0}
  /\ ClusterSize \in Nat \ {0} /\ UIntMod \in Nat \ {0}
  /\ 1 \in Copies /\ DIR \notin Copies /\ NULL \notin Slots
  /\ FREE \notin DataClusters /\ EOF # FREE
BY DiskAssumption, SizesAssumption DEF Copies, DIR, FREE, EOF, DataClusters

(* The number of clusters of a file, and that the program counts them right.      *)
LEMMA CountIs ==
  ASSUME NEW size \in Sizes
  PROVE  /\ ClustersOf(size) \in Nat /\ ClustersOf(size) <= ClustersOf(MaxSize)
         /\ size = 0 <=> ClustersOf(size) = 0
         /\ NoWrap => file_cluster_counter(size) = ClustersOf(size)
<1>1. size \in Nat /\ MaxSize \in Nat /\ size <= MaxSize /\ ClusterSize \in Nat \ {0} /\ UIntMod \in Nat \ {0}
  BY ConstantsAre DEF Sizes
<1>2. (size + ClusterSize - 1) \div ClusterSize \in Nat
  BY <1>1
<1>3. size # 0 => (size + ClusterSize - 1) \div ClusterSize >= 1
  BY <1>1
<1>4. size = 0 => (size + ClusterSize - 1) \div ClusterSize = 0
  BY <1>1
<1>5. (size + ClusterSize - 1) \div ClusterSize <= (MaxSize + ClusterSize - 1) \div ClusterSize
  BY <1>1
<1>6. NoWrap => (size + ClusterSize - 1) % UIntMod = size + ClusterSize - 1
  BY <1>1 DEF NoWrap
<1> QED BY <1>1, <1>2, <1>3, <1>4, <1>5, <1>6 DEF ClustersOf, file_cluster_counter

LEMMA IndexesAre ==
  /\ DataClusters \subseteq FatIndexes /\ FatIndexes \subseteq Int /\ DataClusters \subseteq Int
  /\ \A size \in Sizes : ClustersOf(size) \in Nat
  /\ ClustersOf(0) = 0
<1>1. MaxSize \in Sizes /\ 0 \in Sizes
  BY ConstantsAre DEF Sizes
<1>2. ClustersOf(MaxSize) \in Nat /\ ClustersOf(MaxSize) # 0 /\ ClustersOf(0) = 0
  BY <1>1, CountIs, ConstantsAre
<1>3. \A size \in Sizes : ClustersOf(size) \in Nat
  BY CountIs
<1> HIDE <1>3
<1>4. DataClusters \subseteq FatIndexes /\ FatIndexes \subseteq Int /\ DataClusters \subseteq Int
  BY <1>2, ConstantsAre DEF DataClusters, FatIndexes
<1> QED BY <1>2, <1>3, <1>4

(* A chain's entries.                                                             *)
LEMMA ChainIs ==
  ASSUME NEW fat, NEW e, NEW cs \in Chains(fat, e), e.size \in Sizes
  PROVE  /\ cs \in [1..ClustersOf(e.size) -> DataClusters] /\ IsInjective(cs)
         /\ ClustersOf(e.size) \in Nat /\ Len(cs) = ClustersOf(e.size)
         /\ ClustersOf(e.size) > 0 => cs[1] = e.start
         /\ \A k \in 1..ClustersOf(e.size) : fat[cs[k]] = Link(cs, k)
         /\ \A k \in 1..ClustersOf(e.size) : Link(cs, k) # FREE
         /\ \A c \in Range(cs) : c \in DataClusters /\ fat[c] # FREE
<1> DEFINE n == ClustersOf(e.size)
<1>1. n \in Nat
  BY CountIs
<1> HIDE DEF n
<1>2. /\ cs \in [1..n -> DataClusters] /\ IsInjective(cs) /\ (n > 0 => cs[1] = e.start)
      /\ \A k \in 1..n : fat[cs[k]] = Link(cs, k)
  BY DEF Chains, n
<1>3. Len(cs) = n
  BY <1>1, <1>2
<1>4. \A k \in 1..n : Link(cs, k) # FREE
  BY <1>1, <1>2, <1>3, ConstantsAre DEF Link
<1>5. \A c \in Range(cs) : c \in DataClusters /\ fat[c] # FREE
  BY <1>2, <1>4 DEF Range
<1> QED BY <1>1, <1>2, <1>3, <1>4, <1>5 DEF n

(* There is one chain at most: two of them could first differ only behind a       *)
(* cluster they share.                                                            *)
LEMMA ChainUnique ==
  ASSUME NEW fat, NEW e, e.size \in Sizes, NEW cs \in Chains(fat, e), NEW ds \in Chains(fat, e)
  PROVE  cs = ds
<1> DEFINE n == ClustersOf(e.size)
           D == {k \in 1..n : cs[k] # ds[k]}
<1>1. /\ n \in Nat /\ cs \in [1..n -> DataClusters] /\ ds \in [1..n -> DataClusters]
      /\ Len(cs) = n /\ Len(ds) = n /\ (n > 0 => cs[1] = ds[1])
      /\ \A k \in 1..n : fat[cs[k]] = Link(cs, k) /\ fat[ds[k]] = Link(ds, k)
  BY ChainIs
<1> HIDE DEF n
<1>2. ASSUME D # {} PROVE FALSE
  <2>1. D \in SUBSET Nat
    BY <1>1
  <2>2. PICK k \in D : \A l \in D : k <= l
    BY <1>2, <2>1, MinIs
  <2>3. k \in 1..n /\ k # 1 /\ k - 1 \in 1..n /\ k - 1 # n /\ k - 1 \notin D
    BY <1>1, <2>2
  <2>4. cs[k - 1] = ds[k - 1]
    BY <2>3
  <2>5. Link(cs, k - 1) = cs[k] /\ Link(ds, k - 1) = ds[k]
    BY <1>1, <2>3 DEF Link
  <2> QED BY <1>1, <2>2, <2>3, <2>4, <2>5
<1>3. \A k \in 1..n : cs[k] = ds[k]
  BY <1>2
<1> QED BY <1>1, <1>3

(* A sequence that is an entry's chain in every copy is the one ChainOf chooses.  *)
LEMMA LinkedIs ==
  ASSUME NEW d, NEW s, NEW cs, Dir(d)[s].size \in Sizes, Linked(d, Dir(d)[s], cs)
  PROVE  /\ \A p \in Copies : ChainOf(d, p, s) = cs
         /\ Clusters(d, s) = Range(cs) /\ Complete(d, s)
<1>1. ASSUME NEW p \in Copies PROVE cs \in Chains(d[p], Dir(d)[s]) /\ ChainOf(d, p, s) = cs
  <2>1. cs \in Chains(d[p], Dir(d)[s])
    BY DEF Linked
  <2>2. ChainOf(d, p, s) \in Chains(d[p], Dir(d)[s])
    BY <2>1 DEF ChainOf
  <2> QED BY <2>1, <2>2, ChainUnique
<1>2. Complete(d, s)
  BY <1>1 DEF Complete
<1> QED BY <1>1, <1>2, ConstantsAre DEF Clusters

(* Stores beside the chain leave it as it is.                                     *)
LEMMA ChainKept ==
  ASSUME NEW d, NEW f, NEW e, NEW cs, Linked(d, e, cs), e.size \in Sizes,
         \A p \in Copies : \A c \in Range(cs) : f[p][c] = d[p][c]
  PROVE  Linked(f, e, cs)
<1> SUFFICES ASSUME NEW p \in Copies PROVE cs \in Chains(f[p], e)
  BY DEF Linked
<1>1. cs \in Chains(d[p], e)
  BY DEF Linked
<1>2. /\ cs \in [1..ClustersOf(e.size) -> DataClusters] /\ IsInjective(cs)
      /\ ClustersOf(e.size) > 0 => cs[1] = e.start
      /\ \A k \in 1..ClustersOf(e.size) : d[p][cs[k]] = Link(cs, k)
  BY <1>1 DEF Chains
<1>3. \A k \in 1..ClustersOf(e.size) : f[p][cs[k]] = d[p][cs[k]]
  BY <1>2 DEF Range
<1> QED BY <1>2, <1>3 DEF Chains

LEMMA EntryTypes ==
  ASSUME DiskInv, NEW s \in Slots
  PROVE  /\ Dir(cache)[s].size \in Sizes /\ Dir(image)[s].size \in Sizes
         /\ EntryOK(Dir(cache)[s]) /\ EntryOK(Dir(image)[s])
BY DEF DiskInv, DiskOK, EntryOK, Dir

(* A file that is not being recovered has one chain, in the mapping and on the    *)
(* storage alike, of clusters that are linked.                                    *)
LEMMA TrustedChain ==
  ASSUME DiskInv, TrustInv, ~overwriting, NEW s \in Trusted
  PROVE  /\ s \in Slots /\ Dir(cache)[s].size \in Sizes
         /\ Linked(cache, Dir(cache)[s], ChainOf(cache, 1, s))
         /\ Linked(image, Dir(cache)[s], ChainOf(cache, 1, s))
         /\ Clusters(cache, s) \subseteq DataClusters
         /\ \A c \in Clusters(cache, s), p \in Copies :
              cache[p][c] # FREE /\ image[p][c] = cache[p][c]
<1> DEFINE e == Dir(cache)[s]
           cs == ChainOf(cache, 1, s)
           n == ClustersOf(e.size)
<1>1. s \in Slots /\ e.size \in Sizes
  BY EntryTypes DEF Trusted, Live
<1>2. Linked(cache, e, cs) /\ Linked(image, e, cs)
  BY DEF TrustInv
<1>3. \A p \in Copies : cs \in Chains(cache[p], e) /\ cs \in Chains(image[p], e)
  BY <1>2 DEF Linked
<1> HIDE DEF cs, e
<1>4. ASSUME NEW c \in Range(cs), NEW p \in Copies
      PROVE  c \in DataClusters /\ cache[p][c] # FREE /\ image[p][c] = cache[p][c]
  <2> HIDE DEF n
  <2>1. /\ cs \in [1..n -> DataClusters] /\ \A k \in 1..n : cache[p][cs[k]] = Link(cs, k)
        /\ c \in DataClusters /\ cache[p][c] # FREE
    BY <1>1, <1>3, ChainIs DEF n
  <2>2. \A k \in 1..n : image[p][cs[k]] = Link(cs, k)
    BY <1>1, <1>3, ChainIs DEF n
  <2> QED BY <2>1, <2>2 DEF Range
<1>5. Clusters(cache, s) = Range(cs)
  BY DEF Clusters, cs
<1>6. Range(cs) \subseteq DataClusters
  BY <1>4, ConstantsAre
<1> QED BY <1>1, <1>2, <1>4, <1>5, <1>6 DEF e, cs

(* A step that takes no other file than x, if any, among those to be kept, and    *)
(* leaves the entries and links of the others as they are, keeps TrustInv.        *)
LEMMA TrustKept ==
  ASSUME DiskInv, DiskInv', TrustInv, ~overwriting' => ~overwriting,
         NEW x, NEW cs, Trusted' \subseteq Trusted \union {x},
         \A s \in Trusted' \ {x} : Dir(cache')[s] = Dir(cache)[s],
         ~overwriting' =>
           \A s \in Trusted' \ {x}, p \in Copies : \A c \in Clusters(cache, s) :
             cache'[p][c] = cache[p][c] /\ image'[p][c] = cache[p][c],
         ~overwriting' /\ x \in Trusted' =>
           /\ Linked(cache', Dir(cache')[x], cs) /\ Linked(image', Dir(cache')[x], cs)
           /\ \A t \in Trusted \ {x} : Range(cs) \intersect Clusters(cache, t) = {}
  PROVE  /\ TrustInv'
         /\ ~overwriting' => \A s \in Trusted' \ {x} : Clusters(cache', s) = Clusters(cache, s)
<1> SUFFICES ASSUME ~overwriting'
             PROVE  /\ TrustInv'
                    /\ \A s \in Trusted' \ {x} : Clusters(cache', s) = Clusters(cache, s)
  BY DEF TrustInv
<1>1. \A s \in Trusted' : Dir(cache')[s].size \in Sizes
  BY DEF Trusted, Live, DiskInv, DiskOK, EntryOK, Dir
<1>2. ASSUME NEW s \in Trusted' \ {x}
      PROVE  /\ Linked(cache', Dir(cache')[s], ChainOf(cache, 1, s))
             /\ Linked(image', Dir(cache')[s], ChainOf(cache, 1, s))
             /\ ChainOf(cache', 1, s) = ChainOf(cache, 1, s)
             /\ Clusters(cache', s) = Clusters(cache, s)
  <2>1. s \in Trusted
    OBVIOUS
  <2>2. /\ Dir(cache)[s].size \in Sizes
        /\ Linked(cache, Dir(cache)[s], ChainOf(cache, 1, s))
    BY <2>1, TrustedChain
  <2>3. \A p \in Copies : \A c \in Range(ChainOf(cache, 1, s)) :
          cache'[p][c] = cache[p][c] /\ image'[p][c] = cache[p][c]
    BY DEF Clusters
  <2>4. Linked(cache', Dir(cache)[s], ChainOf(cache, 1, s))
    BY <2>2, <2>3, ChainKept
  <2>5. Linked(image', Dir(cache)[s], ChainOf(cache, 1, s))
    BY <2>2, <2>3, ChainKept
  <2>6. Dir(cache')[s] = Dir(cache)[s]
    OBVIOUS
  <2>7. ChainOf(cache', 1, s) = ChainOf(cache, 1, s) /\ Clusters(cache', s) = Range(ChainOf(cache, 1, s))
    BY <2>2, <2>4, <2>6, LinkedIs, ConstantsAre
  <2> QED BY <2>4, <2>5, <2>6, <2>7 DEF Clusters
<1>3. ASSUME x \in Trusted'
      PROVE  ChainOf(cache', 1, x) = cs /\ Clusters(cache', x) = Range(cs)
  <2>1. Dir(cache')[x].size \in Sizes /\ Linked(cache', Dir(cache')[x], cs)
    BY <1>1, <1>3
  <2>2. 1 \in Copies
    BY ConstantsAre
  <2> QED BY <2>1, <2>2, LinkedIs
<1>4. ASSUME NEW s \in Trusted'
      PROVE  /\ Linked(cache', Dir(cache')[s], ChainOf(cache', 1, s))
             /\ Linked(image', Dir(cache')[s], ChainOf(cache', 1, s))
  <2>1. CASE s = x
    BY <1>3, <2>1
  <2>2. CASE s # x
    BY <1>2, <2>2
  <2> QED BY <2>1, <2>2
<1>5. ASSUME NEW s \in Trusted', NEW t \in Trusted', s # t
      PROVE  Clusters(cache', s) \intersect Clusters(cache', t) = {}
  <2>1. CASE s # x /\ t # x
    BY <1>2, <1>5, <2>1 DEF TrustInv
  <2>2. CASE s = x
    BY <1>2, <1>3, <1>5, <2>2
  <2>3. CASE t = x
    BY <1>2, <1>3, <1>5, <2>3
  <2> QED BY <2>1, <2>2, <2>3
<1> QED BY <1>2, <1>4, <1>5 DEF TrustInv

LEMMA ClustersKept ==
  ASSUME ClustersInv, pc # "idle", Dir(cache')[slot].size = Dir(cache)[slot].size,
         UNCHANGED <<slot, clusters, cmd, data, overwriting>>, Trusted' \subseteq Trusted,
         ~overwriting => \A t \in Trusted' : Clusters(cache', t) = Clusters(cache, t)
  PROVE  ClustersInv'
BY DEF ClustersInv

--------------------------------------------------------------------------------
(* The initial states, and the steps of the driver.                               *)

LEMMA InitInv == Init => IInv
<1> SUFFICES ASSUME Init PROVE IInv
  OBVIOUS
<1>1. cache = [p \in Pages |-> IF p = DIR THEN [s \in Slots |-> Unused]
                               ELSE [c \in FatIndexes |-> FREE]] /\ image = cache
  BY DEF Init
<1>2. cache[DIR] = [s \in Slots |-> Unused] /\ \A p \in Copies : cache[p] = [c \in FatIndexes |-> FREE]
  BY <1>1, ConstantsAre DEF Pages
<1>3. EntryOK(Unused)
  BY ConstantsAre, IndexesAre DEF EntryOK, Unused, Sizes
<1>4. DiskOK(cache)
  <2>1. cache = [p \in Pages |-> cache[p]]
    BY <1>1
  <2>2. \A s \in Slots : cache[DIR][s] = Unused
    BY <1>2
  <2>3. \A p \in Copies : cache[p] \in [FatIndexes -> Int]
    BY <1>2 DEF FREE
  <2> QED BY <1>2, <1>3, <2>1, <2>2, <2>3 DEF DiskOK
<1>5. DiskInv
  BY <1>1, <1>4 DEF Init, DiskInv
<1>6. Trusted = {}
  BY <1>2 DEF Trusted, Live, Dir, Unused
<1> QED BY <1>1, <1>5, <1>6 DEF Init, IInv, SyncInv, TrustInv, ProgressInv, ClustersInv, StoresInv

(* Links: the FAT with a chain written into it.                                   *)
LEMMA LinksIs ==
  ASSUME NEW n \in Nat, NEW cs \in [1..n -> DataClusters], IsInjective(cs),
         NEW fat \in [FatIndexes -> Int]
  PROVE  /\ Links(fat, cs) \in [FatIndexes -> Int]
         /\ \A k \in 1..n : Links(fat, cs)[cs[k]] = Link(cs, k)
         /\ \A c \in FatIndexes \ Range(cs) : Links(fat, cs)[c] = fat[c]
<1>1. \A k \in 1..n : Link(cs, k) \in Int /\ cs[k] \in FatIndexes
  <2> SUFFICES ASSUME NEW k \in 1..n PROVE Link(cs, k) \in Int /\ cs[k] \in FatIndexes
    OBVIOUS
  <2>1. cs[k] \in FatIndexes
    BY IndexesAre
  <2>2. Len(cs) = n /\ (k # n => k + 1 \in 1..n)
    OBVIOUS
  <2>3. k # n => cs[k + 1] \in Int
    BY <2>2, IndexesAre
  <2> QED BY <2>1, <2>2, <2>3 DEF Link, EOF
<1>2. \A c \in FatIndexes : Links(fat, cs)[c] =
        IF \E k \in 1..n : cs[k] = c THEN Link(cs, CHOOSE k \in 1..n : cs[k] = c) ELSE fat[c]
  BY DEF Links
<1>3. ASSUME NEW k \in 1..n PROVE Links(fat, cs)[cs[k]] = Link(cs, k)
  <2>1. (CHOOSE l \in 1..n : cs[l] = cs[k]) = k
    BY DEF IsInjective
  <2> QED BY <1>1, <1>2, <2>1
<1>4. \A c \in FatIndexes \ Range(cs) : Links(fat, cs)[c] = fat[c]
  <2>1. \A k \in 1..n : cs[k] \in Range(cs)
    BY DEF Range
  <2> QED BY <1>2, <2>1
<1>5. \A c \in FatIndexes : Links(fat, cs)[c] \in Int
  <2> SUFFICES ASSUME NEW c \in FatIndexes PROVE Links(fat, cs)[c] \in Int
    OBVIOUS
  <2>1. CASE c \in Range(cs)
    <3>1. PICK k \in 1..n : cs[k] = c
      BY <2>1 DEF Range
    <3> QED BY <1>1, <1>3, <3>1
  <2>2. CASE c \notin Range(cs)
    BY <1>4, <2>2
  <2> QED BY <2>1, <2>2
<1>6. Links(fat, cs) = [c \in FatIndexes |-> Links(fat, cs)[c]]
  BY DEF Links
<1> QED BY <1>3, <1>4, <1>5, <1>6

LEMMA CreateStep ==
  ASSUME IInv, NEW s \in Slots, NEW name \in Names, NEW size \in Sizes, Create(s, name, size)
  PROVE  IInv'
<1> DEFINE n == ClustersOf(size)
           new(cs) == [state |-> "live", name |-> name, size |-> size,
                       start |-> IF size = 0 THEN 0 ELSE cs[1]]
<1>1. PICK cs \in [1..n -> Unlinked(cache)] :
        /\ IsInjective(cs)
        /\ cache' = [p \in Pages |-> IF p = DIR THEN [Dir(cache) EXCEPT ![s] = new(cs)]
                                                ELSE Links(cache[p], cs)]
        /\ data' = [c \in DataClusters |-> data'[c]]
  BY Zenon DEF Create
<1>2. /\ pc = "idle" /\ s \notin Live(cache) /\ image' = cache' /\ interrupted' = interrupted \ {s}
      /\ UNCHANGED <<run, overwriting>>
  BY DEF Create
<1>3. n \in Nat /\ (n > 0 => size # 0) /\ Unlinked(cache) \subseteq DataClusters
  BY CountIs, ConstantsAre DEF Unlinked
<1>4. cs \in [1..n -> DataClusters] /\ Len(cs) = n
  BY <1>1, <1>3
<1> HIDE DEF n
<1>5. \A p \in Copies : cache[p] \in [FatIndexes -> Int]
  BY DEF IInv, DiskInv, DiskOK
<1>6. \A p \in Copies : /\ cache'[p] = Links(cache[p], cs)
                        /\ cache'[p] \in [FatIndexes -> Int]
                        /\ \A k \in 1..n : cache'[p][cs[k]] = Link(cs, k)
                        /\ \A c \in FatIndexes \ Range(cs) : cache'[p][c] = cache[p][c]
  <2> SUFFICES ASSUME NEW p \in Copies
               PROVE  /\ cache'[p] = Links(cache[p], cs)
                      /\ cache'[p] \in [FatIndexes -> Int]
                      /\ \A k \in 1..n : cache'[p][cs[k]] = Link(cs, k)
                      /\ \A c \in FatIndexes \ Range(cs) : cache'[p][c] = cache[p][c]
    OBVIOUS
  <2>1. cache'[p] = Links(cache[p], cs)
    BY <1>1, ConstantsAre DEF Pages
  <2>2. IsInjective(cs) /\ cache[p] \in [FatIndexes -> Int]
    BY <1>1, <1>5
  <2>3. /\ Links(cache[p], cs) \in [FatIndexes -> Int]
        /\ \A k \in 1..n : Links(cache[p], cs)[cs[k]] = Link(cs, k)
        /\ \A c \in FatIndexes \ Range(cs) : Links(cache[p], cs)[c] = cache[p][c]
    BY <1>3, <1>4, <2>2, LinksIs
  <2> QED BY <2>1, <2>3
<1>7. /\ Dir(cache')[s] = new(cs) /\ \A t \in Slots \ {s} : Dir(cache')[t] = Dir(cache)[t]
      /\ Dir(cache') = [t \in Slots |-> Dir(cache')[t]]
  <2>1. Dir(cache) = [t \in Slots |-> Dir(cache)[t]]
    BY DEF IInv, DiskInv, DiskOK, Dir
  <2>2. Dir(cache') = [Dir(cache) EXCEPT ![s] = new(cs)]
    BY <1>1 DEF Dir, Pages
  <2> HIDE DEF new
  <2> QED BY <2>1, <2>2
<1>8. EntryOK(new(cs))
  <2>1. n > 0 => cs[1] \in DataClusters
    BY <1>3, <1>4
  <2> QED BY <1>3, <2>1, DiskAssumption DEF EntryOK, IsName, n
<1>9. DiskInv'
  <2>1. cache' = [p \in Pages |-> cache'[p]]
    BY <1>1
  <2>2. \A t \in Slots : EntryOK(Dir(cache')[t])
    BY <1>7, <1>8, EntryTypes DEF IInv
  <2>3. DiskOK(cache')
    BY <1>6, <1>7, <2>1, <2>2 DEF DiskOK, Dir
  <2> QED BY <1>1, <1>2, <2>3 DEF IInv, DiskInv
<1>10. SyncInv' /\ ProgressInv' /\ ClustersInv' /\ StoresInv'
  BY <1>2 DEF IInv, SyncInv, ProgressInv, ClustersInv, StoresInv, run
<1>11. Trusted' \subseteq Trusted \union {s}
  BY <1>2, <1>7 DEF Trusted, Live, run
<1>12. ~overwriting => \A t \in Trusted : \A c \in Clusters(cache, t) :
         c \in FatIndexes /\ c \notin Unlinked(cache)
  BY TrustedChain, IndexesAre, ConstantsAre DEF IInv, Unlinked
<1>13. Range(cs) \subseteq Unlinked(cache)
  BY <1>1 DEF Range
<1>14. Linked(cache', Dir(cache')[s], cs)
  <2> SUFFICES ASSUME NEW p \in Copies PROVE cs \in Chains(cache'[p], Dir(cache')[s])
    BY DEF Linked
  <2>1. Dir(cache')[s].size = size /\ (n > 0 => cs[1] = Dir(cache')[s].start)
    BY <1>3, <1>7
  <2>2. \A k \in 1..n : cache'[p][cs[k]] = Link(cs, k)
    BY <1>6
  <2> QED BY <1>1, <1>4, <2>1, <2>2 DEF Chains, n
<1>15. \A t \in Trusted' \ {s} : Dir(cache')[t] = Dir(cache)[t]
  BY <1>7 DEF Trusted, Live
<1>16. ~overwriting' => \A t \in Trusted' \ {s}, p \in Copies : \A c \in Clusters(cache, t) :
         cache'[p][c] = cache[p][c] /\ image'[p][c] = cache[p][c]
  BY <1>2, <1>6, <1>11, <1>12, <1>13
<1>17. ~overwriting' /\ s \in Trusted' =>
         /\ Linked(cache', Dir(cache')[s], cs) /\ Linked(image', Dir(cache')[s], cs)
         /\ \A t \in Trusted \ {s} : Range(cs) \intersect Clusters(cache, t) = {}
  BY <1>2, <1>12, <1>13, <1>14
<1>18. TrustInv'
  <2>1. DiskInv /\ TrustInv /\ (~overwriting' => ~overwriting)
    BY <1>2 DEF IInv
  <2> QED BY <1>9, <1>11, <1>15, <1>16, <1>17, <2>1, TrustKept
<1> QED BY <1>9, <1>10, <1>18 DEF IInv

LEMMA DeleteStep ==
  ASSUME IInv, NEW s \in Slots, Delete(s)
  PROVE  IInv'
<1>1. /\ pc = "idle" /\ s \in Live(cache) \ interrupted /\ ~overwriting /\ image' = cache'
      /\ cache' = [p \in Pages |->
           IF p = DIR THEN [Dir(cache) EXCEPT ![s].state = "deleted"]
           ELSE [c \in FatIndexes |-> IF c \in Clusters(cache, s) THEN FREE ELSE cache[p][c]]]
      /\ UNCHANGED <<data, run, interrupted, overwriting>>
  BY DEF Delete
<1>2. slot = NULL /\ s \in Trusted
  BY <1>1, ConstantsAre DEF IInv, ProgressInv, Trusted
<1>3. /\ \A t \in Slots \ {s} : Dir(cache')[t] = Dir(cache)[t]
      /\ Dir(cache') = [t \in Slots |-> Dir(cache')[t]]
      /\ Dir(cache')[s] = [Dir(cache)[s] EXCEPT !.state = "deleted"]
  <2>1. Dir(cache) = [t \in Slots |-> Dir(cache)[t]]
    BY DEF IInv, DiskInv, DiskOK, Dir
  <2>2. Dir(cache') = [Dir(cache) EXCEPT ![s].state = "deleted"]
    BY <1>1 DEF Dir, Pages
  <2> QED BY <2>1, <2>2
<1>4. EntryOK(Dir(cache')[s]) /\ Dir(cache')[s].state = "deleted"
  <2>1. EntryOK(Dir(cache)[s]) /\ Dir(cache)[s].state = "live"
    BY <1>1, EntryTypes DEF IInv, Live
  <2> HIDE <1>1
  <2> QED BY <1>3, <2>1 DEF EntryOK
<1>5. \A p \in Copies : /\ cache'[p] \in [FatIndexes -> Int]
                        /\ \A c \in FatIndexes \ Clusters(cache, s) : cache'[p][c] = cache[p][c]
  <2> SUFFICES ASSUME NEW p \in Copies
               PROVE  /\ cache'[p] \in [FatIndexes -> Int]
                      /\ \A c \in FatIndexes \ Clusters(cache, s) : cache'[p][c] = cache[p][c]
    OBVIOUS
  <2>1. cache'[p] = [c \in FatIndexes |-> IF c \in Clusters(cache, s) THEN FREE ELSE cache[p][c]]
    BY <1>1, ConstantsAre DEF Pages
  <2>2. FREE \in Int /\ cache[p] \in [FatIndexes -> Int]
    <3>1. DiskOK(cache)
      BY DEF IInv, DiskInv
    <3>2. \A q \in Copies : cache[q] \in [FatIndexes -> Int]
      BY Zenon, <3>1 DEF DiskOK
    <3> QED BY <3>2 DEF FREE
  <2>3. \A c \in FatIndexes : (IF c \in Clusters(cache, s) THEN FREE ELSE cache[p][c]) \in Int
    BY <2>2
  <2>4. \A c \in FatIndexes \ Clusters(cache, s) : cache'[p][c] = cache[p][c]
    BY <2>1
  <2>5. cache'[p] \in [FatIndexes -> Int]
    BY <2>1, <2>3
  <2> QED BY <2>4, <2>5
<1>6. DiskInv'
  <2>1. cache' = [p \in Pages |-> cache'[p]]
    BY <1>1
  <2>2. \A t \in Slots : EntryOK(Dir(cache')[t])
    BY <1>3, <1>4, EntryTypes DEF IInv
  <2>3. DiskOK(cache')
    BY <1>3, <1>5, <2>1, <2>2 DEF DiskOK, Dir
  <2> QED BY <1>1, <2>3 DEF IInv, DiskInv
<1>7. SyncInv' /\ ProgressInv' /\ ClustersInv' /\ StoresInv'
  BY <1>1 DEF IInv, SyncInv, ProgressInv, ClustersInv, StoresInv, run
<1>8. Trusted' \subseteq Trusted \ {s}
  BY <1>1, <1>3, <1>4 DEF Trusted, Live, run
<1>9. \A t \in Trusted \ {s} : \A c \in Clusters(cache, t) : c \in FatIndexes \ Clusters(cache, s)
  BY <1>1, <1>2, TrustedChain, IndexesAre DEF IInv, TrustInv
<1>10. TrustInv'
  <2>1. \A t \in Trusted' \ {NULL} : Dir(cache')[t] = Dir(cache)[t]
    BY <1>3, <1>8 DEF Trusted, Live
  <2>2. \A t \in Trusted' \ {NULL}, p \in Copies : \A c \in Clusters(cache, t) :
          cache'[p][c] = cache[p][c] /\ image'[p][c] = cache[p][c]
    BY <1>1, <1>5, <1>8, <1>9
  <2>3. Trusted' \subseteq Trusted \union {NULL} /\ NULL \notin Trusted'
    BY <1>8, ConstantsAre DEF Trusted, Live
  <2>4. DiskInv /\ TrustInv
    BY DEF IInv
  <2> QED BY <1>1, <1>6, <2>1, <2>2, <2>3, <2>4, TrustKept
<1> QED BY <1>6, <1>7, <1>10 DEF IInv

--------------------------------------------------------------------------------
(* The steps of nyufile.                                                          *)

(* A step that takes no file from those to be kept, and stores nothing in them.   *)
LEMMA OthersKept ==
  ASSUME DiskInv, DiskInv', TrustInv, ~overwriting' => ~overwriting, Trusted' \subseteq Trusted,
         \A s \in Trusted' : Dir(cache')[s] = Dir(cache)[s],
         ~overwriting' =>
           \A s \in Trusted', p \in Copies : \A c \in Clusters(cache, s) :
             cache'[p][c] = cache[p][c] /\ image'[p][c] = cache[p][c]
  PROVE  /\ TrustInv'
         /\ ~overwriting' => \A s \in Trusted' : Clusters(cache', s) = Clusters(cache, s)
<1>1. Trusted' \subseteq Trusted \union {NULL} /\ Trusted' = Trusted' \ {NULL} /\ NULL \notin Trusted'
  BY ConstantsAre DEF Trusted, Live
<1> QED BY <1>1, TrustKept

(* On the storage the links of a file to be kept are those of the mapping.        *)
LEMMA TrustedImage ==
  ASSUME DiskInv, TrustInv
  PROVE  ~overwriting => \A s \in Trusted, p \in Copies : \A c \in Clusters(cache, s) :
           c \in FatIndexes /\ image[p][c] = cache[p][c]
BY TrustedChain, IndexesAre

LEMMA WriteBackStep ==
  ASSUME IInv, NEW p \in Pages, WriteBack(p)
  PROVE  IInv'
<1>1. image' = [image EXCEPT ![p] = cache[p]] /\ UNCHANGED <<cache, data, run, history>> /\ image # cache
  BY DEF WriteBack
<1>2. /\ image = [q \in Pages |-> image[q]] /\ image' = [q \in Pages |-> image'[q]]
      /\ \A q \in Pages : image'[q] = IF q = p THEN cache[p] ELSE image[q]
  BY <1>1 DEF IInv, DiskInv, DiskOK
<1>3. DIR \in Pages /\ \A q \in Copies : q \in Pages
  BY DEF Pages
<1>4. DiskOK(image')
  <2>1. image'[DIR] = cache[DIR] \/ image'[DIR] = image[DIR]
    BY <1>2, <1>3
  <2>2. \A q \in Copies : image'[q] \in {cache[q], image[q]}
    BY <1>2, <1>3
  <2>3. DiskOK(cache) /\ DiskOK(image)
    BY DEF IInv, DiskInv
  <2> QED BY <1>2, <2>1, <2>2, <2>3 DEF DiskOK
<1>5. DiskInv'
  BY <1>1, <1>4 DEF IInv, DiskInv, history
<1>6. pc # "done"
  BY <1>1 DEF IInv, SyncInv
<1>7. SyncInv'
  <2>1. image'[DIR] = cache[DIR] \/ image'[DIR] = image[DIR]
    BY <1>2, <1>3
  <2> QED BY <1>1, <1>6, <2>1 DEF IInv, SyncInv, Dir, run, history
<1>8. Trusted' = Trusted /\ Live(cache') = Live(cache)
  BY <1>1 DEF Trusted, Live, run, history
<1>9. TrustInv'
  <2>1. DiskInv /\ TrustInv /\ overwriting' = overwriting
    BY <1>1 DEF IInv, history
  <2>2. ~overwriting => \A s \in Trusted, q \in Copies : \A c \in Clusters(cache, s) :
          image'[q][c] = cache[q][c]
    BY <1>2, <1>3, <2>1, TrustedImage
  <2> QED BY <1>1, <1>5, <1>8, <2>1, <2>2, OthersKept
<1>10. ProgressInv' /\ StoresInv'
  BY <1>1 DEF IInv, ProgressInv, StoresInv, Named, Started, LinkStored, run
<1>11. ClustersInv'
  BY <1>1, <1>8 DEF IInv, ClustersInv, run, history
<1> QED BY <1>5, <1>7, <1>9, <1>10, <1>11 DEF IInv

(* The clusters that follow the start cluster.                                    *)
LEMMA ContiguousIs ==
  ASSUME NoWrap, DiskInv, NEW s \in Slots
  PROVE  /\ Contiguous(s) \in [1..ClustersOf(Dir(cache)[s].size) -> FatIndexes]
         /\ IsInjective(Contiguous(s))
         /\ ClustersOf(Dir(cache)[s].size) > 0 => Contiguous(s)[1] = Dir(cache)[s].start
<1> DEFINE e == Dir(cache)[s]
           n == ClustersOf(e.size)
<1>1. /\ e.size \in Sizes /\ EntryOK(e)
      /\ n \in Nat /\ n <= ClustersOf(MaxSize) /\ file_cluster_counter(e.size) = n
  BY EntryTypes, CountIs
<1>2. n > 0 => e.start \in Nat /\ 2 <= e.start /\ e.start <= LastCluster
  BY <1>1, ConstantsAre DEF EntryOK, DataClusters
<1>3. ClustersOf(MaxSize) \in Nat
  BY CountIs, ConstantsAre DEF Sizes
<1>4. Contiguous(s) = [k \in 1..n |-> e.start + k - 1]
  BY <1>1 DEF Contiguous
<1> HIDE DEF n, e
<1>5. \A k \in 1..n : e.start + k - 1 \in FatIndexes
  BY <1>1, <1>2, <1>3, ConstantsAre DEF FatIndexes
<1>6. Contiguous(s) \in [1..n -> FatIndexes] /\ (n > 0 => Contiguous(s)[1] = e.start)
  BY <1>1, <1>2, <1>4, <1>5
<1>7. IsInjective(Contiguous(s))
  BY <1>1, <1>2, <1>4 DEF IsInjective
<1> QED BY <1>6, <1>7 DEF e, n

(* A run begins, for an entry of a deleted file and clusters it may have.         *)
LEMMA RunStep ==
  ASSUME IInv, NEW opt \in {"r", "R"}, NEW name \in Names, NEW sha1, NEW s \in Slots, NEW cs,
         Run(opt, name, sha1, s, cs), is_recoverable(Dir(cache)[s], name),
         overwriting' \in BOOLEAN, ~overwriting' => ~overwriting,
         cs \in [1..ClustersOf(Dir(cache)[s].size) -> FatIndexes], IsInjective(cs),
         opt = "r" /\ ClustersOf(Dir(cache)[s].size) > 0 => cs[1] = Dir(cache)[s].start,
         opt = "R" \/ sha1 # NULL \/ ~overwriting' => Range(cs) \subseteq DataClusters,
         ~overwriting' => Range(cs) \subseteq Unlinked(cache),
         sha1 # NULL => FileContent(data, cs, Dir(cache)[s].size) = sha1
  PROVE  IInv'
<1>1. /\ pc = "idle" /\ pc' = Following(opt)[pc]
      /\ cmd' = [opt |-> opt, name |-> name, sha1 |-> sha1] /\ slot' = s /\ clusters' = cs
      /\ UNCHANGED <<cache, image, data, copy, j, interrupted>>
  BY DEF Run
<1>2. pc' = (IF opt = "R" THEN "fat" ELSE "name")
  BY <1>1 DEF Following
<1>3. slot = NULL /\ copy = 1 /\ j = 1
  BY <1>1 DEF IInv, ProgressInv
<1>4. /\ Dir(cache)[s].state = "deleted" /\ Dir(cache)[s].name.rest = name.rest
  BY DEF is_recoverable
<1>5. Trusted' = Trusted
  BY <1>1, <1>3, <1>4, ConstantsAre DEF Trusted, Live
<1>6. DiskInv' /\ SyncInv'
  <2>1. DiskInv'
    BY <1>1 DEF IInv, DiskInv
  <2>2. pc' # "done"
    BY <1>2
  <2> QED BY <1>1, <1>3, <2>1, <2>2, ConstantsAre DEF IInv, SyncInv
<1>7. TrustInv'
  BY <1>1, <1>5 DEF IInv, TrustInv
<1>8. Len(cs) = ClustersOf(Dir(cache)[s].size) /\ ClustersOf(Dir(cache)[s].size) \in Nat
  BY EntryTypes, CountIs DEF IInv
<1>9. ProgressInv'
  BY <1>1, <1>2, <1>3, <1>8, DiskAssumption DEF ProgressInv, IsName
<1>10. ~overwriting' => \A t \in Trusted : Range(cs) \intersect Clusters(cache, t) = {}
  <2>1. ~overwriting => \A t \in Trusted : \A c \in Clusters(cache, t) : c \notin Unlinked(cache)
    BY TrustedChain, ConstantsAre DEF IInv, Unlinked
  <2> QED BY <2>1
<1>11. ClustersInv'
  BY <1>1, <1>5, <1>10 DEF ClustersInv
<1>12. StoresInv'
  BY <1>1, <1>2, <1>3, <1>4, <1>8 DEF StoresInv, Named, Started, LinkStored, Copies
<1> QED BY <1>6, <1>7, <1>9, <1>11, <1>12 DEF IInv

LEMMA RecoverOnlyStep ==
  ASSUME NoWrap, IInv, NEW name \in Names, RecoverOnly(name)
  PROVE  IInv'
<1>1. PICK s \in Slots : /\ get_recoverable_files(name) = {s}
                         /\ Run("r", name, NULL, s, Contiguous(s))
                         /\ overwriting' = (overwriting \/ Overwrites(s))
  BY DEF RecoverOnly
<1>2. is_recoverable(Dir(cache)[s], name)
  BY <1>1 DEF get_recoverable_files
<1>3. overwriting \in BOOLEAN
  BY DEF IInv, DiskInv
<1>4. ~overwriting' => Range(Contiguous(s)) \subseteq Unlinked(cache) /\ ~overwriting
  BY <1>1 DEF Overwrites
<1>5. overwriting' \in BOOLEAN
  BY <1>1, <1>3
<1>6. ~overwriting' => Range(Contiguous(s)) \subseteq DataClusters
  BY <1>4 DEF Unlinked
<1>7. /\ Contiguous(s) \in [1..ClustersOf(Dir(cache)[s].size) -> FatIndexes]
      /\ IsInjective(Contiguous(s))
      /\ ClustersOf(Dir(cache)[s].size) > 0 => Contiguous(s)[1] = Dir(cache)[s].start
  BY ContiguousIs DEF IInv
<1> QED BY <1>1, <1>2, <1>4, <1>5, <1>6, <1>7, RunStep

LEMMA RecoverMatchingStep ==
  ASSUME NoWrap, IInv, NEW name \in Names, NEW sha1, RecoverMatching(name, sha1)
  PROVE  IInv'
<1>1. PICK s \in Slots : /\ IsFirst(s, matching(get_recoverable_files(name), sha1))
                         /\ Run("r", name, sha1, s, Contiguous(s))
                         /\ overwriting' = (overwriting \/ Overwrites(s))
  BY DEF RecoverMatching
<1>2. is_recoverable(Dir(cache)[s], name) /\ HasSha1(s, sha1)
  BY <1>1 DEF IsFirst, matching, get_recoverable_files
<1>3. overwriting \in BOOLEAN
  BY DEF IInv, DiskInv
<1>4. ~overwriting' => Range(Contiguous(s)) \subseteq Unlinked(cache) /\ ~overwriting
  BY <1>1 DEF Overwrites
<1>5. overwriting' \in BOOLEAN
  BY <1>1, <1>3
<1>6. /\ Range(Contiguous(s)) \subseteq DataClusters
      /\ FileContent(data, Contiguous(s), Dir(cache)[s].size) = sha1
  BY <1>2 DEF HasSha1
<1>7. /\ Contiguous(s) \in [1..ClustersOf(Dir(cache)[s].size) -> FatIndexes]
      /\ IsInjective(Contiguous(s))
      /\ ClustersOf(Dir(cache)[s].size) > 0 => Contiguous(s)[1] = Dir(cache)[s].start
  BY ContiguousIs DEF IInv
<1> QED BY <1>1, <1>2, <1>4, <1>5, <1>6, <1>7, RunStep

LEMMA RecoverArrangedStep ==
  ASSUME NoWrap, IInv, NEW name \in Names, NEW sha1, RecoverArranged(name, sha1)
  PROVE  IInv'
<1> DEFINE found(s) == Arrangements(data, Unallocated, Dir(cache)[s].size, sha1)
<1>1. PICK s \in Slots : /\ IsFirst(s, {t \in get_recoverable_files(name) : found(t) # {}})
                         /\ \E cs \in found(s) : Run("R", name, sha1, s, cs)
                         /\ overwriting' = overwriting
  BY DEF RecoverArranged
<1>2. PICK cs \in found(s) : Run("R", name, sha1, s, cs)
  BY <1>1
<1>3. is_recoverable(Dir(cache)[s], name)
  BY <1>1 DEF IsFirst, get_recoverable_files
<1>4. file_cluster_counter(Dir(cache)[s].size) = ClustersOf(Dir(cache)[s].size)
  BY EntryTypes, CountIs DEF IInv
<1>5. /\ cs \in [1..ClustersOf(Dir(cache)[s].size) -> Unlinked(cache)] /\ IsInjective(cs)
      /\ FileContent(data, cs, Dir(cache)[s].size) = sha1
  BY <1>4 DEF Arrangements, Unallocated
<1>6. Unlinked(cache) \subseteq DataClusters /\ Unlinked(cache) \subseteq FatIndexes
  BY IndexesAre DEF Unlinked
<1>7. Range(cs) \subseteq Unlinked(cache) /\ Range(cs) \subseteq DataClusters
  BY <1>5, <1>6 DEF Range
<1>8. cs \in [1..ClustersOf(Dir(cache)[s].size) -> FatIndexes]
  BY <1>5, <1>6
<1>9. overwriting' \in BOOLEAN /\ (~overwriting' => ~overwriting)
  BY <1>1 DEF IInv, DiskInv
<1> HIDE DEF found
<1> QED BY <1>2, <1>3, <1>5, <1>7, <1>8, <1>9, RunStep

(* A store in one element of one page.                                            *)
LEMMA PageStore ==
  ASSUME NEW P, NEW d, d = [p \in P |-> d[p]], NEW p \in P, NEW S, d[p] = [s \in S |-> d[p][s]],
         NEW s \in S, NEW e, NEW f, f = [d EXCEPT ![p] = [d[p] EXCEPT ![s] = e]]
  PROVE  /\ f = [q \in P |-> f[q]] /\ \A q \in P \ {p} : f[q] = d[q]
         /\ f[p] = [t \in S |-> f[p][t]]
         /\ f[p][s] = e /\ \A t \in S \ {s} : f[p][t] = d[p][t]
<1>1. f = [q \in P |-> IF q = p THEN [d[p] EXCEPT ![s] = e] ELSE d[q]]
  OBVIOUS
<1>2. [d[p] EXCEPT ![s] = e] = [t \in S |-> IF t = s THEN e ELSE d[p][t]]
  OBVIOUS
<1> QED BY <1>1, <1>2

LEMMA FollowingIs ==
  /\ \A opt \in {"r", "R"} : Following(opt)["name"] = IF opt = "R" THEN "msync" ELSE "fat"
  /\ \A opt \in {"r", "R"} : Following(opt)["fat"] = IF opt = "R" THEN "start" ELSE "msync"
  /\ Following("R")["start"] = "name"
BY DEF Following

(* A store in the entry that is being recovered disturbs no other file.           *)
LEMMA EntryStore ==
  ASSUME IInv, pc # "idle", pc' # "done", NEW e, EntryOK(e), e.size = Dir(cache)[slot].size,
         cache' = [cache EXCEPT ![DIR] = [cache[DIR] EXCEPT ![slot] = e]],
         UNCHANGED <<image, data, slot, clusters, cmd, interrupted, overwriting>>
  PROVE  /\ DiskInv' /\ SyncInv' /\ TrustInv' /\ (pc' # "idle" => ClustersInv')
         /\ Dir(cache')[slot] = e /\ \A p \in Copies : cache'[p] = cache[p]
<1>1. /\ cache = [p \in Pages |-> cache[p]] /\ cache[DIR] = [s \in Slots |-> cache[DIR][s]]
      /\ DIR \in Pages /\ slot \in Slots
  BY DEF IInv, DiskInv, DiskOK, ProgressInv, Pages
<1>2. /\ cache' = [p \in Pages |-> cache'[p]] /\ \A p \in Copies : cache'[p] = cache[p]
      /\ cache'[DIR] = [s \in Slots |-> cache'[DIR][s]]
      /\ cache'[DIR][slot] = e /\ \A s \in Slots \ {slot} : cache'[DIR][s] = cache[DIR][s]
  <2>1. /\ cache' = [p \in Pages |-> cache'[p]] /\ \A p \in Pages \ {DIR} : cache'[p] = cache[p]
        /\ cache'[DIR] = [s \in Slots |-> cache'[DIR][s]]
        /\ cache'[DIR][slot] = e /\ \A s \in Slots \ {slot} : cache'[DIR][s] = cache[DIR][s]
    BY <1>1, PageStore
  <2>2. Copies \subseteq Pages \ {DIR}
    BY ConstantsAre DEF Pages
  <2> QED BY <2>1, <2>2
<1>3. DiskInv'
  <2>1. DiskOK(cache')
    BY <1>2 DEF IInv, DiskInv, DiskOK
  <2> QED BY <2>1 DEF IInv, DiskInv
<1>4. SyncInv'
  BY <1>2 DEF IInv, SyncInv, Dir
<1>5. \A s \in Slots \ {slot} : Dir(cache')[s] = Dir(cache)[s]
  BY <1>2 DEF Dir
<1>6. Trusted' = Trusted
  <2>1. \A s : s \in Trusted' <=> s \in Trusted
    BY <1>5 DEF Trusted, Live
  <2> QED BY <2>1
<1>7. TrustInv' /\ (~overwriting => \A s \in Trusted' : Clusters(cache', s) = Clusters(cache, s))
  <2>1. DiskInv /\ TrustInv
    BY DEF IInv
  <2>2. \A s \in Trusted : Dir(cache')[s] = Dir(cache)[s]
    BY <1>5 DEF Trusted, Live
  <2>3. ~overwriting => \A s \in Trusted, p \in Copies : \A c \in Clusters(cache, s) :
          cache'[p][c] = cache[p][c] /\ image'[p][c] = cache[p][c]
    BY <1>2, <2>1, TrustedImage
  <2> QED BY <1>3, <1>6, <2>1, <2>2, <2>3, OthersKept
<1>8. Dir(cache')[slot] = e
  BY <1>1, <1>2 DEF Dir
<1>9. ClustersInv'
  BY <1>6, <1>7, <1>8, ClustersKept DEF IInv
<1> QED BY <1>2, <1>3, <1>4, <1>7, <1>8, <1>9

(* What the stores made so far have left of the entry.                            *)
LEMMA RunFacts ==
  ASSUME IInv, pc # "idle"
  PROVE  /\ slot \in Slots /\ cmd.opt \in {"r", "R"} /\ IsName(cmd.name)
         /\ EntryOK(Dir(cache)[slot]) /\ Dir(cache)[slot].size \in Sizes
         /\ ClustersOf(Dir(cache)[slot].size) \in Nat
         /\ Len(clusters) = ClustersOf(Dir(cache)[slot].size)
         /\ Dir(cache)[slot].state # "unused" /\ IsName(Dir(cache)[slot].name)
<1>1. slot \in Slots /\ cmd.opt \in {"r", "R"} /\ IsName(cmd.name)
  BY DEF IInv, ProgressInv
<1>2. EntryOK(Dir(cache)[slot]) /\ Dir(cache)[slot].size \in Sizes
  BY <1>1, EntryTypes DEF IInv
<1>3. ClustersOf(Dir(cache)[slot].size) \in Nat
  BY <1>2, CountIs
<1>4. clusters \in [1..ClustersOf(Dir(cache)[slot].size) -> FatIndexes]
  BY DEF IInv, ClustersInv
<1>5. Dir(cache)[slot].state # "unused"
  BY DEF IInv, StoresInv
<1>6. IsName(Dir(cache)[slot].name)
  BY <1>2, <1>5 DEF EntryOK
<1> QED BY <1>1, <1>2, <1>3, <1>4, <1>5, <1>6

LEMMA NameStoreStep == IInv /\ NameStore => IInv'
<1> SUFFICES ASSUME IInv, NameStore PROVE IInv'
  OBVIOUS
<1> DEFINE o == Dir(cache)[slot]
           e == [state |-> "live", name |-> [first |-> cmd.name.first, rest |-> o.name.rest],
                 start |-> o.start, size |-> o.size]
<1>1. /\ pc = "name" /\ pc' = Following(cmd.opt)[pc]
      /\ cache' = [cache EXCEPT ![DIR][slot] =
                    [@ EXCEPT !.state = "live", !.name.first = cmd.name.first]]
      /\ UNCHANGED <<image, data, cmd, slot, clusters, copy, j, interrupted, overwriting>>
  BY DEF NameStore, Stored, history
<1>2. /\ slot \in Slots /\ cmd.opt \in {"r", "R"} /\ IsName(cmd.name) /\ EntryOK(o) /\ IsName(o.name)
      /\ ClustersOf(o.size) \in Nat /\ Len(clusters) = ClustersOf(o.size)
  BY <1>1, RunFacts
<1>3. pc' = IF cmd.opt = "R" THEN "msync" ELSE "fat"
  BY <1>1, <1>2, FollowingIs
<1>4. /\ o.name.rest = cmd.name.rest /\ copy = 1 /\ j = 1
      /\ cmd.name = [first |-> cmd.name.first, rest |-> cmd.name.rest]
  BY <1>1, <1>2 DEF IInv, StoresInv, ProgressInv, IsName
<1>5. cache' = [cache EXCEPT ![DIR] = [cache[DIR] EXCEPT ![slot] = e]]
  <2>1. /\ cache = [p \in Pages |-> cache[p]] /\ cache[DIR] = [s \in Slots |-> cache[DIR][s]]
        /\ DIR \in Pages
    BY DEF IInv, DiskInv, DiskOK, Pages
  <2>2. o = [state |-> o.state, name |-> o.name, start |-> o.start, size |-> o.size]
    BY <1>2 DEF EntryOK
  <2> HIDE DEF o
  <2>3. PICK st, nm, sa, sz : o = [state |-> st, name |-> nm, start |-> sa, size |-> sz] /\ IsName(nm)
    BY <1>2, <2>2
  <2>7. [o EXCEPT !.state = "live", !.name.first = cmd.name.first]
          = [state |-> "live", name |-> [first |-> cmd.name.first, rest |-> nm.rest], start |-> sa, size |-> sz]
    <3> DEFINE u == [state |-> "live", name |-> nm, start |-> sa, size |-> sz]
    <3>1. [nm EXCEPT !.first = cmd.name.first] = [first |-> cmd.name.first, rest |-> nm.rest]
      BY <2>3 DEF IsName
    <3>2. [o EXCEPT !.state = "live"] = u /\ u.name = nm
      BY <2>3
    <3>3. [u EXCEPT !.name = [u.name EXCEPT !.first = cmd.name.first]]
            = [state |-> "live", name |-> [nm EXCEPT !.first = cmd.name.first], start |-> sa, size |-> sz]
      BY <3>2
    <3>4. [o EXCEPT !.state = "live", !.name.first = cmd.name.first] = [u EXCEPT !.name.first = cmd.name.first]
      BY <3>2
    <3>5. [u EXCEPT !.name.first = cmd.name.first] = [u EXCEPT !.name = [u.name EXCEPT !.first = cmd.name.first]]
      OBVIOUS
    <3> QED BY <3>1, <3>3, <3>4, <3>5
  <2>4. [o EXCEPT !.state = "live", !.name.first = cmd.name.first] = e
    BY <2>3, <2>7
  <2> HIDE DEF e
  <2>5. [cache[DIR][slot] EXCEPT !.state = "live", !.name.first = cmd.name.first] = e
    BY <2>4 DEF o, Dir
  <2>6. cache' = [cache EXCEPT ![DIR] = [cache[DIR] EXCEPT ![slot] =
                    [cache[DIR][slot] EXCEPT !.state = "live", !.name.first = cmd.name.first]]]
    BY <1>1, <1>2, <2>1
  <2> QED BY <2>5, <2>6
<1>6. EntryOK(e) /\ e.size = o.size
  BY <1>2 DEF EntryOK, IsName
<1> HIDE DEF e
<1>7. /\ DiskInv' /\ SyncInv' /\ TrustInv' /\ ClustersInv'
      /\ Dir(cache')[slot] = e /\ \A p \in Copies : cache'[p] = cache[p]
  <2>1. pc' # "done" /\ pc' # "idle"
    BY <1>2, <1>3
  <2> QED BY <1>1, <1>5, <1>6, <2>1, EntryStore
<1>8. ProgressInv'
  BY <1>1, <1>2, <1>3, <1>4 DEF ProgressInv
<1>9. /\ e.state = "live" /\ e.name = cmd.name /\ e.name.rest = cmd.name.rest /\ e.start = o.start
  BY <1>4 DEF e
<1>10. StoresInv'
  <2>1. pc = "name" => (\A p \in Copies, k \in 1..ClustersOf(o.size) :
          LinkStored(p, k) => cache[p][clusters[k]] = Link(clusters, k))
    BY DEF IInv, StoresInv
  <2>2. \A p \in Copies, k \in 1..ClustersOf(o.size) : LinkStored(p, k)' => LinkStored(p, k)
    BY <1>1, <1>2, <1>3, <1>4 DEF LinkStored, Copies
  <2>3. ClustersOf(o.size) > 0 => o.start = clusters[1]
    BY <1>1 DEF IInv, StoresInv, Started
  <2>4. Named' /\ slot' = slot /\ clusters' = clusters /\ cmd' = cmd
    BY <1>1, <1>2, <1>3 DEF Named
  <2>5. \A p \in Copies, k \in 1..ClustersOf(o.size) :
          LinkStored(p, k)' => cache'[p][clusters[k]] = Link(clusters, k)
    BY <1>1, <1>7, <2>1, <2>2
  <2> HIDE DEF o
  <2>6. Dir(cache')[slot'].size = o.size
    BY <1>6, <1>7, <2>4
  <2> QED BY <1>7, <1>9, <2>3, <2>4, <2>5, <2>6 DEF StoresInv
<1> QED BY <1>7, <1>8, <1>10 DEF IInv

LEMMA StartStoreStep == IInv /\ StartStore => IInv'
<1> SUFFICES ASSUME IInv, StartStore PROVE IInv'
  OBVIOUS
<1> DEFINE o == Dir(cache)[slot]
           start == IF Len(clusters) = 0 THEN o.start ELSE clusters[1]
           e == [state |-> o.state, name |-> o.name, start |-> start, size |-> o.size]
<1>1. /\ pc = "start" /\ pc' = Following(cmd.opt)[pc]
      /\ cache' = [cache EXCEPT ![DIR][slot].start = IF Len(clusters) = 0 THEN @ ELSE clusters[1]]
      /\ UNCHANGED <<image, data, cmd, slot, clusters, copy, j, interrupted, overwriting>>
  BY DEF StartStore, Stored, history
<1>2. /\ slot \in Slots /\ EntryOK(o) /\ o.size \in Sizes
      /\ ClustersOf(o.size) \in Nat /\ Len(clusters) = ClustersOf(o.size)
  BY <1>1, RunFacts
<1>3. cmd.opt = "R" /\ copy = 1 /\ j = 1 /\ pc' = "name"
  BY <1>1, FollowingIs DEF IInv, ProgressInv
<1>4. cache' = [cache EXCEPT ![DIR] = [cache[DIR] EXCEPT ![slot] = e]]
  <2>1. /\ cache = [p \in Pages |-> cache[p]] /\ cache[DIR] = [s \in Slots |-> cache[DIR][s]]
        /\ DIR \in Pages
    BY DEF IInv, DiskInv, DiskOK, Pages
  <2>2. o = [state |-> o.state, name |-> o.name, start |-> o.start, size |-> o.size]
    BY <1>2 DEF EntryOK
  <2>3. cache' = [cache EXCEPT ![DIR] = [cache[DIR] EXCEPT ![slot] = [o EXCEPT !.start = start]]]
    BY <1>1, <1>2, <2>1 DEF Dir
  <2>4. [o EXCEPT !.start = start] = e
    <3> HIDE DEF o, start
    <3>1. PICK st, nm, sa, sz : o = [state |-> st, name |-> nm, start |-> sa, size |-> sz]
      BY <2>2
    <3> QED BY <3>1
  <2> HIDE DEF e, start, o
  <2> QED BY <2>3, <2>4
<1>5. EntryOK(e) /\ e.size = o.size
  <2>1. ClustersOf(o.size) > 0 => start \in DataClusters
    <3>1. clusters \in [1..ClustersOf(o.size) -> FatIndexes] /\ Range(clusters) \subseteq DataClusters
      BY <1>1, <1>3 DEF IInv, ClustersInv
    <3> HIDE DEF o
    <3>2. ClustersOf(o.size) > 0 => clusters[1] \in DataClusters /\ start = clusters[1]
      BY <1>2, <3>1 DEF Range, start
    <3> QED BY <3>2
  <2> HIDE DEF start
  <2> QED BY <1>2, <2>1 DEF EntryOK
<1> HIDE DEF e
<1>6. /\ DiskInv' /\ SyncInv' /\ TrustInv' /\ ClustersInv'
      /\ Dir(cache')[slot] = e /\ \A p \in Copies : cache'[p] = cache[p]
  <2>1. pc' # "done" /\ pc' # "idle"
    BY <1>3
  <2> QED BY <1>1, <1>4, <1>5, <2>1, EntryStore
<1>7. ProgressInv'
  BY <1>1, <1>3, RunFacts DEF ProgressInv
<1>8. StoresInv'
  <2>1. /\ o.state = "deleted" /\ o.name.rest = cmd.name.rest
        /\ \A p \in Copies, k \in 1..ClustersOf(o.size) : cache[p][clusters[k]] = Link(clusters, k)
    BY <1>1, <1>3 DEF IInv, StoresInv, Named, LinkStored
  <2>2. e.state = "deleted" /\ e.name.rest = cmd.name.rest /\ (ClustersOf(o.size) > 0 => e.start = clusters[1])
    BY <1>2, <2>1 DEF e
  <2>3. ~Named'
    BY <1>3 DEF Named
  <2> HIDE DEF o
  <2>4. Dir(cache')[slot'] = e /\ e.size = o.size /\ clusters' = clusters /\ cmd' = cmd
    BY <1>1, <1>5, <1>6
  <2>5. \A p \in Copies, k \in 1..ClustersOf(o.size) : cache'[p][clusters[k]] = Link(clusters, k)
    BY <1>6, <2>1
  <2> QED BY <2>2, <2>3, <2>4, <2>5 DEF StoresInv
<1> QED BY <1>6, <1>7, <1>8 DEF IInv

(* The next link.                                                                 *)
LEMMA LinkStoreStep == IInv /\ LinkStore => IInv'
<1> SUFFICES ASSUME IInv, LinkStore PROVE IInv'
  OBVIOUS
<1> DEFINE n == ClustersOf(Dir(cache)[slot].size)
           c == clusters[j]
<1>1. /\ pc = "fat" /\ copy <= NumFATs /\ Len(clusters) # 0
      /\ cache' = [cache EXCEPT ![copy][c] = Link(clusters, j)]
      /\ IF j < Len(clusters) THEN j' = j + 1 /\ copy' = copy ELSE j' = 1 /\ copy' = copy + 1
      /\ UNCHANGED <<image, data, pc, cmd, slot, clusters, interrupted, overwriting>>
  <2>1. copy \in Nat /\ NumFATs \in Nat /\ (~(copy > NumFATs) => copy <= NumFATs)
    BY ConstantsAre DEF IInv, ProgressInv, LinkStore
  <2> QED BY <2>1 DEF LinkStore, FatsUpdated, history
<1>2. /\ slot \in Slots /\ n \in Nat /\ Len(clusters) = n
  BY <1>1, RunFacts
<1>3. copy \in Nat \ {0} /\ j \in 1..n
  BY <1>1, <1>2 DEF IInv, ProgressInv
<1>4. copy \in Copies /\ copy \in Pages /\ copy # DIR
  BY <1>1, <1>3, ConstantsAre DEF Copies, Pages, DIR
<1>5. clusters \in [1..n -> FatIndexes] /\ IsInjective(clusters)
  BY <1>1 DEF IInv, ClustersInv
<1> HIDE DEF n
<1>6. c \in FatIndexes /\ Link(clusters, j) \in Int
  <2>1. j # n => clusters[j + 1] \in FatIndexes
    BY <1>2, <1>3, <1>5
  <2>2. c \in FatIndexes
    BY <1>3, <1>5
  <2> HIDE DEF c
  <2>3. FatIndexes \subseteq Int
    BY IndexesAre
  <2>4. Link(clusters, j) = IF j = n THEN -1 ELSE clusters[j + 1]
    BY <1>2 DEF Link, EOF
  <2>5. j # n => clusters[j + 1] \in Int
    BY <2>1, <2>3
  <2> QED BY <2>2, <2>4, <2>5
<1> HIDE DEF c
<1>7. /\ cache' = [p \in Pages |-> cache'[p]] /\ \A p \in Pages \ {copy} : cache'[p] = cache[p]
      /\ cache'[copy] = [d \in FatIndexes |-> cache'[copy][d]]
      /\ cache'[copy][c] = Link(clusters, j) /\ \A d \in FatIndexes \ {c} : cache'[copy][d] = cache[copy][d]
  <2>1. cache = [p \in Pages |-> cache[p]] /\ cache[copy] \in [FatIndexes -> Int]
    BY <1>4 DEF IInv, DiskInv, DiskOK
  <2>2. cache[copy] = [d \in FatIndexes |-> cache[copy][d]]
    BY <2>1
  <2>3. cache' = [cache EXCEPT ![copy] = [cache[copy] EXCEPT ![c] = Link(clusters, j)]]
    BY <1>1, <1>4, <2>1
  <2> QED BY <1>4, <1>6, <2>1, <2>2, <2>3, PageStore
<1>8. Dir(cache') = Dir(cache)
  BY <1>4, <1>7 DEF Dir, Pages
<1>9. \A p \in Copies : cache'[p] \in [FatIndexes -> Int]
  <2> SUFFICES ASSUME NEW p \in Copies PROVE cache'[p] \in [FatIndexes -> Int]
    OBVIOUS
  <2>1. cache[p] \in [FatIndexes -> Int] /\ p \in Pages
    BY DEF IInv, DiskInv, DiskOK, Pages
  <2>2. CASE p = copy
    <3>1. \A d \in FatIndexes : cache'[p][d] \in Int
      BY <1>6, <1>7, <2>1, <2>2
    <3> QED BY <1>7, <2>2, <3>1
  <2>3. CASE p # copy
    BY <1>7, <2>1, <2>3
  <2> QED BY <2>2, <2>3
<1>10. DiskInv'
  <2>1. DiskOK(cache')
    BY <1>7, <1>8, <1>9 DEF IInv, DiskInv, DiskOK, Dir
  <2> QED BY <1>1, <2>1 DEF IInv, DiskInv
<1>11. SyncInv' /\ Trusted' = Trusted
  BY <1>1, <1>8 DEF IInv, SyncInv, Trusted, Live
<1>12. TrustInv' /\ (~overwriting => \A s \in Trusted' : Clusters(cache', s) = Clusters(cache, s))
  <2>1. ~overwriting => \A s \in Trusted : c \notin Clusters(cache, s)
    BY <1>1, <1>3, <1>5 DEF IInv, ClustersInv, Range, c
  <2>2. ~overwriting => \A s \in Trusted, p \in Copies : \A d \in Clusters(cache, s) :
          d \in FatIndexes /\ image[p][d] = cache[p][d]
    BY TrustedImage DEF IInv
  <2>3. ~overwriting => \A s \in Trusted, p \in Copies : \A d \in Clusters(cache, s) :
          cache'[p][d] = cache[p][d] /\ image'[p][d] = cache[p][d]
    BY <1>1, <1>7, <2>1, <2>2 DEF Pages
  <2>4. DiskInv /\ TrustInv
    BY DEF IInv
  <2> QED BY <1>1, <1>8, <1>10, <1>11, <2>3, <2>4, OthersKept
<1>13. ClustersInv'
  BY <1>1, <1>8, <1>11, <1>12, ClustersKept DEF IInv
<1>14. copy' \in Nat \ {0} /\ j' \in 1..n
  BY <1>1, <1>2, <1>3
<1>15. ProgressInv'
  BY <1>1, <1>2, <1>14, RunFacts DEF ProgressInv
<1>16. ASSUME NEW p \in Copies, NEW k \in 1..n, LinkStored(p, k)'
       PROVE  cache'[p][clusters[k]] = Link(clusters, k)
  <2>1. p < copy' \/ (p = copy' /\ k < j')
    BY <1>1, <1>16 DEF LinkStored
  <2>2. p < copy \/ (p = copy /\ k < j) \/ (p = copy /\ k = j)
    BY <1>1, <1>2, <1>3, <2>1 DEF Copies
  <2>3. CASE p = copy /\ k = j
    BY <1>7, <2>3 DEF c
  <2>4. CASE p < copy \/ (p = copy /\ k < j)
    <3>1. cache[p][clusters[k]] = Link(clusters, k)
      BY <1>1, <2>4 DEF IInv, StoresInv, LinkStored, n
    <3>2. clusters[k] \in FatIndexes /\ (clusters[k] = c => k = j)
      BY <1>3, <1>5 DEF IsInjective, c
    <3>3. p = copy => k # j
      BY <1>3, <2>4 DEF Copies
    <3> QED BY <1>7, <3>1, <3>2, <3>3 DEF Pages
  <2> QED BY <2>2, <2>3, <2>4
<1>17. StoresInv'
  <2>1. Named' = Named /\ Started' = Started
    BY <1>1 DEF Named, Started
  <2> QED BY <1>1, <1>8, <1>16, <2>1 DEF IInv, StoresInv, n
<1> QED BY <1>10, <1>11, <1>12, <1>13, <1>15, <1>17 DEF IInv

LEMMA FatsEndStep == IInv /\ FatsEnd => IInv'
<1> SUFFICES ASSUME IInv, FatsEnd PROVE IInv'
  OBVIOUS
<1> DEFINE n == ClustersOf(Dir(cache)[slot].size)
<1>1. /\ pc = "fat" /\ pc' = Following(cmd.opt)[pc] /\ FatsUpdated /\ copy' = 1 /\ j' = 1
      /\ UNCHANGED <<cache, image, data, cmd, slot, clusters, interrupted, overwriting>>
  BY DEF FatsEnd, history
<1>2. cmd.opt \in {"r", "R"} /\ n \in Nat /\ Len(clusters) = n /\ slot \in Slots
  BY <1>1, RunFacts
<1>3. pc' = IF cmd.opt = "R" THEN "start" ELSE "msync"
  BY <1>1, <1>2, FollowingIs
<1>4. DiskInv' /\ SyncInv' /\ TrustInv' /\ ClustersInv'
  <2>1. Trusted' = Trusted
    BY <1>1 DEF Trusted, Live
  <2>2. DiskInv' /\ TrustInv'
    BY <1>1, <2>1 DEF IInv, DiskInv, TrustInv
  <2>3. pc' # "done" /\ pc' # "idle" /\ pc # "idle"
    BY <1>1, <1>3
  <2>4. SyncInv'
    BY <1>1, <2>3 DEF IInv, SyncInv
  <2>5. ClustersInv'
    BY <1>1, <2>1, <2>3 DEF IInv, ClustersInv
  <2> QED BY <2>2, <2>4, <2>5
<1>5. ProgressInv'
  BY <1>1, <1>2, <1>3 DEF IInv, ProgressInv
<1>6. ASSUME NEW p \in Copies, NEW k \in 1..n PROVE LinkStored(p, k)
  <2>1. copy \in Nat /\ NumFATs \in Nat
    BY <1>1, ConstantsAre DEF IInv, ProgressInv
  <2>2. copy > NumFATs
    BY <1>1, <1>2 DEF FatsUpdated
  <2>3. p < copy
    BY <2>1, <2>2 DEF Copies
  <2> QED BY <1>1, <2>3 DEF LinkStored
<1>7. StoresInv'
  <2>1. \A p \in Copies, k \in 1..n : cache[p][clusters[k]] = Link(clusters, k)
    BY <1>1, <1>6 DEF IInv, StoresInv
  <2>2. Named' = Named
    BY <1>1, <1>3 DEF Named
  <2>3. Started' => Started
    BY <1>1, <1>3 DEF Started
  <2> HIDE DEF n
  <2>4. pc # "idle" /\ Dir(cache')[slot'] = Dir(cache)[slot] /\ clusters' = clusters /\ cmd' = cmd
    BY <1>1
  <2>5. \A p \in Copies, k \in 1..n : cache'[p][clusters'[k]] = Link(clusters', k)
    BY <1>1, <2>1
  <2> QED BY <2>2, <2>3, <2>4, <2>5 DEF IInv, StoresInv, n
<1> QED BY <1>4, <1>5, <1>7 DEF IInv

LEMMA MsyncStep == IInv /\ Msync => IInv'
<1> SUFFICES ASSUME IInv, Msync PROVE IInv'
  OBVIOUS
<1>1. /\ pc = "msync" /\ image' = cache /\ pc' = "done" /\ interrupted' = interrupted \ {slot}
      /\ UNCHANGED <<cache, data, cmd, slot, clusters, copy, j, overwriting>>
  BY DEF Msync, Synced
<1>2. Trusted' = Trusted
  BY <1>1 DEF Trusted, Live
<1>3. DiskInv' /\ SyncInv'
  BY <1>1 DEF IInv, DiskInv, SyncInv
<1>4. TrustInv'
  BY <1>1, <1>2 DEF IInv, TrustInv
<1>5. ProgressInv' /\ ClustersInv'
  BY <1>1, <1>2 DEF IInv, ProgressInv, ClustersInv
<1>6. StoresInv'
  BY <1>1 DEF IInv, StoresInv, Named, Started, LinkStored
<1> QED BY <1>3, <1>4, <1>5, <1>6 DEF IInv

(* The file of a run that has made all its stores.                                *)
LEMMA StoredFile ==
  ASSUME IInv, pc \in {"msync", "done"}, Range(clusters) \subseteq DataClusters
  PROVE  Linked(cache, Dir(cache)[slot], clusters)
<1> SUFFICES ASSUME NEW p \in Copies PROVE clusters \in Chains(cache[p], Dir(cache)[slot])
  BY DEF Linked
<1> DEFINE n == ClustersOf(Dir(cache)[slot].size)
<1>1. clusters \in [1..n -> FatIndexes] /\ IsInjective(clusters)
  BY DEF IInv, ClustersInv
<1>2. \A k \in 1..n : clusters[k] \in DataClusters
  BY <1>1 DEF Range
<1>3. clusters \in [1..n -> DataClusters]
  BY <1>1, <1>2
<1>4. /\ n > 0 => clusters[1] = Dir(cache)[slot].start
      /\ \A k \in 1..n : cache[p][clusters[k]] = Link(clusters, k)
  BY DEF IInv, StoresInv, Started, LinkStored
<1> QED BY <1>1, <1>3, <1>4 DEF Chains

LEMMA Ended ==
  ASSUME Finish
  PROVE  ProgressInv' /\ ClustersInv' /\ StoresInv'
BY DEF Finish, ProgressInv, ClustersInv, StoresInv

(* The file that has been recovered is from now on one to be kept.                *)
LEMMA ExitStep == IInv /\ Exit => IInv'
<1> SUFFICES ASSUME IInv, Exit PROVE IInv'
  OBVIOUS
<1>1. /\ pc = "done" /\ Finish /\ slot' = NULL /\ pc' = "idle"
      /\ UNCHANGED <<cache, image, data, interrupted, overwriting>>
  BY DEF Exit, Finish, history
<1>2. image = cache
  BY <1>1 DEF IInv, SyncInv
<1>3. DiskInv' /\ SyncInv'
  BY <1>1, <1>2 DEF IInv, DiskInv, SyncInv
<1>4. Trusted' \subseteq Trusted \union {slot}
  BY <1>1 DEF Trusted, Live
<1>5. ~overwriting =>
        /\ Linked(cache', Dir(cache')[slot], clusters) /\ Linked(image', Dir(cache')[slot], clusters)
        /\ \A t \in Trusted \ {slot} : Range(clusters) \intersect Clusters(cache, t) = {}
  <2>1. ~overwriting => /\ Range(clusters) \subseteq DataClusters
                       /\ \A t \in Trusted : Range(clusters) \intersect Clusters(cache, t) = {}
    BY <1>1 DEF IInv, ClustersInv
  <2> QED BY <1>1, <1>2, <2>1, StoredFile
<1>6. TrustInv'
  <2>1. DiskInv /\ TrustInv
    BY DEF IInv
  <2> QED BY <1>1, <1>2, <1>3, <1>4, <1>5, <2>1, TrustKept
<1> QED BY <1>1, <1>3, <1>6, Ended DEF IInv

LEMMA KillStep == IInv /\ Kill => IInv'
<1> SUFFICES ASSUME IInv, Kill PROVE IInv'
  OBVIOUS
<1>1. /\ pc # "idle" /\ Finish /\ slot' = NULL /\ pc' = "idle" /\ interrupted' = interrupted \union {slot}
      /\ UNCHANGED <<cache, image, data, overwriting>>
  BY DEF Kill, Finish
<1>2. slot \in Slots
  BY <1>1 DEF IInv, ProgressInv
<1>3. Trusted' = Trusted
  BY <1>1, ConstantsAre DEF Trusted, Live
<1>4. DiskInv' /\ SyncInv' /\ TrustInv'
  BY <1>1, <1>2, <1>3 DEF IInv, DiskInv, SyncInv, TrustInv
<1> QED BY <1>1, <1>4, Ended DEF IInv

(* After a power failure the files to be kept are those the storage has whole.    *)
LEMMA PowerFailureStep == IInv /\ PowerFailure => IInv'
<1> SUFFICES ASSUME IInv, PowerFailure PROVE IInv'
  OBVIOUS
<1>1. /\ cache' = image /\ Finish /\ slot' = NULL /\ pc' = "idle"
      /\ interrupted' = interrupted \union ({slot} \ {NULL})
      /\ UNCHANGED <<image, data, overwriting>>
  BY DEF PowerFailure, Finish
<1>2. slot = NULL \/ slot \in Slots
  BY DEF IInv, ProgressInv
<1>3. \A s \in Slots \ interrupted' : Dir(image)[s] = Dir(cache)[s]
  BY <1>1, <1>2, ConstantsAre DEF IInv, SyncInv
<1>4. Trusted' \subseteq Trusted /\ \A s \in Trusted' : Dir(cache')[s] = Dir(cache)[s]
  BY <1>1, <1>2, <1>3, ConstantsAre DEF Trusted, Live
<1>5. DiskInv' /\ SyncInv'
  BY <1>1, <1>2 DEF IInv, DiskInv, SyncInv
<1>6. TrustInv'
  <2>1. DiskInv /\ TrustInv
    BY DEF IInv
  <2>2. ~overwriting => \A s \in Trusted', p \in Copies : \A c \in Clusters(cache, s) :
          cache'[p][c] = cache[p][c] /\ image'[p][c] = cache[p][c]
    BY <1>1, <1>4, <2>1, TrustedImage
  <2> QED BY <1>1, <1>4, <1>5, <2>1, <2>2, OthersKept
<1> QED BY <1>1, <1>5, <1>6, Ended DEF IInv

--------------------------------------------------------------------------------
(* The theorems.                                                                  *)

LEMMA NextInv == ASSUME NoWrap PROVE IInv /\ [Next]_vars => IInv'
<1> SUFFICES ASSUME IInv, [Next]_vars PROVE IInv'
  OBVIOUS
<1>1. ASSUME NEW s \in Slots, NEW name \in Names, NEW size \in Sizes, Create(s, name, size) PROVE IInv'
  BY <1>1, CreateStep
<1>2. ASSUME NEW s \in Slots, Delete(s) PROVE IInv'
  BY <1>2, DeleteStep
<1>3. ASSUME NEW p \in Pages, WriteBack(p) PROVE IInv'
  BY <1>3, WriteBackStep
<1>4. ASSUME NEW name \in Names, RecoverOnly(name) PROVE IInv'
  BY <1>4, RecoverOnlyStep
<1>5. ASSUME NEW name \in Names, NEW sha1 \in Sha1s, RecoverMatching(name, sha1) PROVE IInv'
  BY <1>5, RecoverMatchingStep
<1>6. ASSUME NEW name \in Names, NEW sha1 \in Sha1s, RecoverArranged(name, sha1) PROVE IInv'
  BY <1>6, RecoverArrangedStep
<1>7. CASE NameStore
  BY <1>7, NameStoreStep
<1>8. CASE StartStore
  BY <1>8, StartStoreStep
<1>9. CASE LinkStore
  BY <1>9, LinkStoreStep
<1>10. CASE FatsEnd
  BY <1>10, FatsEndStep
<1>11. CASE Msync
  BY <1>11, MsyncStep
<1>12. CASE Exit
  BY <1>12, ExitStep
<1>13. CASE Kill
  BY <1>13, KillStep
<1>14. CASE PowerFailure
  BY <1>14, PowerFailureStep
<1>15. CASE UNCHANGED vars
  BY <1>15 DEF vars, run, history, bounds, IInv, DiskInv, SyncInv, TrustInv, Trusted, Live,
               ProgressInv, ClustersInv, StoresInv, Named, Started, LinkStored
<1> QED BY <1>1, <1>2, <1>3, <1>4, <1>5, <1>6, <1>7, <1>8, <1>9, <1>10, <1>11, <1>12, <1>13,
           <1>14, <1>15 DEF Next

(* The inductive invariant, for files whose size does not make                    *)
(* file_cluster_counter wrap.                                                     *)
THEOREM Invariance == NoWrap => (Spec => []IInv)
<1>1. Init => IInv
  BY InitInv
<1>2. NoWrap /\ IInv /\ [Next]_vars => IInv'
  BY NextInv
<1>3. NoWrap => (IInv /\ [Next]_vars => IInv')
  BY <1>2
<1> SUFFICES ASSUME NoWrap PROVE Spec => []IInv
  OBVIOUS
<1>4. IInv /\ [Next]_vars => IInv'
  BY <1>3
<1> QED BY <1>1, <1>4, PTL DEF Spec

(* Once "successfully recovered" is printed, the storage holds the file.          *)
THEOREM RecoveredIsIntactHolds == NoWrap => (Spec => []RecoveredIsIntact)
<1>1. IInv => RecoveredIsIntact
  <2> SUFFICES ASSUME IInv, pc = "done"
               PROVE  /\ slot \in Live(image) /\ Dir(image)[slot].name = cmd.name
                      /\ cmd.sha1 # NULL \/ ~overwriting => Complete(image, slot)
                      /\ cmd.sha1 # NULL => Content(image, slot) = cmd.sha1
    BY DEF RecoveredIsIntact
  <2>1. image = cache /\ slot \in Slots /\ Dir(cache)[slot].size \in Sizes
    BY RunFacts DEF IInv, SyncInv
  <2>2. Dir(cache)[slot].state = "live" /\ Dir(cache)[slot].name = cmd.name
    BY DEF IInv, StoresInv, Named
  <2>3. ASSUME cmd.sha1 # NULL \/ ~overwriting
        PROVE  ChainOf(cache, 1, slot) = clusters /\ Complete(cache, slot)
    <3>1. Range(clusters) \subseteq DataClusters
      BY <2>3 DEF IInv, ClustersInv
    <3>2. Linked(cache, Dir(cache)[slot], clusters)
      BY <3>1, StoredFile
    <3> QED BY <2>1, <3>2, LinkedIs, ConstantsAre
  <2>4. cmd.sha1 # NULL => FileContent(data, clusters, Dir(cache)[slot].size) = cmd.sha1
    BY DEF IInv, ClustersInv
  <2> QED BY <2>1, <2>2, <2>3, <2>4 DEF Live, Content
<1> SUFFICES ASSUME NoWrap PROVE Spec => []RecoveredIsIntact
  OBVIOUS
<1>2. Spec => []IInv
  BY Invariance
<1> QED BY <1>1, <1>2, PTL

(* No recovery damages another file.                                              *)
THEOREM NoCrossLinksHolds == NoWrap => (Spec => []NoCrossLinks)
<1>1. IInv => NoCrossLinks
  <2> SUFFICES ASSUME IInv, ~overwriting
               PROVE  /\ \A s \in Trusted :
                           /\ Complete(cache, s)
                           /\ \A p \in Copies : ChainOf(cache, p, s) = ChainOf(cache, 1, s)
                      /\ \A s, t \in Trusted :
                           s # t => Clusters(cache, s) \intersect Clusters(cache, t) = {}
    BY DEF NoCrossLinks
  <2>1. ASSUME NEW s \in Trusted
        PROVE  /\ Complete(cache, s)
               /\ \A p \in Copies : ChainOf(cache, p, s) = ChainOf(cache, 1, s)
    <3>1. Dir(cache)[s].size \in Sizes /\ Linked(cache, Dir(cache)[s], ChainOf(cache, 1, s))
      BY TrustedChain DEF IInv
    <3> QED BY <3>1, LinkedIs
  <2> QED BY <2>1 DEF IInv, TrustInv
<1> SUFFICES ASSUME NoWrap PROVE Spec => []NoCrossLinks
  OBVIOUS
<1>2. Spec => []IInv
  BY Invariance
<1> QED BY <1>1, <1>2, PTL

(* A recovery by -R that is killed leaves a deleted entry or the whole file.      *)
THEOREM KilledRLeavesNoHalfFileHolds == NoWrap => (Spec => []KilledRLeavesNoHalfFile)
<1>1. IInv => KilledRLeavesNoHalfFile
  <2> SUFFICES ASSUME IInv, cmd.opt = "R", slot \in Live(cache) PROVE Complete(cache, slot)
    BY DEF KilledRLeavesNoHalfFile
  <2>1. pc # "idle"
    BY ConstantsAre DEF IInv, ProgressInv, Live
  <2>2. Named
    BY <2>1 DEF IInv, StoresInv, Live
  <2>3. pc \in {"msync", "done"}
    BY <2>1, <2>2 DEF IInv, ProgressInv, Named
  <2>4. Range(clusters) \subseteq DataClusters
    BY <2>1 DEF IInv, ClustersInv
  <2>5. Linked(cache, Dir(cache)[slot], clusters) /\ Dir(cache)[slot].size \in Sizes
    BY <2>1, <2>3, <2>4, StoredFile, RunFacts
  <2> QED BY <2>5, LinkedIs
<1> SUFFICES ASSUME NoWrap PROVE Spec => []KilledRLeavesNoHalfFile
  OBVIOUS
<1>2. Spec => []IInv
  BY Invariance
<1> QED BY <1>1, <1>2, PTL

(* The entry and the links of a file, and what its clusters hold, before and      *)
(* after a step.                                                                  *)
Stays(s) ==
  /\ Dir(cache')[s] = Dir(cache)[s]
  /\ \A c \in Clusters(cache, s) :
       data'[c] = data[c] /\ \A p \in Copies : cache'[p][c] = cache[p][c]

(* A new file takes clusters that no file has.                                    *)
LEMMA StaysAtCreate ==
  ASSUME IInv, ~overwriting, NEW t \in Trusted,
         NEW s \in Slots, NEW name \in Names, NEW size \in Sizes, Create(s, name, size)
  PROVE  Stays(t)
<1> DEFINE n == ClustersOf(size)
           new(cs) == [state |-> "live", name |-> name, size |-> size,
                       start |-> IF size = 0 THEN 0 ELSE cs[1]]
<1>1. PICK cs \in [1..n -> Unlinked(cache)], bs \in [1..n -> Blocks] :
        /\ IsInjective(cs)
        /\ cache' = [p \in Pages |-> IF p = DIR THEN [Dir(cache) EXCEPT ![s] = new(cs)]
                                                ELSE Links(cache[p], cs)]
        /\ data' = [c \in DataClusters |->
             IF \E k \in DOMAIN cs : cs[k] = c
             THEN bs[CHOOSE k \in DOMAIN cs : cs[k] = c] ELSE data[c]]
  BY Zenon DEF Create
<1>2. t \in Slots /\ t # s
  BY DEF Create, Trusted, Live
<1>3. n \in Nat /\ Unlinked(cache) \subseteq DataClusters
  BY CountIs DEF Unlinked
<1>4. cs \in [1..n -> DataClusters]
  BY <1>1, <1>3
<1>5. ASSUME NEW c \in Clusters(cache, t)
      PROVE  c \in FatIndexes /\ c \in DataClusters /\ c \notin Range(cs)
  <2>1. c \in DataClusters /\ c \notin Unlinked(cache)
    BY TrustedChain, ConstantsAre DEF IInv, Unlinked
  <2>2. Range(cs) \subseteq Unlinked(cache)
    BY <1>1 DEF Range
  <2> QED BY <2>1, <2>2, IndexesAre
<1>6. Dir(cache')[t] = Dir(cache)[t]
  <2>1. Dir(cache) = [u \in Slots |-> Dir(cache)[u]]
    BY DEF IInv, DiskInv, DiskOK, Dir
  <2>2. Dir(cache') = [Dir(cache) EXCEPT ![s] = new(cs)]
    BY <1>1 DEF Dir, Pages
  <2> HIDE DEF new
  <2> QED BY <1>2, <2>1, <2>2
<1>7. \A c \in DataClusters \ Range(cs) : data'[c] = data[c]
  BY <1>1 DEF Range
<1>8. ASSUME NEW p \in Copies PROVE \A c \in FatIndexes \ Range(cs) : cache'[p][c] = cache[p][c]
  <2>1. cache'[p] = Links(cache[p], cs)
    BY <1>1, ConstantsAre DEF Pages
  <2>2. cache[p] \in [FatIndexes -> Int] /\ IsInjective(cs)
    BY <1>1 DEF IInv, DiskInv, DiskOK
  <2> HIDE DEF n
  <2> QED BY SMTT(30), <1>3, <1>4, <2>1, <2>2, LinksIs
<1> QED BY <1>5, <1>6, <1>7, <1>8 DEF Stays

(* A deletion reaches the storage at once, and frees clusters of no other file.   *)
LEMMA StaysAtDelete ==
  ASSUME IInv, NEW t \in Trusted, NEW s \in Slots, Delete(s)
  PROVE  (Dir(cache')[t].state = "deleted" /\ image' # image) \/ Stays(t)
<1>1. /\ pc = "idle" /\ s \in Live(cache) \ interrupted /\ ~overwriting /\ image' = cache'
      /\ cache' = [p \in Pages |->
           IF p = DIR THEN [Dir(cache) EXCEPT ![s].state = "deleted"]
           ELSE [c \in FatIndexes |-> IF c \in Clusters(cache, s) THEN FREE ELSE cache[p][c]]]
      /\ data' = data
  BY DEF Delete
<1>2. slot = NULL /\ s \in Trusted /\ t \in Slots
  BY <1>1, ConstantsAre DEF IInv, ProgressInv, Trusted, Live
<1>3. /\ \A u \in Slots \ {s} : Dir(cache')[u] = Dir(cache)[u]
      /\ Dir(cache')[s] = [Dir(cache)[s] EXCEPT !.state = "deleted"]
  <2>1. Dir(cache) = [u \in Slots |-> Dir(cache)[u]]
    BY DEF IInv, DiskInv, DiskOK, Dir
  <2>2. Dir(cache') = [Dir(cache) EXCEPT ![s].state = "deleted"]
    BY <1>1 DEF Dir, Pages
  <2> QED BY <2>1, <2>2
<1>4. CASE t = s
  <2>1. EntryOK(Dir(cache)[s]) /\ Dir(cache)[s].state = "live"
    BY <1>1, EntryTypes DEF IInv, Live
  <2>2. Dir(cache')[s].state = "deleted"
    <3> HIDE <1>1
    <3> QED BY <1>3, <2>1 DEF EntryOK
  <2>3. Dir(image)[s] = Dir(cache)[s]
    BY <1>1, <1>2, ConstantsAre DEF IInv, SyncInv
  <2>4. Dir(image')[s].state # Dir(image)[s].state
    BY <1>1, <2>1, <2>2, <2>3
  <2> QED BY <1>4, <2>2, <2>4 DEF Dir
<1>5. CASE t # s
  <2>1. \A c \in Clusters(cache, t) : c \in FatIndexes \ Clusters(cache, s)
    BY <1>1, <1>2, <1>5, TrustedChain, IndexesAre DEF IInv, TrustInv
  <2>2. \A p \in Copies : cache'[p] =
          [c \in FatIndexes |-> IF c \in Clusters(cache, s) THEN FREE ELSE cache[p][c]]
    BY <1>1, ConstantsAre DEF Pages
  <2>3. \A p \in Copies, c \in Clusters(cache, t) : cache'[p][c] = cache[p][c]
    BY <2>1, <2>2
  <2>4. Dir(cache')[t] = Dir(cache)[t]
    BY <1>2, <1>3, <1>5
  <2> QED BY <1>1, <2>3, <2>4 DEF Stays
<1> QED BY <1>4, <1>5

(* A store in the entry that is being recovered leaves the others.                *)
LEMMA StaysAtEntry ==
  ASSUME IInv, pc # "idle", NEW t \in Trusted, NEW e,
         cache' = [cache EXCEPT ![DIR] = [cache[DIR] EXCEPT ![slot] = e]], data' = data
  PROVE  Stays(t)
<1>1. /\ cache = [p \in Pages |-> cache[p]] /\ cache[DIR] = [s \in Slots |-> cache[DIR][s]]
      /\ DIR \in Pages /\ slot \in Slots
  BY DEF IInv, DiskInv, DiskOK, ProgressInv, Pages
<1>2. /\ \A p \in Pages \ {DIR} : cache'[p] = cache[p]
      /\ \A s \in Slots \ {slot} : cache'[DIR][s] = cache[DIR][s]
  BY <1>1, PageStore
<1>3. Copies \subseteq Pages \ {DIR} /\ t \in Slots \ {slot}
  BY ConstantsAre DEF Pages, Trusted, Live
<1> QED BY <1>2, <1>3 DEF Stays, Dir

(* A link is stored for clusters that no other file has.                          *)
LEMMA StaysAtLink ==
  ASSUME IInv, ~overwriting, NEW t \in Trusted, LinkStore
  PROVE  Stays(t)
<1> DEFINE n == ClustersOf(Dir(cache)[slot].size)
           c == clusters[j]
<1>1. /\ pc = "fat" /\ copy <= NumFATs /\ Len(clusters) # 0
      /\ cache' = [cache EXCEPT ![copy][c] = Link(clusters, j)] /\ data' = data
  <2>1. copy \in Nat /\ NumFATs \in Nat /\ (~(copy > NumFATs) => copy <= NumFATs)
    BY ConstantsAre DEF IInv, ProgressInv, LinkStore
  <2> QED BY <2>1 DEF LinkStore, FatsUpdated
<1>2. n \in Nat /\ Len(clusters) = n
  BY <1>1, RunFacts
<1>3. copy \in Nat \ {0} /\ j \in 1..n
  BY <1>1, <1>2 DEF IInv, ProgressInv
<1>4. copy \in Copies /\ copy \in Pages /\ copy # DIR
  BY <1>1, <1>3, ConstantsAre DEF Copies, Pages, DIR
<1>5. clusters \in [1..n -> FatIndexes]
  BY <1>1 DEF IInv, ClustersInv
<1> HIDE DEF n
<1>6. c \in Range(clusters) /\ c \in FatIndexes /\ c \notin Clusters(cache, t)
  BY <1>1, <1>3, <1>5 DEF IInv, ClustersInv, Range
<1> HIDE DEF c
<1>7. cache = [p \in Pages |-> cache[p]] /\ cache[copy] \in [FatIndexes -> Int]
  BY <1>4 DEF IInv, DiskInv, DiskOK
<1>8. cache[copy] = [d \in FatIndexes |-> cache[copy][d]]
  BY <1>7
<1>9. cache' = [cache EXCEPT ![copy] = [cache[copy] EXCEPT ![c] = Link(clusters, j)]]
  BY <1>1, <1>4, <1>7
<1>10. /\ \A p \in Pages \ {copy} : cache'[p] = cache[p]
       /\ \A d \in FatIndexes \ {c} : cache'[copy][d] = cache[copy][d]
  BY <1>4, <1>6, <1>7, <1>8, <1>9, PageStore
<1>11. \A d \in Clusters(cache, t) : d \in FatIndexes \ {c}
  BY <1>6, TrustedChain, IndexesAre DEF IInv
<1> QED BY <1>1, <1>4, <1>10, <1>11 DEF Stays, Dir, Pages

(* What a power failure loses of a file that is to be kept is nothing.            *)
LEMMA StaysAtFailure ==
  ASSUME IInv, ~overwriting, NEW t \in Trusted, PowerFailure
  PROVE  Stays(t)
<1>1. cache' = image /\ data' = data
  BY DEF PowerFailure
<1>2. Dir(image)[t] = Dir(cache)[t]
  BY DEF IInv, SyncInv, Trusted, Live
<1> QED BY <1>1, <1>2, TrustedChain DEF IInv, Stays

(* A file stays as it is until it is deleted.                                     *)
THEOREM FilesStayHolds == NoWrap => (Spec => FilesStay)
<1> DEFINE Gone(s) == Dir(cache')[s].state = "deleted" /\ image' # image
           Step == ~overwriting' => \A s \in Trusted : Gone(s) \/ Stays(s)
<1>1. IInv /\ [Next]_vars => [Step]_vars
  <2> SUFFICES ASSUME IInv, Next, ~overwriting', NEW s \in Trusted PROVE Gone(s) \/ Stays(s)
    OBVIOUS
  <2>1. ASSUME UNCHANGED <<cache, data>> PROVE Stays(s)
    BY <2>1 DEF Stays
  <2>2. ASSUME UNCHANGED history PROVE ~overwriting
    BY <2>2 DEF history
  <2>3. ASSUME NEW t \in Slots, NEW name \in Names, NEW size \in Sizes, Create(t, name, size)
        PROVE  Stays(s)
    <3>1. ~overwriting
      BY <2>3 DEF Create
    <3> QED BY <2>3, <3>1, StaysAtCreate
  <2>4. ASSUME NEW t \in Slots, Delete(t) PROVE Gone(s) \/ Stays(s)
    BY <2>4, StaysAtDelete
  <2>5. ASSUME NEW p \in Pages, WriteBack(p) PROVE Stays(s)
    BY <2>1, <2>5 DEF WriteBack
  <2>6. ASSUME NEW name \in Names, RecoverOnly(name) PROVE Stays(s)
    BY <2>1, <2>6 DEF RecoverOnly, Run
  <2>7. ASSUME NEW name \in Names, NEW sha1, RecoverMatching(name, sha1) PROVE Stays(s)
    BY <2>1, <2>7 DEF RecoverMatching, Run
  <2>8. ASSUME NEW name \in Names, NEW sha1, RecoverArranged(name, sha1) PROVE Stays(s)
    BY <2>1, <2>8 DEF RecoverArranged, Run
  <2>9. CASE NameStore
    <3>1. /\ cache = [p \in Pages |-> cache[p]] /\ cache[DIR] = [t \in Slots |-> cache[DIR][t]]
          /\ DIR \in Pages /\ slot \in Slots /\ pc # "idle" /\ data' = data
      BY <2>9 DEF IInv, DiskInv, DiskOK, ProgressInv, Pages, NameStore
    <3>2. cache' = [cache EXCEPT ![DIR] = [cache[DIR] EXCEPT ![slot] =
                      [cache[DIR][slot] EXCEPT !.state = "live", !.name.first = cmd.name.first]]]
      BY <2>9, <3>1 DEF NameStore
    <3> QED BY <3>1, <3>2, StaysAtEntry
  <2>10. CASE StartStore
    <3> DEFINE start == IF Len(clusters) = 0 THEN cache[DIR][slot].start ELSE clusters[1]
    <3>1. /\ cache = [p \in Pages |-> cache[p]] /\ cache[DIR] = [t \in Slots |-> cache[DIR][t]]
          /\ DIR \in Pages /\ slot \in Slots /\ pc # "idle" /\ data' = data
      BY <2>10 DEF IInv, DiskInv, DiskOK, ProgressInv, Pages, StartStore
    <3>2. cache' = [cache EXCEPT ![DIR] = [cache[DIR] EXCEPT ![slot] =
                      [cache[DIR][slot] EXCEPT !.start = start]]]
      BY <2>10, <3>1 DEF StartStore
    <3> HIDE DEF start
    <3> QED BY <3>1, <3>2, StaysAtEntry
  <2>11. CASE LinkStore
    BY <2>2, <2>11, StaysAtLink DEF LinkStore
  <2>12. CASE FatsEnd
    BY <2>1, <2>12 DEF FatsEnd
  <2>13. CASE Msync
    BY <2>1, <2>13 DEF Msync
  <2>14. CASE Exit
    BY <2>1, <2>14 DEF Exit
  <2>15. CASE Kill
    BY <2>1, <2>15 DEF Kill
  <2>16. CASE PowerFailure
    <3>1. ~overwriting
      BY <2>16 DEF PowerFailure
    <3> QED BY <2>16, <3>1, StaysAtFailure
  <2> HIDE DEF Gone
  <2> QED BY <2>3, <2>4, <2>5, <2>6, <2>7, <2>8, <2>9, <2>10, <2>11, <2>12, <2>13, <2>14, <2>15,
             <2>16 DEF Next
<1>2. [Step]_vars => [~overwriting' => \A s \in Trusted :
       \/ Dir(cache')[s].state = "deleted" /\ image' # image
       \/ /\ Dir(cache')[s] = Dir(cache)[s]
          /\ \A c \in Clusters(cache, s) :
               data'[c] = data[c] /\ \A p \in Copies : cache'[p][c] = cache[p][c]]_vars
  BY DEF Stays
<1> SUFFICES ASSUME NoWrap PROVE Spec => FilesStay
  OBVIOUS
<1>3. Spec => []IInv
  BY Invariance
<1> QED BY <1>1, <1>2, <1>3, PTL DEF Spec, FilesStay

==================================================================================
