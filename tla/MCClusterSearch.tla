---------------------------- MODULE MCClusterSearch ------------------------------
(* Instances of ClusterSearch for TLC: three data clusters of two bytes, whose    *)
(* contents are all different, partly equal, or equal but for the last byte.      *)
EXTENDS ClusterSearch

MCClusters == 0..4
Reserved   == 0 :> <<9, 9>> @@ 1 :> <<9, 9>>
MCDatas    == {Reserved @@ 2 :> <<0, 0>> @@ 3 :> <<0, 1>> @@ 4 :> <<1, 0>>,
               Reserved @@ 2 :> <<0, 1>> @@ 3 :> <<0, 1>> @@ 4 :> <<1, 1>>,
               Reserved @@ 2 :> <<1, 0>> @@ 3 :> <<1, 1>> @@ 4 :> <<1, 0>>}
Sizes      == {0, 1, 4, 5}
MCEntryLists == {<<a>> : a \in Sizes} \union {<<a, b>> : a, b \in Sizes}

(* The contents of every file of these sizes that the disk could hold, and one    *)
(* that is nowhere on it.                                                         *)
MCWants ==
  {<<<<7>>>>} \union
  UNION {{FileContent(d, s, n) : s \in [1..ClustersOf(n) -> 2..4]} : d \in MCDatas, n \in Sizes}
================================================================================
