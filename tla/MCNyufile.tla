-------------------------------- MODULE MCNyufile --------------------------------
(* Instances of Nyufile for TLC: names that differ only in the character that     *)
(* deletion overwrites, so that one file name can have several candidates.  Which *)
(* character and which byte it is makes no difference.                            *)
EXTENDS Nyufile, TLC

CONSTANTS Firsts, Bytes

MCNames  == {[first |-> f, rest |-> "ILE.TXT"] : f \in Firsts}
MCBlocks == {[k \in 1..ClusterSize |-> b] : b \in Bytes}
MCBlank  == [k \in 1..ClusterSize |-> NULL]
Symmetry == Permutations(Firsts) \union Permutations(Bytes)
================================================================================
