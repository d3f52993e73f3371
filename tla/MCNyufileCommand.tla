----------------------------- MODULE MCNyufileCommand ----------------------------
(* Instances of NyufileCommand for TLC: two or three objects in a chain of three  *)
(* clusters, in one that is followed by an empty one, or where an offset leaves   *)
(* 2^32; and lines of up to three options.                                        *)
EXTENDS NyufileCommand, TLC

Boot(perCluster) == [NumFATs |-> 2, BytsPerSec |-> 2, SecPerClus |-> perCluster,
                     RsvdSecCnt |-> 1, FATSz32 |-> 6]
MCBoot(perCluster, root) == Boot(perCluster) @@ [RootClus |-> root]

Object(kind, base, ext, size, start, deleted) ==
  [kind |-> kind, base |-> base, ext |-> ext, size |-> size, start |-> start, deleted |-> deleted]

(* Among the deleted ones: clusters in the root's chain of the first images (6),  *)
(* outside the FAT (15) and behind the disk's last cluster (8 to 11), a size that *)
(* wraps (41), and more clusters than the search has room for.                    *)
Deleted == {
  Object("file", <<"B", "A">>, <<"B">>, 3, 3, TRUE),
  Object("file", <<"A", "A">>, <<"B">>, 1, 6, TRUE),
  Object("file", <<"A", "A">>, <<"B">>, 7, 8, TRUE),
  Object("file", <<"B", "A">>, <<"B">>, 41, 9, TRUE),
  Object("directory", <<"A", "A">>, <<"B">>, 0, 4, TRUE),
  Object("long", <<"B", "A", NUL, "A">>, <<>>, 3, 15, TRUE) }

Objects == Deleted \union {
  Object("file", <<"A", "A">>, <<"B">>, 3, 5, FALSE),
  Object("file", <<"A", "B", "A">>, <<"B">>, 0, 0, FALSE),
  Object("directory", <<"B">>, <<>>, 0, 4, FALSE),
  Object("label", <<"A", "a">>, <<>>, 0, 0, FALSE),
  Object("long", <<"A", "B", NUL, "a">>, <<>>, 3, 7, FALSE),
  Object("long", <<"A", "a", NUL, "B">>, <<>>, 3, 7, FALSE) }

MCForeign == {Never, Entry(Object("file", <<"B", "A">>, <<"B">>, 1, 3, TRUE))}

Links(chain, used) ==
  [c \in 0..11 |-> CASE \E n \in 1..Len(chain) - 1 : chain[n] = c ->
                         chain[(CHOOSE n \in DOMAIN chain : chain[n] = c) + 1]
                    [] c \in {0, 1, Last(chain)} \union used -> EndMark + 1
                    [] OTHER -> 0]

Image(perCluster, chain, used, root) ==
  [be |-> MCBoot(perCluster, chain[1]), chain |-> chain, root |-> root,
   links |-> Links(chain, used), last |-> 10]

MCImages ==
  {Image(1, <<5, 2, 6>>, {}, <<a, b, c>>) : a \in Objects, b, c \in Deleted}
  \union {Image(2, <<3, 5>>, {4, 6}, <<a, b>>) : a, b \in Objects}
  \union {Image(1, <<7, 10>>, {2}, <<a, b>>) : a, b \in Objects}

Name1 == <<"B", "A", DOT, "B">>
Name2 == <<"A", "A">>
Option(o, arg) == [opt |-> o, arg |-> arg]
Options == {Option("i", <<>>), Option("l", <<>>), Option("?", <<>>), Option("s", <<"d">>),
            Option("r", Name1), Option("r", Name2), Option("R", Name1)}

Line1 == {<<x>> : x \in Options}
Line2 == {<<x, y>> : x, y \in Options}
Line3 == {<<Option("R", Name1)>> \o l : l \in Line2}

MCCommandLines ==
  [disk : {"image"}, options : Line1 \union Line2 \union Line3, operands : {0}]
  \union [disk : {"image"}, options : Line1, operands : {1}]
  \union [disk : {"unmappable"}, options : Line1, operands : {0}]
  \union [disk : {"none", "missing", "image"}, options : {<<>>}, operands : {0}]
================================================================================
