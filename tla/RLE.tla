---------------------------------- MODULE RLE ----------------------------------
(* Run-length encoding as nyuenc does it: one encoder per chunk (encoder), a    *)
(* merge of the chunks' results in order (the body of write_result), and the    *)
(* canonical encoding of a byte stream that their combination must produce.     *)
(*                                                                              *)
(* A byte is a natural number; an encoded pair is [char, count].  Bytes whose   *)
(* value is negative when read through a plain (signed) `char` are collected in *)
(* NegativeChars: encoder() compares `task->addr[i]` (char) with                *)
(* `current_char` (unsigned char), and for those bytes the two are never equal. *)
(* NegativeChars = {} is the build with an unsigned plain char.                 *)
(*                                                                              *)
(* EncodeByteOffByOne, FlushedAlways and FullPairsNever are deliberately wrong  *)
(* versions of the definitions they precede (PROJECT.json, "mutants").          *)
EXTENDS Integers, Sequences, FiniteSets, FiniteSetsExt, SequencesExt

CONSTANTS MAX_CHAR_LEN,    \* longest run one pair can carry (255 in the code)
          NegativeChars    \* bytes a plain char reads as a negative number

ASSUME MaxCharLenAssumption == MAX_CHAR_LEN \in Nat \ {0}

--------------------------------------------------------------------------------
(* One byte holds a count: MAX_CHAR_LEN is the largest unsigned char.           *)
CountByte(n) == n % (MAX_CHAR_LEN + 1)

Pair(c, n) == [char |-> c, count |-> CountByte(n)]

SameChar(b, c) == b = c /\ b \notin NegativeChars

EncodeByteOffByOne(e, b) ==
  IF SameChar(b, e.char) /\ e.count <= MAX_CHAR_LEN
  THEN [e EXCEPT !.count = @ + 1]
  ELSE [char |-> b, count |-> 1, buffer |-> Append(e.buffer, Pair(e.char, e.count))]

(* One iteration of the loop of encoder(): extend the run or start a new one.   *)
EncodeByte(e, b) ==
  IF SameChar(b, e.char) /\ e.count < MAX_CHAR_LEN
  THEN [e EXCEPT !.count = @ + 1]
  ELSE [char |-> b, count |-> 1, buffer |-> Append(e.buffer, Pair(e.char, e.count))]

(* encoder() after each of the bytes of a chunk.                                *)
EncodeUpTo(chunk) ==
  LET e[n \in 0..Len(chunk)] ==
        IF n = 0 THEN [char |-> chunk[1], count |-> 0, buffer |-> <<>>]
                 ELSE EncodeByte(e[n - 1], chunk[n])
  IN  e

(* The pairs it leaves in result->buffer for one non-empty chunk.               *)
encoder(chunk) ==
  LET e == EncodeUpTo(chunk)[Len(chunk)]
  IN  Append(e.buffer, Pair(e.char, e.count))

(* Pairs temp_buffer has room for: (end - start) * 2 bytes.                     *)
TempBufferPairs(chunk) == Len(chunk)

--------------------------------------------------------------------------------
(* The writer: current_char, current_count and what fwrite has been given.      *)
WriterStart == [char |-> 0, count |-> 0, stdout |-> <<>>]

FlushedAlways(o) == Append(o.stdout, Pair(o.char, o.count))

(* `if (current_count > 0) fwrite ...`, before a new run and after the loop.    *)
Flushed(o) ==
  IF o.count > 0 THEN Append(o.stdout, Pair(o.char, o.count)) ELSE o.stdout

FullPairsNever(total) == 0

(* How often `while (current_count > MAX_CHAR_LEN)` writes a full pair.         *)
FullPairs(total) == IF total > MAX_CHAR_LEN THEN (total - 1) \div MAX_CHAR_LEN ELSE 0

(* The body of the writer's loop over one result.                               *)
MergePair(o, p) ==
  IF p.char = o.char
  THEN LET total == o.count + p.count
           k     == FullPairs(total)
       IN  [o EXCEPT !.count  = total - k * MAX_CHAR_LEN,
                     !.stdout = @ \o [j \in 1..k |-> Pair(o.char, MAX_CHAR_LEN)]]
  ELSE [char |-> p.char, count |-> p.count, stdout |-> Flushed(o)]

(* The loop over the pairs of one result.                                       *)
MergeUpTo(o, pairs) ==
  LET m[n \in 0..Len(pairs)] == IF n = 0 THEN o ELSE MergePair(m[n - 1], pairs[n])
  IN  m

MergeResult(o, pairs) == MergeUpTo(o, pairs)[Len(pairs)]

--------------------------------------------------------------------------------
(* The first version of the program (nyuenc0.1.c): one pass over the bytes of    *)
(* all the files, written while it scans.                                        *)
SequentialByte(o, b) ==
  IF SameChar(b, o.char) /\ o.count < MAX_CHAR_LEN
  THEN [o EXCEPT !.count = @ + 1]
  ELSE [char |-> b, count |-> 1, stdout |-> Flushed(o)]

SequentialUpTo(o, bytes) ==
  LET q[n \in 0..Len(bytes)] == IF n = 0 THEN o ELSE SequentialByte(q[n - 1], bytes[n])
  IN  q

--------------------------------------------------------------------------------
(* The reference, defined on the positions of the stream and not by a scan: a   *)
(* pair starts at every MAX_CHAR_LEN-th position of a run of equal bytes, and   *)
(* lasts to the next one that starts.                                           *)
RunStarts(data) == {i \in DOMAIN data : i = 1 \/ data[i - 1] # data[i]}

OffsetInRun(data, i) == i - Max({s \in RunStarts(data) : s <= i})

PairStarts(data) ==
  {i \in DOMAIN data : OffsetInRun(data, i) % MAX_CHAR_LEN = 0}

(* The k-th of a set of numbers, from the least on.                             *)
Kth(S, k) == CHOOSE x \in {y \in S : Cardinality({z \in S : z <= y}) = k} : TRUE

Canonical(data) ==
  LET starts   == PairStarts(data)
      n        == Cardinality(starts)
      begin(k) == IF k > n THEN Len(data) + 1 ELSE Kth(starts, k)
  IN  [k \in 1..n |-> [char |-> data[begin(k)], count |-> begin(k + 1) - begin(k)]]

(* What a pair sequence stands for.                                             *)
Decode(pairs) ==
  FlattenSeq([k \in DOMAIN pairs |-> [j \in 1..pairs[k].count |-> pairs[k].char]])
================================================================================
