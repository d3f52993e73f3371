------------------------------ MODULE EncoderProofs ------------------------------
(* nyuenc's encoding, for every stream of bytes, every way to cut it into chunks  *)
(* and every longest run (MAX_CHAR_LEN).                                           *)
(*                                                                                 *)
(* The argument has three parts.  Merging what encoder() makes of a chunk leaves   *)
(* the writer where merging the bytes of the chunk one at a time would             *)
(* (ChunkMerged), so that the writer after any chunks is Written(data)[pos], which *)
(* knows nothing of the cuts.  The canonical encoding, defined on the positions of *)
(* the stream, grows in one of two ways when a byte is appended (CanonicalGrows).  *)
(* So does what the writer would flush (NextByte), and the two agree               *)
(* (WrittenIsCanonical).                                                           *)
EXTENDS ChunkedEncoder, Recursion

(* A byte is merged like a pair of its own.                                       *)
One(b)        == [char |-> b, count |-> 1]
AddByte(o, b) == MergePair(o, One(b))

Pairs == [char : Nat, count : 0..MAX_CHAR_LEN]
Full(c) == [char |-> c, count |-> MAX_CHAR_LEN]

(* The writer between two pairs, and the encoder between two bytes.               *)
Writer  == [char : Nat, count : 0..MAX_CHAR_LEN, stdout : Seq(Pairs)]
Encoder == [char : Nat, count : 0..MAX_CHAR_LEN, buffer : Seq(Pairs)]

(* The writer after the first n bytes of a stream, if each were a pair.           *)
Written(d) ==
  LET w[n \in 0..Len(d)] == IF n = 0 THEN WriterStart ELSE AddByte(w[n - 1], d[n])
  IN  w

--------------------------------------------------------------------------------
(* A total above one longest run and below two holds one full pair.             *)
LEMMA Quotient ==
  ASSUME NEW m \in Nat \ {0}, NEW n \in Nat, m <= n, n < 2 * m
  PROVE  n \div m = 1
OBVIOUS

(* A count that a byte can hold is written as it is.                            *)
LEMMA PairIs ==
  ASSUME NEW c, NEW n \in 0..MAX_CHAR_LEN
  PROVE  Pair(c, n) = [char |-> c, count |-> n]
<1>1. n % (MAX_CHAR_LEN + 1) = n
  BY MaxCharLenAssumption
<1> QED BY <1>1 DEF Pair, CountByte

(* What the writer would have printed had the loop over the results ended       *)
(* here.                                                                        *)
LEMMA FlushedIs ==
  ASSUME NEW o \in Writer
  PROVE  /\ Flushed(o) = IF o.count > 0 THEN Append(o.stdout, [char |-> o.char, count |-> o.count])
                                        ELSE o.stdout
         /\ Flushed(o) \in Seq(Pairs)
<1>1. /\ o.char \in Nat /\ o.count \in 0..MAX_CHAR_LEN /\ o.stdout \in Seq(Pairs)
      /\ Pair(o.char, o.count) = [char |-> o.char, count |-> o.count]
  BY PairIs DEF Writer
<1>2. [char |-> o.char, count |-> o.count] \in Pairs
  BY <1>1 DEF Pairs
<1> QED BY <1>1, <1>2 DEF Flushed

(* What merging one pair does.                                                    *)
LEMMA MergePairIs ==
  ASSUME NEW o \in Writer, NEW c \in Nat, NEW n \in 0..MAX_CHAR_LEN
  PROVE  /\ MergePair(o, [char |-> c, count |-> n]) =
              IF c # o.char THEN [char |-> c, count |-> n, stdout |-> Flushed(o)]
              ELSE IF o.count + n <= MAX_CHAR_LEN
                   THEN [char |-> c, count |-> o.count + n, stdout |-> o.stdout]
                   ELSE [char |-> c, count |-> (o.count + n) - MAX_CHAR_LEN,
                         stdout |-> Append(o.stdout, Full(c))]
         /\ MergePair(o, [char |-> c, count |-> n]) \in Writer
<1> DEFINE p == [char |-> c, count |-> n]
           total == o.count + n
           k == FullPairs(total)
           fulls == [j \in 1..k |-> Pair(o.char, MAX_CHAR_LEN)]
<1>1. /\ o.char \in Nat /\ o.count \in 0..MAX_CHAR_LEN /\ o.stdout \in Seq(Pairs)
      /\ MAX_CHAR_LEN \in Nat \ {0} /\ MAX_CHAR_LEN \in 0..MAX_CHAR_LEN
      /\ Flushed(o) \in Seq(Pairs)
  <2>1. Flushed(o) \in Seq(Pairs)
    BY Zenon, FlushedIs
  <2> QED BY <2>1, MaxCharLenAssumption DEF Writer
<1>2. CASE c # o.char
  <2>1. MergePair(o, p) = [char |-> c, count |-> n, stdout |-> Flushed(o)]
    BY <1>2 DEF MergePair
  <2>2. [char |-> c, count |-> n, stdout |-> Flushed(o)] \in Writer
    BY <1>1 DEF Writer
  <2> QED BY <1>2, <2>1, <2>2
<1>3. CASE c = o.char
  <2>1. MergePair(o, p) = [o EXCEPT !.count = total - k * MAX_CHAR_LEN, !.stdout = @ \o fulls]
    BY <1>3 DEF MergePair
  <2>2. MergePair(o, p) = [char |-> c, count |-> total - k * MAX_CHAR_LEN, stdout |-> o.stdout \o fulls]
    <3>1. o = [char |-> o.char, count |-> o.count, stdout |-> o.stdout]
      BY DEF Writer
    <3> HIDE DEF fulls, k, total
    <3> QED BY <1>3, <2>1, <3>1
  <2>3. CASE total <= MAX_CHAR_LEN
    <3>1. k = 0
      BY <1>1, <2>3 DEF FullPairs
    <3>2. fulls = <<>>
      BY <3>1
    <3>3. MergePair(o, p) = [char |-> c, count |-> total, stdout |-> o.stdout]
      <4> HIDE DEF fulls, k
      <4>1. o.stdout \o <<>> = o.stdout /\ total - 0 * MAX_CHAR_LEN = total
        BY <1>1
      <4> QED BY <2>2, <3>1, <3>2, <4>1
    <3>4. [char |-> c, count |-> total, stdout |-> o.stdout] \in Writer
      BY <1>1, <2>3 DEF Writer
    <3> QED BY <1>3, <2>3, <3>3, <3>4
  <2>4. CASE total > MAX_CHAR_LEN
    <3>1. k = 1
      <4>1. total - 1 \in Nat /\ MAX_CHAR_LEN <= total - 1 /\ total - 1 < 2 * MAX_CHAR_LEN
        BY <1>1, <2>4
      <4>2. (total - 1) \div MAX_CHAR_LEN = 1
        BY <1>1, <4>1, Quotient
      <4> QED BY <2>4, <4>2 DEF FullPairs
    <3>2. fulls = <<Full(c)>>
      BY <1>1, <1>3, <3>1, PairIs DEF Full
    <3>3. Full(c) \in Pairs
      BY <1>1 DEF Full, Pairs
    <3>4. MergePair(o, p) = [char |-> c, count |-> total - MAX_CHAR_LEN,
                             stdout |-> Append(o.stdout, Full(c))]
      <4> HIDE DEF fulls, k
      <4>1. o.stdout \o <<Full(c)>> = Append(o.stdout, Full(c))
        BY <1>1, <3>3
      <4>2. total - 1 * MAX_CHAR_LEN = total - MAX_CHAR_LEN
        BY <1>1
      <4> QED BY <2>2, <3>1, <3>2, <4>1, <4>2
    <3>5. [char |-> c, count |-> total - MAX_CHAR_LEN,
           stdout |-> Append(o.stdout, Full(c))] \in Writer
      <4>1. Append(o.stdout, Full(c)) \in Seq(Pairs)
        BY <1>1, <3>3
      <4>2. total - MAX_CHAR_LEN \in 0..MAX_CHAR_LEN
        BY <1>1, <2>4
      <4> QED BY <4>1, <4>2 DEF Writer
    <3>6. ~(total <= MAX_CHAR_LEN)
      BY <1>1, <2>4
    <3> QED BY <1>3, <3>4, <3>5, <3>6
  <2> QED BY <1>1, <2>3, <2>4
<1> QED BY <1>2, <1>3

(* What merging one byte does: it extends the run, starts another one, or       *)
(* completes a pair of MAX_CHAR_LEN.                                            *)
LEMMA AddByteIs ==
  ASSUME NEW o \in Writer, NEW b \in Nat
  PROVE  /\ AddByte(o, b) =
              IF b # o.char THEN [char |-> b, count |-> 1, stdout |-> Flushed(o)]
              ELSE IF o.count < MAX_CHAR_LEN
                   THEN [char |-> b, count |-> o.count + 1, stdout |-> o.stdout]
                   ELSE [char |-> b, count |-> 1, stdout |-> Append(o.stdout, Full(b))]
         /\ AddByte(o, b) \in Writer
<1>1. 1 \in 0..MAX_CHAR_LEN /\ o.count \in 0..MAX_CHAR_LEN /\ MAX_CHAR_LEN \in Nat
  BY MaxCharLenAssumption DEF Writer
<1>2. /\ o.count + 1 <= MAX_CHAR_LEN <=> o.count < MAX_CHAR_LEN
      /\ o.count >= MAX_CHAR_LEN => (o.count + 1) - MAX_CHAR_LEN = 1
  BY <1>1
<1> DEFINE p == MergePair(o, [char |-> b, count |-> 1])
<1>3. /\ p = IF b # o.char THEN [char |-> b, count |-> 1, stdout |-> Flushed(o)]
             ELSE IF o.count + 1 <= MAX_CHAR_LEN
                  THEN [char |-> b, count |-> o.count + 1, stdout |-> o.stdout]
                  ELSE [char |-> b, count |-> (o.count + 1) - MAX_CHAR_LEN,
                        stdout |-> Append(o.stdout, Full(b))]
      /\ p \in Writer
  BY <1>1, MergePairIs
<1>4. AddByte(o, b) = p
  BY DEF AddByte, One
<1> HIDE DEF p
<1>5. o.count < MAX_CHAR_LEN \/ o.count >= MAX_CHAR_LEN
  BY <1>1
<1> QED BY <1>2, <1>3, <1>4, <1>5

(* A run of n + 1 is merged like the run of n and the byte behind it.             *)
LEMMA RunGrows ==
  ASSUME NEW o \in Writer, NEW c \in Nat, NEW n \in 0..(MAX_CHAR_LEN - 1)
  PROVE  MergePair(o, [char |-> c, count |-> n + 1]) =
           AddByte(MergePair(o, [char |-> c, count |-> n]), c)
<1> DEFINE p == MergePair(o, [char |-> c, count |-> n])
           q == MergePair(o, [char |-> c, count |-> n + 1])
<1>1. /\ n \in 0..MAX_CHAR_LEN /\ n + 1 \in 0..MAX_CHAR_LEN /\ MAX_CHAR_LEN \in Nat \ {0}
      /\ o.count \in 0..MAX_CHAR_LEN /\ o.stdout \in Seq(Pairs)
  BY MaxCharLenAssumption DEF Writer
<1>2. /\ p = IF c # o.char THEN [char |-> c, count |-> n, stdout |-> Flushed(o)]
             ELSE IF o.count + n <= MAX_CHAR_LEN
                  THEN [char |-> c, count |-> o.count + n, stdout |-> o.stdout]
                  ELSE [char |-> c, count |-> (o.count + n) - MAX_CHAR_LEN,
                        stdout |-> Append(o.stdout, Full(c))]
      /\ p \in Writer
  BY <1>1, MergePairIs
<1>3. q = IF c # o.char THEN [char |-> c, count |-> n + 1, stdout |-> Flushed(o)]
          ELSE IF o.count + (n + 1) <= MAX_CHAR_LEN
               THEN [char |-> c, count |-> o.count + (n + 1), stdout |-> o.stdout]
               ELSE [char |-> c, count |-> (o.count + (n + 1)) - MAX_CHAR_LEN,
                     stdout |-> Append(o.stdout, Full(c))]
  BY <1>1, MergePairIs
<1> HIDE DEF p, q
<1>4. p.char = c
  BY <1>2
<1>5. AddByte(p, c) = IF p.count < MAX_CHAR_LEN
                      THEN [char |-> c, count |-> p.count + 1, stdout |-> p.stdout]
                      ELSE [char |-> c, count |-> 1, stdout |-> Append(p.stdout, Full(c))]
  BY <1>2, <1>4, AddByteIs
<1>6. CASE c # o.char
  <2>1. p.count = n /\ p.stdout = Flushed(o)
    BY <1>2, <1>6
  <2> QED BY <1>1, <1>3, <1>5, <1>6, <2>1 DEF p, q
<1>7. CASE c = o.char /\ o.count + n <= MAX_CHAR_LEN
  <2>1. p.count = o.count + n /\ p.stdout = o.stdout
    BY <1>2, <1>7
  <2>2. CASE o.count + n < MAX_CHAR_LEN
    <3>1. o.count + (n + 1) <= MAX_CHAR_LEN /\ o.count + (n + 1) = o.count + n + 1
      BY <1>1, <2>2
    <3> QED BY <1>3, <1>5, <1>7, <2>1, <2>2, <3>1 DEF p, q
  <2>3. CASE o.count + n = MAX_CHAR_LEN
    <3>1. ~(o.count + (n + 1) <= MAX_CHAR_LEN) /\ (o.count + (n + 1)) - MAX_CHAR_LEN = 1
      BY <1>1, <2>3
    <3>2. ~(p.count < MAX_CHAR_LEN)
      BY <1>1, <2>1, <2>3
    <3>3. AddByte(p, c) = [char |-> c, count |-> 1, stdout |-> Append(o.stdout, Full(c))]
      BY <1>5, <2>1, <3>2
    <3>4. q = [char |-> c, count |-> 1, stdout |-> Append(o.stdout, Full(c))]
      BY <1>3, <1>7, <3>1
    <3> QED BY <3>3, <3>4 DEF p, q
  <2>4. o.count + n < MAX_CHAR_LEN \/ o.count + n = MAX_CHAR_LEN
    BY <1>1, <1>7
  <2> QED BY <2>2, <2>3, <2>4
<1>8. CASE c = o.char /\ o.count + n > MAX_CHAR_LEN
  <2>1. p.count = (o.count + n) - MAX_CHAR_LEN /\ p.stdout = Append(o.stdout, Full(c))
    BY <1>1, <1>2, <1>8
  <2>2. /\ p.count < MAX_CHAR_LEN /\ ~(o.count + (n + 1) <= MAX_CHAR_LEN)
        /\ p.count + 1 = (o.count + (n + 1)) - MAX_CHAR_LEN
    BY <1>1, <1>8, <2>1
  <2> QED BY <1>3, <1>5, <1>8, <2>1, <2>2 DEF p, q
<1> QED BY <1>1, <1>6, <1>7, <1>8

--------------------------------------------------------------------------------
(* What one iteration of the loop of encoder() does, and the state it leaves.   *)
LEMMA EncodeByteIs ==
  ASSUME NEW e \in Encoder, NEW b \in Nat
  PROVE  /\ EncodeByte(e, b) =
              IF SameChar(b, e.char) /\ e.count < MAX_CHAR_LEN
              THEN [char |-> e.char, count |-> e.count + 1, buffer |-> e.buffer]
              ELSE [char |-> b, count |-> 1,
                    buffer |-> Append(e.buffer, [char |-> e.char, count |-> e.count])]
         /\ EncodeByte(e, b) \in Encoder
<1>1. /\ e.char \in Nat /\ e.count \in 0..MAX_CHAR_LEN /\ e.buffer \in Seq(Pairs)
      /\ MAX_CHAR_LEN \in Nat \ {0}
      /\ e = [char |-> e.char, count |-> e.count, buffer |-> e.buffer]
  BY MaxCharLenAssumption DEF Encoder
<1>2. Pair(e.char, e.count) = [char |-> e.char, count |-> e.count]
  BY <1>1, PairIs
<1>3. CASE SameChar(b, e.char) /\ e.count < MAX_CHAR_LEN
  <2>1. EncodeByte(e, b) = [char |-> e.char, count |-> e.count + 1, buffer |-> e.buffer]
    BY <1>1, <1>3 DEF EncodeByte
  <2>2. [char |-> e.char, count |-> e.count + 1, buffer |-> e.buffer] \in Encoder
    BY <1>1, <1>3 DEF Encoder
  <2> QED BY <1>3, <2>1, <2>2
<1>4. CASE ~(SameChar(b, e.char) /\ e.count < MAX_CHAR_LEN)
  <2> DEFINE buf == Append(e.buffer, [char |-> e.char, count |-> e.count])
  <2>1. EncodeByte(e, b) = [char |-> b, count |-> 1, buffer |-> buf]
    BY <1>2, <1>4 DEF EncodeByte
  <2>2. buf \in Seq(Pairs)
    BY <1>1 DEF Pairs
  <2> HIDE DEF buf
  <2>3. [char |-> b, count |-> 1, buffer |-> buf] \in Encoder
    BY <1>1, <2>2 DEF Encoder
  <2> QED BY Zenon, <1>4, <2>1, <2>3 DEF buf
<1> QED BY <1>3, <1>4

EncoderStart(c) == [char |-> c[1], count |-> 0, buffer |-> <<>>]

(* encoder() scans the chunk byte by byte from its first one.                   *)
LEMMA EncodeUpToIs ==
  ASSUME NEW c \in Seq(Nat), c # <<>>
  PROVE  /\ EncodeUpTo(c) \in [0..Len(c) -> Encoder] /\ EncodeUpTo(c)[0] = EncoderStart(c)
         /\ \A n \in 1..Len(c) : EncodeUpTo(c)[n] = EncodeByte(EncodeUpTo(c)[n - 1], c[n])
<1> DEFINE L == Len(c)
           step == [n \in 1..L |-> [e \in Encoder |-> EncodeByte(e, c[n])]]
           Is(f) == f = [n \in 0..L |-> IF n = 0 THEN EncoderStart(c)
                                                 ELSE EncodeByte(f[n - 1], c[n])]
           u == EncodeUpTo(c)
<1>1. L \in Nat \ {0} /\ \A n \in 1..L : c[n] \in Nat
  OBVIOUS
<1>2. EncoderStart(c) \in Encoder
  BY <1>1, MaxCharLenAssumption DEF EncoderStart, Encoder
<1>3. u = CHOOSE f : Is(f)
  BY Zenon DEF EncodeUpTo, EncoderStart
<1> HIDE DEF L, u
<1>4. Stepping(L, Encoder, step)
  <2> SUFFICES ASSUME NEW n \in 1..L, NEW e \in Encoder PROVE EncodeByte(e, c[n]) \in Encoder
    BY DEF Stepping
  <2> QED BY <1>1, EncodeByteIs
<1>5. ASSUME NEW f, NEW n \in 1..L, f[n - 1] \in Encoder
      PROVE  step[n][f[n - 1]] = EncodeByte(f[n - 1], c[n])
  BY <1>5
<1> HIDE DEF step
<1>6. Is(u)
  <2>1. PICK f : Iterates(f, L, Encoder, EncoderStart(c), step)
    BY <1>1, <1>2, <1>4, UpToRecursion
  <2>2. \A n \in 1..L : n - 1 \in 0..L /\ n # 0
    BY <1>1
  <2>3. \A n \in 1..L : f[n] = EncodeByte(f[n - 1], c[n])
    BY <1>5, <2>1, <2>2 DEF Iterates
  <2>4. Is(f)
    BY <1>1, <2>1, <2>2, <2>3 DEF Iterates
  <2> HIDE DEF Is
  <2> QED BY <1>3, <2>4
<1>7. /\ u = [n \in 0..L |-> u[n]] /\ u[0] = EncoderStart(c)
      /\ \A n \in 1..L : u[n] = EncodeByte(u[n - 1], c[n])
  <2>1. 0 \in 0..L /\ \A n \in 1..L : n \in 0..L /\ n # 0
    BY <1>1
  <2> QED BY <1>6, <2>1
<1>8. Iterates(u, L, Encoder, EncoderStart(c), step)
  <2>1. Follows(u, L, Encoder, EncoderStart(c), step)
    <3> HIDE DEF Is
    <3> QED BY <1>5, <1>7 DEF Follows
  <2> QED BY <1>1, <1>2, <1>4, <2>1, FollowsIterates
<1>9. u \in [0..L -> Encoder]
  BY <1>8 DEF Iterates
<1> QED BY <1>7, <1>9 DEF L, u

(* Merging a pair leaves the writer in a proper state.                          *)
LEMMA MergePairType ==
  ASSUME NEW o \in Writer, NEW p \in Pairs
  PROVE  MergePair(o, p) \in Writer
<1>1. p = [char |-> p.char, count |-> p.count] /\ p.char \in Nat /\ p.count \in 0..MAX_CHAR_LEN
  BY DEF Pairs
<1>2. MergePair(o, [char |-> p.char, count |-> p.count]) \in Writer
  BY Zenon, <1>1, MergePairIs
<1> QED BY <1>1, <1>2

(* write_result merges the pairs of a result in their order.                    *)
LEMMA MergeUpToIs ==
  ASSUME NEW o \in Writer, NEW ps \in Seq(Pairs)
  PROVE  /\ MergeUpTo(o, ps) \in [0..Len(ps) -> Writer] /\ MergeUpTo(o, ps)[0] = o
         /\ \A n \in 1..Len(ps) : MergeUpTo(o, ps)[n] = MergePair(MergeUpTo(o, ps)[n - 1], ps[n])
<1> DEFINE L == Len(ps)
           step == [n \in 1..L |-> [x \in Writer |-> MergePair(x, ps[n])]]
           Is(f) == f = [n \in 0..L |-> IF n = 0 THEN o ELSE MergePair(f[n - 1], ps[n])]
           u == MergeUpTo(o, ps)
<1>1. L \in Nat /\ \A n \in 1..L : ps[n] \in Pairs
  OBVIOUS
<1>2. o \in Writer
  OBVIOUS
<1>3. u = CHOOSE f : Is(f)
  BY Zenon DEF MergeUpTo
<1> HIDE DEF L, u
<1>4. Stepping(L, Writer, step)
  <2> SUFFICES ASSUME NEW n \in 1..L, NEW x \in Writer PROVE MergePair(x, ps[n]) \in Writer
    BY DEF Stepping
  <2> QED BY <1>1, MergePairType
<1>5. ASSUME NEW f, NEW n \in 1..L, f[n - 1] \in Writer
      PROVE  step[n][f[n - 1]] = MergePair(f[n - 1], ps[n])
  BY <1>5
<1> HIDE DEF step
<1>6. Is(u)
  <2>1. PICK f : Iterates(f, L, Writer, o, step)
    BY <1>1, <1>2, <1>4, UpToRecursion
  <2>2. \A n \in 1..L : n - 1 \in 0..L /\ n # 0
    BY <1>1
  <2>3. \A n \in 1..L : f[n] = MergePair(f[n - 1], ps[n])
    BY <1>5, <2>1, <2>2 DEF Iterates
  <2>4. Is(f)
    BY <1>1, <2>1, <2>2, <2>3 DEF Iterates
  <2> HIDE DEF Is
  <2> QED BY <1>3, <2>4
<1>7. /\ u = [n \in 0..L |-> u[n]] /\ u[0] = o
      /\ \A n \in 1..L : u[n] = MergePair(u[n - 1], ps[n])
  <2>1. 0 \in 0..L /\ \A n \in 1..L : n \in 0..L /\ n # 0
    BY <1>1
  <2> QED BY <1>6, <2>1
<1>8. Iterates(u, L, Writer, o, step)
  <2>1. Follows(u, L, Writer, o, step)
    <3> HIDE DEF Is
    <3> QED BY <1>5, <1>7 DEF Follows
  <2> QED BY <1>1, <1>2, <1>4, <2>1, FollowsIterates
<1>9. u \in [0..L -> Writer]
  BY <1>8 DEF Iterates
<1> QED BY <1>7, <1>9 DEF L, u

(* The one-pass version treats a byte that is not negative as the writer does.  *)
LEMMA SequentialByteIs ==
  ASSUME NEW o \in Writer, NEW b \in Nat
  PROVE  /\ SequentialByte(o, b) \in Writer
         /\ b \notin NegativeChars => SequentialByte(o, b) = AddByte(o, b)
<1>1. /\ o.char \in Nat /\ o.count \in 0..MAX_CHAR_LEN /\ o.stdout \in Seq(Pairs)
      /\ MAX_CHAR_LEN \in Nat \ {0}
      /\ o = [char |-> o.char, count |-> o.count, stdout |-> o.stdout]
  BY MaxCharLenAssumption DEF Writer
<1>2. /\ Flushed(o) \in Seq(Pairs)
      /\ o.count = MAX_CHAR_LEN => Flushed(o) = Append(o.stdout, Full(o.char))
  <2>1. /\ Flushed(o) \in Seq(Pairs)
        /\ Flushed(o) = IF o.count > 0
                        THEN Append(o.stdout, [char |-> o.char, count |-> o.count])
                        ELSE o.stdout
    BY Zenon, FlushedIs
  <2>2. o.count = MAX_CHAR_LEN => o.count > 0 /\ [char |-> o.char, count |-> o.count] = Full(o.char)
    BY <1>1 DEF Full
  <2> QED BY <2>1, <2>2
<1>3. AddByte(o, b) =
        IF b # o.char THEN [char |-> b, count |-> 1, stdout |-> Flushed(o)]
        ELSE IF o.count < MAX_CHAR_LEN
             THEN [char |-> b, count |-> o.count + 1, stdout |-> o.stdout]
             ELSE [char |-> b, count |-> 1, stdout |-> Append(o.stdout, Full(b))]
  BY AddByteIs
<1>4. CASE SameChar(b, o.char) /\ o.count < MAX_CHAR_LEN
  <2>1. b = o.char
    BY <1>4 DEF SameChar
  <2>2. SequentialByte(o, b) = [char |-> b, count |-> o.count + 1, stdout |-> o.stdout]
    BY <1>1, <1>4, <2>1 DEF SequentialByte
  <2>3. [char |-> b, count |-> o.count + 1, stdout |-> o.stdout] \in Writer
    BY <1>1, <1>4 DEF Writer
  <2> QED BY <1>3, <1>4, <2>1, <2>2, <2>3
<1>5. CASE ~(SameChar(b, o.char) /\ o.count < MAX_CHAR_LEN)
  <2>1. SequentialByte(o, b) = [char |-> b, count |-> 1, stdout |-> Flushed(o)]
    BY <1>5 DEF SequentialByte
  <2>2. [char |-> b, count |-> 1, stdout |-> Flushed(o)] \in Writer
    BY <1>1, <1>2 DEF Writer
  <2>3. ASSUME b \notin NegativeChars, b = o.char
        PROVE  o.count = MAX_CHAR_LEN /\ ~(o.count < MAX_CHAR_LEN)
    BY <1>1, <1>5, <2>3 DEF SameChar
  <2>4. b \notin NegativeChars => SequentialByte(o, b) = AddByte(o, b)
    BY <1>2, <1>3, <2>1, <2>3
  <2> QED BY <2>1, <2>2, <2>4
<1> QED BY <1>4, <1>5

(* The one-pass version scans its bytes in order.                               *)
LEMMA SequentialUpToIs ==
  ASSUME NEW o \in Writer, NEW bs \in Seq(Nat)
  PROVE  /\ SequentialUpTo(o, bs) \in [0..Len(bs) -> Writer] /\ SequentialUpTo(o, bs)[0] = o
         /\ \A n \in 1..Len(bs) : SequentialUpTo(o, bs)[n] = SequentialByte(SequentialUpTo(o, bs)[n - 1], bs[n])
<1> DEFINE L == Len(bs)
           step == [n \in 1..L |-> [x \in Writer |-> SequentialByte(x, bs[n])]]
           Is(f) == f = [n \in 0..L |-> IF n = 0 THEN o ELSE SequentialByte(f[n - 1], bs[n])]
           u == SequentialUpTo(o, bs)
<1>1. L \in Nat /\ \A n \in 1..L : bs[n] \in Nat
  OBVIOUS
<1>2. o \in Writer
  OBVIOUS
<1>3. u = CHOOSE f : Is(f)
  BY Zenon DEF SequentialUpTo
<1> HIDE DEF L, u
<1>4. Stepping(L, Writer, step)
  <2> SUFFICES ASSUME NEW n \in 1..L, NEW x \in Writer PROVE SequentialByte(x, bs[n]) \in Writer
    BY DEF Stepping
  <2> QED BY <1>1, SequentialByteIs
<1>5. ASSUME NEW f, NEW n \in 1..L, f[n - 1] \in Writer
      PROVE  step[n][f[n - 1]] = SequentialByte(f[n - 1], bs[n])
  BY <1>5
<1> HIDE DEF step
<1>6. Is(u)
  <2>1. PICK f : Iterates(f, L, Writer, o, step)
    BY <1>1, <1>2, <1>4, UpToRecursion
  <2>2. \A n \in 1..L : n - 1 \in 0..L /\ n # 0
    BY <1>1
  <2>3. \A n \in 1..L : f[n] = SequentialByte(f[n - 1], bs[n])
    BY <1>5, <2>1, <2>2 DEF Iterates
  <2>4. Is(f)
    BY <1>1, <2>1, <2>2, <2>3 DEF Iterates
  <2> HIDE DEF Is
  <2> QED BY <1>3, <2>4
<1>7. /\ u = [n \in 0..L |-> u[n]] /\ u[0] = o
      /\ \A n \in 1..L : u[n] = SequentialByte(u[n - 1], bs[n])
  <2>1. 0 \in 0..L /\ \A n \in 1..L : n \in 0..L /\ n # 0
    BY <1>1
  <2> QED BY <1>6, <2>1
<1>8. Iterates(u, L, Writer, o, step)
  <2>1. Follows(u, L, Writer, o, step)
    <3> HIDE DEF Is
    <3> QED BY <1>5, <1>7 DEF Follows
  <2> QED BY <1>1, <1>2, <1>4, <2>1, FollowsIterates
<1>9. u \in [0..L -> Writer]
  BY <1>8 DEF Iterates
<1> QED BY <1>7, <1>9 DEF L, u

(* The writer that is given the bytes of a stream one at a time.                *)
LEMMA WrittenIs ==
  ASSUME NEW d \in Seq(Nat)
  PROVE  /\ Written(d) \in [0..Len(d) -> Writer] /\ Written(d)[0] = WriterStart
         /\ \A n \in 1..Len(d) : Written(d)[n] = AddByte(Written(d)[n - 1], d[n])
<1> DEFINE L == Len(d)
           step == [n \in 1..L |-> [x \in Writer |-> AddByte(x, d[n])]]
           Is(f) == f = [n \in 0..L |-> IF n = 0 THEN WriterStart ELSE AddByte(f[n - 1], d[n])]
           u == Written(d)
<1>1. L \in Nat /\ \A n \in 1..L : d[n] \in Nat
  OBVIOUS
<1>2. WriterStart \in Writer
  BY MaxCharLenAssumption DEF WriterStart, Writer
<1>3. u = CHOOSE f : Is(f)
  BY Zenon DEF Written
<1> HIDE DEF L, u
<1>4. Stepping(L, Writer, step)
  <2> SUFFICES ASSUME NEW n \in 1..L, NEW x \in Writer PROVE AddByte(x, d[n]) \in Writer
    BY DEF Stepping
  <2> QED BY <1>1, AddByteIs
<1>5. ASSUME NEW f, NEW n \in 1..L, f[n - 1] \in Writer
      PROVE  step[n][f[n - 1]] = AddByte(f[n - 1], d[n])
  BY <1>5
<1> HIDE DEF step
<1>6. Is(u)
  <2>1. PICK f : Iterates(f, L, Writer, WriterStart, step)
    BY <1>1, <1>2, <1>4, UpToRecursion
  <2>2. \A n \in 1..L : n - 1 \in 0..L /\ n # 0
    BY <1>1
  <2>3. \A n \in 1..L : f[n] = AddByte(f[n - 1], d[n])
    BY <1>5, <2>1, <2>2 DEF Iterates
  <2>4. Is(f)
    BY <1>1, <2>1, <2>2, <2>3 DEF Iterates
  <2> HIDE DEF Is
  <2> QED BY <1>3, <2>4
<1>7. /\ u = [n \in 0..L |-> u[n]] /\ u[0] = WriterStart
      /\ \A n \in 1..L : u[n] = AddByte(u[n - 1], d[n])
  <2>1. 0 \in 0..L /\ \A n \in 1..L : n \in 0..L /\ n # 0
    BY <1>1
  <2> QED BY <1>6, <2>1
<1>8. Iterates(u, L, Writer, WriterStart, step)
  <2>1. Follows(u, L, Writer, WriterStart, step)
    <3> HIDE DEF Is
    <3> QED BY <1>5, <1>7 DEF Follows
  <2> QED BY <1>1, <1>2, <1>4, <2>1, FollowsIterates
<1>9. u \in [0..L -> Writer]
  BY <1>8 DEF Iterates
<1> QED BY <1>7, <1>9 DEF L, u

--------------------------------------------------------------------------------
(* Merging one pair more than before.                                           *)
LEMMA MergeAppend ==
  ASSUME NEW o \in Writer, NEW ps \in Seq(Pairs), NEW p \in Pairs
  PROVE  /\ MergeResult(o, ps) \in Writer
         /\ MergeResult(o, Append(ps, p)) = MergePair(MergeResult(o, ps), p)
<1> DEFINE L == Len(ps)
           qs == Append(ps, p)
           u == MergeUpTo(o, ps)
           v == MergeUpTo(o, qs)
           P == {n \in 0..L : v[n] = u[n]}
<1>1. /\ L \in Nat /\ qs \in Seq(Pairs) /\ Len(qs) = L + 1 /\ qs[L + 1] = p
      /\ \A n \in 1..L : qs[n] = ps[n]
  OBVIOUS
<1>2. u \in [0..L -> Writer] /\ u[0] = o /\ \A n \in 1..L : u[n] = MergePair(u[n - 1], ps[n])
  BY MergeUpToIs
<1>3. v[0] = o /\ \A n \in 1..(L + 1) : v[n] = MergePair(v[n - 1], qs[n])
  <2> HIDE DEF qs
  <2>1. /\ v \in [0..Len(qs) -> Writer] /\ v[0] = o
        /\ \A n \in 1..Len(qs) : v[n] = MergePair(v[n - 1], qs[n])
    BY <1>1, MergeUpToIs
  <2> QED BY <1>1, <2>1
<1>4. MergeResult(o, ps) = u[L] /\ MergeResult(o, qs) = v[L + 1]
  BY <1>1 DEF MergeResult
<1> HIDE DEF L, qs, u, v
<1>5. 0 \in P /\ \A n \in 1..L : n - 1 \in P => n \in P
  <2>1. \A n \in 1..L : n \in 1..(L + 1)
    BY <1>1
  <2> QED BY <1>1, <1>2, <1>3, <2>1
<1> HIDE DEF P
<1>6. L \in P
  <2>1. L \in Nat /\ L \in 0..L
    BY <1>1
  <2>2. \A n \in 0..L : n \in P
    BY <1>5, <2>1, UpToInduction
  <2> QED BY <2>1, <2>2
<1>7. v[L + 1] = MergePair(v[L], p)
  <2>1. L + 1 \in 1..(L + 1) /\ (L + 1) - 1 = L
    BY <1>1
  <2> QED BY <1>1, <1>3, <2>1
<1> QED BY <1>2, <1>4, <1>6, <1>7 DEF P, qs

(* An empty result changes nothing.                                             *)
LEMMA MergeNothing ==
  ASSUME NEW o \in Writer
  PROVE  MergeResult(o, <<>>) = o
<1>1. <<>> \in Seq(Pairs) /\ Len(<<>>) = 0
  OBVIOUS
<1>2. MergeUpTo(o, <<>>)[0] = o
  BY <1>1, MergeUpToIs
<1> QED BY <1>1, <1>2 DEF MergeResult

(* A chunk of a stream is the bytes it is cut from.                             *)
LEMMA ChunkIs ==
  ASSUME NEW d \in Seq(Nat), NEW a \in Nat, NEW n \in Nat \ {0}, a + n <= Len(d)
  PROVE  /\ SubSeq(d, a + 1, a + n) \in Seq(Nat) /\ Len(SubSeq(d, a + 1, a + n)) = n
         /\ SubSeq(d, a + 1, a + n) # <<>>
         /\ \A k \in 1..n : /\ SubSeq(d, a + 1, a + n)[k] = d[a + k]
                            /\ SubSeq(d, a + 1, a + n)[k] \in Nat /\ a + k \in 1..Len(d)
<1> DEFINE c == SubSeq(d, a + 1, a + n)
<1>1. a + 1 \in Nat /\ a + n \in Nat /\ (a + n) - (a + 1) + 1 = n /\ Len(d) \in Nat
  OBVIOUS
<1>2. c \in Seq(Nat) /\ Len(c) = n
  BY <1>1
<1>3. \A k \in 1..n : a + k \in 1..Len(d)
  BY <1>1
<1>4. \A k \in 1..n : c[k] = d[a + k]
  BY <1>1
<1> HIDE DEF c
<1>5. c # <<>> /\ \A k \in 1..n : c[k] \in Nat
  BY <1>2
<1> QED BY <1>2, <1>3, <1>4, <1>5 DEF c

(* What encoder() makes of a chunk is merged like the bytes of the chunk one    *)
(* by one, wherever the chunk was cut.                                          *)
LEMMA ChunkMerged ==
  ASSUME NEW d \in Seq(Nat), NEW a \in Nat, NEW n \in Nat \ {0}, a + n <= Len(d)
  PROVE  MergeResult(Written(d)[a], encoder(SubSeq(d, a + 1, a + n))) = Written(d)[a + n]
<1> DEFINE c == SubSeq(d, a + 1, a + n)
           e == EncodeUpTo(c)
           w == Written(d)
           done(k) == MergeResult(w[a], e[k].buffer)
           last(k) == [char |-> e[k].char, count |-> e[k].count]
           P == {k \in 0..n : k > 0 => MergePair(done(k), last(k)) = w[a + k]}
<1>1. /\ c \in Seq(Nat) /\ Len(c) = n /\ c # <<>>
      /\ \A k \in 1..n : c[k] = d[a + k] /\ c[k] \in Nat /\ a + k \in 1..Len(d)
  BY ChunkIs
<1>2. w \in [0..Len(d) -> Writer] /\ \A k \in 1..Len(d) : w[k] = AddByte(w[k - 1], d[k])
  BY WrittenIs
<1>3. /\ e \in [0..n -> Encoder] /\ e[0] = [char |-> c[1], count |-> 0, buffer |-> <<>>]
      /\ \A k \in 1..n : e[k] = EncodeByte(e[k - 1], c[k])
  <2> HIDE DEF c
  <2>1. /\ e \in [0..Len(c) -> Encoder] /\ e[0] = EncoderStart(c)
        /\ \A k \in 1..Len(c) : e[k] = EncodeByte(e[k - 1], c[k])
    BY <1>1, EncodeUpToIs
  <2> QED BY <1>1, <2>1 DEF EncoderStart
<1> HIDE DEF c, e, w
<1>4. /\ w[a] \in Writer /\ MAX_CHAR_LEN \in Nat \ {0}
      /\ \A k \in 0..n : w[a + k] \in Writer
      /\ \A k \in 1..n : w[a + k] = AddByte(w[a + (k - 1)], c[k])
  <2>1. \A k \in 0..n : a + k \in 0..Len(d)
    OBVIOUS
  <2>2. \A k \in 1..n : (a + k) - 1 = a + (k - 1)
    OBVIOUS
  <2>3. a \in 0..Len(d)
    OBVIOUS
  <2> QED BY <1>1, <1>2, <2>1, <2>2, <2>3, MaxCharLenAssumption
<1>5. ASSUME NEW k \in 0..n
      PROVE  /\ e[k].buffer \in Seq(Pairs) /\ last(k) \in Pairs /\ done(k) \in Writer
             /\ e[k].char \in Nat /\ e[k].count \in 0..MAX_CHAR_LEN /\ e[k] \in Encoder
             /\ MergeResult(w[a], Append(e[k].buffer, last(k))) = MergePair(done(k), last(k))
  <2>1. /\ e[k].buffer \in Seq(Pairs) /\ last(k) \in Pairs /\ e[k].char \in Nat
        /\ e[k].count \in 0..MAX_CHAR_LEN /\ e[k] \in Encoder
    BY <1>3 DEF Encoder, Pairs
  <2> HIDE DEF last
  <2> QED BY <1>4, <2>1, MergeAppend
<1>6. ASSUME NEW k \in 1..n, k - 1 \in P PROVE k \in P
  <2>1. k - 1 \in 0..n /\ k \in 0..n
    OBVIOUS
  <2>2. e[k] = IF SameChar(c[k], e[k - 1].char) /\ e[k - 1].count < MAX_CHAR_LEN
               THEN [char |-> e[k - 1].char, count |-> e[k - 1].count + 1,
                     buffer |-> e[k - 1].buffer]
               ELSE [char |-> c[k], count |-> 1, buffer |-> Append(e[k - 1].buffer, last(k - 1))]
    <3>1. e[k - 1] \in Encoder /\ c[k] \in Nat /\ e[k] = EncodeByte(e[k - 1], c[k])
      BY <1>1, <1>3, <1>5, <2>1
    <3> QED BY <3>1, EncodeByteIs
  <2>3. /\ done(k - 1) \in Writer /\ e[k - 1].char \in Nat /\ e[k - 1].count \in 0..MAX_CHAR_LEN
        /\ MergeResult(w[a], Append(e[k - 1].buffer, last(k - 1))) =
             MergePair(done(k - 1), last(k - 1))
    BY <1>5, <2>1
  <2> DEFINE m == MergePair(done(k - 1), last(k - 1))
  <2>4. CASE SameChar(c[k], e[k - 1].char) /\ e[k - 1].count < MAX_CHAR_LEN
    <3>1. /\ c[k] = e[k - 1].char /\ done(k) = done(k - 1)
          /\ last(k) = [char |-> c[k], count |-> e[k - 1].count + 1]
          /\ last(k - 1) = [char |-> c[k], count |-> e[k - 1].count]
      BY <2>2, <2>4 DEF SameChar
    <3>2. MergePair(done(k), last(k)) = AddByte(m, c[k])
      <4>1. e[k - 1].count \in 0..(MAX_CHAR_LEN - 1) /\ c[k] \in Nat
        <5>1. MAX_CHAR_LEN \in Nat
          BY <1>4
        <5>2. c[k] \in Nat
          BY <1>1
        <5> QED BY <2>3, <2>4, <5>1, <5>2
      <4> HIDE DEF done, last
      <4> QED BY <2>3, <3>1, <4>1, RunGrows
    <3>3. CASE k = 1
      <4>1. last(k) = One(c[k]) /\ done(k) = w[a]
        <5>1. e[k - 1].count = 0 /\ e[k - 1].buffer = <<>>
          BY <1>3, <3>3
        <5>2. done(k - 1) = w[a]
          BY <1>4, <5>1, MergeNothing
        <5> QED BY <3>1, <5>1, <5>2 DEF One
      <4>2. w[a + k] = AddByte(w[a], c[k])
        <5>1. a + (k - 1) = a
          BY <3>3
        <5> QED BY <1>4, <5>1
      <4> HIDE DEF done, last
      <4> QED BY <2>1, <4>1, <4>2 DEF AddByte
    <3>4. CASE k > 1
      <4>1. m = w[a + (k - 1)]
        BY <1>6, <3>4
      <4>2. w[a + k] = AddByte(w[a + (k - 1)], c[k])
        BY <1>4
      <4> HIDE DEF done, last, m
      <4> QED BY <2>1, <3>2, <4>1, <4>2
    <3> QED BY <3>3, <3>4
  <2>5. CASE ~(SameChar(c[k], e[k - 1].char) /\ e[k - 1].count < MAX_CHAR_LEN)
    <3>1. done(k) = m /\ last(k) = One(c[k])
      BY <2>2, <2>3, <2>5 DEF One
    <3>2. CASE k = 1
      <4>1. m = MergePair(w[a], [char |-> c[k], count |-> 0])
        <5>1. last(k - 1) = [char |-> c[k], count |-> 0] /\ e[k - 1].buffer = <<>>
          BY <1>3, <3>2
        <5>2. done(k - 1) = w[a]
          BY <1>4, <5>1, MergeNothing
        <5> QED BY <5>1, <5>2
      <4>2. MergePair(w[a], [char |-> c[k], count |-> 0 + 1]) = AddByte(m, c[k])
        <5>1. 0 \in 0..(MAX_CHAR_LEN - 1) /\ c[k] \in Nat
          BY <1>1, <1>4
        <5> HIDE DEF m
        <5> QED BY <1>4, <4>1, <5>1, RunGrows
      <4>3. w[a + k] = AddByte(w[a], c[k])
        <5>1. a + (k - 1) = a
          BY <3>2
        <5> QED BY <1>4, <5>1
      <4>4. AddByte(w[a], c[k]) = MergePair(w[a], [char |-> c[k], count |-> 0 + 1])
        BY DEF AddByte, One
      <4> HIDE DEF done, last, m
      <4> QED BY <2>1, <3>1, <4>2, <4>3, <4>4 DEF AddByte
    <3>3. CASE k > 1
      <4>1. m = w[a + (k - 1)]
        BY <1>6, <3>3
      <4>2. w[a + k] = AddByte(w[a + (k - 1)], c[k])
        BY <1>4
      <4> HIDE DEF done, last, m
      <4> QED BY <2>1, <3>1, <4>1, <4>2 DEF AddByte
    <3> QED BY <3>2, <3>3
  <2> QED BY <2>4, <2>5
<1>7. n \in P
  <2>1. 0 \in P
    OBVIOUS
  <2> HIDE DEF P
  <2>2. \A k \in 0..n : k \in P
    BY <1>6, <2>1, UpToInduction
  <2> QED BY <2>2
<1>8. encoder(c) = Append(e[n].buffer, last(n))
  <2>1. Pair(e[n].char, e[n].count) = last(n)
    BY <1>5, PairIs
  <2> QED BY <1>1, <2>1 DEF encoder, e
<1>9. MergeResult(w[a], Append(e[n].buffer, last(n))) = MergePair(done(n), last(n))
  <2>1. n \in 0..n
    OBVIOUS
  <2> HIDE DEF done, last
  <2> QED BY <1>5, <2>1
<1>10. MergePair(done(n), last(n)) = w[a + n]
  BY <1>7
<1> HIDE DEF done, last, P
<1> QED BY <1>8, <1>9, <1>10 DEF c, w

--------------------------------------------------------------------------------
(* The reference, when the stream grows by a byte.                                *)
RunsOf(d, i) == {s \in RunStarts(d) : s <= i}

(* Appending a byte to a stream.                                                *)
LEMMA AppendIs ==
  ASSUME NEW d \in Seq(Nat), NEW b \in Nat
  PROVE  /\ Append(d, b) \in Seq(Nat) /\ Len(Append(d, b)) = Len(d) + 1 /\ Len(d) \in Nat
         /\ DOMAIN d = 1..Len(d) /\ DOMAIN Append(d, b) = 1..(Len(d) + 1)
         /\ Append(d, b)[Len(d) + 1] = b /\ \A i \in 1..Len(d) : Append(d, b)[i] = d[i]
OBVIOUS

(* A byte that repeats the last one starts no run, any other one does.          *)
LEMMA RunsGrow ==
  ASSUME NEW d \in Seq(Nat), NEW b \in Nat
  PROVE  LET x == Append(d, b)
             n == Len(d)
         IN  /\ \A i \in 1..n : RunsOf(x, i) = RunsOf(d, i)
             /\ RunsOf(x, n + 1) = IF n > 0 /\ d[n] = b THEN RunsOf(d, n)
                                                       ELSE RunsOf(d, n) \union {n + 1}
             /\ RunsOf(d, n) \subseteq 1..n
<1> DEFINE x == Append(d, b)
           n == Len(d)
<1>1. /\ DOMAIN d = 1..n /\ DOMAIN x = 1..(n + 1) /\ n \in Nat
      /\ x[n + 1] = b /\ \A i \in 1..n : x[i] = d[i]
  BY AppendIs
<1> HIDE DEF x, n
<1>2. ASSUME NEW i \in 1..n PROVE i \in RunStarts(x) <=> i \in RunStarts(d)
  <2>1. i = 1 \/ i - 1 \in 1..n
    BY <1>1
  <2> QED BY <1>1, <2>1 DEF RunStarts
<1>3. n + 1 \in RunStarts(x) <=> ~(n > 0 /\ d[n] = b)
  <2>1. (n + 1) - 1 = n /\ n + 1 \in DOMAIN x
    BY <1>1
  <2>2. n + 1 \in RunStarts(x) <=> n + 1 = 1 \/ x[n] # b
    BY <1>1, <2>1 DEF RunStarts
  <2>3. n + 1 = 1 <=> ~(n > 0)
    BY <1>1
  <2>4. n > 0 => x[n] = d[n]
    BY <1>1
  <2> QED BY <2>2, <2>3, <2>4
<1>4. RunStarts(d) \subseteq 1..n /\ RunStarts(x) \subseteq 1..(n + 1)
  BY <1>1 DEF RunStarts
<1>5. \A i \in 1..n : RunsOf(x, i) = RunsOf(d, i)
  BY <1>1, <1>2, <1>4 DEF RunsOf
<1>6. RunsOf(x, n + 1) = RunStarts(x) /\ RunsOf(d, n) = RunStarts(d)
  BY <1>1, <1>4 DEF RunsOf
<1>7. RunStarts(x) = IF n > 0 /\ d[n] = b THEN RunStarts(d) ELSE RunStarts(d) \union {n + 1}
  <2>1. \A i \in 1..(n + 1) : i \in 1..n \/ i = n + 1
    BY <1>1
  <2>2. \A i : i \in 1..n => i \in 1..(n + 1) /\ i # n + 1
    BY <1>1
  <2>3. CASE n > 0 /\ d[n] = b
    <3>1. n + 1 \notin RunStarts(x)
      BY <1>3, <2>3
    <3>2. \A i : i \in RunStarts(x) <=> i \in RunStarts(d)
      BY <1>2, <1>4, <2>1, <3>1
    <3>3. RunStarts(x) = RunStarts(d)
      BY <3>2
    <3> QED BY <2>3, <3>3
  <2>4. CASE ~(n > 0 /\ d[n] = b)
    BY <1>2, <1>3, <1>4, <2>1, <2>2, <2>4
  <2> QED BY <2>3, <2>4
<1> QED BY <1>4, <1>5, <1>6, <1>7 DEF x, n

(* Quotient and remainder are unique.                                           *)
LEMMA RemainderIs ==
  ASSUME NEW m \in Nat \ {0}, NEW q \in Nat, NEW r \in 0..(m - 1)
  PROVE  (m * q + r) % m = r
OBVIOUS

(* Counting up to m and starting again.                                         *)
LEMMA Remainder ==
  ASSUME NEW m \in Nat \ {0}, NEW k \in Nat
  PROVE  /\ k % m \in 0..(m - 1) /\ 0 % m = 0
         /\ (k + 1) % m = IF k % m = m - 1 THEN 0 ELSE (k % m) + 1
<1> DEFINE q == k \div m
           r == k % m
<1>1. q \in Nat /\ r \in 0..(m - 1) /\ k = m * q + r /\ 0 % m = 0
  OBVIOUS
<1> HIDE DEF q, r
<1>2. CASE r = m - 1
  <2>1. k + 1 = m * (q + 1) + 0 /\ q + 1 \in Nat /\ 0 \in 0..(m - 1) /\ k + 1 \in Nat
    BY <1>1, <1>2
  <2>2. (m * (q + 1) + 0) % m = 0
    BY <2>1, RemainderIs
  <2> QED BY <1>1, <1>2, <2>1, <2>2 DEF r
<1>3. CASE r # m - 1
  <2>1. k + 1 = m * q + (r + 1) /\ r + 1 \in 0..(m - 1) /\ k + 1 \in Nat
    BY <1>1, <1>3
  <2>2. (m * q + (r + 1)) % m = r + 1
    BY <1>1, <2>1, RemainderIs
  <2> QED BY <1>1, <1>3, <2>1, <2>2 DEF r
<1> QED BY <1>2, <1>3

(* How far up in a set of numbers y is.                                           *)
Below(S, y) == {z \in S : z <= y}

(* A number above all of S is the last one of S with it, and moves no other.    *)
LEMMA KthGrows ==
  ASSUME NEW S \in SUBSET Nat, IsFiniteSet(S), NEW m \in Nat, \A s \in S : s < m
  PROVE  LET T == S \union {m}
         IN  /\ Cardinality(S) \in Nat /\ IsFiniteSet(T) /\ Cardinality(T) = Cardinality(S) + 1
             /\ \A k \in 1..Cardinality(S) : Kth(T, k) = Kth(S, k)
             /\ Kth(T, Cardinality(S) + 1) = m
<1> DEFINE T == S \union {m}
           N == Cardinality(S)
<1>1. m \notin S
  OBVIOUS
<1>2. N \in Nat /\ IsFiniteSet(T) /\ Cardinality(T) = N + 1
  BY <1>1, FS_CardinalityType, FS_AddElement
<1>3. \A y \in S : Below(T, y) = Below(S, y)
  BY DEF Below
<1>4. Below(T, m) = T
  <2>1. m <= m /\ \A s \in S : s <= m
    OBVIOUS
  <2> QED BY <2>1 DEF Below
<1>5. ASSUME NEW y \in S PROVE Cardinality(Below(S, y)) <= N
  <2>1. Below(S, y) \subseteq S
    BY DEF Below
  <2> QED BY <2>1, FS_Subset
<1> DEFINE At(U, k) == {y \in U : Cardinality(Below(U, y)) = k}
<1>6. \A k \in 1..N : At(T, k) = At(S, k)
  <2> SUFFICES ASSUME NEW k \in 1..N PROVE At(T, k) = At(S, k)
    OBVIOUS
  <2>1. Cardinality(Below(T, m)) # k
    <3>1. Cardinality(Below(T, m)) = N + 1
      BY <1>2, <1>4
    <3> HIDE DEF N
    <3> QED BY <1>2, <3>1
  <2> QED BY <1>3, <2>1
<1>7. At(T, N + 1) = {m}
  <2>1. \A y \in S : Cardinality(Below(T, y)) # N + 1
    <3> SUFFICES ASSUME NEW y \in S PROVE Cardinality(Below(T, y)) # N + 1
      OBVIOUS
    <3>1. Cardinality(Below(T, y)) <= N
      BY <1>3, <1>5
    <3> QED BY <1>2, <3>1
  <2>2. Cardinality(Below(T, m)) = N + 1
    BY <1>2, <1>4
  <2> HIDE DEF N
  <2> QED BY <2>1, <2>2
<1>8. \A U, k : Kth(U, k) = CHOOSE y \in At(U, k) : TRUE
  BY Zenon DEF Kth, Below
<1>9. Kth(T, N + 1) = m
  <2>1. Kth(T, N + 1) \in {m}
    BY <1>7, <1>8
  <2> QED BY <2>1
<1>10. \A k \in 1..N : Kth(T, k) = Kth(S, k)
  <2> HIDE DEF At, T
  <2> QED BY <1>6, <1>8
<1> QED BY <1>2, <1>9, <1>10

(* Where the k-th pair begins, or the end of the stream behind the last one.      *)
Begin(d, k) == IF k > Cardinality(PairStarts(d)) THEN Len(d) + 1 ELSE Kth(PairStarts(d), k)

(* The canonical encoding, with the starts of the pairs named.                  *)
LEMMA CanonicalIs ==
  ASSUME NEW d
  PROVE  Canonical(d) = [k \in 1..Cardinality(PairStarts(d)) |->
                           [char |-> d[Begin(d, k)], count |-> Begin(d, k + 1) - Begin(d, k)]]
BY DEF Canonical, Begin

(* Where the pairs start in a stream, and how far its last byte is from the last  *)
(* start.                                                                         *)
StartsAre(d) ==
  /\ IsFiniteSet(PairStarts(d)) /\ PairStarts(d) \subseteq 1..Len(d)
  /\ Cardinality(PairStarts(d)) \in Nat
  /\ \A k \in 1..Cardinality(PairStarts(d)) : Kth(PairStarts(d), k) \in PairStarts(d)
  /\ Len(d) > 0 =>
       /\ Cardinality(PairStarts(d)) > 0
       /\ OffsetInRun(d, Len(d)) \in Nat /\ Max(RunsOf(d, Len(d))) \in Nat
       /\ Len(d) - Kth(PairStarts(d), Cardinality(PairStarts(d))) =
            OffsetInRun(d, Len(d)) % MAX_CHAR_LEN
       /\ d[Kth(PairStarts(d), Cardinality(PairStarts(d)))] = d[Len(d)]

(* The empty stream has no pairs.                                               *)
LEMMA NothingStarts == StartsAre(<<>>) /\ Canonical(<<>>) = <<>>
<1>1. PairStarts(<<>>) = {}
  BY DEF PairStarts
<1>2. IsFiniteSet({}) /\ Cardinality({}) = 0 /\ Len(<<>>) = 0
  BY FS_EmptySet
<1>3. Canonical(<<>>) = <<>>
  <2>1. Canonical(<<>>) = [k \in 1..0 |-> [char |-> <<>>[Begin(<<>>, k)],
                                          count |-> Begin(<<>>, k + 1) - Begin(<<>>, k)]]
    BY <1>1, <1>2, CanonicalIs
  <2> QED BY <2>1
<1>4. StartsAre(<<>>)
  <2>1. ~(Len(<<>>) > 0) /\ \A k \in 1..0 : FALSE
    OBVIOUS
  <2>2. IsFiniteSet(PairStarts(<<>>)) /\ Cardinality(PairStarts(<<>>)) = 0
    BY <1>1, <1>2
  <2>3. PairStarts(<<>>) \subseteq 1..Len(<<>>)
    BY <1>1
  <2> QED BY <2>1, <2>2, <2>3 DEF StartsAre
<1> QED BY <1>3, <1>4

(* Starts goes on at the new byte every MAX_CHAR_LEN bytes of a run.              *)
LEMMA StartsGrow ==
  ASSUME NEW d \in Seq(Nat), NEW b \in Nat, StartsAre(d)
  PROVE  LET x == Append(d, b)
             n == Len(d)
             N == Cardinality(PairStarts(d))
             full == n - Kth(PairStarts(d), N) = MAX_CHAR_LEN - 1
         IN  /\ StartsAre(x)
             /\ IF n > 0 /\ d[n] = b /\ ~full
                THEN PairStarts(x) = PairStarts(d)
                ELSE /\ Cardinality(PairStarts(x)) = N + 1 /\ Kth(PairStarts(x), N + 1) = n + 1
                     /\ \A k \in 1..N : Kth(PairStarts(x), k) = Kth(PairStarts(d), k)
<1> DEFINE x == Append(d, b)
           n == Len(d)
           S == PairStarts(d)
           T == PairStarts(x)
           N == Cardinality(S)
           last == Kth(S, N)
           o == OffsetInRun(d, n)
           same == n > 0 /\ d[n] = b
<1>1. /\ x \in Seq(Nat) /\ n \in Nat /\ Len(x) = n + 1 /\ x[n + 1] = b
      /\ DOMAIN d = 1..n /\ DOMAIN x = 1..(n + 1) /\ \A i \in 1..n : x[i] = d[i]
      /\ MAX_CHAR_LEN \in Nat \ {0}
  BY AppendIs, MaxCharLenAssumption
<1>2. /\ IsFiniteSet(S) /\ S \subseteq 1..n /\ N \in Nat /\ \A k \in 1..N : Kth(S, k) \in S
      /\ n > 0 => /\ N > 0 /\ n - last = o % MAX_CHAR_LEN /\ d[last] = d[n]
                  /\ o \in Nat /\ Max(RunsOf(d, n)) \in Nat
  BY DEF StartsAre
<1>3. /\ \A i \in 1..n : RunsOf(x, i) = RunsOf(d, i)
      /\ RunsOf(x, n + 1) = IF same THEN RunsOf(d, n) ELSE RunsOf(d, n) \union {n + 1}
      /\ RunsOf(d, n) \subseteq 1..n
  BY RunsGrow
<1>4. \A y, i : OffsetInRun(y, i) = i - Max(RunsOf(y, i))
  BY DEF OffsetInRun, RunsOf
<1>5. \A i \in 1..n : OffsetInRun(x, i) = OffsetInRun(d, i)
  BY <1>3, <1>4
<1>6. /\ OffsetInRun(x, n + 1) = IF same THEN o + 1 ELSE 0
      /\ Max(RunsOf(x, n + 1)) \in Nat
  <2>1. CASE same
    <3>1. OffsetInRun(x, n + 1) = (n + 1) - Max(RunsOf(d, n)) /\ o = n - Max(RunsOf(d, n))
      BY <1>3, <1>4, <2>1
    <3>2. n \in Nat /\ Max(RunsOf(d, n)) \in Nat
      BY <1>1, <1>2, <2>1
    <3>3. (n + 1) - Max(RunsOf(d, n)) = (n - Max(RunsOf(d, n))) + 1
      BY <3>2
    <3>4. Max(RunsOf(x, n + 1)) = Max(RunsOf(d, n))
      BY <1>3, <2>1
    <3> QED BY <2>1, <3>1, <3>2, <3>3, <3>4
  <2>2. CASE ~same
    <3>1. n + 1 \in RunsOf(x, n + 1) /\ RunsOf(x, n + 1) \in SUBSET Int
      BY <1>1, <1>3, <2>2
    <3>2. \A y \in RunsOf(x, n + 1) : y <= n + 1
      BY <1>1, <1>3, <2>2
    <3>3. Max(RunsOf(x, n + 1)) = n + 1
      BY <3>1, <3>2, MaxIs
    <3> QED BY <1>1, <1>4, <2>2, <3>3
  <2> QED BY <2>1, <2>2
<1>7. n + 1 \in T <=> OffsetInRun(x, n + 1) % MAX_CHAR_LEN = 0
  BY <1>1 DEF PairStarts
<1>8. T = IF n + 1 \in T THEN S \union {n + 1} ELSE S
  BY <1>1, <1>5 DEF PairStarts
<1> DEFINE full == n - last = MAX_CHAR_LEN - 1
           ox == OffsetInRun(x, n + 1)
<1>9. Max(RunsOf(x, n + 1)) \in Nat
  BY <1>6
<1> HIDE DEF x, n, S, T, N, last, o, ox
<1>10. CASE same /\ ~full
  <2>1. n > 0 /\ o \in Nat /\ n - last = o % MAX_CHAR_LEN /\ d[last] = d[n] /\ N > 0
    BY <1>2, <1>10
  <2>2. /\ (o + 1) % MAX_CHAR_LEN = (o % MAX_CHAR_LEN) + 1
        /\ (o % MAX_CHAR_LEN) + 1 # 0
    <3>1. /\ (o + 1) % MAX_CHAR_LEN = IF o % MAX_CHAR_LEN = MAX_CHAR_LEN - 1
                                      THEN 0 ELSE (o % MAX_CHAR_LEN) + 1
          /\ o % MAX_CHAR_LEN \in 0..(MAX_CHAR_LEN - 1)
      BY <1>1, <2>1, Remainder
    <3> QED BY <1>10, <2>1, <3>1
  <2>3. ox = o + 1
    BY <1>6, <1>10 DEF ox
  <2>4. T = S
    BY <1>7, <1>8, <2>2, <2>3 DEF ox
  <2>5. last \in S /\ last \in 1..n
    <3>1. N \in 1..N
      BY <1>2, <2>1
    <3> QED BY <1>2, <3>1 DEF last
  <2>6. (n + 1) - last = ox % MAX_CHAR_LEN
    BY <1>1, <2>1, <2>2, <2>3, <2>5
  <2>7. x[last] = x[n + 1]
    BY <1>1, <1>10, <2>1, <2>5
  <2>8. S \subseteq 1..(n + 1)
    BY <1>1, <1>2
  <2>9. StartsAre(x)
    <3>1. ox \in Nat
      BY <2>1, <2>3
    <3> QED BY <1>1, <1>2, <1>9, <2>1, <2>4, <2>6, <2>7, <2>8, <3>1 DEF StartsAre, T, N, last, ox
  <2> QED BY <1>10, <2>4, <2>9 DEF x, n, S, T, N, last
<1>11. CASE ~(same /\ ~full)
  <2>1. ox \in Nat /\ ox % MAX_CHAR_LEN = 0
    <3>1. CASE same
      <4>1. o \in Nat /\ o % MAX_CHAR_LEN = MAX_CHAR_LEN - 1 /\ ox = o + 1
        BY <1>2, <1>6, <1>11, <3>1 DEF ox
      <4>2. (o + 1) % MAX_CHAR_LEN = 0
        BY <1>1, <4>1, Remainder
      <4> QED BY <4>1, <4>2
    <3>2. CASE ~same
      <4>1. 0 % MAX_CHAR_LEN = 0
        BY <1>1, Remainder
      <4> QED BY <1>6, <3>2, <4>1 DEF ox
    <3> QED BY <3>1, <3>2
  <2>2. T = S \union {n + 1}
    BY <1>7, <1>8, <2>1 DEF ox
  <2>3. S \in SUBSET Nat /\ n + 1 \in Nat /\ \A s \in S : s < n + 1
    BY <1>1, <1>2
  <2>4. /\ IsFiniteSet(T) /\ Cardinality(T) = N + 1
        /\ \A k \in 1..N : Kth(T, k) = Kth(S, k)
        /\ Kth(T, N + 1) = n + 1
    BY <1>2, <2>2, <2>3, KthGrows DEF N
  <2>5. \A k \in 1..(N + 1) : Kth(T, k) \in T
    <3> SUFFICES ASSUME NEW k \in 1..(N + 1) PROVE Kth(T, k) \in T
      OBVIOUS
    <3>1. k \in 1..N \/ k = N + 1
      BY <1>2
    <3> QED BY <1>2, <2>2, <2>4, <3>1
  <2>6. StartsAre(x)
    <3>1. T \subseteq 1..(n + 1)
      BY <1>1, <1>2, <2>2
    <3>2. N + 1 \in Nat /\ N + 1 > 0 /\ (n + 1) - (n + 1) = 0
      BY <1>1, <1>2
    <3> QED BY <1>1, <1>9, <2>1, <2>4, <2>5, <3>1, <3>2 DEF StartsAre, T, ox
  <2> QED BY <1>11, <2>4, <2>6 DEF x, n, S, T, N, last
<1> QED BY <1>10, <1>11

(* The encodings of a stream that ends in a and of the same stream with b behind. *)
Grows(C, D, a, b) ==
  \E L \in Nat \ {0}, c \in 1..MAX_CHAR_LEN :
    /\ C = [k \in 1..L |-> C[k]] /\ C[L] = [char |-> a, count |-> c]
    /\ D = IF a = b /\ c < MAX_CHAR_LEN
           THEN [k \in 1..L |-> IF k < L THEN C[k] ELSE [char |-> b, count |-> c + 1]]
           ELSE [k \in 1..(L + 1) |-> IF k <= L THEN C[k] ELSE One(b)]

(* The canonical encoding, when the stream grows by a byte: the last pair is    *)
(* extended, or a pair of one byte is added.                                    *)
LEMMA CanonicalGrows ==
  ASSUME NEW d \in Seq(Nat), NEW b \in Nat, StartsAre(d)
  PROVE  /\ Len(d) = 0 => Canonical(Append(d, b)) = <<One(b)>>
         /\ Len(d) > 0 => Grows(Canonical(d), Canonical(Append(d, b)), d[Len(d)], b)
<1> DEFINE x == Append(d, b)
           n == Len(d)
           S == PairStarts(d)
           T == PairStarts(x)
           N == Cardinality(S)
           last == Kth(S, N)
           full == n - last = MAX_CHAR_LEN - 1
           C == Canonical(d)
           D == Canonical(x)
<1>1. /\ x \in Seq(Nat) /\ n \in Nat /\ Len(x) = n + 1 /\ x[n + 1] = b
      /\ \A i \in 1..n : x[i] = d[i]
      /\ MAX_CHAR_LEN \in Nat \ {0}
  BY AppendIs, MaxCharLenAssumption
<1>2. /\ S \subseteq 1..n /\ N \in Nat /\ \A k \in 1..N : Kth(S, k) \in S
      /\ n > 0 => N > 0 /\ d[last] = d[n]
  BY DEF StartsAre
<1>3. n > 0 => /\ N \in Nat \ {0} /\ N \in 1..N /\ last \in 1..n
               /\ n - last \in 0..(MAX_CHAR_LEN - 1)
  <2> SUFFICES ASSUME n > 0
               PROVE  /\ N \in Nat \ {0} /\ N \in 1..N /\ last \in 1..n
                      /\ n - last \in 0..(MAX_CHAR_LEN - 1)
    OBVIOUS
  <2>1. OffsetInRun(d, n) \in Nat /\ n - last = OffsetInRun(d, n) % MAX_CHAR_LEN
    BY DEF StartsAre
  <2>2. OffsetInRun(d, n) % MAX_CHAR_LEN \in 0..(MAX_CHAR_LEN - 1)
    BY <1>1, <2>1, Remainder
  <2>3. N \in Nat \ {0} /\ N \in 1..N
    BY <1>2
  <2>4. last \in 1..n
    <3> HIDE DEF S, N
    <3> QED BY <1>2, <2>3
  <2> QED BY <2>1, <2>2, <2>3, <2>4
<1>4. IF n > 0 /\ d[n] = b /\ ~full
      THEN T = S
      ELSE /\ Cardinality(T) = N + 1 /\ Kth(T, N + 1) = n + 1
           /\ \A k \in 1..N : Kth(T, k) = Kth(S, k)
  BY StartsGrow
<1>5. C = [k \in 1..N |-> [char |-> d[Begin(d, k)], count |-> Begin(d, k + 1) - Begin(d, k)]]
  BY CanonicalIs
<1>6. D = [k \in 1..Cardinality(T) |->
             [char |-> x[Begin(x, k)], count |-> Begin(x, k + 1) - Begin(x, k)]]
  BY CanonicalIs
<1>7. /\ \A k \in 1..N : Begin(d, k) = Kth(S, k) /\ Begin(d, k) \in 1..n
      /\ Begin(d, N + 1) = n + 1
  <2>1. \A k \in 1..N : ~(k > N)
    BY <1>2
  <2> QED BY <1>2, <2>1 DEF Begin
<1> DEFINE c == (n + 1) - last
           LastPair == IF d[n] = b /\ c < MAX_CHAR_LEN
                   THEN [k \in 1..N |-> IF k < N THEN C[k] ELSE [char |-> b, count |-> c + 1]]
                   ELSE [k \in 1..(N + 1) |-> IF k <= N THEN C[k] ELSE One(b)]
<1> HIDE DEF x, n, S, T, N, last, C, D
<1>8. ASSUME n > 0
       PROVE  /\ c \in 1..MAX_CHAR_LEN /\ Begin(d, N) = last /\ (full <=> c = MAX_CHAR_LEN)
              /\ C[N] = [char |-> d[n], count |-> c] /\ C = [k \in 1..N |-> C[k]]
  <2>1. n \in Nat /\ last \in 1..n /\ n - last \in 0..(MAX_CHAR_LEN - 1) /\ MAX_CHAR_LEN \in Nat
    BY <1>1, <1>3, <1>8
  <2>2. c \in 1..MAX_CHAR_LEN /\ (full <=> c = MAX_CHAR_LEN)
    BY <2>1
  <2>3. N \in 1..N /\ Begin(d, N) = last /\ d[last] = d[n]
    BY <1>2, <1>3, <1>7, <1>8 DEF last
  <2>4. C[N] = [char |-> d[n], count |-> c]
    BY <1>5, <1>7, <2>3
  <2>5. C = [k \in 1..N |-> C[k]]
    BY <1>5
  <2> QED BY <2>2, <2>3, <2>4, <2>5
<1>9. ASSUME n > 0, D = LastPair PROVE Grows(C, D, d[n], b)
  <2>1. N \in Nat \ {0} /\ c \in 1..MAX_CHAR_LEN
    BY <1>3, <1>8, <1>9
  <2>2. /\ C = [k \in 1..N |-> C[k]] /\ C[N] = [char |-> d[n], count |-> c]
        /\ D = LastPair
    BY <1>8, <1>9
  <2> HIDE DEF c
  <2> QED BY <2>1, <2>2 DEF Grows
<1>10. CASE n > 0 /\ d[n] = b /\ ~full
  <2>1. /\ \A k \in 1..N : Begin(x, k) = Begin(d, k)
        /\ Begin(x, N + 1) = n + 2 /\ Cardinality(T) = N
    <3>1. T = S
      BY <1>4, <1>10
    <3>2. \A k \in 1..N : ~(k > N)
      BY <1>2
    <3> QED BY <1>1, <1>2, <1>7, <3>1, <3>2 DEF Begin, T, S, N
  <2>2. N \in Nat \ {0} /\ c \in 1..MAX_CHAR_LEN /\ c < MAX_CHAR_LEN /\ Begin(d, N) = last
    <3>1. N \in Nat \ {0} /\ c \in 1..MAX_CHAR_LEN /\ Begin(d, N) = last /\ c # MAX_CHAR_LEN
      BY <1>3, <1>10, <1>8
    <3>2. MAX_CHAR_LEN \in Nat
      BY <1>1
    <3> HIDE DEF c
    <3> QED BY <3>1, <3>2
  <2>4. D = [k \in 1..N |-> IF k < N THEN C[k] ELSE [char |-> b, count |-> c + 1]]
    <3> SUFFICES ASSUME NEW k \in 1..N
                 PROVE  [char |-> x[Begin(x, k)], count |-> Begin(x, k + 1) - Begin(x, k)] =
                          IF k < N THEN C[k] ELSE [char |-> b, count |-> c + 1]
      BY <1>6, <2>1
    <3>1. Begin(x, k) = Begin(d, k) /\ x[Begin(x, k)] = d[Begin(d, k)]
      BY <1>1, <1>7, <2>1
    <3>2. CASE k < N
      <4>1. k + 1 \in 1..N
        BY <1>2, <3>2
      <4> QED BY <1>5, <2>1, <3>1, <3>2, <4>1
    <3>3. CASE k = N
      <4>1. Begin(x, k + 1) - Begin(x, k) = c + 1
        BY <1>1, <1>3, <1>10, <2>1, <2>2, <3>1, <3>3
      <4>2. x[Begin(x, k)] = b
        BY <1>2, <1>10, <2>2, <3>1, <3>3
      <4> QED BY <3>3, <4>1, <4>2, <2>2
    <3> QED BY <1>2, <3>2, <3>3
  <2>5. D = LastPair
    BY <1>10, <2>2, <2>4
  <2> HIDE DEF LastPair
  <2>6. n # 0
    BY <1>1, <1>10
  <2> QED BY <1>10, <1>9, <2>5, <2>6 DEF x, n, C, D
<1>11. CASE ~(n > 0 /\ d[n] = b /\ ~full)
  <2>1. /\ \A k \in 1..(N + 1) : Begin(x, k) = Begin(d, k)
        /\ Begin(x, N + 2) = n + 2 /\ Cardinality(T) = N + 1
    <3>1. /\ Cardinality(T) = N + 1 /\ Kth(T, N + 1) = n + 1
          /\ \A k \in 1..N : Kth(T, k) = Kth(S, k)
      BY <1>4, <1>11
    <3>2. \A k \in 1..(N + 1) : ~(k > N + 1)
      BY <1>2
    <3>3. \A k \in 1..(N + 1) : Begin(x, k) = Kth(T, k)
      BY <3>1, <3>2 DEF Begin, T
    <3>4. \A k \in 1..(N + 1) : k \in 1..N \/ k = N + 1
      BY <1>2
    <3>5. Begin(x, N + 2) = n + 2
      BY <1>1, <1>2, <3>1 DEF Begin, T
    <3> QED BY <1>7, <3>1, <3>3, <3>4, <3>5
  <2>2. D = [k \in 1..(N + 1) |-> IF k <= N THEN C[k] ELSE One(b)]
    <3> SUFFICES ASSUME NEW k \in 1..(N + 1)
                 PROVE  [char |-> x[Begin(x, k)], count |-> Begin(x, k + 1) - Begin(x, k)] =
                          IF k <= N THEN C[k] ELSE One(b)
      BY <1>6, <2>1
    <3>1. CASE k <= N
      <4>1. k \in 1..N /\ k + 1 \in 1..(N + 1)
        BY <1>2, <3>1
      <4>2. x[Begin(x, k)] = d[Begin(d, k)]
        BY <1>1, <1>7, <2>1, <4>1
      <4> QED BY <1>5, <2>1, <3>1, <4>1, <4>2
    <3>2. CASE k = N + 1
      <4>1. Begin(x, k) = n + 1 /\ Begin(x, k + 1) = n + 2 /\ ~(k <= N)
        <5>1. k + 1 = N + 2 /\ ~(k <= N)
          BY <1>2, <3>2
        <5> QED BY <1>7, <2>1, <3>2, <5>1
      <4>2. (n + 2) - (n + 1) = 1
        BY <1>1
      <4> QED BY <1>1, <4>1, <4>2 DEF One
    <3> QED BY <1>2, <3>1, <3>2
  <2>3. CASE n = 0
    <3>1. N = 0
      <4>1. S = {}
        BY <1>2, <2>3
      <4> QED BY <4>1, FS_EmptySet DEF N
    <3>2. D = <<One(b)>>
      BY <2>2, <3>1
    <3> QED BY <2>3, <3>2 DEF D, x, n
  <2>4. CASE n > 0
    <3>1. ~(d[n] = b /\ c < MAX_CHAR_LEN)
      <4>1. c \in 1..MAX_CHAR_LEN /\ (full <=> c = MAX_CHAR_LEN) /\ MAX_CHAR_LEN \in Nat
        BY <1>1, <1>8, <2>4
      <4> HIDE DEF c, full
      <4> QED BY <1>11, <2>4, <4>1
    <3>2. D = LastPair
      BY <2>2, <3>1
    <3> HIDE DEF LastPair
    <3>3. n # 0
      BY <1>1, <2>4
    <3> QED BY <1>9, <2>4, <3>2, <3>3 DEF x, n, C, D
  <2>5. n = 0 \/ n > 0
    BY <1>1
  <2> QED BY <2>3, <2>4, <2>5
<1> QED BY <1>10, <1>11

--------------------------------------------------------------------------------
(* The writer after the first byte, byte 0 included (current_char is 0 from     *)
(* the start).                                                                  *)
LEMMA FirstByte ==
  ASSUME NEW b \in Nat
  PROVE  /\ Flushed(AddByte(WriterStart, b)) = <<One(b)>>
         /\ AddByte(WriterStart, b).count > 0 /\ AddByte(WriterStart, b).char = b
<1>1. /\ WriterStart \in Writer /\ WriterStart.count = 0 /\ WriterStart.stdout = <<>>
      /\ MAX_CHAR_LEN \in Nat \ {0}
  BY MaxCharLenAssumption DEF WriterStart, Writer
<1>2. Flushed(WriterStart) = <<>>
  BY <1>1 DEF Flushed
<1>3. AddByte(WriterStart, b) = [char |-> b, count |-> 1, stdout |-> <<>>]
  <2>1. AddByte(WriterStart, b) =
          IF b # WriterStart.char
          THEN [char |-> b, count |-> 1, stdout |-> Flushed(WriterStart)]
          ELSE IF WriterStart.count < MAX_CHAR_LEN
               THEN [char |-> b, count |-> WriterStart.count + 1, stdout |-> WriterStart.stdout]
               ELSE [char |-> b, count |-> 1, stdout |-> Append(WriterStart.stdout, Full(b))]
    BY Zenon, <1>1, AddByteIs
  <2>2. WriterStart.count < MAX_CHAR_LEN /\ WriterStart.count + 1 = 1
    BY <1>1
  <2> QED BY <1>1, <1>2, <2>1, <2>2
<1>4. Pair(b, 1) = One(b)
  BY <1>1, PairIs DEF One
<1> QED BY <1>3, <1>4 DEF Flushed

(* What the writer would flush grows in the same way when it is given a byte.   *)
LEMMA NextByte ==
  ASSUME NEW o \in Writer, o.count > 0, NEW b \in Nat, NEW D, Grows(Flushed(o), D, o.char, b)
  PROVE  /\ Flushed(AddByte(o, b)) = D
         /\ AddByte(o, b).count > 0 /\ AddByte(o, b).char = b
<1> DEFINE C == Flushed(o)
           r == AddByte(o, b)
           s == o.stdout
<1>1. /\ o.char \in Nat /\ o.count \in 1..MAX_CHAR_LEN /\ s \in Seq(Pairs)
      /\ MAX_CHAR_LEN \in Nat \ {0}
  BY MaxCharLenAssumption DEF Writer
<1>2. C = Append(s, [char |-> o.char, count |-> o.count]) /\ C \in Seq(Pairs)
  <2>1. /\ C = IF o.count > 0 THEN Append(s, [char |-> o.char, count |-> o.count]) ELSE s
        /\ C \in Seq(Pairs)
    BY Zenon, FlushedIs
  <2> QED BY <2>1
<1>3. r = IF b # o.char THEN [char |-> b, count |-> 1, stdout |-> C]
          ELSE IF o.count < MAX_CHAR_LEN
               THEN [char |-> b, count |-> o.count + 1, stdout |-> s]
               ELSE [char |-> b, count |-> 1, stdout |-> Append(s, Full(b))]
  BY Zenon, AddByteIs
<1>4. PICK L \in Nat \ {0}, c \in 1..MAX_CHAR_LEN :
        /\ C = [k \in 1..L |-> C[k]] /\ C[L] = [char |-> o.char, count |-> c]
        /\ D = IF o.char = b /\ c < MAX_CHAR_LEN
               THEN [k \in 1..L |-> IF k < L THEN C[k] ELSE [char |-> b, count |-> c + 1]]
               ELSE [k \in 1..(L + 1) |-> IF k <= L THEN C[k] ELSE One(b)]
  BY DEF Grows
<1> HIDE DEF C, r, s
<1>5. L = Len(s) + 1 /\ c = o.count /\ Len(C) = L
  <2>1. Len(C) = Len(s) + 1 /\ C[Len(s) + 1] = [char |-> o.char, count |-> o.count]
    BY <1>1, <1>2 DEF Pairs
  <2>2. Len(C) = L
    <3>1. DOMAIN C = 1..L
      BY <1>4
    <3> QED BY <1>2, <3>1
  <2>3. C[L] = [char |-> o.char, count |-> o.count]
    BY <1>1, <2>1, <2>2
  <2>4. c = o.count
    BY <1>4, <2>3
  <2> QED BY <2>1, <2>2, <2>4
<1>6. One(b) \in Pairs /\ Pair(b, 1) = One(b)
  BY <1>1, PairIs DEF One, Pairs
<1>7. CASE o.char = b /\ c < MAX_CHAR_LEN
  <2>1. r = [char |-> b, count |-> c + 1, stdout |-> s]
    BY <1>3, <1>5, <1>7
  <2>2. Flushed(r) = Append(s, [char |-> b, count |-> c + 1])
    <3>1. c + 1 > 0 /\ c + 1 \in 0..MAX_CHAR_LEN
      BY <1>1, <1>7
    <3>2. Pair(b, c + 1) = [char |-> b, count |-> c + 1]
      BY <3>1, PairIs
    <3> QED BY <2>1, <3>1, <3>2 DEF Flushed
  <2>3. D = [k \in 1..L |-> IF k < L THEN C[k] ELSE [char |-> b, count |-> c + 1]]
    BY <1>4, <1>7
  <2>4. Append(s, [char |-> b, count |-> c + 1]) = D
    <3>1. [char |-> b, count |-> c + 1] \in Pairs
      BY <1>1, <1>7 DEF Pairs
    <3> DEFINE p == [char |-> b, count |-> c + 1]
               t == Append(s, p)
    <3> HIDE DEF p
    <3>2. t \in Seq(Pairs) /\ Len(t) = L /\ t[L] = p /\ \A k \in 1..(L - 1) : t[k] = s[k]
      BY <1>1, <1>5, <3>1 DEF p
    <3>3. \A k \in 1..(L - 1) : C[k] = s[k]
      BY <1>1, <1>2, <1>5 DEF Pairs
    <3> HIDE DEF t
    <3>4. \A k \in 1..L : t[k] = IF k < L THEN C[k] ELSE p
      <4>1. \A k \in 1..L : IF k < L THEN k \in 1..(L - 1) ELSE k = L
        BY <1>1
      <4> QED BY <3>2, <3>3, <4>1
    <3>5. t = [k \in 1..L |-> t[k]]
      BY <3>2
    <3> QED BY <2>3, <3>4, <3>5 DEF t, p
  <2>5. r.count > 0 /\ r.char = b
    BY <2>1
  <2> QED BY <2>2, <2>4, <2>5 DEF r
<1>8. CASE ~(o.char = b /\ c < MAX_CHAR_LEN)
  <2>1. r = [char |-> b, count |-> 1, stdout |-> C]
    <3>1. o.char = b => Append(s, Full(b)) = C /\ ~(o.count < MAX_CHAR_LEN)
      <4>1. o.char = b => o.count = MAX_CHAR_LEN /\ ~(o.count < MAX_CHAR_LEN)
        BY <1>1, <1>5, <1>8
      <4> QED BY <1>2, <4>1 DEF Full
    <3> QED BY <1>3, <3>1
  <2>2. Flushed(r) = Append(C, One(b)) /\ r.count > 0 /\ r.char = b
    BY <1>6, <2>1 DEF Flushed
  <2>3. D = [k \in 1..(L + 1) |-> IF k <= L THEN C[k] ELSE One(b)]
    BY <1>4, <1>8
  <2> DEFINE t == Append(C, One(b))
  <2>4. t \in Seq(Pairs) /\ Len(t) = L + 1 /\ t[L + 1] = One(b) /\ \A k \in 1..L : t[k] = C[k]
    <3>1. One(b) \in Pairs /\ C \in Seq(Pairs) /\ Len(C) = L
      BY <1>2, <1>5, <1>6
    <3> HIDE DEF One
    <3> QED BY <3>1
  <2> HIDE DEF t
  <2>5. t = [k \in 1..(L + 1) |-> t[k]]
    BY <2>4
  <2>6. \A k \in 1..(L + 1) : t[k] = IF k <= L THEN C[k] ELSE One(b)
    <3>1. \A k \in 1..(L + 1) : IF k <= L THEN k \in 1..L ELSE k = L + 1
      OBVIOUS
    <3> QED BY <2>4, <3>1
  <2>7. t = D
    BY <2>3, <2>5, <2>6
  <2> QED BY <2>2, <2>7 DEF r, t
<1> QED BY <1>7, <1>8

(* The first n bytes of a stream are the first n - 1 and the n-th.              *)
LEMMA PrefixIs ==
  ASSUME NEW d \in Seq(Nat), NEW n \in 1..Len(d)
  PROVE  /\ SubSeq(d, 1, n) = Append(SubSeq(d, 1, n - 1), d[n]) /\ d[n] \in Nat
         /\ SubSeq(d, 1, n - 1) \in Seq(Nat) /\ Len(SubSeq(d, 1, n - 1)) = n - 1
         /\ n > 1 => SubSeq(d, 1, n - 1)[n - 1] = d[n - 1]
OBVIOUS

(* The pairs for the bytes so far are their canonical encoding.                   *)
LEMMA WrittenIsCanonical ==
  ASSUME NEW d \in Seq(Nat), NEW n \in 0..Len(d)
  PROVE  Flushed(Written(d)[n]) = Canonical(SubSeq(d, 1, n))
<1> DEFINE w == Written(d)
           L == Len(d)
           y(k) == SubSeq(d, 1, k)
           Is(k) == /\ StartsAre(y(k)) /\ Flushed(w[k]) = Canonical(y(k))
                    /\ k > 0 => w[k].count > 0 /\ w[k].char = d[k]
           P == {k \in 0..L : Is(k)}
<1>1. /\ L \in Nat /\ w \in [0..L -> Writer] /\ w[0] = WriterStart
      /\ \A k \in 1..L : w[k] = AddByte(w[k - 1], d[k])
  BY WrittenIs
<1>2. 0 \in P
  <2>1. y(0) = <<>>
    OBVIOUS
  <2>2. Flushed(WriterStart) = <<>>
    BY DEF Flushed, WriterStart
  <2>3. StartsAre(y(0)) /\ Flushed(w[0]) = Canonical(y(0))
    <3> HIDE DEF w, y
    <3> QED BY <1>1, <2>1, <2>2, NothingStarts
  <2>4. 0 \in 0..L /\ ~(0 > 0)
    BY <1>1
  <2> HIDE DEF w, y, L
  <2> QED BY <2>3, <2>4
<1>3. ASSUME NEW k \in 1..L, k - 1 \in P PROVE k \in P
  <2>1. /\ y(k) = Append(y(k - 1), d[k]) /\ d[k] \in Nat
        /\ y(k - 1) \in Seq(Nat) /\ Len(y(k - 1)) = k - 1
        /\ k > 1 => y(k - 1)[k - 1] = d[k - 1]
    BY PrefixIs
  <2>2. Is(k - 1) /\ w[k - 1] \in Writer /\ w[k] = AddByte(w[k - 1], d[k])
    BY <1>1, <1>3
  <2> HIDE DEF w, L, y
  <2>3. StartsAre(y(k))
    BY <2>1, <2>2, StartsGrow
  <2>4. ASSUME k = 1 PROVE Is(k)
    <3>1. k - 1 = 0 /\ Canonical(y(k)) = <<One(d[k])>>
      BY <2>1, <2>2, <2>4, CanonicalGrows
    <3>2. w[k] = AddByte(WriterStart, d[k])
      BY <1>1, <2>2, <3>1
    <3>3. Flushed(w[k]) = <<One(d[k])>> /\ w[k].count > 0 /\ w[k].char = d[k]
      BY <2>1, <3>2, FirstByte
    <3> QED BY <2>3, <3>1, <3>3
  <2>5. ASSUME k > 1 PROVE Is(k)
    <3>1. k - 1 > 0
      BY <2>5
    <3>2. Grows(Canonical(y(k - 1)), Canonical(y(k)), d[k - 1], d[k])
      <4>1. Len(y(k - 1)) > 0 /\ StartsAre(y(k - 1)) /\ y(k - 1)[Len(y(k - 1))] = d[k - 1]
        BY <2>1, <2>2, <2>5, <3>1
      <4> QED BY <2>1, <4>1, CanonicalGrows
    <3>3. Grows(Flushed(w[k - 1]), Canonical(y(k)), w[k - 1].char, d[k]) /\ w[k - 1].count > 0
      BY <2>2, <3>1, <3>2
    <3>4. /\ Flushed(AddByte(w[k - 1], d[k])) = Canonical(y(k))
          /\ AddByte(w[k - 1], d[k]).count > 0 /\ AddByte(w[k - 1], d[k]).char = d[k]
      BY <2>1, <2>2, <3>3, NextByte
    <3> QED BY <2>2, <2>3, <3>4
  <2>6. Is(k)
    BY <2>4, <2>5
  <2>7. k \in 0..L
    BY <1>1
  <2> HIDE DEF Is
  <2> QED BY <2>6, <2>7
<1> HIDE DEF P
<1>4. n \in P
  BY <1>1, <1>2, <1>3, UpToInduction
<1> QED BY <1>4 DEF P

--------------------------------------------------------------------------------
(* The one-pass version takes the bytes of a chunk to the same state.           *)
LEMMA ChunkOnePass ==
  ASSUME NEW d \in Seq(Nat), NEW a \in Nat, NEW n \in Nat \ {0}, a + n <= Len(d),
         \A k \in 1..Len(d) : d[k] \notin NegativeChars
  PROVE  SequentialUpTo(Written(d)[a], SubSeq(d, a + 1, a + n))[n] = Written(d)[a + n]
<1> DEFINE c == SubSeq(d, a + 1, a + n)
           w == Written(d)
           q == SequentialUpTo(w[a], c)
           P == {k \in 0..n : q[k] = w[a + k]}
<1>1. /\ c \in Seq(Nat) /\ Len(c) = n
      /\ \A k \in 1..n : c[k] = d[a + k] /\ c[k] \in Nat /\ a + k \in 1..Len(d)
  BY ChunkIs
<1>2. w \in [0..Len(d) -> Writer] /\ \A k \in 1..Len(d) : w[k] = AddByte(w[k - 1], d[k])
  BY WrittenIs
<1> HIDE DEF c, w
<1>3. a \in 0..Len(d) /\ w[a] \in Writer
  <2>1. a \in 0..Len(d)
    OBVIOUS
  <2> QED BY <1>2, <2>1
<1>4. q[0] = w[a] /\ \A k \in 1..n : q[k] = SequentialByte(q[k - 1], c[k])
  <2>1. /\ q[0] = w[a]
        /\ \A k \in 1..Len(c) : q[k] = SequentialByte(q[k - 1], c[k])
    BY <1>1, <1>3, SequentialUpToIs
  <2> QED BY <1>1, <2>1
<1> HIDE DEF q
<1>5. 0 \in P
  BY <1>4
<1>6. ASSUME NEW k \in 1..n, k - 1 \in P PROVE k \in P
  <2>1. /\ c[k] = d[a + k] /\ c[k] \in Nat /\ a + k \in 1..Len(d) /\ c[k] \notin NegativeChars
    BY <1>1
  <2>2. a + (k - 1) \in 0..Len(d) /\ (a + k) - 1 = a + (k - 1)
    BY <2>1
  <2>3. w[a + (k - 1)] \in Writer /\ w[a + k] = AddByte(w[a + (k - 1)], c[k])
    BY <1>2, <2>1, <2>2
  <2>4. q[k] = SequentialByte(w[a + (k - 1)], c[k])
    BY <1>4, <1>6
  <2>5. q[k] = w[a + k]
    BY <2>1, <2>3, <2>4, SequentialByteIs
  <2> QED BY <2>5
<1> HIDE DEF P
<1>7. \A k \in 1..n : k - 1 \in P => k \in P
  BY <1>6
<1>8. n \in P
  <2>1. n \in Nat /\ n \in 0..n
    OBVIOUS
  <2>2. \A k \in 0..n : k \in P
    BY <1>5, <1>7, <2>1, UpToInduction
  <2> QED BY <2>1, <2>2
<1> QED BY <1>8 DEF P, q, c, w

--------------------------------------------------------------------------------
(* t begins with s.                                                              *)
Extends(t, s) == Len(s) <= Len(t) /\ \A k \in 1..Len(s) : t[k] = s[k]

(* It is then a prefix.                                                        *)
LEMMA ExtendsPrefix ==
  ASSUME NEW S, NEW s \in Seq(S), NEW t \in Seq(S), Extends(t, s)
  PROVE  IsPrefix(s, t)
<1>1. Len(s) \in Nat /\ Len(t) \in Nat /\ Len(s) <= Len(t)
  BY DEF Extends
<1>2. SubSeq(s, 1, Len(s)) = [k \in 1..Len(s) |-> s[k]]
  OBVIOUS
<1>3. SubSeq(t, 1, Len(s)) = [k \in 1..Len(s) |-> t[k]]
  BY <1>1
<1> QED BY <1>1, <1>2, <1>3 DEF Extends, IsPrefix

(* In a chain of sequences that extend each other the later ones extend all      *)
(* before them.                                                                   *)
LEMMA LaterExtends ==
  ASSUME NEW L \in Nat, NEW S, NEW f \in [0..L -> Seq(S)],
         \A n \in 1..L : Extends(f[n], f[n - 1]), NEW a \in 0..L, NEW b \in a..L
  PROVE  Extends(f[b], f[a])
<1> DEFINE P == {n \in 0..L : n >= a => Extends(f[n], f[a])}
<1>1. \A n \in 0..L : Len(f[n]) \in Nat
  <2> SUFFICES ASSUME NEW n \in 0..L PROVE Len(f[n]) \in Nat
    OBVIOUS
  <2>1. f[n] \in Seq(S)
    OBVIOUS
  <2> QED BY <2>1
<1>2. \A n \in 0..L : Extends(f[n], f[n])
  BY <1>1 DEF Extends
<1>3. 0 \in P
  <2>1. 0 >= a => a = 0
    OBVIOUS
  <2> QED BY <1>2, <2>1
<1>4. ASSUME NEW n \in 1..L, n - 1 \in P PROVE n \in P
  <2>1. CASE n = a
    BY <1>2, <2>1
  <2>2. CASE n < a
    BY <2>2
  <2>3. CASE n > a
    <3>1. Extends(f[n - 1], f[a]) /\ Extends(f[n], f[n - 1]) /\ n - 1 \in 0..L
      BY <1>4, <2>3
    <3>2. Len(f[n - 1]) \in Nat /\ Len(f[a]) \in Nat /\ Len(f[n]) \in Nat
      BY <1>1, <3>1
    <3>3. Extends(f[n], f[a])
      BY <3>1, <3>2 DEF Extends
    <3> QED BY <3>3
  <2> QED BY <2>1, <2>2, <2>3
<1>5. b \in P
  <2>1. b \in 0..L /\ \A n \in 1..L : n - 1 \in P => n \in P
    BY <1>4
  <2> HIDE DEF P
  <2>2. \A n \in 0..L : n \in P
    BY <1>3, <2>1, UpToInduction
  <2> QED BY <2>1, <2>2
<1> QED BY <1>5

(* The writer only ever adds to stdout.                                          *)
LEMMA AppendExtends ==
  ASSUME NEW S, NEW s \in Seq(S), NEW x \in S
  PROVE  Extends(Append(s, x), s) /\ Extends(s, s)
BY DEF Extends

(* Flushing and merging a byte append to it, if they change it.                  *)
LEMMA StdoutExtends ==
  ASSUME NEW o \in Writer, NEW b \in Nat
  PROVE  /\ Extends(Flushed(o), o.stdout) /\ Extends(AddByte(o, b).stdout, o.stdout)
         /\ Flushed(o) \in Seq(Pairs) /\ o.stdout \in Seq(Pairs)
<1>1. o.stdout \in Seq(Pairs) /\ o.char \in Nat /\ o.count \in 0..MAX_CHAR_LEN
  BY DEF Writer
<1>2. [char |-> o.char, count |-> o.count] \in Pairs /\ Full(b) \in Pairs
  BY <1>1, MaxCharLenAssumption DEF Pairs, Full
<1>3. Extends(Flushed(o), o.stdout) /\ Flushed(o) \in Seq(Pairs)
  BY <1>1, <1>2, FlushedIs, AppendExtends
<1>4. Extends(AddByte(o, b).stdout, o.stdout)
  <2>1. AddByte(o, b).stdout \in {Flushed(o), o.stdout, Append(o.stdout, Full(b))}
    <3>1. AddByte(o, b) =
              IF b # o.char THEN [char |-> b, count |-> 1, stdout |-> Flushed(o)]
              ELSE IF o.count < MAX_CHAR_LEN
                   THEN [char |-> b, count |-> o.count + 1, stdout |-> o.stdout]
                   ELSE [char |-> b, count |-> 1, stdout |-> Append(o.stdout, Full(b))]
      BY AddByteIs, Zenon
    <3> QED BY <3>1
  <2> QED BY <1>1, <1>2, <1>3, <2>1, AppendExtends
<1> QED BY <1>1, <1>3, <1>4

(* What stdout holds after a and after b bytes, and at the end.                  *)
LEMMA WrittenGrows ==
  ASSUME NEW d \in Seq(Nat), NEW a \in 0..Len(d), NEW b \in a..Len(d)
  PROVE  /\ IsPrefix(Written(d)[a].stdout, Written(d)[b].stdout)
         /\ IsPrefix(Written(d)[b].stdout, Canonical(d))
         /\ Written(d)[a].stdout \in Seq(Pairs) /\ Canonical(d) \in Seq(Pairs)
         /\ Canonical(d) = Flushed(Written(d)[Len(d)])
<1> DEFINE L == Len(d)
           w == Written(d)
           f == [n \in 0..L |-> w[n].stdout]
<1>1. L \in Nat /\ L \in 0..L /\ b \in 0..L /\ L \in b..L /\ a \in 0..L /\ b \in a..L
      /\ SubSeq(d, 1, L) = d /\ \A n \in 1..L : d[n] \in Nat /\ n - 1 \in 0..L /\ n \in 0..L
  OBVIOUS
<1>2. w \in [0..L -> Writer] /\ \A n \in 1..L : w[n] = AddByte(w[n - 1], d[n])
  BY WrittenIs
<1>3. Flushed(w[L]) = Canonical(d)
  BY <1>1, WrittenIsCanonical
<1> HIDE DEF w, L
<1>4. \A n \in 0..L : w[n] \in Writer /\ w[n].stdout \in Seq(Pairs)
  BY <1>2 DEF Writer
<1>5. f \in [0..L -> Seq(Pairs)]
  BY <1>4
<1>6. ASSUME NEW n \in 1..L PROVE Extends(f[n], f[n - 1])
  <2>1. Extends(AddByte(w[n - 1], d[n]).stdout, w[n - 1].stdout)
    BY <1>1, <1>4, StdoutExtends
  <2> QED BY <1>1, <1>2, <2>1
<1>7. Extends(Canonical(d), f[L]) /\ Canonical(d) \in Seq(Pairs)
  <2>1. Extends(Flushed(w[L]), w[L].stdout) /\ Flushed(w[L]) \in Seq(Pairs)
    BY <1>1, <1>4, StdoutExtends
  <2> QED BY <1>1, <1>3, <2>1
<1>8. /\ f[a] = w[a].stdout /\ f[b] = w[b].stdout
      /\ f[a] \in Seq(Pairs) /\ f[b] \in Seq(Pairs) /\ f[L] \in Seq(Pairs)
  BY <1>1, <1>4
<1> HIDE DEF f
<1>9. Extends(f[b], f[a]) /\ Extends(f[L], f[b])
  BY <1>1, <1>5, <1>6, LaterExtends
<1>10. Extends(Canonical(d), f[b])
  <2>1. \A s \in Seq(Pairs) : Len(s) \in Nat
    OBVIOUS
  <2> QED BY <1>7, <1>8, <1>9, <2>1 DEF Extends
<1> QED BY <1>3, <1>7, <1>8, <1>9, <1>10, ExtendsPrefix DEF w, L

--------------------------------------------------------------------------------
(* The inductive invariant: the writer is where the bytes up to pos would have    *)
(* brought it one at a time, wherever the stream was cut.                          *)
CutInvariant ==
  /\ data \in Streams /\ pos \in 0..Len(data)
  /\ merged = Written(data)[pos]
  /\ Range(data) \intersect NegativeChars = {} => sequential = merged

(* Cutting the stream at any place keeps the invariant.                            *)
THEOREM CutInvariance == ChunkSpec => []CutInvariant
<1>1. ChunkInit => CutInvariant
  <2> SUFFICES ASSUME ChunkInit PROVE CutInvariant
    OBVIOUS
  <2>1. data \in Streams /\ data \in Seq(Nat) /\ pos = 0 /\ merged = WriterStart /\ sequential = merged
    BY StreamsAssumption DEF ChunkInit
  <2>2. Written(data)[0] = WriterStart
    BY <2>1, WrittenIs
  <2>3. 0 \in 0..Len(data)
    BY <2>1
  <2> QED BY <2>1, <2>2, <2>3 DEF CutInvariant
<1>2. CutInvariant /\ [NextChunk]_chunkVars => CutInvariant'
  <2> SUFFICES ASSUME CutInvariant, [NextChunk]_chunkVars PROVE CutInvariant'
    OBVIOUS
  <2>1. CASE NextChunk
    <3>1. PICK n \in 1..ChunkSize :
            /\ pos + n <= Len(data) /\ pos' = pos + n /\ data' = data
            /\ merged' = MergeResult(merged, encoder(SubSeq(data, pos + 1, pos + n)))
            /\ sequential' = SequentialUpTo(sequential, SubSeq(data, pos + 1, pos + n))[n]
      BY <2>1 DEF NextChunk
    <3>2. data \in Seq(Nat) /\ pos \in Nat /\ n \in Nat \ {0} /\ pos + n \in 0..Len(data)
      BY <3>1, StreamsAssumption DEF CutInvariant
    <3>3. merged' = Written(data)[pos + n]
      BY <3>1, <3>2, ChunkMerged DEF CutInvariant
    <3>4. ASSUME Range(data) \intersect NegativeChars = {} PROVE sequential' = merged'
      <4>1. \A k \in 1..Len(data) : data[k] \notin NegativeChars
        BY <3>2, <3>4 DEF Range
      <4>2. sequential = Written(data)[pos]
        BY <3>4 DEF CutInvariant
      <4> QED BY <3>1, <3>2, <3>3, <4>1, <4>2, ChunkOnePass
    <3> QED BY <3>1, <3>2, <3>3, <3>4 DEF CutInvariant
  <2>2. CASE UNCHANGED chunkVars
    BY <2>2 DEF CutInvariant, chunkVars
  <2> QED BY <2>1, <2>2
<1> QED BY <1>1, <1>2, PTL DEF ChunkSpec

(* nyuenc: for every stream, every way to cut it and every longest run, what the  *)
(* writer would have printed after each chunk is the canonical encoding of the     *)
(* bytes so far: the merge loses no pair, splits runs at MAX_CHAR_LEN and only     *)
(* there, and joins them over the cuts.                                            *)
THEOREM MergeIsCanonicalHolds == ChunkSpec => []MergeIsCanonical
<1>1. CutInvariant => MergeIsCanonical
  <2> SUFFICES ASSUME CutInvariant PROVE MergeIsCanonical
    OBVIOUS
  <2>1. data \in Seq(Nat) /\ pos \in 0..Len(data) /\ merged = Written(data)[pos]
    BY StreamsAssumption DEF CutInvariant
  <2>2. Flushed(Written(data)[pos]) = Canonical(SubSeq(data, 1, pos))
    BY <2>1, WrittenIsCanonical
  <2> QED BY <2>1, <2>2 DEF MergeIsCanonical
<1> QED BY <1>1, CutInvariance, PTL

(* nyuenc: on characters that are not negative the chunked encoder prints what    *)
(* the one-pass version did.                                                       *)
THEOREM SameAsSequentialHolds == ChunkSpec => []SameAsSequential
<1>1. CutInvariant => SameAsSequential
  BY DEF CutInvariant, SameAsSequential
<1> QED BY <1>1, CutInvariance, PTL
================================================================================
