-------------------------- MODULE NyufileCommandProofs --------------------------
(* Proofs about NyufileCommand, for every command line and every image.  Of the   *)
(* directory -r and -R write nothing but one deleted entry, which gets the name   *)
(* asked for; where the deleted entries of the name can be those of files, the    *)
(* root's chain keeps its links and the program breaks down only without a digest *)
(* or a disk; and -l lists the root as it is.                                     *)
EXTENDS NyufileCommand, Recursion

--------------------------------------------------------------------------------
(* Names.                                                                         *)

(* The characters of a name, its padding and its dot.                             *)
Char == STRING \union {DOT, SPACE}

(* A sequence of which the first element is changed.                              *)
WithFirst(s, x) == [k \in 1..Len(s) |-> IF k = 1 THEN x ELSE s[k]]

LEMMA WithFirstIs ==
  ASSUME NEW s \in Seq(Char), s # <<>>, NEW x \in Char
  PROVE  /\ [s EXCEPT ![1] = x] = WithFirst(s, x)
         /\ WithFirst(s, x) \in Seq(Char) /\ Len(WithFirst(s, x)) = Len(s)
         /\ WithFirst(s, x) # <<>>
<1>1. Len(s) \in Nat \ {0} /\ s \in [1..Len(s) -> Char] /\ \A k \in 1..Len(s) : s[k] \in Char
  OBVIOUS
<1>2. [s EXCEPT ![1] = x] = WithFirst(s, x)
  BY <1>1 DEF WithFirst
<1>3. WithFirst(s, x) \in [1..Len(s) -> Char]
  BY <1>1 DEF WithFirst
<1>4. WithFirst(s, x) \in Seq(Char) /\ Len(WithFirst(s, x)) = Len(s)
  <2> HIDE DEF WithFirst
  <2> QED BY <1>1, <1>3
<1> HIDE DEF WithFirst
<1> QED BY <1>1, <1>2, <1>4

LEMMA WithFirstAt ==
  ASSUME NEW s, Len(s) \in Nat \ {0}, NEW x, NEW k \in 1..Len(s)
  PROVE  WithFirst(s, x)[k] = IF k = 1 THEN x ELSE s[k]
BY DEF WithFirst

LEMMA SubSeqFirst ==
  ASSUME NEW s \in Seq(Char), NEW n \in 1..Len(s), NEW x \in Char
  PROVE  SubSeq(WithFirst(s, x), 1, n) = WithFirst(SubSeq(s, 1, n), x)
<1>1. /\ WithFirst(s, x) \in Seq(Char) /\ Len(WithFirst(s, x)) = Len(s)
      /\ Len(s) \in Nat \ {0} /\ s # <<>>
  <2>1. Len(s) \in Nat \ {0} /\ s # <<>>
    OBVIOUS
  <2> QED BY Zenon, <2>1, WithFirstIs
<1>2. SubSeq(WithFirst(s, x), 1, n) = [k \in 1..n |-> WithFirst(s, x)[k]]
  BY <1>1
<1>3. Len(SubSeq(s, 1, n)) = n /\ \A k \in 1..n : SubSeq(s, 1, n)[k] = s[k]
  OBVIOUS
<1>4. WithFirst(SubSeq(s, 1, n), x) = [k \in 1..n |-> IF k = 1 THEN x ELSE s[k]]
  BY <1>3 DEF WithFirst
<1>5. \A k \in 1..n : WithFirst(s, x)[k] = IF k = 1 THEN x ELSE s[k]
  <2>1. \A k \in 1..n : k \in 1..Len(s)
    OBVIOUS
  <2> SUFFICES ASSUME NEW k \in 1..n PROVE WithFirst(s, x)[k] = IF k = 1 THEN x ELSE s[k]
    OBVIOUS
  <2> QED BY <1>1, <2>1, WithFirstAt
<1> QED BY <1>2, <1>4, <1>5

LEMMA ConcatFirst ==
  ASSUME NEW s \in Seq(Char), s # <<>>, NEW t \in Seq(Char), NEW x \in Char
  PROVE  WithFirst(s, x) \o t = WithFirst(s \o t, x)
<1> DEFINE u == WithFirst(s, x)
           L == Len(s) + Len(t)
<1>1. /\ u \in Seq(Char) /\ Len(u) = Len(s) /\ Len(s) \in Nat \ {0} /\ Len(t) \in Nat
      /\ \A k \in 1..Len(s) : u[k] = IF k = 1 THEN x ELSE s[k]
  <2>1. u \in Seq(Char) /\ Len(u) = Len(s)
    BY Zenon, WithFirstIs
  <2>2. Len(s) \in Nat \ {0} /\ Len(t) \in Nat
    OBVIOUS
  <2>3. \A k \in 1..Len(s) : u[k] = IF k = 1 THEN x ELSE s[k]
    <3> SUFFICES ASSUME NEW k \in 1..Len(s) PROVE u[k] = IF k = 1 THEN x ELSE s[k]
      OBVIOUS
    <3> QED BY <2>2 DEF WithFirst
  <2> QED BY <2>1, <2>2, <2>3
<1> HIDE DEF u
<1>2. /\ u \o t \in Seq(Char) /\ Len(u \o t) = L
      /\ \A k \in 1..L : (u \o t)[k] = IF k <= Len(s) THEN u[k] ELSE t[k - Len(s)]
  BY <1>1
<1>3. /\ s \o t \in Seq(Char) /\ Len(s \o t) = L
      /\ \A k \in 1..L : (s \o t)[k] = IF k <= Len(s) THEN s[k] ELSE t[k - Len(s)]
  BY <1>1
<1>4. WithFirst(s \o t, x) = [k \in 1..L |-> IF k = 1 THEN x ELSE (s \o t)[k]]
  BY <1>3 DEF WithFirst
<1>5. \A k \in 1..L : (u \o t)[k] = IF k = 1 THEN x ELSE (s \o t)[k]
  <2> SUFFICES ASSUME NEW k \in 1..L PROVE (u \o t)[k] = IF k = 1 THEN x ELSE (s \o t)[k]
    OBVIOUS
  <2>1. CASE k <= Len(s)
    BY <1>1, <1>2, <1>3, <2>1
  <2>2. CASE k > Len(s)
    BY <1>1, <1>2, <1>3, <2>2
  <2> QED BY <1>1, <2>1, <2>2
<1>6. u \o t = [k \in 1..L |-> (u \o t)[k]]
  <2> DEFINE v == u \o t
  <2>1. v \in Seq(Char) /\ Len(v) = L
    BY <1>2
  <2> HIDE DEF v, L
  <2>2. v = [k \in 1..L |-> v[k]]
    BY <2>1
  <2> QED BY <2>2 DEF v
<1> QED BY <1>4, <1>5, <1>6 DEF u

(* What stands before the first c: it begins as the whole does.                   *)
LEMMA UpToIs ==
  ASSUME NEW s \in Seq(Char), NEW c
  PROVE  /\ UpTo(s, c) \in Seq(Char)
         /\ s # <<>> /\ s[1] # c => UpTo(s, c) # <<>> /\ UpTo(s, c)[1] = s[1]
<1> DEFINE ends == {k \in DOMAIN s : s[k] = c}
<1>1. CASE ends = {}
  BY <1>1 DEF UpTo
<1>2. CASE ends # {}
  <2>1. Min(ends) \in ends
    BY <1>2, MinIs
  <2>2. Min(ends) \in 1..Len(s) /\ (s[1] # c => Min(ends) # 1)
    BY <2>1
  <2>3. UpTo(s, c) = SubSeq(s, 1, Min(ends) - 1)
    BY <1>2 DEF UpTo
  <2> DEFINE m == Min(ends)
  <2> HIDE DEF m, ends
  <2>4. SubSeq(s, 1, m - 1) \in Seq(Char)
    BY <2>2 DEF m
  <2>5. s[1] # c => SubSeq(s, 1, m - 1) # <<>> /\ SubSeq(s, 1, m - 1)[1] = s[1]
    BY <2>2 DEF m
  <2> QED BY <2>3, <2>4, <2>5 DEF m
<1> QED BY <1>1, <1>2

LEMMA UpToFirst ==
  ASSUME NEW s \in Seq(Char), s # <<>>, NEW c, s[1] # c, NEW x \in Char, x # c
  PROVE  UpTo(WithFirst(s, x), c) = WithFirst(UpTo(s, c), x)
<1> DEFINE t == WithFirst(s, x)
           ends == {k \in DOMAIN s : s[k] = c}
<1>1. /\ t \in Seq(Char) /\ Len(t) = Len(s) /\ Len(s) \in Nat \ {0}
      /\ \A k \in 1..Len(s) : t[k] = IF k = 1 THEN x ELSE s[k]
  <2>1. t \in Seq(Char) /\ Len(t) = Len(s)
    BY Zenon, WithFirstIs
  <2>2. Len(s) \in Nat \ {0}
    OBVIOUS
  <2>3. \A k \in 1..Len(s) : t[k] = IF k = 1 THEN x ELSE s[k]
    <3> SUFFICES ASSUME NEW k \in 1..Len(s) PROVE t[k] = IF k = 1 THEN x ELSE s[k]
      OBVIOUS
    <3> QED BY <2>2 DEF WithFirst
  <2> QED BY <2>1, <2>2, <2>3
<1> HIDE DEF t
<1>2. {k \in DOMAIN t : t[k] = c} = ends
  <2>1. DOMAIN s = 1..Len(s) /\ DOMAIN t = 1..Len(s) /\ Len(s) \in Nat
    BY <1>1
  <2>2. \A k \in 1..Len(s) : t[k] = c <=> s[k] = c
    <3>1. (1 \in 1..Len(s) => s[1] # c) /\ x # c
      OBVIOUS
    <3> QED BY <1>1, <3>1
  <2> QED BY <2>1, <2>2
<1>3. CASE ends = {}
  BY <1>2, <1>3 DEF UpTo, t
<1>4. CASE ends # {}
  <2>1. Min(ends) \in ends
    BY <1>4, MinIs
  <2>2. Min(ends) - 1 \in 1..Len(s)
    BY <2>1
  <2>3. UpTo(s, c) = SubSeq(s, 1, Min(ends) - 1) /\ UpTo(t, c) = SubSeq(t, 1, Min(ends) - 1)
    BY <1>2, <1>4 DEF UpTo
  <2> DEFINE m == Min(ends) - 1
  <2> HIDE DEF ends, m
  <2>4. SubSeq(t, 1, m) = WithFirst(SubSeq(s, 1, m), x)
    BY <2>2, SubSeqFirst DEF t, m
  <2> QED BY <2>3, <2>4 DEF t, m
<1> QED BY <1>3, <1>4

(* A deleted entry whose name agrees with a file's from the second character on   *)
(* has exactly the name of the file when it gets its first character.             *)
LEMMA RenamedIs ==
  ASSUME NEW name \in [1..NameLen + ExtLen -> STRING], name[1] = GONE,
         NEW f \in Seq(STRING), f # <<>>, f[1] \notin {SPACE, NUL},
         Rest(format83(name)) = Rest(f)
  PROVE  format83([name EXCEPT ![1] = f[1]]) = f
<1> DEFINE x    == f[1]
           new  == [name EXCEPT ![1] = x]
           base == SubSeq(name, 1, NameLen)
           ext  == SubSeq(name, NameLen + 1, NameLen + ExtLen)
           tail == IF Head(ext) = SPACE THEN <<>> ELSE <<DOT>> \o UpTo(ext, SPACE)
           whole == UpTo(base, SPACE) \o tail
<1>1. name \in Seq(Char) /\ Len(name) = NameLen + ExtLen /\ NameLen \in 1..Len(name)
  <2>1. name \in [1..NameLen + ExtLen -> Char]
    BY DEF Char
  <2> QED BY <2>1, NameLenAssumption
<1>2. x \in Char /\ x # SPACE /\ x # NUL
  BY DEF Char
<1>3. SubSeq(new, 1, NameLen) = WithFirst(base, x)
  <2>1. new = WithFirst(name, x) /\ name # <<>>
    <3>1. name # <<>>
      BY <1>1, NameLenAssumption
    <3> QED BY Zenon, <1>1, <1>2, <3>1, WithFirstIs
  <2> HIDE DEF new
  <2> QED BY <1>1, <1>2, <2>1, SubSeqFirst
<1>4. SubSeq(new, NameLen + 1, NameLen + ExtLen) = ext
  BY <1>1, NameLenAssumption
<1>5. base \in Seq(Char) /\ base # <<>> /\ base[1] = GONE
  BY <1>1
<1>6. ext \in Seq(Char)
  BY <1>1, NameLenAssumption
<1>7. tail \in Seq(Char)
  <2> HIDE DEF ext
  <2> DEFINE e == UpTo(ext, SPACE)
  <2>1. e \in Seq(Char)
    BY Zenon, <1>6, UpToIs
  <2> HIDE DEF e
  <2>2. <<DOT>> \in Seq(Char)
    <3>1. DOT \in Char
      BY DEF Char
    <3> QED BY <3>1
  <2>3. <<DOT>> \o e \in Seq(Char)
    BY <2>1, <2>2
  <2>4. <<>> \in Seq(Char)
    OBVIOUS
  <2> QED BY <2>3, <2>4 DEF e
<1>8. format83(name) = UpTo(whole, NUL)
  BY DEF format83
<1>9. format83(new) = UpTo(UpTo(WithFirst(base, x), SPACE) \o tail, NUL)
  BY <1>3, <1>4 DEF format83
<1> HIDE DEF base, ext, tail, new
<1> DEFINE start == UpTo(base, SPACE)
<1>10. start \in Seq(Char) /\ start # <<>> /\ start[1] = GONE
  BY <1>5, UpToIs DEF GONE, SPACE
<1>11. UpTo(WithFirst(base, x), SPACE) = WithFirst(start, x)
  <2>1. base[1] # SPACE
    BY <1>5 DEF GONE, SPACE
  <2> QED BY Zenon, <1>2, <1>5, <2>1, UpToFirst
<1>12. WithFirst(start, x) \o tail = WithFirst(whole, x)
  <2>1. WithFirst(start, x) \o tail = WithFirst(start \o tail, x)
    BY Zenon, <1>2, <1>7, <1>10, ConcatFirst
  <2> QED BY <2>1
<1>13. whole \in Seq(Char) /\ whole # <<>> /\ whole[1] = GONE
  <2> HIDE DEF start
  <2>1. start \o tail \in Seq(Char) /\ start \o tail # <<>> /\ (start \o tail)[1] = GONE
    BY <1>7, <1>10
  <2> QED BY <2>1 DEF start
<1> HIDE DEF whole
<1> DEFINE old == UpTo(whole, NUL)
<1>14. old \in Seq(Char) /\ old # <<>>
  BY <1>13, UpToIs DEF GONE, NUL
<1>15. format83(new) = WithFirst(old, x)
  <2>1. whole[1] # NUL /\ x # NUL
    BY <1>2, <1>13 DEF GONE, NUL
  <2>2. UpTo(WithFirst(whole, x), NUL) = WithFirst(old, x)
    BY Zenon, <1>2, <1>13, <2>1, UpToFirst
  <2> QED BY Zenon, <1>9, <1>11, <1>12, <2>2
<1>16. SubSeq(old, 2, Len(old)) = SubSeq(f, 2, Len(f))
  BY <1>8 DEF Rest
<1> HIDE DEF old, start
<1>17. WithFirst(old, x) = f
  <2>1. Len(old) \in Nat \ {0} /\ Len(f) \in Nat \ {0}
    BY <1>14
  <2>2. Len(SubSeq(old, 2, Len(old))) = Len(old) - 1 /\ Len(SubSeq(f, 2, Len(f))) = Len(f) - 1
    <3>1. ASSUME NEW S, NEW t \in Seq(S), Len(t) \in Nat \ {0}
          PROVE  Len(SubSeq(t, 2, Len(t))) = Len(t) - 1
      <4>1. CASE Len(t) >= 2
        BY <4>1
      <4>2. CASE Len(t) = 1
        BY <4>2
      <4>3. Len(t) >= 2 \/ Len(t) = 1
        <5>1. \A n \in Nat \ {0} : n >= 2 \/ n = 1
          OBVIOUS
        <5> QED BY <3>1, <5>1
      <4> QED BY <4>1, <4>2, <4>3
    <3>2. Len(SubSeq(old, 2, Len(old))) = Len(old) - 1
      BY <1>14, <2>1, <3>1
    <3> QED BY <2>1, <3>1, <3>2
  <2>3. Len(old) = Len(f)
    BY <1>16, <2>1, <2>2
  <2>4. \A k \in 2..Len(f) : SubSeq(old, 2, Len(old))[k - 1] = old[k]
                             /\ SubSeq(f, 2, Len(f))[k - 1] = f[k]
    BY <1>14, <2>1, <2>3
  <2>5. \A k \in 2..Len(f) : old[k] = f[k]
    BY <1>16, <2>4
  <2>6. WithFirst(old, x) = [k \in 1..Len(f) |-> IF k = 1 THEN x ELSE old[k]]
    BY <2>3 DEF WithFirst
  <2>7. f = [k \in 1..Len(f) |-> f[k]]
    OBVIOUS
  <2>8. \A k \in 1..Len(f) : (IF k = 1 THEN x ELSE old[k]) = f[k]
    BY <2>1, <2>5
  <2> QED BY <2>6, <2>7, <2>8
<1> QED BY <1>15, <1>17 DEF new

--------------------------------------------------------------------------------
(* What -l prints of a file or directory.                                         *)

(* The padding ends a shorter name, and nothing else does.                        *)
LEMMA UpToAbsent ==
  ASSUME NEW s \in Seq(Char), NEW c, \A k \in DOMAIN s : s[k] # c
  PROVE  UpTo(s, c) = s
BY DEF UpTo

LEMMA UpToPadding ==
  ASSUME NEW s \in Seq(Char), NEW n \in Nat, Len(s) <= n,
         \A k \in DOMAIN s : s[k] # SPACE
  PROVE  /\ Padded(s, n) \in Seq(Char) /\ Len(Padded(s, n)) = n
         /\ UpTo(Padded(s, n), SPACE) = s
<1> DEFINE t == Padded(s, n)
           ends == {k \in DOMAIN t : t[k] = SPACE}
<1>1. /\ t \in [1..n -> Char] /\ Len(s) \in Nat /\ DOMAIN s = 1..Len(s)
      /\ \A k \in 1..n : t[k] = IF k <= Len(s) THEN s[k] ELSE SPACE
  <2>1. SPACE \in Char /\ \A k \in 1..Len(s) : s[k] \in Char
    <3>1. SPACE \in Char
      BY DEF Char
    <3> HIDE DEF Char
    <3> QED BY <3>1
  <2>2. \A k \in 1..n : k <= Len(s) => k \in 1..Len(s)
    OBVIOUS
  <2>3. Len(s) \in Nat /\ DOMAIN s = 1..Len(s)
    OBVIOUS
  <2> QED BY <2>1, <2>2, <2>3 DEF Padded
<1> HIDE DEF t
<1>2. t \in Seq(Char) /\ Len(t) = n /\ DOMAIN t = 1..n
  BY <1>1
<1>3. \A k \in 1..n : t[k] = SPACE <=> k > Len(s)
  BY <1>1
<1>4. CASE Len(s) = n
  <2>1. \A k \in DOMAIN t : t[k] # SPACE
    BY <1>2, <1>3, <1>4
  <2>2. UpTo(t, SPACE) = t
    BY <1>2, <2>1, UpToAbsent
  <2>3. t = s
    BY <1>1, <1>2, <1>4
  <2> QED BY <1>2, <2>2, <2>3 DEF t
<1>5. CASE Len(s) < n
  <2>1. ends = (Len(s) + 1)..n
    BY <1>1, <1>2, <1>3
  <2> HIDE DEF ends
  <2>2. ends \in SUBSET Nat /\ Len(s) + 1 \in ends
    BY <1>1, <1>5, <2>1
  <2>3. Min(ends) \in ends /\ \A y \in ends : Min(ends) <= y
    BY <2>2, MinIs
  <2>4. Min(ends) = Len(s) + 1
    BY <1>1, <2>1, <2>2, <2>3
  <2>5. UpTo(t, SPACE) = SubSeq(t, 1, Len(s))
    <3>1. UpTo(t, SPACE) = SubSeq(t, 1, Min(ends) - 1)
      BY <2>2 DEF UpTo, ends
    <3>2. Min(ends) - 1 = Len(s)
      BY <1>1, <2>4
    <3> QED BY <3>1, <3>2
  <2>6. SubSeq(t, 1, Len(s)) = s
    <3>1. \A k \in 1..Len(s) : t[k] = s[k]
      BY <1>1, <1>5
    <3>2. SubSeq(t, 1, Len(s)) = [k \in 1..Len(s) |-> t[k]]
      BY <1>1, <1>2, <1>5
    <3>3. s = [k \in 1..Len(s) |-> s[k]]
      OBVIOUS
    <3> QED BY <3>1, <3>2, <3>3
  <2> QED BY <1>2, <2>5, <2>6 DEF t
<1>6. Len(s) = n \/ Len(s) < n
  <2>1. Len(s) \in Nat
    OBVIOUS
  <2> QED BY <2>1
<1> QED BY <1>4, <1>5, <1>6

(* Two sequences one behind the other.                                            *)
LEMMA Joined ==
  ASSUME NEW s \in Seq(Char), NEW t \in Seq(Char)
  PROVE  /\ s \o t \in Seq(Char) /\ Len(s \o t) = Len(s) + Len(t)
         /\ \A k \in 1..Len(s) : (s \o t)[k] = s[k]
         /\ \A k \in 1..Len(t) : (s \o t)[Len(s) + k] = t[k]
<1> HIDE DEF Char
<1>1. s \o t \in Seq(Char) /\ Len(s \o t) = Len(s) + Len(t)
  OBVIOUS
<1>2. \A k \in 1..Len(s) : (s \o t)[k] = s[k]
  OBVIOUS
<1>3. \A k \in 1..Len(t) : (s \o t)[Len(s) + k] = t[k]
  OBVIOUS
<1> QED BY <1>1, <1>2, <1>3

(* The parts of two sequences put together.                                       *)
LEMMA PartsOf ==
  ASSUME NEW s \in Seq(Char), NEW t \in Seq(Char), NEW m \in Nat, NEW n \in Nat,
         Len(s) = m, Len(t) = n
  PROVE  SubSeq(s \o t, 1, m) = s /\ SubSeq(s \o t, m + 1, m + n) = t
<1> DEFINE u == s \o t
<1>1. u \in Seq(Char) /\ Len(u) = m + n
  OBVIOUS
<1>2. \A k \in 1..m : u[k] = s[k]
  OBVIOUS
<1>3. \A k \in 1..n : u[m + k] = t[k]
  OBVIOUS
<1> HIDE DEF u
<1>4. SubSeq(u, 1, m) = [k \in 1..m |-> u[k]]
  BY <1>1
<1>5. SubSeq(u, m + 1, m + n) \in Seq(Char) /\ Len(SubSeq(u, m + 1, m + n)) = n
      /\ \A k \in 1..n : SubSeq(u, m + 1, m + n)[k] = u[m + k]
  <2>1. n = 0 \/ n > 0
    OBVIOUS
  <2> QED BY <1>1, <2>1
<1>6. s = [k \in 1..m |-> s[k]]
  OBVIOUS
<1>7. SubSeq(u, 1, m) = s
  BY <1>2, <1>4, <1>6
<1>8. SubSeq(u, m + 1, m + n) = t
  <2> DEFINE v == SubSeq(u, m + 1, m + n)
  <2>1. v \in Seq(Char) /\ Len(v) = n /\ \A k \in 1..n : v[k] = t[k]
    BY <1>3, <1>5
  <2> HIDE DEF v
  <2>2. v = t
    BY <2>1
  <2> QED BY <2>2 DEF v
<1> QED BY <1>7, <1>8 DEF u

(* The characters of a genuine object's name.                                     *)
LEMMA GenuineIs ==
  ASSUME NEW o \in RootObject, Genuine(o)
  PROVE  /\ o.base \in Seq(Char) /\ o.base # <<>> /\ Len(o.base) \in 1..NameLen
         /\ o.ext \in Seq(Char) /\ Len(o.ext) \in 0..ExtLen
         /\ \A k \in DOMAIN o.base : o.base[k] \in Legal
         /\ \A k \in DOMAIN o.ext : o.ext[k] \in Legal
         /\ \A c \in Legal : c \in Char /\ c \notin {NUL, SPACE, DOT, GONE}
         /\ o.kind \in {"file", "directory"} /\ ~o.deleted
         /\ o.size \in Nat /\ o.start \in Nat
         /\ o.kind = "directory" => o.size = 0
         /\ o.kind = "file" /\ o.size = 0 => o.start = 0
<1>1. /\ o.base \in Seq(Legal) \ {<<>>} /\ Len(o.base) <= NameLen
      /\ o.ext \in Seq(Legal) /\ Len(o.ext) <= ExtLen
      /\ o.kind = "directory" => o.size = 0
      /\ o.kind = "file" /\ o.size = 0 => o.start = 0
      /\ o.size \in Nat /\ o.start \in Nat
  BY DEF RootObject
<1>2. o.kind \in {"file", "directory"} /\ ~o.deleted
  BY DEF Genuine
<1>3. \A c \in Legal : c \in Char /\ c \notin {NUL, SPACE, DOT, GONE}
  BY LegalAssumption DEF Char
<1>4. Legal \subseteq Char
  BY <1>3
<1>5. /\ o.base \in Seq(Char) /\ Len(o.base) \in 1..NameLen
      /\ \A k \in DOMAIN o.base : o.base[k] \in Legal
  <2>1. o.base \in Seq(Legal) /\ Len(o.base) \in Nat \ {0}
    BY <1>1
  <2> HIDE DEF Char
  <2> QED BY <1>1, <1>4, <2>1, NameLenAssumption
<1>6. /\ o.ext \in Seq(Char) /\ Len(o.ext) \in 0..ExtLen
      /\ \A k \in DOMAIN o.ext : o.ext[k] \in Legal
  <2> HIDE DEF Char
  <2> QED BY <1>1, <1>4, NameLenAssumption
<1> QED BY <1>1, <1>2, <1>3, <1>5, <1>6

(* The padded name reads as the name with its dot.                                *)
LEMMA GenuineName ==
  ASSUME NEW o \in RootObject, Genuine(o)
  PROVE  /\ Entry(o).name[1] \notin {GONE, NUL}
         /\ format83(Entry(o).name) = Name(o)
<1> DEFINE base == Padded(o.base, NameLen)
           ext  == Padded(o.ext, ExtLen)
           name == base \o ext
<1>1. Entry(o).name = name
  BY GenuineIs DEF Entry
<1>2. base \in Seq(Char) /\ Len(base) = NameLen /\ UpTo(base, SPACE) = o.base
  <2>1. Len(o.base) <= NameLen /\ NameLen \in Nat
    BY GenuineIs, NameLenAssumption
  <2>2. o.base \in Seq(Char) /\ \A k \in DOMAIN o.base : o.base[k] # SPACE
    BY GenuineIs
  <2> QED BY <2>1, <2>2, UpToPadding
<1>3. ext \in Seq(Char) /\ Len(ext) = ExtLen /\ UpTo(ext, SPACE) = o.ext
  <2>1. Len(o.ext) <= ExtLen /\ ExtLen \in Nat
    BY GenuineIs, NameLenAssumption
  <2>2. o.ext \in Seq(Char) /\ \A k \in DOMAIN o.ext : o.ext[k] # SPACE
    BY GenuineIs
  <2> QED BY <2>1, <2>2, UpToPadding
<1>4. base[1] = o.base[1] /\ o.base[1] \in Legal
  <2>1. 1 \in 1..NameLen /\ 1 <= Len(o.base) /\ 1 \in DOMAIN o.base
    BY GenuineIs, NameLenAssumption
  <2> QED BY <2>1, GenuineIs DEF Padded
<1>5. Head(ext) = SPACE <=> o.ext = <<>>
  <2>1. 1 \in 1..ExtLen /\ Len(o.ext) \in Nat
    BY GenuineIs, NameLenAssumption
  <2>2. Head(ext) = ext[1]
    OBVIOUS
  <2>3. ext[1] = IF 1 <= Len(o.ext) THEN o.ext[1] ELSE SPACE
    BY <2>1 DEF Padded
  <2>4. CASE o.ext = <<>>
    BY <2>2, <2>3, <2>4
  <2>5. CASE o.ext # <<>>
    <3>1. Len(o.ext) >= 1 /\ 1 \in DOMAIN o.ext
      BY <2>1, <2>5, GenuineIs
    <3>2. o.ext[1] # SPACE
      BY <3>1, GenuineIs
    <3> QED BY <2>2, <2>3, <2>5, <3>1, <3>2
  <2> QED BY <2>4, <2>5
<1> HIDE DEF base, ext
<1>6. SubSeq(name, 1, NameLen) = base /\ SubSeq(name, NameLen + 1, NameLen + ExtLen) = ext
  BY <1>2, <1>3, PartsOf, NameLenAssumption
<1>7. name[1] = base[1]
  BY <1>2, <1>3, NameLenAssumption
<1> HIDE DEF name
<1>8. format83(name) = UpTo(o.base \o (IF o.ext = <<>> THEN <<>> ELSE <<DOT>> \o o.ext), NUL)
  BY <1>2, <1>3, <1>5, <1>6 DEF format83
<1>9. Name(o) \in Seq(Char) /\ \A k \in DOMAIN Name(o) : Name(o)[k] # NUL
  <2>1. CASE o.ext = <<>>
    <3>1. Name(o) = o.base
      BY <2>1, GenuineIs DEF Name
    <3> QED BY <3>1, GenuineIs
  <2>2. CASE o.ext # <<>>
    <3>1. Name(o) = o.base \o (<<DOT>> \o o.ext)
      BY <2>2 DEF Name
    <3> DEFINE t == <<DOT>> \o o.ext
    <3>2. /\ o.ext \in Seq(Char) /\ DOT # NUL /\ DOT \in Char
          /\ \A k \in DOMAIN o.ext : o.ext[k] # NUL
      <4>1. DOT # NUL /\ DOT \in Char
        BY DEF DOT, NUL, Char
      <4> QED BY <4>1, GenuineIs
    <3>3. t \in Seq(Char) /\ \A k \in DOMAIN t : t[k] # NUL
      <4> HIDE DEF Char
      <4>1. t \in Seq(Char) /\ Len(t) = Len(o.ext) + 1 /\ t[1] = DOT
            /\ \A k \in 2..Len(t) : t[k] = o.ext[k - 1]
        BY <3>2
      <4>2. \A k \in 2..Len(t) : k - 1 \in DOMAIN o.ext
        BY <3>2, <4>1
      <4> HIDE DEF t
      <4>3. \A k \in DOMAIN t : k = 1 \/ k \in 2..Len(t)
        BY <4>1
      <4> QED BY <3>2, <4>1, <4>2, <4>3
    <3> HIDE DEF t, Char
    <3>4. o.base \in Seq(Char) /\ \A k \in DOMAIN o.base : o.base[k] # NUL
      BY GenuineIs
    <3>5. o.base \o t \in Seq(Char)
      BY <3>3, <3>4
    <3>6. \A k \in DOMAIN (o.base \o t) : (o.base \o t)[k] # NUL
      <4> DEFINE b == o.base
      <4> HIDE DEF b
      <4>1. b \in Seq(Char) /\ t \in Seq(Char) /\ Len(b) \in Nat /\ Len(t) \in Nat
        BY <3>3, <3>4 DEF b
      <4>2. \A k \in DOMAIN (b \o t) :
              /\ k \in DOMAIN b /\ (b \o t)[k] = b[k]
              \/ /\ k - Len(b) \in DOMAIN t /\ (b \o t)[k] = t[k - Len(b)]
        BY <4>1
      <4> QED BY <3>3, <3>4, <4>2 DEF b
    <3> QED BY <3>1, <3>5, <3>6 DEF t
  <2> QED BY <2>1, <2>2
<1>10. UpTo(Name(o), NUL) = Name(o)
  BY <1>9, UpToAbsent
<1>11. format83(name) = Name(o)
  BY <1>8, <1>10 DEF Name
<1>12. name[1] \notin {GONE, NUL}
  BY <1>4, <1>7, GenuineIs
<1> QED BY <1>1, <1>11, <1>12

(* A name of b legal characters, and behind a dot m more if there are any.        *)
DotBehind(s, b, m) ==
  /\ b \in 1..NameLen /\ m \in 0..ExtLen
  /\ DOMAIN s = 1..(IF m = 0 THEN b ELSE b + 1 + m)
  /\ \A k \in DOMAIN s : IF k = b + 1 THEN s[k] = DOT ELSE s[k] \in Legal

LEMMA DotBehindChecked ==
  ASSUME NEW s, NEW b, NEW m, DotBehind(s, b, m)
  PROVE  filename_checker(s)
<1> DEFINE dots  == {k \in DOMAIN s : s[k] = DOT}
           after == {k \in DOMAIN s \ dots : \E d \in dots : d < k}
<1>1. /\ b \in Nat /\ b >= 1 /\ b <= NameLen /\ m \in Nat /\ m <= ExtLen
      /\ NameLen \in Nat /\ ExtLen \in Nat
  BY NameLenAssumption DEF DotBehind
<1>2. \A k \in DOMAIN s : (s[k] = DOT <=> k = b + 1) /\ (k # b + 1 => s[k] \in Legal)
  BY LegalAssumption DEF DotBehind
<1>3. \A x, y \in Int : Cardinality(x..y) = IF x > y THEN 0 ELSE (y - x) + 1
  BY FS_Interval
<1>4. Cardinality(1..b) = b
  <2>1. 1 \in Int /\ b \in Int /\ ~(1 > b) /\ (b - 1) + 1 = b
    BY <1>1
  <2> QED BY <1>3, <2>1
<1>5. CASE m = 0
  <2>1. DOMAIN s = 1..b
    BY <1>5 DEF DotBehind
  <2>2. dots = {}
    BY <1>1, <1>2, <2>1
  <2> HIDE DEF dots
  <2>3. after = {} /\ (DOMAIN s \ dots) \ after = 1..b
    BY <2>1, <2>2
  <2>4. Cardinality(dots) = 0 /\ Cardinality(after) = 0
    BY <2>2, <2>3, FS_EmptySet
  <2>5. Cardinality((DOMAIN s \ dots) \ after) = b
    BY <1>4, <2>3
  <2>6. \A k \in DOMAIN s \ dots : s[k] \in Legal
    BY <1>1, <1>2, <2>1
  <2> HIDE DEF after
  <2>7. /\ Cardinality(dots) <= 1 /\ Cardinality(after) <= ExtLen
        /\ Cardinality((DOMAIN s \ dots) \ after) <= NameLen
    BY <1>1, <2>4, <2>5
  <2> QED BY <2>6, <2>7 DEF filename_checker, dots, after
<1>6. CASE m # 0
  <2>1. DOMAIN s = 1..(b + 1 + m)
    BY <1>6 DEF DotBehind
  <2>2. dots = {b + 1}
    BY <1>1, <1>2, <2>1
  <2> HIDE DEF dots
  <2>3. after = (b + 2)..(b + 1 + m)
    BY <1>1, <2>1, <2>2
  <2> HIDE DEF after
  <2>4. (DOMAIN s \ dots) \ after = 1..b
    BY <1>1, <2>1, <2>2, <2>3
  <2>5. Cardinality(dots) = 1
    BY <2>2, FS_Singleton
  <2>6. Cardinality(after) = m
    <3>1. b + 2 \in Int /\ b + 1 + m \in Int /\ ~(b + 2 > b + 1 + m)
          /\ ((b + 1 + m) - (b + 2)) + 1 = m
      BY <1>1, <1>6
    <3> QED BY <1>3, <2>3, <3>1
  <2>7. Cardinality((DOMAIN s \ dots) \ after) = b
    BY <1>4, <2>4
  <2>8. \A k \in DOMAIN s \ dots : s[k] \in Legal
    BY <1>2, <2>2
  <2>9. /\ Cardinality(dots) <= 1 /\ Cardinality(after) <= ExtLen
        /\ Cardinality((DOMAIN s \ dots) \ after) <= NameLen
    BY <1>1, <2>5, <2>6, <2>7
  <2> QED BY <2>8, <2>9 DEF filename_checker, dots, after
<1> QED BY <1>5, <1>6

(* It is a name that filename_checker accepts.                                    *)
LEMMA GenuineChecked ==
  ASSUME NEW o \in RootObject, Genuine(o)
  PROVE  filename_checker(Name(o))
<1>1. PICK s, x, b, e : s = o.base /\ x = o.ext /\ b = Len(s) /\ e = Len(x)
  OBVIOUS
<1>2. /\ s \in Seq(Char) /\ x \in Seq(Char) /\ b \in 1..NameLen /\ e \in 0..ExtLen
      /\ \A k \in 1..b : s[k] \in Legal
      /\ \A k \in 1..e : x[k] \in Legal
  <2>1. DOMAIN s = 1..b /\ DOMAIN x = 1..e
    BY <1>1, GenuineIs
  <2> QED BY <1>1, <2>1, GenuineIs
<1>3. b \in Nat /\ e \in Nat
  BY <1>2, NameLenAssumption
<1>4. CASE x = <<>>
  <2>1. Name(o) = s /\ e = 0 /\ DOMAIN s = 1..b
    <3>1. Name(o) = s
      BY <1>1, <1>2, <1>4 DEF Name
    <3> QED BY <1>1, <1>2, <1>4, <3>1
  <2>2. DotBehind(Name(o), b, e)
    BY <1>2, <1>3, <2>1 DEF DotBehind
  <2> QED BY <2>2, DotBehindChecked
<1>5. CASE x # <<>>
  <2>1. e # 0
    BY <1>1, <1>2, <1>5
  <2>2. PICK t, u : t = <<DOT>> \o x /\ u = s \o t
    OBVIOUS
  <2>3. Name(o) = u
    BY <1>1, <1>5, <2>2 DEF Name
  <2>4. <<DOT>> \in Seq(Char) /\ Len(<<DOT>>) = 1 /\ <<DOT>>[1] = DOT
    BY DEF Char
  <2>5. /\ t \in Seq(Char) /\ Len(t) = 1 + e /\ t[1] = DOT
        /\ \A k \in 1..e : t[1 + k] = x[k]
    <3>1. 1 \in 1..1
      OBVIOUS
    <3> QED BY <1>1, <1>2, <2>2, <2>4, <3>1, Joined
  <2>6. /\ u \in Seq(Char) /\ Len(u) = b + (1 + e)
        /\ \A k \in 1..b : u[k] = s[k]
        /\ \A k \in 1..(1 + e) : u[b + k] = t[k]
    <3> HIDE DEF Char
    <3>1. s \in Seq(Char) /\ t \in Seq(Char)
      BY <1>2, <2>5
    <3>2. /\ s \o t \in Seq(Char) /\ Len(s \o t) = Len(s) + Len(t)
          /\ \A k \in 1..Len(s) : (s \o t)[k] = s[k]
          /\ \A k \in 1..Len(t) : (s \o t)[Len(s) + k] = t[k]
      BY <3>1, Joined
    <3>3. u = s \o t /\ Len(s) = b /\ Len(t) = 1 + e
      BY <1>1, <2>2, <2>5
    <3> QED BY <3>2, <3>3
  <2>7. DOMAIN u = 1..(b + 1 + e)
    BY <1>3, <2>6
  <2>8. ASSUME NEW k \in 1..(b + 1 + e)
        PROVE  IF k = b + 1 THEN u[k] = DOT ELSE u[k] \in Legal
    <3>1. CASE k <= b
      <4>1. k \in 1..b /\ k # b + 1
        BY <1>3, <3>1
      <4> QED BY <1>2, <2>6, <4>1
    <3>2. CASE k = b + 1
      <4>1. 1 \in 1..(1 + e)
        BY <1>3
      <4> QED BY <2>5, <2>6, <3>2, <4>1
    <3>3. CASE k > b + 1
      <4>1. PICK n \in 1..e : k = b + (1 + n)
        <5>1. k - (b + 1) \in 1..e /\ k = b + (1 + (k - (b + 1)))
          BY <1>3, <3>3
        <5> QED BY <5>1
      <4>2. 1 + n \in 1..(1 + e) /\ k # b + 1
        BY <1>3, <3>3
      <4>3. u[k] = t[1 + n] /\ t[1 + n] = x[n]
        BY <2>5, <2>6, <4>1, <4>2
      <4> QED BY <1>2, <4>2, <4>3
    <3> QED BY <1>3, <3>1, <3>2, <3>3
  <2>9. DotBehind(Name(o), b, e)
    BY <1>2, <2>1, <2>3, <2>7, <2>8 DEF DotBehind
  <2> QED BY <2>9, DotBehindChecked
<1> QED BY <1>4, <1>5

(* The line that is printed of it.                                                *)
LEMMA GenuineShown ==
  ASSUME NEW o \in RootObject, Genuine(o)
  PROVE  Displayed(Entry(o)) /\ Line(Entry(o)) = Shown(o)
<1>1. /\ Entry(o).attr = {o.kind} \ {"file"} /\ Entry(o).size = o.size
      /\ Entry(o).hi = o.start \div ShortMod /\ Entry(o).lo = o.start % ShortMod
  BY DEF Entry
<1>2. "directory" \in Entry(o).attr <=> o.kind = "directory"
  BY <1>1
<1>3. get_start_cluster(Entry(o)) = o.start
  <2>1. o.start \in Nat /\ ShortMod \in Nat \ {0}
    BY GenuineIs, WidthsAssumption
  <2>2. (o.start \div ShortMod) * ShortMod + (o.start % ShortMod) = o.start
    BY <2>1
  <2> QED BY <1>1, <2>2 DEF get_start_cluster
<1>4. format83(Entry(o).name) = Name(o)
  BY GenuineName
<1>5. Line(Entry(o)) = Shown(o)
  BY <1>1, <1>2, <1>3, <1>4, GenuineIs DEF Line, Shown
<1> QED BY <1>4, <1>5, GenuineName, GenuineChecked DEF Displayed

(* What is printed at all of an object: nothing that is deleted.                  *)
LEMMA DisplayedIs ==
  ASSUME NEW o \in RootObject, Entry(o) \in DirEntry
  PROVE  /\ Genuine(o) => Displayed(Entry(o)) /\ Line(Entry(o)) = Shown(o)
         /\ Displayed(Entry(o)) /\ ~Genuine(o) => Decoy(o)
<1>1. ASSUME o.deleted PROVE ~Displayed(Entry(o))
  <2> DEFINE name == IF o.kind = "long" THEN o.base
                     ELSE Padded(o.base, NameLen) \o Padded(o.ext, ExtLen)
  <2>1. Entry(o).name = [name EXCEPT ![1] = GONE]
    BY <1>1 DEF Entry
  <2> HIDE DEF name
  <2>2. DOMAIN Entry(o).name = 1..(NameLen + ExtLen)
    BY DEF DirEntry
  <2>3. 1 \in DOMAIN name
    BY <2>1, <2>2, NameLenAssumption
  <2>4. Entry(o).name[1] = GONE
    BY <2>1, <2>3
  <2> QED BY <2>4 DEF Displayed
<1>2. o.kind \in {"file", "directory", "label", "long"} /\ o.deleted \in BOOLEAN
  BY DEF RootObject
<1> QED BY <1>1, <1>2, GenuineShown DEF Genuine, Decoy

--------------------------------------------------------------------------------
(* The slots of the root: where they are, and how the walk numbers them.          *)

(* Products of natural numbers.                                                   *)
LEMMA Products ==
  ASSUME NEW a \in Nat, NEW b \in Nat, NEW c \in Nat
  PROVE  /\ a * b \in Nat /\ a * b = b * a
         /\ (a + 1) * b = a * b + b /\ (a + b) * c = a * c + b * c
         /\ (a * b) * c = a * (b * c)
         /\ a <= b => a * c <= b * c
         /\ a < b /\ c > 0 => a * c + c <= b * c
<1>1. a * b \in Nat /\ a * b = b * a /\ (a + 1) * b = a * b + b /\ (a + b) * c = a * c + b * c
  OBVIOUS
<1>2. (a * b) * c = a * (b * c)
  OBVIOUS
<1>3. a <= b => a * c <= b * c
  <2> SUFFICES ASSUME a <= b PROVE a * c <= b * c
    OBVIOUS
  <2>1. PICK d \in Nat : b = a + d
    <3>1. b - a \in Nat /\ b = a + (b - a)
      OBVIOUS
    <3> QED BY <3>1
  <2>2. b * c = a * c + d * c /\ d * c \in Nat /\ a * c \in Nat
    BY <2>1
  <2> QED BY <2>2
<1>4. a < b /\ c > 0 => a * c + c <= b * c
  <2> SUFFICES ASSUME a < b PROVE a * c + c <= b * c
    OBVIOUS
  <2>1. PICK d \in Nat : b = (a + 1) + d
    <3>1. (b - a) - 1 \in Nat /\ b = (a + 1) + ((b - a) - 1)
      OBVIOUS
    <3> QED BY <3>1
  <2>2. b * c = (a * c + c) + d * c /\ d * c \in Nat /\ a * c \in Nat
    BY <2>1
  <2> QED BY <2>2
<1> QED BY <1>1, <1>2, <1>3, <1>4

(* Quotient and remainder are those they are made from.                           *)
LEMMA QuotientIs ==
  ASSUME NEW n \in Nat \ {0}, NEW q \in Nat, NEW r \in 0..(n - 1)
  PROVE  (q * n + r) \div n = q /\ (q * n + r) % n = r
OBVIOUS

LEMMA QuotientOf ==
  ASSUME NEW n \in Nat \ {0}, NEW a \in Nat
  PROVE  /\ a \div n \in Nat /\ a % n \in 0..(n - 1)
         /\ a = (a \div n) * n + (a % n) /\ (a \div n) * n <= a
OBVIOUS

(* Cells of e bytes, per in a block of size bytes, do not overlap.                *)
LEMMA CellsApart ==
  ASSUME NEW size \in Nat, NEW e \in Nat \ {0}, NEW per \in Nat, per * e <= size,
         NEW c \in Nat, NEW d \in Nat, NEW a \in 0..(per - 1), NEW b \in 0..(per - 1),
         c * size + a * e = d * size + b * e
  PROVE  c = d /\ a = b
<1>1. ASSUME NEW x \in Nat, NEW y \in Nat, x < y, NEW u \in 0..(per - 1), NEW v \in 0..(per - 1)
      PROVE  x * size + u * e < y * size + v * e
  <2>1. u * e + e <= per * e /\ u * e \in Nat /\ v * e \in Nat
    <3>1. u \in Nat /\ v \in Nat /\ u < per /\ e > 0
      OBVIOUS
    <3> QED BY <3>1, Products
  <2>2. u * e < size /\ size > 0
    <3> HIDE DEF Products
    <3>1. per * e \in Nat
      BY Products
    <3> QED BY <2>1, <3>1
  <2>3. x * size + size <= y * size /\ x * size \in Nat /\ y * size \in Nat
    BY <1>1, <2>2, Products
  <2> QED BY <2>1, <2>2, <2>3
<1>2. ~(c < d) /\ ~(d < c)
  BY <1>1
<1>3. c = d
  BY <1>2
<1>4. a * e = b * e
  <2>1. c * size \in Nat /\ a * e \in Nat /\ b * e \in Nat
    BY Products
  <2> QED BY <1>3, <2>1
<1>5. ~(a < b) /\ ~(b < a)
  <2>1. a \in Nat /\ b \in Nat /\ e > 0
    OBVIOUS
  <2>2. a < b => a * e + e <= b * e
    BY <2>1, Products
  <2>3. b < a => b * e + e <= a * e
    BY <2>1, Products
  <2>4. a * e \in Nat /\ b * e \in Nat
    BY <2>1, Products
  <2> QED BY <1>4, <2>1, <2>2, <2>3, <2>4
<1> QED BY <1>3, <1>5

(* Where a cluster begins.                                                        *)
SizeOf(be)   == be.BytsPerSec * be.SecPerClus
Data(be)     == be.RsvdSecCnt + be.NumFATs * be.FATSz32
Start(be, c) == Data(be) * be.BytsPerSec + (c - 2) * SizeOf(be)

LEMMA SizesAre ==
  ASSUME NEW be \in BootEntry, NEW per, per = entries_per_cluster(be)
  PROVE  /\ be.BytsPerSec \in Nat /\ be.SecPerClus \in Nat /\ be.RsvdSecCnt \in Nat
         /\ SizeOf(be) \in Nat /\ Data(be) \in Nat
         /\ per \in Nat /\ per * EntrySize <= SizeOf(be)
         /\ per = (be.BytsPerSec * be.SecPerClus) \div EntrySize
<1>1. /\ be.BytsPerSec \in Nat /\ be.SecPerClus \in Nat /\ be.RsvdSecCnt \in Nat
      /\ be.NumFATs \in Nat /\ be.FATSz32 \in Nat
  BY WidthsAssumption DEF BootEntry
<1>2. SizeOf(be) \in Nat /\ be.NumFATs * be.FATSz32 \in Nat
  BY <1>1, Products DEF SizeOf
<1>3. Data(be) \in Nat
  BY <1>1, <1>2 DEF Data
<1>4. per = SizeOf(be) \div EntrySize /\ EntrySize \in Nat \ {0}
  BY WidthsAssumption DEF entries_per_cluster, SizeOf
<1>5. per \in Nat /\ per * EntrySize <= SizeOf(be)
  BY <1>2, <1>4, QuotientOf
<1> QED BY <1>1, <1>2, <1>3, <1>4, <1>5 DEF SizeOf

LEMMA StartIs ==
  ASSUME NEW be \in BootEntry, NEW c \in Nat, c >= 2
  PROVE  /\ Start(be, c) \in Nat
         /\ Start(be, c) = (be.RsvdSecCnt + be.NumFATs * be.FATSz32) * be.BytsPerSec
                             + (c - 2) * be.SecPerClus * be.BytsPerSec
         /\ Start(be, c) < UIntMod => cluster_to_dir(be, c) = Start(be, c)
<1>1. PICK B, S, D, d : B = be.BytsPerSec /\ S = be.SecPerClus /\ D = Data(be) /\ d = c - 2
  OBVIOUS
<1>2. B \in Nat /\ S \in Nat /\ D \in Nat /\ d \in Nat /\ c = d + 2
  BY <1>1, SizesAre
<1>3. Start(be, c) = D * B + d * (B * S)
  BY <1>1 DEF Start, SizeOf
<1>4. d * (B * S) = (d * S) * B
  <2>1. B * S = S * B /\ (d * S) * B = d * (S * B)
    BY <1>2, Products
  <2> QED BY <2>1
<1>5. Start(be, c) \in Nat
  <2>1. D * B \in Nat /\ B * S \in Nat
    BY <1>2, Products
  <2>2. d * (B * S) \in Nat
    BY <1>2, <2>1, Products
  <2> QED BY <1>3, <2>1, <2>2
<1>6. Start(be, c) = (be.RsvdSecCnt + be.NumFATs * be.FATSz32) * be.BytsPerSec
                      + (c - 2) * be.SecPerClus * be.BytsPerSec
  BY <1>1, <1>3, <1>4 DEF Data
<1>7. ASSUME Start(be, c) < UIntMod PROVE cluster_to_dir(be, c) = Start(be, c)
  <2>1. UIntMod \in Nat \ {0}
    BY WidthsAssumption
  <2>2. c + UIntMod - 2 = d + UIntMod
    BY <1>2, <2>1
  <2>3. cluster_to_dir(be, c) = ((D + (d + UIntMod) * S) * B) % UIntMod
    BY <1>1, <2>2 DEF cluster_to_dir, Data
  <2>4. (D + (d + UIntMod) * S) * B = (S * B) * UIntMod + Start(be, c)
    <3>1. (d + UIntMod) * S = d * S + UIntMod * S /\ d * S \in Nat /\ UIntMod * S \in Nat
      BY <1>2, <2>1, Products
    <3>2. (D + (d * S + UIntMod * S)) * B = D * B + (d * S + UIntMod * S) * B
      <4>1. d * S + UIntMod * S \in Nat
        BY <3>1
      <4> QED BY <1>2, <4>1, Products
    <3>3. (d * S + UIntMod * S) * B = (d * S) * B + (UIntMod * S) * B
      BY <1>2, <3>1, Products
    <3>4. (UIntMod * S) * B = (S * B) * UIntMod
      <4>1. (UIntMod * S) * B = UIntMod * (S * B) /\ S * B \in Nat
        BY <1>2, <2>1, Products
      <4> QED BY <2>1, <4>1, Products
    <3>5. /\ D * B \in Nat /\ (d * S) * B \in Nat /\ (UIntMod * S) * B \in Nat
          /\ Start(be, c) = D * B + (d * S) * B
      BY <1>2, <1>3, <1>4, <3>1, Products
    <3> QED BY <3>1, <3>2, <3>3, <3>4, <3>5
  <2>5. ((S * B) * UIntMod + Start(be, c)) % UIntMod = Start(be, c)
    <3>1. S * B \in Nat
      BY <1>2, Products
    <3>2. Start(be, c) \in 0..(UIntMod - 1)
      BY <1>5, <1>7, <2>1
    <3> QED BY <2>1, <3>1, <3>2, QuotientIs
  <2> QED BY <2>3, <2>4, <2>5
<1> QED BY <1>5, <1>6, <1>7

(* The slot with index a in the cluster m of the chain.                           *)
Slot(be, m, a) == (m - 1) * entries_per_cluster(be) + a + 1

LEMMA SlotAddress ==
  ASSUME NEW be \in BootEntry, NEW chain, NEW m \in Nat \ {0},
         chain[m] \in Nat, chain[m] >= 2, NEW a \in 0..(entries_per_cluster(be) - 1)
  PROVE  /\ Slot(be, m, a) \in Nat \ {0}
         /\ Address(be, chain, Slot(be, m, a)) = Start(be, chain[m]) + a * EntrySize
<1>1. PICK per, k : per = entries_per_cluster(be) /\ k = Slot(be, m, a)
  OBVIOUS
<1>2. per \in Nat /\ per = (be.BytsPerSec * be.SecPerClus) \div EntrySize
  BY <1>1, SizesAre
<1>3. per \in Nat \ {0} /\ m - 1 \in Nat /\ a \in 0..(per - 1)
  BY <1>1, <1>2
<1>4. (m - 1) * per \in Nat /\ a \in Nat
  BY <1>3, Products
<1>5. k \in Nat \ {0} /\ k - 1 = (m - 1) * per + a
  BY <1>1, <1>4 DEF Slot
<1>6. (k - 1) \div per = m - 1 /\ (k - 1) % per = a
  <2>1. ((m - 1) * per + a) \div per = m - 1 /\ ((m - 1) * per + a) % per = a
    BY <1>3, QuotientIs
  <2> QED BY <1>5, <2>1
<1>7. (k - 1) \div per + 1 = m
  BY <1>3, <1>6
<1>8. Address(be, chain, k) =
        (be.RsvdSecCnt + be.NumFATs * be.FATSz32) * be.BytsPerSec
          + (chain[m] - 2) * be.SecPerClus * be.BytsPerSec + a * EntrySize
  BY <1>2, <1>6, <1>7 DEF Address
<1>9. Start(be, chain[m]) = (be.RsvdSecCnt + be.NumFATs * be.FATSz32) * be.BytsPerSec
                             + (chain[m] - 2) * be.SecPerClus * be.BytsPerSec
  BY StartIs
<1> QED BY <1>1, <1>5, <1>8, <1>9

(* Every slot has its cluster and its index there.                                *)
LEMMA SlotOf ==
  ASSUME NEW be \in BootEntry, entries_per_cluster(be) # 0, NEW M \in Nat,
         NEW k \in 1..(M * entries_per_cluster(be))
  PROVE  \E m \in 1..M : \E a \in 0..(entries_per_cluster(be) - 1) : k = Slot(be, m, a)
<1>0. PICK per : per = entries_per_cluster(be)
  OBVIOUS
<1>1. per \in Nat \ {0}
  BY <1>0, SizesAre
<1>2. k \in Nat /\ k - 1 \in Nat /\ k <= M * per /\ M * per \in Nat
  BY <1>0, <1>1, Products
<1>3. PICK q, a : q = (k - 1) \div per /\ a = (k - 1) % per
  OBVIOUS
<1>4. q \in Nat /\ a \in 0..(per - 1) /\ k - 1 = q * per + a /\ q * per <= k - 1
  BY <1>1, <1>2, <1>3, QuotientOf
<1>5. q < M
  <2>1. M <= q => M * per <= q * per
    BY <1>1, <1>4, Products
  <2>2. q * per \in Nat
    BY <1>1, <1>4, Products
  <2> QED BY <1>2, <1>4, <2>1, <2>2
<1>6. q + 1 \in 1..M /\ (q + 1) - 1 = q
  BY <1>4, <1>5
<1>7. k = Slot(be, q + 1, a)
  <2>1. q * per \in Nat /\ a \in Nat
    BY <1>1, <1>4, Products
  <2> QED BY <1>0, <1>2, <1>4, <1>6, <2>1 DEF Slot
<1> QED BY <1>0, <1>4, <1>6, <1>7

(* The facts about a well-formed root that the walk rests on.                     *)
LEMMA WellFormedIs ==
  ASSUME NEW be, NEW chain, NEW root, WellFormed(be, chain, root),
         NEW per, per = entries_per_cluster(be)
  PROVE  /\ be \in BootEntry /\ per \in Nat \ {0}
         /\ chain \in Seq(Nat) /\ Len(chain) \in Nat \ {0} /\ DOMAIN chain = 1..Len(chain)
         /\ \A m \in DOMAIN chain : chain[m] \in Nat /\ 2 <= chain[m] /\ chain[m] < EndMark
         /\ \A m, n \in DOMAIN chain : chain[m] = chain[n] => m = n
         /\ chain[1] = be.RootClus
         /\ root \in Seq(RootObject) /\ Len(root) \in Nat /\ DOMAIN root = 1..Len(root)
         /\ Len(root) <= Len(chain) * per
         /\ EndMark \in Nat
<1>1. be \in BootEntry /\ per \in Nat \ {0} /\ EndMark \in Nat
  BY SizesAre, WidthsAssumption DEF WellFormed
<1>2. chain \in Seq(2..(EndMark - 1)) /\ chain # <<>>
  BY DEF WellFormed
<1>3. /\ Len(chain) \in Nat \ {0} /\ DOMAIN chain = 1..Len(chain)
      /\ \A m \in DOMAIN chain : chain[m] \in 2..(EndMark - 1)
  <2>1. Len(chain) \in Nat /\ DOMAIN chain = 1..Len(chain) /\ Len(chain) # 0
    BY <1>2
  <2>2. \A m \in DOMAIN chain : chain[m] \in 2..(EndMark - 1)
    <3>1. PICK T : T = 2..(EndMark - 1)
      OBVIOUS
    <3>2. chain \in Seq(T)
      BY <1>2, <3>1
    <3>3. \A m \in DOMAIN chain : chain[m] \in T
      BY <3>2
    <3> QED BY <3>1, <3>3
  <2> QED BY <2>1, <2>2
<1>4. \A m \in DOMAIN chain : chain[m] \in Nat /\ 2 <= chain[m] /\ chain[m] < EndMark
  BY <1>1, <1>3
<1>5. chain \in Seq(Nat)
  BY <1>1, <1>2
<1>6. \A m, n \in DOMAIN chain : chain[m] = chain[n] => m = n
  BY DEF WellFormed, IsInjective
<1>7. /\ root \in Seq(RootObject) /\ Len(root) <= Len(chain) * per /\ chain[1] = be.RootClus
  BY DEF WellFormed
<1>8. Len(root) \in Nat /\ DOMAIN root = 1..Len(root)
  BY <1>7
<1> QED BY <1>1, <1>3, <1>4, <1>5, <1>6, <1>7, <1>8

(* The address of a slot.                                                         *)
LEMMA SlotPlace ==
  ASSUME NEW be, NEW chain, NEW root, WellFormed(be, chain, root),
         NEW k \in 1..(Len(chain) * entries_per_cluster(be))
  PROVE  \E m \in DOMAIN chain : \E a \in 0..(entries_per_cluster(be) - 1) :
           /\ k = Slot(be, m, a)
           /\ Address(be, chain, k) = Start(be, chain[m]) + a * EntrySize
<1>1. /\ be \in BootEntry /\ entries_per_cluster(be) # 0 /\ Len(chain) \in Nat
      /\ DOMAIN chain = 1..Len(chain)
      /\ \A m \in DOMAIN chain : chain[m] \in Nat /\ 2 <= chain[m]
  BY WellFormedIs
<1>2. \E m \in 1..Len(chain) : \E a \in 0..(entries_per_cluster(be) - 1) : k = Slot(be, m, a)
  BY <1>1, SlotOf
<1>3. PICK m \in 1..Len(chain) : \E a \in 0..(entries_per_cluster(be) - 1) : k = Slot(be, m, a)
  BY <1>2
<1>4. PICK a \in 0..(entries_per_cluster(be) - 1) : k = Slot(be, m, a)
  BY <1>3
<1>5. m \in Nat \ {0} /\ m \in DOMAIN chain /\ chain[m] \in Nat /\ chain[m] >= 2
  BY <1>1
<1>6. Address(be, chain, k) = Start(be, chain[m]) + a * EntrySize
  BY <1>1, <1>4, <1>5, SlotAddress
<1> QED BY <1>4, <1>5, <1>6

(* No two slots share an address.                                                 *)
LEMMA AddressApart ==
  ASSUME NEW be, NEW chain, NEW root, WellFormed(be, chain, root),
         NEW j \in 1..(Len(chain) * entries_per_cluster(be)),
         NEW k \in 1..(Len(chain) * entries_per_cluster(be)),
         Address(be, chain, j) = Address(be, chain, k)
  PROVE  j = k
<1>1. PICK per, size, A : /\ per = entries_per_cluster(be) /\ size = SizeOf(be)
                          /\ A = Data(be) * be.BytsPerSec
  OBVIOUS
<1>2. /\ be \in BootEntry /\ per \in Nat \ {0}
      /\ \A m \in DOMAIN chain : chain[m] \in Nat /\ 2 <= chain[m]
      /\ \A m, n \in DOMAIN chain : chain[m] = chain[n] => m = n
  BY <1>1, WellFormedIs
<1>3. PICK m \in DOMAIN chain : \E a \in 0..(entries_per_cluster(be) - 1) :
           /\ j = Slot(be, m, a)
           /\ Address(be, chain, j) = Start(be, chain[m]) + a * EntrySize
  BY SlotPlace
<1>4. PICK a \in 0..(per - 1) :
           /\ j = Slot(be, m, a)
           /\ Address(be, chain, j) = Start(be, chain[m]) + a * EntrySize
  BY <1>1, <1>3
<1>5. PICK n \in DOMAIN chain : \E b \in 0..(entries_per_cluster(be) - 1) :
           /\ k = Slot(be, n, b)
           /\ Address(be, chain, k) = Start(be, chain[n]) + b * EntrySize
  BY SlotPlace
<1>6. PICK b \in 0..(per - 1) :
           /\ k = Slot(be, n, b)
           /\ Address(be, chain, k) = Start(be, chain[n]) + b * EntrySize
  BY <1>1, <1>5
<1>7. PICK x, y : x = chain[m] /\ y = chain[n]
  OBVIOUS
<1>8. x \in Nat /\ y \in Nat /\ 2 <= x /\ 2 <= y
  BY <1>2, <1>7
<1>9. PICK c, d : c = x - 2 /\ d = y - 2
  OBVIOUS
<1>10. c \in Nat /\ d \in Nat /\ x = c + 2 /\ y = d + 2
  BY <1>8, <1>9
<1>11. EntrySize \in Nat \ {0} /\ size \in Nat /\ per * EntrySize <= size /\ A \in Nat
  <2>1. be.BytsPerSec \in Nat /\ Data(be) \in Nat /\ size \in Nat /\ per * EntrySize <= size
    BY <1>1, <1>2, SizesAre
  <2>2. Data(be) * be.BytsPerSec \in Nat
    BY <2>1, Products
  <2> QED BY <1>1, <2>1, <2>2, WidthsAssumption
<1>12. c * size + a * EntrySize = d * size + b * EntrySize
  <2>1. (A + c * size) + a * EntrySize = (A + d * size) + b * EntrySize
    BY <1>1, <1>4, <1>6, <1>7, <1>9 DEF Start
  <2>2. a \in Nat /\ b \in Nat
    BY <1>2
  <2>3. PICK p, q, r, s : p = c * size /\ q = d * size /\ r = a * EntrySize /\ s = b * EntrySize
    OBVIOUS
  <2>4. p \in Nat /\ q \in Nat /\ r \in Nat /\ s \in Nat
    BY <1>10, <1>11, <2>2, <2>3, Products
  <2>5. (A + p) + r = (A + q) + s
    BY <2>1, <2>3
  <2>6. p + r = q + s
    BY <1>11, <2>4, <2>5
  <2> QED BY <2>3, <2>6
<1>13. c = d /\ a = b
  BY <1>2, <1>10, <1>11, <1>12, CellsApart
<1>14. m = n
  BY <1>2, <1>7, <1>10, <1>13
<1> QED BY <1>4, <1>6, <1>13, <1>14

(* What a slot holds: an object of the root, or nothing behind the last of them.  *)
LEMMA SlotHolds ==
  ASSUME NEW be, NEW chain, NEW root, NEW links, WellFormed(be, chain, root),
         NEW k \in Slots(be, chain)
  PROVE  /\ Address(be, chain, k) \in DOMAIN Formatted(be, chain, root, links).dir
         /\ Formatted(be, chain, root, links).dir[Address(be, chain, k)]
              = IF k \in DOMAIN root THEN Entry(root[k]) ELSE Never
<1> DEFINE At(n)  == Address(be, chain, n)
           dir    == [at \in {At(n) : n \in Slots(be, chain)} |->
                        LET n == CHOOSE n \in Slots(be, chain) : At(n) = at
                        IN  IF n \in DOMAIN root THEN Entry(root[n]) ELSE Never]
<1>1. Formatted(be, chain, root, links).dir = dir
  BY DEF Formatted
<1>2. \A n \in Slots(be, chain) : At(n) = At(k) => n = k
  BY AddressApart DEF Slots
<1> HIDE DEF At
<1>3. At(k) \in DOMAIN dir
  OBVIOUS
<1>4. (CHOOSE n \in Slots(be, chain) : At(n) = At(k)) = k
  BY <1>2
<1>5. dir[At(k)] = IF k \in DOMAIN root THEN Entry(root[k]) ELSE Never
  BY <1>3, <1>4
<1> HIDE DEF dir
<1> QED BY <1>1, <1>3, <1>5 DEF At

(* The walk reads the slots where they are, as long as offsets do not wrap.       *)
LEMMA SlotReached ==
  ASSUME NEW be, NEW chain, NEW root, WellFormed(be, chain, root), NEW m \in DOMAIN chain,
         NEW a \in 0..(entries_per_cluster(be) - 1),
         Address(be, chain, (m - 1) * entries_per_cluster(be) + 1) < UIntMod,
         NEW n, n = (m - 1) * entries_per_cluster(be) + a
  PROVE  /\ n \in Nat /\ n + 1 \in Slots(be, chain)
         /\ (m - 1) * entries_per_cluster(be) + (a + 1) = n + 1
         /\ cluster_to_dir(be, chain[m]) + a * EntrySize = Address(be, chain, n + 1)
<1>1. PICK per, k : per = entries_per_cluster(be) /\ k = Slot(be, m, a)
  OBVIOUS
<1>2. /\ be \in BootEntry /\ per \in Nat \ {0} /\ Len(chain) \in Nat /\ DOMAIN chain = 1..Len(chain)
      /\ chain[m] \in Nat /\ 2 <= chain[m]
      /\ m \in Nat \ {0} /\ m <= Len(chain) /\ a \in 0..(per - 1)
  <2>1. /\ be \in BootEntry /\ per \in Nat \ {0} /\ Len(chain) \in Nat /\ DOMAIN chain = 1..Len(chain)
        /\ \A x \in DOMAIN chain : chain[x] \in Nat /\ 2 <= chain[x]
    BY <1>1, WellFormedIs
  <2>2. m \in Nat \ {0} /\ m <= Len(chain)
    BY <2>1
  <2> QED BY <1>1, <2>1, <2>2
<1>3. n \in Nat /\ k = n + 1 /\ (m - 1) * per + (a + 1) = n + 1 /\ a \in Nat
  <2>1. (m - 1) * per \in Nat /\ a \in Nat
    <3>1. m - 1 \in Nat /\ a \in Nat
      BY <1>2
    <3> QED BY <1>2, <3>1, Products
  <2> QED BY <1>1, <2>1 DEF Slot
<1>4. k \in 1..(Len(chain) * per)
  <2>1. m - 1 \in Nat /\ m - 1 < Len(chain) /\ a < per /\ m \in Nat
    BY <1>2
  <2>2. PICK d, M, p, q : d = m - 1 /\ M = Len(chain) /\ p = d * per /\ q = M * per
    OBVIOUS
  <2>3. d \in Nat /\ M \in Nat /\ d < M /\ per \in Nat /\ per > 0
    BY <1>2, <2>1, <2>2
  <2>4. p + per <= q /\ p \in Nat /\ q \in Nat
    BY <2>2, <2>3, Products
  <2>5. n = p + a /\ a \in Nat /\ k = n + 1 /\ q = Len(chain) * per
    BY <1>1, <1>3, <2>2
  <2> QED BY <2>1, <2>3, <2>4, <2>5
<1>5. cluster_to_dir(be, chain[m]) + a * EntrySize = Address(be, chain, k)
  <2>1. /\ a \in 0..(entries_per_cluster(be) - 1) /\ 0 \in 0..(entries_per_cluster(be) - 1)
    BY <1>1, <1>2
  <2>2. Address(be, chain, k) = Start(be, chain[m]) + a * EntrySize
    BY <1>1, <1>2, <2>1, SlotAddress
  <2>3. Address(be, chain, Slot(be, m, 0)) = Start(be, chain[m]) + 0 * EntrySize
    BY <1>2, <2>1, SlotAddress
  <2>4. Slot(be, m, 0) = (m - 1) * per + 1
    <3>1. m - 1 \in Nat
      BY <1>2
    <3>2. (m - 1) * per \in Nat
      BY <1>2, <3>1, Products
    <3> QED BY <1>1, <3>2 DEF Slot
  <2>5. Start(be, chain[m]) \in Nat
    BY <1>2, StartIs
  <2>6. Start(be, chain[m]) + 0 * EntrySize = Start(be, chain[m])
    BY <2>5, WidthsAssumption
  <2>7. Start(be, chain[m]) < UIntMod
    BY <1>1, <2>3, <2>4, <2>6
  <2>8. cluster_to_dir(be, chain[m]) = Start(be, chain[m])
    BY <1>2, <2>7, StartIs
  <2> QED BY <2>2, <2>8
<1> QED BY <1>1, <1>3, <1>4, <1>5 DEF Slots

(* The FAT reaches over the disk and the window, and the chain lies in it.        *)
LEMMA TabledIs ==
  ASSUME NEW f \in Images
  PROVE  /\ FatEntries(f.be) \in Nat /\ DOMAIN f.links = 0..(FatEntries(f.be) - 1)
         /\ f.last \in Nat /\ f.last < FatEntries(f.be) /\ Window \in Nat /\ Window <= f.last + 1
         /\ \A m \in DOMAIN f.chain :
              /\ f.chain[m] \in Nat /\ 2 <= f.chain[m] /\ f.chain[m] <= f.last
              /\ f.links[f.chain[m]] \in Nat /\ f.links[f.chain[m]] # 0
              /\ IF m = Len(f.chain) THEN f.links[f.chain[m]] >= EndMark
                                     ELSE f.links[f.chain[m]] = f.chain[m + 1]
<1>1. PICK be, chain, links, last, E : /\ be = f.be /\ chain = f.chain /\ links = f.links
                                       /\ last = f.last /\ E = FatEntries(be)
  OBVIOUS
<1>2. WellFormed(be, chain, f.root) /\ Tabled(be, chain, links, last)
  BY <1>1, ImagesAssumption
<1>3. be \in BootEntry /\ EndMark \in Nat \ {0} /\ DOMAIN chain = 1..Len(chain) /\ Len(chain) \in Nat
  BY <1>2, WellFormedIs, WidthsAssumption
<1>4. E \in Nat
  <2>1. be.BytsPerSec \in Nat /\ be.FATSz32 \in Nat
    BY <1>3, WidthsAssumption DEF BootEntry
  <2>2. be.FATSz32 * be.BytsPerSec \in Nat
    BY <2>1, Products
  <2> QED BY <1>1, <2>2, QuotientOf, WidthsAssumption DEF FatEntries
<1>5. links \in [0..(E - 1) -> 0..(UIntMod - 1)] /\ last \in 2..(E - 1) /\ Range(chain) \subseteq 2..last
  BY <1>1, <1>2 DEF Tabled
<1>6. last \in Nat /\ last < E /\ UIntMod \in Nat /\ Window \in Nat /\ Window <= last + 1
  BY <1>1, <1>2, <1>4, <1>5, WidthsAssumption DEF Tabled
<1>7. ASSUME NEW m \in DOMAIN chain
      PROVE  /\ chain[m] \in Nat /\ 2 <= chain[m] /\ chain[m] <= last
             /\ links[chain[m]] \in Nat /\ links[chain[m]] # 0
             /\ IF m = Len(chain) THEN links[chain[m]] >= EndMark ELSE links[chain[m]] = chain[m + 1]
  <2>1. chain[m] \in 2..last
    BY <1>5 DEF Range
  <2>2. chain[m] \in Nat /\ 2 <= chain[m] /\ chain[m] <= last /\ chain[m] \in 0..(E - 1)
    BY <1>4, <1>6, <2>1
  <2>3. links[chain[m]] \in Nat
    BY <1>5, <1>6, <2>2
  <2>4. IF m = Len(chain) THEN links[chain[m]] >= EndMark ELSE links[chain[m]] = chain[m + 1]
    BY <1>2 DEF Tabled
  <2>5. links[chain[m]] # 0
    <3>1. CASE m = Len(chain)
      BY <1>3, <2>3, <2>4, <3>1
    <3>2. CASE m # Len(chain)
      <4>1. m + 1 \in DOMAIN chain
        BY <1>3, <3>2
      <4>2. chain[m + 1] \in 2..last
        BY <1>5, <4>1 DEF Range
      <4> QED BY <1>6, <2>4, <3>2, <4>2
    <3> QED BY <3>1, <3>2
  <2> QED BY <2>2, <2>3, <2>4, <2>5
<1> QED BY <1>1, <1>4, <1>5, <1>6, <1>7

(* The counter is a number, and zero for an empty file.                           *)
LEMMA CounterIs ==
  ASSUME NEW be, NEW chain, NEW root, WellFormed(be, chain, root),
         NEW entry \in DirEntry, NEW n, n = file_cluster_counter(entry, be.SecPerClus * be.BytsPerSec)
  PROVE  n \in Nat /\ (entry.size = 0 => n = 0)
<1>1. PICK cs, sum : cs = be.SecPerClus * be.BytsPerSec /\ sum = entry.size + cs - 1
  OBVIOUS
<1>2. be \in BootEntry /\ entries_per_cluster(be) \in Nat \ {0}
  BY WellFormedIs
<1>3. cs \in Nat \ {0}
  <2>1. SizeOf(be) \in Nat /\ entries_per_cluster(be) * EntrySize <= SizeOf(be)
        /\ be.BytsPerSec \in Nat /\ be.SecPerClus \in Nat
    BY <1>2, SizesAre
  <2>2. cs = SizeOf(be)
    BY <1>1, <2>1, Products DEF SizeOf
  <2>3. 0 < entries_per_cluster(be) /\ EntrySize \in Nat \ {0} /\ 0 \in Nat
    BY <1>2, WidthsAssumption
  <2>4. PICK per, e : per = entries_per_cluster(be) /\ e = EntrySize
    OBVIOUS
  <2>5. 0 * e + e <= per * e /\ per * e \in Nat /\ 0 * e = 0
    BY <1>2, <2>3, <2>4, Products
  <2> QED BY <2>1, <2>2, <2>3, <2>4, <2>5
<1>4. entry.size \in Nat /\ UIntMod \in Nat \ {0}
  BY WidthsAssumption DEF DirEntry
<1>5. sum \in Nat
  BY <1>1, <1>3, <1>4
<1>6. sum % UIntMod \in Nat /\ sum = (sum \div UIntMod) * UIntMod + (sum % UIntMod)
      /\ sum \div UIntMod \in Nat
  <2>1. sum % UIntMod \in 0..(UIntMod - 1) /\ sum = (sum \div UIntMod) * UIntMod + (sum % UIntMod)
        /\ sum \div UIntMod \in Nat
    BY <1>4, <1>5, QuotientOf
  <2> QED BY <1>4, <2>1
<1>7. PICK r : r = sum % UIntMod
  OBVIOUS
<1>8. n = r \div cs /\ r \in Nat
  BY <1>1, <1>6, <1>7 DEF file_cluster_counter
<1>9. n \in Nat
  BY <1>3, <1>8, QuotientOf
<1>10. ASSUME entry.size = 0 PROVE n = 0
  <2>1. r <= sum /\ sum = cs - 1
    <3>1. (sum \div UIntMod) * UIntMod \in Nat
      BY <1>4, <1>6, Products
    <3> QED BY <1>1, <1>3, <1>4, <1>5, <1>6, <1>7, <1>10, <3>1
  <2>2. r \in 0..(cs - 1) /\ 0 * cs + r = r
    BY <1>3, <1>8, <2>1
  <2>3. (0 * cs + r) \div cs = 0
    BY <1>3, <2>2, QuotientIs
  <2> QED BY <1>8, <2>2, <2>3
<1> QED BY <1>9, <1>10

--------------------------------------------------------------------------------
(* The inductive invariant.                                                       *)

Option == [opt : {"i", "l", "r", "R", "s", "?"}, arg : Seq(STRING)]

(* How many options have been taken; the others are still to come, in order.      *)
Taken == Len(line.options) - Len(options)

LineInv ==
  /\ line \in CommandLines /\ line.operands \in Nat /\ line.options \in Seq(Option)
  /\ options \in Seq(Option) /\ Taken \in Nat
  /\ \A k \in DOMAIN options : options[k] = line.options[k + Taken]

(* A name that can be asked for.                                                  *)
IsName(name) == name \in Seq(STRING) /\ name # <<>> /\ name[1] \notin {SPACE, NUL, GONE}

(* The option that has asked for a name.                                          *)
Asked(o, name) ==
  \E k \in DOMAIN line.options : line.options[k].opt = o /\ line.options[k].arg = name

(* What has been noted is what has been given: a digest as soon as it has come.   *)
GivenInv ==
  /\ \A name \in {filename_r, filename_R} : name = NULL \/ IsName(name)
  /\ filename_r # NULL => Asked("r", filename_r)
  /\ filename_R # NULL => Asked("R", filename_R)
  /\ sha1_R = NULL => \A k \in 1..Taken : line.options[k].opt # "s"

(* The image as it was formatted.                                                 *)
Original == Formatted(format.be, format.chain, format.root, format.links)

(* A deleted entry is still the one that was deleted.                             *)
ImageInv ==
  /\ format \in Images
  /\ image = [be |-> image.be, dir |-> image.dir, fat |-> image.fat]
  /\ image.be = format.be /\ DOMAIN image.fat = DOMAIN format.links
  /\ DOMAIN image.dir = DOMAIN Original.dir /\ image.dir \in [DOMAIN image.dir -> DirEntry]
  /\ \A at \in DOMAIN image.dir :
       image.dir[at].name[1] = GONE => image.dir[at] = Original.dir[at]

(* What the scan has found are deleted entries with the name asked for.           *)
Candidate(f) ==
  /\ f = [at |-> f.at, entry |-> f.entry]
  /\ f.entry \in DirEntry /\ is_recoverable(f.entry, filename)
  /\ f.at \in DOMAIN image.dir => image.dir[f.at] = f.entry

ScanInv ==
  pc = "scan" =>
    /\ options = <<>> /\ line.operands = 0
    /\ opt \in {"r", "R"} /\ filename # NULL
    /\ \E S : found \in Seq(S)
    /\ \A k \in DOMAIN found : Candidate(found[k])

(* The output is a sequence of messages.                                          *)
OutInv == \E S : out \in Seq(S)

IInv == LineInv /\ GivenInv /\ ImageInv /\ ScanInv /\ OutInv

LEMMA InitInv == Init => IInv
<1> SUFFICES ASSUME Init PROVE IInv
  OBVIOUS
<1>1. LineInv
  <2>1. /\ line \in CommandLines /\ line.operands \in Nat /\ line.options \in Seq(Option)
        /\ options = line.options
    BY CommandLinesAssumption DEF Init, Option
  <2>2. Taken = 0
    BY <2>1 DEF Taken
  <2>3. \A k \in DOMAIN options : k + 0 = k
    BY <2>1
  <2> QED BY <2>1, <2>2, <2>3 DEF LineInv
<1>2. GivenInv
  BY <1>1 DEF Init, GivenInv, Taken, LineInv
<1>3. ImageInv
  <2>1. format \in Images /\ image = Original
    BY DEF Init, Original
  <2>2. \A at \in DOMAIN image.dir : image.dir[at] \in DirEntry
    BY <2>1, ImagesAssumption DEF Original
  <2>3. /\ image = [be |-> image.be, dir |-> image.dir, fat |-> image.fat]
        /\ image.dir = [at \in DOMAIN image.dir |-> image.dir[at]]
        /\ image.be = format.be /\ image.fat = format.links
    BY <2>1 DEF Original, Formatted
  <2> QED BY <2>1, <2>2, <2>3 DEF ImageInv
<1>4. ScanInv
  BY DEF Init, ScanInv
<1>5. OutInv
  <2>1. out \in Seq({})
    BY DEF Init
  <2> QED BY <2>1 DEF OutInv
<1> QED BY <1>1, <1>2, <1>3, <1>4, <1>5 DEF IInv

(* getopt hands out the options of the line, one after the other.                 *)
LEMMA OptionTaken ==
  ASSUME LineInv, options # <<>>, options' = Tail(options), line' = line
  PROVE  /\ LineInv' /\ Taken' = Taken + 1
         /\ Taken + 1 \in 1..Len(line.options)
         /\ Head(options) = line.options[Taken + 1] /\ Head(options) \in Option
<1>1. /\ options \in Seq(Option) /\ Len(options) \in Nat \ {0} /\ Len(line.options) \in Nat
      /\ Taken \in Nat /\ DOMAIN options = 1..Len(options)
      /\ line.options \in Seq(Option)
  BY DEF LineInv
<1>2. /\ options' \in Seq(Option) /\ Len(options') = Len(options) - 1
      /\ DOMAIN options' = 1..(Len(options) - 1)
      /\ \A k \in 1..(Len(options) - 1) : options'[k] = options[k + 1]
  BY <1>1
<1>3. Taken' = Taken + 1
  BY <1>1, <1>2 DEF Taken
<1>4. Taken + 1 \in 1..Len(line.options)
  BY <1>1 DEF Taken
<1>5. Head(options) = options[1] /\ 1 \in DOMAIN options
  BY <1>1
<1>6. options[1] = line.options[1 + Taken] /\ 1 + Taken = Taken + 1
  BY <1>1, <1>5 DEF LineInv
<1>7. Head(options) \in Option
  BY <1>1
<1>8. ASSUME NEW k \in DOMAIN options' PROVE options'[k] = line.options[k + Taken']
  <2>1. k \in 1..(Len(options) - 1) /\ k + 1 \in DOMAIN options /\ (k + 1) + Taken = k + (Taken + 1)
    BY <1>1, <1>2
  <2> QED BY <1>2, <1>3, <2>1 DEF LineInv
<1>9. LineInv'
  BY <1>1, <1>2, <1>3, <1>8 DEF LineInv
<1> QED BY <1>3, <1>4, <1>5, <1>6, <1>7, <1>9

(* An option without a digest leaves what is known of the digest as it is.        *)
LEMMA NoDigestTaken ==
  ASSUME LineInv, options # <<>>, options' = Tail(options), line' = line,
         Head(options).opt # "s", sha1_R' = sha1_R,
         sha1_R = NULL => \A k \in 1..Taken : line.options[k].opt # "s"
  PROVE  sha1_R' = NULL => \A k \in 1..Taken' : line'.options[k].opt # "s"
<1>1. Taken' = Taken + 1 /\ Taken \in Nat /\ Head(options) = line.options[Taken + 1]
  BY OptionTaken DEF LineInv
<1>2. \A k \in 1..(Taken + 1) : k \in 1..Taken \/ k = Taken + 1
  BY <1>1
<1> QED BY <1>1, <1>2

(* The line is taken as far as before.                                            *)
LEMMA LineKept ==
  ASSUME LineInv, GivenInv, UNCHANGED <<line, options, given>>
  PROVE  LineInv' /\ GivenInv'
<1>1. Taken' = Taken /\ (\A o, name : Asked(o, name)' <=> Asked(o, name))
  BY DEF Taken, Asked
<1> QED BY <1>1 DEF LineInv, GivenInv, given

(* A step of getopt.                                                              *)
LEMMA GetoptStep ==
  ASSUME IInv, OptionI \/ OptionL \/ OptionName \/ OptionS \/ OptionOther
  PROVE  LineInv' /\ GivenInv'
<1>1. options # <<>>
  BY DEF OptionI, OptionL, OptionName, OptionS, OptionOther, Next_option
<1>2. /\ line' = line
      /\ \/ UNCHANGED <<options, given>>
         \/ options' = Tail(options) /\ given' = given /\ Head(options).opt \in {"i", "l"}
         \/ options' = Tail(options) /\ OptionName
         \/ options' = Tail(options) /\ OptionS
  BY <1>1 DEF OptionI, OptionL, OptionName, OptionS, OptionOther, Next_option, Usage, Crash,
              Goto, given
<1>3. CASE UNCHANGED <<options, given>>
  BY <1>2, <1>3, LineKept DEF IInv
<1>4. ASSUME options' = Tail(options) 
      PROVE  LineInv' /\ (\A o, name : Asked(o, name)' <=> Asked(o, name))
  BY <1>1, <1>2, <1>4, OptionTaken DEF IInv, Asked
<1>5. CASE options' = Tail(options) /\ given' = given /\ Head(options).opt \in {"i", "l"}
  <2>1. sha1_R' = NULL => \A k \in 1..Taken' : line'.options[k].opt # "s"
    BY <1>1, <1>2, <1>5, NoDigestTaken DEF IInv, GivenInv, given
  <2> QED BY <1>4, <1>5, <2>1 DEF IInv, GivenInv, given
<1>6. CASE options' = Tail(options) /\ OptionName
  <2> DEFINE name == Head(options).arg
  <2>1. /\ Head(options).opt \in {"r", "R"} /\ sha1_R' = sha1_R
        /\ \/ Head(options).opt = "r" /\ filename_r' = name /\ filename_R' = filename_R
           \/ Head(options).opt = "R" /\ filename_R' = name /\ filename_r' = filename_r
    BY <1>1, <1>6 DEF OptionName, Next_option
  <2>2. sha1_R' = NULL => \A k \in 1..Taken' : line'.options[k].opt # "s"
    BY <1>1, <1>2, <1>6, <2>1, NoDigestTaken DEF IInv, GivenInv
  <2>3. PICK n \in DOMAIN line.options : Head(options) = line.options[n]
    <3>1. line.options \in Seq(Option) /\ Taken + 1 \in 1..Len(line.options)
          /\ Head(options) = line.options[Taken + 1]
      BY <1>1, <1>2, <1>6, OptionTaken DEF IInv, LineInv
    <3> QED BY <3>1
  <2>4. line.options[n] \in Option
    BY <1>1, <1>2, <1>6, <2>3, OptionTaken DEF IInv
  <2>5. IsName(name)
    BY <2>1, <2>3, <2>4, CommandLinesAssumption DEF IInv, LineInv, IsName, Option
  <2>6. Asked(Head(options).opt, name)
    BY <2>3 DEF Asked
  <2> HIDE DEF name
  <2> QED BY <1>4, <1>6, <2>1, <2>2, <2>5, <2>6 DEF IInv, GivenInv
<1>7. CASE options' = Tail(options) /\ OptionS
  <2>1. sha1_R' = Head(options).arg /\ filename_r' = filename_r /\ filename_R' = filename_R
    BY <1>7 DEF OptionS, NoteDigest
  <2>2. Head(options).arg # NULL
    <3>1. line.options \in Seq(Option) /\ Taken + 1 \in 1..Len(line.options)
          /\ Head(options) = line.options[Taken + 1] /\ line \in CommandLines
      BY <1>1, <1>2, <1>7, OptionTaken DEF IInv, LineInv
    <3> QED BY <3>1, CommandLinesAssumption
  <2> QED BY <1>4, <1>7, <2>1, <2>2 DEF IInv, GivenInv
<1> QED BY <1>2, <1>3, <1>5, <1>6, <1>7

(* What Recover does to the image: one name gets its first character, and is then *)
(* the name asked for; links change only for the clusters.                        *)
LEMMA RecoverIs ==
  ASSUME IInv, pc = "scan", NEW k \in DOMAIN found, NEW entry \in DirEntry,
         entry.name = found[k].entry.name, NEW clusters,
         Recover(found[k].at, entry, clusters), pc' # "undefined"
  PROVE  /\ ImageInv' /\ found[k].at \in DOMAIN image.dir
         /\ image.dir[found[k].at].name[1] = GONE
         /\ format83(image'.dir[found[k].at].name) = filename
         /\ \A a \in DOMAIN image.dir \ {found[k].at} : image'.dir[a] = image.dir[a]
         /\ image'.fat = Linked(image.fat, clusters)
         /\ AfterRecovery /\ out' = Append(out, [kind |-> "recovered", name |-> filename])
         /\ UNCHANGED <<line, format, options, given>>
<1> DEFINE at == found[k].at
           name == [entry.name EXCEPT ![1] = filename[1]]
           renamed == Renamed(entry)
<1>1. Candidate(found[k]) /\ IsName(filename)
  <2>1. Candidate(found[k]) /\ filename # NULL
    BY DEF IInv, ScanInv
  <2>2. IsName(filename)
    BY <2>1 DEF IInv, GivenInv, filename
  <2> QED BY <2>1, <2>2
<1>2. /\ at \in DOMAIN image.dir
      /\ image' = [image EXCEPT !.dir = [image.dir EXCEPT ![at] = renamed],
                                !.fat = Linked(image.fat, clusters)]
      /\ AfterRecovery /\ out' = Append(out, [kind |-> "recovered", name |-> filename])
      /\ UNCHANGED <<line, format, options, given>>
  BY DEF Recover, Undefined, Goto
<1>3. image.dir \in [DOMAIN image.dir -> DirEntry]
      /\ image = [be |-> image.be, dir |-> image.dir, fat |-> image.fat]
  BY DEF IInv, ImageInv
<1>4. entry.name \in [1..NameLen + ExtLen -> STRING] /\ filename[1] \in STRING
      /\ filename[1] # GONE
  BY <1>1 DEF DirEntry, IsName
<1>5. name \in [1..NameLen + ExtLen -> STRING] /\ name[1] # GONE
  BY <1>4, NameLenAssumption
<1>6. renamed \in DirEntry /\ renamed.name = name
  <2>1. renamed = [entry EXCEPT !.name = name]
    BY DEF Renamed
  <2> HIDE DEF name, renamed
  <2> QED BY <1>5, <2>1 DEF DirEntry
<1>7. entry.name[1] = GONE /\ format83(name) = filename
  <2>1. entry.name[1] = GONE /\ Rest(format83(entry.name)) = Rest(filename)
    BY <1>1 DEF is_recoverable, Candidate
  <2> QED BY <1>1, <1>4, <2>1, RenamedIs DEF IsName
<1>8. image.dir[at].name = entry.name
  BY <1>1, <1>2 DEF Candidate
<1> HIDE DEF at, name, renamed
<1>9. /\ image'.dir = [image.dir EXCEPT ![at] = renamed] /\ image'.be = image.be
      /\ image'.fat = Linked(image.fat, clusters)
      /\ image' = [be |-> image'.be, dir |-> image'.dir, fat |-> image'.fat]
  BY <1>2, <1>3
<1>10. image'.dir[at] = renamed /\ DOMAIN image'.dir = DOMAIN image.dir
      /\ image'.dir \in [DOMAIN image.dir -> DirEntry]
      /\ \A a \in DOMAIN image.dir \ {at} : image'.dir[a] = image.dir[a]
  BY <1>2, <1>3, <1>6, <1>9
<1>11. DOMAIN image'.fat = DOMAIN image.fat
  BY <1>9 DEF Linked
<1>12. ImageInv'
  <2>1. Original' = Original /\ format' = format
    BY <1>2 DEF Original
  <2>2. \A a \in DOMAIN image'.dir :
          image'.dir[a].name[1] = GONE => image'.dir[a] = Original.dir[a]
    BY <1>5, <1>6, <1>10 DEF IInv, ImageInv
  <2> QED BY <1>9, <1>10, <1>11, <2>1, <2>2 DEF IInv, ImageInv
<1> QED BY <1>2, <1>6, <1>7, <1>8, <1>9, <1>10, <1>12 DEF at

(* The entries that are renamed: as they were found, or with a new start.         *)
LEMMA RestartedIs ==
  ASSUME IInv, pc = "scan", NEW k \in DOMAIN found, NEW s \in Arrangements(found[k].entry)
  PROVE  /\ Restarted(found[k].entry, s) \in DirEntry
         /\ Restarted(found[k].entry, s).name = found[k].entry.name
<1> DEFINE entry == found[k].entry
           new   == Restarted(entry, s)
<1>1. entry \in DirEntry
  BY DEF IInv, ScanInv, Candidate
<1>2. Count(entry) \in Nat
  BY <1>1, CounterIs, ImagesAssumption DEF Count, IInv, ImageInv
<1>3. s \in [1..Count(entry) -> Unallocated(image)]
  BY DEF Arrangements
<1>4. CASE s = <<>>
  BY <1>1, <1>4 DEF Restarted
<1>5. CASE s # <<>>
  <2>1. s[1] \in Nat
    <3>1. PICK n, U : n = Count(entry) /\ U = Unallocated(image)
      OBVIOUS
    <3>2. n \in Nat /\ s \in [1..n -> U]
      BY <1>2, <1>3, <3>1
    <3>3. n # 0
      BY <1>5, <3>2
    <3>4. s[1] \in U
      BY <3>2, <3>3
    <3>5. U \subseteq Nat
      BY <3>1, WidthsAssumption DEF Unallocated
    <3> QED BY <3>4, <3>5
  <2>2. PICK hi, lo : hi = (s[1] \div ShortMod) % ShortMod /\ lo = s[1] % ShortMod
    OBVIOUS
  <2>3. hi \in 0..(ShortMod - 1) /\ lo \in 0..(ShortMod - 1)
    <3>1. ShortMod \in Nat \ {0}
      BY WidthsAssumption
    <3>2. s[1] \div ShortMod \in Nat /\ s[1] % ShortMod \in 0..(ShortMod - 1)
      BY <2>1, <3>1, QuotientOf
    <3>3. (s[1] \div ShortMod) % ShortMod \in 0..(ShortMod - 1)
      BY <3>1, <3>2, QuotientOf
    <3> QED BY <2>2, <3>2, <3>3
  <2>4. new = [entry EXCEPT !.hi = hi, !.lo = lo]
    BY <1>5, <2>2 DEF Restarted
  <2> HIDE DEF entry, new
  <2>5. new \in DirEntry /\ new.name = entry.name
    BY <1>1, <2>3, <2>4 DEF DirEntry
  <2> QED BY <2>5 DEF entry, new
<1> QED BY <1>4, <1>5

(* Whatever -r has come to, -R then starts from the beginning of the root.        *)
LEMMA AfterRecoveryIs ==
  ASSUME IInv, pc = "scan", AfterRecovery, UNCHANGED <<line, options, given>>
  PROVE  ScanInv'
<1>1. /\ pc' \in {"scan", "done"} /\ options' = options /\ line' = line
      /\ pc' = "scan" => opt' = "R" /\ found' = <<>> /\ filename_R' # NULL
  BY DEF AfterRecovery, StartWalk, given
<1>2. options = <<>> /\ line.operands = 0
  BY DEF IInv, ScanInv
<1>3. pc' = "scan" => filename' # NULL
  BY <1>1 DEF filename
<1>4. <<>> \in Seq({})
  OBVIOUS
<1> QED BY <1>1, <1>2, <1>3, <1>4 DEF ScanInv

(* The scan takes an entry only where one is.                                     *)
LEMMA ScanEntryStep ==
  ASSUME IInv, ScanEntry, ~Undefined
  PROVE  ScanInv'
<1>1. PICK entry \in EntriesAt(image, Here) :
        Look(is_recoverable(entry, filename), [at |-> Here, entry |-> entry])
  BY DEF ScanEntry
<1>2. pc = "scan" /\ image' = image /\ options' = options /\ line' = line /\ opt' = opt
      /\ filename' = filename
  BY <1>1 DEF ScanEntry, AtEntry, Look, given, filename
<1>3. PICK f : f = [at |-> Here, entry |-> entry]
  OBVIOUS
<1>4. found' = IF is_recoverable(entry, filename) THEN Append(found, f) ELSE found
  BY <1>1, <1>3 DEF Look
<1>5. /\ options = <<>> /\ line.operands = 0 /\ opt \in {"r", "R"} /\ filename # NULL
      /\ \A k \in DOMAIN found : Candidate(found[k])
  BY <1>2 DEF IInv, ScanInv
<1>6. PICK S : found \in Seq(S)
  BY <1>2 DEF IInv, ScanInv
<1>7. \A g : Candidate(g)' <=> Candidate(g)
  BY <1>2 DEF Candidate
<1>8. CASE is_recoverable(entry, filename)
  <2>1. entry \in DirEntry
    BY ForeignAssumption DEF EntriesAt, IInv, ImageInv
  <2>2. f = [at |-> f.at, entry |-> f.entry] /\ f.at = Here /\ f.entry = entry
    BY <1>3
  <2>3. f.at \in DOMAIN image.dir => image.dir[f.at] = f.entry
    BY <2>2 DEF EntriesAt
  <2>4. Candidate(f)
    BY <1>8, <2>1, <2>2, <2>3 DEF Candidate
  <2>5. PICK T : T = S \union {f}
    OBVIOUS
  <2>6. found \in Seq(T) /\ f \in T
    BY <1>6, <2>5
  <2>7. /\ found' \in Seq(T)
        /\ \A k \in DOMAIN found' : (k \in DOMAIN found /\ found'[k] = found[k]) \/ found'[k] = f
    BY <1>4, <1>8, <2>6
  <2>8. \A k \in DOMAIN found' : Candidate(found'[k])
    BY <1>5, <2>4, <2>7
  <2> QED BY <1>2, <1>5, <1>7, <2>7, <2>8 DEF ScanInv
<1>9. CASE ~is_recoverable(entry, filename)
  BY <1>2, <1>4, <1>5, <1>6, <1>7, <1>9 DEF ScanInv
<1> QED BY <1>8, <1>9

(* A step that leaves the mapping and the search for an entry alone.              *)
LEMMA ScanKept ==
  ASSUME IInv, UNCHANGED <<line, format, image, options, given, opt, found>>,
         pc' = "scan" => pc = "scan"
  PROVE  ScanInv'
<1>1. filename' = filename
  BY DEF filename, given
<1>2. \A g : Candidate(g)' <=> Candidate(g)
  BY <1>1 DEF Candidate
<1> QED BY <1>1, <1>2 DEF IInv, ScanInv

LEMMA ImageKept ==
  ASSUME IInv, UNCHANGED <<format, image>>
  PROVE  ImageInv'
<1>1. Original' = Original
  BY DEF Original
<1> QED BY <1>1 DEF IInv, ImageInv

(* A step after which nothing is left to be done, or that leads out of what the   *)
(* program defines.                                                               *)
LEMMA BrokenDown ==
  ASSUME IInv, Undefined \/ Crash
  PROVE  LineInv' /\ GivenInv' /\ ImageInv' /\ ScanInv'
<1>1. UNCHANGED <<line, format, image, options, given>> /\ pc' # "scan"
  BY DEF Undefined, Crash, Goto
<1> QED BY <1>1, LineKept, ImageKept DEF IInv, ScanInv

(* A message goes behind those printed before.                                    *)
LEMMA Printed ==
  ASSUME OutInv, NEW message
  PROVE  /\ \E S : Append(out, message) \in Seq(S)
         /\ Last(Append(out, message)) = message
<1>1. PICK S : out \in Seq(S)
  BY DEF OutInv
<1> DEFINE T == S \union {message}
<1>2. out \in Seq(T)
  BY <1>1
<1> HIDE DEF T
<1>3. message \in T
  BY DEF T
<1>4. Append(out, message) \in Seq(T)
  BY <1>2, <1>3
<1>5. Last(Append(out, message)) = message
  BY <1>2, <1>3 DEF Last
<1> QED BY <1>4, <1>5

(* The candidate a recovery ends with, if it does not break down.                 *)
LEMMA RecoveryIs ==
  ASSUME IInv, RecoverCont \/ RecoverNonCont, ~Undefined, ~Crash, ~RecoverNone
  PROVE  \E k \in DOMAIN found : \E entry \in DirEntry : \E clusters :
           /\ entry.name = found[k].entry.name
           /\ Recover(found[k].at, entry, clusters)
           /\ IF opt = "r" THEN clusters = Run(found[k].entry)
                           ELSE ~Overflows(found[k].entry) /\ clusters \in Arrangements(found[k].entry)
<1>1. pc = "scan" /\ (\E S : found \in Seq(S)) /\ \A k \in DOMAIN found : found[k].entry \in DirEntry
  BY DEF RecoverCont, RecoverNonCont, Scanned, IInv, ScanInv, Candidate
<1>2. \A f \in Range(found) : \E k \in DOMAIN found : f = found[k]
  BY DEF Range
<1>3. Len(found) = 1 => 1 \in DOMAIN found
  BY <1>1
<1>4. CASE RecoverCont
  <2>1. opt = "r"
    BY <1>4 DEF RecoverCont, Scanned
  <2>2. \E k \in DOMAIN found : Recover(found[k].at, found[k].entry, Run(found[k].entry))
    BY <1>2, <1>3, <1>4 DEF RecoverCont
  <2> QED BY <1>1, <2>1, <2>2
<1>5. CASE RecoverNonCont
  <2>1. opt = "R"
    BY <1>5 DEF RecoverNonCont, Scanned
  <2>2. PICK k \in DOMAIN found : \E s \in Arrangements(found[k].entry) :
          ~Overflows(found[k].entry) /\ Recover(found[k].at, Restarted(found[k].entry, s), s)
    BY <1>2, <1>5 DEF RecoverNonCont
  <2>3. PICK s \in Arrangements(found[k].entry) :
          ~Overflows(found[k].entry) /\ Recover(found[k].at, Restarted(found[k].entry, s), s)
    BY <2>2
  <2>4. /\ Restarted(found[k].entry, s) \in DirEntry
        /\ Restarted(found[k].entry, s).name = found[k].entry.name
    BY <1>1, RestartedIs
  <2> QED BY <2>1, <2>3, <2>4
<1> QED BY <1>4, <1>5

LEMMA OutStep == IInv /\ [Next]_vars => OutInv'
<1> SUFFICES ASSUME IInv, [Next]_vars PROVE OutInv'
  OBVIOUS
<1>1. OutInv
  BY DEF IInv
<1>2. out' = out \/ \E message : out' = Append(out, message)
  BY DEF Next, DiskMapped, OptionI, OptionL, OptionName, OptionS, OptionOther, OptionsEnd,
         ListEntry, NextCluster, ListEnd, ScanEntry, RecoverCont, RecoverNonCont, Recover,
         RecoverNone, Look, Usage, Crash, Undefined, Terminated, vars
<1> QED BY <1>1, <1>2, Printed DEF OutInv

(* Every step keeps the invariant.                                                *)
LEMMA NextInv == IInv /\ [Next]_vars => IInv'
<1> SUFFICES ASSUME IInv, [Next]_vars PROVE IInv'
  OBVIOUS
<1>13. OutInv'
  BY OutStep
<1>1. CASE DiskMapped
  <2>1. UNCHANGED <<line, format, image, options, given, opt, found>> /\ pc' # "scan"
    BY <1>1 DEF DiskMapped, Usage, Goto, walk
  <2> QED BY <2>1, LineKept, ScanKept, ImageKept, <1>13 DEF IInv
<1>2. CASE OptionI \/ OptionL \/ OptionName \/ OptionS \/ OptionOther
  <2>1. UNCHANGED <<format, image>> /\ pc' # "scan"
    BY <1>2 DEF OptionI, OptionL, OptionName, OptionS, OptionOther, Usage, Crash, Goto, StartWalk
  <2> QED BY <1>2, <2>1, GetoptStep, ImageKept, <1>13 DEF IInv, ScanInv
<1>3. CASE OptionsEnd
  <2>1. UNCHANGED <<line, format, image, options, given>>
    BY <1>3 DEF OptionsEnd, Usage, Crash, Goto, StartWalk
  <2>2. ImageInv' /\ LineInv' /\ GivenInv'
    BY <2>1, LineKept, ImageKept DEF IInv
  <2>3. ScanInv'
    <3>1. /\ pc' = "scan" =>
              /\ ~(line.operands > 0) /\ ~(filename_r = NULL /\ filename_R = NULL)
              /\ opt' = (IF filename_r # NULL THEN "r" ELSE "R") /\ found' = <<>>
      BY <1>3 DEF OptionsEnd, Usage, Crash, Goto, StartWalk
    <3>2. options = <<>>
      <4>1. options # <<>> => Head(options) \in Option
        BY DEF IInv, LineInv
      <4>2. \A o \in Option : o.opt # "none"
        BY DEF Option
      <4> QED BY <1>3, <4>1, <4>2 DEF OptionsEnd, Next_option
    <3>3. pc' = "scan" => line.operands = 0
      BY <3>1 DEF IInv, LineInv
    <3>4. pc' = "scan" => filename' # NULL /\ opt' \in {"r", "R"}
      BY <2>1, <3>1 DEF filename, given
    <3>5. <<>> \in Seq({})
      OBVIOUS
    <3> QED BY <2>1, <3>1, <3>2, <3>3, <3>4, <3>5 DEF ScanInv
  <2> QED BY <2>2, <2>3, <1>13 DEF IInv
<1>4. CASE ListEntry
  <2>1. UNCHANGED <<line, format, image, options, given>> /\ pc' # "scan"
    BY <1>4 DEF ListEntry, AtEntry, Look
  <2> QED BY <2>1, LineKept, ImageKept, <1>13 DEF IInv, ScanInv
<1>5. CASE NextCluster
  <2>1. UNCHANGED <<line, format, image, options, given, opt, found, pc>>
    BY <1>5 DEF NextCluster
  <2> QED BY <2>1, LineKept, ScanKept, ImageKept, <1>13 DEF IInv
<1>6. CASE ListEnd
  <2>1. UNCHANGED <<line, format, image, options, given, opt, found>> /\ pc' # "scan"
    BY <1>6 DEF ListEnd, Goto, walk
  <2> QED BY <2>1, LineKept, ScanKept, ImageKept, <1>13 DEF IInv
<1>7. CASE ScanEntry
  <2>1. CASE Undefined
    BY <2>1, BrokenDown, <1>13 DEF IInv
  <2>2. CASE ~Undefined
    <3>1. UNCHANGED <<line, format, image, options, given>>
      BY <1>7, <2>2 DEF ScanEntry, Look
    <3> QED BY <1>7, <2>2, <3>1, LineKept, ScanEntryStep, ImageKept, <1>13 DEF IInv
  <2> QED BY <2>1, <2>2
<1>8. CASE RecoverCont \/ RecoverNonCont
  <2>1. pc = "scan"
    BY <1>8 DEF RecoverCont, RecoverNonCont, Scanned
  <2>2. CASE Undefined \/ Crash
    BY <2>2, BrokenDown, <1>13 DEF IInv
  <2>3. CASE RecoverNone
    <3>1. AfterRecovery /\ UNCHANGED <<line, format, options, given, image>>
      BY <2>3 DEF RecoverNone
    <3> QED BY <2>1, <3>1, AfterRecoveryIs, LineKept, ImageKept, <1>13 DEF IInv
  <2>4. CASE ~Undefined /\ ~Crash /\ ~RecoverNone
    <3>1. PICK k \in DOMAIN found : \E entry \in DirEntry : \E clusters :
            entry.name = found[k].entry.name /\ Recover(found[k].at, entry, clusters)
      BY <1>8, <2>4, RecoveryIs
    <3>2. PICK entry \in DirEntry : \E clusters :
            entry.name = found[k].entry.name /\ Recover(found[k].at, entry, clusters)
      BY <3>1
    <3>3. PICK clusters :
            entry.name = found[k].entry.name /\ Recover(found[k].at, entry, clusters)
      BY <3>2
    <3>4. pc' # "undefined"
      BY <2>4, <3>3 DEF Recover, AfterRecovery, StartWalk
    <3> QED BY <2>1, <3>3, <3>4, RecoverIs, AfterRecoveryIs, LineKept, <1>13 DEF IInv
  <2> QED BY <2>2, <2>3, <2>4
<1>9. CASE Terminated \/ UNCHANGED vars
  <2>1. UNCHANGED <<line, format, image, options, given, opt, found, pc>>
    BY <1>9 DEF Terminated, vars, walk
  <2> QED BY <2>1, LineKept, ScanKept, ImageKept, <1>13 DEF IInv
<1> QED
  BY <1>1, <1>2, <1>3, <1>4, <1>5, <1>6, <1>7, <1>8, <1>9 DEF Next

(* The inductive invariant holds throughout.                                      *)
THEOREM Invariance == Spec => []IInv
<1>1. IInv /\ [Next]_vars => IInv'
  BY NextInv
<1> QED BY <1>1, InitInv, PTL DEF Spec


--------------------------------------------------------------------------------
(* The scan of a sound image.                                                     *)

(* The links of the root's own clusters are those it was formatted with.          *)
RootKept ==
  \A m \in DOMAIN format.chain : image.fat[format.chain[m]] = format.links[format.chain[m]]

(* The candidates among the first slots.                                          *)
Passed(f, name, slots) == {k \in Candidates(f.root, name) : k <= slots}

(* What has been found are candidates of the root, each at an address of it.      *)
FromRoot(f, name, list) ==
  /\ \E S : list \in Seq(S)
  /\ \A n \in DOMAIN list :
       /\ list[n].at \in DOMAIN Formatted(f.be, f.chain, f.root, f.links).dir
       /\ \E k \in Candidates(f.root, name) : list[n].entry = Entry(f.root[k])

(* The scan stands at an entry of the chain, with no more found than there was,   *)
(* or behind its end.                                                             *)
Scanning(f, name, list, c, a) ==
  /\ FromRoot(f, name, list)
  /\ \/ \E m \in DOMAIN f.chain :
          /\ c = f.chain[m] /\ a \in 0..entries_per_cluster(f.be)
          /\ Len(list) <= Cardinality(Passed(f, name, (m - 1) * entries_per_cluster(f.be) + a))
     \/ c \in Nat /\ c >= EndMark

SoundInv ==
  Sound => /\ RootKept
           /\ pc = "scan" => Scanning(format, filename, found, current_cluster, i)

(* The candidates are finitely many.                                              *)
LEMMA CandidatesFinite ==
  ASSUME NEW f \in Images, NEW name, NEW slots
  PROVE  /\ IsFiniteSet(Candidates(f.root, name)) /\ Candidates(f.root, name) \subseteq DOMAIN f.root
         /\ IsFiniteSet(Passed(f, name, slots)) /\ Cardinality(Passed(f, name, slots)) \in Nat
         /\ Cardinality(Candidates(f.root, name)) \in Nat
         /\ Cardinality(Passed(f, name, slots)) <= Cardinality(Candidates(f.root, name))
<1>1. Len(f.root) \in Nat /\ DOMAIN f.root = 1..Len(f.root)
  BY ImagesAssumption, WellFormedIs
<1>2. IsFiniteSet(DOMAIN f.root)
  BY <1>1, FS_Interval
<1>3. Candidates(f.root, name) \in SUBSET DOMAIN f.root
  BY DEF Candidates
<1>4. IsFiniteSet(Candidates(f.root, name))
  BY <1>2, <1>3, FS_Subset
<1>5. Passed(f, name, slots) \in SUBSET Candidates(f.root, name)
  BY DEF Passed
<1>6. /\ IsFiniteSet(Passed(f, name, slots))
      /\ Cardinality(Passed(f, name, slots)) <= Cardinality(Candidates(f.root, name))
  BY <1>4, <1>5, FS_Subset
<1> QED BY <1>3, <1>4, <1>6, FS_CardinalityType

(* The scan of a root starts with nothing found.                                  *)
LEMMA ScanStarts ==
  ASSUME NEW f \in Images, NEW name
  PROVE  Scanning(f, name, <<>>, f.be.RootClus, 0)
<1>1. /\ Len(f.chain) \in Nat \ {0} /\ DOMAIN f.chain = 1..Len(f.chain)
      /\ f.chain[1] = f.be.RootClus
  BY ImagesAssumption, WellFormedIs
<1>2. PICK per : per = entries_per_cluster(f.be)
  OBVIOUS
<1>3. per \in Nat
  BY <1>2, ImagesAssumption, WellFormedIs
<1>4. <<>> \in Seq({}) /\ DOMAIN <<>> = {} /\ Len(<<>>) = 0
  OBVIOUS
<1>5. FromRoot(f, name, <<>>)
  BY <1>4 DEF FromRoot
<1>6. 1 \in DOMAIN f.chain /\ 0 \in 0..per
  BY <1>1, <1>3
<1>7. Len(<<>>) <= Cardinality(Passed(f, name, (1 - 1) * entries_per_cluster(f.be) + 0))
  BY <1>4, CandidatesFinite
<1> QED BY <1>1, <1>2, <1>5, <1>6, <1>7 DEF Scanning

(* The deleted entries of a directory are those it was formatted with.            *)
StillDeleted(f, dir) ==
  LET dir0 == Formatted(f.be, f.chain, f.root, f.links).dir
  IN  /\ DOMAIN dir = DOMAIN dir0
      /\ \A at \in DOMAIN dir : dir[at].name[1] = GONE => dir[at] = dir0[at]

(* The entry behind the first slots is that of one more candidate, if it is one.  *)
Noted(f, dir, at, name, slots) ==
  /\ slots \in Nat /\ at \in DOMAIN dir
  /\ Cardinality(Passed(f, name, slots)) <= Cardinality(Passed(f, name, slots + 1))
  /\ is_recoverable(dir[at], name) =>
       /\ \E k \in Candidates(f.root, name) : dir[at] = Entry(f.root[k])
       /\ Cardinality(Passed(f, name, slots + 1)) = Cardinality(Passed(f, name, slots)) + 1

LEMMA CandidateNoted ==
  ASSUME NEW f \in Images, NEW m \in DOMAIN f.chain,
         NEW a \in 0..(entries_per_cluster(f.be) - 1),
         Address(f.be, f.chain, (m - 1) * entries_per_cluster(f.be) + 1) < UIntMod,
         NEW dir, StillDeleted(f, dir), NEW at, at = cluster_to_dir(f.be, f.chain[m]) + a * EntrySize,
         NEW name, NEW slots, slots = (m - 1) * entries_per_cluster(f.be) + a
  PROVE  Noted(f, dir, at, name, slots)
<1>1. PICK be, chain, root, per, dir0 :
        /\ be = f.be /\ chain = f.chain /\ root = f.root /\ per = entries_per_cluster(be)
        /\ dir0 = Formatted(be, chain, root, f.links).dir
  OBVIOUS
<1>2. WellFormed(be, chain, root)
  BY <1>1, ImagesAssumption
<1>3. /\ slots \in Nat /\ (m - 1) * per + (a + 1) = slots + 1 /\ slots + 1 \in Slots(be, chain)
      /\ at = Address(be, chain, slots + 1)
  BY <1>1, <1>2, SlotReached
<1>4. /\ at \in DOMAIN dir0
      /\ dir0[at] = IF slots + 1 \in DOMAIN root THEN Entry(root[slots + 1]) ELSE Never
  BY <1>1, <1>2, <1>3, SlotHolds
<1>5. \A n \in DOMAIN root : n \in Nat
  BY <1>2, WellFormedIs
<1>6. Passed(f, name, slots) \subseteq Passed(f, name, slots + 1)
  BY <1>1, <1>3, <1>5 DEF Passed, Candidates
<1>7. Cardinality(Passed(f, name, slots)) <= Cardinality(Passed(f, name, slots + 1))
  BY <1>6, CandidatesFinite, FS_Subset
<1>8. ASSUME is_recoverable(dir[at], name)
      PROVE  /\ \E k \in Candidates(f.root, name) : dir[at] = Entry(f.root[k])
             /\ Cardinality(Passed(f, name, slots + 1)) = Cardinality(Passed(f, name, slots)) + 1
  <2>1. dir[at].name[1] = GONE
    BY <1>8 DEF is_recoverable
  <2>2. dir[at] = dir0[at]
    BY <1>1, <1>4, <2>1 DEF StillDeleted
  <2>3. Never.name[1] = NUL /\ NUL # GONE
    <3>1. 1 \in 1..(NameLen + ExtLen)
      BY NameLenAssumption
    <3> QED BY <3>1 DEF Never, NUL, GONE
  <2>4. slots + 1 \in DOMAIN root /\ dir[at] = Entry(root[slots + 1])
    BY <1>4, <2>1, <2>2, <2>3
  <2>5. slots + 1 \in Candidates(f.root, name)
    BY <1>1, <1>8, <2>4 DEF Candidates
  <2>6. Passed(f, name, slots + 1) = Passed(f, name, slots) \union {slots + 1}
    <3>1. \A k \in Candidates(f.root, name) : k <= slots + 1 <=> (k <= slots \/ k = slots + 1)
      BY <1>1, <1>3, <1>5 DEF Candidates
    <3> QED BY <2>5, <3>1 DEF Passed
  <2>7. slots + 1 \notin Passed(f, name, slots)
    BY <1>3 DEF Passed
  <2>8. Cardinality(Passed(f, name, slots + 1)) = Cardinality(Passed(f, name, slots)) + 1
    BY <2>6, <2>7, CandidatesFinite, FS_AddElement
  <2> QED BY <1>1, <2>4, <2>5, <2>8
<1> QED BY <1>1, <1>3, <1>4, <1>7, <1>8 DEF StillDeleted, Noted

(* The name that is asked for, and by which option.                               *)
LEMMA AskedFor ==
  ASSUME IInv, pc = "scan"
  PROVE  opt \in {"r", "R"} /\ Asked(opt, filename)
BY DEF IInv, ScanInv, GivenInv, filename

(* What soundness says of it.                                                     *)
LEMMA SoundFor ==
  ASSUME IInv, Sound, pc = "scan"
  PROVE  /\ Cardinality(Candidates(format.root, filename)) <= MaxCandidates
         /\ \A k \in Candidates(format.root, filename) : Harmless(Entry(format.root[k]), opt)
<1>1. PICK n \in DOMAIN line.options : line.options[n].opt = opt /\ line.options[n].arg = filename
  BY AskedFor DEF Asked
<1> QED BY <1>1, AskedFor DEF Sound

(* The line and the formatted image are history.                                  *)
LEMMA HistoryKept == [Next]_vars => line' = line /\ format' = format
<1> SUFFICES ASSUME [Next]_vars PROVE line' = line /\ format' = format
  OBVIOUS
<1>1. CASE \/ DiskMapped \/ OptionI \/ OptionL \/ OptionName \/ OptionS \/ OptionOther
           \/ OptionsEnd \/ Terminated \/ UNCHANGED vars
  BY <1>1 DEF DiskMapped, OptionI, OptionL, OptionName, OptionS, OptionOther, OptionsEnd,
              Usage, Crash, Goto, Terminated, vars
<1>2. CASE ListEntry \/ NextCluster \/ ListEnd \/ ScanEntry
  BY <1>2 DEF ListEntry, NextCluster, ListEnd, ScanEntry, Look, Goto, Undefined
<1>3. CASE RecoverCont \/ RecoverNonCont
  BY <1>3 DEF RecoverCont, RecoverNonCont, Recover, RecoverNone, Crash, Undefined, Goto
<1> QED BY <1>1, <1>2, <1>3 DEF Next

(* Soundness is about what never changes.                                         *)
LEMMA SoundKept == IInv /\ IInv' /\ [Next]_vars => (Sound' <=> Sound)
<1> SUFFICES ASSUME IInv, IInv', [Next]_vars PROVE Sound' <=> Sound
  OBVIOUS
<1>1. line' = line /\ format' = format /\ image'.be = image.be
  BY HistoryKept DEF IInv, ImageInv
<1>2. \A entry : Count(entry)' = Count(entry)
  BY <1>1 DEF Count
<1>3. \A entry : Run(entry)' = Run(entry) /\ (Wraps(entry)' <=> Wraps(entry))
  BY <1>2 DEF Run, Wraps
<1>4. \A entry : Readable(entry)' <=> Readable(entry)
  BY <1>1, <1>3 DEF Readable
<1>5. \A entry, o : Harmless(entry, o)' <=> Harmless(entry, o)
  BY <1>1, <1>2, <1>3, <1>4 DEF Harmless
<1>6. WithinUInt' <=> WithinUInt
  BY <1>1 DEF WithinUInt
<1> QED BY <1>1, <1>5, <1>6 DEF Sound

(* The entry the scan stands at, when it may look at it.                          *)
LEMMA ScanStands ==
  ASSUME IInv, SoundInv, Sound, AtEntry("scan")
  PROVE  \E m \in DOMAIN format.chain :
           /\ current_cluster = format.chain[m]
           /\ i \in 0..(entries_per_cluster(format.be) - 1)
           /\ Len(found) <= Cardinality(Passed(format, filename,
                                          (m - 1) * entries_per_cluster(format.be) + i))
<1>1. Scanning(format, filename, found, current_cluster, i) /\ i < entries_per_cluster(format.be)
  BY DEF AtEntry, SoundInv, IInv, ImageInv
<1>2. EndMark \in Nat
  BY WidthsAssumption
<1>3. ~(current_cluster \in Nat /\ current_cluster >= EndMark)
  BY <1>2 DEF AtEntry
<1>4. PICK m \in DOMAIN format.chain :
        /\ current_cluster = format.chain[m] /\ i \in 0..entries_per_cluster(format.be)
        /\ Len(found) <= Cardinality(Passed(format, filename,
                                       (m - 1) * entries_per_cluster(format.be) + i))
  BY <1>1, <1>3 DEF Scanning
<1>5. PICK per : per = entries_per_cluster(format.be)
  OBVIOUS
<1>6. per \in Nat
  BY <1>5, ImagesAssumption, WellFormedIs DEF IInv, ImageInv
<1>7. i \in 0..(per - 1)
  BY <1>1, <1>4, <1>5, <1>6
<1> QED BY <1>4, <1>5, <1>7

(* In a sound image the scan stays inside the image and inside its array.         *)
LEMMA SoundScan ==
  ASSUME IInv, SoundInv, Sound, ScanEntry
  PROVE  ~Undefined /\ Scanning(format, filename, found', current_cluster, i + 1)
<1>1. AtEntry("scan") /\ pc = "scan"
  BY DEF ScanEntry, AtEntry
<1>2. PICK m \in DOMAIN format.chain :
        /\ current_cluster = format.chain[m]
        /\ i \in 0..(entries_per_cluster(format.be) - 1)
        /\ Len(found) <= Cardinality(Passed(format, filename,
                                       (m - 1) * entries_per_cluster(format.be) + i))
  BY <1>1, ScanStands
<1>3. PICK per, slots, old, new, all :
        /\ per = entries_per_cluster(format.be) /\ slots = (m - 1) * per + i
        /\ old = Cardinality(Passed(format, filename, slots))
        /\ new = Cardinality(Passed(format, filename, slots + 1))
        /\ all = Cardinality(Candidates(format.root, filename))
  OBVIOUS
<1>4. /\ format \in Images /\ DOMAIN image.dir = DOMAIN Original.dir /\ image.be = format.be
      /\ \A at \in DOMAIN image.dir :
           image.dir[at].name[1] = GONE => image.dir[at] = Original.dir[at]
  BY DEF IInv, ImageInv
<1>5. Here = cluster_to_dir(format.be, format.chain[m]) + i * EntrySize
  BY <1>2, <1>4 DEF Here
<1>6. Address(format.be, format.chain, (m - 1) * entries_per_cluster(format.be) + 1) < UIntMod
  BY DEF Sound, WithinUInt
<1>7. /\ Here \in DOMAIN image.dir
      /\ (m - 1) * per + (i + 1) = slots + 1 /\ slots \in Nat
      /\ old <= new
      /\ is_recoverable(image.dir[Here], filename) =>
           /\ \E k \in Candidates(format.root, filename) : image.dir[Here] = Entry(format.root[k])
           /\ new = old + 1
  <2>1. PICK dir, at, name, n : /\ dir = image.dir /\ at = Here /\ name = filename
                                /\ n = (m - 1) * entries_per_cluster(format.be) + i
    OBVIOUS
  <2>2. /\ at \in DOMAIN dir
        /\ (m - 1) * entries_per_cluster(format.be) + (i + 1) = n + 1 /\ n \in Nat
        /\ Cardinality(Passed(format, name, n)) <= Cardinality(Passed(format, name, n + 1))
        /\ is_recoverable(dir[at], name) =>
             /\ \E k \in Candidates(format.root, name) : dir[at] = Entry(format.root[k])
             /\ Cardinality(Passed(format, name, n + 1)) = Cardinality(Passed(format, name, n)) + 1
    <3>1. StillDeleted(format, dir) /\ m \in DOMAIN format.chain
      BY <1>4, <2>1 DEF Original, StillDeleted
    <3>2. at = cluster_to_dir(format.be, format.chain[m]) + i * EntrySize
      BY <1>5, <2>1
    <3>3. format \in Images /\ i \in 0..(entries_per_cluster(format.be) - 1)
          /\ n = (m - 1) * entries_per_cluster(format.be) + i
      BY <1>2, <1>4, <2>1
    <3>4. Noted(format, dir, at, name, n)
      BY ONLY CandidateNoted, <3>1, <3>2, <3>3, <1>6
    <3>5. (m - 1) * entries_per_cluster(format.be) + (i + 1) = n + 1
      BY <3>3, <1>6, SlotReached, ImagesAssumption
    <3> QED BY <3>4, <3>5 DEF Noted
  <2>3. slots = n
    BY <1>3, <2>1
  <2> QED BY <1>3, <2>1, <2>2, <2>3
<1>8. /\ old \in Nat /\ new \in Nat /\ all \in Nat /\ new <= all /\ all <= MaxCandidates
      /\ MaxCandidates \in Nat
  BY <1>1, <1>3, <1>4, CandidatesFinite, SoundFor, ArraysAssumption
<1>9. FromRoot(format, filename, found)
  BY <1>1 DEF SoundInv, Scanning
<1>10. PICK S : found \in Seq(S)
  BY <1>9 DEF FromRoot
<1>11. Len(found) \in Nat /\ Len(found) <= old
  BY <1>2, <1>3, <1>10
<1>12. ~(current_cluster > format.last)
  BY <1>2, <1>4, TabledIs
<1>13. ~(is_recoverable(image.dir[Here], filename) /\ Len(found) = MaxCandidates)
  BY <1>7, <1>8, <1>11
<1>14. EntriesAt(image, Here) = {image.dir[Here]}
  BY <1>7 DEF EntriesAt
<1>15. Look(is_recoverable(image.dir[Here], filename), [at |-> Here, entry |-> image.dir[Here]])
  BY <1>12, <1>13, <1>14 DEF ScanEntry
<1>16. pc' = "scan"
  BY <1>1, <1>15 DEF Look
<1>17. ~Undefined
  BY <1>16 DEF Undefined, Goto
<1>18. i + 1 \in 0..per
  <2>1. per \in Nat
    BY <1>3, <1>4, ImagesAssumption, WellFormedIs
  <2>2. i \in 0..(per - 1)
    BY <1>2, <1>3
  <2> QED BY <2>1, <2>2
<1>19. FromRoot(format, filename, found') /\ Len(found') <= new
  <2>1. CASE is_recoverable(image.dir[Here], filename)
    <3>1. PICK f : f = [at |-> Here, entry |-> image.dir[Here]]
      OBVIOUS
    <3>2. found' = Append(found, f) /\ f.at = Here /\ f.entry = image.dir[Here]
      BY <1>15, <2>1, <3>1 DEF Look
    <3>3. PICK T : T = S \union {f}
      OBVIOUS
    <3>4. found \in Seq(T) /\ f \in T
      BY <1>10, <3>3
    <3>5. /\ found' \in Seq(T) /\ Len(found') = Len(found) + 1
          /\ \A n \in DOMAIN found' : (n \in DOMAIN found /\ found'[n] = found[n]) \/ found'[n] = f
      BY <3>2, <3>4
    <3>6. /\ f.at \in DOMAIN Original.dir
          /\ \E k \in Candidates(format.root, filename) : f.entry = Entry(format.root[k])
      BY <1>4, <1>7, <2>1, <3>2
    <3>7. FromRoot(format, filename, found')
      BY <1>9, <3>5, <3>6 DEF FromRoot, Original
    <3> QED BY <1>7, <1>8, <1>11, <2>1, <3>5, <3>7
  <2>2. CASE ~is_recoverable(image.dir[Here], filename)
    <3>1. found' = found
      BY <1>15, <2>2 DEF Look
    <3> QED BY <1>7, <1>8, <1>9, <1>11, <3>1
  <2> QED BY <2>1, <2>2
<1>20. Len(found') <= Cardinality(Passed(format, filename, (m - 1) * per + (i + 1)))
  BY <1>3, <1>7, <1>19
<1>21. Scanning(format, filename, found', current_cluster, i + 1)
  BY <1>2, <1>3, <1>18, <1>19, <1>20 DEF Scanning
<1> QED BY <1>17, <1>21

(* One cluster further.                                                           *)
LEMMA SoundCluster ==
  ASSUME IInv, SoundInv, Sound, NextCluster, pc = "scan"
  PROVE  Scanning(format, filename, found, current_cluster', 0)
<1>1. /\ current_cluster < EndMark /\ i >= entries_per_cluster(format.be)
      /\ current_cluster' = image.fat[current_cluster] /\ format \in Images
  BY DEF NextCluster, get_next_cluster, IInv, ImageInv
<1>2. RootKept /\ Scanning(format, filename, found, current_cluster, i)
  BY DEF SoundInv
<1>3. EndMark \in Nat
  BY WidthsAssumption
<1>4. ~(current_cluster \in Nat /\ current_cluster >= EndMark)
  BY <1>1, <1>3
<1>5. PICK m \in DOMAIN format.chain :
        /\ current_cluster = format.chain[m] /\ i \in 0..entries_per_cluster(format.be)
        /\ Len(found) <= Cardinality(Passed(format, filename,
                                       (m - 1) * entries_per_cluster(format.be) + i))
  BY <1>2, <1>4 DEF Scanning
<1>6. PICK chain, per, c : /\ chain = format.chain /\ per = entries_per_cluster(format.be)
                           /\ c = format.links[chain[m]]
  OBVIOUS
<1>7. /\ per \in Nat /\ Len(chain) \in Nat /\ DOMAIN chain = 1..Len(chain) /\ m \in 1..Len(chain)
  BY <1>1, <1>5, <1>6, ImagesAssumption, WellFormedIs
<1>8. i = per
  BY <1>1, <1>5, <1>6, <1>7
<1>9. current_cluster' = c /\ c \in Nat /\ (IF m = Len(chain) THEN c >= EndMark ELSE c = chain[m + 1])
  BY <1>1, <1>2, <1>5, <1>6, TabledIs DEF RootKept
<1>10. CASE m = Len(chain)
  BY <1>2, <1>9, <1>10 DEF Scanning
<1>11. CASE m # Len(chain)
  <2>1. m + 1 \in DOMAIN chain /\ (m + 1) - 1 = m /\ 0 \in 0..per
    BY <1>7, <1>11
  <2>2. (m - 1) * per + per = m * per /\ m * per + 0 = m * per
    <3>1. PICK d \in Nat : m = d + 1
      <4>1. m - 1 \in Nat /\ m = (m - 1) + 1
        BY <1>7
      <4> QED BY <4>1
    <3>2. (d + 1) * per = d * per + per /\ (d + 1) * per \in Nat /\ m - 1 = d
      BY <1>7, <3>1, Products
    <3> QED BY <3>1, <3>2
  <2>3. Len(found) <= Cardinality(Passed(format, filename, ((m + 1) - 1) * per + 0))
    BY <1>5, <1>6, <1>8, <2>1, <2>2
  <2> QED BY <1>2, <1>6, <1>9, <1>11, <2>1, <2>3 DEF Scanning
<1> QED BY <1>10, <1>11

(* What a sound image's candidates are recovered with: clusters of the disk, and  *)
(* none of the root's.                                                            *)
LEMMA SoundClusters ==
  ASSUME IInv, SoundInv, Sound, pc = "scan", NEW n \in DOMAIN found
  PROVE  /\ found[n].at \in DOMAIN image.dir
         /\ opt = "r" =>
              /\ Readable(found[n].entry) /\ Range(Run(found[n].entry)) \subseteq DOMAIN image.fat
              /\ Range(Run(found[n].entry)) \cap Range(format.chain) = {}
         /\ opt = "R" =>
              /\ ~Overflows(found[n].entry)
              /\ \A s \in Arrangements(found[n].entry) :
                   /\ Range(s) \subseteq DOMAIN image.fat
                   /\ Range(s) \cap Range(format.chain) = {}
<1>1. PICK entry : entry = found[n].entry
  OBVIOUS
<1>2. /\ format \in Images /\ entry \in DirEntry /\ image.be = format.be
      /\ DOMAIN image.dir = DOMAIN Original.dir /\ DOMAIN image.fat = DOMAIN format.links
  BY <1>1 DEF IInv, ImageInv, ScanInv, Candidate
<1>3. /\ found[n].at \in DOMAIN image.dir
      /\ Harmless(entry, opt)
  BY <1>1, <1>2, SoundFor DEF SoundInv, Scanning, FromRoot, Original
<1>4. Count(entry) \in Nat /\ (entry.size = 0 => Count(entry) = 0)
  BY <1>2, CounterIs, ImagesAssumption DEF Count
<1>5. PICK E : E = FatEntries(format.be)
  OBVIOUS
<1>6. /\ E \in Nat /\ DOMAIN image.fat = 0..(E - 1)
      /\ format.last \in Nat /\ format.last < E /\ Window \in Nat /\ Window <= format.last + 1
  BY <1>2, <1>5, TabledIs
<1>7. ASSUME opt = "r"
      PROVE  /\ Readable(entry) /\ Range(Run(entry)) \subseteq DOMAIN image.fat
             /\ Range(Run(entry)) \cap Range(format.chain) = {}
  <2>1. Readable(entry) /\ Range(Run(entry)) \cap Range(format.chain) = {}
    <3>1. CASE entry.size = 0
      <4>1. Count(entry) = 0 /\ DOMAIN Run(entry) = {} /\ ~Wraps(entry)
        BY <1>4, <3>1 DEF Run, Wraps
      <4>2. Range(Run(entry)) = {}
        BY <4>1 DEF Range
      <4> QED BY <4>1, <4>2 DEF Readable
    <3>2. CASE entry.size # 0
      BY <1>3, <1>7, <3>2 DEF Harmless
    <3> QED BY <3>1, <3>2
  <2>2. Range(Run(entry)) \subseteq 2..format.last
    BY <2>1 DEF Readable
  <2>3. 2..format.last \subseteq 0..(E - 1)
    BY <1>6
  <2> QED BY <1>6, <2>1, <2>2, <2>3
<1>8. ASSUME opt = "R" PROVE ~Overflows(entry)
  <2>1. MaxClusters \in Nat
    BY ArraysAssumption
  <2>2. ~Wraps(entry) /\ Count(entry) <= MaxClusters
    BY <1>3, <1>4, <1>8, <2>1 DEF Harmless, Wraps
  <2> QED BY <1>4, <2>1, <2>2 DEF Overflows
<1>9. ASSUME NEW s \in Arrangements(entry)
      PROVE  Range(s) \subseteq DOMAIN image.fat /\ Range(s) \cap Range(format.chain) = {}
  <2>1. Range(s) \subseteq Unallocated(image)
    <3>1. PICK N, U : N = 1..Count(entry) /\ U = Unallocated(image)
      OBVIOUS
    <3>2. s \in [N -> U]
      BY <3>1 DEF Arrangements
    <3> QED BY <3>1, <3>2 DEF Range
  <2>2. Unallocated(image) \subseteq 0..(E - 1)
    BY <1>6 DEF Unallocated
  <2>3. \A c \in Range(format.chain) : image.fat[c] # 0
    <3>1. \A m \in DOMAIN format.chain : image.fat[format.chain[m]] # 0
      BY <1>2, TabledIs DEF SoundInv, RootKept
    <3> QED BY <3>1 DEF Range
  <2>4. \A c \in Unallocated(image) : image.fat[c] = 0
    BY DEF Unallocated
  <2> QED BY <1>6, <2>1, <2>2, <2>3, <2>4
<1> QED BY <1>1, <1>3, <1>7, <1>8, <1>9

(* In a sound image a recovery stays inside the FAT and off the root's links.     *)
LEMMA SoundRecovery ==
  ASSUME IInv, SoundInv, Sound, RecoverCont \/ RecoverNonCont
  PROVE  /\ ~Undefined
         /\ image' # image => RootKept'
<1>1. pc = "scan" /\ (\E S : found \in Seq(S)) /\ format \in Images
  BY DEF RecoverCont, RecoverNonCont, Scanned, IInv, ScanInv, ImageInv
<1>2. ASSUME NEW n \in DOMAIN found, NEW entry, NEW clusters,
             Recover(found[n].at, entry, clusters),
             Range(clusters) \subseteq DOMAIN image.fat, Range(clusters) \cap Range(format.chain) = {}
      PROVE  ~Undefined /\ RootKept'
  <2>1. found[n].at \in DOMAIN image.dir
    BY <1>1, SoundClusters
  <2>2. PICK dir : dir = [image.dir EXCEPT ![found[n].at] = Renamed(entry)]
    OBVIOUS
  <2>3. /\ image' = [image EXCEPT !.dir = dir, !.fat = Linked(image.fat, clusters)]
        /\ AfterRecovery /\ format' = format
    BY <1>2, <2>1, <2>2 DEF Recover
  <2>4. pc' # "undefined"
    BY <1>1, <2>3 DEF AfterRecovery, StartWalk
  <2>5. image = [be |-> image.be, dir |-> image.dir, fat |-> image.fat]
        /\ DOMAIN image.fat = DOMAIN format.links
    BY DEF IInv, ImageInv
  <2>6. image'.fat = Linked(image.fat, clusters)
    BY <2>3, <2>5
  <2>7. ASSUME NEW m \in DOMAIN format.chain
        PROVE  image'.fat[format.chain[m]] = format.links[format.chain[m]]
    <3>1. PICK c : c = format.chain[m]
      OBVIOUS
    <3>2. c \notin Range(clusters)
      BY <1>2, <3>1 DEF Range
    <3>3. c \in DOMAIN image.fat
      <4>1. PICK E : E = FatEntries(format.be)
        OBVIOUS
      <4>2. /\ E \in Nat /\ DOMAIN format.links = 0..(E - 1) /\ format.last \in Nat /\ format.last < E
            /\ c \in Nat /\ c <= format.last
        BY <1>1, <3>1, <4>1, TabledIs
      <4> QED BY <2>5, <4>2
    <3>4. Linked(image.fat, clusters)[c] = image.fat[c]
      BY <3>2, <3>3 DEF Linked
    <3> QED BY <2>6, <3>1, <3>4 DEF SoundInv, RootKept
  <2> QED BY <2>3, <2>4, <2>7 DEF Undefined, Goto, RootKept
<1>3. ASSUME RecoverNone PROVE ~Undefined /\ image' = image
  BY <1>1, <1>3 DEF RecoverNone, AfterRecovery, StartWalk, Undefined, Goto
<1>4. ASSUME Crash PROVE ~Undefined /\ image' = image
  BY <1>4 DEF Crash, Undefined, Goto
<1>5. \A f \in Range(found) : \E n \in DOMAIN found : f = found[n]
  BY DEF Range
<1>6. CASE RecoverCont
  <2>1. opt = "r" /\ (Len(found) = 1 => 1 \in DOMAIN found)
    BY <1>1, <1>6 DEF RecoverCont, Scanned
  <2>2. \A n \in DOMAIN found : Readable(found[n].entry)
    BY <1>1, <2>1, SoundClusters
  <2>3. RecoverNone \/ \E n \in DOMAIN found : Recover(found[n].at, found[n].entry, Run(found[n].entry))
    BY <1>5, <1>6, <2>1, <2>2 DEF RecoverCont
  <2>4. ASSUME NEW n \in DOMAIN found, Recover(found[n].at, found[n].entry, Run(found[n].entry))
        PROVE  ~Undefined /\ RootKept'
    BY <1>1, <1>2, <2>1, <2>4, SoundClusters
  <2> QED BY <1>3, <2>3, <2>4
<1>7. CASE RecoverNonCont
  <2>1. opt = "R"
    BY <1>7 DEF RecoverNonCont, Scanned
  <2>2. \A n \in DOMAIN found : ~Overflows(found[n].entry)
    BY <1>1, <2>1, SoundClusters
  <2>3. Crash \/ RecoverNone \/ \E n \in DOMAIN found : \E s \in Arrangements(found[n].entry) :
          Recover(found[n].at, Restarted(found[n].entry, s), s)
    BY <1>5, <1>7, <2>2 DEF RecoverNonCont
  <2>4. ASSUME NEW n \in DOMAIN found, NEW s \in Arrangements(found[n].entry),
               Recover(found[n].at, Restarted(found[n].entry, s), s)
        PROVE  ~Undefined /\ RootKept'
    BY <1>1, <1>2, <2>1, <2>4, SoundClusters
  <2> QED BY <1>3, <1>4, <2>3, <2>4
<1> QED BY <1>6, <1>7

(* Every step keeps the invariant of the scan.                                    *)
LEMMA InitSound == Init => SoundInv
<1> SUFFICES ASSUME Init PROVE SoundInv
  OBVIOUS
<1>1. image.fat = format.links /\ pc # "scan"
  BY DEF Init, Formatted
<1> QED BY <1>1 DEF SoundInv, RootKept

LEMMA SoundStep == IInv /\ IInv' /\ SoundInv /\ [Next]_vars => SoundInv'
<1> SUFFICES ASSUME IInv, IInv', SoundInv, [Next]_vars, Sound'
             PROVE  RootKept' /\ (pc' = "scan" => Scanning(format, filename, found, current_cluster, i)')
  BY DEF SoundInv
<1>1. Sound /\ line' = line /\ format' = format /\ format \in Images
  BY SoundKept, HistoryKept DEF IInv, ImageInv
<1>2. RootKept /\ (image' = image => RootKept')
  BY <1>1 DEF SoundInv, RootKept
<1>3. ASSUME NEW o, StartWalk(o, "scan")
      PROVE  Scanning(format, filename, found, current_cluster, i)'
  <2>1. current_cluster' = format.be.RootClus /\ i' = 0 /\ found' = <<>>
    BY <1>3 DEF StartWalk, IInv, ImageInv
  <2> QED BY <1>1, <2>1, ScanStarts
<1>4. CASE \/ DiskMapped \/ OptionI \/ OptionL \/ OptionName \/ OptionS \/ OptionOther
           \/ ListEntry \/ ListEnd
  <2>1. image' = image /\ pc' # "scan"
    BY <1>4 DEF DiskMapped, OptionI, OptionL, OptionName, OptionS, OptionOther, ListEntry, ListEnd,
                Usage, Crash, Goto, StartWalk, Look, AtEntry
  <2> QED BY <1>2, <2>1
<1>5. CASE OptionsEnd
  <2>1. image' = image /\ (pc' = "scan" => \E o : StartWalk(o, "scan"))
    BY <1>5 DEF OptionsEnd, Usage, Crash, Goto
  <2> QED BY <1>2, <1>3, <2>1
<1>6. CASE NextCluster
  <2>1. /\ image' = image /\ pc' = pc /\ i' = 0 /\ found' = found /\ filename' = filename
    BY <1>6 DEF NextCluster, filename, given
  <2>2. pc' = "scan" => Scanning(format', filename', found', current_cluster', i')
    BY <1>1, <1>6, <2>1, SoundCluster
  <2> QED BY <1>2, <2>1, <2>2
<1>7. CASE ScanEntry
  <2>1. ~Undefined /\ Scanning(format, filename, found', current_cluster, i + 1)
    BY <1>1, <1>7, SoundScan
  <2>2. /\ image' = image /\ i' = i + 1 /\ current_cluster' = current_cluster /\ filename' = filename
    BY <1>7, <2>1 DEF ScanEntry, Look, filename, given
  <2> QED BY <1>1, <1>2, <2>1, <2>2
<1>8. CASE RecoverCont \/ RecoverNonCont
  <2>1. ~Undefined /\ RootKept'
    BY <1>1, <1>2, <1>8, SoundRecovery
  <2>2. pc' = "scan" => \E o : StartWalk(o, "scan")
    <3>1. Crash \/ AfterRecovery
      BY <1>8, <2>1 DEF RecoverCont, RecoverNonCont, Recover, RecoverNone
    <3>2. pc' = "scan" => AfterRecovery
      BY <3>1 DEF Crash, Goto
    <3> QED BY <3>2 DEF AfterRecovery
  <2> QED BY <1>3, <2>1, <2>2
<1>9. CASE Terminated \/ UNCHANGED vars
  <2>1. UNCHANGED <<image, pc, given, opt, found, current_cluster, i>>
    BY <1>9 DEF Terminated, vars, walk
  <2>2. filename' = filename
    BY <2>1 DEF filename, given
  <2> QED BY <1>1, <1>2, <2>1, <2>2 DEF SoundInv
<1> QED BY <1>4, <1>5, <1>6, <1>7, <1>8, <1>9 DEF Next

(* The digest is missing when -R breaks down.                                     *)
LEMMA NoDigest ==
  ASSUME IInv, RecoverNonCont, sha1_R = NULL
  PROVE  HasOption("R") /\ ~HasOption("s")
<1>1. pc = "scan" /\ opt = "R"
  BY DEF RecoverNonCont, Scanned
<1>2. options = <<>> /\ Asked("R", filename)
  BY <1>1, AskedFor DEF IInv, ScanInv
<1>3. line.options \in Seq(Option) /\ Taken = Len(line.options)
  BY <1>2 DEF IInv, LineInv, Taken
<1> QED BY <1>2, <1>3 DEF IInv, GivenInv, HasOption, Asked

LEMMA CrashStep ==
  IInv /\ IInv' /\ SoundInv /\ CrashOnlyWithoutDigest /\ [Next]_vars => CrashOnlyWithoutDigest'
<1> SUFFICES ASSUME IInv, IInv', SoundInv, CrashOnlyWithoutDigest, [Next]_vars
             PROVE  CrashOnlyWithoutDigest'
  OBVIOUS
<1> SUFFICES ASSUME pc' \in {"crashed", "undefined"}
             PROVE  ~Mapped \/ (HasOption("R") /\ ~HasOption("s")) \/ ~Sound
  <2>1. line' = line /\ (Sound' <=> Sound)
    BY HistoryKept, SoundKept
  <2>2. (Mapped' <=> Mapped) /\ \A o : HasOption(o)' <=> HasOption(o)
    BY <2>1 DEF Mapped, HasOption
  <2> QED BY <2>1, <2>2 DEF CrashOnlyWithoutDigest
<1>1. CASE \/ DiskMapped \/ OptionName \/ OptionS \/ OptionOther \/ ListEntry \/ NextCluster \/ ListEnd
  BY <1>1 DEF DiskMapped, OptionName, OptionS, OptionOther, ListEntry, NextCluster, ListEnd,
              Usage, Goto, Look, AtEntry
<1>2. CASE OptionI \/ OptionL \/ OptionsEnd
  BY <1>2 DEF OptionI, OptionL, OptionsEnd, Usage, Goto, StartWalk
<1>3. CASE ScanEntry
  <2>1. ScanEntry => Undefined \/ pc' = "scan"
    BY DEF ScanEntry, Look, AtEntry
  <2> QED BY <1>3, <2>1, SoundScan
<1>4. CASE RecoverCont \/ RecoverNonCont
  <2>1. pc = "scan"
    BY <1>4 DEF RecoverCont, RecoverNonCont, Scanned
  <2>2. Undefined \/ AfterRecovery \/ (Crash /\ RecoverNonCont /\ sha1_R = NULL)
    BY <1>4 DEF RecoverCont, RecoverNonCont, Recover, RecoverNone
  <2>3. ~AfterRecovery
    BY <2>1 DEF AfterRecovery, StartWalk
  <2> QED BY <1>4, <2>2, <2>3, NoDigest, SoundRecovery
<1>5. CASE Terminated \/ UNCHANGED vars
  BY <1>5 DEF Terminated, vars, CrashOnlyWithoutDigest
<1> QED BY <1>1, <1>2, <1>3, <1>4, <1>5 DEF Next

--------------------------------------------------------------------------------
(* The theorems about -r and -R.                                                  *)

(* Whatever the order of the options, the program breaks down, or leaves the      *)
(* image, the FAT or its arrays, only when the disk is not mapped, when -R is     *)
(* given without -s, or when a deleted entry of the name is none of a file.       *)
THEOREM CrashOnlyWithoutDigestHolds == Spec => []CrashOnlyWithoutDigest
<1>1. Init => CrashOnlyWithoutDigest
  BY DEF Init, CrashOnlyWithoutDigest
<1>2. IInv /\ IInv' /\ SoundInv /\ CrashOnlyWithoutDigest /\ [Next]_vars =>
        SoundInv' /\ CrashOnlyWithoutDigest'
  BY SoundStep, CrashStep
<1> QED BY <1>1, <1>2, InitSound, Invariance, PTL DEF Spec

(* The mapping is written only once the whole line has been accepted; of the      *)
(* directory only one deleted entry, which gets exactly the name asked for, and,  *)
(* when the entries of the name can be those of files, never a link of the root.  *)
THEOREM RecoversOnlyTheDeletedHolds == Spec => RecoversOnlyTheDeleted
<1> DEFINE A == image' # image =>
                  /\ options = <<>> /\ line.operands = 0
                  /\ Last(out') = [kind |-> "recovered", name |-> filename]
                  /\ \E at \in DOMAIN image.dir :
                       /\ image.dir[at].name[1] = GONE
                       /\ format83(image'.dir[at].name) = filename
                       /\ \A a \in DOMAIN image.dir \ {at} : image'.dir[a] = image.dir[a]
                  /\ Sound => \A n \in DOMAIN format.chain :
                       image'.fat[format.chain[n]] = format.links[format.chain[n]]
<1>1. IInv /\ IInv' /\ SoundInv /\ [Next]_vars => A
  <2> SUFFICES ASSUME IInv, SoundInv, [Next]_vars, image' # image PROVE A
    OBVIOUS
  <2>1. RecoverCont \/ RecoverNonCont
    BY DEF Next, DiskMapped, OptionI, OptionL, OptionName, OptionS, OptionOther, OptionsEnd,
           ListEntry, NextCluster, ListEnd, ScanEntry, Look, Usage, Crash, Undefined, Goto,
           Terminated, vars
  <2>2. ~Undefined /\ ~Crash /\ ~RecoverNone
    BY DEF Undefined, Crash, Goto, RecoverNone
  <2>3. PICK k \in DOMAIN found : \E entry \in DirEntry : \E clusters :
          entry.name = found[k].entry.name /\ Recover(found[k].at, entry, clusters)
    BY <2>1, <2>2, RecoveryIs
  <2>4. PICK entry \in DirEntry : \E clusters :
          entry.name = found[k].entry.name /\ Recover(found[k].at, entry, clusters)
    BY <2>3
  <2>5. PICK clusters : entry.name = found[k].entry.name /\ Recover(found[k].at, entry, clusters)
    BY <2>4
  <2>6. pc = "scan"
    BY <2>1 DEF RecoverCont, RecoverNonCont, Scanned
  <2>7. pc' # "undefined"
    BY <2>2, <2>5, <2>6 DEF Recover, AfterRecovery, StartWalk
  <2>8. /\ found[k].at \in DOMAIN image.dir
        /\ image.dir[found[k].at].name[1] = GONE
        /\ format83(image'.dir[found[k].at].name) = filename
        /\ \A a \in DOMAIN image.dir \ {found[k].at} : image'.dir[a] = image.dir[a]
        /\ out' = Append(out, [kind |-> "recovered", name |-> filename]) /\ format' = format
    BY <2>5, <2>6, <2>7, RecoverIs
  <2>9. options = <<>> /\ line.operands = 0
    BY <2>6 DEF IInv, ScanInv
  <2>10. Last(out') = [kind |-> "recovered", name |-> filename]
    BY <2>8, Printed DEF IInv
  <2>11. Sound => RootKept'
    BY <2>1, SoundRecovery
  <2> QED BY <2>8, <2>9, <2>10, <2>11 DEF RootKept
<1>2. IInv /\ IInv' /\ SoundInv /\ [Next]_vars => SoundInv'
  BY SoundStep
<1> QED BY <1>1, <1>2, InitSound, Invariance, PTL DEF Spec, RecoversOnlyTheDeleted

--------------------------------------------------------------------------------
(* The lines noted so far, slot by slot.                                          *)

(* The slots that the lines are about.                                            *)
Lists(lines, root, slots, at) ==
  /\ at \in [DOMAIN lines -> {k \in DOMAIN root : k <= slots}]
  /\ \A a, b \in DOMAIN lines : a < b => at[a] < at[b]
  /\ \A k \in DOMAIN root : k <= slots /\ Genuine(root[k]) => \E a \in DOMAIN lines : at[a] = k
  /\ \A a \in DOMAIN lines : StandsFor(lines[a], root[at[a]])

LEMMA ListedIs ==
  ASSUME NEW lines, NEW root, NEW slots
  PROVE  Listed(lines, root, slots) <=> \E at : Lists(lines, root, slots, at)
BY DEF Listed, Lists

(* Before the first slot there is nothing to list.                                *)
LEMMA ListedNone ==
  ASSUME NEW root \in Seq(RootObject)
  PROVE  Listed(<<>>, root, 0)
<1> DEFINE at == [a \in DOMAIN <<>> |-> 0]
<1>1. DOMAIN <<>> = {} /\ DOMAIN root = 1..Len(root)
  OBVIOUS
<1>2. Lists(<<>>, root, 0, at)
  BY <1>1 DEF Lists
<1> HIDE DEF at
<1> QED BY <1>2, ListedIs

(* A slot without a file or directory may be passed over.                         *)
LEMMA ListedOver ==
  ASSUME NEW lines, NEW root \in Seq(RootObject), NEW n \in Nat, Listed(lines, root, n),
         n + 1 \in DOMAIN root => ~Genuine(root[n + 1])
  PROVE  Listed(lines, root, n + 1)
<1>1. PICK at : Lists(lines, root, n, at)
  BY ListedIs
<1>2. \A k \in DOMAIN root : k \in Nat /\ (k <= n => k <= n + 1) /\ (k <= n + 1 => k <= n \/ k = n + 1)
  OBVIOUS
<1>3. at \in [DOMAIN lines -> {k \in DOMAIN root : k <= n + 1}]
  BY <1>1, <1>2 DEF Lists
<1>4. \A k \in DOMAIN root : k <= n + 1 /\ Genuine(root[k]) => \E a \in DOMAIN lines : at[a] = k
  BY <1>1, <1>2 DEF Lists
<1>5. Lists(lines, root, n + 1, at)
  BY <1>1, <1>3, <1>4 DEF Lists
<1> QED BY <1>5, ListedIs

(* The line of an object goes behind those of the slots before it.                *)
LEMMA ListedTaken ==
  ASSUME NEW S, NEW lines \in Seq(S), NEW root \in Seq(RootObject), NEW n \in Nat,
         Listed(lines, root, n), n + 1 \in DOMAIN root, NEW l, StandsFor(l, root[n + 1])
  PROVE  Listed(Append(lines, l), root, n + 1)
<1>1. PICK at : Lists(lines, root, n, at)
  BY ListedIs
<1>2. PICK L, more : L = Len(lines) /\ more = Append(lines, l)
  OBVIOUS
<1>3. /\ L \in Nat /\ DOMAIN lines = 1..L /\ DOMAIN more = 1..(L + 1)
      /\ more[L + 1] = l /\ \A a \in 1..L : more[a] = lines[a]
  <2>1. PICK T : T = S \union {l}
    OBVIOUS
  <2>2. lines \in Seq(T) /\ l \in T
    BY <2>1
  <2> QED BY <1>2, <2>2
<1>4. \A k \in DOMAIN root : k \in Nat /\ (k <= n => k < n + 1) /\ (k <= n + 1 => k <= n \/ k = n + 1)
  OBVIOUS
<1>5. \A a \in 1..(L + 1) : a \in 1..L \/ a = L + 1
  BY <1>3
<1>6. PICK to : to = [a \in 1..(L + 1) |-> IF a = L + 1 THEN n + 1 ELSE at[a]]
  OBVIOUS
<1>7. /\ to[L + 1] = n + 1 /\ L + 1 \in 1..(L + 1)
      /\ \A a \in 1..L : a \in 1..(L + 1) /\ a < L + 1 /\ to[a] = at[a]
                         /\ at[a] \in DOMAIN root /\ at[a] <= n
  <2>1. \A a \in 1..L : a \in 1..(L + 1) /\ a # L + 1 /\ a < L + 1
    BY <1>3
  <2>2. \A a \in 1..L : at[a] \in DOMAIN root /\ at[a] <= n
    BY <1>1, <1>3 DEF Lists
  <2>3. L + 1 \in 1..(L + 1)
    BY <1>3
  <2> QED BY <1>6, <2>1, <2>2, <2>3
<1>8. to \in [DOMAIN more -> {k \in DOMAIN root : k <= n + 1}]
  <2>1. \A a \in 1..(L + 1) : to[a] \in {k \in DOMAIN root : k <= n + 1}
    <3>1. n + 1 <= n + 1
      OBVIOUS
    <3>2. \A a \in 1..L : to[a] \in DOMAIN root /\ to[a] <= n + 1
      BY <1>4, <1>7
    <3> QED BY <1>5, <1>7, <3>1, <3>2
  <2> QED BY <1>3, <1>6, <2>1
<1>9. \A a, b \in DOMAIN more : a < b => to[a] < to[b]
  <2> SUFFICES ASSUME NEW a \in 1..(L + 1), NEW b \in 1..(L + 1), a < b PROVE to[a] < to[b]
    BY <1>3
  <2>1. a \in 1..L
    BY <1>3
  <2>2. CASE b = L + 1
    BY <1>4, <1>7, <2>1, <2>2
  <2>3. CASE b \in 1..L
    BY <1>1, <1>3, <1>7, <2>1, <2>3 DEF Lists
  <2> QED BY <1>5, <2>2, <2>3
<1>10. \A k \in DOMAIN root : k <= n + 1 /\ Genuine(root[k]) => \E a \in DOMAIN more : to[a] = k
  <2> SUFFICES ASSUME NEW k \in DOMAIN root, k <= n + 1, Genuine(root[k])
               PROVE  \E a \in DOMAIN more : to[a] = k
    OBVIOUS
  <2>1. CASE k = n + 1
    BY <1>3, <1>7, <2>1
  <2>2. CASE k <= n
    <3>1. PICK a \in 1..L : at[a] = k
      BY <1>1, <1>3, <2>2 DEF Lists
    <3> QED BY <1>3, <1>7, <3>1
  <2> QED BY <1>4, <2>1, <2>2
<1>11. \A a \in DOMAIN more : StandsFor(more[a], root[to[a]])
  <2>1. \A a \in 1..L : StandsFor(lines[a], root[at[a]])
    BY <1>1, <1>3 DEF Lists
  <2> QED BY <1>3, <1>5, <1>7, <2>1
<1>12. Lists(more, root, n + 1, to)
  BY <1>8, <1>9, <1>10, <1>11 DEF Lists
<1> QED BY <1>2, <1>12, ListedIs

(* Behind the last object nothing is missing.                                     *)
LEMMA ListedAll ==
  ASSUME NEW lines, NEW root \in Seq(RootObject), NEW n \in Nat, n >= Len(root),
         Listed(lines, root, n)
  PROVE  Listed(lines, root, Len(root))
<1>1. PICK at : Lists(lines, root, n, at)
  BY ListedIs
<1>2. \A k \in DOMAIN root : k <= Len(root) /\ k <= n
  OBVIOUS
<1>3. at \in [DOMAIN lines -> {k \in DOMAIN root : k <= Len(root)}]
  BY <1>1, <1>2 DEF Lists
<1>4. Lists(lines, root, Len(root), at)
  BY <1>1, <1>2, <1>3 DEF Lists
<1> QED BY <1>4, ListedIs

--------------------------------------------------------------------------------
(* The walk of -l.                                                                *)

(* What the image was formatted from, as long as nothing has been recovered.      *)
FormatInv ==
  pc \in {"main", "getopt", "list"} => image = Original

(* The walk has noted the objects of the slots it has passed.                     *)
Walked(f, lines, c, a) ==
  \/ \E m \in DOMAIN f.chain :
       /\ c = f.chain[m] /\ a \in 0..entries_per_cluster(f.be)
       /\ Listed(lines, f.root, (m - 1) * entries_per_cluster(f.be) + a)
  \/ c \in Nat /\ c >= EndMark /\ Listed(lines, f.root, Len(f.root))

WalkInv ==
  pc = "list" => /\ \E S : found \in Seq(S)
                 /\ WithinUInt => Walked(format, found, current_cluster, i)

ListInv == IInv /\ FormatInv /\ WalkInv /\ ListingIsTheRoot

(* One entry further.                                                             *)
LEMMA EntryNoted ==
  ASSUME NEW f \in Images, NEW m \in DOMAIN f.chain,
         NEW a \in 0..(entries_per_cluster(f.be) - 1),
         Address(f.be, f.chain, (m - 1) * entries_per_cluster(f.be) + 1) < UIntMod,
         NEW S, NEW lines \in Seq(S),
         Listed(lines, f.root, (m - 1) * entries_per_cluster(f.be) + a),
         NEW entry, entry \in EntriesAt(Formatted(f.be, f.chain, f.root, f.links),
                                       cluster_to_dir(f.be, f.chain[m]) + a * EntrySize),
         NEW more, more = IF Displayed(entry) THEN Append(lines, Line(entry)) ELSE lines
  PROVE  Listed(more, f.root, (m - 1) * entries_per_cluster(f.be) + (a + 1))
<1>1. PICK be, chain, root, per : /\ be = f.be /\ chain = f.chain /\ root = f.root
                                  /\ per = entries_per_cluster(be)
  OBVIOUS
<1>2. WellFormed(be, chain, root)
  BY <1>1, ImagesAssumption
<1>3. root \in Seq(RootObject)
  BY <1>2, WellFormedIs
<1>4. PICK n : n = (m - 1) * per + a
  OBVIOUS
<1>5. PICK image0 : image0 = Formatted(be, chain, root, f.links)
  OBVIOUS
<1>6. /\ n \in Nat /\ (m - 1) * per + (a + 1) = n + 1 /\ n + 1 \in Slots(be, chain)
      /\ cluster_to_dir(be, chain[m]) + a * EntrySize = Address(be, chain, n + 1)
  BY <1>1, <1>2, <1>4, SlotReached
<1>7. /\ Address(be, chain, n + 1) \in DOMAIN image0.dir
      /\ image0.dir[Address(be, chain, n + 1)]
           = IF n + 1 \in DOMAIN root THEN Entry(root[n + 1]) ELSE Never
  BY <1>2, <1>5, <1>6, SlotHolds
<1>8. entry = IF n + 1 \in DOMAIN root THEN Entry(root[n + 1]) ELSE Never
  BY <1>1, <1>5, <1>6, <1>7 DEF EntriesAt
<1>9. Listed(lines, root, n)
  BY <1>1, <1>4
<1>10. CASE n + 1 \in DOMAIN root
  <2>1. root[n + 1] \in RootObject
    BY <1>3, <1>10
  <2>2. entry = Entry(root[n + 1]) /\ entry \in DirEntry
    <3>1. image0.dir[Address(be, chain, n + 1)] \in DirEntry
      BY <1>1, <1>5, <1>7, ImagesAssumption
    <3> QED BY <1>7, <1>8, <1>10, <3>1
  <2>3. /\ Genuine(root[n + 1]) => Displayed(entry) /\ Line(entry) = Shown(root[n + 1])
        /\ Displayed(entry) /\ ~Genuine(root[n + 1]) => Decoy(root[n + 1])
    BY <2>1, <2>2, DisplayedIs
  <2>4. CASE Displayed(entry)
    <3>1. Line(entry).name = format83(Entry(root[n + 1]).name)
      BY <2>2 DEF Line
    <3>2. StandsFor(Line(entry), root[n + 1])
      BY <2>3, <2>4, <3>1 DEF StandsFor
    <3>3. more = Append(lines, Line(entry))
      BY <2>4
    <3>4. Listed(more, root, n + 1)
      BY <1>3, <1>6, <1>9, <1>10, <3>2, <3>3, ListedTaken
    <3> QED BY <1>1, <1>6, <3>4
  <2>5. CASE ~Displayed(entry)
    <3>1. Listed(more, root, n + 1)
      BY <1>3, <1>6, <1>9, <2>3, <2>5, ListedOver
    <3> QED BY <1>1, <1>6, <3>1
  <2> QED BY <2>4, <2>5
<1>11. CASE n + 1 \notin DOMAIN root
  <2>1. entry.name[1] = NUL
    BY <1>8, <1>11, NameLenAssumption DEF Never
  <2>2. ~Displayed(entry)
    BY <2>1 DEF Displayed
  <2>3. Listed(more, root, n + 1)
    BY <1>3, <1>6, <1>9, <1>11, <2>2, ListedOver
  <2> QED BY <1>1, <1>6, <2>3
<1> QED BY <1>10, <1>11

(* One cluster further.                                                           *)
LEMMA ClusterNoted ==
  ASSUME NEW f \in Images, NEW m \in DOMAIN f.chain, NEW lines,
         Listed(lines, f.root, (m - 1) * entries_per_cluster(f.be) + entries_per_cluster(f.be))
  PROVE  Walked(f, lines, f.links[f.chain[m]], 0)
<1>1. PICK be, chain, root, per, c : /\ be = f.be /\ chain = f.chain /\ root = f.root
                                     /\ per = entries_per_cluster(be) /\ c = f.links[f.chain[m]]
  OBVIOUS
<1>2. WellFormed(be, chain, root)
  BY <1>1, ImagesAssumption
<1>3. /\ per \in Nat \ {0} /\ Len(chain) \in Nat /\ DOMAIN chain = 1..Len(chain)
      /\ root \in Seq(RootObject) /\ Len(root) <= Len(chain) * per /\ m \in 1..Len(chain)
  BY <1>1, <1>2, WellFormedIs
<1>4. (m - 1) * per + per = m * per /\ m * per \in Nat /\ m * per + 0 = m * per
  <2>1. PICK d \in Nat : m = d + 1
    <3>1. m - 1 \in Nat /\ m = (m - 1) + 1
      BY <1>3
    <3> QED BY <3>1
  <2>2. (d + 1) * per = d * per + per /\ (d + 1) * per \in Nat /\ m - 1 = d
    BY <1>3, <2>1, Products
  <2> QED BY <2>1, <2>2
<1>5. Listed(lines, root, m * per)
  BY <1>1, <1>4
<1>6. c \in Nat /\ IF m = Len(chain) THEN c >= EndMark ELSE c = chain[m + 1]
  BY <1>1, TabledIs
<1>7. CASE m = Len(chain)
  <2>1. Listed(lines, root, Len(root))
    BY <1>3, <1>4, <1>5, <1>7, ListedAll
  <2> QED BY <1>1, <1>6, <1>7, <2>1 DEF Walked
<1>8. CASE m # Len(chain)
  <2>1. m + 1 \in DOMAIN chain /\ (m + 1) - 1 = m /\ 0 \in 0..per
    BY <1>3, <1>8
  <2>2. Listed(lines, root, ((m + 1) - 1) * per + 0)
    BY <1>4, <1>5, <2>1
  <2> QED BY <1>1, <1>6, <1>8, <2>1, <2>2 DEF Walked
<1> QED BY <1>7, <1>8

LEMMA InitList == Init => ListInv
<1> SUFFICES ASSUME Init PROVE ListInv
  OBVIOUS
<1>1. IInv
  BY InitInv
<1>2. FormatInv /\ WalkInv
  BY DEF Init, FormatInv, WalkInv, Original
<1>3. ListingIsTheRoot
  BY DEF Init, ListingIsTheRoot
<1> QED BY <1>1, <1>2, <1>3 DEF ListInv

(* What the image was formatted from never changes; before it changes itself, the *)
(* options are done with.                                                         *)
LEMMA FormatStep == ListInv /\ [Next]_vars => FormatInv' /\ format' = format
<1> SUFFICES ASSUME ListInv, [Next]_vars PROVE FormatInv' /\ format' = format
  OBVIOUS
<1>1. FormatInv /\ (format' = format => Original' = Original)
  BY DEF ListInv, Original
<1>2. CASE \/ DiskMapped \/ OptionI \/ OptionL \/ OptionName \/ OptionS \/ OptionOther
           \/ OptionsEnd \/ Terminated \/ UNCHANGED vars
  <2>1. format' = format /\ image' = image
        /\ (pc' \in {"main", "getopt", "list"} => pc \in {"main", "getopt", "list"})
    BY <1>2 DEF DiskMapped, OptionI, OptionL, OptionName, OptionS, OptionOther, OptionsEnd,
                Usage, Crash, Goto, StartWalk, Terminated, vars
  <2> QED BY <1>1, <2>1 DEF FormatInv
<1>3. CASE ListEntry \/ NextCluster \/ ListEnd \/ ScanEntry
  <2>1. format' = format /\ image' = image
        /\ (pc' \in {"main", "getopt", "list"} => pc \in {"main", "getopt", "list"})
    BY <1>3 DEF ListEntry, NextCluster, ListEnd, ScanEntry, Look, AtEntry, Goto, Undefined
  <2> QED BY <1>1, <2>1 DEF FormatInv
<1>4. CASE RecoverCont \/ RecoverNonCont
  <2>1. format' = format /\ pc' \notin {"main", "getopt", "list"}
    BY <1>4 DEF RecoverCont, RecoverNonCont, Scanned, Recover, RecoverNone, AfterRecovery,
                StartWalk, Crash, Undefined, Goto
  <2> QED BY <1>1, <2>1 DEF FormatInv
<1> QED BY <1>2, <1>3, <1>4 DEF Next

(* Where the walk stands while -l is carried out.                                 *)
LEMMA WalkStep == ListInv /\ [Next]_vars => WalkInv'
<1> SUFFICES ASSUME ListInv, [Next]_vars PROVE WalkInv'
  OBVIOUS
<1>1. format' = format /\ format \in Images /\ WalkInv
  BY FormatStep DEF ListInv, IInv, ImageInv
<1>2. WithinUInt' <=> WithinUInt
  BY <1>1 DEF WithinUInt
<1>3. WellFormed(format.be, format.chain, format.root)
  BY <1>1, ImagesAssumption
<1>4. CASE OptionL
  <2>1. SUFFICES ASSUME pc' = "list" PROVE WalkInv'
    BY DEF WalkInv
  <2>2. /\ pc = "getopt" /\ current_cluster' = image.be.RootClus /\ i' = 0 /\ found' = <<>>
    BY <1>4, <2>1 DEF OptionL, StartWalk, Crash, Goto
  <2>3. image.be = format.be
    BY DEF ListInv, IInv, ImageInv
  <2>4. PICK be, chain, root, per : /\ be = format.be /\ chain = format.chain /\ root = format.root
                                    /\ per = entries_per_cluster(be)
    OBVIOUS
  <2>5. 1 \in DOMAIN chain /\ chain[1] = be.RootClus /\ per \in Nat /\ root \in Seq(RootObject)
    <3>1. /\ Len(chain) \in Nat \ {0} /\ DOMAIN chain = 1..Len(chain) /\ chain[1] = be.RootClus
          /\ per \in Nat /\ root \in Seq(RootObject)
      BY <1>3, <2>4, WellFormedIs
    <3> QED BY <3>1
  <2>6. (1 - 1) * per + 0 = 0 /\ 0 \in 0..per
    BY <2>5
  <2>7. Listed(<<>>, root, (1 - 1) * per + 0)
    BY <2>5, <2>6, ListedNone
  <2>8. Walked(format, <<>>, be.RootClus, 0)
    BY <2>4, <2>5, <2>6, <2>7 DEF Walked
  <2>9. <<>> \in Seq({})
    OBVIOUS
  <2> QED BY <1>1, <2>2, <2>3, <2>4, <2>8, <2>9 DEF WalkInv
<1>5. CASE ListEntry
  <2>1. /\ pc = "list" /\ current_cluster < EndMark /\ i < entries_per_cluster(image.be)
        /\ current_cluster' = current_cluster /\ i' = i + 1 /\ pc' = pc
        /\ \E entry \in EntriesAt(image, Here) :
             found' = IF Displayed(entry) THEN Append(found, Line(entry)) ELSE found
    BY <1>5 DEF ListEntry, AtEntry, Look
  <2>2. image = Original /\ image.be = format.be
    BY <2>1 DEF ListInv, FormatInv, IInv, ImageInv
  <2>3. PICK S : found \in Seq(S)
    BY <1>1, <2>1 DEF WalkInv
  <2>4. PICK entry : /\ entry \in EntriesAt(image, cluster_to_dir(format.be, current_cluster) + i * EntrySize)
                     /\ found' = IF Displayed(entry) THEN Append(found, Line(entry)) ELSE found
    BY <2>1, <2>2 DEF Here
  <2>5. \E T : found' \in Seq(T)
    <3>1. PICK T : T = S \union {Line(entry)}
      OBVIOUS
    <3>2. found \in Seq(T) /\ Line(entry) \in T
      BY <2>3, <3>1
    <3>3. found' \in Seq(T)
      BY <2>4, <3>2
    <3> QED BY <3>3
  <2>6. ASSUME WithinUInt PROVE Walked(format, found', current_cluster, i + 1)
    <3>1. EndMark \in Nat
      BY WidthsAssumption
    <3>2. ~(current_cluster \in Nat /\ current_cluster >= EndMark)
      BY <2>1, <3>1
    <3>3. PICK m \in DOMAIN format.chain :
            /\ current_cluster = format.chain[m] /\ i \in 0..entries_per_cluster(format.be)
            /\ Listed(found, format.root, (m - 1) * entries_per_cluster(format.be) + i)
      BY <1>1, <2>1, <2>6, <3>2 DEF WalkInv, Walked
    <3>4. PICK per : per = entries_per_cluster(format.be)
      OBVIOUS
    <3>5. per \in Nat
      BY <1>3, <3>4, WellFormedIs
    <3>6. i \in 0..(per - 1) /\ i + 1 \in 0..per
      BY <2>1, <2>2, <3>3, <3>4, <3>5
    <3>7. Listed(found', format.root, (m - 1) * entries_per_cluster(format.be) + (i + 1))
      <4>1. Address(format.be, format.chain, (m - 1) * entries_per_cluster(format.be) + 1) < UIntMod
        BY <2>6 DEF WithinUInt
      <4>2. entry \in EntriesAt(Formatted(format.be, format.chain, format.root, format.links),
                               cluster_to_dir(format.be, format.chain[m]) + i * EntrySize)
        BY <2>2, <2>4, <3>3 DEF Original
      <4>3. i \in 0..(entries_per_cluster(format.be) - 1)
        BY <3>4, <3>6
      <4> QED BY <1>1, <2>3, <2>4, <3>3, <4>1, <4>2, <4>3, EntryNoted
    <3> QED BY <3>3, <3>4, <3>6, <3>7 DEF Walked
  <2> QED BY <1>1, <1>2, <2>1, <2>5, <2>6 DEF WalkInv
<1>6. CASE NextCluster
  <2>1. SUFFICES ASSUME pc' = "list" PROVE WalkInv'
    BY DEF WalkInv
  <2>2. /\ pc = "list" /\ current_cluster < EndMark /\ i >= entries_per_cluster(image.be)
        /\ current_cluster' = get_next_cluster(image, current_cluster) /\ i' = 0 /\ found' = found
    BY <1>6, <2>1 DEF NextCluster
  <2>3. image.fat = format.links /\ image.be = format.be
    <3>1. image = Original
      BY <2>2 DEF ListInv, FormatInv
    <3> QED BY <3>1 DEF Original, Formatted
  <2>4. ASSUME WithinUInt PROVE Walked(format, found, current_cluster', 0)
    <3>1. EndMark \in Nat
      BY WidthsAssumption
    <3>2. ~(current_cluster \in Nat /\ current_cluster >= EndMark)
      BY <2>2, <3>1
    <3>3. PICK m \in DOMAIN format.chain :
            /\ current_cluster = format.chain[m] /\ i \in 0..entries_per_cluster(format.be)
            /\ Listed(found, format.root, (m - 1) * entries_per_cluster(format.be) + i)
      BY <1>1, <2>2, <2>4, <3>2 DEF WalkInv, Walked
    <3>4. i = entries_per_cluster(format.be)
      <4>1. PICK per : per = entries_per_cluster(format.be)
        OBVIOUS
      <4>2. per \in Nat
        BY <1>3, <4>1, WellFormedIs
      <4>3. i = per
        BY <2>2, <2>3, <3>3, <4>1, <4>2
      <4> QED BY <4>1, <4>3
    <3> QED BY <1>1, <2>2, <2>3, <3>3, <3>4, ClusterNoted DEF get_next_cluster
  <2> QED BY <1>1, <1>2, <2>2, <2>4 DEF WalkInv
<1>7. CASE Terminated \/ UNCHANGED vars
  BY <1>1, <1>2, <1>7 DEF Terminated, vars, walk, WalkInv
<1>8. CASE \/ DiskMapped \/ OptionI \/ OptionName \/ OptionS \/ OptionOther
           \/ OptionsEnd \/ ListEnd \/ ScanEntry \/ RecoverCont \/ RecoverNonCont
  <2>1. pc' # "list"
    BY <1>8 DEF DiskMapped, OptionI, OptionName, OptionS, OptionOther, OptionsEnd, ListEnd,
                ScanEntry, RecoverCont, RecoverNonCont, Scanned, Recover, RecoverNone,
                AfterRecovery, StartWalk, Usage, Crash, Undefined, Goto, Look, AtEntry
  <2> QED BY <2>1 DEF WalkInv
<1> QED BY <1>4, <1>5, <1>6, <1>7, <1>8 DEF Next

(* At its end the walk has been through the whole root.                           *)
LEMMA ListedStep == ListInv /\ [Next]_vars => ListingIsTheRoot'
<1> SUFFICES ASSUME ListInv, [Next]_vars PROVE ListingIsTheRoot'
  OBVIOUS
<1>1. format' = format /\ format \in Images /\ WalkInv /\ ListingIsTheRoot /\ OutInv
  BY FormatStep DEF ListInv, ImageInv, IInv
<1>2. WithinUInt' <=> WithinUInt
  BY <1>1 DEF WithinUInt
<1>3. PICK S : out \in Seq(S)
  BY <1>1 DEF OutInv
<1>4. ASSUME NEW message, out' = Append(out, message),
             WithinUInt /\ message.kind = "list" =>
               Listed(message.lines, format.root, Len(format.root)) /\ message.total = Len(message.lines)
      PROVE  ListingIsTheRoot'
  <2>1. PICK T : T = S \union {message}
    OBVIOUS
  <2>2. out \in Seq(T) /\ message \in T
    BY <1>3, <2>1
  <2>3. \A n \in DOMAIN out' : (n \in DOMAIN out /\ out'[n] = out[n]) \/ out'[n] = message
    BY <1>4, <2>2
  <2> QED BY <1>1, <1>2, <1>4, <2>3 DEF ListingIsTheRoot
<1>5. CASE ListEnd
  <2>1. /\ pc = "list" /\ current_cluster >= EndMark
        /\ out' = Append(out, [kind |-> "list", lines |-> found, total |-> Len(found)])
    BY <1>5 DEF ListEnd
  <2>2. ASSUME WithinUInt PROVE Listed(found, format.root, Len(format.root))
    <3>1. Walked(format, found, current_cluster, i)
      BY <1>1, <2>1, <2>2 DEF WalkInv
    <3>2. \A m \in DOMAIN format.chain : ~(current_cluster = format.chain[m])
      <4>1. \A m \in DOMAIN format.chain : format.chain[m] \in Nat /\ format.chain[m] < EndMark
        BY <1>1, ImagesAssumption, WellFormedIs
      <4>2. EndMark \in Nat
        BY WidthsAssumption
      <4> QED BY <2>1, <4>1, <4>2
    <3> QED BY <3>1, <3>2 DEF Walked
  <2> QED BY <1>4, <2>1, <2>2
<1>6. CASE out' = out
  BY <1>1, <1>2, <1>6 DEF ListingIsTheRoot
<1>7. CASE ~ListEnd
  <2>1. ASSUME NEW at, NEW entry, NEW clusters, Recover(at, entry, clusters)
        PROVE  ListingIsTheRoot'
    <3>1. out' = out \/ out' = Append(out, [kind |-> "recovered", name |-> filename])
      BY <2>1 DEF Recover, Undefined
    <3> QED BY <1>4, <1>6, <3>1
  <2>2. CASE RecoverNone
    BY <1>4, <2>2 DEF RecoverNone
  <2>3. CASE Undefined \/ Crash
    BY <1>6, <2>3 DEF Undefined, Crash
  <2>4. CASE RecoverCont \/ RecoverNonCont
    BY <2>1, <2>2, <2>3, <2>4 DEF RecoverCont, RecoverNonCont
  <2>5. CASE Usage
    <3>1. out' = Append(out, [kind |-> "usage"])
      BY <2>5 DEF Usage
    <3> QED BY <1>4, <3>1
  <2>6. CASE OptionI
    <3>1. CASE Mapped
      <4>1. PICK message : message.kind = "info" /\ out' = Append(out, message)
        BY <2>6, <3>1 DEF OptionI
      <4> QED BY <1>4, <4>1
    <3>2. CASE ~Mapped
      BY <1>6, <2>6, <3>2 DEF OptionI, Crash
    <3> QED BY <3>1, <3>2
  <2>7. CASE /\ ~RecoverCont /\ ~RecoverNonCont /\ ~OptionI /\ ~Usage
    <3>1. out' = out
      BY <1>7, <2>7 DEF Next, DiskMapped, OptionL, OptionName, OptionS, OptionOther, OptionsEnd,
                        ListEntry, NextCluster, ScanEntry, Look, Crash, Undefined, Terminated, vars
    <3> QED BY <1>6, <3>1
  <2> QED BY <2>4, <2>5, <2>6, <2>7
<1> QED BY <1>5, <1>7

(* On a root within the reach of unsigned int, -l prints every file and directory *)
(* exactly once, in order, with its name, size and first cluster, and besides     *)
(* them only decoys.                                                              *)
THEOREM ListingIsTheRootHolds == Spec => []ListingIsTheRoot
<1>1. ListInv /\ [Next]_vars => ListInv'
  BY NextInv, FormatStep, WalkStep, ListedStep DEF ListInv
<1>2. ListInv => ListingIsTheRoot
  BY DEF ListInv
<1> QED BY <1>1, <1>2, InitList, PTL DEF Spec
=================================================================================
