---------------------------- MODULE ReadableProofs ----------------------------
(* Proofs about Readable, for every use, chunk size and high water mark.     *)
EXTENDS Readable, DataTheorems

-----------------------------------------------------------------------------
(* The bytes that a step takes and those it leaves.                         *)
LEMMA MaxIs ==
    ASSUME NEW m \in Nat, NEW S \in SUBSET (0..m), S # {}
    PROVE  Max(S) \in S /\ \A y \in S : Max(S) >= y
<1>. DEFINE T == {n \in Nat : \A R \in SUBSET (0..n) :
                      R # {} => \E x \in R : \A y \in R : x >= y}
<1>1. 0 \in T
    <2>1. ASSUME NEW R \in SUBSET (0..0), R # {}
          PROVE  \E x \in R : \A y \in R : x >= y
        <3>1. \A y \in R : y = 0
            BY <2>1
        <3>2. PICK x \in R : TRUE
            BY <2>1
        <3>3. \A y \in R : x >= y
            BY <3>1, <3>2
        <3>. QED
            BY <3>3
    <2>. QED
        BY <2>1
<1>2. ASSUME NEW n \in Nat, n \in T PROVE n + 1 \in T
    <2>. SUFFICES ASSUME NEW R \in SUBSET (0..(n + 1)), R # {}
                  PROVE  \E x \in R : \A y \in R : x >= y
        OBVIOUS
    <2>1. CASE n + 1 \in R
        <3>1. \A y \in R : n + 1 >= y
            OBVIOUS
        <3>. QED
            BY <2>1, <3>1
    <2>2. CASE n + 1 \notin R
        <3>1. R \in SUBSET (0..n)
            BY <2>2
        <3>. QED
            BY <1>2, <3>1
    <2>. QED
        BY <2>1, <2>2
<1>. HIDE DEF T
<1>3. m \in T
    BY <1>1, <1>2, SetInduction
<1>4. \E x \in S : \A y \in S : x >= y
    BY <1>3 DEF T
<1>. QED
    BY <1>4 DEF Max

LEMMA NumbersType ==
    ASSUME NEW n \in Nat, NEW k \in Nat
    PROVE  Numbers(n, k) \in Seq(Nat) /\ Len(Numbers(n, k)) = k
BY DEF Numbers

LEMMA NumbersCat ==
    ASSUME NEW n \in Nat, NEW k \in Nat
    PROVE  Numbers(0, n) \o Numbers(n, k) = Numbers(0, n + k)
<1>1. /\ Numbers(0, n) \in Seq(Nat) /\ Numbers(n, k) \in Seq(Nat)
      /\ Numbers(0, n + k) \in Seq(Nat)
      /\ Len(Numbers(0, n)) = n /\ Len(Numbers(n, k)) = k
      /\ Len(Numbers(0, n + k)) = n + k
    BY NumbersType
<1>. DEFINE s == Numbers(0, n)  t == Numbers(n, k)  u == Numbers(0, n + k)
<1>2. /\ \A i \in 1..n : s[i] = i /\ u[i] = i
      /\ \A i \in 1..k : t[i] = n + i /\ u[n + i] = n + i
    BY DEF Numbers
<1>. HIDE DEF s, t, u
<1>3. /\ s \in Seq(Nat) /\ t \in Seq(Nat) /\ u \in Seq(Nat)
      /\ Len(s) = n /\ Len(t) = k /\ Len(u) = n + k
    BY <1>1 DEF s, t, u
<1>4. /\ s \o t \in Seq(Nat) /\ Len(s \o t) = n + k
      /\ \A i \in 1..(n + k) : (s \o t)[i] = IF i <= n THEN s[i] ELSE t[i - n]
    <2>1. /\ s \o t \in Seq(Nat) /\ Len(s \o t) = Len(s) + Len(t)
          /\ \A i \in 1..(Len(s) + Len(t)) :
                (s \o t)[i] = IF i <= Len(s) THEN s[i] ELSE t[i - Len(s)]
        BY <1>3, ConcatProperties
    <2>. QED
        BY <1>3, <2>1
<1>5. \A i \in 1..(n + k) : (s \o t)[i] = u[i]
    <2>. SUFFICES ASSUME NEW i \in 1..(n + k) PROVE (s \o t)[i] = u[i]
        OBVIOUS
    <2>1. CASE i <= n
        <3>1. i \in 1..n
            BY <2>1
        <3>. QED
            BY <1>2, <1>4, <2>1, <3>1
    <2>2. CASE ~(i <= n)
        <3>1. i - n \in 1..k /\ n + (i - n) = i
            BY <2>2
        <3>2. (s \o t)[i] = t[i - n]
            BY <1>4, <2>2
        <3>3. t[i - n] = n + (i - n) /\ u[n + (i - n)] = n + (i - n)
            BY <1>2, <3>1
        <3>. QED
            BY <3>1, <3>2, <3>3
    <2>. QED
        BY <2>1, <2>2
<1>6. s \o t = u
    BY <1>3, <1>4, <1>5, SeqEqual
<1>. QED
    BY <1>6 DEF s, t, u

LEMMA AssocNat == \A f, g, h \in Seq(Nat) : (f \o g) \o h = f \o (g \o h)
<1>. SUFFICES ASSUME NEW f \in Seq(Nat), NEW g \in Seq(Nat), NEW h \in Seq(Nat)
              PROVE  (f \o g) \o h = f \o (g \o h)
    OBVIOUS
<1>. QED
    BY ConcatAssociative, SMTT(20)

(* A sequence is what is before a place and what is after it.               *)
LEMMA SplitAt ==
    ASSUME NEW X, NEW s \in Seq(X), NEW k \in 0..Len(s)
    PROVE  /\ SubSeq(s, 1, k) \in Seq(X) /\ SubSeq(s, k + 1, Len(s)) \in Seq(X)
           /\ Len(SubSeq(s, 1, k)) = k /\ Len(SubSeq(s, k + 1, Len(s))) = Len(s) - k
           /\ SubSeq(s, 1, k) \o SubSeq(s, k + 1, Len(s)) = s
<1>1. /\ k \in Nat /\ Len(s) \in Nat /\ k <= Len(s)
      /\ \A i \in 1..k : s[i] \in X
      /\ \A i \in (k + 1)..Len(s) : s[i] \in X
    OBVIOUS
<1>2. SubSeq(s, 1, k) \in Seq(X) /\ Len(SubSeq(s, 1, k)) = k
    BY <1>1, SubSeqProperties
<1>3. /\ SubSeq(s, k + 1, Len(s)) \in Seq(X)
      /\ Len(SubSeq(s, k + 1, Len(s))) = Len(s) - k
    BY <1>1, SubSeqProperties
<1>4. SubSeq(s, 1, k) \o SubSeq(s, k + 1, Len(s)) = s
    <2>1. SubSeq(s, 1, k) \o SubSeq(s, k + 1, Len(s)) = SubSeq(s, 1, Len(s))
        <3>1. /\ 1 \in 1..(Len(s) + 1) /\ k \in (1 - 1)..Len(s)
              /\ Len(s) \in k..Len(s)
            BY <1>1
        <3>. QED
            BY <3>1, ConcatAdjacentSubSeq
    <2>. QED
        BY <2>1, SubSeqFull
<1>. QED
    BY <1>2, <1>3, <1>4

LEMMA AfterIs ==
    ASSUME NEW X, NEW s \in Seq(X), NEW k \in 0..Len(s), k < Len(s)
    PROVE  /\ SubSeq(s, k + 1, Len(s)) # <<>>
           /\ Head(SubSeq(s, k + 1, Len(s))) = s[k + 1]
           /\ Tail(SubSeq(s, k + 1, Len(s))) = SubSeq(s, k + 2, Len(s))
           /\ SubSeq(s, k + 2, Len(s)) \in Seq(X)
<1>1. /\ k + 1 \in 1..Len(s) /\ Len(s) \in (k + 1)..Len(s)
      /\ (k + 1) + 1 = k + 2 /\ k \in Nat /\ Len(s) \in Nat
    OBVIOUS
<1>. DEFINE a == SubSeq(s, k + 1, Len(s))
<1>2. /\ Head(SubSeq(s, k + 1, Len(s))) = s[k + 1]
      /\ Tail(SubSeq(s, k + 1, Len(s))) = SubSeq(s, (k + 1) + 1, Len(s))
    BY <1>1, HeadTailOfSubSeq
<1>3. a \in Seq(X) /\ Len(a) = Len(s) - k
    BY SplitAt
<1>4. a # <<>>
    <2>. HIDE DEF a
    <2>1. Len(a) # 0
        BY <1>1, <1>3
    <2>. QED
        BY <2>1
<1>5. Tail(a) \in Seq(X)
    BY <1>3, <1>4, HeadTailProperties
<1>. QED
    BY <1>1, <1>2, <1>4, <1>5


-----------------------------------------------------------------------------
(* read(n): what it takes, and what it leaves, are the buffer.              *)
LEMMA SumToIs ==
    ASSUME buffer \in Seq(Seq(Nat)), NEW k \in 0..Len(buffer)
    PROVE  /\ SumTo(k) \in Nat
           /\ k < Len(buffer) => SumTo(k + 1) = SumTo(k) + Len(buffer[k + 1])
<1>1. /\ SubSeq(buffer, 1, k) \in Seq(Seq(Nat)) /\ Bytes(SubSeq(buffer, 1, k)) \in Seq(Nat)
    BY SplitAt, FlattenType DEF Bytes
<1>2. SumTo(k) \in Nat
    BY <1>1 DEF SumTo
<1>3. ASSUME k < Len(buffer) PROVE SumTo(k + 1) = SumTo(k) + Len(buffer[k + 1])
    <2>1. /\ buffer[k + 1] \in Seq(Nat)
          /\ SubSeq(buffer, 1, k + 1) = Append(SubSeq(buffer, 1, k), buffer[k + 1])
        BY <1>3
    <2>2. Bytes(SubSeq(buffer, 1, k + 1)) = Bytes(SubSeq(buffer, 1, k)) \o buffer[k + 1]
        BY <1>1, <2>1, FlattenAppend DEF Bytes
    <2>. QED
        BY <1>1, <2>1, <2>2, ConcatProperties DEF SumTo
<1>. QED
    BY <1>2, <1>3

LEMMA BytesCons ==
    ASSUME NEW rest \in Seq(Nat), NEW later \in Seq(Seq(Nat))
    PROVE  /\ <<rest>> \o later \in Seq(Seq(Nat)) /\ <<rest>> \o later # <<>>
           /\ Head(<<rest>> \o later) = rest
           /\ Bytes(<<rest>> \o later) = rest \o Bytes(later)
<1>. DEFINE r == <<rest>>  q == r \o later
<1>1. r \in Seq(Seq(Nat)) /\ r # <<>> /\ Head(r) = rest /\ Tail(r) = <<>>
    OBVIOUS
<1>. HIDE DEF r
<1>2. /\ q # <<>> /\ q \in Seq(Seq(Nat)) /\ Head(q) = rest
      /\ Tail(q) = <<>> \o later
    <2>1. /\ r \o later # <<>> /\ r \o later \in Seq(Seq(Nat))
          /\ Head(r \o later) = Head(r)
          /\ Tail(r \o later) = Tail(r) \o later
        BY <1>1, CatHead, Zenon
    <2>. QED
        BY <1>1, <2>1
<1>3. <<>> \o later = later
    BY ConcatEmptySeq
<1>. HIDE DEF q
<1>4. Bytes(q) = Head(q) \o Bytes(Tail(q))
    BY <1>2, FlattenHead DEF Bytes
<1>5. Bytes(q) = rest \o Bytes(later)
    BY <1>2, <1>3, <1>4
<1>. QED
    BY <1>2, <1>5 DEF q, r

(* The last chunk that read(n) takes whole, and the part of the next.       *)
LEMMA WholeIs ==
    ASSUME buffer \in Seq(Seq(Nat)), NEW n \in Nat
    PROVE  /\ Whole(n) \in 0..Len(buffer) /\ Needed(n) \in Nat
           /\ Splits(n) => /\ Split(n) \in Seq(Nat)
                           /\ Needed(n) \in 0..Len(Split(n))
<1>. DEFINE S == {k \in 0..Len(buffer) : SumTo(k) <= n /\ (k > 0 => SumTo(k - 1) < n)}
<1>1. S \in SUBSET (0..Len(buffer)) /\ Len(buffer) \in Nat
    OBVIOUS
<1>2. S # {}
    <2>1. SubSeq(buffer, 1, 0) = <<>>
        BY SubSeqEmpty
    <2>2. SumTo(0) = 0
        <3>1. Bytes(SubSeq(buffer, 1, 0)) = <<>>
            BY <2>1, FlattenEmpty, Zenon DEF Bytes
        <3>. QED
            BY <3>1 DEF SumTo
    <2>3. 0 \in S
        BY <1>1, <2>2
    <2>. QED
        BY <2>3
<1>3. Whole(n) = Max(S)
    BY DEF Whole
<1>. HIDE DEF S
<1>4. Whole(n) \in S /\ \A y \in S : Whole(n) >= y
    BY <1>1, <1>2, <1>3, MaxIs
<1>5. /\ Whole(n) \in 0..Len(buffer) /\ SumTo(Whole(n)) <= n /\ SumTo(Whole(n)) \in Nat
    BY <1>4, SumToIs DEF S
<1>6. Needed(n) \in Nat
    BY <1>5 DEF Needed
<1>7. ASSUME Splits(n)
      PROVE  Split(n) \in Seq(Nat) /\ Needed(n) \in 0..Len(Split(n))
    <2>. DEFINE k == Whole(n)
    <2>1. /\ Needed(n) > 0 /\ k < Len(buffer) /\ k \in 0..Len(buffer)
          /\ k + 1 \in 1..Len(buffer) /\ k + 1 \in 0..Len(buffer)
        BY <1>1, <1>5, <1>7 DEF Splits
    <2>2. Split(n) \in Seq(Nat)
        BY <2>1 DEF Split
    <2>3. SumTo(k + 1) = SumTo(k) + Len(Split(n))
        BY <2>1, SumToIs DEF Split
    <2>4. SumTo(k) < n
        BY <1>5, <2>1 DEF Needed
    <2>5. ~(SumTo(k + 1) <= n)
        <3>. SUFFICES ASSUME SumTo(k + 1) <= n PROVE FALSE
            OBVIOUS
        <3>1. k + 1 \in S
            <4>1. (k + 1) - 1 = k
                BY <2>1
            <4>. QED
                BY <2>1, <2>4, <4>1 DEF S
        <3>2. k >= k + 1
            BY <1>4, <3>1
        <3>. QED
            BY <2>1, <3>2
    <2>6. Needed(n) <= Len(Split(n))
        BY <1>5, <2>2, <2>3, <2>5 DEF Needed
    <2>. QED
        BY <1>6, <2>2, <2>6
<1>. QED
    BY <1>5, <1>6, <1>7

LEMMA ReadTakes ==
    ASSUME buffer \in Seq(Seq(Nat)), buffer # <<>>, NEW n \in -1..2, n # 0
    PROVE  /\ Taken(n) \in Seq(Nat) /\ Left(n) \in Seq(Seq(Nat))
           /\ Taken(n) \o Bytes(Left(n)) = Bytes(buffer)
<1>1. CASE use.objects
    <2>1. Head(buffer) \in Seq(Nat) /\ Tail(buffer) \in Seq(Seq(Nat))
        OBVIOUS
    <2>2. Bytes(buffer) = Head(buffer) \o Bytes(Tail(buffer))
        BY FlattenHead DEF Bytes
    <2>. QED
        BY <1>1, <2>1, <2>2 DEF Taken, Left
<1>2. CASE ~use.objects /\ n = All
    <2>1. Bytes(buffer) \in Seq(Nat) /\ Bytes(<<>>) = <<>>
        BY FlattenType, FlattenEmpty DEF Bytes
    <2>2. Bytes(buffer) \o <<>> = Bytes(buffer)
        BY <2>1
    <2>. QED
        BY <1>2, <2>1, <2>2 DEF Taken, Left
<1>3. CASE ~use.objects /\ n # All
    <2>. DEFINE k == Whole(n)
                before == SubSeq(buffer, 1, k)
                after == SubSeq(buffer, k + 1, Len(buffer))
    <2>0. n \in Nat
        BY <1>3 DEF All
    <2>1. k \in 0..Len(buffer)
        BY <2>0, WholeIs
    <2>2. /\ before \in Seq(Seq(Nat)) /\ after \in Seq(Seq(Nat))
          /\ Len(after) = Len(buffer) - k
          /\ before \o after = buffer
        BY <2>1, SplitAt
    <2>3. /\ Bytes(before) \in Seq(Nat) /\ Bytes(after) \in Seq(Nat)
          /\ Bytes(buffer) = Bytes(before) \o Bytes(after)
        <3>1. Bytes(before \o after) = Bytes(before) \o Bytes(after)
            BY <2>2, FlattenCat DEF Bytes
        <3>. QED
            BY <2>2, <3>1, FlattenType DEF Bytes
    <2>4. CASE ~Splits(n)
        <3>1. Taken(n) = Bytes(before) \o <<>> /\ Left(n) = after
            BY <1>3, <2>4 DEF Taken, Left
        <3>2. Bytes(before) \o <<>> = Bytes(before)
            BY <2>3
        <3>. QED
            BY <2>2, <2>3, <3>1, <3>2
    <2>5. CASE Splits(n)
        <3>. DEFINE m == Needed(n)  c == Split(n)
                    first == SubSeq(c, 1, m)  rest == SubSeq(c, m + 1, Len(c))
                    later == SubSeq(buffer, k + 2, Len(buffer))
        <3>1. /\ Taken(n) = Bytes(before) \o first
              /\ Left(n) = <<rest>> \o later
            BY <1>3, <2>5 DEF Taken, Left
        <3>2. c \in Seq(Nat) /\ m \in 0..Len(c) /\ k < Len(buffer)
            BY <2>0, <2>5, WholeIs DEF Splits
        <3>3. /\ first \in Seq(Nat) /\ rest \in Seq(Nat) /\ first \o rest = c
            BY <3>2, SplitAt
        <3>4. /\ after # <<>> /\ Head(after) = c /\ Tail(after) = later
              /\ later \in Seq(Seq(Nat))
            BY <2>1, <3>2, AfterIs DEF Split
        <3>. HIDE DEF first, rest, later, before, after, c, m, k
        <3>5. Bytes(after) = c \o Bytes(later) /\ Bytes(later) \in Seq(Nat)
            <4>1. Bytes(after) = Head(after) \o Bytes(Tail(after))
                BY <2>2, <3>4, FlattenHead DEF Bytes
            <4>. QED
                BY <3>4, <4>1, FlattenType DEF Bytes
        <3>6. /\ <<rest>> \o later \in Seq(Seq(Nat))
              /\ Bytes(<<rest>> \o later) = rest \o Bytes(later)
            BY <3>3, <3>4, BytesCons
        <3>7. Bytes(before) \o first \in Seq(Nat)
            BY <2>3, <3>3
        <3>8. (Bytes(before) \o first) \o (rest \o Bytes(later)) = Bytes(buffer)
            <4>. DEFINE x == Bytes(before)  z == Bytes(later)
            <4>1. x \in Seq(Nat) /\ z \in Seq(Nat) /\ first \o rest = c
                  /\ first \in Seq(Nat) /\ rest \in Seq(Nat) /\ rest \o z \in Seq(Nat)
                BY <2>3, <3>3, <3>5
            <4>2. Bytes(buffer) = x \o (c \o z)
                BY <2>3, <3>5
            <4>. HIDE DEF x, z
            <4>0. /\ x \in Seq(Nat) /\ z \in Seq(Nat) /\ first \in Seq(Nat)
                  /\ rest \in Seq(Nat) /\ rest \o z \in Seq(Nat)
                BY <4>1
            <4>3. (x \o first) \o (rest \o z) = x \o (first \o (rest \o z))
                BY <4>0, AssocNat, ZenonT(60)
            <4>4. (first \o rest) \o z = first \o (rest \o z)
                BY <4>0, AssocNat, ZenonT(60)
            <4>5. (x \o first) \o (rest \o z) = x \o (c \o z)
                BY <4>1, <4>3, <4>4
            <4>. QED
                BY <4>2, <4>5 DEF x, z
        <3>. QED
            BY <3>1, <3>6, <3>7, <3>8
    <2>. QED
        BY <2>4, <2>5
<1>. QED
    BY <1>1, <1>2, <1>3

-----------------------------------------------------------------------------
(* The states of a stream: its control, the ticks that wait, and its bytes. *)
Kinds == {"flow", "end", "close", "readable", "error", "construct"}

Control ==
    /\ use \in Uses /\ chunks \in 0..MaxChunks /\ asked \in Nat
    /\ failing \in BOOLEAN /\ stalled \in BOOLEAN
    /\ flowing \in {"null", "true", "false"}
    /\ ended \in BOOLEAN /\ endEmitted \in BOOLEAN /\ reading \in BOOLEAN
    /\ constructed \in BOOLEAN /\ destroyed \in BOOLEAN
    /\ readablePending \in BOOLEAN /\ told \in BOOLEAN
    /\ listeners \subseteq {"data", "readable"}
    /\ flow \in {"idle", "head", "data", "read"}
    /\ rd \in {"idle", "read", "rest"} /\ rdSize \in -1..2
    /\ pending \subseteq {"construct", "destroy"}

Waiting == ticks \in Seq(Kinds)

Content ==
    /\ produced \in Nat /\ buffer \in Seq(Seq(Nat)) /\ length \in Nat
    /\ got \in Seq(Nat) /\ endAt \in -1..produced
    /\ Conservation

ByteInv == Control /\ Waiting /\ Content

LEMMA ByteInvIs == ByteInv <=> TypeOK /\ Conservation
BY Zenon DEF ByteInv, Control, Waiting, Content, Kinds, TypeOK

LEMMA ByteInit == Init => ByteInv
<1>. SUFFICES ASSUME Init PROVE ByteInv
    OBVIOUS
<1>1. Control
    <2>1. constructed = TRUE \/ constructed = FALSE
        BY Zenon DEF Init
    <2>2. 0 \in 0..MaxChunks
        BY BoundAssumption
    <2>3. /\ use \in Uses /\ chunks = 0 /\ asked = 0
          /\ failing = FALSE /\ stalled = FALSE /\ flowing = "null"
          /\ ended = FALSE /\ endEmitted = FALSE /\ reading = FALSE
          /\ destroyed = FALSE /\ readablePending = FALSE /\ listeners = {}
          /\ told = TRUE /\ flow = "idle" /\ rd = "idle" /\ rdSize = All
          /\ pending = {}
        BY Zenon DEF Init
    <2>4. constructed \in BOOLEAN
        BY <2>1, Zenon
    <2>5. rdSize \in -1..2 /\ asked \in Nat
        BY <2>3 DEF All
    <2>6. chunks \in 0..MaxChunks
        BY <2>2, <2>3, Zenon
    <2>. QED
        BY <2>3, <2>4, <2>5, <2>6, Zenon DEF Control
<1>2. Waiting
    <2>1. ticks = <<"construct">> \/ ticks = <<>>
        BY Zenon DEF Init
    <2>2. "construct" \in Kinds
        BY DEF Kinds
    <2>3. <<"construct">> \in Seq(Kinds) /\ <<>> \in Seq(Kinds)
        BY <2>2
    <2>. QED
        BY <2>1, <2>3, Zenon DEF Waiting
<1>3. Bytes(<<>>) = <<>>
    BY FlattenEmpty DEF Bytes
<1>4. Numbers(0, 0) = <<>>
    <2>1. Numbers(0, 0) \in Seq(Nat) /\ Len(Numbers(0, 0)) = 0
        BY NumbersType
    <2>. QED
        BY <2>1
<1>5. Content
    BY <1>3, <1>4 DEF Init, Content, Conservation
<1>. QED
    BY <1>1, <1>2, <1>5 DEF ByteInv

-----------------------------------------------------------------------------
(* Every step keeps the control in its type.                                *)
LEMMA AskTypes ==
    ASSUME Control, AskSource
    PROVE  asked' \in Nat /\ failing' \in BOOLEAN
<1>1. asked' = asked + 1 \/ asked' = 1 \/ asked' = asked
    BY Zenon DEF AskSource
<1>2. failing' \in BOOLEAN
    BY Zenon DEF AskSource
<1>. QED
    BY <1>1, <1>2 DEF Control

LEMMA AnsweredType ==
    ASSUME asked \in Nat, Answered PROVE asked' \in Nat
BY DEF Answered

LEMMA ControlStep == Control /\ ticks \in Seq(Kinds) /\ [Next]_vars => Control'
<1>. SUFFICES ASSUME Control, ticks \in Seq(Kinds), [Next]_vars PROVE Control'
    OBVIOUS
<1>. USE DEF Control, sourceVars, bufferVars, stateVars, readVars, readableVars,
             handedVars
<1>1. CASE Push
    <2>0. asked' \in Nat /\ told' \in BOOLEAN
        BY <1>1, AnsweredType DEF Push
    <2>1. chunks' \in 0..MaxChunks
        <3>1. chunks' = chunks + 1 /\ chunks < MaxChunks
            BY <1>1, Zenon DEF Push
        <3>. QED
            BY <3>1, BoundAssumption
    <2>2. stalled' \in BOOLEAN
        BY <1>1, Zenon DEF Push
    <2>3. readablePending' \in BOOLEAN
        BY <1>1 DEF Push, ScheduleReadable
    <2>4. /\ use' = use /\ failing' = failing /\ flowing' = flowing
          /\ ended' = ended /\ endEmitted' = endEmitted /\ reading' = reading
          /\ constructed' = constructed /\ destroyed' = destroyed
          /\ listeners' = listeners /\ flow' = flow /\ rd' = rd
          /\ rdSize' = rdSize /\ pending' = pending
        BY <1>1 DEF Push
    <2>. QED
        BY <2>0, <2>1, <2>2, <2>3, <2>4
<1>2. CASE PushEnd
    <2>1. asked' \in Nat /\ told' \in BOOLEAN /\ ended' \in BOOLEAN
        BY <1>2, AnsweredType DEF PushEnd
    <2>2. readablePending' \in BOOLEAN
        BY <1>2, Zenon DEF PushEnd, ScheduleReadable
    <2>3. /\ use' = use /\ chunks' = chunks /\ failing' = failing
          /\ stalled' = stalled /\ flowing' = flowing
          /\ endEmitted' = endEmitted /\ reading' = reading
          /\ constructed' = constructed /\ destroyed' = destroyed
          /\ listeners' = listeners /\ flow' = flow /\ rd' = rd
          /\ rdSize' = rdSize /\ pending' = pending
        BY <1>2 DEF PushEnd
    <2>. QED
        BY <2>1, <2>2, <2>3
<1>3. CASE SourceFails
    <2>1. failing' \in BOOLEAN /\ destroyed' \in BOOLEAN
        BY <1>3 DEF SourceFails, DestroyBody
    <2>2. pending' \subseteq {"construct", "destroy"}
        BY <1>3 DEF SourceFails, DestroyBody
    <2>3. /\ use' = use /\ chunks' = chunks /\ asked' = asked
          /\ stalled' = stalled /\ flowing' = flowing /\ ended' = ended
          /\ endEmitted' = endEmitted /\ reading' = reading
          /\ constructed' = constructed /\ readablePending' = readablePending
          /\ told' = told /\ listeners' = listeners /\ flow' = flow
          /\ rd' = rd /\ rdSize' = rdSize
        BY <1>3 DEF SourceFails
    <2>. QED
        BY <2>1, <2>2, <2>3
<1>4. CASE OnData
    BY <1>4 DEF OnData, EnterFlow
<1>5. CASE OnReadable
    <2>1. listeners' \subseteq {"data", "readable"}
        BY <1>5 DEF OnReadable
    <2>2. readablePending' \in BOOLEAN
        BY <1>5 DEF OnReadable
    <2>3. /\ use' = use /\ chunks' = chunks /\ asked' = asked
          /\ failing' = failing /\ stalled' = stalled /\ flowing' = flowing
          /\ ended' = ended /\ endEmitted' = endEmitted /\ reading' = reading
          /\ constructed' = constructed /\ destroyed' = destroyed
          /\ told' = told /\ flow' = flow /\ rd' = rd /\ rdSize' = rdSize
          /\ pending' = pending
        BY <1>5 DEF OnReadable
    <2>. QED
        BY <2>1, <2>2, <2>3
<1>6. CASE Pause
    BY <1>6 DEF Pause
<1>7. CASE Resume
    BY <1>7 DEF Resume, ResumeBody, EnterFlow
<1>8. CASE Read
    <2>1. rdSize' \in -1..2
        BY <1>8 DEF Read, Sizes, All
    <2>2. /\ rd' \in {"idle", "read", "rest"} /\ reading' \in BOOLEAN
        BY <1>8 DEF Read
    <2>3. /\ asked' \in Nat /\ failing' \in BOOLEAN
        BY <1>8, AskTypes DEF Read
    <2>4. /\ use' = use /\ chunks' = chunks /\ stalled' = stalled
          /\ flowing' = flowing /\ ended' = ended /\ endEmitted' = endEmitted
          /\ constructed' = constructed /\ destroyed' = destroyed
          /\ readablePending' = readablePending /\ told' = told
          /\ listeners' = listeners /\ flow' = flow /\ pending' = pending
        BY <1>8 DEF Read
    <2>. QED
        BY <2>1, <2>2, <2>3, <2>4
<1>9. CASE Unshift
    <2>1. /\ use' = use /\ chunks' = chunks /\ asked' = asked
          /\ failing' = failing /\ stalled' = stalled /\ flowing' = flowing
          /\ ended' = ended /\ endEmitted' = endEmitted /\ reading' = reading
          /\ constructed' = constructed /\ destroyed' = destroyed
          /\ readablePending' = readablePending /\ told' = told
          /\ listeners' = listeners /\ flow' = flow /\ rd' = rd
          /\ rdSize' = rdSize /\ pending' = pending
        BY <1>9 DEF Unshift
    <2>. QED
        BY <2>1
<1>10. CASE DestroyCall
    <2>1. destroyed' \in BOOLEAN /\ pending' \subseteq {"construct", "destroy"}
        BY <1>10 DEF DestroyCall, DestroyBody
    <2>2. /\ use' = use /\ chunks' = chunks /\ asked' = asked
          /\ failing' = failing /\ stalled' = stalled /\ flowing' = flowing
          /\ ended' = ended /\ endEmitted' = endEmitted /\ reading' = reading
          /\ constructed' = constructed /\ readablePending' = readablePending
          /\ told' = told /\ listeners' = listeners /\ flow' = flow
          /\ rd' = rd /\ rdSize' = rdSize
        BY <1>10 DEF DestroyCall
    <2>. QED
        BY <2>1, <2>2
<1>11. CASE DestroyCallback
    <2>1. pending' \subseteq {"construct", "destroy"}
        BY <1>11 DEF DestroyCallback
    <2>2. /\ use' = use /\ chunks' = chunks /\ asked' = asked
          /\ failing' = failing /\ stalled' = stalled /\ flowing' = flowing
          /\ ended' = ended /\ endEmitted' = endEmitted
          /\ constructed' = constructed /\ destroyed' = destroyed
          /\ readablePending' = readablePending /\ told' = told
          /\ listeners' = listeners /\ reading' = reading /\ flow' = flow
          /\ rd' = rd /\ rdSize' = rdSize
        BY <1>11 DEF DestroyCallback
    <2>. QED
        BY <2>1, <2>2
<1>12. CASE ConstructCallback
    <2>1. constructed' = TRUE /\ destroyed' \in BOOLEAN
        BY <1>12 DEF ConstructCallback, Constructed, DestroyBody
    <2>2. pending' \subseteq {"construct", "destroy"}
        BY <1>12 DEF ConstructCallback, Constructed, DestroyBody
    <2>3. flow' \in {"idle", "head", "data", "read"}
        BY <1>12 DEF ConstructCallback, Constructed
    <2>4. /\ use' = use /\ chunks' = chunks /\ asked' = asked
          /\ failing' = failing /\ stalled' = stalled /\ flowing' = flowing
          /\ ended' = ended /\ endEmitted' = endEmitted /\ reading' = reading
          /\ readablePending' = readablePending /\ told' = told
          /\ listeners' = listeners /\ rd' = rd /\ rdSize' = rdSize
        BY <1>12 DEF ConstructCallback
    <2>. QED
        BY <2>1, <2>2, <2>3, <2>4
<1>13. CASE FlowHead
    <2>1. /\ flow' \in {"idle", "data", "read"} /\ reading' \in BOOLEAN
        BY <1>13 DEF FlowHead
    <2>2. /\ asked' \in Nat /\ failing' \in BOOLEAN
        BY <1>13, AskTypes DEF FlowHead
    <2>3. /\ use' = use /\ chunks' = chunks /\ stalled' = stalled
          /\ flowing' = flowing /\ ended' = ended /\ endEmitted' = endEmitted
          /\ constructed' = constructed /\ destroyed' = destroyed
          /\ readablePending' = readablePending /\ told' = told
          /\ listeners' = listeners /\ rd' = rd /\ rdSize' = rdSize
          /\ pending' = pending
        BY <1>13 DEF FlowHead
    <2>. QED
        BY <2>1, <2>2, <2>3
<1>14. CASE FlowData
    <2>1. flow' = "head"
        BY <1>14 DEF FlowData
    <2>2. /\ use' = use /\ chunks' = chunks /\ asked' = asked
          /\ failing' = failing /\ stalled' = stalled /\ flowing' = flowing
          /\ ended' = ended /\ endEmitted' = endEmitted
          /\ constructed' = constructed /\ destroyed' = destroyed
          /\ readablePending' = readablePending /\ told' = told
          /\ listeners' = listeners /\ reading' = reading
          /\ pending' = pending /\ rd' = rd /\ rdSize' = rdSize
        BY <1>14 DEF FlowData
    <2>. QED
        BY <2>1, <2>2
<1>15. CASE FlowRead
    <2>1. flow' \in {"idle", "head", "data", "read"} /\ reading' \in BOOLEAN
        BY <1>15 DEF FlowRead
    <2>2. /\ use' = use /\ chunks' = chunks /\ asked' = asked
          /\ failing' = failing /\ stalled' = stalled /\ flowing' = flowing
          /\ ended' = ended /\ endEmitted' = endEmitted
          /\ constructed' = constructed /\ destroyed' = destroyed
          /\ readablePending' = readablePending /\ told' = told
          /\ listeners' = listeners /\ rd' = rd /\ rdSize' = rdSize
          /\ pending' = pending
        BY <1>15 DEF FlowRead
    <2>. QED
        BY <2>1, <2>2
<1>16. CASE ReadReturn
    <2>1. rd' \in {"idle", "read", "rest"} /\ reading' \in BOOLEAN
        BY <1>16 DEF ReadReturn
    <2>2. /\ use' = use /\ chunks' = chunks /\ asked' = asked
          /\ failing' = failing /\ stalled' = stalled /\ flowing' = flowing
          /\ ended' = ended /\ endEmitted' = endEmitted
          /\ constructed' = constructed /\ destroyed' = destroyed
          /\ readablePending' = readablePending /\ told' = told
          /\ listeners' = listeners /\ flow' = flow /\ rdSize' = rdSize
          /\ pending' = pending
        BY <1>16 DEF ReadReturn
    <2>. QED
        BY <2>1, <2>2
<1>17. CASE ReadRest
    <2>1. rd' = "idle" /\ rdSize' = -1 /\ endEmitted' \in BOOLEAN
        BY <1>17 DEF ReadRest, All
    <2>2. /\ use' = use /\ chunks' = chunks /\ asked' = asked
          /\ failing' = failing /\ stalled' = stalled /\ flowing' = flowing
          /\ ended' = ended /\ reading' = reading
          /\ constructed' = constructed /\ destroyed' = destroyed
          /\ readablePending' = readablePending /\ told' = told
          /\ listeners' = listeners /\ flow' = flow /\ pending' = pending
        BY <1>17 DEF ReadRest
    <2>. QED
        BY <2>1, <2>2
<1>18. CASE RunTick
    <2>1. /\ constructed' \in BOOLEAN /\ destroyed' \in BOOLEAN
          /\ pending' \subseteq {"construct", "destroy"}
        BY <1>18 DEF RunTick, Constructed, DestroyBody
    <2>2. flow' \in {"idle", "head", "data", "read"}
        BY <1>18 DEF RunTick, Constructed, EnterFlow
    <2>3. /\ endEmitted' \in BOOLEAN /\ readablePending' \in BOOLEAN
        BY <1>18 DEF RunTick, AfterReadable
    <2>4. told' \in BOOLEAN
        BY <1>18 DEF RunTick
    <2>5. /\ use' = use /\ chunks' = chunks /\ asked' = asked
          /\ failing' = failing /\ stalled' = stalled /\ flowing' = flowing
          /\ ended' = ended /\ reading' = reading /\ listeners' = listeners
          /\ rd' = rd /\ rdSize' = rdSize
        BY <1>18 DEF RunTick
    <2>. QED
        BY <2>1, <2>2, <2>3, <2>4, <2>5
<1>19. CASE UNCHANGED vars
    BY <1>19 DEF vars
<1>. QED
    BY <1>1, <1>2, <1>3, <1>4, <1>5, <1>6, <1>7, <1>8, <1>9, <1>10, <1>11,
       <1>12, <1>13, <1>14, <1>15, <1>16, <1>17, <1>18, <1>19
       DEF Next, SourceStep, UserStep, CallStep

(* ... the ticks that wait, ...                                             *)
LEMMA TickTypes ==
    ASSUME NEW q \in Seq(Kinds)
    PROVE  /\ \A k \in Kinds : Append(q, k) \in Seq(Kinds)
           /\ \A r \in Seq(Kinds) : q \o r \in Seq(Kinds)
           /\ q # <<>> => Tail(q) \in Seq(Kinds) /\ Head(q) \in Kinds
           /\ FlowAgain \in Seq(Kinds)
           /\ \A err : CloseTicks(err) \in Seq(Kinds)
           /\ {"flow", "end", "close", "readable", "error", "construct"} \subseteq Kinds
<1>1. {"flow", "end", "close", "readable", "error", "construct"} \subseteq Kinds
    BY DEF Kinds
<1>2. /\ \A k \in Kinds : Append(q, k) \in Seq(Kinds)
      /\ q # <<>> => Tail(q) \in Seq(Kinds) /\ Head(q) \in Kinds
    OBVIOUS
<1>3. \A r \in Seq(Kinds) : q \o r \in Seq(Kinds)
    OBVIOUS
<1>4. /\ <<>> \in Seq(Kinds) /\ <<"flow">> \in Seq(Kinds)
      /\ <<"close">> \in Seq(Kinds) /\ <<"error", "close">> \in Seq(Kinds)
    BY <1>1
<1>5. FlowAgain \in Seq(Kinds)
    BY <1>4, Zenon DEF FlowAgain
<1>6. \A err : CloseTicks(err) \in Seq(Kinds)
    BY <1>4, Zenon DEF CloseTicks
<1>. QED
    BY <1>1, <1>2, <1>3, <1>5, <1>6

LEMMA WaitingStep == Waiting /\ [Next]_vars => Waiting'
<1>. SUFFICES ASSUME ticks \in Seq(Kinds), [Next]_vars PROVE ticks' \in Seq(Kinds)
    BY DEF Waiting
<1>. USE DEF vars
<1>. DEFINE Good(q) == q \in Seq(Kinds)
<1>0. \A q \in Seq(Kinds) :
          /\ \A k \in Kinds : Append(q, k) \in Seq(Kinds)
          /\ \A r \in Seq(Kinds) : q \o r \in Seq(Kinds)
          /\ q # <<>> => Tail(q) \in Seq(Kinds)
    BY TickTypes
<1>a. {"flow", "end", "close", "readable", "error", "construct"} \subseteq Kinds
    BY TickTypes
<1>b. FlowAgain \in Seq(Kinds) /\ \A err : CloseTicks(err) \in Seq(Kinds)
    BY TickTypes
<1>c. ASSUME NEW q \in Seq(Kinds), NEW p, NEW err, DestroyBody(q, p, err)
      PROVE  ticks' \in Seq(Kinds)
    BY <1>c, <1>0, <1>b, Zenon DEF DestroyBody
<1>d. ASSUME NEW q \in Seq(Kinds), ScheduleReadable(q)
      PROVE  ticks' \in Seq(Kinds)
    <2>1. "readable" \in Kinds
        BY <1>a
    <2>2. ticks' = q \/ ticks' = Append(q, "readable")
        BY <1>d, Zenon DEF ScheduleReadable
    <2>. QED
        BY <2>1, <2>2, <1>0, Zenon
<1>e. ASSUME NEW q \in Seq(Kinds), NEW p, Constructed(q, p)
      PROVE  ticks' \in Seq(Kinds)
    BY <1>e, <1>c, Zenon DEF Constructed
<1>1. CASE Push
    <2>1. Append(ticks, "flow") \in Seq(Kinds)
        BY <1>0, <1>a
    <2>2. \/ ticks' = Append(ticks, "flow") \/ ScheduleReadable(ticks) \/ ticks' = ticks
        BY <1>1, Zenon DEF Push
    <2>. QED
        BY <1>d, <2>1, <2>2, Zenon
<1>2. CASE PushEnd
    <2>1. Append(ticks, "end") \in Seq(Kinds)
        BY <1>0, <1>a
    <2>2. ScheduleReadable(Append(ticks, "end")) \/ ScheduleReadable(ticks)
        BY <1>2, Zenon DEF PushEnd
    <2>. QED
        BY <1>d, <2>1, <2>2, Zenon
<1>3. CASE SourceFails
    BY <1>3, <1>c, Zenon DEF SourceFails
<1>4. CASE OnData \/ Pause \/ Resume \/ Read \/ Unshift \/ FlowData \/ ReadReturn
    BY <1>4 DEF OnData, Pause, Resume, Read, Unshift, FlowData, ReadReturn
<1>5. CASE OnReadable
    <2>1. "readable" \in Kinds
        BY <1>a
    <2>2. ticks' = ticks \/ ticks' = Append(ticks, "readable")
        BY <1>5, Zenon DEF OnReadable
    <2>. QED
        BY <1>0, <2>1, <2>2, Zenon
<1>6. CASE DestroyCall
    BY <1>6, <1>c, Zenon DEF DestroyCall
<1>7. CASE DestroyCallback
    BY <1>7, <1>0, <1>b, Zenon DEF DestroyCallback
<1>8. CASE ConstructCallback
    BY <1>8, <1>e, Zenon DEF ConstructCallback
<1>9. CASE FlowHead
    <2>1. Append(ticks, "end") \in Seq(Kinds)
        BY <1>0, <1>a
    <2>2. \/ ticks' = ticks \/ ticks' = Append(ticks, "end") \/ ticks' = ticks \o FlowAgain
        BY <1>9, Zenon DEF FlowHead
    <2>. QED
        BY <1>0, <1>b, <2>1, <2>2, Zenon
<1>10. CASE FlowRead
    BY <1>10, <1>0, <1>b, Zenon DEF FlowRead
<1>11. CASE ReadRest
    <2>1. Append(ticks, "close") \in Seq(Kinds)
        BY <1>0, <1>a
    <2>2. \/ ticks' = ticks \/ ticks' = Append(ticks, "close")
        BY <1>11, Zenon DEF ReadRest
    <2>. QED
        BY <2>1, <2>2
<1>12. CASE RunTick
    <2>1. Tail(ticks) \in Seq(Kinds)
        BY <1>0, <1>12, Zenon DEF RunTick
    <2>2. Append(Tail(ticks), "close") \in Seq(Kinds)
        BY <1>0, <1>a, <2>1
    <2>3. \/ Constructed(Tail(ticks), pending) \/ ticks' = Tail(ticks)
          \/ ticks' = Append(Tail(ticks), "close")
        BY <1>12, Zenon DEF RunTick
    <2>. QED
        BY <1>e, <2>1, <2>2, <2>3, Zenon
<1>. QED
    BY <1>1, <1>2, <1>3, <1>4, <1>5, <1>6, <1>7, <1>8, <1>9, <1>10, <1>11, <1>12
       DEF Next, SourceStep, UserStep, CallStep

-----------------------------------------------------------------------------
(* ... and the bytes.  A step that hands none over, and pushes none.        *)
LEMMA ContentKept ==
    ASSUME Content, UNCHANGED <<produced, buffer, length, got>>,
           endAt' = endAt \/ endAt' = Len(got)
    PROVE  Content'
<1>1. Conservation'
    BY DEF Content, Conservation, Bytes
<1>2. endAt' \in -1..produced
    <2>1. /\ got \in Seq(Nat) /\ Bytes(buffer) \in Seq(Nat) /\ produced \in Nat
          /\ got \o Bytes(buffer) = Numbers(0, produced)
          /\ Len(Numbers(0, produced)) = produced /\ endAt \in -1..produced
        BY FlattenType, NumbersType DEF Content, Conservation, Bytes
    <2>2. Len(got) + Len(Bytes(buffer)) = produced
        BY <2>1, ConcatProperties
    <2>3. Len(got) \in 0..produced
        BY <2>1, <2>2
    <2>. QED
        BY <2>1, <2>3
<1>. QED
    BY <1>1, <1>2 DEF Content

(* A step that hands over what it takes off the front of the buffer.        *)
LEMMA ContentTaken ==
    ASSUME Content, produced' = produced,
           NEW x \in Seq(Nat), NEW rest \in Seq(Seq(Nat)),
           x \o Bytes(rest) = Bytes(buffer),
           buffer' = rest, got' = got \o x, length' = length - Len(x),
           endAt' = endAt \/ endAt' = Len(got)
    PROVE  Content'
<1>1. /\ Bytes(rest) \in Seq(Nat) /\ got \in Seq(Nat) /\ produced \in Nat
      /\ Bytes(buffer) \in Seq(Nat) /\ endAt \in -1..produced
      /\ got \o Bytes(buffer) = Numbers(0, produced) /\ length = Len(Bytes(buffer))
      /\ Len(Numbers(0, produced)) = produced
    BY FlattenType, NumbersType DEF Content, Conservation, Bytes
<1>2. (got \o x) \o Bytes(rest) = got \o (x \o Bytes(rest))
    BY <1>1, AssocNat, Zenon
<1>3. got' \o Bytes(rest) = Numbers(0, produced)
    BY <1>1, <1>2, Zenon
<1>4. Len(Bytes(buffer)) = Len(x) + Len(Bytes(rest))
    BY <1>1, ConcatProperties
<1>5. length' = Len(Bytes(rest)) /\ length' \in Nat
    BY <1>1, <1>4
<1>6. Conservation'
    BY <1>3, <1>5 DEF Conservation, Bytes
<1>7. got' \in Seq(Nat)
    BY <1>1, ConcatProperties
<1>8. Len(got) + Len(Bytes(buffer)) = produced
    BY <1>1, ConcatProperties
<1>9. endAt' \in -1..produced
    BY <1>1, <1>8
<1>. QED
    BY <1>1, <1>5, <1>6, <1>7, <1>9 DEF Content

LEMMA ContentStep == ByteInv /\ [Next]_vars => Content'
<1>. SUFFICES ASSUME ByteInv, [Next]_vars PROVE Content'
    OBVIOUS
<1>. USE DEF sourceVars, bufferVars, stateVars, readVars, readableVars, handedVars
<1>0. /\ Content /\ buffer \in Seq(Seq(Nat)) /\ got \in Seq(Nat) /\ produced \in Nat
      /\ length \in Nat /\ endAt \in -1..produced /\ rdSize \in -1..2 /\ use \in Uses
      /\ Bytes(buffer) \in Seq(Nat) /\ length = Len(Bytes(buffer))
      /\ got \o Bytes(buffer) = Numbers(0, produced)
    BY FlattenType DEF ByteInv, Content, Control, Conservation, Bytes
<1>1. CASE Push
    <2>1. PICK k \in use.sizes :
              /\ buffer' = Append(buffer, Numbers(produced, k))
              /\ length' = length + Len(Numbers(produced, k))
              /\ produced' = produced + k
        BY <1>1 DEF Push, PushBuffer, Size
    <2>2. got' = got /\ endAt' = endAt
        BY <1>1 DEF Push
    <2>3. k \in Nat
        BY <1>0, UseAssumption
    <2>. DEFINE c == Numbers(produced, k)
    <2>4. /\ c \in Seq(Nat) /\ Len(c) = k
        BY <1>0, <2>3, NumbersType
    <2>5. Numbers(0, produced) \o c = Numbers(0, produced + k)
        BY <1>0, <2>3, NumbersCat
    <2>. HIDE DEF c
    <2>6. /\ buffer' = Append(buffer, c) /\ length' = length + Len(c)
        BY <2>1 DEF c
    <2>7. Bytes(buffer') = Bytes(buffer) \o c
        BY <1>0, <2>4, <2>6, FlattenAppend DEF Bytes
    <2>8. (got \o Bytes(buffer)) \o c = got \o (Bytes(buffer) \o c)
        <3>1. /\ got \in Seq(Nat) /\ c \in Seq(Nat) /\ Bytes(buffer) \in Seq(Nat)
            BY <1>0, <2>4
        <3>. QED
            BY <3>1, AssocNat, Zenon
    <2>9. got' \o Bytes(buffer') = Numbers(0, produced')
        BY <1>0, <2>1, <2>2, <2>5, <2>7, <2>8, Zenon
    <2>10. Len(Bytes(buffer')) = Len(Bytes(buffer)) + Len(c)
        BY <1>0, <2>4, <2>7, ConcatProperties
    <2>11. length' = Len(Bytes(buffer')) /\ length' \in Nat
        BY <1>0, <2>4, <2>6, <2>10
    <2>12. Conservation'
        BY <2>9, <2>11 DEF Conservation, Bytes
    <2>13. buffer' \in Seq(Seq(Nat))
        BY <1>0, <2>4, <2>6, AppendProperties
    <2>14. produced' \in Nat /\ endAt' \in -1..produced'
        BY <1>0, <2>1, <2>2, <2>3
    <2>. QED
        BY <1>0, <2>2, <2>11, <2>12, <2>13, <2>14 DEF Content
<1>2. CASE FlowHead /\ LoopOn
    <2>1. buffer # <<>> /\ produced' = produced /\ endAt' = endAt
        BY <1>2 DEF FlowHead, LoopOn
    <2>2. /\ buffer' = Tail(buffer) /\ got' = got \o Head(buffer)
          /\ length' = length - Len(Head(buffer))
        BY <1>2 DEF FlowHead
    <2>3. Head(buffer) \in Seq(Nat) /\ Tail(buffer) \in Seq(Seq(Nat))
        BY <1>0, <2>1, HeadTailProperties
    <2>4. Head(buffer) \o Bytes(Tail(buffer)) = Bytes(buffer)
        BY <1>0, <2>1, FlattenHead DEF Bytes
    <2>. QED
        BY <1>0, <2>1, <2>2, <2>3, <2>4, ContentTaken
<1>3. CASE ReadRest /\ ~ReadsNull(rdSize)
    <2>1. buffer # <<>> /\ rdSize # 0 /\ produced' = produced
        BY <1>3 DEF ReadRest, ReadsNull
    <2>2. /\ Taken(rdSize) \in Seq(Nat) /\ Left(rdSize) \in Seq(Seq(Nat))
          /\ Taken(rdSize) \o Bytes(Left(rdSize)) = Bytes(buffer)
        BY <1>0, <2>1, ReadTakes
    <2>3. /\ buffer' = Left(rdSize) /\ got' = got \o Taken(rdSize)
          /\ length' = IF rdSize = All /\ ~use.objects THEN 0
                       ELSE length - Len(Taken(rdSize))
          /\ (endAt' = endAt \/ endAt' = Len(got))
        BY <1>3, Zenon DEF ReadRest
    <2>4. ASSUME rdSize = All, ~use.objects PROVE length - Len(Taken(rdSize)) = 0
        <3>1. Taken(rdSize) = Bytes(buffer)
            BY <2>4, Zenon DEF Taken
        <3>. QED
            BY <1>0, <3>1
    <2>5. length' = length - Len(Taken(rdSize))
        BY <2>3, <2>4, Zenon
    <2>. QED
        BY <1>0, <2>1, <2>2, <2>3, <2>5, ContentTaken
<1>4. CASE Unshift
    <2>1. PICK k \in 1..(IF use.objects THEN 1 ELSE 2) :
              /\ k <= Len(got)
              /\ buffer' = <<SubSeq(got, Len(got) - k + 1, Len(got))>> \o buffer
              /\ length' = length + Len(Head(buffer'))
              /\ got' = SubSeq(got, 1, Len(got) - k)
        BY <1>4, Zenon DEF Unshift, Size
    <2>2. produced' = produced /\ endAt' = endAt
        BY <1>4 DEF Unshift
    <2>. DEFINE m == Len(got) - k
                a == SubSeq(got, 1, m)  b == SubSeq(got, m + 1, Len(got))
    <2>3. m \in 0..Len(got)
        BY <1>0, <2>1
    <2>4. a \in Seq(Nat) /\ b \in Seq(Nat) /\ a \o b = got
        BY <1>0, <2>3, SplitAt
    <2>5. buffer' = <<b>> \o buffer /\ got' = a /\ length' = length + Len(Head(buffer'))
        BY <2>1
    <2>. HIDE DEF a, b, m
    <2>6. /\ buffer' \in Seq(Seq(Nat)) /\ Head(buffer') = b
          /\ Bytes(buffer') = b \o Bytes(buffer)
        BY <1>0, <2>4, <2>5, BytesCons
    <2>7. (a \o b) \o Bytes(buffer) = a \o (b \o Bytes(buffer))
        <3>1. /\ a \in Seq(Nat) /\ b \in Seq(Nat) /\ Bytes(buffer) \in Seq(Nat)
            BY <1>0, <2>4
        <3>. QED
            BY <3>1, AssocNat, Zenon
    <2>8. got' \o Bytes(buffer') = Numbers(0, produced')
        BY <1>0, <2>2, <2>4, <2>5, <2>6, <2>7, Zenon
    <2>9. Len(Bytes(buffer')) = Len(b) + Len(Bytes(buffer))
        BY <1>0, <2>4, <2>6, ConcatProperties
    <2>10. length' = Len(Bytes(buffer')) /\ length' \in Nat
        BY <1>0, <2>4, <2>5, <2>6, <2>9
    <2>11. Conservation'
        BY <2>8, <2>10 DEF Conservation, Bytes
    <2>. QED
        BY <1>0, <2>2, <2>4, <2>5, <2>6, <2>10, <2>11 DEF Content
<1>5. CASE \/ (FlowHead /\ ~LoopOn) \/ (ReadRest /\ ReadsNull(rdSize))
           \/ PushEnd \/ SourceFails \/ OnData \/ OnReadable \/ Pause \/ Resume \/ Read
           \/ DestroyCall \/ DestroyCallback \/ ConstructCallback
           \/ FlowData \/ FlowRead \/ ReadReturn \/ RunTick \/ UNCHANGED vars
    <2>1. /\ UNCHANGED <<produced, buffer, length, got>>
          /\ (endAt' = endAt \/ endAt' = Len(got))
        <3>1. CASE FlowHead /\ ~LoopOn
            BY <3>1 DEF FlowHead
        <3>2. CASE ReadRest /\ ReadsNull(rdSize)
            BY <3>2 DEF ReadRest
        <3>3. CASE PushEnd
            BY <3>3 DEF PushEnd
        <3>4. CASE SourceFails
            BY <3>4 DEF SourceFails
        <3>5. CASE OnData
            BY <3>5 DEF OnData
        <3>6. CASE OnReadable
            BY <3>6 DEF OnReadable
        <3>7. CASE Pause
            BY <3>7 DEF Pause
        <3>8. CASE Resume
            BY <3>8 DEF Resume
        <3>9. CASE Read
            BY <3>9 DEF Read
        <3>10. CASE DestroyCall
            BY <3>10 DEF DestroyCall
        <3>11. CASE DestroyCallback
            BY <3>11 DEF DestroyCallback
        <3>12. CASE ConstructCallback
            BY <3>12 DEF ConstructCallback
        <3>13. CASE FlowData
            BY <3>13 DEF FlowData
        <3>14. CASE FlowRead
            BY <3>14 DEF FlowRead
        <3>15. CASE ReadReturn
            BY <3>15 DEF ReadReturn
        <3>16. CASE UNCHANGED vars
            BY <3>16 DEF vars
        <3>17. CASE RunTick
            <4>1. UNCHANGED <<produced, buffer, length, got>>
                BY <3>17 DEF RunTick
            <4>2. endAt' = endAt \/ endAt' = Len(got)
                BY <3>17, Zenon DEF RunTick
            <4>. QED
                BY <4>1, <4>2
        <3>. QED
            BY <1>5, <3>1, <3>2, <3>3, <3>4, <3>5, <3>6, <3>7, <3>8, <3>9, <3>10, <3>11, <3>12, <3>13, <3>14, <3>15, <3>16, <3>17
    <2>. QED
        BY <1>0, <2>1, ContentKept
<1>6. \/ Push \/ PushEnd \/ SourceFails \/ OnData \/ OnReadable \/ Pause \/ Resume
      \/ Read \/ Unshift \/ DestroyCall \/ DestroyCallback \/ ConstructCallback
      \/ FlowHead \/ FlowData \/ FlowRead \/ ReadReturn \/ ReadRest \/ RunTick
      \/ UNCHANGED vars
    BY Zenon DEF Next, SourceStep, UserStep, CallStep
<1>. QED
    BY <1>1, <1>2, <1>3, <1>4, <1>5, <1>6

LEMMA BytesKept == Spec => []ByteInv
<1>1. ByteInv /\ [Next]_vars => ByteInv'
    <2>. SUFFICES ASSUME ByteInv, [Next]_vars PROVE ByteInv'
        OBVIOUS
    <2>1. Control'
        BY ControlStep DEF ByteInv, Waiting
    <2>2. Waiting' /\ Content'
        BY WaitingStep, ContentStep DEF ByteInv
    <2>. QED
        BY <2>1, <2>2 DEF ByteInv
<1>. QED
    BY <1>1, ByteInit, PTL DEF Spec

(* Every variable of the stream has its type, in every state.               *)
THEOREM TypeCorrect == Spec => []TypeOK
BY BytesKept, ByteInvIs, PTL

(* Flowing, paused and explicit reads, whole, split or joined, and unshift  *)
(* hand over and hold the bytes that were pushed, in order, and             *)
(* readableLength is what is held: _readBytes and _flow lose nothing.       *)
THEOREM NothingLost == Spec => []Conservation
BY BytesKept, ByteInvIs, PTL

-----------------------------------------------------------------------------
(* Which ticks wait, and how often.                                         *)
Once(q, k) == \A i, j \in 1..Len(q) : q[i] = k /\ q[j] = k => i = j

LEMMA TickSets ==
    ASSUME NEW q \in Seq(Kinds)
    PROVE  /\ \A k \in Kinds : ToSet(Append(q, k)) = ToSet(q) \cup {k}
           /\ \A r \in Seq(Kinds) : ToSet(q \o r) = ToSet(q) \cup ToSet(r)
           /\ q # <<>> => ToSet(q) = {Head(q)} \cup ToSet(Tail(q))
           /\ ToSet(FlowAgain) \subseteq {"flow"}
           /\ \A err : ToSet(CloseTicks(err)) \subseteq {"error", "close"}
<1>1. ToSet(<<>>) = {} /\ ToSet(<<"flow">>) \subseteq {"flow"}
      /\ ToSet(<<"close">>) \subseteq {"error", "close"}
      /\ ToSet(<<"error", "close">>) \subseteq {"error", "close"}
    BY DEF ToSet
<1>2. ToSet(FlowAgain) \subseteq {"flow"}
    <2>1. FlowAgain = <<>> \/ FlowAgain = <<"flow">>
        BY Zenon DEF FlowAgain
    <2>. QED
        BY <1>1, <2>1
<1>3. ASSUME NEW err PROVE ToSet(CloseTicks(err)) \subseteq {"error", "close"}
    <2>1. CloseTicks(err) = <<"close">> \/ CloseTicks(err) = <<"error", "close">>
        BY Zenon DEF CloseTicks
    <2>. QED
        BY <1>1, <2>1, Zenon
<1>4. \A k \in Kinds : ToSet(Append(q, k)) = ToSet(q) \cup {k}
    BY AppendSet
<1>5. \A r \in Seq(Kinds) : ToSet(q \o r) = ToSet(q) \cup ToSet(r)
    BY CatSet
<1>6. q # <<>> => ToSet(q) = {Head(q)} \cup ToSet(Tail(q))
    BY TailSet
<1>. QED
    BY <1>2, <1>3, <1>4, <1>5, <1>6

(* What a step may do to the ticks: DestroyBody and Constructed.            *)
LEMMA DestroyTicks ==
    ASSUME NEW q \in Seq(Kinds), NEW p, NEW err, DestroyBody(q, p, err)
    PROVE  ToSet(ticks') \subseteq ToSet(q) \cup {"error", "close"}
<1>1. CloseTicks(err) \in Seq(Kinds)
    BY TickTypes
<1>2. ticks' = q \/ ticks' = q \o CloseTicks(err)
    BY Zenon DEF DestroyBody
<1>3. ToSet(q \o CloseTicks(err)) = ToSet(q) \cup ToSet(CloseTicks(err))
    BY <1>1, TickSets
<1>4. ToSet(CloseTicks(err)) \subseteq {"error", "close"}
    BY TickSets
<1>. QED
    BY <1>2, <1>3, <1>4, Zenon

LEMMA ConstructedTicks ==
    ASSUME NEW q \in Seq(Kinds), NEW p, Constructed(q, p)
    PROVE  ToSet(ticks') \subseteq ToSet(q) \cup {"error", "close"}
<1>1. ticks' = q \/ DestroyBody(q, p, TRUE)
    BY Zenon DEF Constructed
<1>. QED
    BY <1>1, DestroyTicks

LEMMA ScheduledTicks ==
    ASSUME NEW q \in Seq(Kinds), ScheduleReadable(q)
    PROVE  ToSet(ticks') \subseteq ToSet(q) \cup {"readable"}
<1>1. "readable" \in Kinds
    BY DEF Kinds
<1>2. ticks' = q \/ ticks' = Append(q, "readable")
    BY Zenon DEF ScheduleReadable
<1>3. ToSet(Append(q, "readable")) = ToSet(q) \cup {"readable"}
    BY <1>1, TickSets
<1>. QED
    BY <1>2, <1>3, Zenon

-----------------------------------------------------------------------------
(* For a consumer of events: read() is never called, an 'end' that waits or *)
(* was emitted follows push(null) and the last chunk.                       *)
EndInv ==
    Listening =>
        /\ rd = "idle"
        /\ "end" \in ToSet(ticks) => ended /\ buffer = <<>>
        /\ endAt # -1 => ended /\ buffer = <<>> /\ endAt = Len(got)

LEMMA EndInit == Init => EndInv
<1>. SUFFICES ASSUME Init PROVE EndInv
    OBVIOUS
<1>1. ticks = <<"construct">> \/ ticks = <<>>
    BY Zenon DEF Init
<1>2. "end" \notin ToSet(ticks)
    BY <1>1 DEF ToSet
<1>3. rd = "idle" /\ endAt = -1
    BY DEF Init
<1>. QED
    BY <1>2, <1>3 DEF EndInv

LEMMA EndKept ==
    ASSUME EndInv, Listening, rd' = rd, "end" \in ToSet(ticks') => "end" \in ToSet(ticks),
           ended' = ended, UNCHANGED <<buffer, got, endAt>>
    PROVE  EndInv'
BY DEF EndInv

LEMMA UseKept == [Next]_vars => use' = use
<1>1. ASSUME SourceStep PROVE use' = use
    BY <1>1 DEF SourceStep, Push, PushEnd, SourceFails
<1>2. ASSUME OnData \/ OnReadable \/ Pause \/ Resume \/ Read PROVE use' = use
    BY <1>2 DEF OnData, OnReadable, Pause, Resume, Read
<1>3. ASSUME Unshift \/ DestroyCall \/ DestroyCallback \/ ConstructCallback
      PROVE  use' = use
    BY <1>3 DEF Unshift, DestroyCall, DestroyCallback, ConstructCallback
<1>4. ASSUME CallStep PROVE use' = use
    BY <1>4 DEF CallStep, FlowHead, FlowData, FlowRead, ReadReturn, ReadRest
<1>5. ASSUME RunTick PROVE use' = use
    BY <1>5 DEF RunTick
<1>6. ASSUME UNCHANGED vars PROVE use' = use
    BY <1>6 DEF vars
<1>. QED
    BY <1>1, <1>2, <1>3, <1>4, <1>5, <1>6 DEF Next, UserStep

LEMMA EndStep == ByteInv /\ EndInv /\ [Next]_vars => EndInv'
<1>. SUFFICES ASSUME ByteInv, EndInv, [Next]_vars PROVE EndInv'
    OBVIOUS
<1>. SUFFICES ASSUME Listening PROVE EndInv'
    <2>1. use' = use
        BY UseKept
    <2>2. Listening' => Listening
        BY <2>1 DEF Listening, Consumer
    <2>. QED
        BY <2>2 DEF EndInv
<1>. USE DEF sourceVars, bufferVars, stateVars, readVars, readableVars, handedVars
<1>0. /\ rd = "idle"
      /\ "end" \in ToSet(ticks) => ended /\ buffer = <<>>
      /\ endAt # -1 => ended /\ buffer = <<>> /\ endAt = Len(got)
      /\ ticks \in Seq(Kinds) /\ Consumer \subseteq {"data", "readable"} /\ ~use.unshifts
    BY DEF EndInv, Listening, ByteInv, Waiting
<1>a. {"flow", "end", "close", "readable", "error", "construct"} \subseteq Kinds
    BY DEF Kinds
<1>b. FlowAgain \in Seq(Kinds) /\ \A err : CloseTicks(err) \in Seq(Kinds)
    BY <1>0, TickTypes
<1>c. /\ ToSet(Append(ticks, "flow")) = ToSet(ticks) \cup {"flow"}
      /\ ToSet(Append(ticks, "readable")) = ToSet(ticks) \cup {"readable"}
      /\ ToSet(ticks \o FlowAgain) \subseteq ToSet(ticks) \cup {"flow"}
    <2>1. ToSet(ticks \o FlowAgain) = ToSet(ticks) \cup ToSet(FlowAgain)
        BY <1>0, <1>b, TickSets
    <2>2. ToSet(FlowAgain) \subseteq {"flow"}
        BY <1>0, TickSets
    <2>3. \A k \in Kinds : ToSet(Append(ticks, k)) = ToSet(ticks) \cup {k}
        BY <1>0, TickSets
    <2>. QED
        BY <1>a, <2>1, <2>2, <2>3
<1>1. CASE Push
    <2>1. /\ ~ended /\ rd' = rd /\ endAt' = endAt
        BY <1>1 DEF Push
    <2>2. \/ ticks' = Append(ticks, "flow") \/ ScheduleReadable(ticks) \/ ticks' = ticks
        BY <1>1, Zenon DEF Push
    <2>3. "end" \in ToSet(ticks') => "end" \in ToSet(ticks)
        <3>1. ToSet(ticks') \subseteq ToSet(ticks) \cup {"flow", "readable"}
            BY <1>0, <1>c, <2>2, ScheduledTicks, Zenon
        <3>. QED
            BY <3>1
    <2>. QED
        BY <1>0, <2>1, <2>3 DEF EndInv
<1>2. CASE PushEnd
    <2>1. /\ ~ended /\ rd' = rd /\ endAt' = endAt /\ ended' /\ buffer' = buffer
        BY <1>2 DEF PushEnd
    <2>2. Append(ticks, "end") \in Seq(Kinds)
        BY <1>0, <1>a, TickTypes
    <2>3. \/ buffer = <<>> \/ ScheduleReadable(ticks)
        BY <1>2, Zenon DEF PushEnd
    <2>4. "end" \in ToSet(ticks') => buffer = <<>> \/ "end" \in ToSet(ticks)
        BY <1>0, <2>3, ScheduledTicks
    <2>. QED
        BY <1>0, <2>1, <2>4 DEF EndInv
<1>3. CASE SourceFails
    <2>1. UNCHANGED <<rd, ended, buffer, got, endAt>>
        BY <1>3 DEF SourceFails
    <2>2. ticks' = ticks \/ DestroyBody(ticks, pending, TRUE)
        BY <1>3, Zenon DEF SourceFails
    <2>3. "end" \in ToSet(ticks') => "end" \in ToSet(ticks)
        BY <1>0, <2>2, DestroyTicks
    <2>. QED
        BY <2>1, <2>3, EndKept
<1>4. CASE OnData \/ Pause \/ Resume \/ FlowData
    <2>1. UNCHANGED <<rd, ended, buffer, got, endAt, ticks>>
        BY <1>4 DEF OnData, Pause, Resume, FlowData
    <2>. QED
        BY <2>1, EndKept
<1>5. CASE OnReadable
    <2>1. UNCHANGED <<rd, ended, buffer, got, endAt>>
        BY <1>5 DEF OnReadable
    <2>2. ticks' = ticks \/ ticks' = Append(ticks, "readable")
        BY <1>5, Zenon DEF OnReadable
    <2>3. "end" \in ToSet(ticks') => "end" \in ToSet(ticks)
        <3>1. ToSet(ticks') \subseteq ToSet(ticks) \cup {"flow", "readable"}
            BY <1>c, <2>2, Zenon
        <3>. QED
            BY <3>1
    <2>. QED
        BY <2>1, <2>3, EndKept
<1>6. CASE Read
    BY <1>0, <1>6 DEF Read, Sizes
<1>7. CASE ReadReturn \/ ReadRest \/ Unshift
    BY <1>0, <1>7 DEF ReadReturn, ReadRest, Unshift
<1>8. CASE DestroyCall
    <2>1. UNCHANGED <<rd, ended, buffer, got, endAt>>
        BY <1>8 DEF DestroyCall
    <2>2. \E err \in BOOLEAN : DestroyBody(ticks, pending, err)
        BY <1>8, Zenon DEF DestroyCall
    <2>3. "end" \in ToSet(ticks') => "end" \in ToSet(ticks)
        BY <1>0, <2>2, DestroyTicks
    <2>. QED
        BY <2>1, <2>3, EndKept
<1>9. CASE DestroyCallback
    <2>1. UNCHANGED <<rd, ended, buffer, got, endAt>>
        BY <1>9 DEF DestroyCallback
    <2>2. \E err \in BOOLEAN : ticks' = ticks \o CloseTicks(err)
        BY <1>9, Zenon DEF DestroyCallback
    <2>3. "end" \in ToSet(ticks') => "end" \in ToSet(ticks)
        BY <1>0, <1>b, <2>2, TickSets
    <2>. QED
        BY <2>1, <2>3, EndKept
<1>10. CASE ConstructCallback
    <2>1. UNCHANGED <<rd, ended, buffer, got, endAt>>
        BY <1>10 DEF ConstructCallback
    <2>2. Constructed(ticks, pending \ {"construct"})
        BY <1>10 DEF ConstructCallback
    <2>3. "end" \in ToSet(ticks') => "end" \in ToSet(ticks)
        BY <1>0, <2>2, ConstructedTicks
    <2>. QED
        BY <2>1, <2>3, EndKept
<1>11. CASE FlowHead
    <2>1. UNCHANGED <<rd, ended, endAt>>
        BY <1>11 DEF FlowHead
    <2>2. \/ LoopOn /\ ticks' = ticks
          \/ /\ ticks' = ticks \/ ticks' = ticks \o FlowAgain
             /\ UNCHANGED <<buffer, got>>
          \/ EndDue /\ ticks' = Append(ticks, "end") /\ UNCHANGED <<buffer, got>>
        BY <1>11 DEF FlowHead
    <2>3. CASE LoopOn /\ ticks' = ticks
        BY <1>0, <2>1, <2>3 DEF EndInv, LoopOn
    <2>4. CASE /\ ticks' = ticks \/ ticks' = ticks \o FlowAgain
               /\ UNCHANGED <<buffer, got>>
        <3>1. "end" \in ToSet(ticks') => "end" \in ToSet(ticks)
            <4>1. ToSet(ticks') \subseteq ToSet(ticks) \cup {"flow", "readable"}
                BY <1>c, <2>4, Zenon
            <4>. QED
                BY <4>1
        <3>. QED
            BY <2>1, <2>4, <3>1, EndKept
    <2>5. CASE EndDue /\ ticks' = Append(ticks, "end") /\ UNCHANGED <<buffer, got>>
        BY <1>0, <2>1, <2>5 DEF EndInv, EndDue
    <2>. QED
        BY <2>2, <2>3, <2>4, <2>5
<1>12. CASE FlowRead
    <2>1. UNCHANGED <<rd, ended, buffer, got, endAt>>
        BY <1>12 DEF FlowRead
    <2>2. ticks' = ticks \o FlowAgain
        BY <1>12 DEF FlowRead
    <2>3. "end" \in ToSet(ticks') => "end" \in ToSet(ticks)
        BY <1>0, <1>b, <2>2, TickSets
    <2>. QED
        BY <2>1, <2>3, EndKept
<1>13. CASE RunTick
    <2>1. UNCHANGED <<rd, ended, buffer, got>> /\ ticks # <<>>
        BY <1>13 DEF RunTick
    <2>2. Tail(ticks) \in Seq(Kinds) /\ Head(ticks) \in ToSet(ticks)
          /\ ToSet(Tail(ticks)) \subseteq ToSet(ticks)
        BY <1>0, <2>1, TickTypes, TickSets
    <2>3. \/ Constructed(Tail(ticks), pending) /\ endAt' = endAt
          \/ ticks' = Tail(ticks) /\ endAt' = endAt
          \/ /\ Head(ticks) = "end" /\ endAt' = Len(got)
             /\ ticks' = Append(Tail(ticks), "close")
        BY <1>13, Zenon DEF RunTick
    <2>4. "end" \in ToSet(ticks') => "end" \in ToSet(ticks)
        BY <1>a, <2>2, <2>3, ConstructedTicks, TickSets
    <2>5. endAt' # -1 => ended /\ buffer = <<>> /\ endAt' = Len(got)
        BY <1>0, <2>2, <2>3
    <2>. QED
        BY <1>0, <2>1, <2>4, <2>5 DEF EndInv
<1>14. CASE UNCHANGED vars
    BY <1>14, EndKept DEF vars
<1>. QED
    BY <1>1, <1>2, <1>3, <1>4, <1>5, <1>6, <1>7, <1>8, <1>9, <1>10, <1>11, <1>12,
       <1>13, <1>14 DEF Next, SourceStep, UserStep, CallStep

LEMMA EndIs == ByteInv /\ EndInv => EndLast
<1>. SUFFICES ASSUME ByteInv, EndInv, Listening, endAt # -1 PROVE endAt = produced
    BY DEF EndLast
<1>1. /\ buffer = <<>> /\ endAt = Len(got) /\ got \in Seq(Nat) /\ produced \in Nat
      /\ got \o Bytes(buffer) = Numbers(0, produced)
    BY DEF EndInv, ByteInv, Content, Conservation
<1>2. got \o <<>> = got /\ Bytes(buffer) = <<>>
    BY <1>1, ConcatEmptySeq, FlattenEmpty DEF Bytes
<1>3. got = Numbers(0, produced)
    BY <1>1, <1>2
<1>4. Len(got) = produced
    BY <1>1, <1>3, NumbersType
<1>. QED
    BY <1>1, <1>4

(* 'end' is emitted after the last chunk of what was pushed, although it    *)
(* is scheduled by push(null) and by _flow, and may find the stream paused, *)
(* destroyed or not yet constructed.                                        *)
THEOREM EndComesLast == Spec => []EndLast
<1>1. Spec => []EndInv
    BY EndInit, EndStep, BytesKept, PTL DEF Spec
<1>. QED
    BY <1>1, BytesKept, EndIs, PTL

-----------------------------------------------------------------------------
(* A source that reads a Gio stream.  Calm(q, t): t has no 'flow' tick and  *)
(* no 'construct' tick that q has not.                                      *)
Calm(q, t) ==
    /\ t \in Seq(Kinds)
    /\ \A k \in {"flow", "construct"} :
          /\ k \in ToSet(t) => k \in ToSet(q)
          /\ Once(q, k) => Once(t, k)

LEMMA OnceAppend ==
    ASSUME NEW q \in Seq(Kinds), NEW k, Once(q, k), NEW e \in Kinds,
           e # k \/ k \notin ToSet(q)
    PROVE  Once(Append(q, e), k)
<1>. DEFINE t == Append(q, e)
<1>1. /\ Len(q) \in Nat /\ Len(t) = Len(q) + 1
      /\ \A i \in 1..Len(q) : t[i] = q[i] /\ q[i] \in ToSet(q)
      /\ t[Len(q) + 1] = e
    BY DEF ToSet
<1>. HIDE DEF t
<1>. SUFFICES ASSUME NEW i \in 1..Len(t), NEW j \in 1..Len(t), t[i] = k, t[j] = k
              PROVE  i = j
    BY DEF Once, t
<1>2. CASE i \in 1..Len(q) /\ j \in 1..Len(q)
    BY <1>1, <1>2 DEF Once
<1>3. CASE i = Len(q) + 1 \/ j = Len(q) + 1
    <2>1. e = k
        BY <1>1, <1>3
    <2>2. i \notin 1..Len(q) /\ j \notin 1..Len(q)
        BY <1>1, <2>1
    <2>. QED
        BY <1>1, <2>2
<1>. QED
    BY <1>1, <1>2, <1>3

LEMMA OnceCat ==
    ASSUME NEW q \in Seq(Kinds), NEW k, Once(q, k), NEW r \in Seq(Kinds),
           k \notin ToSet(r)
    PROVE  Once(q \o r, k)
<1>. DEFINE t == q \o r
<1>1. /\ Len(q) \in Nat /\ Len(r) \in Nat /\ Len(t) = Len(q) + Len(r)
      /\ \A i \in 1..Len(t) : t[i] = IF i <= Len(q) THEN q[i] ELSE r[i - Len(q)]
    BY ConcatProperties
<1>2. \A i \in 1..Len(r) : r[i] # k
    BY DEF ToSet
<1>. HIDE DEF t
<1>. SUFFICES ASSUME NEW i \in 1..Len(t), NEW j \in 1..Len(t), t[i] = k, t[j] = k
              PROVE  i = j
    BY DEF Once, t
<1>3. ASSUME NEW n \in 1..Len(t), t[n] = k PROVE n \in 1..Len(q) /\ q[n] = k
    <2>1. ASSUME ~(n <= Len(q)) PROVE FALSE
        <3>1. n - Len(q) \in 1..Len(r)
            BY <1>1, <2>1
        <3>2. t[n] = r[n - Len(q)]
            BY <1>1, <2>1
        <3>. QED
            BY <1>2, <1>3, <3>1, <3>2
    <2>. QED
        BY <1>1, <1>3, <2>1
<1>. QED
    BY <1>3 DEF Once

LEMMA OnceTail ==
    ASSUME NEW q \in Seq(Kinds), NEW k, Once(q, k), q # <<>>
    PROVE  Once(Tail(q), k) /\ (Head(q) = k => k \notin ToSet(Tail(q)))
<1>. DEFINE t == Tail(q)
<1>1. /\ Len(q) \in Nat \ {0} /\ Len(t) = Len(q) - 1 /\ DOMAIN t = 1..Len(t)
      /\ \A i \in 1..Len(t) : t[i] = q[i + 1]
      /\ Head(q) = q[1]
    BY HeadTailProperties
<1>2. ToSet(t) = {t[i] : i \in 1..Len(t)}
    BY <1>1 DEF ToSet
<1>. HIDE DEF t
<1>3. \A i \in 1..Len(t) : i + 1 \in 1..Len(q) /\ i + 1 # 1
    BY <1>1
<1>4. Once(t, k)
    <2>. SUFFICES ASSUME NEW i \in 1..Len(t), NEW j \in 1..Len(t), t[i] = k, t[j] = k
                  PROVE  i = j
        BY DEF Once
    <2>1. i + 1 = j + 1
        BY <1>1, <1>3 DEF Once
    <2>. QED
        BY <2>1
<1>5. ASSUME Head(q) = k, k \in ToSet(t) PROVE FALSE
    <2>1. PICK i \in 1..Len(t) : t[i] = k
        BY <1>2, <1>5
    <2>2. 1 \in 1..Len(q) /\ q[1] = k /\ q[i + 1] = k
        BY <1>1, <1>5, <2>1
    <2>. QED
        BY <1>3, <2>2 DEF Once
<1>. QED
    BY <1>4, <1>5 DEF t

LEMMA CalmSteps ==
    ASSUME NEW q \in Seq(Kinds)
    PROVE  /\ Calm(q, q)
           /\ \A k \in {"end", "close", "readable"} : Calm(q, Append(q, k))
           /\ \A err : Calm(q, q \o CloseTicks(err))
           /\ q # <<>> => Calm(q, Tail(q))
<1>1. Calm(q, q)
    BY DEF Calm
<1>2. ASSUME NEW k \in {"end", "close", "readable"} PROVE Calm(q, Append(q, k))
    <2>1. k \in Kinds /\ k # "flow" /\ k # "construct"
        BY DEF Kinds
    <2>2. ToSet(Append(q, k)) = ToSet(q) \cup {k} /\ Append(q, k) \in Seq(Kinds)
        BY <2>1, TickSets, TickTypes
    <2>. QED
        BY <2>1, <2>2, OnceAppend DEF Calm
<1>3. ASSUME NEW err PROVE Calm(q, q \o CloseTicks(err))
    <2>1. /\ CloseTicks(err) \in Seq(Kinds)
          /\ q \o CloseTicks(err) \in Seq(Kinds)
          /\ ToSet(CloseTicks(err)) \subseteq {"error", "close"}
        BY TickSets, TickTypes
    <2>2. ToSet(q \o CloseTicks(err)) = ToSet(q) \cup ToSet(CloseTicks(err))
        BY <2>1, TickSets
    <2>3. \A k \in {"flow", "construct"} : k \notin ToSet(CloseTicks(err))
        BY <2>1
    <2>. QED
        BY <2>1, <2>2, <2>3, OnceCat DEF Calm
<1>4. ASSUME q # <<>> PROVE Calm(q, Tail(q))
    <2>1. Tail(q) \in Seq(Kinds) /\ ToSet(Tail(q)) \subseteq ToSet(q)
        BY <1>4, TickSets, TickTypes
    <2>. QED
        BY <1>4, <2>1, OnceTail DEF Calm
<1>. QED
    BY <1>1, <1>2, <1>3, <1>4

LEMMA CalmTwice ==
    ASSUME NEW q, NEW r, NEW t, Calm(q, r), Calm(r, t) PROVE Calm(q, t)
BY DEF Calm

LEMMA CalmDestroy ==
    ASSUME NEW q \in Seq(Kinds), NEW p, NEW err, DestroyBody(q, p, err)
    PROVE  Calm(q, ticks') /\ ("construct" \in pending' <=> "construct" \in p)
<1>1. ticks' = q \/ ticks' = q \o CloseTicks(err)
    BY Zenon DEF DestroyBody
<1>2. pending' = p \/ pending' = p \cup {"destroy"}
    BY Zenon DEF DestroyBody
<1>3. Calm(q, q) /\ Calm(q, q \o CloseTicks(err))
    BY CalmSteps
<1>. QED
    BY <1>1, <1>2, <1>3

LEMMA CalmSchedule ==
    ASSUME NEW q \in Seq(Kinds), ScheduleReadable(q) PROVE Calm(q, ticks')
<1>1. ticks' = q \/ ticks' = Append(q, "readable")
    BY Zenon DEF ScheduleReadable
<1>2. Calm(q, q) /\ Calm(q, Append(q, "readable"))
    BY CalmSteps
<1>. QED
    BY <1>1, <1>2, Zenon

-----------------------------------------------------------------------------
(* One read of the Gio stream: it is asked in a turn of _flow, which no     *)
(* tick is about to repeat, and until the source answered neither runs.     *)
Gio == Source = "gio" /\ ~use.pauses /\ Consumer \cap {"read", "sized"} = {}

Ticking(k) == k \in ToSet(ticks)

Reading ==
    /\ asked \in {0, 1} /\ failing = FALSE /\ rd = "idle" /\ flowing # "false"
    /\ asked = 1 => flow \in {"idle", "read"} /\ ~Ticking("flow")
    /\ flow = "read" => asked = 1 /\ buffer = <<>>
    /\ flow # "idle" => ~Ticking("flow")
    /\ flowing = "null" \/ ~constructed => asked = 0 /\ flow = "idle" /\ ~Ticking("flow")

Constructing ==
    /\ Ticking("construct") \/ "construct" \in pending => ~constructed
    /\ ~(Ticking("construct") /\ "construct" \in pending)

Orderly == Reading /\ Constructing /\ Once(ticks, "flow") /\ Once(ticks, "construct")

GioInv == (Source # "gio" => failing = FALSE) /\ (Gio => Orderly)

LEMMA GioInit == Init => GioInv
<1>. SUFFICES ASSUME Init PROVE GioInv
    OBVIOUS
<1>1. \/ ticks = <<"construct">> /\ constructed = FALSE
      \/ ticks = <<>> /\ constructed = TRUE
    BY Zenon DEF Init
<1>2. /\ asked = 0 /\ failing = FALSE /\ rd = "idle" /\ flowing = "null"
      /\ flow = "idle" /\ pending = {}
    BY DEF Init
<1>3. ~Ticking("flow") /\ (Ticking("construct") => ~constructed)
    BY <1>1 DEF Ticking, ToSet
<1>4. Once(ticks, "flow") /\ Once(ticks, "construct")
    BY <1>1 DEF Orderly, Once
<1>. QED
    BY <1>2, <1>3, <1>4 DEF GioInv, Orderly, Reading, Constructing

(* A step that asks nothing, and adds no turn of _flow.                     *)
Quiet ==
    /\ Calm(ticks, ticks')
    /\ UNCHANGED <<failing, rd, flowing, constructed>>
    /\ "construct" \in pending' => "construct" \in pending
    /\ buffer' = buffer \/ flow # "read"
    /\ asked' = asked \/ (asked' = 0 /\ flow # "read")
    /\ \/ flow' = flow \/ flow' = "idle"
       \/ flow \in {"head", "data"} /\ flow' # "read"

LEMMA GioKept == Orderly /\ Quiet => Orderly'
<1>. SUFFICES ASSUME Orderly, Quiet PROVE Orderly'
    OBVIOUS
<1>1. /\ Once(ticks', "flow") /\ Once(ticks', "construct")
      /\ Ticking("flow")' => Ticking("flow")
      /\ Ticking("construct")' => Ticking("construct")
    BY DEF Orderly, Quiet, Calm, Ticking
<1>2. Constructing'
    BY <1>1 DEF Orderly, Quiet, Constructing
<1>3. Reading'
    BY <1>1 DEF Orderly, Quiet, Reading
<1>. QED
    BY <1>1, <1>2, <1>3 DEF Orderly, Once

(* The callback of _construct, in whichever way it came.                    *)
LEMMA GioConstructed ==
    ASSUME Orderly, ~constructed, NEW q \in Seq(Kinds), Calm(ticks, q), "construct" \notin ToSet(q),
           NEW p, "construct" \notin p, Constructed(q, p),
           UNCHANGED <<asked, failing, rd, flowing, buffer>>
    PROVE  Orderly'
<1>0. Reading /\ Constructing /\ Once(ticks, "flow") /\ Once(ticks, "construct")
    BY DEF Orderly
<1>1. \/ DestroyBody(q, p, TRUE) /\ flow' = flow
      \/ /\ ticks' = q /\ pending' = p
         /\ flow' = flow \/ (flow' = "head" /\ flowing = "true")
    BY Zenon DEF Constructed
<1>2. Calm(q, ticks') /\ "construct" \notin pending'
    <2>1. CASE DestroyBody(q, p, TRUE)
        BY <2>1, CalmDestroy
    <2>2. CASE ticks' = q /\ pending' = p
        BY <2>2, CalmSteps
    <2>. QED
        BY <1>1, <2>1, <2>2
<1>3. Calm(ticks, ticks')
    BY <1>2, CalmTwice
<1>4. /\ Once(ticks', "flow") /\ Once(ticks', "construct")
      /\ Ticking("flow")' => Ticking("flow")
      /\ ~Ticking("construct")'
    BY <1>0, <1>2, <1>3 DEF Calm, Ticking
<1>5. Constructing'
    BY <1>0, <1>2, <1>4 DEF Constructing
<1>6. constructed' /\ (flow' = flow \/ (flow' = "head" /\ flowing = "true"))
    BY <1>1 DEF Constructed
<1>7. asked = 0 /\ flow = "idle" /\ ~Ticking("flow")
    BY <1>0 DEF Reading
<1>8. Reading'
    BY <1>0, <1>4, <1>6, <1>7 DEF Reading
<1>. QED
    BY <1>4, <1>5, <1>8 DEF Orderly, Once

LEMMA GioStep ==
    ASSUME ByteInv, Gio, [Next]_vars, Orderly
    PROVE  Orderly'
<1>. USE DEF sourceVars, bufferVars, stateVars, readVars, readableVars, handedVars
<1>0. /\ asked \in {0, 1} /\ failing = FALSE /\ rd = "idle" /\ flowing # "false"
      /\ Source = "gio" /\ ~use.pauses /\ Consumer \cap {"read", "sized"} = {}
      /\ ticks \in Seq(Kinds) /\ flowing \in {"null", "true", "false"}
      /\ constructed \in BOOLEAN /\ destroyed \in BOOLEAN
      /\ flow \in {"idle", "head", "data", "read"}
    BY DEF Orderly, Reading, Gio, ByteInv, Control, Waiting
<1>a. Calm(ticks, ticks)
    BY <1>0, CalmSteps
<1>b. Reading /\ Constructing /\ Once(ticks, "flow") /\ Once(ticks, "construct")
    BY DEF Orderly
<1>1. CASE Push
    <2>1. /\ flow = "idle" /\ asked = 1 /\ asked' = 0
          /\ UNCHANGED <<failing, rd, flowing, constructed, pending, flow>>
        BY <1>0, <1>1 DEF Push, MayPush, Answered
    <2>2. \/ FlowDue /\ ticks' = Append(ticks, "flow")
          \/ ScheduleReadable(ticks) \/ ticks' = ticks
        BY <1>1, Zenon DEF Push
    <2>3. CASE FlowDue /\ ticks' = Append(ticks, "flow")
        <3>1. ~Ticking("flow") /\ constructed /\ flowing = "true"
            BY <1>b, <2>1, <2>3, <1>0 DEF Reading, FlowDue
        <3>2. "flow" \in Kinds /\ "flow" # "construct"
            BY DEF Kinds
        <3>3. Once(ticks', "flow") /\ Once(ticks', "construct")
            BY <1>b, <1>0, <2>3, <3>1, <3>2, OnceAppend DEF Ticking
        <3>4. Ticking("construct")' => Ticking("construct")
            <4>1. ToSet(Append(ticks, "flow")) = ToSet(ticks) \cup {"flow"}
                BY <1>0, <3>2, TickSets
            <4>. QED
                BY <1>b, <2>3, <3>2, <4>1, Zenon DEF Ticking
        <3>5. Constructing'
            BY <1>b, <2>1, <3>4 DEF Constructing
        <3>6. Reading'
            BY <1>b, <1>0, <2>1, <3>1 DEF Reading
        <3>. QED
            BY <3>3, <3>5, <3>6 DEF Orderly, Once
    <2>4. CASE ScheduleReadable(ticks) \/ ticks' = ticks
        <3>1. Calm(ticks, ticks')
            BY <1>0, <1>a, <2>4, CalmSchedule
        <3>. QED
            BY <2>1, <3>1, GioKept DEF Quiet
    <2>. QED
        BY <2>2, <2>3, <2>4
<1>2. CASE PushEnd
    <2>1. /\ flow = "idle" /\ asked = 1 /\ asked' = 0
          /\ UNCHANGED <<failing, rd, flowing, constructed, pending, flow>>
        BY <1>0, <1>2 DEF PushEnd, MayPush, Answered
    <2>2. Append(ticks, "end") \in Seq(Kinds) /\ Calm(ticks, Append(ticks, "end"))
        BY <1>0, CalmSteps DEF Calm
    <2>3. ScheduleReadable(Append(ticks, "end")) \/ ScheduleReadable(ticks)
        BY <1>2, Zenon DEF PushEnd
    <2>4. Calm(ticks, ticks')
        BY <1>0, <2>2, <2>3, CalmSchedule, CalmTwice
    <2>. QED
        BY <2>1, <2>4, GioKept DEF Quiet
<1>3. CASE SourceFails \/ Pause \/ Resume
    BY <1>0, <1>3 DEF SourceFails, Pause, Resume, MayPause
<1>4. CASE ReadReturn \/ ReadRest
    BY <1>0, <1>4 DEF ReadReturn, ReadRest
<1>5. CASE Read
    BY <1>0, <1>5 DEF Read, Sizes
<1>6. CASE OnData
    <2>1. /\ UNCHANGED <<asked, failing, rd, constructed, pending, ticks, buffer>>
        BY <1>6 DEF OnData
    <2>2. \/ flowing' = flowing /\ flow' = flow
          \/ flowing = "null" /\ flowing' = "true" /\ EnterFlow("true")
        BY <1>6, Zenon DEF OnData
    <2>3. CASE flowing' = flowing /\ flow' = flow
        BY <1>a, <2>1, <2>3, GioKept DEF Quiet
    <2>4. CASE flowing = "null" /\ flowing' = "true" /\ EnterFlow("true")
        <3>1. asked = 0 /\ flow = "idle" /\ ~Ticking("flow")
            BY <1>b, <2>4 DEF Reading
        <3>2. flow' = flow \/ (flow' = "head" /\ constructed)
            BY <2>4 DEF EnterFlow
        <3>3. /\ ~Ticking("flow")' /\ (Ticking("construct")' <=> Ticking("construct"))
              /\ Once(ticks', "flow") /\ Once(ticks', "construct")
            BY <1>b, <2>1, <3>1 DEF Ticking
        <3>4. Reading'
            BY <1>b, <1>0, <2>1, <2>4, <3>1, <3>2, <3>3 DEF Reading
        <3>5. Constructing'
            BY <1>b, <2>1, <3>3 DEF Constructing
        <3>. QED
            BY <3>3, <3>4, <3>5 DEF Orderly, Once
    <2>. QED
        BY <2>2, <2>3, <2>4
<1>7. CASE OnReadable
    <2>1. UNCHANGED <<asked, failing, rd, flowing, constructed, pending, flow, buffer>>
        BY <1>7 DEF OnReadable
    <2>2. ticks' = ticks \/ ticks' = Append(ticks, "readable")
        BY <1>7, Zenon DEF OnReadable
    <2>3. Calm(ticks, ticks')
        BY <1>0, <1>a, <2>2, CalmSteps
    <2>. QED
        BY <2>1, <2>3, GioKept DEF Quiet
<1>8. CASE Unshift
    <2>1. /\ UNCHANGED <<asked, failing, rd, flowing, constructed, pending, flow, ticks>>
          /\ flow # "read"
        BY <1>8 DEF Unshift, UserTurn
    <2>. QED
        BY <1>a, <2>1, GioKept DEF Quiet
<1>9. CASE DestroyCall
    <2>1. UNCHANGED <<asked, failing, rd, flowing, constructed, flow, buffer>>
        BY <1>9 DEF DestroyCall
    <2>2. \E err \in BOOLEAN : DestroyBody(ticks, pending, err)
        BY <1>9, Zenon DEF DestroyCall
    <2>3. Calm(ticks, ticks') /\ ("construct" \in pending' => "construct" \in pending)
        BY <1>0, <2>2, CalmDestroy
    <2>. QED
        BY <2>1, <2>3, GioKept DEF Quiet
<1>10. CASE DestroyCallback
    <2>1. UNCHANGED <<asked, failing, rd, flowing, constructed, flow, buffer>>
        BY <1>10 DEF DestroyCallback
    <2>2. /\ \E err \in BOOLEAN : ticks' = ticks \o CloseTicks(err)
          /\ "construct" \in pending' => "construct" \in pending
        BY <1>10 DEF DestroyCallback
    <2>3. Calm(ticks, ticks')
        BY <1>0, <2>2, CalmSteps
    <2>. QED
        BY <2>1, <2>2, <2>3, GioKept DEF Quiet
<1>11. CASE ConstructCallback
    <2>1. /\ UNCHANGED <<asked, failing, rd, flowing, buffer>>
          /\ "construct" \in pending
          /\ Constructed(ticks, pending \ {"construct"})
        BY <1>11 DEF ConstructCallback
    <2>2. ~constructed /\ "construct" \notin ToSet(ticks)
        BY <1>b, <2>1 DEF Constructing, Ticking
    <2>3. "construct" \notin pending \ {"construct"}
        OBVIOUS
    <2>. DEFINE p == pending \ {"construct"}
    <2>4. "construct" \notin p /\ Constructed(ticks, p)
        BY <2>1, <2>3
    <2>. HIDE DEF p
    <2>. QED
        BY <1>0, <1>a, <2>1, <2>2, <2>4, GioConstructed
<1>12. CASE FlowHead
    <2>1. /\ flow = "head"
          /\ UNCHANGED <<rd, flowing, constructed, pending>>
        BY <1>12 DEF FlowHead
    <2>2. /\ asked = 0 /\ ~Ticking("flow") /\ flowing = "true" /\ constructed
        BY <1>b, <1>0, <2>1 DEF Reading
    <2>3. \/ /\ flow' \in {"data", "idle"} /\ UNCHANGED <<asked, failing>>
             /\ \/ ticks' = ticks \/ ticks' = Append(ticks, "end")
                \/ ticks' = ticks \o FlowAgain /\ ~LoopOn
          \/ /\ flow' = "read" /\ AskSource /\ ~LoopOn /\ ~destroyed
             /\ UNCHANGED <<ticks, buffer>>
        BY <1>12 DEF FlowHead
    <2>4. CASE /\ flow' \in {"data", "idle"} /\ UNCHANGED <<asked, failing>>
               /\ \/ ticks' = ticks \/ ticks' = Append(ticks, "end")
                  \/ ticks' = ticks \o FlowAgain /\ ~LoopOn
        <3>1. ASSUME ~LoopOn PROVE ticks \o FlowAgain = ticks
            <4>1. FlowAgain = <<>>
                BY <3>1 DEF FlowAgain, LoopOn
            <4>2. ticks \o <<>> = ticks
                BY <1>0, ConcatEmptySeq
            <4>. QED
                BY <4>1, <4>2
        <3>2. Calm(ticks, ticks')
            BY <1>0, <1>a, <2>4, <3>1, CalmSteps
        <3>. QED
            BY <2>1, <2>4, <3>2, GioKept DEF Quiet
    <2>5. CASE /\ flow' = "read" /\ AskSource /\ ~LoopOn /\ ~destroyed
               /\ UNCHANGED <<ticks, buffer>>
        <3>1. asked' = 1 /\ failing' = FALSE
            BY <1>0, <2>2, <2>5 DEF AskSource
        <3>2. buffer' = <<>>
            BY <2>2, <2>5 DEF LoopOn
        <3>3. /\ ~Ticking("flow")' /\ (Ticking("construct")' <=> Ticking("construct"))
              /\ Once(ticks', "flow") /\ Once(ticks', "construct")
            BY <1>b, <2>2, <2>5 DEF Ticking
        <3>4. Reading'
            BY <1>b, <1>0, <2>1, <2>2, <2>5, <3>1, <3>2, <3>3 DEF Reading
        <3>5. Constructing'
            BY <1>b, <2>1, <3>3 DEF Constructing
        <3>. QED
            BY <3>3, <3>4, <3>5 DEF Orderly, Once
    <2>. QED
        BY <2>3, <2>4, <2>5
<1>13. CASE FlowData
    <2>1. /\ UNCHANGED <<asked, failing, rd, flowing, constructed, pending, ticks, buffer>>
          /\ flow \in {"head", "data"} /\ flow' # "read"
        BY <1>13 DEF FlowData
    <2>. QED
        BY <1>a, <2>1, GioKept DEF Quiet
<1>14. CASE FlowRead
    <2>1. /\ UNCHANGED <<asked, failing, rd, flowing, constructed, pending, buffer>>
          /\ flow = "read" /\ flow' = "idle" /\ ticks' = ticks \o FlowAgain
        BY <1>14 DEF FlowRead
    <2>2. FlowAgain = <<>>
        BY <1>b, <2>1 DEF Reading, FlowAgain
    <2>3. ticks' = ticks
        <3>1. ticks \o <<>> = ticks
            BY <1>0, ConcatEmptySeq
        <3>. QED
            BY <2>1, <2>2, <3>1
    <2>4. Calm(ticks, ticks')
        BY <1>a, <2>3
    <2>. QED
        BY <2>1, <2>4, GioKept DEF Quiet
<1>15. CASE RunTick
    <2>1. /\ UNCHANGED <<asked, failing, rd, flowing, buffer>>
          /\ ticks # <<>> /\ flow = "idle"
        BY <1>15 DEF RunTick
    <2>. DEFINE q == Tail(ticks)
    <2>2. /\ q \in Seq(Kinds) /\ Calm(ticks, q) /\ Head(ticks) \in ToSet(ticks)
          /\ \A k \in {"flow", "construct"} : Head(ticks) = k => k \notin ToSet(q)
        BY <1>b, <1>0, <2>1, CalmSteps, OnceTail, TickSets DEF Calm
    <2>3. \/ Head(ticks) = "construct" /\ Constructed(q, pending)
          \/ /\ Head(ticks) = "construct" /\ pending' = pending \cup {"construct"}
             /\ ticks' = q /\ UNCHANGED <<constructed, flow>>
          \/ /\ Head(ticks) = "flow" /\ ticks' = q /\ EnterFlow(flowing)
             /\ UNCHANGED <<constructed, pending>>
          \/ /\ ticks' = q \/ ticks' = Append(q, "close")
             /\ UNCHANGED <<constructed, pending, flow>>
        BY <1>15, Zenon DEF RunTick
    <2>. HIDE DEF q
    <2>4. CASE Head(ticks) = "construct" /\ Constructed(q, pending)
        <3>1. ~constructed /\ "construct" \notin pending /\ "construct" \notin ToSet(q)
            BY <1>b, <2>2, <2>4 DEF Constructing, Ticking
        <3>. QED
            BY <2>1, <2>2, <2>4, <3>1, GioConstructed
    <2>5. CASE /\ Head(ticks) = "construct" /\ pending' = pending \cup {"construct"}
               /\ ticks' = q /\ UNCHANGED <<constructed, flow>>
        <3>1. ~constructed /\ "construct" \notin ToSet(q)
            BY <1>b, <2>2, <2>5 DEF Constructing, Ticking
        <3>2. /\ Once(ticks', "flow") /\ Once(ticks', "construct")
              /\ Ticking("flow")' => Ticking("flow")
              /\ ~Ticking("construct")'
            BY <1>b, <2>2, <2>5, <3>1 DEF Calm, Ticking
        <3>3. Constructing'
            BY <1>b, <2>5, <3>1, <3>2 DEF Constructing
        <3>4. Reading'
            BY <1>b, <2>1, <2>5, <3>2 DEF Reading
        <3>. QED
            BY <3>2, <3>3, <3>4 DEF Orderly, Once
    <2>6. CASE /\ Head(ticks) = "flow" /\ ticks' = q /\ EnterFlow(flowing)
               /\ UNCHANGED <<constructed, pending>>
        <3>1. Ticking("flow") /\ asked = 0 /\ flowing = "true" /\ constructed
            BY <1>b, <1>0, <2>2, <2>6 DEF Reading, Ticking
        <3>2. /\ Once(ticks', "flow") /\ Once(ticks', "construct")
              /\ ~Ticking("flow")'
              /\ Ticking("construct")' => Ticking("construct")
            BY <1>b, <2>2, <2>6 DEF Calm, Ticking
        <3>3. flow' \in {"idle", "head"}
            BY <2>1, <2>6 DEF EnterFlow
        <3>4. Constructing'
            BY <1>b, <2>6, <3>2 DEF Constructing
        <3>5. Reading'
            BY <1>b, <1>0, <2>1, <2>6, <3>1, <3>2, <3>3 DEF Reading
        <3>. QED
            BY <3>2, <3>4, <3>5 DEF Orderly, Once
    <2>7. CASE /\ ticks' = q \/ ticks' = Append(q, "close")
               /\ UNCHANGED <<constructed, pending, flow>>
        <3>1. Calm(q, ticks')
            BY <2>2, <2>7, CalmSteps
        <3>2. Calm(ticks, ticks')
            BY <2>2, <3>1, CalmTwice
        <3>. QED
            BY <2>1, <2>7, <3>2, GioKept DEF Quiet
    <2>. QED
        BY <2>3, <2>4, <2>5, <2>6, <2>7
<1>16. CASE UNCHANGED vars
    BY <1>a, <1>16, GioKept DEF vars, Quiet
<1>. QED
    BY <1>1, <1>2, <1>3, <1>4, <1>5, <1>6, <1>7, <1>8, <1>9, <1>10, <1>11, <1>12,
       <1>13, <1>14, <1>15, <1>16 DEF Next, SourceStep, UserStep, CallStep

LEMMA NeverFails == ByteInv /\ GioInv /\ [Next]_vars => (Source # "gio" => failing = FALSE)'
<1>. SUFFICES ASSUME ByteInv, GioInv, [Next]_vars
              PROVE  (Source # "gio" => failing = FALSE)'
    OBVIOUS
<1>. SUFFICES ASSUME Source # "gio" PROVE failing' = FALSE
    <2>1. use' = use
        BY UseKept
    <2>. QED
        BY <2>1 DEF Source
<1>1. failing = FALSE
    BY DEF GioInv
<1>2. ASSUME AskSource PROVE failing' = FALSE
    BY <1>1, <1>2 DEF AskSource
<1>3. CASE Read \/ FlowHead
    BY <1>1, <1>2, <1>3 DEF Read, FlowHead
<1>4. CASE SourceStep
    BY <1>1, <1>4 DEF SourceStep, Push, PushEnd, SourceFails
<1>5. CASE OnData \/ OnReadable \/ Pause \/ Resume \/ Unshift
    BY <1>1, <1>5 DEF OnData, OnReadable, Pause, Resume, Unshift, sourceVars
<1>6. CASE DestroyCall \/ DestroyCallback \/ ConstructCallback
    BY <1>1, <1>6 DEF DestroyCall, DestroyCallback, ConstructCallback, sourceVars
<1>7. CASE FlowData \/ FlowRead \/ ReadReturn \/ ReadRest
    BY <1>1, <1>7 DEF FlowData, FlowRead, ReadReturn, ReadRest, sourceVars
<1>8. CASE RunTick \/ UNCHANGED vars
    BY <1>1, <1>8 DEF RunTick, vars, sourceVars
<1>. QED
    BY <1>3, <1>4, <1>5, <1>6, <1>7, <1>8 DEF Next, UserStep, CallStep

LEMMA GioNext == ByteInv /\ GioInv /\ [Next]_vars => GioInv'
<1>. SUFFICES ASSUME ByteInv, GioInv, [Next]_vars PROVE GioInv'
    OBVIOUS
<1>1. (Source # "gio" => failing = FALSE)'
    BY NeverFails
<1>2. ASSUME Gio' PROVE Orderly'
    <2>1. use' = use
        BY UseKept
    <2>2. Gio
        BY <1>2, <2>1 DEF Gio, Source, Consumer
    <2>. QED
        BY <2>2, GioStep DEF GioInv
<1>. QED
    BY <1>1, <1>2 DEF GioInv

LEMMA GioIs == GioInv => OneReadAtATime
<1>. SUFFICES ASSUME GioInv, ~use.pauses, Consumer \cap {"read", "sized"} = {}
              PROVE  ~failing
    BY DEF OneReadAtATime
<1>1. CASE Source = "gio"
    BY <1>1 DEF GioInv, Gio, Orderly, Reading
<1>2. CASE Source # "gio"
    BY <1>2 DEF GioInv
<1>. QED
    BY <1>1, <1>2

(* While a Gio stream is read the stream does not read it again: neither    *)
(* _flow, nor a push, nor _construct starts a second turn that would.       *)
THEOREM OneReadOnly == Spec => []OneReadAtATime
<1>1. Spec => []GioInv
    BY GioInit, GioNext, BytesKept, PTL DEF Spec
<1>. QED
    BY <1>1, GioIs, PTL
=============================================================================
