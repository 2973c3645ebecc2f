---------------------------- MODULE DataTheorems ----------------------------
(***************************************************************************)
(* What the folds of the community modules compute that the specifications *)
(* are written with: the concatenation of a sequence of sequences, and the *)
(* sum of a function over a finite set.  Both are defined by recursion, so *)
(* these facts are proved by induction on a set of numbers (SetInduction). *)
(***************************************************************************)
EXTENDS Integers, SequencesExt, FiniteSetsExt, WellFoundedInduction, SequenceTheorems,
        FiniteSetTheorems, TLAPS

(* Induction on the natural numbers, for a set and not for a formula.       *)
LEMMA SetInduction ==
    ASSUME NEW S, 0 \in S, \A n \in Nat : n \in S => n + 1 \in S
    PROVE  Nat \subseteq S
<1>. DEFINE R == OpToRel(<, Nat)
<1>1. \A x, y \in Nat : <<x, y>> \in R <=> x < y
    BY DEF OpToRel
<1>2. IsWellFoundedOn(R, Nat)
    BY NatLessThanWellFounded
<1>. HIDE DEF R
<1>. SUFFICES ASSUME Nat \ S # {} PROVE FALSE
    OBVIOUS
<1>3. PICK x \in Nat \ S : \A y \in Nat \ S : <<y, x>> \notin R
    <2>. DEFINE T == Nat \ S
    <2>1. T \subseteq Nat /\ T # {}
        OBVIOUS
    <2>. HIDE DEF T
    <2>2. \E x \in T : \A y \in T : <<y, x>> \notin R
        BY <1>2, <2>1, WFMin
    <2>. QED
        BY <2>2 DEF T
<1>4. x # 0 /\ x - 1 \in Nat /\ (x - 1) + 1 = x /\ x - 1 < x
    OBVIOUS
<1>5. x - 1 \in S
    BY <1>1, <1>3, <1>4
<1>. QED
    BY <1>3, <1>4, <1>5

-----------------------------------------------------------------------------
(* FlattenSeq is computed by a function on the indices, which exists.       *)
Flat(s, n, f) == f = [i \in 1..n |-> IF i = 1 THEN s[i] ELSE f[i - 1] \o s[i]]

LEMMA FlatExists ==
    ASSUME NEW s, NEW n \in Nat
    PROVE  \E f : Flat(s, n, f)
<1>. DEFINE S == {m \in Nat : \E f : Flat(s, m, f)}
<1>1. 0 \in S
    <2>1. Flat(s, 0, [i \in 1..0 |-> 0])
        BY DEF Flat
    <2>. QED
        BY <2>1
<1>2. ASSUME NEW m \in Nat, m \in S PROVE m + 1 \in S
    <2>1. PICK f : Flat(s, m, f)
        BY <1>2
    <2>. DEFINE g == [i \in 1..(m + 1) |->
                        IF i = 1 THEN s[i] ELSE f[i - 1] \o s[i]]
    <2>2. \A i \in 1..m : f[i] = IF i = 1 THEN s[i] ELSE f[i - 1] \o s[i]
        BY <2>1 DEF Flat
    <2>3. \A i \in 1..m : g[i] = f[i]
        BY <2>2
    <2>4. \A i \in 1..(m + 1) : i = 1 \/ g[i - 1] = f[i - 1]
        <3>1. \A i \in 1..(m + 1) : i = 1 \/ i - 1 \in 1..m
            OBVIOUS
        <3>. HIDE DEF g
        <3>. QED
            BY <2>3, <3>1
    <2>. DEFINE h == [i \in 1..(m + 1) |-> IF i = 1 THEN s[i] ELSE g[i - 1] \o s[i]]
    <2>5. h = g
        <3>1. \A i \in 1..(m + 1) : (IF i = 1 THEN s[i] ELSE g[i - 1] \o s[i])
                                  = (IF i = 1 THEN s[i] ELSE f[i - 1] \o s[i])
            <4>. HIDE DEF g
            <4>. QED
                BY <2>4
        <3>. QED
            BY <3>1
    <2>6. Flat(s, m + 1, g)
        BY <2>5 DEF Flat
    <2>. QED
        BY <2>6
<1>3. Nat \subseteq S
    <2>. HIDE DEF S
    <2>. QED
        BY <1>1, <1>2, SetInduction
<1>. QED
    BY <1>3

LEMMA FlatIs ==
    ASSUME NEW s, Len(s) \in Nat, Len(s) # 0
    PROVE  \E f : Flat(s, Len(s), f) /\ FlattenSeq(s) = f[Len(s)]
<1>. DEFINE f == CHOOSE f : f = [i \in 1..Len(s) |-> IF i = 1 THEN s[i]
                                                  ELSE f[i - 1] \o s[i]]
<1>1. FlattenSeq(s) = f[Len(s)]
    BY DEF FlattenSeq
<1>2. \E g : g = [i \in 1..Len(s) |-> IF i = 1 THEN s[i] ELSE g[i - 1] \o s[i]]
    BY FlatExists DEF Flat
<1>3. f = [i \in 1..Len(s) |-> IF i = 1 THEN s[i] ELSE f[i - 1] \o s[i]]
    BY <1>2
<1>. QED
    BY <1>1, <1>3 DEF Flat

LEMMA FlatAgree ==
    ASSUME NEW s, NEW t, NEW m \in Nat, NEW n \in Nat, n <= m,
           \A i \in 1..n : s[i] = t[i],
           NEW f, Flat(s, m, f), NEW g, Flat(t, n, g)
    PROVE  \A i \in 1..n : f[i] = g[i]
<1>. DEFINE S == {i \in Nat : i \in 1..n => f[i] = g[i]}
<1>1. 0 \in S
    OBVIOUS
<1>2. ASSUME NEW i \in Nat, i \in S PROVE i + 1 \in S
    <2>. SUFFICES ASSUME i + 1 \in 1..n PROVE f[i + 1] = g[i + 1]
        OBVIOUS
    <2>1. /\ f[i + 1] = IF i + 1 = 1 THEN s[i + 1] ELSE f[(i + 1) - 1] \o s[i + 1]
          /\ g[i + 1] = IF i + 1 = 1 THEN t[i + 1] ELSE g[(i + 1) - 1] \o t[i + 1]
        <3>1. i + 1 \in 1..m /\ i + 1 \in 1..n
            OBVIOUS
        <3>. QED
            BY <3>1 DEF Flat
    <2>2. (i + 1) - 1 = i /\ s[i + 1] = t[i + 1]
        OBVIOUS
    <2>3. i + 1 # 1 => f[i] = g[i]
        BY <1>2
    <2>. QED
        BY <2>1, <2>2, <2>3, Zenon
<1>3. Nat \subseteq S
    <2>. HIDE DEF S
    <2>. QED
        BY <1>1, <1>2, SetInduction
<1>. QED
    BY <1>3

LEMMA FlatType ==
    ASSUME NEW X, NEW s \in Seq(Seq(X)), NEW f, Flat(s, Len(s), f)
    PROVE  \A i \in 1..Len(s) : f[i] \in Seq(X)
<1>. DEFINE S == {i \in Nat : i \in 1..Len(s) => f[i] \in Seq(X)}
<1>0. /\ Len(s) \in Nat
      /\ \A i \in 1..Len(s) : s[i] \in Seq(X)
      /\ \A x, y \in Seq(X) : x \o y \in Seq(X)
    OBVIOUS
<1>1. 0 \in S
    BY <1>0
<1>2. ASSUME NEW i \in Nat, i \in S PROVE i + 1 \in S
    <2>. SUFFICES ASSUME i + 1 \in 1..Len(s) PROVE f[i + 1] \in Seq(X)
        OBVIOUS
    <2>1. f[i + 1] = IF i + 1 = 1 THEN s[i + 1] ELSE f[(i + 1) - 1] \o s[i + 1]
        BY DEF Flat
    <2>2. (i + 1) - 1 = i /\ (i + 1 = 1 \/ i \in 1..Len(s))
        BY <1>0
    <2>3. i + 1 # 1 => f[i] \in Seq(X)
        BY <1>2, <2>2
    <2>. QED
        BY <1>0, <2>1, <2>2, <2>3, Zenon
<1>3. Nat \subseteq S
    <2>. HIDE DEF S
    <2>. QED
        BY <1>1, <1>2, SetInduction
<1>. QED
    BY <1>0, <1>3

(* What is appended to a sequence of sequences is appended to its elements. *)
LEMMA FlattenType ==
    ASSUME NEW X, NEW s \in Seq(Seq(X))
    PROVE  FlattenSeq(s) \in Seq(X)
<1>1. Len(s) \in Nat
    OBVIOUS
<1>2. CASE Len(s) = 0
    <2>1. FlattenSeq(s) = <<>>
        BY <1>2 DEF FlattenSeq
    <2>. QED
        BY <2>1
<1>3. CASE Len(s) # 0
    <2>1. PICK f : Flat(s, Len(s), f) /\ FlattenSeq(s) = f[Len(s)]
        BY <1>1, <1>3, FlatIs
    <2>2. Len(s) \in 1..Len(s)
        BY <1>1, <1>3
    <2>. QED
        BY <2>1, <2>2, FlatType
<1>. QED
    BY <1>2, <1>3

LEMMA FlattenEmpty == FlattenSeq(<<>>) = <<>>
    BY DEF FlattenSeq

LEMMA FlattenAppend ==
    ASSUME NEW X, NEW s \in Seq(Seq(X)), NEW e \in Seq(X)
    PROVE  FlattenSeq(Append(s, e)) = FlattenSeq(s) \o e
<1>. DEFINE r == Append(s, e)  n == Len(s)
<1>1. /\ n \in Nat /\ Len(r) = n + 1 /\ r[n + 1] = e /\ r \in Seq(Seq(X))
      /\ \A i \in 1..n : r[i] = s[i]
    OBVIOUS
<1>. HIDE DEF r
<1>2. PICK f : Flat(r, n + 1, f) /\ FlattenSeq(r) = f[n + 1]
    <2>1. Len(r) \in Nat /\ Len(r) # 0
        BY <1>1
    <2>. QED
        BY <1>1, <2>1, FlatIs
<1>3. f[n + 1] = IF n + 1 = 1 THEN r[n + 1] ELSE f[(n + 1) - 1] \o r[n + 1]
    <2>1. n + 1 \in 1..(n + 1)
        BY <1>1
    <2>. QED
        BY <1>2, <2>1 DEF Flat
<1>4. CASE n = 0
    <2>1. FlattenSeq(s) = <<>> /\ s = <<>>
        BY <1>4 DEF FlattenSeq
    <2>2. f[n + 1] = e
        BY <1>1, <1>3, <1>4
    <2>3. <<>> \o e = e
        OBVIOUS
    <2>. QED
        BY <1>2, <2>1, <2>2, <2>3 DEF r
<1>5. CASE n # 0
    <2>1. PICK g : Flat(s, n, g) /\ FlattenSeq(s) = g[n]
        BY <1>1, <1>5, FlatIs
    <2>2. \A i \in 1..n : f[i] = g[i]
        <3>. DEFINE m == n + 1
        <3>1. m \in Nat /\ n <= m /\ n \in Nat
            BY <1>1
        <3>2. Flat(r, m, f) /\ Flat(s, n, g)
            BY <1>2, <2>1
        <3>3. \A i \in 1..n : r[i] = s[i]
            BY <1>1
        <3>. HIDE DEF n, m
        <3>. QED
            BY <3>1, <3>2, <3>3, FlatAgree
    <2>3. f[n] = g[n] /\ n + 1 # 1 /\ (n + 1) - 1 = n
        <3>1. n \in 1..n
            BY <1>1, <1>5
        <3>. QED
            BY <1>1, <1>5, <2>2, <3>1
    <2>4. f[n + 1] = f[n] \o e
        BY <1>1, <1>3, <2>3
    <2>. QED
        BY <1>2, <2>1, <2>3, <2>4 DEF r
<1>. QED
    BY <1>4, <1>5

LEMMA FlattenHead ==
    ASSUME NEW X, NEW s \in Seq(Seq(X)), s # <<>>
    PROVE  FlattenSeq(s) = Head(s) \o FlattenSeq(Tail(s))
<1>. DEFINE h == Head(s)  t == Tail(s)  n == Len(t)
<1>1. /\ n \in Nat /\ Len(s) = n + 1 /\ s[1] = h /\ h \in Seq(X) /\ t \in Seq(Seq(X))
      /\ \A i \in 1..n : t[i] = s[i + 1] /\ t[i] \in Seq(X)
    OBVIOUS
<1>. HIDE DEF h, t
<1>2. PICK f : Flat(s, n + 1, f) /\ FlattenSeq(s) = f[n + 1]
    <2>1. Len(s) \in Nat /\ Len(s) # 0
        BY <1>1
    <2>. QED
        BY <1>1, <2>1, FlatIs
<1>3. \A i \in 1..(n + 1) : f[i] = IF i = 1 THEN s[i] ELSE f[i - 1] \o s[i]
    BY <1>2 DEF Flat
<1>4. CASE n = 0
    <2>1. FlattenSeq(t) = <<>>
        BY <1>1, <1>4 DEF FlattenSeq
    <2>2. f[n + 1] = h
        BY <1>1, <1>3, <1>4
    <2>3. h \o <<>> = h
        BY <1>1
    <2>. QED
        BY <1>2, <2>1, <2>2, <2>3 DEF h, t
<1>5. CASE n # 0
    <2>1. PICK g : Flat(t, n, g) /\ FlattenSeq(t) = g[n]
        BY <1>1, <1>5, FlatIs
    <2>2. \A i \in 1..n : g[i] \in Seq(X)
        BY <1>1, <2>1, FlatType
    <2>. DEFINE S == {i \in Nat : i \in 1..n => f[i + 1] = h \o g[i]}
    <2>3. 0 \in S
        OBVIOUS
    <2>4. ASSUME NEW i \in Nat, i \in S PROVE i + 1 \in S
        <3>. SUFFICES ASSUME i + 1 \in 1..n PROVE f[(i + 1) + 1] = h \o g[i + 1]
            OBVIOUS
        <3>1. f[(i + 1) + 1] = f[i + 1] \o s[(i + 1) + 1]
            <4>1. (i + 1) + 1 \in 1..(n + 1) /\ (i + 1) + 1 # 1 /\ ((i + 1) + 1) - 1 = i + 1
                BY <1>1
            <4>. HIDE DEF n
            <4>. QED
                BY <1>3, <4>1
        <3>2. g[i + 1] = IF i + 1 = 1 THEN t[i + 1] ELSE g[(i + 1) - 1] \o t[i + 1]
            BY <2>1 DEF Flat
        <3>3. t[i + 1] = s[(i + 1) + 1] /\ t[i + 1] \in Seq(X)
            BY <1>1
        <3>4. CASE i = 0
            <4>1. f[i + 1] = h
                <5>1. 1 \in 1..(n + 1)
                    BY <1>1
                <5>. HIDE DEF n
                <5>. QED
                    BY <1>1, <1>3, <3>4, <5>1
            <4>. QED
                BY <3>1, <3>2, <3>3, <3>4, <4>1
        <3>5. CASE i # 0
            <4>1. i \in 1..n /\ i + 1 # 1 /\ (i + 1) - 1 = i
                BY <1>1, <3>5
            <4>2. f[i + 1] = h \o g[i] /\ g[i] \in Seq(X)
                BY <2>2, <2>4, <4>1
            <4>3. (h \o g[i]) \o t[i + 1] = h \o (g[i] \o t[i + 1])
                <5>. DEFINE a == g[i]  b == t[i + 1]
                <5>1. h \in Seq(X) /\ a \in Seq(X) /\ b \in Seq(X)
                    BY <1>1, <3>3, <4>2
                <5>. HIDE DEF a, b
                <5>2. (h \o a) \o b = h \o (a \o b)
                    BY <5>1, SMTT(30)
                <5>. QED
                    BY <5>2 DEF a, b
            <4>4. g[i + 1] = g[i] \o t[i + 1]
                BY <3>2, <4>1
            <4>. QED
                BY <3>1, <3>3, <4>2, <4>3, <4>4
        <3>. QED
            BY <3>4, <3>5
    <2>5. Nat \subseteq S
        <3>. HIDE DEF S
        <3>. QED
            BY <2>3, <2>4, SetInduction
    <2>6. f[n + 1] = h \o g[n]
        <3>1. n \in Nat /\ n \in 1..n
            BY <1>1, <1>5
        <3>. QED
            BY <2>5, <3>1
    <2>. QED
        BY <1>2, <2>1, <2>6 DEF h, t
<1>. QED
    BY <1>4, <1>5

(* Sequences of one element make a sequence of these elements.              *)
LEMMA FlattenOnes ==
    ASSUME NEW X, NEW s \in Seq(Seq(X)), \A i \in 1..Len(s) : Len(s[i]) = 1
    PROVE  /\ Len(FlattenSeq(s)) = Len(s)
           /\ \A i \in 1..Len(s) : FlattenSeq(s)[i] = s[i][1]
<1>. DEFINE n == Len(s)
<1>1. n \in Nat /\ \A i \in 1..n : s[i] \in Seq(X)
    OBVIOUS
<1>2. CASE n = 0
    BY <1>1, <1>2 DEF FlattenSeq
<1>3. CASE n # 0
    <2>1. PICK f : Flat(s, n, f) /\ FlattenSeq(s) = f[n]
        BY <1>1, <1>3, FlatIs
    <2>2. \A i \in 1..n : f[i] \in Seq(X)
        BY <2>1, FlatType
    <2>. HIDE DEF n
    <2>. DEFINE Ones(i) == Len(f[i]) = i /\ \A j \in 1..i : f[i][j] = s[j][1]
                S == {i \in Nat : i \in 1..n => Ones(i)}
    <2>3. 0 \in S
        OBVIOUS
    <2>4. ASSUME NEW i \in Nat, i \in S PROVE i + 1 \in S
        <3>. SUFFICES ASSUME i + 1 \in 1..n PROVE Ones(i + 1)
            OBVIOUS
        <3>1. f[i + 1] = IF i + 1 = 1 THEN s[i + 1] ELSE f[i] \o s[i + 1]
            <4>1. (i + 1) - 1 = i
                OBVIOUS
            <4>. QED
                BY <2>1, <4>1 DEF Flat
        <3>2. s[i + 1] \in Seq(X) /\ Len(s[i + 1]) = 1
            BY <1>1 DEF n
        <3>3. CASE i = 0
            BY <3>1, <3>2, <3>3
        <3>4. CASE i # 0
            <4>. DEFINE a == f[i]  b == s[i + 1]
            <4>1. /\ i \in 1..n /\ a \in Seq(X) /\ Len(a) = i
                  /\ \A j \in 1..i : a[j] = s[j][1]
                BY <1>1, <2>2, <2>4, <3>4
            <4>2. b \in Seq(X) /\ Len(b) = 1 /\ b[1] = s[i + 1][1]
                BY <3>2
            <4>3. f[i + 1] = a \o b
                <5>1. i + 1 # 1
                    BY <3>4
                <5>. QED
                    BY <3>1, <5>1, Zenon
            <4>. HIDE DEF a, b
            <4>4. /\ Len(a \o b) = Len(a) + Len(b)
                  /\ \A j \in 1..(Len(a) + Len(b)) :
                        (a \o b)[j] = IF j <= Len(a) THEN a[j] ELSE b[j - Len(a)]
                BY <4>1, <4>2, ConcatProperties
            <4>5. Len(a \o b) = i + 1 /\ (a \o b)[i + 1] = b[1]
                <5>1. i + 1 \in 1..(Len(a) + Len(b)) /\ ~(i + 1 <= Len(a))
                      /\ (i + 1) - Len(a) = 1
                    BY <4>1, <4>2
                <5>. QED
                    BY <4>1, <4>2, <4>4, <5>1
            <4>6. \A j \in 1..i : (a \o b)[j] = s[j][1]
                <5>1. \A j \in 1..i : j \in 1..(Len(a) + Len(b)) /\ j <= Len(a)
                    BY <4>1, <4>2
                <5>. QED
                    BY <4>1, <4>4, <5>1
            <4>7. \A j \in 1..(i + 1) : j \in 1..i \/ j = i + 1
                OBVIOUS
            <4>. QED
                BY <4>2, <4>3, <4>5, <4>6, <4>7
        <3>. QED
            BY <3>3, <3>4
    <2>5. Nat \subseteq S
        <3>. HIDE DEF S
        <3>. QED
            BY <2>3, <2>4, SetInduction
    <2>6. Ones(n)
        BY <1>1, <1>3, <2>5
    <2>. QED
        BY <2>1, <2>6 DEF n
<1>. QED
    BY <1>2, <1>3

(* Concatenation, taken at its head.                                        *)
LEMMA CatHead ==
    ASSUME NEW X, NEW s \in Seq(X), NEW t \in Seq(X), s # <<>>
    PROVE  /\ s \o t # <<>> /\ s \o t \in Seq(X) /\ Head(s \o t) = Head(s)
           /\ Tail(s \o t) = Tail(s) \o t
<1>. DEFINE q == s \o t  r == Tail(s)
<1>1. /\ q \in Seq(X) /\ Len(q) = Len(s) + Len(t)
      /\ \A i \in 1..Len(q) : q[i] = IF i <= Len(s) THEN s[i] ELSE t[i - Len(s)]
      /\ Len(s) \in Nat /\ Len(t) \in Nat /\ Len(s) # 0
    BY ConcatProperties
<1>2. /\ r \in Seq(X) /\ Len(r) = Len(s) - 1
      /\ \A i \in 1..Len(r) : r[i] = s[i + 1]
    OBVIOUS
<1>3. /\ r \o t \in Seq(X) /\ Len(r \o t) = Len(r) + Len(t)
      /\ \A i \in 1..(Len(r) + Len(t)) :
            (r \o t)[i] = IF i <= Len(r) THEN r[i] ELSE t[i - Len(r)]
    BY <1>2, ConcatProperties
<1>. HIDE DEF r
<1>4. q # <<>> /\ Head(q) = s[1] /\ Head(s) = s[1]
    BY <1>1
<1>. HIDE DEF q
<1>5. /\ Tail(q) \in Seq(X) /\ Len(Tail(q)) = Len(q) - 1
      /\ \A i \in 1..Len(Tail(q)) : Tail(q)[i] = q[i + 1]
    BY <1>1, <1>4
<1>6. ASSUME NEW i \in 1..(Len(r) + Len(t)) PROVE Tail(q)[i] = (r \o t)[i]
    <2>1. Tail(q)[i] = q[i + 1] /\ i + 1 \in 1..Len(q)
        BY <1>1, <1>2, <1>5
    <2>2. CASE i <= Len(r)
        BY <1>1, <1>2, <1>3, <2>1, <2>2
    <2>3. CASE ~(i <= Len(r))
        <3>1. (i + 1) - Len(s) = i - Len(r) /\ ~(i + 1 <= Len(s))
            BY <1>1, <1>2, <2>3
        <3>. QED
            BY <1>1, <1>3, <2>1, <2>3, <3>1
    <2>. QED
        BY <2>2, <2>3
<1>7. Tail(q) = r \o t
    <2>1. Len(Tail(q)) = Len(r) + Len(t)
        BY <1>1, <1>2, <1>5
    <2>2. \A i \in 1..Len(Tail(q)) : Tail(q)[i] = (r \o t)[i]
        BY <1>6, <2>1
    <2>. QED
        BY <1>3, <1>5, <2>1, <2>2, SeqEqual
<1>. QED
    BY <1>1, <1>4, <1>7 DEF q, r

LEMMA CatAssoc ==
    \A X : \A x, y, z \in Seq(X) : (x \o y) \o z = x \o (y \o z)
<1>. SUFFICES ASSUME NEW X
              PROVE  \A x, y, z \in Seq(X) : (x \o y) \o z = x \o (y \o z)
    OBVIOUS
<1>. QED
    BY ConcatAssociative

LEMMA CatAppend ==
    ASSUME NEW X, NEW s \in Seq(X), NEW f \in Seq(X), NEW e \in X
    PROVE  s \o Append(f, e) = Append(s \o f, e)
<1>1. \A x, y, z \in Seq(X) : (x \o y) \o z = x \o (y \o z)
    BY CatAssoc, SMTT(20)
<1>2. <<e>> \in Seq(X) /\ s \o f \in Seq(X)
    OBVIOUS
<1>3. \A x \in Seq(X) : Append(x, e) = x \o <<e>>
    OBVIOUS
<1>4. (s \o f) \o <<e>> = s \o (f \o <<e>>)
    BY <1>1, <1>2, Zenon
<1>. QED
    BY <1>2, <1>3, <1>4, Zenon

LEMMA FlattenCat ==
    ASSUME NEW X, NEW s \in Seq(Seq(X)), NEW t \in Seq(Seq(X))
    PROVE  FlattenSeq(s \o t) = FlattenSeq(s) \o FlattenSeq(t)
<1>. DEFINE S == {n \in Nat : \A u \in Seq(Seq(X)) :
                     Len(u) = n => FlattenSeq(u \o t) = FlattenSeq(u) \o FlattenSeq(t)}
<1>1. FlattenSeq(t) \in Seq(X)
    BY FlattenType
<1>2. \A x, y, z \in Seq(X) : (x \o y) \o z = x \o (y \o z)
    BY CatAssoc, SMTT(20)
<1>3. 0 \in S
    <2>. SUFFICES ASSUME NEW u \in Seq(Seq(X)), Len(u) = 0
                  PROVE  FlattenSeq(u \o t) = FlattenSeq(u) \o FlattenSeq(t)
        OBVIOUS
    <2>1. u = <<>> /\ <<>> \o t = t /\ <<>> \o FlattenSeq(t) = FlattenSeq(t)
        BY <1>1
    <2>. QED
        BY <2>1, FlattenEmpty, Zenon
<1>4. ASSUME NEW n \in Nat, n \in S PROVE n + 1 \in S
    <2>. SUFFICES ASSUME NEW u \in Seq(Seq(X)), Len(u) = n + 1
                  PROVE  FlattenSeq(u \o t) = FlattenSeq(u) \o FlattenSeq(t)
        OBVIOUS
    <2>. DEFINE h == Head(u)  v == Tail(u)
    <2>1. u # <<>> /\ h \in Seq(X) /\ v \in Seq(Seq(X)) /\ Len(v) = n
        OBVIOUS
    <2>2. /\ u \o t # <<>> /\ u \o t \in Seq(Seq(X))
          /\ Head(u \o t) = h /\ Tail(u \o t) = v \o t
        BY <2>1, CatHead, SMTT(20)
    <2>3. FlattenSeq(u \o t) = h \o FlattenSeq(v \o t)
        BY <2>2, FlattenHead
    <2>4. FlattenSeq(u) = h \o FlattenSeq(v)
        BY <2>1, FlattenHead
    <2>5. FlattenSeq(v \o t) = FlattenSeq(v) \o FlattenSeq(t)
        BY <1>4, <2>1
    <2>6. FlattenSeq(v) \in Seq(X)
        BY <2>1, FlattenType
    <2>7. (h \o FlattenSeq(v)) \o FlattenSeq(t) = h \o (FlattenSeq(v) \o FlattenSeq(t))
        BY <1>1, <1>2, <2>1, <2>6, Zenon
    <2>. QED
        BY <2>3, <2>4, <2>5, <2>7, Zenon
<1>5. Nat \subseteq S
    <2>. HIDE DEF S
    <2>. QED
        BY <1>3, <1>4, SetInduction
<1>. QED
    BY <1>5

(* Empty sequences make an empty one.                                       *)
LEMMA FlattenNone ==
    ASSUME NEW X, NEW s \in Seq(Seq(X)), \A i \in 1..Len(s) : s[i] = <<>>
    PROVE  FlattenSeq(s) = <<>>
<1>. DEFINE S == {n \in Nat : \A u \in Seq(Seq(X)) :
                     Len(u) = n /\ (\A i \in 1..n : u[i] = <<>>) => FlattenSeq(u) = <<>>}
<1>1. 0 \in S
    <2>. SUFFICES ASSUME NEW u \in Seq(Seq(X)), Len(u) = 0
                  PROVE  FlattenSeq(u) = <<>>
        OBVIOUS
    <2>1. u = <<>>
        OBVIOUS
    <2>. QED
        BY <2>1, FlattenEmpty, Zenon
<1>2. ASSUME NEW n \in Nat, n \in S PROVE n + 1 \in S
    <2>. SUFFICES ASSUME NEW u \in Seq(Seq(X)), Len(u) = n + 1,
                         \A i \in 1..(n + 1) : u[i] = <<>>
                  PROVE  FlattenSeq(u) = <<>>
        OBVIOUS
    <2>. DEFINE v == Tail(u)
    <2>1. /\ u # <<>> /\ Head(u) = u[1] /\ v \in Seq(Seq(X)) /\ Len(v) = n
          /\ \A i \in 1..n : v[i] = u[i + 1] /\ i + 1 \in 1..(n + 1)
        OBVIOUS
    <2>2. FlattenSeq(u) = Head(u) \o FlattenSeq(v)
        BY <2>1, FlattenHead
    <2>. HIDE DEF v
    <2>3. \A i \in 1..n : v[i] = <<>>
        BY <2>1
    <2>4. FlattenSeq(v) = <<>>
        BY <1>2, <2>1, <2>3
    <2>5. Head(u) = <<>> /\ <<>> \o <<>> = <<>>
        BY <2>1
    <2>. QED
        BY <2>2, <2>4, <2>5, Zenon
<1>3. Nat \subseteq S
    <2>. HIDE DEF S
    <2>. QED
        BY <1>1, <1>2, SetInduction
<1>. QED
    BY <1>3

-----------------------------------------------------------------------------
(* MapThenSumSet is computed by a function on the subsets of its set, which *)
(* exists for a finite set.                                                 *)
First(s) == CHOOSE x \in s : TRUE
Iter(F, D, it) == it = [s \in D |-> IF s = {} THEN 0 ELSE F[First(s)] + it[s \ {First(s)}]]
SumOf(F, S) == MapThenSumSet(LAMBDA x : F[x], S)
UpTo(U, n) == {s \in SUBSET U : Cardinality(s) <= n}

LEMMA FirstIn == \A s : s # {} => First(s) \in s
    BY DEF First

LEMMA LessOne ==
    ASSUME NEW S, IsFiniteSet(S), S # {}
    PROVE  /\ IsFiniteSet(S \ {First(S)}) /\ First(S) \in S
           /\ Cardinality(S) \in Nat \ {0}
           /\ Cardinality(S \ {First(S)}) = Cardinality(S) - 1
<1>1. First(S) \in S
    BY FirstIn
<1>2. Cardinality(S) \in Nat /\ Cardinality(S) # 0
    BY FS_CardinalityType, FS_EmptySet
<1>3. /\ IsFiniteSet(S \ {First(S)})
      /\ Cardinality(S \ {First(S)}) = Cardinality(S) - 1
    BY <1>1, FS_RemoveElement
<1>. QED
    BY <1>1, <1>2, <1>3

LEMMA UpToLess ==
    ASSUME NEW U, IsFiniteSet(U), NEW n \in Nat, NEW s \in UpTo(U, n + 1), s # {}
    PROVE  s \ {First(s)} \in UpTo(U, n)
<1>1. s \in SUBSET U /\ Cardinality(s) <= n + 1
    BY DEF UpTo
<1>2. IsFiniteSet(s)
    BY <1>1, FS_Subset
<1>3. /\ Cardinality(s \ {First(s)}) = Cardinality(s) - 1
      /\ Cardinality(s) \in Nat
    BY <1>2, LessOne
<1>. QED
    BY <1>1, <1>3 DEF UpTo

LEMMA IterExists ==
    ASSUME NEW F, NEW U, IsFiniteSet(U), NEW n \in Nat
    PROVE  \E it : Iter(F, UpTo(U, n), it)
<1>. DEFINE S == {m \in Nat : \E it : Iter(F, UpTo(U, m), it)}
<1>1. 0 \in S
    <2>. DEFINE g == [s \in UpTo(U, 0) |-> 0]
    <2>1. \A s \in UpTo(U, 0) : s = {}
        <3>. SUFFICES ASSUME NEW s \in UpTo(U, 0) PROVE s = {}
            OBVIOUS
        <3>1. s \in SUBSET U /\ Cardinality(s) <= 0
            BY DEF UpTo
        <3>2. IsFiniteSet(s)
            BY <3>1, FS_Subset
        <3>3. Cardinality(s) = 0
            BY <3>1, <3>2, FS_CardinalityType
        <3>. QED
            BY <3>2, <3>3, FS_EmptySet
    <2>2. Iter(F, UpTo(U, 0), g)
        BY <2>1 DEF Iter
    <2>. QED
        BY <2>2
<1>2. ASSUME NEW m \in Nat, m \in S PROVE m + 1 \in S
    <2>. DEFINE D == UpTo(U, m)  E == UpTo(U, m + 1)
    <2>1. PICK f : Iter(F, D, f)
        BY <1>2
    <2>. DEFINE g == [s \in E |-> IF s = {} THEN 0 ELSE F[First(s)] + f[s \ {First(s)}]]
    <2>2. D \subseteq E
        <3>. SUFFICES ASSUME NEW s \in D PROVE s \in E
            OBVIOUS
        <3>1. s \in SUBSET U /\ Cardinality(s) <= m
            BY DEF UpTo
        <3>2. IsFiniteSet(s)
            BY <3>1, FS_Subset
        <3>3. Cardinality(s) \in Nat
            BY <3>2, FS_CardinalityType
        <3>4. Cardinality(s) <= m + 1
            BY <3>1, <3>3
        <3>. QED
            BY <3>1, <3>4 DEF UpTo
    <2>3. \A s \in E : s # {} => s \ {First(s)} \in D
        BY UpToLess
    <2>. HIDE DEF D, E
    <2>4. \A s \in D : f[s] = IF s = {} THEN 0 ELSE F[First(s)] + f[s \ {First(s)}]
        BY <2>1 DEF Iter
    <2>5. \A s \in D : g[s] = f[s]
        BY <2>2, <2>4
    <2>6. \A s \in E : (IF s = {} THEN 0 ELSE F[First(s)] + g[s \ {First(s)}])
                      = (IF s = {} THEN 0 ELSE F[First(s)] + f[s \ {First(s)}])
        <3>. HIDE DEF g
        <3>. QED
            BY <2>3, <2>5, Zenon
    <2>7. g = [s \in E |-> IF s = {} THEN 0 ELSE F[First(s)] + g[s \ {First(s)}]]
        BY <2>6
    <2>8. Iter(F, E, g)
        <3>. HIDE DEF g
        <3>. QED
            BY <2>7 DEF Iter
    <2>. QED
        BY <2>8 DEF E
<1>3. Nat \subseteq S
    <2>. HIDE DEF S
    <2>. QED
        BY <1>1, <1>2, SetInduction
<1>. QED
    BY <1>3

LEMMA IterIs ==
    ASSUME NEW F, NEW U, IsFiniteSet(U)
    PROVE  \E it : Iter(F, SUBSET U, it) /\ SumOf(F, U) = it[U]
<1>. DEFINE f == CHOOSE it : it = [s \in SUBSET U |->
                    IF s = {} THEN 0
                    ELSE F[CHOOSE x \in s : TRUE] + it[s \ {CHOOSE x \in s : TRUE}]]
<1>1. SumOf(F, U) = f[U]
    BY DEF SumOf, MapThenSumSet, MapThenFoldSet
<1>2. UpTo(U, Cardinality(U)) = SUBSET U
    BY FS_Subset DEF UpTo
<1>3. \E it : Iter(F, SUBSET U, it)
    <2>1. Cardinality(U) \in Nat
        BY FS_CardinalityType
    <2>2. \A n \in Nat : \E it : Iter(F, UpTo(U, n), it)
        BY IterExists
    <2>3. \E it : Iter(F, UpTo(U, Cardinality(U)), it)
        BY <2>1, <2>2
    <2>. QED
        BY <1>2, <2>3
<1>4. \E it : it = [s \in SUBSET U |->
                IF s = {} THEN 0
                ELSE F[CHOOSE x \in s : TRUE] + it[s \ {CHOOSE x \in s : TRUE}]]
    BY <1>3 DEF Iter, First
<1>5. f = [s \in SUBSET U |->
             IF s = {} THEN 0
             ELSE F[CHOOSE x \in s : TRUE] + f[s \ {CHOOSE x \in s : TRUE}]]
    BY <1>4
<1>6. Iter(F, SUBSET U, f)
    BY <1>5 DEF Iter, First
<1>. QED
    BY <1>1, <1>6


LEMMA IterAgree ==
    ASSUME NEW F, NEW U, IsFiniteSet(U), NEW V \in SUBSET U
    PROVE  \A f, g : Iter(F, SUBSET U, f) /\ Iter(F, SUBSET V, g) => f[V] = g[V]
<1>. TAKE f, g
<1>. HAVE Iter(F, SUBSET U, f) /\ Iter(F, SUBSET V, g)
<1>0. IsFiniteSet(V)
    BY FS_Subset
<1>. DEFINE S == {n \in Nat : \A s \in UpTo(V, n) : f[s] = g[s]}
<1>1. ASSUME NEW s \in SUBSET V
      PROVE  /\ f[s] = IF s = {} THEN 0 ELSE F[First(s)] + f[s \ {First(s)}]
             /\ g[s] = IF s = {} THEN 0 ELSE F[First(s)] + g[s \ {First(s)}]
    BY DEF Iter
<1>2. 0 \in S
    <2>. SUFFICES ASSUME NEW s \in UpTo(V, 0) PROVE f[s] = g[s]
        OBVIOUS
    <2>1. s \in SUBSET V /\ Cardinality(s) <= 0
        BY DEF UpTo
    <2>2. IsFiniteSet(s)
        BY <1>0, <2>1, FS_Subset
    <2>3. Cardinality(s) = 0
        BY <2>1, <2>2, FS_CardinalityType
    <2>4. s = {}
        BY <2>2, <2>3, FS_EmptySet
    <2>. QED
        BY <1>1, <2>1, <2>4
<1>3. ASSUME NEW n \in Nat, n \in S PROVE n + 1 \in S
    <2>. SUFFICES ASSUME NEW s \in UpTo(V, n + 1) PROVE f[s] = g[s]
        OBVIOUS
    <2>1. s \in SUBSET V
        BY DEF UpTo
    <2>2. CASE s = {}
        BY <1>1, <2>1, <2>2
    <2>3. CASE s # {}
        <3>1. s \ {First(s)} \in UpTo(V, n)
            BY <1>0, <2>3, UpToLess
        <3>2. f[s \ {First(s)}] = g[s \ {First(s)}]
            BY <1>3, <3>1
        <3>. QED
            BY <1>1, <2>1, <2>3, <3>2
    <2>. QED
        BY <2>2, <2>3
<1>4. Nat \subseteq S
    <2>. HIDE DEF S
    <2>. QED
        BY <1>2, <1>3, SetInduction
<1>5. Cardinality(V) \in Nat /\ V \in UpTo(V, Cardinality(V))
    BY <1>0, FS_CardinalityType DEF UpTo
<1>6. \A n \in Nat : \A s \in UpTo(V, n) : f[s] = g[s]
    BY <1>4
<1>. QED
    BY <1>5, <1>6

(* The sum over a finite set, one element at a time.                        *)
LEMMA SumEmpty == \A F : SumOf(F, {}) = 0
<1>. SUFFICES ASSUME NEW F PROVE SumOf(F, {}) = 0
    OBVIOUS
<1>1. PICK it : Iter(F, SUBSET {}, it) /\ SumOf(F, {}) = it[{}]
    BY IterIs, FS_EmptySet
<1>. QED
    BY <1>1 DEF Iter

LEMMA SumFirst ==
    ASSUME NEW F, NEW S, IsFiniteSet(S), S # {}
    PROVE  SumOf(F, S) = F[First(S)] + SumOf(F, S \ {First(S)})
<1>. DEFINE V == S \ {First(S)}
<1>1. PICK f : Iter(F, SUBSET S, f) /\ SumOf(F, S) = f[S]
    BY IterIs
<1>2. IsFiniteSet(V) /\ V \in SUBSET S
    BY LessOne
<1>. HIDE DEF V
<1>3. PICK g : Iter(F, SUBSET V, g) /\ SumOf(F, V) = g[V]
    BY <1>2, IterIs
<1>4. f[V] = g[V]
    <2>1. \A h, k : Iter(F, SUBSET S, h) /\ Iter(F, SUBSET V, k) => h[V] = k[V]
        BY <1>2, IterAgree
    <2>. QED
        BY <1>1, <1>3, <2>1
<1>5. f[S] = F[First(S)] + f[V]
    BY <1>1 DEF Iter, V
<1>. QED
    BY <1>1, <1>3, <1>4, <1>5 DEF V

LEMMA SumType ==
    ASSUME NEW F, NEW U, IsFiniteSet(U), \A x \in U : F[x] \in Int
    PROVE  \A T \in SUBSET U : SumOf(F, T) \in Int
<1>. DEFINE S == {n \in Nat : \A T \in UpTo(U, n) : SumOf(F, T) \in Int}
<1>1. 0 \in S
    <2>. SUFFICES ASSUME NEW s \in UpTo(U, 0) PROVE SumOf(F, s) \in Int
        OBVIOUS
    <2>1. s \in SUBSET U /\ Cardinality(s) <= 0
        BY DEF UpTo
    <2>2. IsFiniteSet(s)
        BY <2>1, FS_Subset
    <2>3. Cardinality(s) = 0
        BY <2>1, <2>2, FS_CardinalityType
    <2>4. s = {}
        BY <2>2, <2>3, FS_EmptySet
    <2>. QED
        BY <2>4, SumEmpty
<1>2. ASSUME NEW n \in Nat, n \in S PROVE n + 1 \in S
    <2>. SUFFICES ASSUME NEW s \in UpTo(U, n + 1) PROVE SumOf(F, s) \in Int
        OBVIOUS
    <2>1. s \in SUBSET U /\ IsFiniteSet(s)
        BY FS_Subset DEF UpTo
    <2>2. CASE s = {}
        BY <2>2, SumEmpty
    <2>3. CASE s # {}
        <3>1. s \ {First(s)} \in UpTo(U, n)
            BY <2>3, UpToLess
        <3>2. SumOf(F, s \ {First(s)}) \in Int
            BY <1>2, <3>1
        <3>3. F[First(s)] \in Int
            BY <2>1, <2>3, FirstIn
        <3>4. SumOf(F, s) = F[First(s)] + SumOf(F, s \ {First(s)})
            BY <2>1, <2>3, SumFirst
        <3>. QED
            BY <3>2, <3>3, <3>4
    <2>. QED
        BY <2>2, <2>3
<1>3. Nat \subseteq S
    <2>. HIDE DEF S
    <2>. QED
        BY <1>1, <1>2, SetInduction
<1>. SUFFICES ASSUME NEW T \in SUBSET U PROVE SumOf(F, T) \in Int
    OBVIOUS
<1>4. Cardinality(T) \in Nat /\ T \in UpTo(U, Cardinality(T))
    BY FS_Subset, FS_CardinalityType DEF UpTo
<1>5. \A n \in Nat : \A s \in UpTo(U, n) : SumOf(F, s) \in Int
    BY <1>3
<1>. QED
    BY <1>4, <1>5

LEMMA SumRemove ==
    ASSUME NEW F, NEW U, IsFiniteSet(U), \A x \in U : F[x] \in Int,
           NEW T \in SUBSET U, NEW y \in T
    PROVE  SumOf(F, T) = F[y] + SumOf(F, T \ {y})
<1>. DEFINE S == {n \in Nat : \A s \in UpTo(U, n) : \A x \in s :
                      SumOf(F, s) = F[x] + SumOf(F, s \ {x})}
<1>1. 0 \in S
    <2>. SUFFICES ASSUME NEW s \in UpTo(U, 0) PROVE s = {}
        OBVIOUS
    <2>1. s \in SUBSET U /\ Cardinality(s) <= 0
        BY DEF UpTo
    <2>2. IsFiniteSet(s)
        BY <2>1, FS_Subset
    <2>3. Cardinality(s) = 0
        BY <2>1, <2>2, FS_CardinalityType
    <2>. QED
        BY <2>2, <2>3, FS_EmptySet
<1>2. ASSUME NEW n \in Nat, n \in S PROVE n + 1 \in S
    <2>. SUFFICES ASSUME NEW s \in UpTo(U, n + 1), NEW x \in s
                  PROVE  SumOf(F, s) = F[x] + SumOf(F, s \ {x})
        OBVIOUS
    <2>. DEFINE c == First(s)  p == s \ {c}  q == s \ {x}  r == (s \ {c}) \ {x}
    <2>1. s \in SUBSET U /\ IsFiniteSet(s) /\ s # {}
        BY FS_Subset DEF UpTo
    <2>2. SumOf(F, s) = F[c] + SumOf(F, p) /\ c \in s
        BY <2>1, SumFirst, FirstIn
    <2>3. p \in UpTo(U, n)
        BY <2>1, UpToLess
    <2>4. CASE x = c
        BY <2>2, <2>4
    <2>5. CASE x # c
        <3>1. x \in p
            BY <2>5
        <3>2. SumOf(F, p) = F[x] + SumOf(F, r)
            BY <1>2, <2>3, <3>1
        <3>3. q \in UpTo(U, n)
            <4>1. Cardinality(s) \in Nat /\ Cardinality(s) <= n + 1
                BY <2>1, FS_CardinalityType DEF UpTo
            <4>2. Cardinality(q) = Cardinality(s) - 1
                BY <2>1, FS_RemoveElement
            <4>3. Cardinality(q) <= n
                BY <4>1, <4>2
            <4>. QED
                BY <2>1, <4>3 DEF UpTo
        <3>4. c \in q /\ q \ {c} = r
            BY <2>2, <2>5
        <3>5. SumOf(F, q) = F[c] + SumOf(F, r)
            BY <1>2, <3>3, <3>4
        <3>6. F[c] \in Int /\ F[x] \in Int /\ SumOf(F, r) \in Int
            <4>1. r \in SUBSET U
                BY <2>1
            <4>. QED
                BY <2>1, <2>2, <4>1, SumType
        <3>. HIDE DEF c, p, q, r
        <3>7. SumOf(F, s) = F[x] + SumOf(F, q)
            BY <2>2, <3>2, <3>5, <3>6
        <3>. QED
            BY <3>7 DEF q
    <2>. QED
        BY <2>4, <2>5
<1>3. Nat \subseteq S
    <2>. HIDE DEF S
    <2>. QED
        BY <1>1, <1>2, SetInduction
<1>4. Cardinality(T) \in Nat /\ T \in UpTo(U, Cardinality(T))
    BY FS_Subset, FS_CardinalityType DEF UpTo
<1>5. \A n \in Nat : \A s \in UpTo(U, n) : \A x \in s :
         SumOf(F, s) = F[x] + SumOf(F, s \ {x})
    BY <1>3
<1>. QED
    BY <1>4, <1>5

LEMMA SumAdd ==
    ASSUME NEW F, NEW U, IsFiniteSet(U), \A x \in U : F[x] \in Int,
           NEW T \in SUBSET U, NEW y \in U, y \notin T
    PROVE  SumOf(F, T \cup {y}) = SumOf(F, T) + F[y]
<1>1. T \cup {y} \in SUBSET U /\ (T \cup {y}) \ {y} = T /\ y \in T \cup {y}
    OBVIOUS
<1>. DEFINE V == T \cup {y}
<1>2. SumOf(F, V) = F[y] + SumOf(F, V \ {y})
    <2>1. V \in SUBSET U /\ y \in V
        BY <1>1
    <2>. HIDE DEF V
    <2>. QED
        BY <2>1, SumRemove
<1>3. SumOf(F, T) \in Int /\ F[y] \in Int
    BY SumType
<1>4. SumOf(F, T \cup {y}) = F[y] + SumOf(F, T)
    BY <1>1, <1>2
<1>. QED
    BY <1>3, <1>4

LEMMA SumUnion ==
    ASSUME NEW F, NEW U, IsFiniteSet(U), \A x \in U : F[x] \in Int,
           NEW A \in SUBSET U, NEW B \in SUBSET U, A \cap B = {}
    PROVE  SumOf(F, A \cup B) = SumOf(F, A) + SumOf(F, B)
<1>. DEFINE S == {n \in Nat : \A s \in UpTo(U, n) : s \cap B = {} =>
                      SumOf(F, s \cup B) = SumOf(F, s) + SumOf(F, B)}
<1>0. SumOf(F, B) \in Int
    BY SumType
<1>1. 0 \in S
    <2>. SUFFICES ASSUME NEW s \in UpTo(U, 0)
                  PROVE  SumOf(F, s \cup B) = SumOf(F, s) + SumOf(F, B)
        OBVIOUS
    <2>1. s \in SUBSET U /\ Cardinality(s) <= 0
        BY DEF UpTo
    <2>2. IsFiniteSet(s)
        BY <2>1, FS_Subset
    <2>3. s = {}
        BY <2>1, <2>2, FS_CardinalityType, FS_EmptySet
    <2>4. SumOf(F, {} \cup B) = SumOf(F, {}) + SumOf(F, B)
        <3>1. {} \cup B = B /\ SumOf(F, {}) = 0
            BY SumEmpty
        <3>. QED
            BY <1>0, <3>1
    <2>. QED
        BY <2>3, <2>4, Zenon
<1>2. ASSUME NEW n \in Nat, n \in S PROVE n + 1 \in S
    <2>. SUFFICES ASSUME NEW s \in UpTo(U, n + 1), s \cap B = {}
                  PROVE  SumOf(F, s \cup B) = SumOf(F, s) + SumOf(F, B)
        OBVIOUS
    <2>1. s \in SUBSET U
        BY DEF UpTo
    <2>2. CASE s = {}
        <3>1. s \cup B = B /\ SumOf(F, s) = 0
            BY <2>2, SumEmpty
        <3>. QED
            BY <1>0, <3>1
    <2>3. CASE s # {}
        <3>. DEFINE c == First(s)  p == s \ {c}
        <3>1. c \in s /\ p \in UpTo(U, n)
            BY <2>3, FirstIn, UpToLess
        <3>2. SumOf(F, p \cup B) = SumOf(F, p) + SumOf(F, B)
            <4>1. p \cap B = {}
                OBVIOUS
            <4>. QED
                BY <1>2, <3>1, <4>1
        <3>. HIDE DEF c
        <3>3. SumOf(F, s) = F[c] + SumOf(F, p)
            BY <2>1, <3>1, SumRemove
        <3>4. SumOf(F, s \cup B) = F[c] + SumOf(F, p \cup B)
            <4>. DEFINE t == s \cup B
            <4>1. t \in SUBSET U /\ c \in t /\ t \ {c} = p \cup B
                BY <2>1, <3>1
            <4>. HIDE DEF t, p
            <4>2. SumOf(F, t) = F[c] + SumOf(F, t \ {c})
                BY <4>1, SumRemove
            <4>. QED
                BY <4>1, <4>2 DEF t
        <3>5. SumOf(F, p) \in Int /\ F[c] \in Int
            BY <2>1, <3>1, SumType
        <3>. HIDE DEF p
        <3>. QED
            BY <1>0, <3>2, <3>3, <3>4, <3>5
    <2>. QED
        BY <2>2, <2>3
<1>3. Nat \subseteq S
    <2>. HIDE DEF S
    <2>. QED
        BY <1>1, <1>2, SetInduction
<1>4. IsFiniteSet(A) /\ Cardinality(A) \in Nat
    BY FS_Subset, FS_CardinalityType
<1>5. A \in UpTo(U, Cardinality(A))
    BY <1>4 DEF UpTo
<1>. QED
    BY <1>3, <1>4, <1>5

-----------------------------------------------------------------------------
(* The elements of a sequence, and a sequence that has each of them once.   *)
Distinct(s) == \A i, j \in 1..Len(s) : s[i] = s[j] => i = j

LEMMA CatSet ==
    ASSUME NEW X, NEW s \in Seq(X), NEW t \in Seq(X)
    PROVE  /\ s \o t \in Seq(X)
           /\ Len(s \o t) = Len(s) + Len(t)
           /\ ToSet(s \o t) = ToSet(s) \cup ToSet(t)
<1>1. /\ s \o t \in Seq(X) /\ Len(s \o t) = Len(s) + Len(t)
      /\ \A i \in 1..(Len(s) + Len(t)) :
            (s \o t)[i] = IF i <= Len(s) THEN s[i] ELSE t[i - Len(s)]
      /\ Len(s) \in Nat /\ Len(t) \in Nat
      /\ DOMAIN s = 1..Len(s) /\ DOMAIN t = 1..Len(t)
      /\ DOMAIN (s \o t) = 1..(Len(s) + Len(t))
    BY ConcatProperties
<1>2. ASSUME NEW i \in DOMAIN (s \o t)
      PROVE  (s \o t)[i] \in ToSet(s) \cup ToSet(t)
    <2>1. CASE i <= Len(s)
        BY <1>1, <2>1 DEF ToSet
    <2>2. CASE ~(i <= Len(s))
        <3>1. i - Len(s) \in 1..Len(t) /\ (s \o t)[i] = t[i - Len(s)]
            BY <1>1, <2>2
        <3>. QED
            BY <1>1, <3>1 DEF ToSet
    <2>. QED
        BY <2>1, <2>2
<1>3. ASSUME NEW i \in DOMAIN s PROVE s[i] \in ToSet(s \o t)
    <2>1. i \in DOMAIN (s \o t) /\ (s \o t)[i] = s[i]
        BY <1>1
    <2>. QED
        BY <2>1 DEF ToSet
<1>4. ASSUME NEW i \in DOMAIN t PROVE t[i] \in ToSet(s \o t)
    <2>. DEFINE k == Len(s) + i
    <2>1. /\ k \in 1..(Len(s) + Len(t)) /\ ~(k <= Len(s)) /\ k - Len(s) = i
        BY <1>1
    <2>. HIDE DEF k
    <2>2. k \in DOMAIN (s \o t) /\ (s \o t)[k] = t[i]
        BY <1>1, <2>1
    <2>. QED
        BY <2>2 DEF ToSet
<1>5. ToSet(s \o t) = ToSet(s) \cup ToSet(t)
    BY <1>2, <1>3, <1>4 DEF ToSet
<1>. QED
    BY <1>1, <1>5

LEMMA AppendSet ==
    ASSUME NEW X, NEW s \in Seq(X), NEW w \in X
    PROVE  /\ Append(s, w) \in Seq(X) /\ Len(Append(s, w)) = Len(s) + 1
           /\ ToSet(Append(s, w)) = ToSet(s) \cup {w}
<1>1. Append(s, w) = s \o <<w>> /\ <<w>> \in Seq(X) /\ Len(<<w>>) = 1
      /\ Append(s, w) \in Seq(X)
    OBVIOUS
<1>2. ToSet(<<w>>) = {w}
    BY DEF ToSet
<1>. DEFINE t == <<w>>
<1>3. t \in Seq(X)
    OBVIOUS
<1>. HIDE DEF t
<1>4. Len(s \o t) = Len(s) + Len(t) /\ ToSet(s \o t) = ToSet(s) \cup ToSet(t)
    BY <1>3, CatSet
<1>. QED
    BY <1>1, <1>2, <1>4 DEF t

LEMMA TailSet ==
    ASSUME NEW X, NEW s \in Seq(X), s # <<>>
    PROVE  /\ Head(s) \in X /\ Tail(s) \in Seq(X)
           /\ Len(s) \in Nat /\ Len(Tail(s)) = Len(s) - 1
           /\ ToSet(s) = {Head(s)} \cup ToSet(Tail(s))
<1>1. /\ Tail(s) \in Seq(X) /\ Len(Tail(s)) = Len(s) - 1 /\ Len(s) \in Nat
      /\ Head(s) \in X /\ Len(s) # 0 /\ Head(s) = s[1]
      /\ DOMAIN s = 1..Len(s) /\ DOMAIN Tail(s) = 1..(Len(s) - 1)
      /\ \A i \in 1..(Len(s) - 1) : Tail(s)[i] = s[i + 1]
    OBVIOUS
<1>2. \A i \in DOMAIN s : s[i] \in {Head(s)} \cup ToSet(Tail(s))
    <2>. SUFFICES ASSUME NEW i \in DOMAIN s, i # 1 PROVE s[i] \in ToSet(Tail(s))
        BY <1>1
    <2>1. i - 1 \in DOMAIN Tail(s) /\ Tail(s)[i - 1] = s[(i - 1) + 1] /\ (i - 1) + 1 = i
        BY <1>1
    <2>. QED
        BY <2>1 DEF ToSet
<1>3. \A i \in DOMAIN Tail(s) : Tail(s)[i] \in ToSet(s)
    <2>. SUFFICES ASSUME NEW i \in DOMAIN Tail(s) PROVE Tail(s)[i] \in ToSet(s)
        OBVIOUS
    <2>1. Tail(s)[i] = s[i + 1] /\ i + 1 \in DOMAIN s
        BY <1>1
    <2>. QED
        BY <2>1 DEF ToSet
<1>4. Head(s) \in ToSet(s)
    BY <1>1 DEF ToSet
<1>5. ToSet(s) = {Head(s)} \cup ToSet(Tail(s))
    BY <1>2, <1>3, <1>4 DEF ToSet
<1>. QED
    BY <1>1, <1>5

LEMMA DistinctCat ==
    ASSUME NEW X, NEW s \in Seq(X), NEW t \in Seq(X), Distinct(s), Distinct(t),
           ToSet(s) \cap ToSet(t) = {}
    PROVE  Distinct(s \o t)
<1>. DEFINE r == s \o t  m == Len(s)  n == Len(t)
<1>1. /\ m \in Nat /\ n \in Nat /\ Len(r) = m + n
      /\ \A i \in 1..(m + n) : r[i] = IF i <= m THEN s[i] ELSE t[i - m]
      /\ \A i \in 1..m : s[i] \in ToSet(s)
      /\ \A i \in 1..n : t[i] \in ToSet(t)
    BY ConcatProperties DEF ToSet
<1>2. /\ \A i, j \in 1..m : s[i] = s[j] => i = j
      /\ \A i, j \in 1..n : t[i] = t[j] => i = j
    BY DEF Distinct
<1>. HIDE DEF r, m, n
<1>. SUFFICES ASSUME NEW i \in 1..(m + n), NEW j \in 1..(m + n), r[i] = r[j]
              PROVE  i = j
    BY <1>1 DEF Distinct, r
<1>3. CASE i <= m /\ j <= m
    <2>1. i \in 1..m /\ j \in 1..m
        BY <1>1, <1>3
    <2>2. s[i] = s[j]
        BY <1>1, <1>3
    <2>. QED
        BY <1>2, <2>1, <2>2
<1>4. CASE ~(i <= m) /\ ~(j <= m)
    <2>1. i - m \in 1..n /\ j - m \in 1..n /\ t[i - m] = t[j - m]
        BY <1>1, <1>4
    <2>2. i - m = j - m
        BY <1>2, <2>1
    <2>. QED
        BY <1>1, <2>2
<1>5. \A k \in 1..(m + n) : IF k <= m THEN r[k] \in ToSet(s) ELSE r[k] \in ToSet(t)
    <2>. SUFFICES ASSUME NEW k \in 1..(m + n)
                  PROVE  IF k <= m THEN r[k] \in ToSet(s) ELSE r[k] \in ToSet(t)
        OBVIOUS
    <2>1. CASE k <= m
        <3>1. k \in 1..m
            BY <1>1, <2>1
        <3>. QED
            BY <1>1, <2>1, <3>1
    <2>2. CASE ~(k <= m)
        <3>1. k - m \in 1..n
            BY <1>1, <2>2
        <3>. QED
            BY <1>1, <2>2, <3>1
    <2>. QED
        BY <2>1, <2>2
<1>. QED
    BY <1>3, <1>4, <1>5

LEMMA DistinctAppend ==
    ASSUME NEW X, NEW s \in Seq(X), NEW w \in X, Distinct(s), w \notin ToSet(s)
    PROVE  Distinct(Append(s, w))
<1>1. Append(s, w) = s \o <<w>> /\ <<w>> \in Seq(X)
    OBVIOUS
<1>2. Distinct(<<w>>) /\ ToSet(<<w>>) = {w}
    BY DEF Distinct, ToSet
<1>. QED
    BY <1>1, <1>2, DistinctCat

LEMMA DistinctTail ==
    ASSUME NEW X, NEW s \in Seq(X), s # <<>>, Distinct(s)
    PROVE  Distinct(Tail(s)) /\ Head(s) \notin ToSet(Tail(s))
<1>. DEFINE r == Tail(s)
<1>1. /\ Len(s) \in Nat /\ Len(r) = Len(s) - 1 /\ Len(s) # 0 /\ Head(s) = s[1]
      /\ \A i \in 1..Len(r) : r[i] = s[i + 1]
      /\ DOMAIN r = 1..Len(r)
    OBVIOUS
<1>. HIDE DEF r
<1>2. \A i \in 1..Len(r) : i + 1 \in 1..Len(s) /\ i + 1 # 1 /\ 1 \in 1..Len(s)
    BY <1>1
<1>3. ASSUME NEW i \in 1..Len(r), NEW j \in 1..Len(r), r[i] = r[j] PROVE i = j
    <2>1. i + 1 = j + 1
        BY <1>1, <1>2, <1>3 DEF Distinct
    <2>. QED
        BY <2>1
<1>4. \A i \in 1..Len(r) : r[i] # Head(s)
    BY <1>1, <1>2 DEF Distinct
<1>. QED
    BY <1>1, <1>3, <1>4 DEF Distinct, ToSet, r

LEMMA DistinctLen ==
    ASSUME NEW X, NEW s \in Seq(X), Distinct(s)
    PROVE  Len(s) = Cardinality(ToSet(s))
<1>1. Len(s) \in Nat /\ DOMAIN s = 1..Len(s) /\ s = [i \in 1..Len(s) |-> s[i]]
    OBVIOUS
<1>. DEFINE D == 1..Len(s)
<1>2. s \in Bijection(D, ToSet(s))
    BY <1>1 DEF Bijection, Injection, Surjection, IsInjective, Distinct, ToSet
<1>3. ExistsBijection(D, ToSet(s))
    BY <1>2 DEF ExistsBijection
<1>. QED
    BY <1>1, <1>3, FS_CountingElements
=============================================================================
