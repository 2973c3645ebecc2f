------------------------------ MODULE DuplexProofs ------------------------------
(* Proofs about Duplex, for every size of its chunks, mark, bound and use.  *)
EXTENDS Duplex, DataTheorems

-----------------------------------------------------------------------------
(* Type correctness.                                                        *)
TickKinds == {"late", "autoEnd", "ok", "err", "finish", "finishErr", "close", "drain"}
Ticks == [kind : TickKinds, n : Nat]
Parts == {"next", "settle", "release", "errNext", "uncorked"}
Finals == [stage : {"flush", "final"}, id : Nat, err : BOOLEAN]

BufTypes ==
    /\ nw \in 0..MaxWrites /\ length \in Int /\ corked \in {0, 1}
    /\ needDrain \in BOOLEAN /\ writing \in BOOLEAN
    /\ corkedBuf \in Seq(Writes) /\ queue \in Seq(Writes)
EndTypes ==
    /\ pendEnd \in Nat /\ ends \in Nat /\ ended \in BOOLEAN /\ finished \in BOOLEAN
    /\ finals \in SUBSET Finals /\ readEnd \in BOOLEAN
SinkTypes ==
    /\ inflight \in SUBSET Writes /\ flushed \in SUBSET Writes
    /\ out \in Seq(Nat) /\ issued \in Seq(Writes) /\ called \in SUBSET Nat
TypeOK ==
    /\ use \in Uses /\ owed \in BOOLEAN
    /\ BufTypes /\ EndTypes /\ SinkTypes
    /\ ticks \in Seq(Ticks) /\ cur \in Seq(Parts)


LEMMA TickType ==
    /\ \A k \in TickKinds, n \in Nat : Tick(k, n) \in Ticks
    /\ \A s \in Seq(Ticks), t \in Ticks : Append(s, t) \in Seq(Ticks)
    /\ \A s \in Seq(Ticks) : s # <<>> => Head(s) \in Ticks /\ Tail(s) \in Seq(Ticks)
    /\ TickKinds = {"late", "autoEnd", "ok", "err", "finish", "finishErr", "close",
                    "drain"}
<1>1. \A k \in TickKinds, n \in Nat : Tick(k, n) \in Ticks
    BY DEF Tick, Ticks
<1>2. \A s \in Seq(Ticks), t \in Ticks : Append(s, t) \in Seq(Ticks)
    OBVIOUS
<1>3. \A s \in Seq(Ticks) : s # <<>> => Head(s) \in Ticks /\ Tail(s) \in Seq(Ticks)
    OBVIOUS
<1>. QED
    BY <1>1, <1>2, <1>3 DEF TickKinds

LEMMA PartType ==
    /\ <<>> \in Seq(Parts)
    /\ \A s \in Seq(Parts), k \in Parts : <<k>> \o s \in Seq(Parts)
    /\ \A s \in Seq(Parts) : s # <<>> => Tail(s) \in Seq(Parts)
    /\ Parts = {"next", "settle", "release", "errNext", "uncorked"}
<1>1. \A s \in Seq(Parts), k \in Parts : <<k>> \o s \in Seq(Parts)
    OBVIOUS
<1>. QED
    BY <1>1 DEF Parts

(* What the callback of _final or _flush leaves alone.                      *)
LEMMA FinalFrame ==
    FinalCallback => UNCHANGED <<use, bufVars, pendEnd, ends, ended, readEnd,
                                 inflight, flushed, issued, cur, called,
                                 events, owed>>
BY Zenon DEF FinalCallback

LEMMA TypeInit == Init => TypeOK
<1>. SUFFICES ASSUME Init PROVE TypeOK
    OBVIOUS
<1>1. BufTypes
    <2>1. 0 \in 0..MaxWrites /\ <<>> \in Seq(Writes)
        BY BoundAssumption
    <2>2. /\ nw = 0 /\ length = 0 /\ corked = 0 /\ needDrain = FALSE
          /\ corkedBuf = <<>> /\ writing = FALSE /\ queue = <<>>
        BY DEF Init
    <2>3. nw \in 0..MaxWrites /\ length \in Int /\ corked \in {0, 1}
        BY <2>1, <2>2
    <2>4. needDrain \in BOOLEAN /\ writing \in BOOLEAN
        BY <2>2
    <2>5. corkedBuf \in Seq(Writes) /\ queue \in Seq(Writes)
        BY <2>1, <2>2, Zenon
    <2>. QED
        BY <2>3, <2>4, <2>5 DEF BufTypes
<1>2. EndTypes
    BY DEF Init, EndTypes
<1>3. SinkTypes
    BY DEF Init, SinkTypes
<1>4. use \in Uses /\ owed \in BOOLEAN /\ ticks \in Seq(Ticks) /\ cur \in Seq(Parts)
    <2>1. use \in Uses /\ owed = FALSE /\ ticks = <<>> /\ cur = <<>>
        BY DEF Init
    <2>2. <<>> \in Seq(Ticks) /\ <<>> \in Seq(Parts)
        OBVIOUS
    <2>. QED
        BY <2>1, <2>2, Zenon
<1>. QED
    BY <1>1, <1>2, <1>3, <1>4 DEF TypeOK

(* A write that is accepted.                                                *)
LEMMA AcceptType ==
    ASSUME TypeOK, nw < MaxWrites, Accept
    PROVE  /\ nw + 1 \in Writes /\ BufTypes' /\ owed' \in BOOLEAN
           /\ inflight' \in SUBSET Writes /\ issued' \in Seq(Writes)
<1>1. nw + 1 \in Writes /\ nw + 1 \in 0..MaxWrites
    BY BoundAssumption DEF TypeOK, BufTypes, Writes
<1>2. Size[nw + 1] \in Int
    BY <1>1, SizeAssumption
<1>. DEFINE w == nw + 1
            below == length + Size[w] < HWM
<1>. HIDE DEF w
<1>3. /\ nw' = w /\ length' = length + Size[w]
      /\ owed' = (owed \/ ~below)
      /\ needDrain' = (needDrain \/ (corked = 0 /\ ~below))
      /\ corkedBuf' = IF corked > 0 THEN Append(corkedBuf, w) ELSE corkedBuf
      /\ queue' = IF corked = 0 /\ writing THEN Append(queue, w) ELSE queue
      /\ \/ /\ writing' = TRUE /\ inflight' = inflight \cup {w}
            /\ issued' = Append(issued, w)
         \/ UNCHANGED <<writing, inflight, issued>>
      /\ corked' = corked
    BY DEF Accept, Locked, w
<1>. HIDE DEF below
<1>4. w \in Writes /\ w \in 0..MaxWrites /\ Size[w] \in Int
    BY <1>1, <1>2 DEF w
<1>5. corkedBuf' \in Seq(Writes) /\ queue' \in Seq(Writes)
    <2>1. Append(corkedBuf, w) \in Seq(Writes) /\ Append(queue, w) \in Seq(Writes)
        BY <1>4 DEF TypeOK, BufTypes
    <2>. QED
        BY <1>3, <2>1 DEF TypeOK, BufTypes
<1>6. inflight' \in SUBSET Writes /\ issued' \in Seq(Writes)
    <2>1. Append(issued, w) \in Seq(Writes) /\ inflight \cup {w} \in SUBSET Writes
        BY <1>4 DEF TypeOK, SinkTypes
    <2>. QED
        BY <1>3, <2>1 DEF TypeOK, SinkTypes
<1>7. writing' \in BOOLEAN /\ needDrain' \in BOOLEAN /\ owed' \in BOOLEAN
    <2>1. writing \in BOOLEAN
        BY DEF TypeOK, BufTypes
    <2>. QED
        BY <1>3, <2>1
<1>8. nw' \in 0..MaxWrites /\ length' \in Int /\ corked' \in {0, 1}
    BY <1>3, <1>4 DEF TypeOK, BufTypes
<1>. QED
    BY <1>1, <1>5, <1>6, <1>7, <1>8 DEF BufTypes

LEMMA FinalType ==
    ASSUME TypeOK, NEW id \in Nat, DoFinal(id)
    PROVE  finals' \in SUBSET Finals
<1>1. [stage |-> IF use.transform /\ ~use.ownFinal THEN "flush" ELSE "final",
       id |-> id, err |-> FALSE] \in Finals
    BY DEF Finals
<1>. QED
    BY <1>1 DEF DoFinal, TypeOK, EndTypes

LEMMA EndBodyType ==
    ASSUME TypeOK, NEW id \in Nat, EndBody(id)
    PROVE  ended' \in BOOLEAN /\ pendEnd' \in Nat /\ finals' \in SUBSET Finals
<1>1. finals \in SUBSET Finals /\ pendEnd \in Nat
    BY DEF TypeOK, EndTypes
<1>. QED
    BY <1>1, FinalType DEF EndBody

LEMMA SettleType ==
    ASSUME TypeOK, Settle
    PROVE  pendEnd' \in Nat /\ finals' \in SUBSET Finals
<1>1. finals \in SUBSET Finals /\ pendEnd \in Nat
    BY DEF TypeOK, EndTypes
<1>. QED
    BY <1>1, FinalType DEF Settle

LEMMA StartNextType ==
    ASSUME TypeOK, queue # <<>>, StartNext
    PROVE  /\ queue' \in Seq(Writes) /\ inflight' \in SUBSET Writes
           /\ issued' \in Seq(Writes)
<1>1. /\ queue \in Seq(Writes) /\ Head(queue) \in Writes /\ Tail(queue) \in Seq(Writes)
      /\ issued \in Seq(Writes) /\ inflight \in SUBSET Writes
    BY DEF TypeOK, BufTypes, SinkTypes
<1>. QED
    BY <1>1 DEF StartNext

LEMMA UserType ==
    ASSUME TypeOK, UserStep
    PROVE  TypeOK'
<1>. USE DEF TypeOK
<1>1. CASE Write
    <2>1. /\ BufTypes' /\ owed' \in BOOLEAN
          /\ inflight' \in SUBSET Writes /\ issued' \in Seq(Writes)
        BY <1>1, AcceptType DEF Write
    <2>. QED
        BY <1>1, <2>1 DEF Write, EndTypes, SinkTypes, endVars
<1>2. CASE WriteAfterEnd
    <2>1. LateTick \in Ticks
        BY TickType DEF LateTick
    <2>2. ticks' \in Seq(Ticks)
        BY <1>2, <2>1, TickType DEF WriteAfterEnd, Defer
    <2>. QED
        BY <1>2, <2>2 DEF WriteAfterEnd, BufTypes, EndTypes, SinkTypes, bufVars,
                          endVars, sinkVars
<1>3. CASE End
    <2>1. /\ BufTypes' /\ owed' \in BOOLEAN
          /\ inflight' \in SUBSET Writes /\ issued' \in Seq(Writes)
        <3>1. CASE nw < MaxWrites /\ Accept
            BY <3>1, AcceptType
        <3>2. CASE UNCHANGED <<bufVars, inflight, issued, owed>>
            BY <3>2 DEF bufVars, BufTypes, SinkTypes
        <3>. QED
            BY <1>3, <3>1, <3>2 DEF End
    <2>2. EndBody(ends + 1) /\ ends' = ends + 1 /\ ends + 1 \in Nat
        BY <1>3 DEF End, EndTypes
    <2>3. EndTypes'
        BY <1>3, <2>2, EndBodyType DEF End, EndTypes
    <2>. QED
        BY <1>3, <2>1, <2>3 DEF End, SinkTypes
<1>4. CASE CorkCall
    BY <1>4 DEF CorkCall, BufTypes, EndTypes, SinkTypes, endVars, sinkVars
<1>5. CASE Uncork
    <2>1. flushed' \in SUBSET Writes /\ issued' \in Seq(Writes)
        <3>1. corkedBuf \in Seq(Writes) /\ issued \in Seq(Writes)
            BY DEF BufTypes, SinkTypes
        <3>2. ToSet(corkedBuf) \in SUBSET Writes /\ issued \o corkedBuf \in Seq(Writes)
            BY <3>1 DEF ToSet
        <3>. QED
            BY <1>5, <3>2 DEF Uncork, SinkTypes
    <2>2. cur' \in Seq(Parts)
        <3>1. <<"uncorked">> \o cur \in Seq(Parts)
            BY PartType
        <3>. QED
            BY <1>5, <3>1 DEF Uncork
    <2>3. corkedBuf' \in Seq(Writes)
        BY <1>5 DEF Uncork
    <2>. QED
        BY <1>5, <2>1, <2>2, <2>3 DEF Uncork, BufTypes, EndTypes, SinkTypes, endVars
<1>. QED
    BY <1>1, <1>2, <1>3, <1>4, <1>5 DEF UserStep

(* The sink is done with a write.                                           *)
LEMMA DoneType ==
    ASSUME TypeOK, NEW w \in Writes, NEW ok
    PROVE  Release(w) \in Int /\ Output(w, ok) \in Seq(Nat)
<1>1. Size[w] \in Int /\ length \in Int
    BY SizeAssumption DEF TypeOK, BufTypes
<1>2. out \in Seq(Nat) /\ w \in Nat
    BY DEF TypeOK, SinkTypes, Writes
<1>3. Append(out, w) \in Seq(Nat)
    BY <1>2
<1>. QED
    BY <1>1, <1>2, <1>3 DEF Release, Output

LEMMA SinkType ==
    ASSUME TypeOK, SinkStep
    PROVE  TypeOK'
<1>. USE DEF TypeOK
<1>1. CASE WriteCallback
    <2>1. PICK w \in inflight, ok \in Answers :
              /\ inflight' = inflight \ {w} /\ length' = Release(w)
              /\ out' = Output(w, ok)
              /\ ticks' = Defer(Tick(IF ok THEN "ok" ELSE "err", w))
        BY <1>1 DEF WriteCallback
    <2>2. w \in Writes /\ w \in Nat
        BY DEF SinkTypes, Writes
    <2>3. ticks' \in Seq(Ticks)
        <3>1. Tick(IF ok THEN "ok" ELSE "err", w) \in Ticks
            BY <2>2, TickType
        <3>. QED
            BY <2>1, <3>1, TickType DEF Defer
    <2>4. length' \in Int /\ out' \in Seq(Nat) /\ inflight' \in SUBSET Writes
        BY <2>1, <2>2, DoneType DEF SinkTypes
    <2>. QED
        BY <1>1, <2>3, <2>4 DEF WriteCallback, BufTypes, EndTypes, SinkTypes, endVars
<1>2. CASE FlushCallback
    <2>1. PICK w \in flushed, ok \in Answers :
              /\ flushed' = flushed \ {w} /\ length' = Release(w)
              /\ out' = Output(w, ok) /\ called' = called \cup {w}
        BY <1>2 DEF FlushCallback
    <2>2. w \in Writes
        BY DEF SinkTypes
    <2>3. /\ length' \in Int /\ out' \in Seq(Nat) /\ flushed' \in SUBSET Writes
          /\ called' \in SUBSET Nat
        <3>1. w \in Nat
            BY <2>2 DEF Writes
        <3>. QED
            BY <2>1, <2>2, <3>1, DoneType DEF SinkTypes
    <2>. QED
        BY <1>2, <2>3 DEF FlushCallback, BufTypes, EndTypes, SinkTypes, endVars
<1>3. CASE FinalCallback
    <2>1. PICK f \in finals, ok \in Answers :
              /\ out' = IF f.stage = "flush" /\ ok THEN Append(out, Null) ELSE out
              /\ IF f.stage = "final" /\ use.transform
                 THEN /\ finals' = (finals \ {f})
                           \cup {[f EXCEPT !.stage = "flush", !.err = ~ok]}
                      /\ UNCHANGED ticks
                 ELSE /\ finals' = finals \ {f}
                      /\ ticks' = Defer(FinishTick(f, ok))
        BY <1>3 DEF FinalCallback
    <2>2. f \in Finals /\ f.id \in Nat /\ ok \in BOOLEAN
        <3>1. f \in Finals
            BY DEF EndTypes
        <3>2. use.fails \in BOOLEAN
            BY UseAssumption
        <3>. QED
            BY <3>1, <3>2 DEF Finals, Answers
    <2>3. [f EXCEPT !.stage = "flush", !.err = ~ok] \in Finals
        BY <2>2 DEF Finals
    <2>4. finals' \in SUBSET Finals
        BY <2>1, <2>3 DEF EndTypes
    <2>5. ticks' \in Seq(Ticks)
        <3>1. \A k \in {"finish", "finishErr"} : Append(ticks, Tick(k, f.id)) \in Seq(Ticks)
            BY <2>2, TickType
        <3>. QED
            BY <2>1, <3>1 DEF Defer, FinishTick
    <2>6. out' \in Seq(Nat)
        <3>1. Append(out, Null) \in Seq(Nat) /\ out \in Seq(Nat)
            BY DEF SinkTypes, Null
        <3>. QED
            BY <2>1, <3>1
    <2>. QED
        BY <1>3, <2>4, <2>5, <2>6 DEF FinalCallback, BufTypes, EndTypes, SinkTypes,
                                      bufVars
<1>. QED
    BY <1>1, <1>2, <1>3 DEF SinkStep

LEMMA CallType ==
    ASSUME TypeOK, CallStep
    PROVE  TypeOK'
<1>. USE DEF TypeOK
<1>0. cur # <<>> /\ Tail(cur) \in Seq(Parts)
    <2>1. cur # <<>>
        BY DEF CallStep, NextPart, SettlePart, ReleasePart, ErrNextPart, UncorkRest, Part
    <2>. QED
        BY <2>1, PartType
<1>1. CASE NextPart
    <2>1. cur' \in Seq(Parts)
        <3>1. <<"settle">> \o Tail(cur) \in Seq(Parts)
            BY <1>0, PartType
        <3>. QED
            BY <1>0, <1>1, <3>1 DEF NextPart
    <2>2. CASE queue # <<>> /\ StartNext
               /\ UNCHANGED <<writing, needDrain, pendEnd, finals, events, owed>>
        BY <1>1, <2>1, <2>2, StartNextType
           DEF NextPart, BufTypes, EndTypes, SinkTypes
    <2>3. CASE /\ writing' = FALSE /\ needDrain' \in BOOLEAN /\ owed' \in BOOLEAN
               /\ Settle \/ UNCHANGED <<pendEnd, finals>>
               /\ UNCHANGED <<queue, inflight, issued>>
        <3>1. pendEnd' \in Nat /\ finals' \in SUBSET Finals
            BY <2>3, SettleType DEF EndTypes
        <3>. QED
            BY <1>1, <2>1, <2>3, <3>1 DEF NextPart, BufTypes, EndTypes, SinkTypes
    <2>. QED
        BY <1>1, <2>2, <2>3 DEF NextPart, BufTypes
<1>2. CASE SettlePart
    BY <1>0, <1>2, SettleType DEF SettlePart, BufTypes, EndTypes, SinkTypes, bufVars,
                                  sinkVars
<1>3. CASE ReleasePart
    <2>1. <<"errNext">> \o Tail(cur) \in Seq(Parts)
        BY <1>0, PartType
    <2>. QED
        BY <1>3, <2>1 DEF ReleasePart, BufTypes, EndTypes, SinkTypes, endVars, sinkVars
<1>4. CASE ErrNextPart
    <2>1. /\ queue' \in Seq(Writes) /\ inflight' \in SUBSET Writes
          /\ issued' \in Seq(Writes) /\ writing' \in BOOLEAN
        <3>1. CASE queue # <<>>
            BY <1>4, <3>1, StartNextType DEF ErrNextPart
        <3>2. CASE queue = <<>>
            BY <1>4, <3>2 DEF ErrNextPart, BufTypes, SinkTypes
        <3>. QED
            BY <3>1, <3>2
    <2>. QED
        BY <1>0, <1>4, <2>1 DEF ErrNextPart, BufTypes, EndTypes, SinkTypes, endVars
<1>5. CASE UncorkRest
    <2>1. ticks' \in Seq(Ticks)
        BY <1>5, TickType DEF UncorkRest, Defer
    <2>2. needDrain' \in BOOLEAN
        BY <1>5 DEF UncorkRest, BufTypes
    <2>. QED
        BY <1>0, <1>5, <2>1, <2>2 DEF UncorkRest, BufTypes, EndTypes, SinkTypes, endVars,
                                      sinkVars
<1>. QED
    BY <1>1, <1>2, <1>3, <1>4, <1>5 DEF CallStep

LEMMA RunTickType == TypeOK /\ RunTick => TypeOK'
<1>. SUFFICES ASSUME TypeOK, RunTick PROVE TypeOK'
    OBVIOUS
<1>. USE DEF TypeOK
<1>. DEFINE t == Head(ticks)
<1>1. /\ owed' = (owed /\ t.kind # "drain")
      /\ called' = IF t.kind \in {"ok", "err"} THEN called \cup {t.n} ELSE called
      /\ cur' = CASE t.kind = "ok" -> <<"next">>
                  [] t.kind = "err" -> <<"release">>
                  [] OTHER -> <<>>
      /\ ticks' = IF t.kind \in {"finish", "finishErr"}
                  THEN Append(Tail(ticks), Tick("close", 0)) ELSE Tail(ticks)
      /\ UNCHANGED <<bufVars, inflight, issued>>
      /\ EndBody(MaxEnds + 1) \/ UNCHANGED <<ended, pendEnd, finals>>
      /\ UNCHANGED <<use, ends, finished, readEnd, flushed, out>>
      /\ ticks # <<>>
    BY DEF RunTick
<1>2. t \in Ticks /\ Tail(ticks) \in Seq(Ticks) /\ t.n \in Nat
    BY <1>1, TickType DEF Ticks
<1>. HIDE DEF t
<1>3. ticks' \in Seq(Ticks)
    <2>1. Append(Tail(ticks), Tick("close", 0)) \in Seq(Ticks)
        BY <1>2, TickType
    <2>. QED
        BY <1>1, <1>2, <2>1
<1>4. cur' \in Seq(Parts)
    <2>1. <<"next">> \in Seq(Parts) /\ <<"release">> \in Seq(Parts) /\ <<>> \in Seq(Parts)
        BY DEF Parts
    <2>. QED
        BY <1>1, <2>1
<1>5. called' \in SUBSET Nat /\ owed' \in BOOLEAN
    BY <1>1, <1>2 DEF SinkTypes
<1>6. EndTypes'
    <2>1. MaxEnds + 1 \in Nat
        BY BoundAssumption
    <2>2. ended' \in BOOLEAN /\ pendEnd' \in Nat /\ finals' \in SUBSET Finals
        BY <1>1, <2>1, EndBodyType DEF EndTypes
    <2>. QED
        BY <1>1, <2>2 DEF EndTypes
<1>. QED
    BY <1>1, <1>3, <1>4, <1>5, <1>6 DEF BufTypes, SinkTypes, bufVars

LEMMA TypeStep == TypeOK /\ [Next]_vars => TypeOK'
<1>. SUFFICES ASSUME TypeOK, [Next]_vars PROVE TypeOK'
    OBVIOUS
<1>1. CASE ReadableEnd
    <2>1. Tick("autoEnd", 0) \in Ticks
        BY TickType
    <2>2. ticks' \in Seq(Ticks)
        BY <1>1, <2>1, TickType DEF ReadableEnd, TypeOK, Defer
    <2>. QED
        BY <1>1, <2>2 DEF ReadableEnd, TypeOK, BufTypes, EndTypes, SinkTypes, bufVars,
                          sinkVars
<1>2. CASE UNCHANGED vars
    BY <1>2 DEF vars, TypeOK, BufTypes, EndTypes, SinkTypes, bufVars, endVars, sinkVars
<1>. QED
    BY <1>1, <1>2, UserType, SinkType, CallType, RunTickType DEF Next

(* Every reachable state of the stream is well typed, however it is used.   *)
THEOREM TypeCorrect == Spec => []TypeOK
<1>. QED
    BY TypeInit, TypeStep, PTL DEF Spec

-----------------------------------------------------------------------------
(* Each accepted write is in the corked buffer or the queue, or was given to*)
(* the sink, once.                                                          *)
Placed == LET all == corkedBuf \o queue \o issued
          IN  Len(all) = nw /\ ToSet(all) = 1..nw

PlacedInv ==
    /\ Len(corkedBuf) + Len(queue) + Len(issued) = nw
    /\ ToSet(corkedBuf) \cup ToSet(queue) \cup ToSet(issued) = 1..nw

LEMMA PlacedAccept ==
    ASSUME TypeOK, PlacedInv, nw < MaxWrites, Accept
    PROVE  PlacedInv'
<1>. DEFINE w == nw + 1
<1>1. /\ w \in Writes /\ nw \in Nat /\ corked \in {0, 1}
      /\ corkedBuf \in Seq(Writes) /\ queue \in Seq(Writes) /\ issued \in Seq(Writes)
    BY AcceptType DEF TypeOK, BufTypes, SinkTypes
<1>2. Len(corkedBuf) \in Nat /\ Len(queue) \in Nat /\ Len(issued) \in Nat
    BY <1>1
<1>3. nw' = w /\ 1..w = (1..nw) \cup {w}
    BY <1>1 DEF Accept
<1>. HIDE DEF w
<1>4. \/ /\ corkedBuf' = Append(corkedBuf, w) /\ queue' = queue /\ issued' = issued
      \/ /\ corkedBuf' = corkedBuf /\ queue' = Append(queue, w) /\ issued' = issued
      \/ /\ corkedBuf' = corkedBuf /\ queue' = queue /\ issued' = Append(issued, w)
    BY <1>1 DEF Accept, w
<1>5. \A s \in Seq(Writes) : /\ Len(Append(s, w)) = Len(s) + 1
                             /\ ToSet(Append(s, w)) = ToSet(s) \cup {w}
    BY <1>1, AppendSet
<1>6. Len(corkedBuf') + Len(queue') + Len(issued') = w
    <2>1. Len(corkedBuf) + Len(queue) + Len(issued) + 1 = w
        BY DEF PlacedInv, w
    <2>2. CASE corkedBuf' = Append(corkedBuf, w) /\ queue' = queue /\ issued' = issued
        BY <1>1, <1>2, <1>5, <2>1, <2>2
    <2>3. CASE corkedBuf' = corkedBuf /\ queue' = Append(queue, w) /\ issued' = issued
        <3>1. Len(queue') = Len(queue) + 1
            BY <1>1, <1>5, <2>3
        <3>. QED
            BY <1>2, <2>1, <2>3, <3>1
    <2>4. CASE corkedBuf' = corkedBuf /\ queue' = queue /\ issued' = Append(issued, w)
        <3>1. Len(issued') = Len(issued) + 1
            BY <1>1, <1>5, <2>4
        <3>. QED
            BY <1>2, <2>1, <2>4, <3>1
    <2>. QED
        BY <1>4, <2>2, <2>3, <2>4
<1>7. ToSet(corkedBuf') \cup ToSet(queue') \cup ToSet(issued')
         = ToSet(corkedBuf) \cup ToSet(queue) \cup ToSet(issued) \cup {w}
    <2>1. CASE corkedBuf' = Append(corkedBuf, w) /\ queue' = queue /\ issued' = issued
        BY <1>1, <1>5, <2>1
    <2>2. CASE corkedBuf' = corkedBuf /\ queue' = Append(queue, w) /\ issued' = issued
        BY <1>1, <1>5, <2>2
    <2>3. CASE corkedBuf' = corkedBuf /\ queue' = queue /\ issued' = Append(issued, w)
        BY <1>1, <1>5, <2>3
    <2>. QED
        BY <1>4, <2>1, <2>2, <2>3
<1>8. ToSet(corkedBuf') \cup ToSet(queue') \cup ToSet(issued') = 1..nw'
    BY <1>3, <1>7 DEF PlacedInv
<1>. QED
    BY <1>3, <1>6, <1>8 DEF PlacedInv, ToSet

LEMMA PlacedStartNext ==
    ASSUME TypeOK, PlacedInv, queue # <<>>, StartNext, UNCHANGED <<nw, corkedBuf>>
    PROVE  PlacedInv'
<1>1. /\ queue \in Seq(Writes) /\ issued \in Seq(Writes) /\ corkedBuf \in Seq(Writes)
    BY DEF TypeOK, BufTypes, SinkTypes
<1>2. Len(corkedBuf) \in Nat /\ Len(issued) \in Nat
    BY <1>1
<1>. DEFINE h == Head(queue)  r == Tail(queue)
<1>3. /\ h \in Writes /\ r \in Seq(Writes) /\ Len(queue) \in Nat
      /\ Len(r) = Len(queue) - 1
      /\ ToSet(queue) = {h} \cup ToSet(r)
    BY <1>1, TailSet
<1>4. queue' = r /\ issued' = Append(issued, h)
    BY DEF StartNext
<1>. HIDE DEF h, r
<1>5. Len(issued') = Len(issued) + 1 /\ ToSet(issued') = ToSet(issued) \cup {h}
    BY <1>1, <1>3, <1>4, AppendSet
<1>6. Len(corkedBuf') + Len(queue') + Len(issued') = nw'
    <2>1. Len(corkedBuf) + Len(queue) + Len(issued) = nw
        BY DEF PlacedInv
    <2>2. Len(queue') = Len(queue) - 1
        BY <1>3, <1>4
    <2>. QED
        BY <1>2, <1>3, <1>5, <2>1, <2>2
<1>7. ToSet(corkedBuf') \cup ToSet(queue') \cup ToSet(issued') = 1..nw'
    BY <1>3, <1>4, <1>5 DEF PlacedInv
<1>. QED
    BY <1>6, <1>7 DEF PlacedInv, ToSet

LEMMA PlacedUncork ==
    ASSUME TypeOK, PlacedInv, UNCHANGED <<nw, queue>>,
           corkedBuf' = <<>>, issued' = issued \o corkedBuf
    PROVE  PlacedInv'
<1>1. /\ queue \in Seq(Writes) /\ issued \in Seq(Writes) /\ corkedBuf \in Seq(Writes)
    BY DEF TypeOK, BufTypes, SinkTypes
<1>2. /\ Len(issued') = Len(issued) + Len(corkedBuf)
      /\ ToSet(issued') = ToSet(issued) \cup ToSet(corkedBuf)
    BY <1>1, CatSet
<1>3. Len(corkedBuf') = 0 /\ ToSet(corkedBuf') = {}
    BY DEF ToSet
<1>4. Len(corkedBuf') + Len(queue') + Len(issued') = nw'
    <2>1. Len(corkedBuf) \in Nat /\ Len(issued) \in Nat /\ Len(queue) \in Nat
        BY <1>1
    <2>. QED
        BY <1>2, <1>3, <2>1 DEF PlacedInv
<1>5. ToSet(corkedBuf') \cup ToSet(queue') \cup ToSet(issued') = 1..nw'
    BY <1>2, <1>3 DEF PlacedInv
<1>. QED
    BY <1>4, <1>5 DEF PlacedInv, ToSet

LEMMA PlacedStep == TypeOK /\ PlacedInv /\ [Next]_vars => PlacedInv'
<1>. SUFFICES ASSUME TypeOK, PlacedInv, [Next]_vars PROVE PlacedInv'
    OBVIOUS
<1>0. ASSUME UNCHANGED <<nw, corkedBuf, queue, issued>> PROVE PlacedInv'
    BY <1>0 DEF PlacedInv, ToSet
<1>1. CASE UserStep
    <2>1. CASE Write
        BY <2>1, PlacedAccept DEF Write
    <2>2. CASE WriteAfterEnd \/ CorkCall
        BY <1>0, <2>2 DEF WriteAfterEnd, CorkCall, bufVars, sinkVars
    <2>3. CASE End
        BY <1>0, <2>3, PlacedAccept DEF End, bufVars
    <2>4. CASE Uncork
        BY <2>4, PlacedUncork DEF Uncork
    <2>. QED
        BY <1>1, <2>1, <2>2, <2>3, <2>4 DEF UserStep
<1>2. CASE ReadableEnd \/ SinkStep \/ RunTick \/ UNCHANGED vars
    BY <1>0, <1>2, FinalFrame
       DEF ReadableEnd, SinkStep, WriteCallback, FlushCallback, RunTick, vars,
           bufVars, sinkVars
<1>3. CASE CallStep
    <2>1. CASE NextPart
        BY <1>0, <2>1, PlacedStartNext DEF NextPart
    <2>2. CASE ErrNextPart
        BY <1>0, <2>2, PlacedStartNext DEF ErrNextPart
    <2>3. CASE SettlePart \/ ReleasePart \/ UncorkRest
        BY <1>0, <2>3 DEF SettlePart, ReleasePart, UncorkRest, bufVars, sinkVars
    <2>. QED
        BY <1>3, <2>1, <2>2, <2>3 DEF CallStep
<1>. QED
    BY <1>1, <1>2, <1>3 DEF Next

LEMMA PlacedInit == Init => PlacedInv
<1>. SUFFICES ASSUME Init PROVE PlacedInv
    OBVIOUS
<1>1. corkedBuf = <<>> /\ queue = <<>> /\ issued = <<>> /\ nw = 0
    BY DEF Init
<1>. QED
    BY <1>1 DEF PlacedInv, ToSet

LEMMA AllPlaced == TypeOK /\ PlacedInv => Placed
<1>. SUFFICES ASSUME TypeOK, PlacedInv PROVE Placed
    OBVIOUS
<1>1. corkedBuf \in Seq(Writes) /\ queue \in Seq(Writes) /\ issued \in Seq(Writes)
    BY DEF TypeOK, BufTypes, SinkTypes
<1>2. /\ corkedBuf \o queue \in Seq(Writes)
      /\ Len(corkedBuf \o queue) = Len(corkedBuf) + Len(queue)
      /\ ToSet(corkedBuf \o queue) = ToSet(corkedBuf) \cup ToSet(queue)
    BY <1>1, CatSet
<1>. DEFINE front == corkedBuf \o queue
<1>. HIDE DEF front
<1>3. /\ Len(front \o issued) = Len(front) + Len(issued)
      /\ ToSet(front \o issued) = ToSet(front) \cup ToSet(issued)
    <2>1. front \in Seq(Writes) /\ issued \in Seq(Writes)
        BY <1>1, <1>2 DEF front
    <2>. QED
        BY <2>1, CatSet
<1>. QED
    BY <1>2, <1>3 DEF Placed, PlacedInv, front

(* What is held is in one of the four places, and there once; its size is   *)
(* writableLength.                                                          *)
Held == ToSet(corkedBuf) \cup ToSet(queue) \cup inflight \cup flushed
PartsInv ==
    /\ Distinct(corkedBuf) /\ Distinct(queue)
    /\ ToSet(corkedBuf) \cap ToSet(queue) = {}
    /\ ToSet(issued) \cap (ToSet(corkedBuf) \cup ToSet(queue)) = {}
    /\ inflight \cup flushed \subseteq ToSet(issued)
    /\ inflight \cap flushed = {}
    /\ length = SumOf(Size, Held)

LEMMA SizeFacts ==
    /\ IsFiniteSet(Writes) /\ \A w \in Writes : Size[w] \in Int
    /\ \A S : Total(S) = SumOf(Size, S)
<1>1. IsFiniteSet(Writes)
    BY BoundAssumption, FS_Interval DEF Writes
<1>2. \A w \in Writes : Size[w] \in Int
    BY SizeAssumption
<1>3. \A S : Total(S) = SumOf(Size, S)
    BY DEF Total, SumOf
<1>. QED
    BY <1>1, <1>2, <1>3

LEMMA PartsPrime ==
    ASSUME Distinct(corkedBuf') /\ Distinct(queue'),
           ToSet(corkedBuf') \cap ToSet(queue') = {},
           ToSet(issued') \cap (ToSet(corkedBuf') \cup ToSet(queue')) = {},
           inflight' \cup flushed' \subseteq ToSet(issued'),
           inflight' \cap flushed' = {},
           length' = SumOf(Size, Held')
    PROVE  PartsInv'
<1>1. /\ Distinct(corkedBuf)' = Distinct(corkedBuf') /\ Distinct(queue)' = Distinct(queue')
    BY DEF Distinct
<1>2. /\ ToSet(corkedBuf)' = ToSet(corkedBuf') /\ ToSet(queue)' = ToSet(queue')
      /\ ToSet(issued)' = ToSet(issued')
    BY DEF ToSet
<1>3. SumOf(Size, Held)' = SumOf(Size, Held')
    OBVIOUS
<1>. QED
    BY <1>1, <1>2, <1>3 DEF PartsInv

LEMMA PartsAccept ==
    ASSUME TypeOK, PlacedInv, PartsInv, nw < MaxWrites, Accept, flushed' = flushed
    PROVE  PartsInv'
<1>. DEFINE w == nw + 1
<1>1. /\ w \in Writes /\ nw \in Nat /\ corked \in {0, 1}
      /\ corkedBuf \in Seq(Writes) /\ queue \in Seq(Writes) /\ issued \in Seq(Writes)
      /\ inflight \in SUBSET Writes /\ flushed \in SUBSET Writes
    BY AcceptType DEF TypeOK, BufTypes, SinkTypes
<1>2. w \notin ToSet(corkedBuf) \cup ToSet(queue) \cup ToSet(issued)
    <2>1. w \notin 1..nw
        BY <1>1
    <2>. QED
        BY <2>1 DEF PlacedInv
<1>3. length' = length + Size[w]
    BY DEF Accept
<1>. HIDE DEF w
<1>4. \/ /\ corkedBuf' = Append(corkedBuf, w) /\ queue' = queue /\ issued' = issued
         /\ inflight' = inflight
      \/ /\ corkedBuf' = corkedBuf /\ queue' = Append(queue, w) /\ issued' = issued
         /\ inflight' = inflight
      \/ /\ corkedBuf' = corkedBuf /\ queue' = queue /\ issued' = Append(issued, w)
         /\ inflight' = inflight \cup {w}
    BY <1>1 DEF Accept, w
<1>5. \A s \in Seq(Writes) : ToSet(Append(s, w)) = ToSet(s) \cup {w}
    BY <1>1, AppendSet
<1>6. \A s \in Seq(Writes) : Distinct(s) /\ w \notin ToSet(s) => Distinct(Append(s, w))
    BY <1>1, DistinctAppend
<1>7. w \notin Held /\ Held \in SUBSET Writes
    <2>1. \A s \in Seq(Writes) : ToSet(s) \in SUBSET Writes
        BY DEF ToSet
    <2>. QED
        BY <1>1, <1>2, <2>1 DEF PartsInv, Held
<1>8. Held' = Held \cup {w}
    <2>1. Held' = ToSet(corkedBuf') \cup ToSet(queue') \cup inflight' \cup flushed'
        BY DEF Held, ToSet
    <2>. QED
        BY <1>1, <1>4, <1>5, <2>1 DEF Held
<1>9. length' = SumOf(Size, Held')
    <2>1. SumOf(Size, Held \cup {w}) = SumOf(Size, Held) + Size[w]
        BY <1>1, <1>7, SizeFacts, SumAdd
    <2>. QED
        BY <1>3, <1>8, <2>1 DEF PartsInv
<1>10. Distinct(corkedBuf') /\ Distinct(queue')
    BY <1>1, <1>2, <1>4, <1>6 DEF PartsInv
<1>11. CASE /\ corkedBuf' = Append(corkedBuf, w) /\ queue' = queue /\ issued' = issued
            /\ inflight' = inflight
    <2>1. ToSet(corkedBuf') = ToSet(corkedBuf) \cup {w}
        BY <1>1, <1>5, <1>11
    <2>. QED
        BY <1>2, <1>9, <1>10, <1>11, <2>1, PartsPrime DEF PartsInv
<1>12. CASE /\ corkedBuf' = corkedBuf /\ queue' = Append(queue, w) /\ issued' = issued
            /\ inflight' = inflight
    <2>1. ToSet(queue') = ToSet(queue) \cup {w}
        BY <1>1, <1>5, <1>12
    <2>. QED
        BY <1>2, <1>9, <1>10, <1>12, <2>1, PartsPrime DEF PartsInv
<1>13. CASE /\ corkedBuf' = corkedBuf /\ queue' = queue /\ issued' = Append(issued, w)
            /\ inflight' = inflight \cup {w}
    <2>1. ToSet(issued') = ToSet(issued) \cup {w}
        BY <1>1, <1>5, <1>13
    <2>. QED
        BY <1>2, <1>9, <1>10, <1>13, <2>1, PartsPrime DEF PartsInv
<1>. QED
    BY <1>4, <1>11, <1>12, <1>13

LEMMA PartsStart ==
    ASSUME TypeOK, PartsInv, queue # <<>>, StartNext,
           UNCHANGED <<length, corkedBuf, flushed>>
    PROVE  PartsInv'
<1>1. queue \in Seq(Writes) /\ issued \in Seq(Writes)
    BY DEF TypeOK, BufTypes, SinkTypes
<1>. DEFINE h == Head(queue)  r == Tail(queue)
<1>2. /\ h \in Writes /\ r \in Seq(Writes) /\ ToSet(queue) = {h} \cup ToSet(r)
      /\ Distinct(r) /\ h \notin ToSet(r)
    BY <1>1, TailSet, DistinctTail DEF PartsInv
<1>3. queue' = r /\ issued' = Append(issued, h) /\ inflight' = inflight \cup {h}
    BY DEF StartNext
<1>. HIDE DEF h, r
<1>4. ToSet(issued') = ToSet(issued) \cup {h}
    BY <1>1, <1>2, <1>3, AppendSet
<1>5. Held' = Held
    <2>1. Held' = ToSet(corkedBuf') \cup ToSet(queue') \cup inflight' \cup flushed'
        BY DEF Held, ToSet
    <2>. QED
        BY <1>2, <1>3, <2>1 DEF Held
<1>6. length' = SumOf(Size, Held')
    BY <1>5 DEF PartsInv
<1>7. Distinct(corkedBuf') /\ Distinct(queue')
    BY <1>2, <1>3 DEF PartsInv
<1>8. /\ ToSet(corkedBuf') \cap ToSet(queue') = {}
      /\ ToSet(issued') \cap (ToSet(corkedBuf') \cup ToSet(queue')) = {}
      /\ inflight' \cup flushed' \subseteq ToSet(issued')
      /\ inflight' \cap flushed' = {}
    BY <1>2, <1>3, <1>4 DEF PartsInv
<1>. QED
    BY <1>6, <1>7, <1>8, PartsPrime

LEMMA PartsUncork ==
    ASSUME TypeOK, PartsInv, UNCHANGED <<length, queue, inflight>>, corkedBuf' = <<>>,
           flushed' = flushed \cup ToSet(corkedBuf), issued' = issued \o corkedBuf
    PROVE  PartsInv'
<1>1. corkedBuf \in Seq(Writes) /\ issued \in Seq(Writes)
    BY DEF TypeOK, BufTypes, SinkTypes
<1>2. ToSet(issued') = ToSet(issued) \cup ToSet(corkedBuf)
    BY <1>1, CatSet
<1>3. ToSet(corkedBuf') = {} /\ Distinct(corkedBuf')
    BY DEF ToSet, Distinct
<1>4. Held' = Held
    <2>1. Held' = ToSet(corkedBuf') \cup ToSet(queue') \cup inflight' \cup flushed'
        BY DEF Held, ToSet
    <2>. QED
        BY <1>3, <2>1 DEF Held
<1>5. length' = SumOf(Size, Held')
    BY <1>4 DEF PartsInv
<1>6. Distinct(queue')
    BY DEF PartsInv
<1>7. /\ ToSet(corkedBuf') \cap ToSet(queue') = {}
      /\ ToSet(issued') \cap (ToSet(corkedBuf') \cup ToSet(queue')) = {}
      /\ inflight' \cup flushed' \subseteq ToSet(issued')
      /\ inflight' \cap flushed' = {}
    BY <1>2, <1>3 DEF PartsInv
<1>. QED
    BY <1>3, <1>5, <1>6, <1>7, PartsPrime

LEMMA PartsDone ==
    ASSUME TypeOK, PartsInv, NEW w \in inflight \cup flushed,
           UNCHANGED <<corkedBuf, queue, issued>>, length' = Release(w),
           inflight' = inflight \ {w}, flushed' = flushed \ {w}
    PROVE  PartsInv'
<1>1. /\ corkedBuf \in Seq(Writes) /\ queue \in Seq(Writes)
      /\ inflight \in SUBSET Writes /\ flushed \in SUBSET Writes
    BY DEF TypeOK, BufTypes, SinkTypes
<1>2. \A s \in Seq(Writes) : ToSet(s) \in SUBSET Writes
    BY DEF ToSet
<1>3. Held \in SUBSET Writes /\ w \in Held
    BY <1>1, <1>2 DEF Held
<1>4. Held' = Held \ {w}
    <2>1. Held' = ToSet(corkedBuf') \cup ToSet(queue') \cup inflight' \cup flushed'
        BY DEF Held, ToSet
    <2>. QED
        BY <2>1 DEF Held, PartsInv
<1>5. length' = SumOf(Size, Held')
    <2>1. SumOf(Size, Held) = Size[w] + SumOf(Size, Held \ {w})
        BY <1>3, SizeFacts, SumRemove
    <2>2. SumOf(Size, Held \ {w}) \in Int /\ Size[w] \in Int
        BY <1>3, SizeFacts, SumType
    <2>3. length' = SumOf(Size, Held) - Size[w]
        BY DEF PartsInv, Release
    <2>. QED
        BY <1>4, <2>1, <2>2, <2>3
<1>6. Distinct(corkedBuf') /\ Distinct(queue')
    BY DEF PartsInv
<1>7. /\ ToSet(corkedBuf') \cap ToSet(queue') = {}
      /\ ToSet(issued') \cap (ToSet(corkedBuf') \cup ToSet(queue')) = {}
      /\ inflight' \cup flushed' \subseteq ToSet(issued')
      /\ inflight' \cap flushed' = {}
    BY DEF PartsInv
<1>. QED
    BY <1>5, <1>6, <1>7, PartsPrime

LEMMA PartsStep == TypeOK /\ PlacedInv /\ PartsInv /\ [Next]_vars => PartsInv'
<1>. SUFFICES ASSUME TypeOK, PlacedInv, PartsInv, [Next]_vars PROVE PartsInv'
    OBVIOUS
<1>0. ASSUME UNCHANGED <<length, corkedBuf, queue, issued, inflight, flushed>>
      PROVE  PartsInv'
    <2>1. Held' = Held
        BY <1>0 DEF Held, ToSet
    <2>. QED
        BY <1>0, <2>1, PartsPrime DEF PartsInv
<1>1. CASE UserStep
    <2>1. CASE Write
        BY <2>1, PartsAccept DEF Write
    <2>2. CASE WriteAfterEnd \/ CorkCall
        BY <1>0, <2>2 DEF WriteAfterEnd, CorkCall, bufVars, sinkVars
    <2>3. CASE End
        BY <1>0, <2>3, PartsAccept DEF End, bufVars
    <2>4. CASE Uncork
        BY <2>4, PartsUncork DEF Uncork
    <2>. QED
        BY <1>1, <2>1, <2>2, <2>3, <2>4 DEF UserStep
<1>2. CASE ReadableEnd \/ FinalCallback \/ RunTick \/ UNCHANGED vars
    BY <1>0, <1>2, FinalFrame DEF ReadableEnd, RunTick, vars, bufVars, sinkVars
<1>3. CASE WriteCallback
    <2>1. PICK w \in inflight : inflight' = inflight \ {w} /\ length' = Release(w)
        BY <1>3 DEF WriteCallback
    <2>2. flushed' = flushed \ {w} /\ UNCHANGED <<corkedBuf, queue, issued>>
        BY <1>3 DEF WriteCallback, PartsInv
    <2>. QED
        BY <2>1, <2>2, PartsDone
<1>4. CASE FlushCallback
    <2>1. PICK w \in flushed : flushed' = flushed \ {w} /\ length' = Release(w)
        BY <1>4 DEF FlushCallback
    <2>2. inflight' = inflight \ {w} /\ UNCHANGED <<corkedBuf, queue, issued>>
        BY <1>4 DEF FlushCallback, PartsInv
    <2>. QED
        BY <2>1, <2>2, PartsDone
<1>5. CASE CallStep
    <2>1. CASE NextPart
        BY <1>0, <2>1, PartsStart DEF NextPart
    <2>2. CASE ErrNextPart
        BY <1>0, <2>2, PartsStart DEF ErrNextPart
    <2>3. CASE SettlePart \/ ReleasePart \/ UncorkRest
        BY <1>0, <2>3 DEF SettlePart, ReleasePart, UncorkRest, bufVars, sinkVars
    <2>. QED
        BY <1>5, <2>1, <2>2, <2>3 DEF CallStep
<1>. QED
    BY <1>1, <1>2, <1>3, <1>4, <1>5 DEF Next, SinkStep

LEMMA PartsInit == Init => PartsInv
<1>. SUFFICES ASSUME Init PROVE PartsInv
    OBVIOUS
<1>1. corkedBuf = <<>> /\ queue = <<>> /\ issued = <<>> /\ inflight = {} /\ flushed = {}
      /\ length = 0
    BY DEF Init
<1>2. ToSet(<<>>) = {} /\ Distinct(<<>>)
    BY DEF ToSet, Distinct
<1>3. Held = {}
    BY <1>1, <1>2 DEF Held
<1>. QED
    BY <1>1, <1>2, <1>3, SumEmpty DEF PartsInv

(* However corking, the queue and failing writes move it, each accepted     *)
(* write is in the corked buffer or the queue, or was given to the sink,    *)
(* once, and writableLength is the size of what is held (duplex.ts:93).     *)
THEOREM NothingLost == Spec => []Conservation
<1>1. TypeOK /\ PlacedInv /\ PartsInv => Conservation
    <2>. SUFFICES ASSUME TypeOK, PlacedInv, PartsInv PROVE Conservation
        OBVIOUS
    <2>1. corkedBuf \in Seq(Writes) /\ queue \in Seq(Writes)
        BY DEF TypeOK, BufTypes
    <2>2. ToSet(corkedBuf \o queue) = ToSet(corkedBuf) \cup ToSet(queue)
        BY <2>1, CatSet
    <2>3. length = Total(ToSet(corkedBuf \o queue) \cup inflight \cup flushed)
        BY <2>2, SizeFacts DEF PartsInv, Held
    <2>. QED
        BY <2>3, AllPlaced DEF Conservation, Placed
<1>. QED
    BY <1>1, TypeInit, TypeStep, PlacedInit, PlacedStep, PartsInit, PartsStep, PTL DEF Spec

-----------------------------------------------------------------------------
(* What the queue of ticks holds of a kind K.                               *)
AnswerTicks == {t \in Ticks : t.kind \in {"ok", "err"}}
ErrTicks == {t \in Ticks : t.kind = "err"}
FinishTicks == {t \in Ticks : t.kind \in {"finish", "finishErr"}}
Has(s, K) == \E i \in 1..Len(s) : s[i] \in K
One(s, K) == \A i, j \in 1..Len(s) : s[i] \in K /\ s[j] \in K => i = j

LEMMA HasAppend ==
    ASSUME NEW s \in Seq(Ticks), NEW t \in Ticks, NEW K
    PROVE  /\ Append(s, t) \in Seq(Ticks)
           /\ Has(Append(s, t), K) <=> Has(s, K) \/ t \in K
           /\ One(s, K) /\ ~(t \in K /\ Has(s, K)) => One(Append(s, t), K)
<1>. DEFINE r == Append(s, t)
<1>1. /\ r \in Seq(Ticks) /\ Len(s) \in Nat /\ Len(r) = Len(s) + 1
      /\ \A i \in 1..Len(s) : r[i] = s[i]
      /\ r[Len(r)] = t
    OBVIOUS
<1>. HIDE DEF r
<1>2. /\ \A i \in 1..Len(r) : i \in 1..Len(s) \/ i = Len(r)
      /\ \A i \in 1..Len(s) : i \in 1..Len(r)
      /\ Len(r) \in 1..Len(r)
    BY <1>1
<1>3. Has(r, K) <=> Has(s, K) \/ t \in K
    BY <1>1, <1>2, Zenon DEF Has
<1>4. ASSUME One(s, K), ~(t \in K /\ Has(s, K)) PROVE One(r, K)
    <2>. SUFFICES ASSUME NEW i \in 1..Len(r), NEW j \in 1..Len(r), r[i] \in K, r[j] \in K
                  PROVE  i = j
        BY DEF One
    <2>1. CASE i \in 1..Len(s) /\ j \in 1..Len(s)
        BY <1>1, <1>4, <2>1, Zenon DEF One
    <2>2. CASE i = Len(r) /\ j = Len(r)
        BY <2>2
    <2>3. CASE i = Len(r) /\ j \in 1..Len(s)
        BY <1>1, <1>4, <2>3, Zenon DEF Has
    <2>4. CASE i \in 1..Len(s) /\ j = Len(r)
        BY <1>1, <1>4, <2>4, Zenon DEF Has
    <2>. QED
        BY <1>2, <2>1, <2>2, <2>3, <2>4, Zenon
<1>. QED
    BY <1>1, <1>3, <1>4, Zenon DEF r

LEMMA HasTail ==
    ASSUME NEW s \in Seq(Ticks), s # <<>>, NEW K
    PROVE  /\ Tail(s) \in Seq(Ticks)
           /\ Has(s, K) <=> Head(s) \in K \/ Has(Tail(s), K)
           /\ One(s, K) => /\ One(Tail(s), K)
                           /\ Head(s) \in K => ~Has(Tail(s), K)
<1>. DEFINE r == Tail(s)  h == Head(s)
<1>1. /\ r \in Seq(Ticks) /\ Len(s) \in Nat /\ Len(r) = Len(s) - 1 /\ Len(s) # 0
      /\ \A i \in 1..Len(r) : r[i] = s[i + 1]
      /\ s[1] = h
    OBVIOUS
<1>. HIDE DEF r, h
<1>2. /\ \A i \in 1..Len(r) : i + 1 \in 1..Len(s) /\ i + 1 # 1
      /\ \A i \in 1..Len(s) : i = 1 \/ i - 1 \in 1..Len(r)
      /\ \A i \in 1..Len(s) : (i - 1) + 1 = i
      /\ \A i, j \in 1..Len(r) : i + 1 = j + 1 => i = j
      /\ 1 \in 1..Len(s)
    BY <1>1
<1>3. Has(s, K) => h \in K \/ Has(r, K)
    <2>. SUFFICES ASSUME NEW i \in 1..Len(s), s[i] \in K, h \notin K PROVE Has(r, K)
        BY DEF Has
    <2>1. i - 1 \in 1..Len(r) /\ r[i - 1] = s[i]
        BY <1>1, <1>2
    <2>. QED
        BY <2>1 DEF Has
<1>4. h \in K \/ Has(r, K) => Has(s, K)
    BY <1>1, <1>2, Zenon DEF Has
<1>5. One(s, K) => One(r, K)
    BY <1>1, <1>2, Zenon DEF One
<1>6. One(s, K) /\ h \in K => ~Has(r, K)
    BY <1>1, <1>2, Zenon DEF One, Has
<1>. QED
    BY <1>1, <1>3, <1>4, <1>5, <1>6, Zenon DEF r, h

LEMMA TickKind ==
    ASSUME NEW t \in Ticks
    PROVE  /\ t \in AnswerTicks <=> t.kind \in {"ok", "err"}
           /\ t \in ErrTicks <=> t.kind = "err"
           /\ t \in FinishTicks <=> t.kind \in {"finish", "finishErr"}
    BY DEF AnswerTicks, ErrTicks, FinishTicks

LEMMA NoTicks == \A K : ~Has(<<>>, K) /\ One(<<>>, K)
<1>1. Len(<<>>) = 0 /\ 1..0 = {}
    OBVIOUS
<1>. QED
    BY <1>1 DEF Has, One

-----------------------------------------------------------------------------
(* The lock of a stream that is not corked is held by the write at the sink,*)
(* by the tick of its callback, or by the part of the tick that waits for   *)
(* that callback to return: only one of them, so that the next write is     *)
(* started once.                                                            *)
Answered == Has(ticks, AnswerTicks)
Passing == Part \in {"next", "release"}

UncorkedInv ==
    /\ corked = 0 /\ corkedBuf = <<>> /\ flushed = {}
    /\ \/ cur = <<>>
       \/ \E k \in {"next", "settle", "release", "errNext"} : cur = <<k>>
    /\ Has(ticks, ErrTicks) => use.fails
    /\ Part \in {"release", "errNext"} => use.fails
HolderInv ==
    /\ writing <=> inflight # {} \/ Answered \/ Passing
    /\ Passing => ~Answered /\ inflight = {}
    /\ Answered => inflight = {}
    /\ One(ticks, AnswerTicks)
    /\ Part = "errNext" => ~writing
    /\ queue # <<>> => writing \/ Part = "errNext"
NumberInv ==
    /\ \A i \in 1..Len(issued) : issued[i] = i
    /\ \A i \in 1..Len(queue) : queue[i] = Len(issued) + i
    /\ nw = Len(issued) + Len(queue)
    /\ \A w \in inflight : w = Len(issued)
LockCore == UncorkedInv /\ HolderInv /\ NumberInv
LockInv == Orderly => LockCore

LEMMA PartFacts ==
    ASSUME UncorkedInv
    PROVE  /\ Part = "none" <=> cur = <<>>
           /\ \A k \in {"next", "settle", "release", "errNext"} :
                 Part = k <=> cur = <<k>>
           /\ Part \in {"none", "next", "settle", "release", "errNext"}
           /\ Part # "none" => Tail(cur) = <<>>
<1>1. \A k : <<k>> # <<>> /\ Head(<<k>>) = k /\ Tail(<<k>>) = <<>>
    OBVIOUS
<1>2. CASE cur = <<>>
    BY <1>1, <1>2 DEF Part
<1>3. ASSUME NEW k \in {"next", "settle", "release", "errNext"}, cur = <<k>>
      PROVE  Part = k /\ cur # <<>> /\ Tail(cur) = <<>>
    BY <1>1, <1>3 DEF Part
<1>4. \A k, l : <<k>> = <<l>> => k = l
    OBVIOUS
<1>. QED
    BY <1>2, <1>3, <1>4 DEF UncorkedInv

(* What Part is after a step that sets cur.                                 *)
LEMMA NextPartFacts ==
    /\ cur' = <<>> => Part' = "none"
    /\ \A k : cur' = <<k>> => Part' = k
    /\ cur' = cur => Part' = Part
    BY DEF Part

(* A step that changes neither the writes nor who holds the lock.           *)
LEMMA QuietLock ==
    ASSUME LockCore,
           UNCHANGED <<use, nw, corked, corkedBuf, flushed, writing, inflight, queue, issued>>,
           Has(ticks', AnswerTicks) <=> Has(ticks, AnswerTicks),
           One(ticks', AnswerTicks),
           Has(ticks', ErrTicks) => Has(ticks, ErrTicks),
           cur' = cur \/ (Part = "settle" /\ cur' = <<>>)
    PROVE  LockCore'
<1>1. /\ Has(ticks, AnswerTicks)' <=> Has(ticks, AnswerTicks)
      /\ One(ticks, AnswerTicks)'
      /\ Has(ticks, ErrTicks)' => Has(ticks, ErrTicks)
    BY DEF Has, One, AnswerTicks, ErrTicks, Ticks, TickKinds
<1>2. \/ Part' = Part
      \/ Part = "settle" /\ Part' = "none"
    BY NextPartFacts
<1>3. UncorkedInv'
    <2>1. \/ cur' = <<>>
          \/ \E k \in {"next", "settle", "release", "errNext"} : cur' = <<k>>
        BY DEF LockCore, UncorkedInv
    <2>2. Part' \in {"release", "errNext"} => use'.fails
        BY <1>2 DEF LockCore, UncorkedInv
    <2>3. Has(ticks, ErrTicks)' => use'.fails
        BY <1>1 DEF LockCore, UncorkedInv
    <2>. QED
        BY <2>1, <2>2, <2>3 DEF LockCore, UncorkedInv
<1>4. HolderInv'
    <2>1. /\ Answered' <=> Answered
          /\ Passing' <=> Passing
          /\ Part' = "errNext" <=> Part = "errNext"
        BY <1>1, <1>2 DEF Answered, Passing
    <2>. QED
        BY <1>1, <2>1 DEF LockCore, HolderInv
<1>5. NumberInv'
    BY DEF LockCore, NumberInv
<1>. QED
    BY <1>3, <1>4, <1>5 DEF LockCore

(* A write is queued behind the lock, or takes it.                          *)
LEMMA AcceptLock ==
    ASSUME TypeOK, LockCore, nw < MaxWrites, Accept, Part # "errNext",
           UNCHANGED <<use, flushed, ticks, cur>>
    PROVE  LockCore'
<1>. DEFINE w == nw + 1
<1>1. /\ queue \in Seq(Writes) /\ issued \in Seq(Writes)
      /\ nw \in Nat /\ Len(queue) \in Nat /\ Len(issued) \in Nat
    BY AcceptType DEF TypeOK, BufTypes, SinkTypes
<1>2. /\ Has(ticks, AnswerTicks)' <=> Has(ticks, AnswerTicks)
      /\ One(ticks, AnswerTicks)' <=> One(ticks, AnswerTicks)
      /\ Has(ticks, ErrTicks)' <=> Has(ticks, ErrTicks)
    BY DEF Has, One, AnswerTicks, ErrTicks, Ticks, TickKinds
<1>3. Part' = Part
    BY NextPartFacts
<1>4. corked' = 0 /\ corkedBuf' = <<>> /\ nw' = w
    BY DEF Accept, LockCore, UncorkedInv
<1>5. UncorkedInv'
    BY <1>2, <1>3, <1>4 DEF LockCore, UncorkedInv
<1>6. /\ Answered' <=> Answered
      /\ Passing' <=> Passing
    BY <1>2, <1>3 DEF Answered, Passing
<1>7. CASE writing
    <2>1. /\ queue' = Append(queue, w)
          /\ UNCHANGED <<writing, inflight, issued>>
        BY <1>7 DEF Accept, Locked, LockCore, UncorkedInv
    <2>2. HolderInv'
        BY <1>2, <1>3, <1>6, <1>7, <2>1 DEF LockCore, HolderInv
    <2>3. /\ Len(queue') = Len(queue) + 1
          /\ \A i \in 1..Len(queue) : queue'[i] = queue[i]
          /\ queue'[Len(queue) + 1] = w
          /\ \A i \in 1..(Len(queue) + 1) : i \in 1..Len(queue) \/ i = Len(queue) + 1
        BY <1>1, <2>1
    <2>4. nw = Len(issued) + Len(queue)
        BY DEF LockCore, NumberInv
    <2>5. w = Len(issued) + (Len(queue) + 1)
        BY <1>1, <2>4
    <2>. HIDE DEF w
    <2>6. \A i \in 1..Len(queue') : queue'[i] = Len(issued') + i
        BY <2>1, <2>3, <2>5 DEF LockCore, NumberInv
    <2>7. NumberInv'
        BY <1>4, <2>1, <2>3, <2>5, <2>6 DEF LockCore, NumberInv
    <2>. QED
        BY <1>5, <2>2, <2>7 DEF LockCore
<1>8. CASE ~writing
    <2>1. /\ queue' = queue /\ writing' = TRUE
          /\ inflight' = inflight \cup {w} /\ issued' = Append(issued, w)
        BY <1>8 DEF Accept, Locked, LockCore, UncorkedInv
    <2>2. queue = <<>> /\ inflight = {} /\ ~Answered /\ ~Passing
        BY <1>8 DEF LockCore, HolderInv
    <2>3. HolderInv'
        BY <1>2, <1>3, <1>6, <2>1, <2>2 DEF LockCore, HolderInv
    <2>4. Len(queue) = 0
        BY <2>2
    <2>5. nw = Len(issued)
        BY <1>1, <2>4 DEF LockCore, NumberInv
    <2>6. w = Len(issued) + 1
        BY <2>5
    <2>. HIDE DEF w
    <2>7. /\ Len(issued') = w
          /\ \A i \in 1..Len(issued) : issued'[i] = issued[i]
          /\ issued'[w] = w
          /\ \A i \in 1..w : i \in 1..Len(issued) \/ i = w
        BY <1>1, <2>1, <2>6
    <2>8. \A i \in 1..Len(issued') : issued'[i] = i
        BY <2>7 DEF LockCore, NumberInv
    <2>9. nw' = Len(issued') + Len(queue')
        BY <1>4, <2>1, <2>4, <2>6, <2>7
    <2>10. NumberInv'
        <3>1. \A i \in 1..Len(queue') : queue'[i] = Len(issued') + i
            BY <2>1, <2>4
        <3>2. \A v \in inflight' : v = Len(issued')
            BY <2>1, <2>2, <2>7
        <3>. QED
            BY <2>8, <2>9, <3>1, <3>2 DEF NumberInv
    <2>. QED
        BY <1>5, <2>3, <2>10 DEF LockCore
<1>. QED
    BY <1>7, <1>8

(* The write at the head of the queue gets the lock that is free or passed  *)
(* on to it.                                                                *)
LEMMA StartLock ==
    ASSUME TypeOK, LockCore, queue # <<>>, StartNext, inflight = {}, ~Answered,
           UNCHANGED <<use, nw, corked, corkedBuf, flushed, ticks>>,
           writing' = TRUE, cur' = <<>>
    PROVE  LockCore'
<1>. DEFINE h == Head(queue)  r == Tail(queue)
<1>1. /\ queue \in Seq(Writes) /\ issued \in Seq(Writes)
      /\ nw \in Nat /\ Len(queue) \in Nat /\ Len(issued) \in Nat
    BY AcceptType DEF TypeOK, BufTypes, SinkTypes
<1>2. /\ Has(ticks, AnswerTicks)' <=> Has(ticks, AnswerTicks)
      /\ One(ticks, AnswerTicks)' <=> One(ticks, AnswerTicks)
      /\ Has(ticks, ErrTicks)' <=> Has(ticks, ErrTicks)
    BY DEF Has, One, AnswerTicks, ErrTicks, Ticks, TickKinds
<1>3. Part' = "none"
    BY NextPartFacts
<1>4. UncorkedInv'
    BY <1>2, <1>3 DEF LockCore, UncorkedInv
<1>5. queue' = r /\ inflight' = {h} /\ issued' = Append(issued, h)
    BY DEF StartNext
<1>6. HolderInv'
    <2>1. ~Answered' /\ ~Passing'
        BY <1>2, <1>3 DEF Answered, Passing
    <2>. QED
        BY <1>2, <1>3, <1>5, <2>1 DEF LockCore, HolderInv
<1>7. /\ Len(queue) # 0 /\ Len(r) = Len(queue) - 1 /\ h = queue[1]
      /\ \A i \in 1..Len(r) : r[i] = queue[i + 1] /\ i + 1 \in 1..Len(queue)
      /\ 1 \in 1..Len(queue)
    BY <1>1
<1>8. h = Len(issued) + 1
    BY <1>7 DEF LockCore, NumberInv
<1>. HIDE DEF h, r
<1>9. /\ Len(issued') = Len(issued) + 1
      /\ \A i \in 1..Len(issued) : issued'[i] = issued[i]
      /\ issued'[h] = h
      /\ \A i \in 1..(Len(issued) + 1) : i \in 1..Len(issued) \/ i = h
    BY <1>1, <1>5, <1>8
<1>10. \A i \in 1..Len(issued') : issued'[i] = i
    BY <1>9 DEF LockCore, NumberInv
<1>11. \A i \in 1..Len(queue') : queue'[i] = Len(issued') + i
    <2>. SUFFICES ASSUME NEW i \in 1..Len(r) PROVE r[i] = (Len(issued) + 1) + i
        BY <1>5, <1>9
    <2>1. r[i] = Len(issued) + (i + 1)
        BY <1>7 DEF LockCore, NumberInv
    <2>. QED
        BY <1>1, <2>1
<1>12. nw' = Len(issued') + Len(queue')
    <2>1. nw = Len(issued) + Len(queue)
        BY DEF LockCore, NumberInv
    <2>2. Len(queue') = Len(queue) - 1
        BY <1>5, <1>7
    <2>. QED
        BY <1>1, <1>9, <2>1, <2>2
<1>13. NumberInv'
    BY <1>5, <1>8, <1>9, <1>10, <1>11, <1>12 DEF NumberInv
<1>. QED
    BY <1>4, <1>6, <1>13 DEF LockCore

(* A tick that carries no answer is neither counted among those that do.    *)
LEMMA DeferQuiet ==
    ASSUME TypeOK, NEW t \in Ticks, t.kind \notin {"ok", "err"}, ticks' = Defer(t),
           One(ticks, AnswerTicks)
    PROVE  /\ Has(ticks', AnswerTicks) <=> Has(ticks, AnswerTicks)
           /\ One(ticks', AnswerTicks)
           /\ Has(ticks', ErrTicks) => Has(ticks, ErrTicks)
<1>1. ticks \in Seq(Ticks) /\ ticks' = Append(ticks, t)
    BY DEF TypeOK, Defer
<1>2. t \notin AnswerTicks /\ t \notin ErrTicks
    BY TickKind
<1>. QED
    BY <1>1, <1>2, HasAppend

LEMMA LockUser ==
    ASSUME TypeOK, LockCore, Orderly, UserStep
    PROVE  LockCore'
<1>1. Part # "errNext"
    BY DEF LockCore, UncorkedInv, Orderly, UserStep, Write, WriteAfterEnd, End, CorkCall,
           Uncork, UserRuns
<1>2. One(ticks, AnswerTicks)
    BY DEF LockCore, HolderInv
<1>3. CASE Write
    BY <1>1, <1>3, AcceptLock DEF Write
<1>4. CASE WriteAfterEnd
    <2>1. LateTick \in Ticks /\ LateTick.kind = "late"
        BY TickType DEF LateTick, Tick
    <2>. QED
        BY <1>2, <1>4, <2>1, DeferQuiet, QuietLock DEF WriteAfterEnd, bufVars, sinkVars
<1>5. CASE End
    <2>1. CASE nw < MaxWrites /\ Accept
        BY <1>1, <1>5, <2>1, AcceptLock DEF End
    <2>2. CASE UNCHANGED <<bufVars, inflight, issued, owed>>
        BY <1>2, <1>5, <2>2, QuietLock DEF End, bufVars
    <2>. QED
        BY <1>5, <2>1, <2>2 DEF End
<1>6. ~CorkCall /\ ~Uncork
    BY DEF CorkCall, Uncork, Orderly, LockCore, UncorkedInv
<1>. QED
    BY <1>3, <1>4, <1>5, <1>6 DEF UserStep

LEMMA LockReadableEnd ==
    ASSUME TypeOK, LockCore, ReadableEnd
    PROVE  LockCore'
<1>1. One(ticks, AnswerTicks)
    BY DEF LockCore, HolderInv
<1>2. Tick("autoEnd", 0) \in Ticks /\ Tick("autoEnd", 0).kind = "autoEnd"
    BY TickType DEF Tick
<1>3. /\ Has(ticks', AnswerTicks) <=> Has(ticks, AnswerTicks)
      /\ One(ticks', AnswerTicks)
      /\ Has(ticks', ErrTicks) => Has(ticks, ErrTicks)
    <2>1. CASE ticks' = Defer(Tick("autoEnd", 0))
        BY <1>1, <1>2, <2>1, DeferQuiet
    <2>. QED
        BY <1>1, <2>1 DEF ReadableEnd
<1>. QED
    BY <1>3, QuietLock DEF ReadableEnd, bufVars, sinkVars

LEMMA LockSink ==
    ASSUME TypeOK, LockCore, SinkStep
    PROVE  LockCore'
<1>1. One(ticks, AnswerTicks) /\ ticks \in Seq(Ticks)
    BY DEF LockCore, HolderInv, TypeOK
<1>2. CASE WriteCallback
    <2>1. PICK w \in inflight, ok \in Answers :
            /\ inflight' = inflight \ {w}
            /\ ticks' = Defer(Tick(IF ok THEN "ok" ELSE "err", w))
        BY <1>2 DEF WriteCallback
    <2>2. UNCHANGED <<use, nw, corked, corkedBuf, writing, queue, flushed, issued, cur>>
        BY <1>2 DEF WriteCallback, endVars
    <2>. DEFINE t == Tick(IF ok THEN "ok" ELSE "err", w)
    <2>3. /\ t \in Ticks /\ t.kind \in {"ok", "err"}
          /\ t.kind = "err" => use.fails
        <3>1. w \in Nat
            BY BoundAssumption DEF TypeOK, SinkTypes, Writes
        <3>2. ok \in BOOLEAN /\ (~ok => use.fails)
            BY UseAssumption DEF Answers, TypeOK
        <3>. QED
            BY <3>1, <3>2, TickType DEF Tick
    <2>4. inflight' = {} /\ ~Answered /\ ~Passing /\ writing
        BY <2>1 DEF LockCore, HolderInv, NumberInv
    <2>5. ticks' = Append(ticks, t)
        BY <2>1 DEF Defer
    <2>. HIDE DEF t
    <2>6. t \in AnswerTicks /\ (t \in ErrTicks => use.fails)
        BY <2>3, TickKind
    <2>7. /\ Has(ticks', AnswerTicks) /\ One(ticks', AnswerTicks)
          /\ Has(ticks', ErrTicks) => Has(ticks, ErrTicks) \/ use.fails
        BY <1>1, <2>3, <2>4, <2>5, <2>6, HasAppend DEF Answered
    <2>8. /\ Has(ticks, AnswerTicks)' /\ One(ticks, AnswerTicks)'
          /\ Has(ticks, ErrTicks)' => Has(ticks, ErrTicks) \/ use.fails
        BY <2>7 DEF Has, One, AnswerTicks, ErrTicks, Ticks, TickKinds
    <2>9. Part' = Part
        BY <2>2, NextPartFacts
    <2>10. UncorkedInv'
        BY <2>2, <2>8, <2>9 DEF LockCore, UncorkedInv
    <2>11. HolderInv'
        <3>1. Answered' /\ ~Passing'
            BY <2>4, <2>8, <2>9 DEF Answered, Passing
        <3>. QED
            BY <2>2, <2>4, <2>8, <2>9, <3>1 DEF LockCore, HolderInv
    <2>12. NumberInv'
        BY <2>2, <2>4 DEF LockCore, NumberInv
    <2>. QED
        BY <2>10, <2>11, <2>12 DEF LockCore
<1>3. ~FlushCallback
    BY DEF FlushCallback, LockCore, UncorkedInv
<1>4. CASE FinalCallback
    <2>1. PICK f \in finals, ok \in Answers :
            \/ UNCHANGED ticks
            \/ ticks' = Defer(FinishTick(f, ok))
        BY <1>4 DEF FinalCallback
    <2>2. f.id \in Nat
        BY DEF TypeOK, EndTypes, Finals
    <2>. DEFINE t == FinishTick(f, ok)
    <2>3. t \in Ticks /\ t.kind \notin {"ok", "err"}
        BY <2>2, TickType DEF FinishTick, Tick
    <2>4. /\ Has(ticks', AnswerTicks) <=> Has(ticks, AnswerTicks)
          /\ One(ticks', AnswerTicks)
          /\ Has(ticks', ErrTicks) => Has(ticks, ErrTicks)
        <3>1. CASE ticks' = Defer(t)
            <4>. HIDE DEF t
            <4>. QED
                BY <1>1, <2>3, <3>1, DeferQuiet
        <3>2. CASE ticks' = ticks
            BY <1>1, <3>2
        <3>. QED
            BY <2>1, <3>1, <3>2
    <2>. QED
        BY <1>4, <2>4, QuietLock DEF FinalCallback, bufVars
<1>. QED
    BY <1>2, <1>3, <1>4 DEF SinkStep

LEMMA LockCall ==
    ASSUME TypeOK, LockCore, CallStep
    PROVE  LockCore'
<1>1. /\ Part = "next" => cur = <<"next">> /\ Tail(cur) = <<>>
      /\ Part = "settle" => Tail(cur) = <<>>
      /\ Part = "release" => cur = <<"release">> /\ Tail(cur) = <<>>
      /\ Part = "errNext" => Tail(cur) = <<>>
      /\ Part # "uncorked"
      /\ \A k : <<k>> \o <<>> = <<k>>
    BY PartFacts DEF LockCore
<1>2. UNCHANGED ticks => /\ Has(ticks, AnswerTicks)' <=> Has(ticks, AnswerTicks)
                         /\ One(ticks, AnswerTicks)' <=> One(ticks, AnswerTicks)
                         /\ Has(ticks, ErrTicks)' <=> Has(ticks, ErrTicks)
    BY DEF Has, One, AnswerTicks, ErrTicks, Ticks, TickKinds
<1>3. CASE NextPart
    <2>1. /\ writing /\ inflight = {} /\ ~Answered /\ Tail(cur) = <<>>
          /\ UNCHANGED <<use, nw, corked, corkedBuf, flushed, ticks>>
        BY <1>1, <1>3 DEF NextPart, Passing, LockCore, HolderInv
    <2>2. CASE queue # <<>> /\ StartNext /\ cur' = Tail(cur) /\ UNCHANGED writing
        BY <2>1, <2>2, StartLock DEF TypeOK, BufTypes
    <2>3. CASE /\ queue = <<>> /\ writing' = FALSE /\ UNCHANGED <<queue, inflight, issued>>
               /\ cur' \in {<<>>, <<"settle">>}
        <3>1. Part' \in {"none", "settle"}
            BY <2>3, NextPartFacts
        <3>2. UncorkedInv'
            BY <1>2, <2>1, <2>3, <3>1 DEF LockCore, UncorkedInv
        <3>3. HolderInv'
            <4>1. ~Answered' /\ ~Passing'
                BY <1>2, <2>1, <3>1 DEF Answered, Passing
            <4>. QED
                BY <1>2, <2>1, <2>3, <3>1, <4>1 DEF LockCore, HolderInv
        <3>4. NumberInv'
            BY <2>1, <2>3 DEF LockCore, NumberInv
        <3>. QED
            BY <3>2, <3>3, <3>4 DEF LockCore
    <2>. QED
        BY <1>1, <1>3, <2>1, <2>2, <2>3 DEF NextPart
<1>4. CASE SettlePart
    BY <1>1, <1>4, QuietLock DEF SettlePart, LockCore, HolderInv, bufVars, sinkVars
<1>5. CASE ReleasePart
    <2>1. /\ cur' = <<"errNext">> /\ writing' = FALSE
          /\ inflight = {} /\ ~Answered /\ use.fails
          /\ UNCHANGED <<use, nw, corked, corkedBuf, queue, inflight, flushed, issued, ticks>>
        BY <1>1, <1>5 DEF ReleasePart, Passing, LockCore, HolderInv, UncorkedInv, sinkVars
    <2>2. Part' = "errNext"
        BY <2>1, NextPartFacts
    <2>3. UncorkedInv'
        BY <1>2, <2>1, <2>2 DEF LockCore, UncorkedInv
    <2>4. HolderInv'
        <3>1. ~Answered' /\ ~Passing'
            BY <1>2, <2>1, <2>2 DEF Answered, Passing
        <3>. QED
            BY <1>2, <2>1, <2>2, <3>1 DEF LockCore, HolderInv
    <2>5. NumberInv'
        BY <2>1 DEF LockCore, NumberInv
    <2>. QED
        BY <2>3, <2>4, <2>5 DEF LockCore
<1>6. CASE ErrNextPart
    <2>1. /\ ~writing /\ inflight = {} /\ ~Answered /\ ~Passing /\ cur' = <<>>
          /\ UNCHANGED <<use, nw, corked, corkedBuf, flushed, ticks>>
        BY <1>1, <1>6 DEF ErrNextPart, LockCore, HolderInv
    <2>2. CASE queue # <<>>
        BY <1>6, <2>1, <2>2, StartLock DEF ErrNextPart
    <2>3. CASE queue = <<>>
        <3>1. UNCHANGED <<queue, inflight, issued, writing>>
            BY <1>6, <2>3 DEF ErrNextPart
        <3>2. Part' = "none"
            BY <2>1, NextPartFacts
        <3>3. UncorkedInv'
            BY <1>2, <2>1, <3>2 DEF LockCore, UncorkedInv
        <3>4. HolderInv'
            <4>1. ~Answered' /\ ~Passing'
                BY <1>2, <2>1, <3>2 DEF Answered, Passing
            <4>. QED
                BY <1>2, <2>1, <2>3, <3>1, <3>2, <4>1 DEF LockCore, HolderInv
        <3>5. NumberInv'
            BY <2>1, <3>1 DEF LockCore, NumberInv
        <3>. QED
            BY <3>3, <3>4, <3>5 DEF LockCore
    <2>. QED
        BY <2>2, <2>3
<1>7. ~UncorkRest
    BY <1>1 DEF UncorkRest
<1>. QED
    BY <1>3, <1>4, <1>5, <1>6, <1>7 DEF CallStep

LEMMA LockRunTick ==
    ASSUME TypeOK, LockCore, RunTick
    PROVE  LockCore'
<1>. DEFINE t == Head(ticks)
<1>1. /\ cur = <<>> /\ ticks # <<>> /\ ticks \in Seq(Ticks) /\ t \in Ticks
      /\ Tail(ticks) \in Seq(Ticks)
      /\ cur' = CASE t.kind = "ok" -> <<"next">>
                  [] t.kind = "err" -> <<"release">>
                  [] OTHER -> <<>>
      /\ ticks' = IF t.kind \in {"finish", "finishErr"}
                  THEN Append(Tail(ticks), Tick("close", 0)) ELSE Tail(ticks)
      /\ UNCHANGED <<use, nw, corked, corkedBuf, flushed, writing, inflight, queue, issued>>
    BY TickType DEF RunTick, TypeOK, bufVars
<1>. HIDE DEF t
<1>2. /\ One(ticks, AnswerTicks) /\ Part = "none"
    BY <1>1, PartFacts DEF LockCore, HolderInv
<1>3. /\ Has(ticks, AnswerTicks) <=> t \in AnswerTicks \/ Has(Tail(ticks), AnswerTicks)
      /\ Has(ticks, ErrTicks) <=> t \in ErrTicks \/ Has(Tail(ticks), ErrTicks)
      /\ One(Tail(ticks), AnswerTicks)
      /\ t \in AnswerTicks => ~Has(Tail(ticks), AnswerTicks)
    <2>1. \A K : /\ Has(ticks, K) <=> t \in K \/ Has(Tail(ticks), K)
                 /\ One(ticks, K) => /\ One(Tail(ticks), K)
                                     /\ t \in K => ~Has(Tail(ticks), K)
        BY <1>1, HasTail, Zenon DEF t
    <2>2. Has(ticks, ErrTicks) <=> t \in ErrTicks \/ Has(Tail(ticks), ErrTicks)
        BY <2>1, Zenon
    <2>3. /\ Has(ticks, AnswerTicks) <=> t \in AnswerTicks \/ Has(Tail(ticks), AnswerTicks)
          /\ One(ticks, AnswerTicks) => /\ One(Tail(ticks), AnswerTicks)
                                        /\ t \in AnswerTicks => ~Has(Tail(ticks), AnswerTicks)
        BY <2>1, Zenon
    <2>4. One(ticks, AnswerTicks)
        BY <1>2
    <2>. QED
        BY <2>2, <2>3, <2>4
<1>4. CASE t.kind \in {"ok", "err"}
    <2>1. t \in AnswerTicks /\ Answered /\ ticks' = Tail(ticks)
        BY <1>1, <1>3, <1>4, TickKind DEF Answered
    <2>2. writing /\ inflight = {}
        BY <2>1 DEF LockCore, HolderInv
    <2>3. /\ ~Has(ticks, AnswerTicks)' /\ One(ticks, AnswerTicks)'
          /\ Has(ticks, ErrTicks)' => Has(ticks, ErrTicks)
        <3>1. /\ ~Has(ticks', AnswerTicks) /\ One(ticks', AnswerTicks)
              /\ Has(ticks', ErrTicks) => Has(ticks, ErrTicks)
            BY <1>3, <2>1
        <3>. QED
            BY <3>1 DEF Has, One, AnswerTicks, ErrTicks, Ticks, TickKinds
    <2>4. \/ t.kind = "ok" /\ cur' = <<"next">> /\ Part' = "next"
          \/ t.kind = "err" /\ cur' = <<"release">> /\ Part' = "release" /\ use.fails
        <3>1. t.kind = "err" => use.fails
            BY <1>1, <1>3, TickKind DEF LockCore, UncorkedInv
        <3>. QED
            BY <1>1, <1>4, <3>1, NextPartFacts
    <2>5. UncorkedInv'
        BY <1>1, <2>3, <2>4 DEF LockCore, UncorkedInv
    <2>6. HolderInv'
        <3>1. ~Answered' /\ Passing'
            BY <2>3, <2>4 DEF Answered, Passing
        <3>. QED
            BY <1>1, <2>2, <2>3, <2>4, <3>1 DEF LockCore, HolderInv
    <2>7. NumberInv'
        BY <1>1 DEF LockCore, NumberInv
    <2>. QED
        BY <2>5, <2>6, <2>7 DEF LockCore
<1>5. CASE t.kind \notin {"ok", "err"}
    <2>1. t \notin AnswerTicks /\ cur' = cur
        BY <1>1, <1>5, TickKind
    <2>2. Tick("close", 0) \in Ticks /\ Tick("close", 0).kind = "close"
        BY TickType DEF Tick
    <2>3. Tick("close", 0) \notin AnswerTicks /\ Tick("close", 0) \notin ErrTicks
        BY <2>2, TickKind
    <2>4. \A K : Tick("close", 0) \notin K =>
            LET s == Append(Tail(ticks), Tick("close", 0))
            IN  /\ Has(s, K) <=> Has(Tail(ticks), K)
                /\ One(Tail(ticks), K) => One(s, K)
        BY <1>1, <2>2, HasAppend
    <2>5. /\ Has(ticks', AnswerTicks) <=> Has(ticks, AnswerTicks)
          /\ One(ticks', AnswerTicks)
          /\ Has(ticks', ErrTicks) => Has(ticks, ErrTicks)
        <3>1. CASE ticks' = Tail(ticks)
            BY <1>3, <2>1, <3>1
        <3>2. CASE ticks' = Append(Tail(ticks), Tick("close", 0))
            BY <1>3, <2>1, <2>3, <2>4, <3>2
        <3>. QED
            BY <1>1, <3>1, <3>2
    <2>. QED
        BY <1>1, <2>1, <2>5, QuietLock
<1>. QED
    BY <1>4, <1>5

LEMMA LockStep == TypeOK /\ LockInv /\ [Next]_vars => LockInv'
<1>. SUFFICES ASSUME TypeOK, LockInv, [Next]_vars, Orderly' PROVE LockCore'
    BY DEF LockInv
<1>1. use' = use
    BY FinalFrame
       DEF Next, UserStep, Write, WriteAfterEnd, End, CorkCall, Uncork, ReadableEnd,
           SinkStep, WriteCallback, FlushCallback, CallStep, NextPart, SettlePart,
           ReleasePart, ErrNextPart, UncorkRest, RunTick, vars
<1>2. Orderly /\ LockCore
    BY <1>1 DEF Orderly, LockInv
<1>3. CASE UNCHANGED vars
    BY <1>2, <1>3, QuietLock DEF vars, bufVars, sinkVars, LockCore, HolderInv
<1>. QED
    BY <1>2, <1>3, LockUser, LockReadableEnd, LockSink, LockCall, LockRunTick DEF Next

LEMMA LockInit == Init => LockInv
<1>. SUFFICES ASSUME Init, Orderly PROVE LockCore
    BY DEF LockInv
<1>1. /\ corked = 0 /\ corkedBuf = <<>> /\ flushed = {} /\ cur = <<>> /\ ticks = <<>>
      /\ writing = FALSE /\ inflight = {} /\ queue = <<>> /\ issued = <<>> /\ nw = 0
    BY DEF Init
<1>2. ~Answered /\ ~Has(ticks, ErrTicks) /\ One(ticks, AnswerTicks) /\ Part = "none"
    BY <1>1, NoTicks DEF Answered, Part
<1>3. UncorkedInv /\ HolderInv
    BY <1>1, <1>2 DEF UncorkedInv, HolderInv, Passing
<1>4. NumberInv
    BY <1>1 DEF NumberInv
<1>. QED
    BY <1>3, <1>4 DEF LockCore

(* One write at a time is at the sink, and the sink gets the writes in      *)
(* order (duplex.ts:42), also when their callbacks and listeners of 'drain' *)
(* write more: whatever the chunks, the mark and the bounds, and however    *)
(* the stream is used but for corks and failures answered by calls.         *)
THEOREM SinkInOrder == Spec => []SinkOrder
<1>1. TypeOK /\ LockInv => SinkOrder
    <2>. SUFFICES ASSUME TypeOK, LockInv, Orderly
                  PROVE  /\ \A v, w \in inflight : v = w
                         /\ \A i \in DOMAIN issued : issued[i] = i
        BY DEF SinkOrder
    <2>1. NumberInv /\ DOMAIN issued = 1..Len(issued)
        BY DEF LockInv, LockCore, TypeOK, SinkTypes
    <2>. QED
        BY <2>1 DEF NumberInv
<1>. QED
    BY <1>1, TypeInit, TypeStep, LockInit, LockStep, PTL DEF Spec

-----------------------------------------------------------------------------
(* The end of a stream that no listener calls: once a final is on its way,  *)
(* all is written and called back, and nothing follows.                     *)
Alone == ~use.corks /\ ~use.reenters
AnswersOf(w) == {t \in AnswerTicks : t.n = w}

Ending == finals # {} \/ "finish" \in events \/ Has(ticks, FinishTicks)
EndingInv ==
    /\ pendEnd # 0 => ended
    /\ Part = "settle" => ~writing
    /\ Ending => ended /\ ~writing /\ queue = <<>>
CalledInv ==
    /\ called \subseteq 1..Len(issued)
    /\ \A w \in 1..Len(issued) :
          w \in called \/ w \in inflight \/ Has(ticks, AnswersOf(w))
    /\ \A w \in Nat : Has(ticks, AnswersOf(w)) => w \in 1..Len(issued)
OutInv ==
    /\ \A i \in 1..Len(out) :
          /\ out[i] <= Len(issued) /\ out[i] \notin inflight
          /\ out[i] = Null => Ending /\ \A j \in i..Len(out) : out[j] = Null
    /\ \A i, j \in 1..Len(out) : j < i /\ out[i] # Null => out[j] < out[i]
AloneCore == EndingInv /\ CalledInv /\ OutInv
AloneInv == Alone => AloneCore

LEMMA AnswersPrime ==
    ASSUME NEW w
    PROVE  Has(ticks, AnswersOf(w))' <=> Has(ticks', AnswersOf(w))
    BY DEF Has, AnswersOf, AnswerTicks, Ticks, TickKinds

LEMMA FinishPrime == Has(ticks, FinishTicks)' <=> Has(ticks', FinishTicks)
    BY DEF Has, FinishTicks, Ticks, TickKinds

(* What a step can do to the queue of ticks.                                *)
Quiet(t) == t.kind \notin {"ok", "err"}
LEMMA TickSteps ==
    ASSUME TypeOK, [Next]_vars
    PROVE  \/ UNCHANGED ticks
           \/ \E t \in Ticks : Quiet(t) /\ ticks' = Append(ticks, t)
           \/ WriteCallback
           \/ RunTick
<1>. DEFINE Deferred == \E t \in Ticks : Quiet(t) /\ ticks' = Append(ticks, t)
<1>1. \A k \in TickKinds \ {"ok", "err"}, n \in Nat :
         Tick(k, n) \in Ticks /\ Quiet(Tick(k, n))
    BY TickType DEF Quiet, Tick
<1>2. \A k \in TickKinds \ {"ok", "err"}, n \in Nat :
         ticks' = Defer(Tick(k, n)) => Deferred
    BY <1>1 DEF Defer
<1>. HIDE DEF Deferred
<1>3. {"late", "autoEnd", "finish", "finishErr", "drain"} \subseteq TickKinds \ {"ok", "err"}
    BY DEF TickKinds
<1>4. CASE UserStep
    <2>1. WriteAfterEnd => Deferred
        BY <1>2, <1>3 DEF WriteAfterEnd, LateTick
    <2>. QED
        BY <1>4, <2>1 DEF UserStep, Write, End, CorkCall, Uncork, Deferred
<1>5. CASE ReadableEnd
    <2>1. UNCHANGED ticks \/ Deferred
        BY <1>2, <1>3, <1>5 DEF ReadableEnd
    <2>. QED
        BY <2>1 DEF Deferred
<1>6. CASE FinalCallback
    <2>1. \A f \in finals : f.id \in Nat
        BY DEF TypeOK, EndTypes, Finals
    <2>2. UNCHANGED ticks \/ Deferred
        BY <1>2, <1>3, <1>6, <2>1 DEF FinalCallback, FinishTick
    <2>. QED
        BY <2>2 DEF Deferred
<1>7. CASE FlushCallback \/ UNCHANGED vars
    BY <1>7 DEF FlushCallback, vars
<1>8. CASE CallStep
    <2>1. UNCHANGED ticks \/ Deferred
        BY <1>2, <1>3, <1>8 DEF CallStep, NextPart, SettlePart, ReleasePart, ErrNextPart,
                                UncorkRest
    <2>. QED
        BY <2>1 DEF Deferred
<1>. QED
    BY <1>4, <1>5, <1>6, <1>7, <1>8 DEF Next, SinkStep

(* A write given to the sink has the next number; only a callback of the    *)
(* sink takes it back.                                                      *)
StartOne ==
    /\ issued' = Append(issued, Len(issued) + 1)
    /\ inflight' = inflight \cup {Len(issued) + 1}
    /\ UNCHANGED <<ticks, called, out>>

LEMMA HeadNext ==
    ASSUME TypeOK, LockCore, queue # <<>>
    PROVE  Head(queue) = Len(issued) + 1
<1>1. queue \in Seq(Writes) /\ Len(issued) \in Nat
    BY DEF TypeOK, BufTypes, SinkTypes
<1>2. 1 \in 1..Len(queue) /\ Head(queue) = queue[1]
    BY <1>1
<1>. QED
    BY <1>1, <1>2 DEF LockCore, NumberInv


LEMMA IssueSteps ==
    ASSUME TypeOK, LockCore, Orderly, [Next]_vars
    PROVE  \/ UNCHANGED <<issued, inflight>>
           \/ StartOne
           \/ WriteCallback
<1>1. ASSUME Accept, UserRuns, UNCHANGED <<ticks, called, out>>
      PROVE  UNCHANGED <<issued, inflight>> \/ StartOne
    <2>1. CASE corked = 0 /\ ~Locked
        <3>1. Part # "errNext"
            BY <1>1 DEF LockCore, UncorkedInv, Orderly, UserRuns
        <3>2. Len(queue) = 0
            BY <2>1, <3>1 DEF Locked, LockCore, HolderInv
        <3>3. Len(issued) \in Nat
            BY DEF TypeOK, SinkTypes
        <3>4. nw = Len(issued)
            BY <3>2, <3>3 DEF LockCore, NumberInv
        <3>. QED
            BY <1>1, <2>1, <3>4 DEF Accept, StartOne
    <2>. QED
        BY <1>1, <2>1 DEF Accept
<1>2. ASSUME StartNext, queue # <<>>, UNCHANGED <<ticks, called, out>>
      PROVE  StartOne
    BY <1>2, HeadNext DEF StartNext, StartOne
<1>3. CASE UserStep
    <2>1. CASE Write
        BY <1>1, <2>1 DEF Write
    <2>2. CASE End
        BY <1>1, <2>2 DEF End
    <2>3. ~CorkCall /\ ~Uncork
        BY DEF CorkCall, Uncork, Orderly, LockCore, UncorkedInv
    <2>. QED
        BY <1>3, <2>1, <2>2, <2>3 DEF UserStep, WriteAfterEnd, sinkVars
<1>4. CASE CallStep
    <2>1. CASE NextPart
        BY <1>2, <2>1 DEF NextPart
    <2>2. CASE ErrNextPart
        BY <1>2, <2>2 DEF ErrNextPart
    <2>. QED
        BY <1>4, <2>1, <2>2 DEF CallStep, SettlePart, ReleasePart, UncorkRest, sinkVars
<1>5. ~FlushCallback
    BY DEF FlushCallback, LockCore, UncorkedInv
<1>. QED
    BY <1>3, <1>4, <1>5, FinalFrame
       DEF Next, SinkStep, ReadableEnd, RunTick, vars, sinkVars

(* The callbacks that have run are those of writes given to the sink; the   *)
(* other such writes are at the sink, or their callback is in a tick.       *)
LEMMA CalledSame ==
    ASSUME CalledInv, UNCHANGED <<issued, inflight, called>>,
           \A w : Has(ticks', AnswersOf(w)) <=> Has(ticks, AnswersOf(w))
    PROVE  CalledInv'
<1>1. \A w : Has(ticks, AnswersOf(w))' <=> Has(ticks, AnswersOf(w))
    BY AnswersPrime
<1>2. /\ \A w \in 1..Len(issued') :
            w \in called' \/ w \in inflight' \/ Has(ticks, AnswersOf(w))'
      /\ \A w \in Nat : Has(ticks, AnswersOf(w))' => w \in 1..Len(issued')
      /\ called' \subseteq 1..Len(issued')
    BY <1>1 DEF CalledInv
<1>. QED
    BY <1>2, Zenon DEF CalledInv

LEMMA CalledStart ==
    ASSUME TypeOK, CalledInv, StartOne
    PROVE  CalledInv'
<1>. DEFINE n == Len(issued) + 1
<1>1. /\ issued \in Seq(Writes) /\ Len(issued) \in Nat
      /\ issued' = Append(issued, n) /\ inflight' = inflight \cup {n}
      /\ UNCHANGED <<ticks, called>>
    BY DEF TypeOK, SinkTypes, StartOne
<1>2. /\ Len(issued') = n
      /\ \A w \in 1..n : w \in 1..Len(issued) \/ w = n
      /\ \A w \in 1..Len(issued) : w \in 1..n
    BY <1>1
<1>3. \A w : Has(ticks, AnswersOf(w))' <=> Has(ticks, AnswersOf(w))
    BY <1>1, AnswersPrime
<1>. HIDE DEF n
<1>4. /\ \A w \in 1..Len(issued') :
            w \in called' \/ w \in inflight' \/ Has(ticks, AnswersOf(w))'
      /\ \A w \in Nat : Has(ticks, AnswersOf(w))' => w \in 1..Len(issued')
      /\ called' \subseteq 1..Len(issued')
    BY <1>1, <1>2, <1>3 DEF CalledInv
<1>. QED
    BY <1>4, Zenon DEF CalledInv

LEMMA CalledAnswer ==
    ASSUME TypeOK, LockCore, CalledInv, WriteCallback
    PROVE  CalledInv'
<1>1. PICK w \in inflight, ok \in Answers :
        /\ inflight' = inflight \ {w}
        /\ ticks' = Defer(Tick(IF ok THEN "ok" ELSE "err", w))
    BY DEF WriteCallback
<1>2. UNCHANGED <<issued, called>> /\ ticks \in Seq(Ticks)
    BY DEF WriteCallback, TypeOK
<1>. DEFINE t == Tick(IF ok THEN "ok" ELSE "err", w)
<1>3. t \in Ticks /\ t \in AnswerTicks /\ t.n = w
    <2>1. w \in Nat
        BY BoundAssumption DEF TypeOK, SinkTypes, Writes
    <2>2. t \in Ticks /\ t.n = w /\ t.kind \in {"ok", "err"}
        BY <2>1, TickType DEF Tick
    <2>. QED
        BY <2>2, TickKind
<1>4. w \in 1..Len(issued)
    <2>1. w = Len(issued) /\ w \in Writes /\ Len(issued) \in Nat
        BY DEF LockCore, NumberInv, TypeOK, SinkTypes
    <2>. QED
        BY <2>1, BoundAssumption DEF Writes
<1>5. ticks' = Append(ticks, t)
    BY <1>1 DEF Defer
<1>. HIDE DEF t
<1>6. \A v : t \in AnswersOf(v) <=> v = w
    BY <1>3 DEF AnswersOf
<1>7. \A v : Has(ticks', AnswersOf(v)) <=> Has(ticks, AnswersOf(v)) \/ v = w
    BY <1>2, <1>3, <1>5, <1>6, HasAppend
<1>8. \A v : Has(ticks, AnswersOf(v))' <=> Has(ticks, AnswersOf(v)) \/ v = w
    BY <1>7, AnswersPrime
<1>9. /\ \A v \in 1..Len(issued') :
            v \in called' \/ v \in inflight' \/ Has(ticks, AnswersOf(v))'
      /\ \A v \in Nat : Has(ticks, AnswersOf(v))' => v \in 1..Len(issued')
      /\ called' \subseteq 1..Len(issued')
    BY <1>1, <1>2, <1>4, <1>8 DEF CalledInv
<1>. QED
    BY <1>9, Zenon DEF CalledInv

LEMMA CalledRunTick ==
    ASSUME TypeOK, CalledInv, RunTick
    PROVE  CalledInv'
<1>. DEFINE t == Head(ticks)
<1>1. /\ ticks # <<>> /\ ticks \in Seq(Ticks) /\ t \in Ticks /\ Tail(ticks) \in Seq(Ticks)
      /\ called' = IF t.kind \in {"ok", "err"} THEN called \cup {t.n} ELSE called
      /\ ticks' = IF t.kind \in {"finish", "finishErr"}
                  THEN Append(Tail(ticks), Tick("close", 0)) ELSE Tail(ticks)
      /\ UNCHANGED <<inflight, issued>>
    BY TickType DEF RunTick, TypeOK
<1>2. \A K : Has(ticks, K) <=> t \in K \/ Has(Tail(ticks), K)
    BY <1>1, HasTail
<1>. HIDE DEF t
<1>3. \A v : Has(ticks', AnswersOf(v)) <=> Has(Tail(ticks), AnswersOf(v))
    <2>1. /\ Tick("close", 0) \in Ticks
          /\ \A v : Tick("close", 0) \notin AnswersOf(v)
        BY TickType DEF Tick, AnswersOf, AnswerTicks
    <2>2. \A v : Has(Append(Tail(ticks), Tick("close", 0)), AnswersOf(v))
                    <=> Has(Tail(ticks), AnswersOf(v))
        BY <1>1, <2>1, HasAppend
    <2>. QED
        BY <1>1, <2>2
<1>4. \A v : t \in AnswersOf(v) => v = t.n /\ v \in called'
    BY <1>1 DEF AnswersOf, AnswerTicks
<1>5. \A v : Has(ticks, AnswersOf(v)) => Has(ticks', AnswersOf(v)) \/ v \in called'
    BY <1>2, <1>3, <1>4
<1>6. \A v : Has(ticks', AnswersOf(v)) => Has(ticks, AnswersOf(v))
    BY <1>2, <1>3
<1>7. called' \subseteq 1..Len(issued)
    <2>1. CASE t.kind \in {"ok", "err"}
        <3>1. t \in AnswersOf(t.n) /\ t.n \in Nat
            BY <1>1, <2>1 DEF AnswersOf, AnswerTicks, Ticks
        <3>2. t.n \in 1..Len(issued)
            BY <1>2, <3>1 DEF CalledInv
        <3>. QED
            BY <1>1, <2>1, <3>2 DEF CalledInv
    <2>. QED
        BY <1>1, <2>1 DEF CalledInv
<1>8. called \subseteq called'
    BY <1>1
<1>9. /\ \A v \in 1..Len(issued') :
            v \in called' \/ v \in inflight' \/ Has(ticks, AnswersOf(v))'
      /\ \A v \in Nat : Has(ticks, AnswersOf(v))' => v \in 1..Len(issued')
      /\ called' \subseteq 1..Len(issued')
    BY <1>1, <1>5, <1>6, <1>7, <1>8, AnswersPrime DEF CalledInv
<1>. QED
    BY <1>9, Zenon DEF CalledInv

LEMMA CalledStep ==
    ASSUME TypeOK, LockCore, Orderly, CalledInv, [Next]_vars
    PROVE  CalledInv'
<1>1. CASE WriteCallback
    BY <1>1, CalledAnswer
<1>2. CASE RunTick
    BY <1>2, CalledRunTick
<1>3. CASE ~WriteCallback /\ ~RunTick
    <2>1. UNCHANGED called
        <3>1. ~FlushCallback
            BY DEF FlushCallback, LockCore, UncorkedInv
        <3>. QED
            BY <1>3, <3>1, FinalFrame
               DEF Next, UserStep, Write, WriteAfterEnd, End, CorkCall, Uncork, ReadableEnd,
                   SinkStep, CallStep, NextPart, SettlePart, ReleasePart,
                   ErrNextPart, UncorkRest, vars
    <2>2. ASSUME UNCHANGED <<issued, inflight>> PROVE CalledInv'
        <3>1. CASE UNCHANGED ticks
            BY <2>1, <2>2, <3>1, CalledSame
        <3>2. CASE \E t \in Ticks : Quiet(t) /\ ticks' = Append(ticks, t)
            <4>1. PICK t \in Ticks : Quiet(t) /\ ticks' = Append(ticks, t)
                BY <3>2
            <4>2. \A w : t \notin AnswersOf(w)
                BY <4>1 DEF Quiet, AnswersOf, AnswerTicks
            <4>3. \A w : Has(ticks', AnswersOf(w)) <=> Has(ticks, AnswersOf(w))
                BY <4>1, <4>2, HasAppend DEF TypeOK
            <4>. QED
                BY <2>1, <2>2, <4>3, CalledSame
        <3>. QED
            BY <1>3, <3>1, <3>2, TickSteps
    <2>3. CASE StartOne
        BY <2>3, CalledStart
    <2>. QED
        BY <1>3, <2>2, <2>3, IssueSteps
<1>. QED
    BY <1>1, <1>2, <1>3

(* Ending: nothing that has begun to end goes back.                         *)
LEMMA FinishSteps ==
    ASSUME TypeOK, UserStep \/ ReadableEnd \/ WriteCallback \/ CallStep
    PROVE  Has(ticks', FinishTicks) <=> Has(ticks, FinishTicks)
<1>. DEFINE Same == Has(ticks', FinishTicks) <=> Has(ticks, FinishTicks)
<1>1. \A k \in TickKinds \ {"finish", "finishErr"}, n \in Nat :
         Tick(k, n) \in Ticks /\ Tick(k, n) \notin FinishTicks
    <2>. TAKE k \in TickKinds \ {"finish", "finishErr"}, n \in Nat
    <2>1. Tick(k, n) \in Ticks /\ Tick(k, n).kind = k
        BY TickType DEF Tick
    <2>. QED
        BY <2>1, TickKind
<1>2. \A k \in TickKinds \ {"finish", "finishErr"}, n \in Nat :
         ticks' = Defer(Tick(k, n)) => Same
    BY <1>1, HasAppend DEF TypeOK, Defer
<1>3. UNCHANGED ticks => Same
    OBVIOUS
<1>. HIDE DEF Same
<1>4. {"late", "autoEnd", "ok", "err", "drain"} \subseteq TickKinds \ {"finish", "finishErr"}
    BY DEF TickKinds
<1>5. ASSUME UserStep PROVE Same
    BY <1>2, <1>3, <1>4, <1>5
       DEF UserStep, Write, WriteAfterEnd, LateTick, End, CorkCall, Uncork
<1>6. ASSUME ReadableEnd PROVE Same
    BY <1>2, <1>3, <1>4, <1>6 DEF ReadableEnd
<1>7. ASSUME WriteCallback PROVE Same
    <2>1. PICK w \in inflight, ok \in Answers :
             ticks' = Defer(Tick(IF ok THEN "ok" ELSE "err", w))
        BY <1>7 DEF WriteCallback
    <2>2. w \in Nat
        BY BoundAssumption DEF TypeOK, SinkTypes, Writes
    <2>. QED
        BY <1>2, <1>4, <2>1, <2>2
<1>8. ASSUME CallStep PROVE Same
    BY <1>2, <1>3, <1>4, <1>8 DEF CallStep, NextPart, SettlePart, ReleasePart, ErrNextPart,
                                  UncorkRest
<1>. QED
    BY <1>5, <1>6, <1>7, <1>8 DEF Same

LEMMA EndingSame ==
    ASSUME Has(ticks', FinishTicks) <=> Has(ticks, FinishTicks),
           UNCHANGED finals,
           "finish" \in events' <=> "finish" \in events
    PROVE  Ending' <=> Ending
    BY FinishPrime DEF Ending

LEMMA EndingKept ==
    ASSUME EndingInv, Ending' <=> Ending,
           UNCHANGED <<pendEnd, ended, writing, queue>>,
           Part' = Part \/ Part' # "settle"
    PROVE  EndingInv' /\ (Ending => Ending')
    BY DEF EndingInv

LEMMA EndingUser ==
    ASSUME TypeOK, LockCore, Alone, EndingInv, UserStep
    PROVE  EndingInv' /\ (Ending => Ending')
<1>1. Has(ticks', FinishTicks) <=> Has(ticks, FinishTicks)
    BY FinishSteps
<1>2. CASE Write
    <2>1. Ending' <=> Ending
        BY <1>1, <1>2, EndingSame DEF Write, endVars
    <2>2. ~Ending
        BY <1>2 DEF Write, EndingInv
    <2>3. Part' = Part /\ Part # "settle"
        BY <1>2, NextPartFacts DEF Write, UserRuns, Alone
    <2>. QED
        BY <1>2, <2>1, <2>2, <2>3 DEF EndingInv, Write, endVars
<1>3. CASE WriteAfterEnd
    <2>1. Ending' <=> Ending
        BY <1>1, <1>3, EndingSame DEF WriteAfterEnd, endVars
    <2>. QED
        BY <1>3, <2>1, EndingKept, NextPartFacts DEF WriteAfterEnd, bufVars, endVars
<1>4. CASE End
    <2>1. ended' = TRUE /\ Part' = Part /\ Part # "settle" /\ UNCHANGED <<ticks, events>>
        BY <1>4, NextPartFacts DEF End, EndBody, UserRuns, Alone
    <2>2. \/ ~ended
          \/ UNCHANGED <<writing, queue>>
        BY <1>4 DEF End, bufVars
    <2>3. \/ UNCHANGED finals
          \/ ~writing' /\ queue' = <<>> /\ finals' # {}
        BY <1>4 DEF End, EndBody, Busy, DoFinal
    <2>4. Ending => UNCHANGED <<writing, queue>>
        BY <2>2 DEF EndingInv
    <2>5. Ending => Ending'
        BY <1>1, <2>1, <2>3, FinishPrime DEF Ending
    <2>6. Ending' => Ending \/ (~writing' /\ queue' = <<>>)
        BY <1>1, <2>1, <2>3, FinishPrime DEF Ending
    <2>. QED
        BY <2>1, <2>4, <2>5, <2>6 DEF EndingInv
<1>5. ~CorkCall /\ ~Uncork
    BY DEF CorkCall, Uncork, Alone, LockCore, UncorkedInv
<1>. QED
    BY <1>2, <1>3, <1>4, <1>5 DEF UserStep

LEMMA EndingSink ==
    ASSUME TypeOK, LockCore, EndingInv, SinkStep \/ ReadableEnd
    PROVE  EndingInv' /\ (Ending => Ending')
<1>1. CASE FinalCallback
    <2>1. PICK f \in finals, ok \in Answers :
            IF f.stage = "final" /\ use.transform
            THEN /\ finals' = (finals \ {f})
                       \cup {[f EXCEPT !.stage = "flush", !.err = ~ok]}
                 /\ UNCHANGED ticks
            ELSE /\ finals' = finals \ {f}
                 /\ ticks' = Defer(FinishTick(f, ok))
        BY <1>1 DEF FinalCallback
    <2>2. Ending
        BY DEF Ending
    <2>3. Ending'
        <3>1. CASE f.stage = "final" /\ use.transform
            BY <2>1, <3>1 DEF Ending
        <3>2. CASE ~(f.stage = "final" /\ use.transform)
            <4>. DEFINE t == FinishTick(f, ok)
            <4>1. f.id \in Nat
                BY DEF TypeOK, EndTypes, Finals
            <4>2. t \in Ticks /\ t.kind \in {"finish", "finishErr"}
                BY <4>1, TickType DEF FinishTick, Tick
            <4>3. ticks' = Append(ticks, t)
                BY <2>1, <3>2 DEF Defer
            <4>. HIDE DEF t
            <4>4. t \in FinishTicks
                BY <4>2, TickKind
            <4>5. Has(ticks', FinishTicks)
                BY <4>2, <4>3, <4>4, HasAppend DEF TypeOK
            <4>. QED
                BY <4>5, FinishPrime DEF Ending
        <3>. QED
            BY <3>1, <3>2
    <2>. QED
        BY <1>1, <2>2, <2>3, EndingKept, NextPartFacts DEF FinalCallback, bufVars
<1>2. CASE WriteCallback \/ ReadableEnd
    <2>1. Has(ticks', FinishTicks) <=> Has(ticks, FinishTicks)
        BY <1>2, FinishSteps
    <2>2. Ending' <=> Ending
        BY <1>2, <2>1, EndingSame DEF WriteCallback, ReadableEnd, endVars
    <2>. QED
        BY <1>2, <2>2, EndingKept, NextPartFacts
           DEF WriteCallback, ReadableEnd, endVars, bufVars
<1>3. ~FlushCallback
    BY DEF FlushCallback, LockCore, UncorkedInv
<1>. QED
    BY <1>1, <1>2, <1>3 DEF SinkStep

LEMMA EndingCall ==
    ASSUME TypeOK, LockCore, EndingInv, CallStep
    PROVE  EndingInv' /\ (Ending => Ending')
<1>1. Has(ticks', FinishTicks) <=> Has(ticks, FinishTicks)
    BY FinishSteps
<1>2. /\ \A k : <<k>> \o <<>> = <<k>>
      /\ Part = "next" => Tail(cur) = <<>>
      /\ Part = "settle" => Tail(cur) = <<>>
      /\ Part = "release" => Tail(cur) = <<>>
      /\ Part = "errNext" => Tail(cur) = <<>>
      /\ Part # "uncorked"
    <2>1. \A k : <<k>> \o <<>> = <<k>>
        OBVIOUS
    <2>. QED
        BY <2>1, PartFacts DEF LockCore
<1>3. ASSUME Settle, pendEnd # 0 => ended
      PROVE  UNCHANGED <<pendEnd, finals>> \/ (pendEnd' = 0 /\ finals' # {} /\ ended)
    <2>1. CASE inflight = {} /\ pendEnd # 0
        <3>1. pendEnd' = 0 /\ DoFinal(pendEnd) /\ ended
            BY <1>3, <2>1 DEF Settle
        <3>2. finals' # {}
            BY <3>1 DEF DoFinal
        <3>. QED
            BY <3>1, <3>2
    <2>2. CASE ~(inflight = {} /\ pendEnd # 0)
        BY <1>3, <2>2 DEF Settle
    <2>. QED
        BY <2>1, <2>2
<1>4. CASE NextPart
    <2>1. writing /\ ~Ending
        BY <1>4 DEF NextPart, LockCore, HolderInv, Passing, EndingInv
    <2>2. UNCHANGED <<ended, ticks>>
        BY <1>4 DEF NextPart
    <2>3. CASE /\ UNCHANGED <<pendEnd, finals>>
               /\ "finish" \in events' <=> "finish" \in events
               /\ Part' = "settle" => ~writing'
        <3>1. ~Ending'
            BY <1>1, <2>1, <2>3, EndingSame
        <3>. QED
            BY <2>1, <2>2, <2>3, <3>1 DEF EndingInv
    <2>4. CASE /\ queue' = <<>> /\ writing' = FALSE /\ Settle /\ cur' = Tail(cur)
               /\ UNCHANGED events
        <3>1. UNCHANGED <<pendEnd, finals>> \/ (pendEnd' = 0 /\ finals' # {} /\ ended)
            BY <1>3, <2>4 DEF EndingInv
        <3>2. Part' = "none"
            BY <1>2, <1>4, <2>4, NextPartFacts DEF NextPart
        <3>3. UNCHANGED finals => ~Ending'
            BY <1>1, <2>1, <2>4, EndingSame
        <3>. QED
            BY <2>1, <2>2, <2>4, <3>1, <3>2, <3>3 DEF EndingInv
    <2>5. \/ cur' = Tail(cur) /\ UNCHANGED <<pendEnd, finals, events>>
          \/ /\ writing' = FALSE /\ events' = events \cup {"drain"}
             /\ UNCHANGED <<pendEnd, finals>>
          \/ /\ queue' = <<>> /\ writing' = FALSE /\ Settle /\ cur' = Tail(cur)
             /\ UNCHANGED events
        BY <1>4 DEF NextPart
    <2>6. cur' = Tail(cur) => Part' = "none"
        BY <1>2, <1>4, NextPartFacts DEF NextPart
    <2>7. CASE cur' = Tail(cur) /\ UNCHANGED <<pendEnd, finals, events>>
        BY <2>3, <2>6, <2>7
    <2>8. CASE /\ writing' = FALSE /\ events' = events \cup {"drain"}
               /\ UNCHANGED <<pendEnd, finals>>
        BY <2>3, <2>8
    <2>. QED
        BY <2>4, <2>5, <2>7, <2>8
<1>5. CASE SettlePart
    <2>1. /\ ~writing /\ Part' = "none" /\ Settle
          /\ UNCHANGED <<ended, writing, queue, events>>
        BY <1>2, <1>5, NextPartFacts DEF SettlePart, EndingInv, bufVars
    <2>2. queue = <<>>
        BY <1>5, <2>1 DEF SettlePart, LockCore, HolderInv
    <2>3. UNCHANGED <<pendEnd, finals>> \/ (pendEnd' = 0 /\ finals' # {} /\ ended)
        BY <1>3, <2>1 DEF EndingInv
    <2>4. UNCHANGED finals => (Ending' <=> Ending)
        BY <1>1, <2>1, EndingSame
    <2>5. finals' # {} => Ending'
        BY DEF Ending
    <2>. QED
        BY <2>1, <2>2, <2>3, <2>4, <2>5 DEF EndingInv
<1>6. CASE ReleasePart
    <2>1. writing /\ ~Ending
        BY <1>6 DEF ReleasePart, LockCore, HolderInv, Passing, EndingInv
    <2>2. ~Ending'
        BY <1>1, <1>6, <2>1, EndingSame DEF ReleasePart, endVars
    <2>3. Part' = "errNext"
        BY <1>2, <1>6, NextPartFacts DEF ReleasePart
    <2>. QED
        BY <1>6, <2>1, <2>2, <2>3 DEF EndingInv, ReleasePart, endVars
<1>7. CASE ErrNextPart
    <2>1. Part' = "none" /\ UNCHANGED <<pendEnd, ended>>
        BY <1>2, <1>7, NextPartFacts DEF ErrNextPart, endVars
    <2>2. Ending' <=> Ending
        BY <1>1, <1>7, EndingSame DEF ErrNextPart, endVars
    <2>3. Ending => UNCHANGED <<writing, queue>>
        BY <1>7 DEF ErrNextPart, EndingInv
    <2>. QED
        BY <2>1, <2>2, <2>3 DEF EndingInv
<1>8. ~UncorkRest
    BY <1>2 DEF UncorkRest
<1>. QED
    BY <1>4, <1>5, <1>6, <1>7, <1>8 DEF CallStep

LEMMA EndingRunTick ==
    ASSUME TypeOK, LockCore, EndingInv, RunTick
    PROVE  EndingInv' /\ (Ending => Ending')
<1>. DEFINE t == Head(ticks)
<1>1. /\ ticks # <<>> /\ ticks \in Seq(Ticks) /\ t \in Ticks /\ Tail(ticks) \in Seq(Ticks)
      /\ events' = events \cup EventsOf(t.kind)
      /\ cur' = CASE t.kind = "ok" -> <<"next">>
                  [] t.kind = "err" -> <<"release">>
                  [] OTHER -> <<>>
      /\ ticks' = IF t.kind \in {"finish", "finishErr"}
                  THEN Append(Tail(ticks), Tick("close", 0)) ELSE Tail(ticks)
      /\ UNCHANGED <<writing, queue, inflight>>
      /\ IF t.kind = "autoEnd" THEN EndBody(MaxEnds + 1)
         ELSE UNCHANGED <<ended, pendEnd, finals>>
    BY TickType DEF RunTick, TypeOK, bufVars
<1>2. Has(ticks, FinishTicks) <=> t \in FinishTicks \/ Has(Tail(ticks), FinishTicks)
    BY <1>1, HasTail
<1>. HIDE DEF t
<1>3. Part' \in {"none", "next", "release"}
    BY <1>1, NextPartFacts
<1>4. Has(ticks', FinishTicks) <=> Has(Tail(ticks), FinishTicks)
    <2>1. Tick("close", 0) \in Ticks /\ Tick("close", 0) \notin FinishTicks
        BY TickType DEF Tick, FinishTicks
    <2>2. Has(Append(Tail(ticks), Tick("close", 0)), FinishTicks)
             <=> Has(Tail(ticks), FinishTicks)
        BY <1>1, <2>1, HasAppend
    <2>. QED
        BY <1>1, <2>2
<1>5. "finish" \in events' <=> "finish" \in events \/ t \in FinishTicks
    <2>1. "finish" \in EventsOf(t.kind) <=> t.kind \in {"finish", "finishErr"}
        BY DEF EventsOf
    <2>. QED
        BY <1>1, <2>1, TickKind
<1>6. CASE t.kind # "autoEnd"
    <2>1. Ending' <=> Ending
        BY <1>1, <1>2, <1>4, <1>5, <1>6, FinishPrime DEF Ending
    <2>. QED
        BY <1>1, <1>3, <1>6, <2>1 DEF EndingInv
<1>7. CASE t.kind = "autoEnd"
    <2>1. EndBody(MaxEnds + 1) /\ t \notin FinishTicks
        BY <1>1, <1>7, TickKind
    <2>2. /\ ended' = TRUE
          /\ \/ UNCHANGED finals
             \/ ~writing' /\ queue' = <<>> /\ finals' # {}
        BY <2>1 DEF EndBody, Busy, DoFinal
    <2>3. /\ Ending => Ending'
          /\ Ending' => Ending \/ (~writing' /\ queue' = <<>>)
        BY <1>2, <1>4, <1>5, <2>1, <2>2, FinishPrime DEF Ending
    <2>. QED
        BY <1>1, <1>3, <2>2, <2>3 DEF EndingInv
<1>. QED
    BY <1>6, <1>7

LEMMA EndingStep ==
    ASSUME TypeOK, LockCore, Alone, EndingInv, [Next]_vars
    PROVE  EndingInv' /\ (Ending => Ending')
<1>1. CASE UNCHANGED vars
    <2>1. Ending' <=> Ending
        BY <1>1, FinishPrime DEF Ending, vars, endVars
    <2>. QED
        BY <1>1, <2>1, EndingKept, NextPartFacts DEF vars, bufVars, endVars
<1>. QED
    BY <1>1, EndingUser, EndingSink, EndingCall, EndingRunTick DEF Next

(* The output grows by the results of writes, in order, and by the end.     *)
LEMMA OutSame ==
    ASSUME OutInv, UNCHANGED out, Ending => Ending',
           inflight' \subseteq inflight, UNCHANGED issued
    PROVE  OutInv'
    BY DEF OutInv

LEMMA OutStart ==
    ASSUME TypeOK, OutInv, StartOne, Ending => Ending'
    PROVE  OutInv'
<1>. DEFINE n == Len(issued) + 1
<1>1. /\ Len(issued) \in Nat /\ Len(issued') = n /\ UNCHANGED out
      /\ inflight' = inflight \cup {n} /\ out \in Seq(Nat)
    BY DEF TypeOK, SinkTypes, StartOne
<1>2. \A i \in 1..Len(out) : out[i] \in Nat
    BY <1>1
<1>3. \A i \in 1..Len(out) : out[i] <= n /\ out[i] # n
    BY <1>1, <1>2 DEF OutInv
<1>. HIDE DEF n
<1>. QED
    BY <1>1, <1>3 DEF OutInv

LEMMA OutAppend ==
    ASSUME TypeOK, OutInv, NEW v \in Nat, out' = Append(out, v), UNCHANGED issued,
           inflight' \subseteq inflight, Ending => Ending',
           v <= Len(issued), v \notin inflight',
           v = Null => Ending',
           v # Null => \A i \in 1..Len(out) : out[i] # Null /\ out[i] < v
    PROVE  OutInv'
<1>. DEFINE m == Len(out) + 1
<1>1. /\ out \in Seq(Nat) /\ Len(out) \in Nat /\ Len(out') = m
      /\ \A i \in 1..Len(out) : out'[i] = out[i] /\ i < m
      /\ out'[m] = v /\ m \in 1..m
      /\ \A i \in 1..m : i \in 1..Len(out) \/ i = m
    BY DEF TypeOK, SinkTypes
<1>2. ASSUME NEW i \in 1..Len(out')
      PROVE  /\ out'[i] <= Len(issued') /\ out'[i] \notin inflight'
             /\ out'[i] = Null => Ending' /\ \A j \in i..Len(out') : out'[j] = Null
    <2>1. CASE i \in 1..Len(out)
        <3>1. /\ out[i] <= Len(issued) /\ out[i] \notin inflight
              /\ out[i] = Null => Ending /\ \A j \in i..Len(out) : out[j] = Null
            BY <2>1 DEF OutInv
        <3>2. out'[i] = out[i]
            BY <1>1, <2>1
        <3>3. ASSUME out[i] = Null, NEW j \in i..Len(out') PROVE out'[j] = Null
            <4>1. v = Null
                BY <2>1, <3>3
            <4>2. j = m \/ (j \in i..Len(out) /\ j \in 1..Len(out))
                BY <1>1, <2>1
            <4>. QED
                BY <1>1, <3>1, <3>3, <4>1, <4>2
        <3>. QED
            BY <3>1, <3>2, <3>3
    <2>2. CASE i = m
        <3>1. i..Len(out') = {m}
            BY <1>1, <2>2
        <3>. QED
            BY <1>1, <2>2, <3>1
    <2>. QED
        BY <1>1, <1>2, <2>1, <2>2
<1>3. ASSUME NEW i \in 1..Len(out'), NEW j \in 1..Len(out'), j < i, out'[i] # Null
      PROVE  out'[j] < out'[i]
    <2>1. j \in 1..Len(out)
        BY <1>1, <1>3
    <2>2. CASE i \in 1..Len(out)
        BY <1>1, <1>3, <2>1, <2>2 DEF OutInv
    <2>3. CASE i = m
        BY <1>1, <1>3, <2>1, <2>3
    <2>. QED
        BY <1>1, <2>2, <2>3
<1>. QED
    BY <1>2, <1>3 DEF OutInv

LEMMA OutStep ==
    ASSUME TypeOK, LockCore, Alone, Orderly, EndingInv, OutInv, [Next]_vars
    PROVE  OutInv'
<1>0. Ending => Ending'
    BY EndingStep
<1>1. CASE WriteCallback
    <2>1. PICK w \in inflight, ok \in Answers :
            inflight' = inflight \ {w} /\ out' = Output(w, ok)
        BY <1>1 DEF WriteCallback
    <2>2. UNCHANGED issued /\ inflight' \subseteq inflight /\ w \notin inflight'
        BY <1>1, <2>1 DEF WriteCallback
    <2>3. w = Len(issued) /\ w \in Nat /\ w # Null
        BY BoundAssumption DEF LockCore, NumberInv, TypeOK, SinkTypes, Writes, Null
    <2>4. ~Ending
        <3>1. writing
            BY DEF LockCore, HolderInv
        <3>. QED
            BY <3>1 DEF EndingInv
    <2>5. \A i \in 1..Len(out) : out[i] # Null /\ out[i] < w
        <3>. SUFFICES ASSUME NEW i \in 1..Len(out) PROVE out[i] # Null /\ out[i] < w
            OBVIOUS
        <3>1. out[i] \in Nat /\ out[i] <= w /\ out[i] # w /\ out[i] # Null
            BY <2>3, <2>4 DEF OutInv, TypeOK, SinkTypes
        <3>. QED
            BY <2>3, <3>1
    <2>6. CASE out' = Append(out, w)
        BY <1>0, <2>2, <2>3, <2>5, <2>6, OutAppend
    <2>7. CASE out' = out
        BY <1>0, <2>2, <2>7, OutSame
    <2>. QED
        BY <2>1, <2>6, <2>7 DEF Output
<1>2. CASE FinalCallback
    <2>1. UNCHANGED <<issued, inflight>> /\ out' \in {out, Append(out, Null)}
        BY <1>2 DEF FinalCallback
    <2>2. Ending
        BY <1>2 DEF FinalCallback, Ending
    <2>3. inflight = {}
        BY <2>2 DEF EndingInv, LockCore, HolderInv
    <2>4. CASE out' = Append(out, Null)
        <3>1. Null \in Nat /\ Null <= Len(issued)
            BY DEF Null, TypeOK, SinkTypes
        <3>. QED
            BY <1>0, <2>1, <2>2, <2>3, <2>4, <3>1, OutAppend
    <2>5. CASE out' = out
        BY <1>0, <2>1, <2>5, OutSame
    <2>. QED
        BY <2>1, <2>4, <2>5
<1>3. CASE ~WriteCallback /\ ~FinalCallback
    <2>1. UNCHANGED out
        <3>1. ~FlushCallback /\ ~Uncork
            BY DEF FlushCallback, Uncork, LockCore, UncorkedInv
        <3>. QED
            BY <1>3, <3>1
               DEF Next, UserStep, Write, WriteAfterEnd, End, CorkCall, ReadableEnd,
                   SinkStep, CallStep, NextPart, SettlePart, ReleasePart, ErrNextPart,
                   UncorkRest, RunTick, vars, sinkVars
    <2>2. CASE UNCHANGED <<issued, inflight>>
        BY <1>0, <2>1, <2>2, OutSame
    <2>3. CASE StartOne
        BY <1>0, <2>3, OutStart
    <2>. QED
        BY <1>3, <2>2, <2>3, IssueSteps
<1>. QED
    BY <1>1, <1>2, <1>3

LEMMA AloneStep == TypeOK /\ LockInv /\ AloneInv /\ [Next]_vars => AloneInv'
<1>. SUFFICES ASSUME TypeOK, LockInv, AloneInv, [Next]_vars, Alone' PROVE AloneCore'
    BY DEF AloneInv
<1>1. use' = use
    BY FinalFrame
       DEF Next, UserStep, Write, WriteAfterEnd, End, CorkCall, Uncork, ReadableEnd,
           SinkStep, WriteCallback, FlushCallback, CallStep, NextPart, SettlePart,
           ReleasePart, ErrNextPart, UncorkRest, RunTick, vars
<1>2. Alone /\ Orderly /\ LockCore /\ AloneCore
    BY <1>1 DEF Alone, Orderly, LockInv, AloneInv
<1>. QED
    BY <1>2, EndingStep, CalledStep, OutStep DEF AloneCore

LEMMA AloneInit == Init => AloneInv
<1>. SUFFICES ASSUME Init PROVE AloneCore
    BY DEF AloneInv
<1>1. /\ cur = <<>> /\ ticks = <<>> /\ inflight = {} /\ queue = <<>> /\ issued = <<>>
      /\ called = {} /\ events = {} /\ out = <<>> /\ finals = {} /\ pendEnd = 0
      /\ writing = FALSE
    BY DEF Init
<1>2. \A K : ~Has(ticks, K)
    BY <1>1, NoTicks
<1>3. ~Ending /\ Part = "none"
    BY <1>1, <1>2 DEF Ending, Part
<1>4. EndingInv
    BY <1>1, <1>3 DEF EndingInv
<1>5. CalledInv
    BY <1>1, <1>2 DEF CalledInv
<1>6. OutInv
    BY <1>1 DEF OutInv
<1>. QED
    BY <1>4, <1>5, <1>6 DEF AloneCore

(* When a stream that no listener calls and that is not corked emits        *)
(* 'finish', the callback of every write has run; the output of a Transform *)
(* ends after the results of all its writes, and these are in their order   *)
(* (duplex.ts:261).                                                         *)
THEOREM FinishIsComplete == Spec => []OutputComplete
<1>1. TypeOK /\ LockInv /\ AloneInv => OutputComplete
    <2>. SUFFICES ASSUME TypeOK, LockInv, AloneInv, Alone
                  PROVE  /\ "finish" \in events => called = 1..nw
                         /\ \A i \in DOMAIN out :
                              /\ out[i] = Null => \A j \in i..Len(out) : out[j] = Null
                              /\ out[i] = Null => inflight = {} /\ queue = <<>>
                              /\ \A j \in 1..(i - 1) : out[i] # Null => out[j] < out[i]
        BY DEF OutputComplete, Alone
    <2>1. LockCore /\ EndingInv /\ CalledInv /\ OutInv
        BY DEF LockInv, Orderly, Alone, AloneInv, AloneCore
    <2>2. Ending => inflight = {} /\ queue = <<>> /\ ~Answered
        BY <2>1 DEF LockCore, HolderInv, EndingInv
    <2>3. ASSUME "finish" \in events PROVE called = 1..nw
        <3>1. Ending
            BY <2>3 DEF Ending
        <3>2. Len(queue) = 0 /\ Len(issued) \in Nat
            BY <2>2, <3>1 DEF TypeOK, SinkTypes
        <3>3. nw = Len(issued)
            BY <2>1, <3>2 DEF LockCore, NumberInv
        <3>4. \A w : ~Has(ticks, AnswersOf(w))
            BY <2>2, <3>1 DEF Answered, Has, AnswersOf
        <3>. QED
            BY <2>1, <2>2, <3>1, <3>3, <3>4 DEF CalledInv
    <2>4. DOMAIN out = 1..Len(out) /\ Len(out) \in Nat
        BY DEF TypeOK, SinkTypes
    <2>5. ASSUME NEW i \in DOMAIN out
          PROVE  /\ out[i] = Null => \A j \in i..Len(out) : out[j] = Null
                 /\ out[i] = Null => inflight = {} /\ queue = <<>>
                 /\ \A j \in 1..(i - 1) : out[i] # Null => out[j] < out[i]
        <3>1. /\ out[i] = Null => \A j \in i..Len(out) : out[j] = Null
              /\ out[i] = Null => inflight = {} /\ queue = <<>>
            BY <2>1, <2>2, <2>4 DEF OutInv
        <3>2. ASSUME NEW j \in 1..(i - 1), out[i] # Null PROVE out[j] < out[i]
            <4>1. j \in 1..Len(out) /\ j < i
                BY <2>4
            <4>. QED
                BY <2>1, <2>4, <3>2, <4>1 DEF OutInv
        <3>. QED
            BY <3>1, <3>2
    <2>. QED
        BY <2>3, <2>5
<1>. QED
    BY <1>1, TypeInit, TypeStep, LockInit, LockStep, AloneInit, AloneStep, PTL DEF Spec
=============================================================================
