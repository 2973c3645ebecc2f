--------------------------- MODULE WritableProofs ---------------------------
(* Proofs about Writable, for every sink, bound and high water mark: it     *)
(* loses nothing, is serial and in order, and implements FifoSink.          *)
EXTENDS Writable, DataTheorems

-----------------------------------------------------------------------------
(* Type correctness.                                                        *)

(* The ticks the code makes, and what it reads of a tick.                   *)
LEMMA TickFacts ==
    /\ \A o \in Completions, w \in Writes : Tick(o, w) \in TickSet
    /\ \A i \in 0..MaxEnds : Tick("endcb", i) \in TickSet
    /\ \A k \in TickKinds \ (Completions \cup {"endcb"}) : Tick(k, 0) \in TickSet
    /\ \A t \in TickSet :
          /\ t.kind \in TickKinds
          /\ t.kind \in Completions => t.w \in Writes
          /\ t.kind = "endcb" => t.w \in 0..MaxEnds
BY DEF Tick, TickSet, TickKinds, Completions

(* nextTick(cb) with any of these ticks.                                    *)
LEMMA DeferType ==
    ASSUME ticks \in Seq(TickSet)
    PROVE  /\ \A o \in Completions, w \in Writes :
                 Defer(Tick(o, w)) \in Seq(TickSet)
           /\ \A i \in 0..MaxEnds : Defer(Tick("endcb", i)) \in Seq(TickSet)
           /\ \A k \in TickKinds \ (Completions \cup {"endcb"}) :
                 Defer(Tick(k, 0)) \in Seq(TickSet)
BY TickFacts DEF Defer

LEMMA FinishTickType ==
    ASSUME ticks \in Seq(TickSet), NEW o \in Outcomes
    PROVE  Defer(FinishTick(o)) \in Seq(TickSet)
<1>1. "finish" \in TickKinds \ (Completions \cup {"endcb"})
      /\ "finishErr" \in TickKinds \ (Completions \cup {"endcb"})
    BY DEF TickKinds, Completions
<1>. QED
    BY <1>1, DeferType DEF FinishTick

LEMMA CloseTicksType ==
    ASSUME NEW queue \in Seq(TickSet)
    PROVE  /\ queue \o CloseTicks \in Seq(TickSet)
           /\ queue \o ErrorTicks \in Seq(TickSet)
<1>1. Tick("error", 0) \in TickSet /\ Tick("close", 0) \in TickSet
    BY TickFacts DEF TickKinds, Completions
<1>2. CloseTicks \in Seq(TickSet) /\ ErrorTicks \in Seq(TickSet)
    BY <1>1 DEF CloseTicks, ErrorTicks
<1>. QED
    BY <1>2

(* What may be left of a tick.                                              *)
LEMMA PartsType ==
    ASSUME cur \in Seq(Parts)
    PROVE  /\ \A p \in Parts : <<p>> \in Seq(Parts) /\ <<p>> \o cur \in Seq(Parts)
           /\ \A t \in TickSet : RestOfTick(t) \in Seq(Parts)
<1>1. \A p \in Parts : <<p>> \in Seq(Parts)
    OBVIOUS
<1>2. \A p \in Parts : <<p>> \o cur \in Seq(Parts)
    BY <1>1
<1>3. /\ <<"check">> \in Seq(Parts) /\ <<"checkFlush">> \in Seq(Parts)
      /\ <<"flush">> \in Seq(Parts) /\ <<"close">> \in Seq(Parts)
      /\ <<>> \in Seq(Parts)
    BY <1>1 DEF Parts
<1>4. \A t \in TickSet : RestOfTick(t) \in Seq(Parts)
    BY <1>3 DEF RestOfTick
<1>. QED
    BY <1>1, <1>2, <1>4

(* What write() does to the variables it may change.                        *)
LEMMA AcceptType ==
    ASSUME TypeOK, nw < MaxWrites, NEW next \in {"user", "endRest"},
           Accept(next)
    PROVE  /\ nw' = nw + 1 /\ nw' \in 0..MaxWrites
           /\ owed' \in BOOLEAN /\ needDrain' \in BOOLEAN /\ writing' \in BOOLEAN
           /\ corkedBuf' \in Seq(Writes) /\ writeBuf' \in Seq(Writes)
           /\ pendCons' \in Seq(Writes)
           /\ pc' \in {"user", "endRest", "doWrite"}
           /\ cont' \in {"user", "pendingEnd", "endRest"}
           /\ arg' \in 0..MaxWrites
           /\ pc' = "doWrite" => arg' \in Writes
<1>. USE DEF TypeOK
<1>1. nw + 1 \in Writes /\ nw + 1 \in 0..MaxWrites
    BY BoundAssumption DEF QueueTypes, Writes
<1>2. nw' = nw + 1
    BY DEF Accept
<1>3. owed' \in BOOLEAN /\ needDrain' \in BOOLEAN
    BY DEF FlagTypes, Accept
<1>4. writing' \in BOOLEAN
    BY DEF FlagTypes, Accept, Locked
<1>5. \A buf \in Seq(Writes) : Append(buf, nw + 1) \in Seq(Writes)
    BY <1>1
<1>6. corkedBuf' \in Seq(Writes) /\ pendCons' \in Seq(Writes)
    BY <1>5 DEF QueueTypes, Accept
<1>7. writeBuf' \in Seq(Writes)
    BY <1>5 DEF QueueTypes, Accept, Enqueue
<1>8. /\ pc' \in {"user", "endRest", "doWrite"}
      /\ cont' \in {"user", "pendingEnd", "endRest"}
      /\ arg' \in 0..MaxWrites
      /\ pc' = "doWrite" => arg' \in Writes
    BY <1>1, next \in {"user", "endRest"} DEF CallTypes, Accept
<1>. QED
    BY <1>1, <1>2, <1>3, <1>4, <1>6, <1>7, <1>8

(* What _doEnd does to them up to the write of its chunk.                   *)
LEMMA DoEndType ==
    ASSUME TypeOK, NEW chunk \in BOOLEAN, NEW id \in 0..MaxEnds,
           chunk => nw < MaxWrites, DoEnd(chunk, id)
    PROVE  /\ nw' \in 0..MaxWrites
           /\ nw' = IF chunk THEN nw + 1 ELSE nw
           /\ endCb' \in 0..MaxEnds
           /\ owed' \in BOOLEAN /\ needDrain' \in BOOLEAN /\ writing' \in BOOLEAN
           /\ corkedBuf' \in Seq(Writes) /\ writeBuf' \in Seq(Writes)
           /\ pendCons' \in Seq(Writes)
           /\ pc' \in {"user", "endRest", "doWrite"}
           /\ cont' \in {"user", "pendingEnd", "endRest"}
           /\ arg' \in 0..MaxWrites
           /\ pc' = "doWrite" => arg' \in Writes
<1>1. CASE chunk
    <2>1. Accept("endRest") /\ nw < MaxWrites /\ endCb' = id
        BY <1>1 DEF DoEnd
    <2>. QED
        BY <1>1, <2>1, AcceptType
<1>2. CASE ~chunk
    BY <1>2 DEF DoEnd, TypeOK, FlagTypes, QueueTypes, CallTypes, bufVars
<1>. QED
    BY <1>1, <1>2

(* What the callback of _construct does to them.                            *)
LEMMA ConstructedType ==
    ASSUME TypeOK, NEW o, NEW queue \in Seq(TickSet), NEW running,
           running \subseteq {"construct", "final", "destroy"},
           Constructed(o, queue, running)
    PROVE  /\ constructed' \in BOOLEAN /\ destroyed' \in BOOLEAN
           /\ writing' \in BOOLEAN
           /\ writeBuf' \in Seq(Writes) /\ pendCons' \in Seq(Writes)
           /\ pc' \in {"user", "doWrite", "drain", "pendingEnd", "endRest"}
           /\ cont' \in {"user", "pendingEnd", "endRest"}
           /\ arg' \in 0..MaxWrites
           /\ pc' = "doWrite" => arg' \in Writes
           /\ ticks' \in Seq(TickSet)
           /\ pending' \subseteq {"construct", "final", "destroy"}
<1>. USE DEF TypeOK
<1>1. queue \o CloseTicks \in Seq(TickSet) /\ queue \o ErrorTicks \in Seq(TickSet)
    BY CloseTicksType
<1>2. Writes \subseteq 0..MaxWrites
    BY BoundAssumption DEF Writes
<1>3. CASE ~Ok(o)
    <2>1. /\ constructed' = TRUE /\ (destroyed' = TRUE \/ destroyed' = destroyed)
          /\ UNCHANGED <<pc, arg, cont, pendCons, writeBuf, writing>>
          /\ ticks' \in {queue, queue \o CloseTicks, queue \o ErrorTicks}
          /\ pending' \in {running, running \cup {"destroy"}}
        BY <1>3 DEF Constructed, DestroyBody
    <2>. QED
        BY <1>1, <2>1 DEF FlagTypes, QueueTypes, CallTypes
<1>4. CASE Ok(o) /\ pendCons = <<>>
    BY <1>4 DEF Constructed, FlagTypes, QueueTypes, CallTypes
<1>5. CASE Ok(o) /\ pendCons # <<>>
    <2>1. /\ Head(pendCons) \in Writes
          /\ writeBuf \o Tail(pendCons) \in Seq(Writes)
          /\ <<>> \in Seq(Writes)
        BY <1>5 DEF QueueTypes
    <2>2. /\ constructed' = TRUE /\ writing' = TRUE /\ destroyed' = destroyed
          /\ pc' = "doWrite" /\ arg' = Head(pendCons) /\ cont' = "pendingEnd"
          /\ writeBuf' = writeBuf \o Tail(pendCons) /\ pendCons' = <<>>
          /\ ticks' = queue /\ pending' = running
        BY <1>5 DEF Constructed, Rest
    <2>. QED
        BY <1>2, <2>1, <2>2 DEF FlagTypes
<1>. QED
    BY <1>3, <1>4, <1>5

LEMMA TypeInit == Init => TypeOK
<1>. SUFFICES ASSUME Init PROVE TypeOK
    OBVIOUS
<1>. USE BoundAssumption, OutcomeAssumption
<1>1. FlagTypes
    BY DEF Init, FlagTypes
<1>2. QueueTypes
    BY DEF Init, QueueTypes
<1>3. EndTypes
    BY DEF Init, EndTypes, NoEnd
<1>4. CallTypes
    <2>1. Tick("construct", 0) \in TickSet
        BY TickFacts DEF TickKinds, Completions
    <2>2. ticks \in Seq(TickSet)
        BY <2>1 DEF Init
    <2>. QED
        BY <2>2 DEF Init, CallTypes
<1>5. SinkTypes
    BY DEF Init, SinkTypes
<1>. QED
    BY <1>1, <1>2, <1>3, <1>4, <1>5 DEF TypeOK

LEMMA TypeStep == TypeOK /\ [Next]_vars => TypeOK'
<1>. SUFFICES ASSUME TypeOK, [Next]_vars PROVE TypeOK'
    OBVIOUS
<1>. USE BoundAssumption, OutcomeAssumption DEF TypeOK
<1>1. CASE Write
    <2>1. nw < MaxWrites /\ (pendEnd.chunk => nw + 1 < MaxWrites)
        BY <1>1 DEF Write, Room, EndTypes, QueueTypes
    <2>2. Accept("user")
        BY <1>1 DEF Write
    <2>11. FlagTypes'
        BY <1>1, <2>1, <2>2, AcceptType
           DEF Write, FlagTypes, endVars, sinkVars
    <2>12. QueueTypes'
        BY <1>1, <2>1, <2>2, AcceptType
           DEF Write, QueueTypes, endVars, sinkVars
    <2>13. EndTypes'
        BY <1>1, <2>1, <2>2, AcceptType
           DEF Write, EndTypes, endVars, sinkVars
    <2>14. CallTypes'
        BY <1>1, <2>1, <2>2, AcceptType
           DEF Write, CallTypes, endVars, sinkVars
    <2>15. SinkTypes'
        BY <1>1 DEF Write, SinkTypes, endVars, sinkVars
    <2>. QED
        BY <2>11, <2>12, <2>13, <2>14, <2>15
<1>2. CASE WriteAfterEnd
    <2>11. FlagTypes'
        BY <1>2
           DEF WriteAfterEnd, FlagTypes, bufVars, endVars, callVars, sinkVars, histVars
    <2>12. QueueTypes'
        BY <1>2
           DEF WriteAfterEnd, QueueTypes, bufVars, endVars, callVars, sinkVars, histVars
    <2>13. EndTypes'
        BY <1>2
           DEF WriteAfterEnd, EndTypes, bufVars, endVars, callVars, sinkVars, histVars
    <2>14. CallTypes'
        BY <1>2, DeferType
           DEF WriteAfterEnd, CallTypes, bufVars, endVars, callVars, sinkVars, histVars, TickKinds, Completions
    <2>15. SinkTypes'
        BY <1>2
           DEF WriteAfterEnd, SinkTypes, bufVars, endVars, callVars, sinkVars, histVars
    <2>. QED
        BY <2>11, <2>12, <2>13, <2>14, <2>15
<1>3. CASE End
    <2>1. PICK chunk \in BOOLEAN :
              /\ chunk => IF constructed THEN Room ELSE nw < MaxWrites
              /\ \/ /\ ended
                    /\ ticks' = Defer(Tick("endcb", ends + 1))
                    /\ UNCHANGED <<nw, length, owed, bufVars, needDrain,
                                   writing, pc, arg, cont, pendEnd, endCb>>
                 \/ /\ ~ended /\ ~constructed
                    /\ pendEnd' = [chunk |-> chunk, id |-> ends + 1]
                    /\ UNCHANGED <<nw, length, owed, bufVars, needDrain,
                                   writing, pc, arg, cont, ticks, endCb>>
                 \/ /\ ~ended /\ constructed
                    /\ DoEnd(chunk, ends + 1)
                    /\ UNCHANGED <<ticks, pendEnd>>
        BY <1>3 DEF End
    <2>2. /\ ends + 1 \in 0..MaxEnds /\ ends' = ends + 1
          /\ UNCHANGED <<corked, constructed, destroyed, ended, ending, finished,
                         cur, sinkVars, issued, called, endCalled, events>>
        BY <1>3 DEF End, EndTypes
    <2>3. CASE ended /\ ticks' = Defer(Tick("endcb", ends + 1))
               /\ UNCHANGED <<nw, length, owed, bufVars, needDrain,
                              writing, pc, arg, cont, pendEnd, endCb>>
        BY <2>2, <2>3, DeferType, SMTT(30)
           DEF FlagTypes, QueueTypes, EndTypes, CallTypes, SinkTypes, bufVars,
               sinkVars
    <2>4. CASE /\ ~ended /\ ~constructed
               /\ pendEnd' = [chunk |-> chunk, id |-> ends + 1]
               /\ UNCHANGED <<nw, length, owed, bufVars, needDrain,
                              writing, pc, arg, cont, ticks, endCb>>
        BY <2>1, <2>2, <2>4
           DEF FlagTypes, QueueTypes, EndTypes, CallTypes, SinkTypes, bufVars,
               sinkVars
    <2>5. CASE /\ ~ended /\ constructed
               /\ DoEnd(chunk, ends + 1)
               /\ UNCHANGED <<ticks, pendEnd>>
        <3>1. chunk => nw < MaxWrites /\ (pendEnd.chunk => nw + 1 < MaxWrites)
            BY <2>1, <2>5 DEF Room, EndTypes, QueueTypes
        <3>2. FlagTypes' /\ QueueTypes' /\ CallTypes' /\ SinkTypes'
            BY <2>2, <2>5, <3>1, DoEndType
               DEF FlagTypes, QueueTypes, CallTypes, SinkTypes, sinkVars
        <3>3. EndTypes'
            BY <2>2, <2>5, <3>1, DoEndType DEF EndTypes, QueueTypes
        <3>. QED
            BY <3>2, <3>3
    <2>. QED
        BY <2>1, <2>3, <2>4, <2>5
<1>4. CASE CorkCall
    <2>11. FlagTypes'
        BY <1>4
           DEF CorkCall, FlagTypes, bufVars, endVars, callVars, sinkVars, histVars
    <2>12. QueueTypes'
        BY <1>4
           DEF CorkCall, QueueTypes, bufVars, endVars, callVars, sinkVars, histVars
    <2>13. EndTypes'
        BY <1>4
           DEF CorkCall, EndTypes, bufVars, endVars, callVars, sinkVars, histVars
    <2>14. CallTypes'
        BY <1>4
           DEF CorkCall, CallTypes, bufVars, endVars, callVars, sinkVars, histVars
    <2>15. SinkTypes'
        BY <1>4
           DEF CorkCall, SinkTypes, bufVars, endVars, callVars, sinkVars, histVars
    <2>. QED
        BY <2>11, <2>12, <2>13, <2>14, <2>15
<1>5. CASE Uncork
    <2>. USE DEF Uncork
    <2>1. /\ corked' \in Nat /\ corkedBuf' \in Seq(Writes)
          /\ SeqToSet(corkedBuf) \subseteq Writes
        BY <1>5 DEF QueueTypes, SeqToSet
    <2>2. FlagTypes'
        BY <1>5 DEF FlagTypes, endVars
    <2>3. QueueTypes'
        <3>1. corkedBuf # <<>> => writeBuf \o Tail(corkedBuf) \in Seq(Writes)
            BY DEF QueueTypes
        <3>2. issued \o corkedBuf \in Seq(Writes)
            BY DEF QueueTypes
        <3>. QED
            BY <1>5, <2>1, <3>1, <3>2 DEF QueueTypes, Rest
    <2>4. EndTypes'
        BY <1>5 DEF EndTypes, endVars
    <2>5. CallTypes'
        <3>1. corkedBuf # <<>> => Head(corkedBuf) \in Writes
            BY DEF QueueTypes
        <3>2. Writes \subseteq 0..MaxWrites
            BY DEF Writes
        <3>3. cur' \in Seq(Parts)
            BY <1>5, PartsType DEF CallTypes, BatchDone, Parts
        <3>. QED
            BY <1>5, <3>1, <3>2, <3>3 DEF CallTypes
    <2>6. SinkTypes'
        <3>1. batches' \subseteq SUBSET Writes
            BY <1>5, <2>1, SMTT(30) DEF SinkTypes
        <3>2. called' \subseteq Writes
            BY <1>5, <2>1 DEF SinkTypes, BatchDone
        <3>3. events' \subseteq {"drain", "finish", "close", "error"}
            BY <1>5 DEF SinkTypes, BatchDone
        <3>. QED
            BY <1>5, <3>1, <3>2, <3>3 DEF SinkTypes
    <2>. QED
        BY <2>2, <2>3, <2>4, <2>5, <2>6
<1>6. CASE DestroyCall
    <2>11. FlagTypes'
        BY <1>6
           DEF DestroyCall, DestroyBody, FlagTypes, bufVars, endVars, sinkVars,
               histVars
    <2>12. QueueTypes'
        BY <1>6
           DEF DestroyCall, DestroyBody, QueueTypes, bufVars, endVars, sinkVars,
               histVars
    <2>13. EndTypes'
        BY <1>6
           DEF DestroyCall, DestroyBody, EndTypes, bufVars, endVars, sinkVars,
               histVars
    <2>14. CallTypes'
        BY <1>6, CloseTicksType
           DEF DestroyCall, DestroyBody, CallTypes, bufVars, endVars, sinkVars,
               histVars
    <2>15. SinkTypes'
        BY <1>6
           DEF DestroyCall, DestroyBody, SinkTypes, bufVars, endVars, sinkVars,
               histVars
    <2>. QED
        BY <2>11, <2>12, <2>13, <2>14, <2>15
<1>7. CASE WriteCallback
    <2>11. FlagTypes'
        BY <1>7
           DEF WriteCallback, FlagTypes, bufVars, endVars, callVars, sinkVars, histVars
    <2>12. QueueTypes'
        BY <1>7
           DEF WriteCallback, QueueTypes, bufVars, endVars, callVars, sinkVars, histVars
    <2>13. EndTypes'
        BY <1>7
           DEF WriteCallback, EndTypes, bufVars, endVars, callVars, sinkVars, histVars
    <2>14. CallTypes'
        BY <1>7, DeferType
           DEF WriteCallback, CallTypes, bufVars, endVars, callVars, sinkVars, histVars, SinkTypes
    <2>15. SinkTypes'
        BY <1>7
           DEF WriteCallback, SinkTypes, bufVars, endVars, callVars, sinkVars, histVars
    <2>. QED
        BY <2>11, <2>12, <2>13, <2>14, <2>15
<1>8. CASE BatchCallback
    <2>11. FlagTypes'
        BY <1>8
           DEF BatchCallback, FlagTypes, bufVars, endVars, callVars, sinkVars, histVars
    <2>12. QueueTypes'
        BY <1>8
           DEF BatchCallback, QueueTypes, bufVars, endVars, callVars, sinkVars, histVars
    <2>13. EndTypes'
        BY <1>8
           DEF BatchCallback, EndTypes, bufVars, endVars, callVars, sinkVars, histVars
    <2>14. CallTypes'
        <3>1. cur' \in Seq(Parts)
            BY <1>8, PartsType DEF BatchCallback, CallTypes, BatchDone, Parts
        <3>. QED
            BY <1>8, <3>1 DEF BatchCallback, CallTypes
    <2>15. SinkTypes'
        BY <1>8
           DEF BatchCallback, SinkTypes, bufVars, endVars, callVars, sinkVars, histVars, BatchDone
    <2>. QED
        BY <2>11, <2>12, <2>13, <2>14, <2>15
<1>9. CASE FinalCallback
    <2>11. FlagTypes'
        BY <1>9
           DEF FinalCallback, FlagTypes, bufVars, endVars, callVars, sinkVars, histVars
    <2>12. QueueTypes'
        BY <1>9
           DEF FinalCallback, QueueTypes, bufVars, endVars, callVars, sinkVars, histVars
    <2>13. EndTypes'
        BY <1>9
           DEF FinalCallback, EndTypes, bufVars, endVars, callVars, sinkVars, histVars
    <2>14. CallTypes'
        BY <1>9, FinishTickType
           DEF FinalCallback, CallTypes, bufVars, endVars, callVars, sinkVars, histVars
    <2>15. SinkTypes'
        BY <1>9
           DEF FinalCallback, SinkTypes, bufVars, endVars, callVars, sinkVars, histVars
    <2>. QED
        BY <2>11, <2>12, <2>13, <2>14, <2>15
<1>10. CASE DestroyCallback
    <2>11. FlagTypes'
        BY <1>10
           DEF DestroyCallback, FlagTypes, bufVars, endVars, callVars, sinkVars, histVars
    <2>12. QueueTypes'
        BY <1>10
           DEF DestroyCallback, QueueTypes, bufVars, endVars, callVars, sinkVars, histVars
    <2>13. EndTypes'
        BY <1>10
           DEF DestroyCallback, EndTypes, bufVars, endVars, callVars, sinkVars, histVars
    <2>14. CallTypes'
        BY <1>10, CloseTicksType
           DEF DestroyCallback, CallTypes, bufVars, endVars, callVars, sinkVars, histVars
    <2>15. SinkTypes'
        BY <1>10
           DEF DestroyCallback, SinkTypes, bufVars, endVars, callVars, sinkVars, histVars
    <2>. QED
        BY <2>11, <2>12, <2>13, <2>14, <2>15
<1>11. CASE ConstructCallback
    <2>1. PICK o \in ConstructOutcomes :
              Constructed(o, ticks, pending \ {"construct"})
        BY <1>11 DEF ConstructCallback
    <2>2. ticks \in Seq(TickSet)
        BY DEF CallTypes
    <2>3. pending \ {"construct"} \subseteq {"construct", "final", "destroy"}
        BY DEF SinkTypes
    <2>4. UNCHANGED <<nw, length, corked, needDrain, corkedBuf, endVars, cur,
                      inflight, batches, histVars>>
        BY <1>11 DEF ConstructCallback
    <2>. QED
        BY <2>1, <2>2, <2>3, <2>4, ConstructedType
           DEF FlagTypes, QueueTypes, EndTypes, CallTypes, SinkTypes, endVars,
               histVars
<1>12. CASE DoWrite
    <2>11. FlagTypes'
        BY <1>12
           DEF DoWrite, FlagTypes, bufVars, endVars, callVars, sinkVars, histVars
    <2>12. QueueTypes'
        BY <1>12
           DEF DoWrite, QueueTypes, bufVars, endVars, callVars, sinkVars, histVars, CallTypes
    <2>13. EndTypes'
        BY <1>12
           DEF DoWrite, EndTypes, bufVars, endVars, callVars, sinkVars, histVars
    <2>14. CallTypes'
        BY <1>12, DeferType
           DEF DoWrite, CallTypes, bufVars, endVars, callVars, sinkVars, histVars
    <2>15. SinkTypes'
        BY <1>12
           DEF DoWrite, SinkTypes, bufVars, endVars, callVars, sinkVars, histVars, CallTypes
    <2>. QED
        BY <2>11, <2>12, <2>13, <2>14, <2>15
<1>13. CASE DrainWriteBuffer
    <2>. USE DEF DrainWriteBuffer
    <2>1. writeBuf # <<>> => Head(writeBuf) \in Writes
                             /\ Tail(writeBuf) \in Seq(Writes)
        BY DEF QueueTypes
    <2>2. FlagTypes'
        <3>1. CASE writeBuf # <<>>
            BY <1>13, <3>1 DEF FlagTypes, histVars
        <3>2. CASE writeBuf = <<>>
            <4>1. writing' = FALSE /\ MaybeFinish(ending, FALSE)
                BY <1>13, <3>2
            <4>2. ending' \in BOOLEAN /\ finished' \in BOOLEAN
                BY <4>1 DEF MaybeFinish, FlagTypes
            <4>. QED
                BY <1>13, <4>1, <4>2 DEF FlagTypes, histVars
        <3>. QED
            BY <3>1, <3>2
    <2>3. QueueTypes'
        BY <1>13, <2>1 DEF QueueTypes, histVars
    <2>4. EndTypes'
        BY <1>13 DEF EndTypes
    <2>5. CallTypes'
        <3>1. Writes \subseteq 0..MaxWrites
            BY DEF Writes
        <3>2. ticks' \in Seq(TickSet)
            BY <1>13, FinishTickType DEF MaybeFinish, CallTypes
        <3>. QED
            BY <1>13, <2>1, <3>1, <3>2 DEF CallTypes
    <2>6. SinkTypes'
        BY <1>13 DEF SinkTypes, MaybeFinish, histVars
    <2>. QED
        BY <2>2, <2>3, <2>4, <2>5, <2>6
<1>14. CASE EndRest
    <2>11. FlagTypes'
        BY <1>14
           DEF EndRest, FlagTypes, bufVars, endVars, callVars, sinkVars, histVars, MaybeFinish
    <2>12. QueueTypes'
        BY <1>14
           DEF EndRest, QueueTypes, bufVars, endVars, callVars, sinkVars, histVars
    <2>13. EndTypes'
        BY <1>14
           DEF EndRest, EndTypes, bufVars, endVars, callVars, sinkVars, histVars
    <2>14. CallTypes'
        BY <1>14, FinishTickType
           DEF EndRest, CallTypes, bufVars, endVars, callVars, sinkVars, histVars, MaybeFinish
    <2>15. SinkTypes'
        BY <1>14
           DEF EndRest, SinkTypes, bufVars, endVars, callVars, sinkVars, histVars, MaybeFinish
    <2>. QED
        BY <2>11, <2>12, <2>13, <2>14, <2>15
<1>15. CASE PendingEnd
    <2>. USE DEF PendingEnd
    <2>1. pendEnd' \in [chunk : BOOLEAN, id : 0..MaxEnds] /\ ~pendEnd'.chunk
        BY <1>15 DEF NoEnd
    <2>2. CASE pendEnd = NoEnd
        BY <1>15, <2>1, <2>2
           DEF FlagTypes, QueueTypes, EndTypes, CallTypes, SinkTypes, bufVars,
               sinkVars
    <2>3. CASE pendEnd # NoEnd
        <3>1. DoEnd(pendEnd.chunk, pendEnd.id)
            BY <1>15, <2>3
        <3>2. /\ pendEnd.chunk \in BOOLEAN /\ pendEnd.id \in 0..MaxEnds
              /\ pendEnd.chunk => nw < MaxWrites
            BY DEF EndTypes
        <3>3. UNCHANGED <<corked, constructed, destroyed, ended, ending,
                          finished, ends, cur, ticks, sinkVars, issued, called,
                          endCalled, events>>
            BY <1>15
        <3>. QED
            BY <2>1, <3>1, <3>2, <3>3, DoEndType
               DEF FlagTypes, QueueTypes, EndTypes, CallTypes, SinkTypes, sinkVars
    <2>. QED
        BY <2>2, <2>3
<1>16. CASE RunTick
    <2>1. /\ Head(ticks) \in TickSet /\ Tail(ticks) \in Seq(TickSet)
          /\ UNCHANGED <<nw, length, corked, needDrain, corkedBuf, endVars,
                         inflight, batches, issued, owed>>
        BY <1>16 DEF RunTick, CallTypes
    <2>2. CASE Head(ticks).kind = "construct"
        <3>1. CASE \E o \in ConstructOutcomes :
                       Constructed(o, Tail(ticks), pending)
            <4>1. PICK o \in ConstructOutcomes :
                      Constructed(o, Tail(ticks), pending)
                BY <3>1
            <4>2. UNCHANGED <<cur, called, endCalled, events>>
                BY <1>16, <2>2 DEF RunTick
            <4>3. pending \subseteq {"construct", "final", "destroy"}
                BY DEF SinkTypes
            <4>. QED
                BY <2>1, <4>1, <4>2, <4>3, ConstructedType
                   DEF FlagTypes, QueueTypes, EndTypes, CallTypes, SinkTypes,
                       endVars
        <3>2. CASE /\ pending' = pending \cup {"construct"}
                   /\ ticks' = Tail(ticks)
                   /\ UNCHANGED <<constructed, destroyed, pc, arg, cont,
                                  pendCons, writeBuf, writing>>
            <4>1. UNCHANGED <<cur, called, endCalled, events>>
                BY <1>16, <2>2 DEF RunTick
            <4>. QED
                BY <2>1, <3>2, <4>1
                   DEF FlagTypes, QueueTypes, EndTypes, CallTypes, SinkTypes,
                       endVars
        <3>. QED
            BY <1>16, <2>2, <3>1, <3>2 DEF RunTick
    <2>3. CASE Head(ticks).kind # "construct"
        <3>1. /\ ticks' = Tail(ticks)
              /\ cur' = RestOfTick(Head(ticks))
              /\ called' = IF Head(ticks).kind \in Completions
                           THEN called \cup {Head(ticks).w} ELSE called
              /\ endCalled' = IF Head(ticks).kind = "endcb"
                              THEN endCalled \cup {Head(ticks).w} ELSE endCalled
              /\ events' = events \cup EventsOf(Head(ticks))
              /\ UNCHANGED <<constructed, destroyed, pc, arg, cont, pendCons,
                             writeBuf, writing, pending>>
            BY <1>16, <2>3 DEF RunTick
        <3>2. RestOfTick(Head(ticks)) \in Seq(Parts)
            BY <2>1, PartsType DEF CallTypes
        <3>3. EventsOf(Head(ticks)) \subseteq {"drain", "finish", "close", "error"}
            BY DEF EventsOf
        <3>4. called' \subseteq Writes /\ endCalled' \subseteq 0..MaxEnds
            <4>1. /\ Head(ticks).kind \in Completions => Head(ticks).w \in Writes
                  /\ Head(ticks).kind = "endcb" => Head(ticks).w \in 0..MaxEnds
                BY <2>1, TickFacts
            <4>2. called \subseteq Writes /\ endCalled \subseteq 0..MaxEnds
                BY DEF SinkTypes
            <4>3. called' \subseteq Writes
                BY <3>1, <4>1, <4>2, Zenon
            <4>4. endCalled' \subseteq 0..MaxEnds
                BY <3>1, <4>1, <4>2, Zenon
            <4>. QED
                BY <4>3, <4>4
        <3>5. FlagTypes' /\ QueueTypes' /\ EndTypes'
            BY <2>1, <3>1 DEF FlagTypes, QueueTypes, EndTypes, endVars
        <3>6. CallTypes'
            BY <2>1, <3>1, <3>2 DEF CallTypes
        <3>7. events' \subseteq {"drain", "finish", "close", "error"}
            BY <3>1, <3>3 DEF SinkTypes
        <3>8. SinkTypes'
            BY <2>1, <3>1, <3>4, <3>7 DEF SinkTypes
        <3>. QED
            BY <3>5, <3>6, <3>8
    <2>. QED
        BY <2>2, <2>3
<1>17. CASE DrainCheck
    <2>11. FlagTypes'
        BY <1>17
           DEF DrainCheck, FlagTypes, bufVars, endVars, callVars, sinkVars, histVars
    <2>12. QueueTypes'
        BY <1>17
           DEF DrainCheck, QueueTypes, bufVars, endVars, callVars, sinkVars, histVars
    <2>13. EndTypes'
        BY <1>17
           DEF DrainCheck, EndTypes, bufVars, endVars, callVars, sinkVars, histVars
    <2>14. CallTypes'
        <3>1. cur # <<>> /\ <<"flush">> \in Seq(Parts)
            BY <1>17, PartsType DEF DrainCheck, CallTypes, Parts
        <3>2. Tail(cur) \in Seq(Parts)
            BY <3>1 DEF CallTypes
        <3>3. /\ <<"flush">> \o Tail(cur) \in Seq(Parts)
              /\ <<>> \o Tail(cur) \in Seq(Parts)
            BY <3>1, <3>2
        <3>. QED
            BY <1>17, <3>2, <3>3 DEF DrainCheck, CallTypes
    <2>15. SinkTypes'
        BY <1>17
           DEF DrainCheck, SinkTypes, bufVars, endVars, callVars, sinkVars, histVars
    <2>. QED
        BY <2>11, <2>12, <2>13, <2>14, <2>15
<1>18. CASE FlushPart
    <2>11. FlagTypes'
        BY <1>18
           DEF FlushPart, FlagTypes, bufVars, endVars, callVars, sinkVars, histVars
    <2>12. QueueTypes'
        BY <1>18
           DEF FlushPart, QueueTypes, bufVars, endVars, callVars, sinkVars, histVars
    <2>13. EndTypes'
        BY <1>18
           DEF FlushPart, EndTypes, bufVars, endVars, callVars, sinkVars, histVars
    <2>14. CallTypes'
        BY <1>18
           DEF FlushPart, CallTypes, bufVars, endVars, callVars, sinkVars, histVars
    <2>15. SinkTypes'
        BY <1>18
           DEF FlushPart, SinkTypes, bufVars, endVars, callVars, sinkVars, histVars
    <2>. QED
        BY <2>11, <2>12, <2>13, <2>14, <2>15
<1>19. CASE ClosePart
    <2>11. FlagTypes'
        BY <1>19
           DEF ClosePart, FlagTypes, bufVars, endVars, callVars, sinkVars, histVars
    <2>12. QueueTypes'
        BY <1>19
           DEF ClosePart, QueueTypes, bufVars, endVars, callVars, sinkVars, histVars
    <2>13. EndTypes'
        BY <1>19
           DEF ClosePart, EndTypes, bufVars, endVars, callVars, sinkVars, histVars
    <2>14. CallTypes'
        BY <1>19, DeferType
           DEF ClosePart, CallTypes, bufVars, endVars, callVars, sinkVars, histVars, TickKinds, Completions
    <2>15. SinkTypes'
        BY <1>19
           DEF ClosePart, SinkTypes, bufVars, endVars, callVars, sinkVars, histVars, EndTypes
    <2>. QED
        BY <2>11, <2>12, <2>13, <2>14, <2>15
<1>20. CASE UNCHANGED vars
    <2>11. FlagTypes'
        BY <1>20
           DEF vars, FlagTypes, bufVars, endVars, callVars, sinkVars, histVars
    <2>12. QueueTypes'
        BY <1>20
           DEF vars, QueueTypes, bufVars, endVars, callVars, sinkVars, histVars
    <2>13. EndTypes'
        BY <1>20
           DEF vars, EndTypes, bufVars, endVars, callVars, sinkVars, histVars
    <2>14. CallTypes'
        BY <1>20
           DEF vars, CallTypes, bufVars, endVars, callVars, sinkVars, histVars
    <2>15. SinkTypes'
        BY <1>20
           DEF vars, SinkTypes, bufVars, endVars, callVars, sinkVars, histVars
    <2>. QED
        BY <2>11, <2>12, <2>13, <2>14, <2>15
<1>. QED
    BY <1>1, <1>2, <1>3, <1>4, <1>5, <1>6, <1>7, <1>8, <1>9, <1>10, <1>11,
       <1>12, <1>13, <1>14, <1>15, <1>16, <1>17, <1>18, <1>19, <1>20
       DEF Next, UserStep, SinkStep, CallStep, TickStep

(* Every reachable state of Writable is well typed, for all constants.      *)
THEOREM TypeCorrect == Spec => []TypeOK
<1>. QED
    BY TypeInit, TypeStep, PTL DEF Spec

-----------------------------------------------------------------------------
(* Conservation.  A write moves from queue to queue, or to the sink, and    *)
(* each of these sets loses what another gains: C are the writes of         *)
(* _corkedBuffer, W of _writeBuffer, P of _pendingConstruct, H is the one   *)
(* that _doWrite was called with, G those given to the sink, of which it    *)
(* has those of I and of the batches B.                                     *)
Handed == IF pc = "doWrite" THEN {arg} ELSE {}
Apart(C, W, P, H, G, n) ==
    /\ C \cap W = {} /\ (C \cup W) \cap P = {} /\ (C \cup W \cup P) \cap H = {}
    /\ (C \cup W \cup P \cup H) \cap G = {}
    /\ C \cup W \cup P \cup H \cup G = 1..n
AtSink(G, I, B) ==
    /\ I \cup UNION B \subseteq G /\ I \cap UNION B = {}
    /\ \A a, b \in B : a # b => a \cap b = {}
Sound(C, W, P, H, G, I, B, n, len) ==
    /\ Apart(C, W, P, H, G, n) /\ AtSink(G, I, B)
    /\ len = SumOf(Size, C \cup W \cup P \cup H \cup I \cup UNION B)
PlacesInv ==
    /\ Distinct(corkedBuf) /\ Distinct(writeBuf) /\ Distinct(pendCons)
    /\ Distinct(issued)
    /\ Sound(ToSet(corkedBuf), ToSet(writeBuf), ToSet(pendCons), Handed,
             ToSet(issued), inflight, batches, nw, length)

LEMMA PlacesPrime ==
    ASSUME Distinct(corkedBuf'), Distinct(writeBuf'), Distinct(pendCons'),
           Distinct(issued'),
           Sound(ToSet(corkedBuf'), ToSet(writeBuf'), ToSet(pendCons'), Handed',
                 ToSet(issued'), inflight', batches', nw', length')
    PROVE  PlacesInv'
<1>1. /\ Distinct(corkedBuf)' = Distinct(corkedBuf')
      /\ Distinct(writeBuf)' = Distinct(writeBuf')
      /\ Distinct(pendCons)' = Distinct(pendCons')
      /\ Distinct(issued)' = Distinct(issued')
    OBVIOUS
<1>2. /\ ToSet(corkedBuf)' = ToSet(corkedBuf') /\ ToSet(writeBuf)' = ToSet(writeBuf')
      /\ ToSet(pendCons)' = ToSet(pendCons') /\ ToSet(issued)' = ToSet(issued')
    OBVIOUS
<1>. QED
    BY <1>1, <1>2 DEF PlacesInv

LEMMA PlacesTypes ==
    ASSUME TypeOK
    PROVE  /\ corkedBuf \in Seq(Writes) /\ writeBuf \in Seq(Writes)
           /\ pendCons \in Seq(Writes) /\ issued \in Seq(Writes)
           /\ inflight \in SUBSET Writes /\ batches \in SUBSET SUBSET Writes
           /\ ToSet(corkedBuf) \in SUBSET Writes /\ ToSet(writeBuf) \in SUBSET Writes
           /\ ToSet(pendCons) \in SUBSET Writes /\ ToSet(issued) \in SUBSET Writes
           /\ Handed \in SUBSET Writes
<1>1. \A s \in Seq(Writes) : ToSet(s) \in SUBSET Writes
    BY DEF ToSet
<1>2. Handed \in SUBSET Writes
    BY DEF TypeOK, CallTypes, Handed
<1>. QED
    BY <1>1, <1>2 DEF TypeOK, QueueTypes, SinkTypes

LEMMA SizeFacts ==
    /\ IsFiniteSet(Writes) /\ \A w \in Writes : Size[w] \in Int
    /\ \A S : Total(S) = SumOf(Size, S)
<1>1. IsFiniteSet(Writes)
    BY BoundAssumption, FS_Interval DEF Writes
<1>2. \A w \in Writes : Size[w] \in Int
    BY SizeAssumption
<1>3. \A S : Total(S) = SumOf(Size, S)
    BY DEF Total, SumOf
<1>. QED
    BY <1>1, <1>2, <1>3

(* The sink is done with the writes of S: writableLength without them.      *)
LEMMA Released ==
    ASSUME NEW T \in SUBSET Writes, NEW S \in SUBSET T
    PROVE  SumOf(Size, T) - Total(S) = SumOf(Size, T \ S)
<1>. DEFINE R == T \ S
<1>1. R \in SUBSET Writes /\ S \in SUBSET Writes /\ R \cap S = {} /\ R \cup S = T
    OBVIOUS
<1>. HIDE DEF R
<1>2. SumOf(Size, R \cup S) = SumOf(Size, R) + SumOf(Size, S)
    BY <1>1, SizeFacts, SumUnion
<1>3. SumOf(Size, R) \in Int /\ SumOf(Size, S) \in Int
    BY <1>1, SizeFacts, SumType
<1>4. SumOf(Size, T) = SumOf(Size, R) + SumOf(Size, S)
    BY <1>1, <1>2, Zenon
<1>5. Total(S) = SumOf(Size, S)
    BY SizeFacts, Zenon
<1>6. SumOf(Size, T) - Total(S) = SumOf(Size, R)
    BY <1>3, <1>4, <1>5
<1>. QED
    BY <1>6 DEF R

LEMMA UnionAdd ==
    ASSUME NEW B, NEW C
    PROVE  UNION (B \cup {C}) = C \cup UNION B
<1>. DEFINE U == UNION B  V == UNION (B \cup {C})
<1>1. /\ \A x : x \in U <=> \E b \in B : x \in b
      /\ \A x : x \in V <=> \E b \in B \cup {C} : x \in b
    OBVIOUS
<1>. HIDE DEF U, V
<1>2. \A x : x \in V <=> x \in U \/ x \in C
    BY <1>1
<1>3. V = C \cup U
    BY <1>2
<1>. QED
    BY <1>3 DEF U, V

(* The sink is given the writes of C, one by one or as a batch.             *)
LEMMA SinkGains ==
    ASSUME NEW G, NEW I, NEW B, NEW C, AtSink(G, I, B), C \cap G = {}
    PROVE  AtSink(G \cup C, I, B \cup {C}) /\ AtSink(G \cup C, I \cup C, B)
<1>. DEFINE U == UNION B
<1>1. /\ \A b \in B : b \subseteq U
      /\ \A a, b \in B : a # b => a \cap b = {}
      /\ I \cup U \subseteq G /\ I \cap U = {} /\ C \cap U = {}
    BY DEF AtSink
<1>2. UNION (B \cup {C}) = U \cup C
    BY UnionAdd
<1>. HIDE DEF U
<1>3. \A a, b \in B \cup {C} : a # b => a \cap b = {}
    <2>1. ASSUME NEW b \in B PROVE b \cap C = {}
        BY <1>1
    <2>. SUFFICES ASSUME NEW a \in B \cup {C}, NEW b \in B \cup {C}, a # b
                  PROVE  a \cap b = {}
        OBVIOUS
    <2>2. CASE a \in B /\ b \in B
        BY <1>1, <2>2
    <2>3. CASE a \in B /\ b = C
        BY <2>1, <2>3
    <2>4. CASE a = C /\ b \in B
        BY <2>1, <2>4
    <2>. QED
        BY <2>2, <2>3, <2>4
<1>4. /\ I \cup (U \cup C) \subseteq G \cup C /\ I \cap (U \cup C) = {}
      /\ (I \cup C) \cup U \subseteq G \cup C /\ (I \cup C) \cap U = {}
    BY <1>1
<1>5. AtSink(G \cup C, I, B \cup {C})
    BY <1>2, <1>3, <1>4 DEF AtSink
<1>6. AtSink(G \cup C, I \cup C, B)
    BY <1>1, <1>4 DEF AtSink, U
<1>. QED
    BY <1>5, <1>6

LEMMA Joined ==
    ASSUME NEW s \in Seq(Writes), NEW t \in Seq(Writes), Distinct(s), Distinct(t),
           ToSet(s) \cap ToSet(t) = {}
    PROVE  ToSet(s \o t) = ToSet(s) \cup ToSet(t) /\ Distinct(s \o t)
<1>1. ToSet(s \o t) = ToSet(s) \cup ToSet(t)
    BY CatSet
<1>2. Distinct(s \o t)
    BY DistinctCat
<1>. QED
    BY <1>1, <1>2

LEMMA PlacesFrame ==
    ASSUME PlacesInv, UNCHANGED <<bufVars, issued, inflight, batches, nw, length>>,
           Handed' = Handed
    PROVE  PlacesInv'
<1>. QED
    BY PlacesPrime DEF PlacesInv, bufVars

LEMMA PlacesAccept ==
    ASSUME TypeOK, PlacesInv, nw < MaxWrites, pc # "doWrite",
           NEW next \in {"user", "endRest"}, Accept(next),
           UNCHANGED <<issued, inflight, batches>>
    PROVE  PlacesInv'
<1>. DEFINE w == nw + 1
            C == ToSet(corkedBuf)  W == ToSet(writeBuf)  P == ToSet(pendCons)
            G == ToSet(issued)     I == inflight         B == batches
            T == C \cup W \cup P \cup I \cup UNION B
<1>1. /\ w \in Writes /\ 1..w = (1..nw) \cup {w} /\ w \notin 1..nw
      /\ nw' = w /\ length' = length + Size[w]
    BY BoundAssumption DEF TypeOK, QueueTypes, Writes, Accept
<1>2. /\ Distinct(corkedBuf) /\ Distinct(writeBuf) /\ Distinct(pendCons)
      /\ Distinct(issued) /\ Handed = {} /\ Sound(C, W, P, {}, G, I, B, nw, length)
    BY DEF PlacesInv, Handed
<1>3. \/ /\ corkedBuf' = Append(corkedBuf, w)
         /\ UNCHANGED <<writeBuf, pendCons>> /\ Handed' = {}
      \/ /\ pendCons' = Append(pendCons, w)
         /\ UNCHANGED <<corkedBuf, writeBuf>> /\ Handed' = {}
      \/ /\ writeBuf' = Append(writeBuf, w)
         /\ UNCHANGED <<corkedBuf, pendCons>> /\ Handed' = {}
      \/ UNCHANGED <<corkedBuf, writeBuf, pendCons>> /\ Handed' = {w}
    BY DEF Accept, Enqueue, Handed
<1>4. T \in SUBSET Writes
    BY PlacesTypes
<1>. HIDE DEF w
<1>5. w \notin C \cup W \cup P \cup G \cup T
    BY <1>1, <1>2 DEF Sound, Apart, AtSink
<1>6. length' = SumOf(Size, T \cup {w})
    <2>. HIDE DEF T
    <2>1. SumOf(Size, T \cup {w}) = SumOf(Size, T) + Size[w]
        BY <1>1, <1>4, <1>5, SizeFacts, SumAdd
    <2>2. length = SumOf(Size, T)
        BY <1>2 DEF Sound, Apart, AtSink, T
    <2>. QED
        BY <1>1, <2>1, <2>2
<1>7. \A s \in Seq(Writes) : /\ ToSet(Append(s, w)) = ToSet(s) \cup {w}
                             /\ Distinct(s) /\ w \notin ToSet(s) => Distinct(Append(s, w))
    BY <1>1, AppendSet, DistinctAppend
<1>8. C \cup W \cup P \cup G = 1..nw
    BY <1>2 DEF Sound, Apart, AtSink
<1>9. /\ corkedBuf \in Seq(Writes) /\ writeBuf \in Seq(Writes)
      /\ pendCons \in Seq(Writes)
    BY PlacesTypes
<1>. HIDE DEF C, W, P, G
<1>10. CASE /\ corkedBuf' = Append(corkedBuf, w)
            /\ UNCHANGED <<writeBuf, pendCons>> /\ Handed' = {}
    <2>1. ToSet(corkedBuf') = C \cup {w} /\ Distinct(corkedBuf')
        BY <1>2, <1>5, <1>7, <1>9, <1>10 DEF C
    <2>2. C \cup {w} \cup W \cup P \cup {} \cup I \cup UNION B = T \cup {w}
        OBVIOUS
    <2>3. Sound(C \cup {w}, W, P, {}, G, I, B, nw', length')
        <3>1. Apart(C \cup {w}, W, P, {}, G, nw')
            BY <1>1, <1>2, <1>5, <1>8 DEF Sound, Apart
        <3>2. AtSink(G, I, B)
            BY <1>2 DEF Sound, AtSink
        <3>. QED
            BY <1>6, <2>2, <3>1, <3>2 DEF Sound
    <2>. QED
        BY <1>2, <1>10, <2>1, <2>3, PlacesPrime DEF W, P, G
<1>11. CASE /\ pendCons' = Append(pendCons, w)
            /\ UNCHANGED <<corkedBuf, writeBuf>> /\ Handed' = {}
    <2>1. ToSet(pendCons') = P \cup {w} /\ Distinct(pendCons')
        BY <1>2, <1>5, <1>7, <1>9, <1>11 DEF P
    <2>2. C \cup W \cup (P \cup {w}) \cup {} \cup I \cup UNION B = T \cup {w}
        OBVIOUS
    <2>3. Sound(C, W, P \cup {w}, {}, G, I, B, nw', length')
        <3>1. Apart(C, W, P \cup {w}, {}, G, nw')
            BY <1>1, <1>2, <1>5, <1>8 DEF Sound, Apart
        <3>2. AtSink(G, I, B)
            BY <1>2 DEF Sound, AtSink
        <3>. QED
            BY <1>6, <2>2, <3>1, <3>2 DEF Sound
    <2>. QED
        BY <1>2, <1>11, <2>1, <2>3, PlacesPrime DEF C, W, G
<1>12. CASE /\ writeBuf' = Append(writeBuf, w)
            /\ UNCHANGED <<corkedBuf, pendCons>> /\ Handed' = {}
    <2>1. ToSet(writeBuf') = W \cup {w} /\ Distinct(writeBuf')
        BY <1>2, <1>5, <1>7, <1>9, <1>12 DEF W
    <2>2. C \cup (W \cup {w}) \cup P \cup {} \cup I \cup UNION B = T \cup {w}
        OBVIOUS
    <2>3. Sound(C, W \cup {w}, P, {}, G, I, B, nw', length')
        <3>1. Apart(C, W \cup {w}, P, {}, G, nw')
            BY <1>1, <1>2, <1>5, <1>8 DEF Sound, Apart
        <3>2. AtSink(G, I, B)
            BY <1>2 DEF Sound, AtSink
        <3>. QED
            BY <1>6, <2>2, <3>1, <3>2 DEF Sound
    <2>. QED
        BY <1>2, <1>12, <2>1, <2>3, PlacesPrime DEF C, P, G
<1>13. CASE UNCHANGED <<corkedBuf, writeBuf, pendCons>> /\ Handed' = {w}
    <2>2. C \cup W \cup P \cup {w} \cup I \cup UNION B = T \cup {w}
        OBVIOUS
    <2>3. Sound(C, W, P, {w}, G, I, B, nw', length')
        <3>1. Apart(C, W, P, {w}, G, nw')
            BY <1>1, <1>2, <1>5, <1>8 DEF Sound, Apart
        <3>2. AtSink(G, I, B)
            BY <1>2 DEF Sound, AtSink
        <3>. QED
            BY <1>6, <2>2, <3>1, <3>2 DEF Sound
    <2>. QED
        BY <1>2, <1>13, <2>3, PlacesPrime DEF C, W, P, G
<1>. QED
    BY <1>3, <1>10, <1>11, <1>12, <1>13

(* const [first, ...rest] = buffered, of _flushCorkedBuffer.                *)
LEMMA PlacesUncork ==
    ASSUME TypeOK, PlacesInv, pc # "doWrite", pc' = "doWrite", corkedBuf # <<>>,
           arg' = Head(corkedBuf), corkedBuf' = <<>>,
           writeBuf' = writeBuf \o Tail(corkedBuf),
           UNCHANGED <<pendCons, issued, inflight, batches, nw, length>>
    PROVE  PlacesInv'
<1>. DEFINE C == ToSet(corkedBuf)  W == ToSet(writeBuf)  P == ToSet(pendCons)
            G == ToSet(issued)     I == inflight         B == batches
            h == Head(corkedBuf)   R == ToSet(Tail(corkedBuf))
<1>1. /\ Distinct(corkedBuf) /\ Distinct(writeBuf) /\ Distinct(pendCons)
      /\ Distinct(issued) /\ Handed = {} /\ Handed' = {h}
      /\ Sound(C, W, P, {}, G, I, B, nw, length)
    BY DEF PlacesInv, Handed
<1>2. /\ C = {h} \cup R /\ h \notin R /\ Distinct(Tail(corkedBuf))
      /\ Tail(corkedBuf) \in Seq(Writes) /\ writeBuf \in Seq(Writes)
    BY <1>1, PlacesTypes, TailSet, DistinctTail
<1>3. W \cap R = {}
    BY <1>1, <1>2 DEF Sound, Apart, AtSink
<1>4. ToSet(writeBuf') = W \cup R /\ Distinct(writeBuf')
    BY <1>1, <1>2, <1>3, Joined
<1>5. ToSet(corkedBuf') = {} /\ Distinct(corkedBuf')
    BY DEF ToSet, Distinct
<1>. HIDE DEF C, W, P, G, R, h
<1>6. {} \cup (W \cup R) \cup P \cup {h} \cup I \cup UNION B
          = C \cup W \cup P \cup {} \cup I \cup UNION B
    BY <1>2
<1>7. Sound({}, W \cup R, P, {h}, G, I, B, nw, length)
    <2>1. Apart({}, W \cup R, P, {h}, G, nw)
        BY <1>1, <1>2, <1>3 DEF Sound, Apart
    <2>2. AtSink(G, I, B)
        BY <1>1 DEF Sound, AtSink
    <2>. QED
        BY <1>1, <1>6, <2>1, <2>2 DEF Sound
<1>. QED
    BY <1>1, <1>4, <1>5, <1>7, PlacesPrime DEF P, G

(* The same of _maybeFlush.                                                 *)
LEMMA PlacesFlush ==
    ASSUME TypeOK, PlacesInv, pc # "doWrite", pc' = "doWrite", pendCons # <<>>,
           arg' = Head(pendCons), pendCons' = <<>>,
           writeBuf' = writeBuf \o Tail(pendCons),
           UNCHANGED <<corkedBuf, issued, inflight, batches, nw, length>>
    PROVE  PlacesInv'
<1>. DEFINE C == ToSet(corkedBuf)  W == ToSet(writeBuf)  P == ToSet(pendCons)
            G == ToSet(issued)     I == inflight         B == batches
            h == Head(pendCons)    R == ToSet(Tail(pendCons))
<1>1. /\ Distinct(corkedBuf) /\ Distinct(writeBuf) /\ Distinct(pendCons)
      /\ Distinct(issued) /\ Handed = {} /\ Handed' = {h}
      /\ Sound(C, W, P, {}, G, I, B, nw, length)
    BY DEF PlacesInv, Handed
<1>2. /\ P = {h} \cup R /\ h \notin R /\ Distinct(Tail(pendCons))
      /\ Tail(pendCons) \in Seq(Writes) /\ writeBuf \in Seq(Writes)
    BY <1>1, PlacesTypes, TailSet, DistinctTail
<1>3. W \cap R = {}
    BY <1>1, <1>2 DEF Sound, Apart, AtSink
<1>4. ToSet(writeBuf') = W \cup R /\ Distinct(writeBuf')
    BY <1>1, <1>2, <1>3, Joined
<1>5. ToSet(pendCons') = {} /\ Distinct(pendCons')
    BY DEF ToSet, Distinct
<1>. HIDE DEF C, W, P, G, R, h
<1>6. C \cup (W \cup R) \cup {} \cup {h} \cup I \cup UNION B
          = C \cup W \cup P \cup {} \cup I \cup UNION B
    BY <1>2
<1>7. Sound(C, W \cup R, {}, {h}, G, I, B, nw, length)
    <2>1. Apart(C, W \cup R, {}, {h}, G, nw)
        BY <1>1, <1>2, <1>3 DEF Sound, Apart
    <2>2. AtSink(G, I, B)
        BY <1>1 DEF Sound, AtSink
    <2>. QED
        BY <1>1, <1>6, <2>1, <2>2 DEF Sound
<1>. QED
    BY <1>1, <1>4, <1>5, <1>7, PlacesPrime DEF C, G

LEMMA PlacesDrain ==
    ASSUME TypeOK, PlacesInv, pc # "doWrite", pc' = "doWrite", writeBuf # <<>>,
           arg' = Head(writeBuf), writeBuf' = Tail(writeBuf),
           UNCHANGED <<corkedBuf, pendCons, issued, inflight, batches, nw, length>>
    PROVE  PlacesInv'
<1>. DEFINE C == ToSet(corkedBuf)  W == ToSet(writeBuf)  P == ToSet(pendCons)
            G == ToSet(issued)     I == inflight         B == batches
            h == Head(writeBuf)    R == ToSet(Tail(writeBuf))
<1>1. /\ Distinct(corkedBuf) /\ Distinct(writeBuf) /\ Distinct(pendCons)
      /\ Distinct(issued) /\ Handed = {} /\ Handed' = {h}
      /\ Sound(C, W, P, {}, G, I, B, nw, length)
    BY DEF PlacesInv, Handed
<1>2. /\ W = {h} \cup R /\ h \notin R /\ Distinct(writeBuf') /\ ToSet(writeBuf') = R
    BY <1>1, PlacesTypes, TailSet, DistinctTail
<1>. HIDE DEF C, W, P, G, R, h
<1>3. C \cup R \cup P \cup {h} \cup I \cup UNION B
          = C \cup W \cup P \cup {} \cup I \cup UNION B
    BY <1>2
<1>4. Sound(C, R, P, {h}, G, I, B, nw, length)
    <2>1. Apart(C, R, P, {h}, G, nw)
        BY <1>1, <1>2 DEF Sound, Apart
    <2>2. AtSink(G, I, B)
        BY <1>1 DEF Sound, AtSink
    <2>. QED
        BY <1>1, <1>3, <2>1, <2>2 DEF Sound
<1>. QED
    BY <1>1, <1>2, <1>4, PlacesPrime DEF C, P, G

(* _doWrite: the sink has the write, or is done with it.                    *)
LEMMA PlacesDoWrite ==
    ASSUME TypeOK, PlacesInv, DoWrite
    PROVE  PlacesInv'
<1>. DEFINE C == ToSet(corkedBuf)  W == ToSet(writeBuf)  P == ToSet(pendCons)
            G == ToSet(issued)     I == inflight         B == batches
            T == C \cup W \cup P \cup {arg} \cup I \cup UNION B
<1>1. /\ Distinct(corkedBuf) /\ Distinct(writeBuf) /\ Distinct(pendCons)
      /\ Distinct(issued) /\ Handed = {arg} /\ arg \in Writes
      /\ Sound(C, W, P, {arg}, G, I, B, nw, length)
    BY DEF PlacesInv, Handed, DoWrite, TypeOK, CallTypes
<1>2. Handed' = {}
    BY DEF Handed, DoWrite, TypeOK, CallTypes
<1>3. arg \notin G
    BY <1>1 DEF Sound, Apart, AtSink
<1>4. ToSet(issued') = G \cup {arg} /\ Distinct(issued')
    <2>1. issued' = Append(issued, arg) /\ issued \in Seq(Writes)
        BY PlacesTypes DEF DoWrite
    <2>. QED
        BY <1>1, <1>3, <2>1, AppendSet, DistinctAppend
<1>5. /\ UNCHANGED <<corkedBuf, writeBuf, pendCons, batches, nw>>
      /\ \/ length' = length - Total({arg}) /\ inflight' = inflight
         \/ inflight' = inflight \cup {arg} /\ length' = length
    BY DEF DoWrite, Release, bufVars
<1>6. T \in SUBSET Writes
    BY <1>1, PlacesTypes
<1>7. length = SumOf(Size, T)
    BY <1>1 DEF Sound, Apart, AtSink
<1>8. Distinct(corkedBuf') /\ Distinct(writeBuf') /\ Distinct(pendCons')
    BY <1>1, <1>5
<1>. HIDE DEF C, W, P, G
<1>9. CASE length' = length - Total({arg}) /\ inflight' = inflight
    <2>1. C \cup W \cup P \cup {} \cup I \cup UNION B = T \ {arg}
        BY <1>1 DEF Sound, Apart, AtSink
    <2>2. length' = SumOf(Size, T \ {arg})
        <3>1. arg \in T
            OBVIOUS
        <3>. HIDE DEF T
        <3>2. {arg} \in SUBSET T
            BY <3>1
        <3>3. SumOf(Size, T) - Total({arg}) = SumOf(Size, T \ {arg})
            BY <1>6, <3>2, Released
        <3>. QED
            BY <1>7, <1>9, <3>3
    <2>3. Sound(C, W, P, {}, G \cup {arg}, I, B, nw, length')
        <3>1. Apart(C, W, P, {}, G \cup {arg}, nw)
            BY <1>1 DEF Sound, Apart
        <3>2. AtSink(G \cup {arg}, I, B)
            BY <1>1 DEF Sound, AtSink
        <3>. QED
            BY <2>2, <2>1, <3>1, <3>2 DEF Sound
    <2>. QED
        BY <1>2, <1>4, <1>5, <1>8, <1>9, <2>3, PlacesPrime DEF C, W, P
<1>10. CASE inflight' = inflight \cup {arg} /\ length' = length
    <2>1. C \cup W \cup P \cup {} \cup (I \cup {arg}) \cup UNION B = T
        OBVIOUS
    <2>2. Sound(C, W, P, {}, G \cup {arg}, I \cup {arg}, B, nw, length)
        <3>1. Apart(C, W, P, {}, G \cup {arg}, nw)
            BY <1>1 DEF Sound, Apart
        <3>2. AtSink(G \cup {arg}, I \cup {arg}, B)
            <4>1. AtSink(G, I, B) /\ {arg} \cap G = {}
                BY <1>1 DEF Sound, Apart
            <4>. QED
                BY <4>1, SinkGains
        <3>. QED
            BY <1>1, <2>1, <3>1, <3>2 DEF Sound
    <2>. QED
        BY <1>2, <1>4, <1>5, <1>8, <1>10, <2>2, PlacesPrime DEF C, W, P
<1>. QED
    BY <1>5, <1>9, <1>10

(* The sink calls back for the writes S that it had.                        *)
LEMMA PlacesDone ==
    ASSUME TypeOK, PlacesInv, UNCHANGED <<bufVars, issued, nw>>, Handed' = Handed,
           NEW S, length' = length - Total(S),
           \/ /\ S \subseteq inflight
              /\ inflight' = inflight \ S /\ batches' = batches
           \/ S \in batches /\ batches' = batches \ {S} /\ inflight' = inflight
    PROVE  PlacesInv'
<1>. DEFINE C == ToSet(corkedBuf)  W == ToSet(writeBuf)  P == ToSet(pendCons)
            G == ToSet(issued)     I == inflight         B == batches
            H == Handed
            T == C \cup W \cup P \cup H \cup I \cup UNION B
<1>1. /\ Distinct(corkedBuf) /\ Distinct(writeBuf) /\ Distinct(pendCons)
      /\ Distinct(issued) /\ Sound(C, W, P, H, G, I, B, nw, length)
    BY DEF PlacesInv
<1>2. UNCHANGED <<corkedBuf, writeBuf, pendCons>>
    BY DEF bufVars
<1>3. T \in SUBSET Writes
    BY PlacesTypes
<1>. HIDE DEF C, W, P, G, H
<1>4. S \subseteq I \cup UNION B
    OBVIOUS
<1>5. inflight' \cup UNION batches' = (I \cup UNION B) \ S
    <2>1. CASE S \subseteq inflight /\ inflight' = inflight \ S /\ batches' = batches
        BY <1>1, <2>1 DEF Sound, Apart, AtSink
    <2>2. CASE S \in batches /\ batches' = batches \ {S} /\ inflight' = inflight
        BY <1>1, <2>2 DEF Sound, Apart, AtSink
    <2>. QED
        BY <2>1, <2>2
<1>6. C \cup W \cup P \cup H \cup inflight' \cup UNION batches' = T \ S
    BY <1>1, <1>4, <1>5 DEF Sound, Apart, AtSink
<1>7. length' = SumOf(Size, T \ S)
    <2>1. S \in SUBSET T
        BY <1>4
    <2>2. length = SumOf(Size, T)
        BY <1>1 DEF Sound, Apart, AtSink
    <2>. HIDE DEF T
    <2>3. SumOf(Size, T) - Total(S) = SumOf(Size, T \ S)
        BY <1>3, <2>1, Released
    <2>. QED
        BY <2>2, <2>3
<1>8. Sound(C, W, P, H, G, inflight', batches', nw, length')
    <2>1. inflight' \cup UNION batches' \subseteq G
        BY <1>1, <1>5 DEF Sound, Apart, AtSink
    <2>2. inflight' \cap UNION batches' = {}
        BY <1>1 DEF Sound, Apart, AtSink
    <2>3. \A a, b \in batches' : a # b => a \cap b = {}
        BY <1>1 DEF Sound, Apart, AtSink
    <2>. QED
        BY <1>1, <1>6, <1>7, <2>1, <2>2, <2>3 DEF Sound, Apart, AtSink
<1>. QED
    BY <1>1, <1>2, <1>8, PlacesPrime DEF C, W, P, G, H

(* _writev takes the corked writes, or is done with them.                   *)
LEMMA PlacesBatch ==
    ASSUME TypeOK, PlacesInv, corkedBuf' = <<>>, issued' = issued \o corkedBuf,
           UNCHANGED <<writeBuf, pendCons, inflight, nw>>, Handed' = Handed,
           \/ length' = length - Total(ToSet(corkedBuf)) /\ batches' = batches
           \/ batches' = batches \cup {ToSet(corkedBuf)} /\ length' = length
    PROVE  PlacesInv'
<1>. DEFINE C == ToSet(corkedBuf)  W == ToSet(writeBuf)  P == ToSet(pendCons)
            G == ToSet(issued)     I == inflight         B == batches
            H == Handed
            T == C \cup W \cup P \cup H \cup I \cup UNION B
<1>1. /\ Distinct(corkedBuf) /\ Distinct(writeBuf) /\ Distinct(pendCons)
      /\ Distinct(issued) /\ Sound(C, W, P, H, G, I, B, nw, length)
    BY DEF PlacesInv
<1>2. C \cap G = {}
    BY <1>1 DEF Sound, Apart, AtSink
<1>3. ToSet(issued') = G \cup C /\ Distinct(issued')
    BY <1>1, <1>2, PlacesTypes, CatSet, DistinctCat
<1>4. ToSet(corkedBuf') = {} /\ Distinct(corkedBuf')
    BY DEF ToSet, Distinct
<1>5. T \in SUBSET Writes
    BY PlacesTypes
<1>. HIDE DEF C, W, P, G, H
<1>6. CASE length' = length - Total(C) /\ batches' = batches
    <2>1. {} \cup W \cup P \cup H \cup I \cup UNION B = T \ C
        BY <1>1 DEF Sound, Apart, AtSink
    <2>2. length' = SumOf(Size, T \ C)
        <3>1. C \in SUBSET T
            OBVIOUS
        <3>2. length = SumOf(Size, T)
            BY <1>1 DEF Sound, Apart, AtSink
        <3>. HIDE DEF T
        <3>3. SumOf(Size, T) - Total(C) = SumOf(Size, T \ C)
            BY <1>5, <3>1, Released
        <3>. QED
            BY <1>6, <3>2, <3>3
    <2>3. Sound({}, W, P, H, G \cup C, I, B, nw, length')
        <3>1. Apart({}, W, P, H, G \cup C, nw)
            BY <1>1 DEF Sound, Apart
        <3>2. AtSink(G \cup C, I, B)
            BY <1>1 DEF Sound, AtSink
        <3>. QED
            BY <2>2, <2>1, <3>1, <3>2 DEF Sound
    <2>. QED
        BY <1>1, <1>3, <1>4, <1>6, <2>3, PlacesPrime DEF W, P, H
<1>7. CASE batches' = batches \cup {C} /\ length' = length
    <2>1. UNION (B \cup {C}) = C \cup UNION B
        BY UnionAdd
    <2>2. {} \cup W \cup P \cup H \cup I \cup UNION (B \cup {C}) = T
        BY <2>1
    <2>3. Sound({}, W, P, H, G \cup C, I, B \cup {C}, nw, length)
        <3>1. Apart({}, W, P, H, G \cup C, nw)
            BY <1>1 DEF Sound, Apart
        <3>2. AtSink(G \cup C, I, B \cup {C})
            <4>1. AtSink(G, I, B)
                BY <1>1 DEF Sound
            <4>. QED
                BY <1>2, <4>1, SinkGains
        <3>. QED
            BY <1>1, <1>7, <2>2, <3>1, <3>2 DEF Sound
    <2>. QED
        BY <1>1, <1>3, <1>4, <1>7, <2>3, PlacesPrime DEF W, P, H
<1>. QED
    BY <1>6, <1>7 DEF C

LEMMA PlacesDoEnd ==
    ASSUME TypeOK, PlacesInv, pc # "doWrite", NEW chunk \in BOOLEAN, NEW id,
           chunk => nw < MaxWrites, DoEnd(chunk, id),
           UNCHANGED <<issued, inflight, batches>>
    PROVE  PlacesInv'
<1>1. CASE chunk
    <2>1. Accept("endRest") /\ nw < MaxWrites
        BY <1>1 DEF DoEnd
    <2>. QED
        BY <2>1, PlacesAccept
<1>2. CASE ~chunk
    <2>1. UNCHANGED <<nw, length, bufVars>> /\ pc' = "endRest"
        BY <1>2 DEF DoEnd
    <2>2. Handed' = Handed
        BY <2>1 DEF Handed
    <2>. QED
        BY <2>1, <2>2, PlacesFrame
<1>. QED
    BY <1>1, <1>2

LEMMA PlacesConstructed ==
    ASSUME TypeOK, PlacesInv, pc = "user", NEW o, NEW queue, NEW running,
           Constructed(o, queue, running),
           UNCHANGED <<corkedBuf, issued, inflight, batches, nw, length>>
    PROVE  PlacesInv'
<1>1. CASE pendCons # <<>> /\ pc' = "doWrite"
    <2>1. /\ arg' = Head(pendCons) /\ pendCons' = <<>>
          /\ writeBuf' = writeBuf \o Tail(pendCons)
        BY <1>1 DEF Constructed, Rest
    <2>. QED
        BY <1>1, <2>1, PlacesFlush
<1>2. CASE pendCons = <<>> \/ pc' # "doWrite"
    <2>1. UNCHANGED <<writeBuf, pendCons>> /\ pc' # "doWrite"
        BY <1>2 DEF Constructed
    <2>2. Handed' = Handed
        BY <2>1 DEF Handed
    <2>. QED
        BY <2>1, <2>2, PlacesFrame DEF bufVars
<1>. QED
    BY <1>1, <1>2

LEMMA RoomLeft ==
    ASSUME TypeOK, Room
    PROVE  nw < MaxWrites
<1>1. nw \in Nat /\ MaxWrites \in Nat
    BY BoundAssumption DEF TypeOK, QueueTypes
<1>2. CASE pendEnd.chunk
    BY <1>1, <1>2 DEF Room
<1>3. CASE ~pendEnd.chunk
    BY <1>1, <1>3 DEF Room
<1>. QED
    BY <1>2, <1>3

LEMMA PlacesUser ==
    ASSUME TypeOK, PlacesInv, UserStep
    PROVE  PlacesInv'
<1>0. ASSUME UNCHANGED <<bufVars, issued, inflight, batches, nw, length, pc, arg>>
      PROVE  PlacesInv'
    <2>1. Handed' = Handed
        BY <1>0 DEF Handed
    <2>. QED
        BY <1>0, <2>1, PlacesFrame
<1>1. CASE Write
    <2>1. nw < MaxWrites
        BY <1>1, RoomLeft DEF Write
    <2>. QED
        BY <1>1, <2>1, PlacesAccept DEF Write, sinkVars
<1>2. CASE WriteAfterEnd
    BY <1>0, <1>2 DEF WriteAfterEnd, sinkVars, histVars
<1>3. CASE End
    <2>1. pc = "user" /\ UNCHANGED <<issued, inflight, batches>>
        BY <1>3 DEF End, sinkVars
    <2>2. PICK chunk \in BOOLEAN :
             /\ chunk => IF constructed THEN Room ELSE nw < MaxWrites
             /\ \/ UNCHANGED <<nw, length, bufVars, pc, arg>>
                \/ DoEnd(chunk, ends + 1)
        BY <1>3 DEF End
    <2>3. chunk => nw < MaxWrites
        BY <2>2, RoomLeft
    <2>. QED
        BY <1>0, <2>1, <2>2, <2>3, PlacesDoEnd
<1>4. CASE CorkCall \/ DestroyCall
    BY <1>0, <1>4 DEF CorkCall, DestroyCall, DestroyBody, callVars, sinkVars, histVars
<1>5. CASE Uncork
    <2>1. pc = "user" /\ UNCHANGED <<nw, pendCons, inflight>> /\ corked \in Nat
        BY <1>5 DEF Uncork, TypeOK, QueueTypes
    <2>2. CASE corked > 1 \/ corkedBuf = <<>>
        <3>1. UNCHANGED <<length, corkedBuf, writeBuf, pc, arg, batches, issued>>
            BY <1>5, <2>1, <2>2 DEF Uncork
        <3>. QED
            BY <1>0, <2>1, <3>1 DEF bufVars
    <2>3. CASE ~(corked > 1 \/ corkedBuf = <<>>) /\ Writev /\ Len(corkedBuf) > 1
        <3>1. /\ corked = 1 /\ issued' = issued \o corkedBuf /\ corkedBuf' = <<>>
              /\ UNCHANGED <<writeBuf, pc, arg>>
              /\ \/ length' = Release(SeqToSet(corkedBuf)) /\ batches' = batches
                 \/ batches' = batches \cup {SeqToSet(corkedBuf)} /\ length' = length
            BY <1>5, <2>1, <2>3 DEF Uncork, BatchDone
        <3>2. SeqToSet(corkedBuf) = ToSet(corkedBuf)
            BY DEF SeqToSet, ToSet
        <3>3. Handed' = Handed
            BY <3>1 DEF Handed
        <3>. QED
            BY <2>1, <3>1, <3>2, <3>3, PlacesBatch DEF Release
    <2>4. CASE ~(corked > 1 \/ corkedBuf = <<>>) /\ ~(Writev /\ Len(corkedBuf) > 1)
        <3>1. /\ corkedBuf # <<>> /\ corkedBuf' = <<>> /\ pc' = "doWrite"
              /\ arg' = Head(corkedBuf) /\ writeBuf' = writeBuf \o Tail(corkedBuf)
              /\ UNCHANGED <<length, batches, issued>>
            BY <1>5, <2>1, <2>4 DEF Uncork, Rest
        <3>. QED
            BY <2>1, <3>1, PlacesUncork
    <2>. QED
        BY <2>2, <2>3, <2>4
<1>. QED
    BY <1>1, <1>2, <1>3, <1>4, <1>5 DEF UserStep

LEMMA PlacesSink ==
    ASSUME TypeOK, PlacesInv, SinkStep
    PROVE  PlacesInv'
<1>0. ASSUME UNCHANGED <<bufVars, issued, inflight, batches, nw, length, pc, arg>>
      PROVE  PlacesInv'
    <2>1. Handed' = Handed
        BY <1>0 DEF Handed
    <2>. QED
        BY <1>0, <2>1, PlacesFrame
<1>1. CASE WriteCallback
    <2>1. PICK w \in inflight : inflight' = inflight \ {w} /\ length' = Release({w})
        BY <1>1 DEF WriteCallback
    <2>2. /\ UNCHANGED <<bufVars, issued, nw, pc, arg>> /\ batches' = batches
        BY <1>1 DEF WriteCallback, histVars
    <2>3. Handed' = Handed
        BY <2>2 DEF Handed
    <2>. DEFINE S == {w}
    <2>4. S \subseteq inflight /\ inflight' = inflight \ S /\ length' = length - Total(S)
        BY <2>1 DEF Release
    <2>. HIDE DEF S
    <2>. QED
        BY <2>2, <2>3, <2>4, PlacesDone
<1>2. CASE BatchCallback
    <2>1. PICK b \in batches : batches' = batches \ {b} /\ length' = length - Total(b)
        BY <1>2 DEF BatchCallback, BatchDone, Release
    <2>2. /\ UNCHANGED <<bufVars, issued, nw, pc, arg>> /\ inflight' = inflight
        BY <1>2 DEF BatchCallback
    <2>3. Handed' = Handed
        BY <2>2 DEF Handed
    <2>. QED
        BY <2>1, <2>2, <2>3, PlacesDone
<1>3. CASE FinalCallback \/ DestroyCallback
    BY <1>0, <1>3 DEF FinalCallback, DestroyCallback, histVars
<1>4. CASE ConstructCallback
    <2>1. PICK o : Constructed(o, ticks, pending \ {"construct"})
        BY <1>4 DEF ConstructCallback
    <2>. QED
        BY <1>4, <2>1, PlacesConstructed DEF ConstructCallback, histVars
<1>. QED
    BY <1>1, <1>2, <1>3, <1>4 DEF SinkStep

LEMMA PlacesStep == TypeOK /\ PlacesInv /\ [Next]_vars => PlacesInv'
<1>. SUFFICES ASSUME TypeOK, PlacesInv, [Next]_vars PROVE PlacesInv'
    OBVIOUS
<1>0. ASSUME UNCHANGED <<bufVars, issued, inflight, batches, nw, length>>,
             Handed' = Handed
      PROVE  PlacesInv'
    BY <1>0, PlacesFrame
<1>1. CASE CallStep
    <2>1. CASE DoWrite
        BY <2>1, PlacesDoWrite
    <2>2. CASE DrainWriteBuffer
        <3>1. UNCHANGED <<corkedBuf, pendCons, issued, inflight, batches, nw, length>>
              /\ pc = "drain"
            BY <2>2 DEF DrainWriteBuffer, histVars
        <3>2. CASE writeBuf # <<>>
            BY <2>2, <3>1, <3>2, PlacesDrain DEF DrainWriteBuffer
        <3>3. CASE writeBuf = <<>>
            <4>1. writeBuf' = writeBuf /\ pc' = cont /\ cont # "doWrite"
                BY <2>2, <3>3 DEF DrainWriteBuffer, TypeOK, CallTypes
            <4>2. Handed' = Handed
                BY <3>1, <4>1 DEF Handed
            <4>. QED
                BY <1>0, <3>1, <4>1, <4>2 DEF bufVars
        <3>. QED
            BY <3>2, <3>3
    <2>3. CASE EndRest
        <3>1. Handed' = Handed
            BY <2>3 DEF EndRest, Handed
        <3>. QED
            BY <1>0, <2>3, <3>1 DEF EndRest, histVars
    <2>4. CASE PendingEnd
        <3>1. pc = "pendingEnd" /\ UNCHANGED <<issued, inflight, batches>>
            BY <2>4 DEF PendingEnd, sinkVars
        <3>2. CASE pendEnd = NoEnd
            <4>1. UNCHANGED <<nw, length, bufVars>> /\ pc' = "user"
                BY <2>4, <3>2 DEF PendingEnd
            <4>2. Handed' = Handed
                BY <3>1, <4>1 DEF Handed
            <4>. QED
                BY <1>0, <3>1, <4>1, <4>2
        <3>3. CASE pendEnd # NoEnd
            <4>1. /\ DoEnd(pendEnd.chunk, pendEnd.id) /\ pendEnd.chunk \in BOOLEAN
                  /\ pendEnd.chunk => nw < MaxWrites
                BY <2>4, <3>3 DEF PendingEnd, TypeOK, EndTypes
            <4>. QED
                BY <3>1, <4>1, PlacesDoEnd
        <3>. QED
            BY <3>2, <3>3
    <2>. QED
        BY <1>1, <2>1, <2>2, <2>3, <2>4 DEF CallStep
<1>2. CASE TickStep
    <2>1. CASE RunTick
        <3>1. pc = "user" /\ UNCHANGED <<nw, length, corkedBuf, inflight, batches, issued>>
            BY <2>1 DEF RunTick
        <3>2. \/ \E o : Constructed(o, Tail(ticks), pending)
              \/ UNCHANGED <<pc, arg, pendCons, writeBuf>>
            BY <2>1 DEF RunTick
        <3>3. CASE UNCHANGED <<pc, arg, pendCons, writeBuf>>
            <4>1. Handed' = Handed
                BY <3>3 DEF Handed
            <4>. QED
                BY <1>0, <3>1, <3>3, <4>1 DEF bufVars
        <3>. QED
            BY <3>1, <3>2, <3>3, PlacesConstructed
    <2>2. CASE DrainCheck \/ FlushPart \/ ClosePart
        <3>1. pc = "user" /\ pc' # "doWrite"
            BY <2>2 DEF DrainCheck, FlushPart, ClosePart
        <3>2. Handed' = Handed
            BY <3>1 DEF Handed
        <3>. QED
            BY <1>0, <2>2, <3>2 DEF DrainCheck, FlushPart, ClosePart, sinkVars, histVars
    <2>. QED
        BY <1>2, <2>1, <2>2 DEF TickStep
<1>3. CASE UNCHANGED vars
    <2>1. Handed' = Handed
        BY <1>3 DEF vars, callVars, Handed
    <2>. QED
        BY <1>0, <1>3, <2>1 DEF vars, sinkVars, histVars
<1>. QED
    BY <1>1, <1>2, <1>3, PlacesUser, PlacesSink DEF Next

LEMMA PlacesInit == Init => PlacesInv
<1>. SUFFICES ASSUME Init PROVE PlacesInv
    OBVIOUS
<1>1. /\ corkedBuf = <<>> /\ writeBuf = <<>> /\ pendCons = <<>> /\ issued = <<>>
      /\ Handed = {} /\ inflight = {} /\ batches = {} /\ nw = 0 /\ length = 0
    BY DEF Init, Handed
<1>2. ToSet(<<>>) = {} /\ Distinct(<<>>)
    BY DEF ToSet, Distinct
<1>3. Sound({}, {}, {}, {}, {}, {}, {}, 0, 0)
    <2>1. {} \cup {} \cup {} \cup {} \cup {} \cup UNION {} = {} /\ 1..0 = {}
        OBVIOUS
    <2>. QED
        BY <2>1, SumEmpty DEF Sound, Apart, AtSink
<1>. QED
    BY <1>1, <1>2, <1>3 DEF PlacesInv

(* Whatever the user corks, the sink answers and when, with or without      *)
(* _writev and _construct: each accepted write is in one queue, or was given*)
(* to the sink, once, and writableLength is the size of what is held.       *)
THEOREM NothingForgotten == Spec => []Conservation
<1>1. TypeOK /\ PlacesInv => Conservation
    <2>. SUFFICES ASSUME TypeOK, PlacesInv PROVE Conservation
        OBVIOUS
    <2>. DEFINE C == ToSet(corkedBuf)  W == ToSet(writeBuf)  P == ToSet(pendCons)
                G == ToSet(issued)     I == inflight         B == batches
                H == Handed            h == Handing
    <2>1. /\ Distinct(corkedBuf) /\ Distinct(writeBuf) /\ Distinct(pendCons)
          /\ Distinct(issued) /\ Sound(C, W, P, H, G, I, B, nw, length)
        BY DEF PlacesInv
    <2>2. /\ corkedBuf \in Seq(Writes) /\ writeBuf \in Seq(Writes)
          /\ pendCons \in Seq(Writes) /\ issued \in Seq(Writes) /\ nw \in Nat
        BY PlacesTypes DEF TypeOK, QueueTypes
    <2>3. h \in Seq(Writes) /\ ToSet(h) = H /\ Distinct(h)
        <3>1. CASE pc = "doWrite"
            <4>1. h = <<arg>> /\ H = {arg} /\ arg \in Writes
                BY <3>1 DEF Handing, Handed, TypeOK, CallTypes
            <4>. HIDE DEF h, H
            <4>. QED
                BY <4>1 DEF ToSet, Distinct
        <3>2. CASE pc # "doWrite"
            <4>1. h = <<>> /\ H = {}
                BY <3>2 DEF Handing, Handed
            <4>. HIDE DEF h, H
            <4>. QED
                BY <4>1 DEF ToSet, Distinct
        <3>. QED
            BY <3>1, <3>2
    <2>. DEFINE a == corkedBuf \o writeBuf  b == a \o pendCons
                c == b \o Handing           d == c \o issued
    <2>. HIDE DEF C, W, P, G, H, h
    <2>4. a \in Seq(Writes) /\ ToSet(a) = C \cup W /\ Distinct(a)
        <3>1. C \cap W = {}
            BY <2>1 DEF Sound, Apart, AtSink
        <3>. QED
            BY <2>1, <2>2, <3>1, CatSet, DistinctCat DEF C, W
    <2>. HIDE DEF a
    <2>5. b \in Seq(Writes) /\ ToSet(b) = C \cup W \cup P /\ Distinct(b)
        <3>1. (C \cup W) \cap P = {}
            BY <2>1 DEF Sound, Apart, AtSink
        <3>. QED
            BY <2>1, <2>2, <2>4, <3>1, CatSet, DistinctCat DEF P
    <2>. HIDE DEF b
    <2>6. c \in Seq(Writes) /\ ToSet(c) = C \cup W \cup P \cup H /\ Distinct(c)
        <3>1. (C \cup W \cup P) \cap H = {}
            BY <2>1 DEF Sound, Apart, AtSink
        <3>. QED
            BY <2>3, <2>5, <3>1, CatSet, DistinctCat DEF h
    <2>. HIDE DEF c
    <2>7. d \in Seq(Writes) /\ ToSet(d) = 1..nw /\ Distinct(d)
        <3>1. (C \cup W \cup P \cup H) \cap G = {}
              /\ C \cup W \cup P \cup H \cup G = 1..nw
            BY <2>1 DEF Sound, Apart, AtSink
        <3>2. d \in Seq(Writes) /\ ToSet(d) = ToSet(c) \cup G
            BY <2>2, <2>6, CatSet DEF G
        <3>3. Distinct(d)
            BY <2>1, <2>2, <2>6, <3>1, DistinctCat DEF G
        <3>. QED
            BY <2>6, <3>1, <3>2, <3>3
    <2>. HIDE DEF d
    <2>8. Len(d) = nw
        <3>1. Len(d) = Cardinality(1..nw)
            BY <2>7, DistinctLen
        <3>2. Cardinality(1..nw) = nw
            BY <2>2, FS_Interval
        <3>. QED
            BY <3>1, <3>2
    <2>9. length = Total(Buffered \cup inflight \cup UNION batches)
        <3>1. Buffered = C \cup W \cup P \cup H
            BY <2>3 DEF Buffered, SeqToSet, ToSet, C, W, P, h
        <3>. QED
            BY <2>1, <3>1, SizeFacts DEF Sound, Apart, AtSink
    <2>10. SeqToSet(d) = 1..nw
        BY <2>7 DEF SeqToSet, ToSet
    <2>11. d = corkedBuf \o writeBuf \o pendCons \o Handing \o issued
        BY DEF a, b, c, d
    <2>. QED
        BY <2>8, <2>9, <2>10, <2>11 DEF Conservation
<1>. QED
    BY <1>1, TypeInit, TypeStep, PlacesInit, PlacesStep, PTL DEF Spec

-----------------------------------------------------------------------------
(* Serial FIFO dispatch.  Writes are dispatched by whoever holds the write  *)
(* lock: the running _doWrite or _drainWriteBuffer, the write the sink      *)
(* works on, the tick of an asynchronous completion, or what is left of     *)
(* that tick.  There is at most one holder, and writing is set while there  *)
(* is one.                                                                  *)
Uncorked == ~Cork /\ ConstructOutcomes \subseteq {"sync", "async"}

Calling == pc \in {"doWrite", "drain"}
AsyncKinds == {"async", "asyncErr"}
Completing == \E i \in 1..Len(ticks) : ticks[i].kind \in AsyncKinds
OneCompletes == \A i, j \in 1..Len(ticks) :
                   ticks[i].kind \in AsyncKinds /\ ticks[j].kind \in AsyncKinds
                   => i = j
Resuming == cur # <<>> /\ cur[1] \in {"checkFlush", "flush"}

UncorkedInv ==
    /\ corked = 0 /\ corkedBuf = <<>> /\ batches = {}
    /\ Len(cur) <= 1

LockInv ==
    /\ Calling => writing /\ inflight = {} /\ ~Completing /\ ~Resuming
    /\ inflight # {} => writing /\ ~Completing /\ ~Resuming
    /\ Completing => writing /\ ~Resuming
    /\ Resuming => writing
    /\ OneCompletes
    /\ SerialWrites

(* The queues hold the writes that were not dispatched, in order.           *)
Dispatched == Len(issued) + (IF pc = "doWrite" THEN 1 ELSE 0)

QueueInv ==
    /\ pc = "doWrite" => arg = Len(issued) + 1
    /\ \A i \in 1..Len(writeBuf) : writeBuf[i] = Dispatched + i
    /\ \A i \in 1..Len(pendCons) : pendCons[i] = Dispatched + Len(writeBuf) + i
    /\ nw = Dispatched + Len(writeBuf) + Len(pendCons)
    /\ writeBuf # <<>> => writing
    /\ FifoDispatch

(* _construct calls back once, and until then nothing is dispatched.        *)
Constructing == \E i \in 1..Len(ticks) : ticks[i].kind = "construct"
OneConstructs == \A i, j \in 1..Len(ticks) :
                    ticks[i].kind = "construct" /\ ticks[j].kind = "construct"
                    => i = j

ConstructInv ==
    /\ constructed => pendCons = <<>>
    /\ ~constructed => ~writing /\ pc = "user"
    /\ Constructing => ~constructed /\ "construct" \notin pending
    /\ "construct" \in pending => ~constructed
    /\ OneConstructs

SerialInv == UncorkedInv /\ LockInv /\ QueueInv /\ ConstructInv

(* A tick that neither ends a write nor constructs is of no concern.        *)
QuietKinds == TickKinds \ (AsyncKinds \cup {"construct"})
Quiet ==
    /\ Len(ticks') >= Len(ticks)
    /\ \A i \in 1..Len(ticks) : ticks'[i] = ticks[i]
    /\ \A i \in (Len(ticks) + 1)..Len(ticks') : ticks'[i].kind \in QuietKinds

LEMMA QuietSame == ASSUME ticks \in Seq(TickSet), ticks' = ticks PROVE Quiet
BY DEF Quiet

LEMMA QuietDefer ==
    ASSUME ticks \in Seq(TickSet), NEW t \in TickSet, t.kind \in QuietKinds,
           ticks' = Defer(t)
    PROVE  Quiet
BY DEF Quiet, Defer

LEMMA QuietClose ==
    ASSUME ticks \in Seq(TickSet),
           ticks' \in {ticks \o CloseTicks, ticks \o ErrorTicks}
    PROVE  Quiet
<1>1. /\ Tick("error", 0) \in TickSet /\ Tick("close", 0) \in TickSet
      /\ Tick("error", 0).kind \in QuietKinds
      /\ Tick("close", 0).kind \in QuietKinds
    BY TickFacts DEF TickKinds, Completions, QuietKinds, AsyncKinds, Tick
<1>2. CASE ticks' = ticks \o CloseTicks
    BY <1>1, <1>2 DEF Quiet, CloseTicks
<1>3. CASE ticks' = ticks \o ErrorTicks
    BY <1>1, <1>3 DEF Quiet, ErrorTicks
<1>. QED
    BY <1>2, <1>3

LEMMA QuietFinish ==
    ASSUME ticks \in Seq(TickSet), NEW o, ticks' = Defer(FinishTick(o))
    PROVE  Quiet
<1>1. FinishTick(o) \in TickSet /\ FinishTick(o).kind \in QuietKinds
    BY TickFacts
       DEF FinishTick, TickKinds, Completions, QuietKinds, AsyncKinds, Tick
<1>. QED
    BY <1>1, QuietDefer

LEMMA QuietKeeps ==
    ASSUME ticks \in Seq(TickSet), ticks' \in Seq(TickSet), Quiet, OneCompletes,
           OneConstructs
    PROVE  /\ Completing' <=> Completing
           /\ Constructing' <=> Constructing
           /\ OneCompletes' /\ OneConstructs'
<1>1. \A i \in 1..Len(ticks') :
         /\ ticks'[i].kind \in AsyncKinds =>
               i \in 1..Len(ticks) /\ ticks[i].kind \in AsyncKinds
         /\ ticks'[i].kind = "construct" =>
               i \in 1..Len(ticks) /\ ticks[i].kind = "construct"
    BY DEF Quiet, QuietKinds, AsyncKinds
<1>2. \A i \in 1..Len(ticks) : i \in 1..Len(ticks') /\ ticks'[i] = ticks[i]
    BY DEF Quiet
<1>. QED
    BY <1>1, <1>2 DEF Completing, Constructing, OneCompletes, OneConstructs

(* Taking the next tick off the queue.                                      *)
LEMMA TailKeeps ==
    ASSUME ticks \in Seq(TickSet), ticks # <<>>, ticks' = Tail(ticks),
           OneCompletes, OneConstructs
    PROVE  /\ Completing' => Completing
           /\ Constructing' => Constructing
           /\ OneCompletes' /\ OneConstructs'
           /\ Head(ticks).kind \in AsyncKinds => Completing /\ ~Completing'
           /\ Head(ticks).kind = "construct" => Constructing /\ ~Constructing'
<1>1. /\ Len(ticks') = Len(ticks) - 1
      /\ \A i \in 1..Len(ticks') : i + 1 \in 1..Len(ticks)
                                   /\ ticks'[i] = ticks[i + 1] /\ i + 1 # 1
      /\ 1 \in 1..Len(ticks) /\ Head(ticks) = ticks[1]
    OBVIOUS
<1>2. Completing' => Completing
    BY <1>1 DEF Completing
<1>3. Constructing' => Constructing
    BY <1>1 DEF Constructing
<1>4. OneCompletes' /\ OneConstructs'
    <2>1. OneCompletes'
        BY <1>1 DEF OneCompletes
    <2>2. OneConstructs'
        BY <1>1 DEF OneConstructs
    <2>. QED
        BY <2>1, <2>2
<1>5. Head(ticks).kind \in AsyncKinds => Completing /\ ~Completing'
    BY <1>1 DEF Completing, OneCompletes
<1>6. Head(ticks).kind = "construct" => Constructing /\ ~Constructing'
    BY <1>1 DEF Constructing, OneConstructs
<1>. QED
    BY <1>2, <1>3, <1>4, <1>5, <1>6

LEMMA AppendFacts ==
    ASSUME NEW S, NEW s \in Seq(S), NEW e \in S
    PROVE  /\ Len(s) \in Nat /\ Len(Append(s, e)) = Len(s) + 1
           /\ \A i \in 1..(Len(s) + 1) :
                 Append(s, e)[i] = IF i = Len(s) + 1 THEN e ELSE s[i]
           /\ DOMAIN Append(s, e) = 1..(Len(s) + 1) /\ DOMAIN s = 1..Len(s)
OBVIOUS

LEMMA TailFacts ==
    ASSUME NEW S, NEW s \in Seq(S), s # <<>>
    PROVE  /\ Len(s) \in Nat \ {0} /\ Len(Tail(s)) = Len(s) - 1
           /\ Head(s) = s[1]
           /\ \A i \in 1..(Len(s) - 1) : Tail(s)[i] = s[i + 1]
OBVIOUS

LEMMA MaybeFinishQuiet ==
    ASSUME ticks \in Seq(TickSet), NEW end, NEW busy, MaybeFinish(end, busy)
    PROVE  Quiet /\ ("construct" \in pending' <=> "construct" \in pending)
<1>1. \/ \E o \in Outcomes : ticks' = Defer(FinishTick(o)) /\ pending' = pending
      \/ ticks' = ticks /\ pending' \in {pending, pending \cup {"final"}}
    BY DEF MaybeFinish
<1>. QED
    BY <1>1, QuietSame, QuietFinish

LEMMA SerialInit == Init /\ Uncorked => SerialInv
<1>. SUFFICES ASSUME Init, Uncorked PROVE SerialInv
    OBVIOUS
<1>1. Tick("construct", 0).kind = "construct"
    BY DEF Tick
<1>2. ~Completing /\ OneCompletes /\ OneConstructs
    BY <1>1 DEF Init, Completing, OneCompletes, OneConstructs, AsyncKinds
<1>3. Constructing => ~constructed
    BY DEF Init, Constructing
<1>4. UncorkedInv
    BY DEF Init, UncorkedInv
<1>5. LockInv
    BY <1>2 DEF Init, LockInv, Calling, Resuming, SerialWrites
<1>6. QueueInv
    BY DEF Init, QueueInv, Dispatched, FifoDispatch
<1>7. ConstructInv
    BY <1>2, <1>3 DEF Init, ConstructInv
<1>. QED
    BY <1>4, <1>5, <1>6, <1>7 DEF SerialInv

(* The steps that leave the queues, the lock and its holder alone.          *)
LEMMA FrameKeeps ==
    ASSUME TypeOK, TypeOK', SerialInv, Quiet,
           UNCHANGED <<nw, corked, corkedBuf, batches, constructed, writing,
                       writeBuf, pendCons, inflight, issued>>,
           "construct" \in pending' <=> "construct" \in pending,
           \/ ~Calling /\ ~Calling' /\ (pc' = "user" \/ constructed)
           \/ pc' = pc /\ arg' = arg,
           cur' = cur \/ cur' = <<>>
    PROVE  SerialInv'
<1>1. /\ Completing' <=> Completing
      /\ Constructing' <=> Constructing
      /\ OneCompletes' /\ OneConstructs'
    BY QuietKeeps DEF TypeOK, CallTypes, SerialInv, LockInv, ConstructInv
<1>2. UncorkedInv'
    BY DEF SerialInv, UncorkedInv
<1>3. Resuming' => Resuming
    BY DEF Resuming
<1>4. Calling' => Calling
    BY DEF Calling
<1>5. LockInv'
    BY <1>1, <1>3, <1>4 DEF SerialInv, LockInv, SerialWrites
<1>6. Dispatched' = Dispatched /\ (pc' = "doWrite" => pc = "doWrite" /\ arg' = arg)
    BY DEF Dispatched, Calling
<1>7. QueueInv'
    BY <1>6 DEF SerialInv, QueueInv, FifoDispatch
<1>8. ConstructInv'
    BY <1>1 DEF SerialInv, ConstructInv
<1>. QED
    BY <1>2, <1>5, <1>7, <1>8 DEF SerialInv

(* write(): the write goes to the end of its queue, or, when the lock is    *)
(* free, takes the lock.                                                    *)
LEMMA AcceptKeeps ==
    ASSUME TypeOK, TypeOK', SerialInv, ~Calling, nw < MaxWrites,
           NEW next \in {"user", "endRest"}, next = "endRest" => constructed,
           Accept(next),
           UNCHANGED <<corked, batches, constructed, cur, ticks, inflight, issued,
                       pending>>
    PROVE  SerialInv'
<1>. USE DEF SerialInv
<1>1. /\ Completing' <=> Completing
      /\ Constructing' <=> Constructing
      /\ OneCompletes' <=> OneCompletes
      /\ OneConstructs' <=> OneConstructs
      /\ Resuming' <=> Resuming
    BY DEF Completing, Constructing, OneCompletes, OneConstructs, Resuming
<1>0. nw + 1 \in Writes
    BY BoundAssumption DEF TypeOK, QueueTypes, Writes
<1>2. nw' = nw + 1 /\ corked = 0
    BY DEF Accept, UncorkedInv
<1>3. CASE ~constructed
    <2>1. /\ pendCons' = Append(pendCons, nw + 1) /\ pc' = next
          /\ UNCHANGED <<corkedBuf, writeBuf, writing, arg>>
        BY <1>2, <1>3 DEF Accept
    <2>2. next = "user" /\ pc = "user"
        BY <1>3 DEF ConstructInv
    <2>3. UncorkedInv' /\ LockInv' /\ ConstructInv'
        BY <1>1, <1>3, <2>1, <2>2
           DEF UncorkedInv, LockInv, ConstructInv, Calling, SerialWrites
    <2>4. Dispatched' = Dispatched
        BY <2>1, <2>2 DEF Dispatched
    <2>5. /\ Len(pendCons') = Len(pendCons) + 1
          /\ \A i \in 1..Len(pendCons') :
                pendCons'[i] = IF i = Len(pendCons) + 1 THEN nw + 1 ELSE pendCons[i]
        BY <2>1, <1>0, AppendFacts DEF TypeOK, QueueTypes
    <2>6. Len(pendCons) \in Nat /\ Len(writeBuf) \in Nat /\ Dispatched \in Nat
        BY DEF TypeOK, QueueTypes, Dispatched
    <2>7. QueueInv'
        BY <1>2, <2>1, <2>2, <2>4, <2>5, <2>6 DEF QueueInv, FifoDispatch
    <2>. QED
        BY <2>3, <2>7
<1>4. CASE constructed /\ writing
    <2>1. /\ writeBuf' = Append(writeBuf, nw + 1) /\ pc' = next
          /\ UNCHANGED <<corkedBuf, pendCons, writing, arg>>
        BY <1>2, <1>4 DEF Accept, Enqueue, Locked
    <2>2. UncorkedInv' /\ LockInv' /\ ConstructInv'
        BY <1>1, <1>4, <2>1
           DEF UncorkedInv, LockInv, ConstructInv, Calling, SerialWrites
    <2>3. Dispatched' = Dispatched
        BY <2>1 DEF Dispatched, Calling
    <2>4. pendCons = <<>>
        BY <1>4 DEF ConstructInv
    <2>5. /\ Len(writeBuf') = Len(writeBuf) + 1
          /\ \A i \in 1..Len(writeBuf') :
                writeBuf'[i] = IF i = Len(writeBuf) + 1 THEN nw + 1 ELSE writeBuf[i]
        BY <2>1, <1>0, AppendFacts DEF TypeOK, QueueTypes
    <2>6. /\ Len(writeBuf) \in Nat /\ Dispatched \in Nat /\ pc' # "doWrite"
          /\ Len(pendCons) = 0 /\ Len(pendCons') = 0
        BY <2>1, <2>4 DEF TypeOK, QueueTypes, Dispatched
    <2>7. nw = Dispatched + Len(writeBuf)
          /\ \A i \in 1..Len(writeBuf) : writeBuf[i] = Dispatched + i
        BY <2>6 DEF QueueInv
    <2>8. ASSUME NEW i \in 1..Len(writeBuf')
          PROVE  writeBuf'[i] = Dispatched' + i
        <3>1. CASE i = Len(writeBuf) + 1
            BY <2>3, <2>5, <2>6, <2>7, <3>1
        <3>2. CASE i # Len(writeBuf) + 1
            <4>1. i \in 1..Len(writeBuf) /\ writeBuf'[i] = writeBuf[i]
                BY <2>5, <2>6, <3>2
            <4>. QED
                BY <2>3, <2>7, <4>1
        <3>. QED
            BY <3>1, <3>2
    <2>9. nw' = Dispatched' + Len(writeBuf') + Len(pendCons')
        BY <1>2, <2>3, <2>5, <2>6, <2>7
    <2>10. QueueInv'
        BY <1>4, <2>1, <2>6, <2>8, <2>9 DEF QueueInv, FifoDispatch
    <2>. QED
        BY <2>2, <2>10
<1>5. CASE constructed /\ ~writing
    <2>1. /\ writing' = TRUE /\ pc' = "doWrite" /\ arg' = nw + 1
          /\ UNCHANGED <<corkedBuf, pendCons, writeBuf>>
        BY <1>2, <1>5 DEF Accept, Locked
    <2>2. UncorkedInv' /\ LockInv' /\ ConstructInv'
        BY <1>1, <1>5, <2>1
           DEF UncorkedInv, LockInv, ConstructInv, Calling, SerialWrites
    <2>3. pendCons = <<>> /\ writeBuf = <<>>
        BY <1>5 DEF ConstructInv, QueueInv
    <2>4. QueueInv'
        BY <1>2, <1>5, <2>1, <2>3
           DEF QueueInv, FifoDispatch, TypeOK, QueueTypes, Dispatched, Calling
    <2>. QED
        BY <2>2, <2>4
<1>. QED
    BY <1>3, <1>4, <1>5

(* _maybeFlush: the first write buffered during _construct takes the lock,  *)
(* the others wait for it.                                                  *)
LEMMA ConstructedKeeps ==
    ASSUME TypeOK, TypeOK', SerialInv, NEW o, Ok(o), NEW queue, NEW running,
           Constructed(o, queue, running), ~constructed,
           Completing' => Completing, ~Constructing', "construct" \notin pending',
           OneCompletes', OneConstructs', Len(cur') <= 1, Resuming' => Resuming,
           UNCHANGED <<nw, corked, corkedBuf, batches, inflight, issued>>
    PROVE  SerialInv'
<1>. USE DEF SerialInv
<1>1. /\ ~writing /\ pc = "user" /\ writeBuf = <<>>
      /\ ~Completing /\ ~Resuming /\ inflight = {}
    BY DEF ConstructInv, QueueInv, LockInv
<1>2. constructed' = TRUE /\ pendCons' = <<>>
    BY DEF Constructed
<1>3. UncorkedInv'
    BY DEF UncorkedInv
<1>4. ConstructInv'
    BY <1>2 DEF ConstructInv
<1>5. CASE pendCons = <<>>
    <2>1. pc' = "pendingEnd" /\ UNCHANGED <<arg, writeBuf, writing>>
        BY <1>5 DEF Constructed
    <2>2. LockInv'
        BY <1>1, <2>1 DEF LockInv, Calling, SerialWrites
    <2>3. QueueInv'
        BY <1>1, <1>2, <1>5, <2>1 DEF QueueInv, Dispatched, FifoDispatch
    <2>. QED
        BY <1>3, <1>4, <2>2, <2>3
<1>6. CASE pendCons # <<>>
    <2>1. /\ pc' = "doWrite" /\ arg' = Head(pendCons) /\ writing' = TRUE
          /\ writeBuf' = writeBuf \o Tail(pendCons)
        BY <1>6 DEF Constructed, Rest
    <2>2. LockInv'
        BY <1>1, <2>1 DEF LockInv, Calling, SerialWrites
    <2>3. /\ writeBuf' = Tail(pendCons)
          /\ Len(writeBuf') = Len(pendCons) - 1
          /\ \A i \in 1..Len(writeBuf') : writeBuf'[i] = pendCons[i + 1]
          /\ Head(pendCons) = pendCons[1] /\ Len(pendCons) > 0
        BY <1>1, <1>6, <2>1, ConcatEmptySeq DEF TypeOK, QueueTypes
    <2>4. QueueInv'
        BY <1>1, <1>2, <2>1, <2>3
           DEF QueueInv, Dispatched, FifoDispatch, TypeOK, QueueTypes
    <2>. QED
        BY <1>3, <1>4, <2>2, <2>4
<1>. QED
    BY <1>5, <1>6

(* _doWrite: the holder of the lock hands the sink the oldest write.        *)
LEMMA DoWriteKeeps ==
    ASSUME TypeOK, TypeOK', SerialInv, DoWrite
    PROVE  SerialInv'
<1>. USE DEF SerialInv
<1>1. PICK o \in Outcomes :
          /\ IF Sync(o)
             THEN /\ ticks' = Defer(Tick(o, arg))
                  /\ UNCHANGED inflight
             ELSE /\ inflight' = inflight \cup {arg}
                  /\ UNCHANGED ticks
          /\ pc' = IF o = "sync" THEN "drain" ELSE cont
    BY DEF DoWrite
<1>2. /\ pc = "doWrite" /\ issued' = Append(issued, arg)
      /\ UNCHANGED <<nw, corked, corkedBuf, batches, constructed, writing,
                     writeBuf, pendCons, cur, pending>>
    BY DEF DoWrite, bufVars
<1>3. Quiet
    <2>1. CASE Sync(o)
        <3>1. /\ Tick(o, arg) \in TickSet /\ Tick(o, arg).kind \in QuietKinds
              /\ ticks' = Defer(Tick(o, arg))
            BY <1>1, <1>2, <2>1, TickFacts, OutcomeAssumption
               DEF TypeOK, CallTypes, QuietKinds, TickKinds, AsyncKinds,
                   Completions, Sync, Tick
        <3>. QED
            BY <3>1, QuietDefer DEF TypeOK, CallTypes
    <2>2. CASE ~Sync(o)
        BY <1>1, <2>2, QuietSame DEF TypeOK, CallTypes
    <2>. QED
        BY <2>1, <2>2
<1>4. /\ Completing' <=> Completing
      /\ Constructing' <=> Constructing
      /\ OneCompletes' /\ OneConstructs'
    BY <1>3, QuietKeeps DEF TypeOK, CallTypes, LockInv, ConstructInv
<1>5. /\ writing /\ constructed /\ inflight = {} /\ ~Completing /\ ~Resuming
      /\ arg = Len(issued) + 1
    BY <1>2 DEF LockInv, ConstructInv, QueueInv, Calling
<1>6. pc' # "doWrite" /\ (o # "sync" => ~Calling')
    BY <1>1 DEF TypeOK, CallTypes, Calling
<1>7. ~Sync(o) => o # "sync"
    BY DEF Sync
<1>8. UncorkedInv' /\ ConstructInv'
    BY <1>2, <1>4, <1>5 DEF UncorkedInv, ConstructInv
<1>9. LockInv'
    BY <1>1, <1>2, <1>4, <1>5, <1>6, <1>7 DEF LockInv, SerialWrites, Resuming
<1>10. /\ Len(issued') = Len(issued) + 1
       /\ \A i \in 1..Len(issued') :
             issued'[i] = IF i = Len(issued) + 1 THEN arg ELSE issued[i]
       /\ DOMAIN issued' = 1..Len(issued') /\ DOMAIN issued = 1..Len(issued)
       /\ Len(issued) \in Nat
    BY <1>2, AppendFacts DEF TypeOK, QueueTypes, CallTypes
<1>11. Dispatched' = Dispatched
    BY <1>2, <1>6, <1>10 DEF Dispatched
<1>12. QueueInv'
    BY <1>2, <1>5, <1>6, <1>10, <1>11 DEF QueueInv, FifoDispatch
<1>. QED
    BY <1>8, <1>9, <1>12

(* _drainWriteBuffer: the lock passes to the next write or is released.     *)
LEMMA DrainKeeps ==
    ASSUME TypeOK, TypeOK', SerialInv, DrainWriteBuffer
    PROVE  SerialInv'
<1>. USE DEF SerialInv
<1>1. /\ pc = "drain"
      /\ UNCHANGED <<nw, corked, corkedBuf, batches, constructed, pendCons, cur,
                     inflight, issued>>
    BY DEF DrainWriteBuffer, histVars
<1>2. /\ writing /\ constructed /\ inflight = {} /\ ~Completing /\ ~Resuming
    BY <1>1 DEF LockInv, ConstructInv, Calling
<1>3. pendCons = <<>> /\ Dispatched = Len(issued) /\ Len(issued) \in Nat
    BY <1>1, <1>2 DEF ConstructInv, Dispatched, TypeOK, QueueTypes
<1>4. CASE writeBuf # <<>>
    <2>1. /\ pc' = "doWrite" /\ arg' = Head(writeBuf) /\ writing'
          /\ writeBuf' = Tail(writeBuf) /\ UNCHANGED <<ticks, pending>>
        BY <1>4 DEF DrainWriteBuffer
    <2>2. /\ Completing' <=> Completing
          /\ Constructing' <=> Constructing
          /\ OneCompletes' <=> OneCompletes
          /\ OneConstructs' <=> OneConstructs
        BY <2>1 DEF Completing, Constructing, OneCompletes, OneConstructs
    <2>3. UncorkedInv' /\ LockInv' /\ ConstructInv'
        BY <1>1, <1>2, <2>1, <2>2
           DEF UncorkedInv, LockInv, ConstructInv, SerialWrites, Resuming
    <2>4. /\ Len(writeBuf') = Len(writeBuf) - 1 /\ Len(writeBuf) \in Nat
          /\ Len(writeBuf) > 0 /\ Head(writeBuf) = writeBuf[1]
          /\ \A i \in 1..Len(writeBuf') : writeBuf'[i] = writeBuf[i + 1]
        BY <1>4, <2>1, TailFacts DEF TypeOK, QueueTypes
    <2>5. Dispatched' = Len(issued) + 1
        BY <1>1, <2>1 DEF Dispatched
    <2>6. /\ nw = Len(issued) + Len(writeBuf) /\ Len(pendCons) = 0
          /\ \A i \in 1..Len(writeBuf) : writeBuf[i] = Len(issued) + i
        BY <1>3, <2>4 DEF QueueInv
    <2>7. arg' = Len(issued) + 1
        BY <2>1, <2>4, <2>6
    <2>8. \A i \in 1..Len(writeBuf') : writeBuf'[i] = Dispatched' + i
        BY <1>3, <2>4, <2>5, <2>6
    <2>9. nw' = Dispatched' + Len(writeBuf') + Len(pendCons')
        BY <1>1, <1>3, <2>4, <2>5, <2>6
    <2>10. QueueInv'
        BY <1>1, <1>3, <2>1, <2>6, <2>7, <2>8, <2>9 DEF QueueInv, FifoDispatch
    <2>. QED
        BY <2>3, <2>10
<1>5. CASE writeBuf = <<>>
    <2>1. /\ writing' = FALSE /\ MaybeFinish(ending, FALSE) /\ pc' = cont
          /\ UNCHANGED writeBuf
        BY <1>5 DEF DrainWriteBuffer
    <2>2. Quiet /\ ("construct" \in pending' <=> "construct" \in pending)
        BY <2>1, MaybeFinishQuiet DEF TypeOK, CallTypes
    <2>3. /\ Completing' <=> Completing
          /\ Constructing' <=> Constructing
          /\ OneCompletes' /\ OneConstructs'
        BY <2>2, QuietKeeps DEF TypeOK, CallTypes, LockInv, ConstructInv
    <2>4. ~Calling' /\ pc' # "doWrite"
        BY <2>1 DEF TypeOK, CallTypes, Calling
    <2>5. UncorkedInv' /\ LockInv' /\ ConstructInv'
        BY <1>1, <1>2, <2>1, <2>2, <2>3, <2>4
           DEF UncorkedInv, LockInv, ConstructInv, SerialWrites, Resuming
    <2>6. Dispatched' = Dispatched
        BY <1>1, <1>3, <2>4 DEF Dispatched
    <2>7. QueueInv'
        BY <1>1, <1>3, <1>5, <2>1, <2>4, <2>6 DEF QueueInv, FifoDispatch
    <2>. QED
        BY <2>5, <2>7
<1>. QED
    BY <1>4, <1>5

(* The sink calls back late: the lock passes from the write to its tick.    *)
LEMMA WriteCallbackKeeps ==
    ASSUME TypeOK, TypeOK', SerialInv, WriteCallback
    PROVE  SerialInv'
<1>. USE DEF SerialInv
<1>1. PICK w \in inflight, o \in {"async", "asyncErr"} :
          inflight' = inflight \ {w} /\ ticks' = Defer(Tick(o, w))
    BY OutcomeAssumption DEF WriteCallback, Sync, Completions
<1>2. UNCHANGED <<nw, corked, corkedBuf, batches, constructed, writing, writeBuf,
                  pendCons, issued, pc, arg, cur, pending>>
    BY DEF WriteCallback, bufVars, histVars
<1>3. writing /\ ~Completing /\ ~Resuming /\ ~Calling /\ inflight' = {}
    BY <1>1 DEF LockInv, SerialWrites
<1>4. /\ Tick(o, w).kind \in AsyncKinds /\ Tick(o, w).kind # "construct"
      /\ Tick(o, w) \in TickSet
    BY TickFacts DEF Tick, AsyncKinds, Completions, TypeOK, SinkTypes
<1>5. /\ Len(ticks') = Len(ticks) + 1 /\ Len(ticks) \in Nat
      /\ \A i \in 1..(Len(ticks) + 1) :
            ticks'[i] = IF i = Len(ticks) + 1 THEN Tick(o, w) ELSE ticks[i]
    BY <1>1, <1>4, AppendFacts DEF Defer, TypeOK, CallTypes
<1>6. OneCompletes' /\ OneConstructs'
    <2>1. OneCompletes'
        BY <1>3, <1>5 DEF OneCompletes, Completing
    <2>2. OneConstructs'
        BY <1>4, <1>5 DEF OneConstructs, ConstructInv
    <2>. QED
        BY <2>1, <2>2
<1>7. Constructing' <=> Constructing
    BY <1>4, <1>5 DEF Constructing
<1>8. UncorkedInv' /\ ConstructInv'
    BY <1>2, <1>6, <1>7 DEF UncorkedInv, ConstructInv
<1>9. LockInv'
    BY <1>2, <1>3, <1>6 DEF LockInv, SerialWrites, Calling, Resuming
<1>10. QueueInv'
    BY <1>2 DEF QueueInv, Dispatched, FifoDispatch
<1>. QED
    BY <1>8, <1>9, <1>10

(* The next nextTick callback: that of an asynchronous completion takes the *)
(* lock along.                                                              *)
LEMMA RunTickKeeps ==
    ASSUME TypeOK, TypeOK', SerialInv, Uncorked, RunTick
    PROVE  SerialInv'
<1>. USE DEF SerialInv
<1>1. /\ pc = "user" /\ cur = <<>> /\ ticks # <<>> /\ ticks \in Seq(TickSet)
      /\ UNCHANGED <<nw, corked, corkedBuf, batches, inflight, issued>>
    BY DEF RunTick, TypeOK, CallTypes
<1>2. CASE Head(ticks).kind = "construct"
    <2>1. PICK o \in ConstructOutcomes :
              IF Sync(o)
              THEN Constructed(o, Tail(ticks), pending)
              ELSE /\ pending' = pending \cup {"construct"}
                   /\ ticks' = Tail(ticks)
                   /\ UNCHANGED <<constructed, destroyed, pc, arg, cont,
                                  pendCons, writeBuf, writing>>
        BY <1>2 DEF RunTick
    <2>2. cur' = cur /\ cur' = <<>> /\ Len(cur') <= 1 /\ ~Resuming'
        BY <1>1, <1>2 DEF RunTick, Resuming
    <2>3. Head(ticks).kind = "construct" => Constructing
        BY <1>1, TailFacts DEF Constructing
    <2>4. /\ Constructing /\ ~constructed /\ "construct" \notin pending
          /\ ConstructOutcomes \subseteq {"sync", "async"}
        BY <1>2, <2>3 DEF ConstructInv, Uncorked
    <2>5. Ok(o)
        BY <2>4 DEF Ok
    <2>6. ticks' = Tail(ticks) /\ (Sync(o) => pending' = pending)
        BY <2>1, <2>5 DEF Constructed
    <2>7. /\ Completing' => Completing
          /\ ~Constructing' /\ OneCompletes' /\ OneConstructs'
        BY <1>1, <1>2, <2>6, TailKeeps DEF LockInv, ConstructInv
    <2>8. CASE Sync(o)
        BY <1>1, <2>1, <2>2, <2>4, <2>5, <2>6, <2>7, <2>8, ConstructedKeeps
    <2>9. CASE ~Sync(o)
        <3>1. /\ pending' = pending \cup {"construct"}
              /\ UNCHANGED <<constructed, pc, arg, pendCons, writeBuf, writing>>
            BY <2>1, <2>9
        <3>2. UncorkedInv' /\ ConstructInv'
            BY <1>1, <2>2, <2>4, <2>7, <3>1 DEF UncorkedInv, ConstructInv
        <3>3. LockInv'
            BY <1>1, <2>2, <2>7, <3>1 DEF LockInv, SerialWrites, Calling
        <3>4. QueueInv'
            BY <1>1, <3>1 DEF QueueInv, Dispatched, FifoDispatch
        <3>. QED
            BY <3>2, <3>3, <3>4
    <2>. QED
        BY <2>8, <2>9
<1>3. CASE Head(ticks).kind # "construct"
    <2>1. /\ ticks' = Tail(ticks) /\ cur' = RestOfTick(Head(ticks))
          /\ UNCHANGED <<constructed, pc, arg, pendCons, writeBuf, writing,
                         pending>>
        BY <1>3 DEF RunTick
    <2>2. /\ Completing' => Completing
          /\ Constructing' => Constructing
          /\ OneCompletes' /\ OneConstructs'
          /\ Head(ticks).kind \in AsyncKinds => Completing /\ ~Completing'
        BY <1>1, <2>1, TailKeeps DEF LockInv, ConstructInv
    <2>3. Len(cur') <= 1 /\ (Resuming' => Head(ticks).kind \in AsyncKinds)
        BY <2>1 DEF RestOfTick, Resuming, AsyncKinds
    <2>4. UncorkedInv' /\ ConstructInv'
        BY <1>1, <2>1, <2>2, <2>3 DEF UncorkedInv, ConstructInv
    <2>5. LockInv'
        BY <1>1, <2>1, <2>2, <2>3 DEF LockInv, SerialWrites, Calling
    <2>6. QueueInv'
        BY <1>1, <2>1 DEF QueueInv, Dispatched, FifoDispatch
    <2>. QED
        BY <2>4, <2>5, <2>6
<1>. QED
    BY <1>2, <1>3

(* The rest of such a tick hands the lock to _drainWriteBuffer.             *)
LEMMA ResumeKeeps ==
    ASSUME TypeOK, TypeOK', SerialInv, DrainCheck \/ FlushPart
    PROVE  SerialInv'
<1>. USE DEF SerialInv
<1>1. /\ pc = "user"
      /\ UNCHANGED <<nw, corked, corkedBuf, batches, constructed, writing,
                     writeBuf, pendCons, inflight, issued, arg, ticks, pending>>
    BY DEF DrainCheck, FlushPart, bufVars, sinkVars, histVars
<1>2. /\ Completing' <=> Completing
      /\ Constructing' <=> Constructing
      /\ OneCompletes' <=> OneCompletes
      /\ OneConstructs' <=> OneConstructs
    BY <1>1 DEF Completing, Constructing, OneCompletes, OneConstructs
<1>3. /\ cur # <<>> /\ cur \in Seq(Parts) /\ Len(cur) = 1
      /\ Head(cur) = cur[1] /\ Tail(cur) = <<>>
    <2>1. cur # <<>> /\ cur \in Seq(Parts)
        BY DEF DrainCheck, FlushPart, TypeOK, CallTypes
    <2>2. Len(cur) \in Nat /\ Len(cur) # 0 /\ Len(cur) <= 1
        BY <2>1, TailFacts DEF UncorkedInv
    <2>3. Len(cur) = 1
        BY <2>2
    <2>4. Head(cur) = cur[1] /\ Tail(cur) \in Seq(Parts) /\ Len(Tail(cur)) = 0
        BY <2>1, <2>3, HeadTailProperties, TailFacts
    <2>. QED
        BY <2>1, <2>3, <2>4, EmptySeq
<1>4. /\ Len(cur') <= 1
      /\ pc' = "drain" => Resuming /\ ~Resuming'
      /\ pc' # "drain" => pc' = "user"
      /\ Resuming' => Resuming
    <2>1. /\ <<>> \o Tail(cur) = <<>> /\ Len(<<>>) = 0
          /\ <<"flush">> \o Tail(cur) = <<"flush">> /\ Len(<<"flush">>) = 1
          /\ <<"flush">> # <<>> /\ <<"flush">>[1] = "flush"
        <3>1. <<"flush">> \in Seq(Parts) /\ <<>> \in Seq(Parts)
            BY DEF Parts
        <3>2. <<"flush">> \o <<>> = <<"flush">> /\ <<>> \o <<>> = <<>>
            BY <3>1, ConcatEmptySeq
        <3>3. /\ Len(<<>>) = 0 /\ Len(<<"flush">>) = 1
              /\ <<"flush">> # <<>> /\ <<"flush">>[1] = "flush"
            OBVIOUS
        <3>. QED
            BY <1>3, <3>2, <3>3
    <2>2. CASE FlushPart
        BY <1>3, <2>1, <2>2 DEF FlushPart, Resuming
    <2>3. CASE DrainCheck /\ cur' = <<>>
        BY <1>1, <1>3, <2>1, <2>3 DEF DrainCheck, Resuming
    <2>4. CASE DrainCheck /\ cur' # <<>>
        <3>1. Head(cur) = "checkFlush" /\ pc' = pc /\ cur' = <<"flush">>
            BY <1>3, <2>1, <2>4 DEF DrainCheck
        <3>. QED
            BY <1>1, <1>3, <2>1, <3>1 DEF Resuming
    <2>. QED
        BY <2>2, <2>3, <2>4
<1>5. UncorkedInv'
    BY <1>1, <1>4 DEF UncorkedInv
<1>6. LockInv'
    BY <1>1, <1>2, <1>4 DEF LockInv, SerialWrites, Calling
<1>7. ConstructInv'
    BY <1>1, <1>2, <1>4 DEF ConstructInv, LockInv
<1>8. QueueInv'
    BY <1>1, <1>4 DEF QueueInv, Dispatched, FifoDispatch
<1>. QED
    BY <1>5, <1>6, <1>7, <1>8

LEMMA SerialStep == Uncorked /\ TypeOK /\ SerialInv /\ [Next]_vars => SerialInv'
<1>. SUFFICES ASSUME Uncorked, TypeOK, SerialInv, [Next]_vars
              PROVE  SerialInv'
    OBVIOUS
<1>0. TypeOK'
    BY TypeStep
<1>. USE <1>0
<1>1. CASE Write
    <2>1. /\ nw < MaxWrites /\ ~Calling /\ Accept("user")
          /\ UNCHANGED <<corked, batches, constructed, cur, ticks, inflight,
                         issued, pending>>
        BY <1>1, BoundAssumption
           DEF Write, Room, Calling, TypeOK, EndTypes, QueueTypes, sinkVars
    <2>. QED
        BY <2>1, AcceptKeeps
<1>2. CASE WriteAfterEnd
    <2>1. Tick("late", 0) \in TickSet /\ Tick("late", 0).kind \in QuietKinds
        BY TickFacts DEF Tick, TickKinds, QuietKinds, AsyncKinds, Completions
    <2>2. Quiet
        BY <1>2, <2>1, QuietDefer DEF WriteAfterEnd, TypeOK, CallTypes
    <2>. QED
        BY <1>2, <2>2, FrameKeeps DEF WriteAfterEnd, bufVars, sinkVars, histVars
<1>3. CASE End
    <2>1. /\ pc = "user" /\ ~Calling
          /\ UNCHANGED <<corked, constructed, cur, inflight, batches, pending,
                         issued>>
        BY <1>3 DEF End, sinkVars, Calling
    <2>2. CASE ended
        <3>1. /\ ticks' = Defer(Tick("endcb", ends + 1))
              /\ UNCHANGED <<nw, corkedBuf, writeBuf, pendCons, writing, pc, arg>>
            BY <1>3, <2>2 DEF End, bufVars
        <3>2. /\ Tick("endcb", ends + 1) \in TickSet
              /\ Tick("endcb", ends + 1).kind \in QuietKinds
            <4>1. ends + 1 \in 0..MaxEnds
                BY <1>3, BoundAssumption DEF End, TypeOK, EndTypes
            <4>. QED
                BY <4>1, TickFacts
                   DEF Tick, TickKinds, QuietKinds, AsyncKinds, Completions
        <3>3. Quiet
            BY <3>1, <3>2, QuietDefer DEF TypeOK, CallTypes
        <3>. QED
            BY <2>1, <3>1, <3>3, FrameKeeps
    <2>3. CASE ~ended /\ ~constructed
        <3>1. UNCHANGED <<nw, corkedBuf, writeBuf, pendCons, writing, pc, arg,
                          ticks>>
            BY <1>3, <2>3 DEF End, bufVars
        <3>2. Quiet
            BY <3>1, QuietSame DEF TypeOK, CallTypes
        <3>. QED
            BY <2>1, <3>1, <3>2, FrameKeeps
    <2>4. CASE ~ended /\ constructed
        <3>1. PICK chunk \in BOOLEAN :
                 /\ chunk => Room
                 /\ DoEnd(chunk, ends + 1)
                 /\ UNCHANGED ticks
            BY <1>3, <2>4 DEF End
        <3>2. CASE chunk
            <4>1. Accept("endRest") /\ nw < MaxWrites
                BY <3>1, <3>2, BoundAssumption
                   DEF DoEnd, Room, TypeOK, EndTypes, QueueTypes
            <4>. QED
                BY <2>1, <2>4, <3>1, <4>1, AcceptKeeps
        <3>3. CASE ~chunk
            <4>1. /\ pc' = "endRest" /\ ~Calling'
                  /\ UNCHANGED <<nw, corkedBuf, writeBuf, pendCons, writing, arg>>
                BY <3>1, <3>3 DEF DoEnd, bufVars, Calling
            <4>2. Quiet
                BY <3>1, QuietSame DEF TypeOK, CallTypes
            <4>. QED
                BY <2>1, <2>4, <4>1, <4>2, FrameKeeps
        <3>. QED
            BY <3>2, <3>3
    <2>. QED
        BY <2>2, <2>3, <2>4
<1>4. CASE CorkCall
    BY <1>4 DEF CorkCall, Uncorked
<1>5. CASE Uncork
    BY <1>5 DEF Uncork, Uncorked
<1>6. CASE DestroyCall
    <2>1. Quiet /\ ("construct" \in pending' <=> "construct" \in pending)
        BY <1>6, QuietSame, QuietClose DEF DestroyCall, DestroyBody, TypeOK, CallTypes
    <2>. QED
        BY <1>6, <2>1, FrameKeeps DEF DestroyCall, DestroyBody, bufVars, histVars
<1>7. CASE WriteCallback
    BY <1>7, WriteCallbackKeeps
<1>8. CASE BatchCallback
    BY <1>8 DEF BatchCallback, SerialInv, UncorkedInv
<1>9. CASE FinalCallback
    <2>1. Quiet /\ ("construct" \in pending' <=> "construct" \in pending)
        BY <1>9, QuietFinish DEF FinalCallback, TypeOK, CallTypes
    <2>. QED
        BY <1>9, <2>1, FrameKeeps DEF FinalCallback, bufVars, histVars
<1>10. CASE DestroyCallback
    <2>1. Quiet /\ ("construct" \in pending' <=> "construct" \in pending)
        BY <1>10, QuietClose DEF DestroyCallback, TypeOK, CallTypes
    <2>. QED
        BY <1>10, <2>1, FrameKeeps DEF DestroyCallback, bufVars, histVars
<1>11. CASE ConstructCallback
    <2>1. PICK o \in ConstructOutcomes :
              Constructed(o, ticks, pending \ {"construct"})
        BY <1>11 DEF ConstructCallback
    <2>2. /\ "construct" \in pending
          /\ UNCHANGED <<nw, corked, corkedBuf, batches, inflight, issued, cur>>
        BY <1>11 DEF ConstructCallback, histVars
    <2>3. ~constructed /\ ~Constructing
        BY <2>2 DEF SerialInv, ConstructInv
    <2>4. Ok(o)
        BY <2>1 DEF Ok, Uncorked
    <2>5. ticks' = ticks /\ pending' = pending \ {"construct"}
        BY <2>1, <2>4 DEF Constructed
    <2>6. /\ Completing' <=> Completing
          /\ Constructing' <=> Constructing
          /\ OneCompletes' /\ OneConstructs' /\ Len(cur') <= 1
          /\ Resuming' <=> Resuming
        BY <2>2, <2>5
           DEF Completing, Constructing, OneCompletes, OneConstructs, Resuming,
               SerialInv, LockInv, ConstructInv, UncorkedInv
    <2>. QED
        BY <2>1, <2>2, <2>3, <2>4, <2>5, <2>6, ConstructedKeeps
<1>12. CASE DoWrite
    BY <1>12, DoWriteKeeps
<1>13. CASE DrainWriteBuffer
    BY <1>13, DrainKeeps
<1>14. CASE EndRest
    <2>1. MaybeFinish(TRUE, writing)
        BY <1>14, Zenon DEF EndRest
    <2>2. /\ pc = "endRest" /\ pc' = "user" /\ ticks \in Seq(TickSet)
          /\ UNCHANGED <<nw, corked, constructed, writing, bufVars, arg, cur,
                         inflight, batches, issued>>
        BY <1>14, Zenon DEF EndRest, histVars, TypeOK, CallTypes
    <2>3. Quiet /\ ("construct" \in pending' <=> "construct" \in pending)
        BY <2>1, <2>2, MaybeFinishQuiet, Zenon
    <2>4. ~Calling /\ ~Calling'
        BY <2>2 DEF Calling
    <2>. QED
        BY <2>2, <2>3, <2>4, FrameKeeps DEF bufVars
<1>15. CASE PendingEnd
    <2>1. /\ pc = "pendingEnd" /\ ~Calling /\ constructed
          /\ UNCHANGED <<corked, constructed, cur, ticks, inflight, batches,
                         pending, issued>>
        BY <1>15 DEF PendingEnd, sinkVars, SerialInv, ConstructInv, Calling
    <2>2. Quiet
        BY <2>1, QuietSame DEF TypeOK, CallTypes
    <2>3. CASE pendEnd = NoEnd
        <3>1. /\ pc' = "user" /\ ~Calling'
              /\ UNCHANGED <<nw, corkedBuf, writeBuf, pendCons, writing, arg>>
            BY <1>15, <2>3 DEF PendingEnd, bufVars, Calling
        <3>. QED
            BY <2>1, <2>2, <3>1, FrameKeeps
    <2>4. CASE pendEnd # NoEnd
        <3>1. DoEnd(pendEnd.chunk, pendEnd.id)
            BY <1>15, <2>4 DEF PendingEnd
        <3>2. CASE pendEnd.chunk
            <4>1. Accept("endRest") /\ nw < MaxWrites
                BY <3>1, <3>2 DEF DoEnd, TypeOK, EndTypes
            <4>. QED
                BY <2>1, <4>1, AcceptKeeps
        <3>3. CASE ~pendEnd.chunk
            <4>1. /\ pc' = "endRest" /\ ~Calling'
                  /\ UNCHANGED <<nw, corkedBuf, writeBuf, pendCons, writing, arg>>
                BY <3>1, <3>3 DEF DoEnd, bufVars, Calling
            <4>. QED
                BY <2>1, <2>2, <4>1, FrameKeeps
        <3>. QED
            BY <3>2, <3>3
    <2>. QED
        BY <2>3, <2>4
<1>16. CASE RunTick
    BY <1>16, RunTickKeeps
<1>17. CASE DrainCheck
    BY <1>17, ResumeKeeps
<1>18. CASE FlushPart
    BY <1>18, ResumeKeeps
<1>19. CASE ClosePart
    <2>1. Tick("close", 0) \in TickSet /\ Tick("close", 0).kind \in QuietKinds
        BY TickFacts DEF Tick, TickKinds, QuietKinds, AsyncKinds, Completions
    <2>2. Quiet
        BY <1>19, <2>1, QuietDefer DEF ClosePart, TypeOK, CallTypes
    <2>3. cur' = <<>>
        <3>1. cur # <<>> /\ cur \in Seq(Parts) /\ cur' = Tail(cur)
            BY <1>19 DEF ClosePart, TypeOK, CallTypes
        <3>2. Len(cur) \in Nat \ {0}
            BY <3>1, EmptySeq
        <3>3. Len(cur) = 1
            BY <3>2 DEF SerialInv, UncorkedInv
        <3>4. Tail(cur) \in Seq(Parts) /\ Len(Tail(cur)) = Len(cur) - 1
            BY <3>1, HeadTailProperties
        <3>. QED
            BY <3>1, <3>3, <3>4, EmptySeq
    <2>. QED
        BY <1>19, <2>2, <2>3, FrameKeeps DEF ClosePart, bufVars, sinkVars
<1>20. CASE UNCHANGED vars
    <2>1. Quiet
        BY <1>20, QuietSame DEF vars, callVars, TypeOK, CallTypes
    <2>. QED
        BY <1>20, <2>1, FrameKeeps
           DEF vars, bufVars, callVars, sinkVars, histVars
<1>. QED
    BY <1>1, <1>2, <1>3, <1>4, <1>5, <1>6, <1>7, <1>8, <1>9, <1>10, <1>11,
       <1>12, <1>13, <1>14, <1>15, <1>16, <1>17, <1>18, <1>19, <1>20
       DEF Next, UserStep, SinkStep, CallStep, TickStep

(* A stream that is never corked, and whose _construct does not fail, has   *)
(* at most one _write running, whatever the sink answers.                   *)
THEOREM Serial == ASSUME Uncorked PROVE Spec => []SerialWrites
<1>1. SerialInv => SerialWrites
    BY DEF SerialInv, LockInv
<1>. QED
    BY <1>1, Uncorked, TypeInit, TypeStep, SerialInit, SerialStep, PTL DEF Spec

(* Such a stream gives the sink its writes in the order of the calls of     *)
(* write() and end(), each of them once.                                    *)
THEOREM Fifo == ASSUME Uncorked PROVE Spec => []FifoDispatch
<1>1. SerialInv => FifoDispatch
    BY DEF SerialInv, QueueInv
<1>. QED
    BY <1>1, Uncorked, TypeInit, TypeStep, SerialInit, SerialStep, PTL DEF Spec

-----------------------------------------------------------------------------
(* The callback of a write runs in the tick of its completion.  The writes  *)
(* whose callback has not run are, in order, those with such a tick, and    *)
(* then the one at the sink.                                                *)
Ends(i) == ticks[i].kind \in Completions
CalledUpTo(n) ==
    /\ called = 1..n
    /\ \A i \in 1..Len(ticks) : Ends(i) => ticks[i].w \in (n + 1)..Len(issued)
    /\ \A w \in inflight : w > n
    /\ \A w \in (n + 1)..Len(issued) :
          w \in inflight \/ \E i \in 1..Len(ticks) : Ends(i) /\ ticks[i].w = w
CompletionOrder ==
    /\ \A i, j \in 1..Len(ticks) :
          Ends(i) /\ Ends(j) /\ i < j => ticks[i].w < ticks[j].w
    /\ \A w \in inflight :
          /\ w = Len(issued)
          /\ \A i \in 1..Len(ticks) : Ends(i) => ticks[i].w # w
CallbackInv == CompletionOrder /\ \E n \in 0..Len(issued) : CalledUpTo(n)

(* From when the stream is asked to finish, all it accepted was given to    *)
(* the sink and nothing holds the lock; the tick of 'finish' comes after    *)
(* those of the writes.                                                     *)
FinishKinds == {"finish", "finishErr"}
EndedInv ==
    /\ ended => constructed /\ pc \notin {"pendingEnd", "endRest"}
    /\ Calling /\ ended => cont = "user"
    /\ ending => ended
FinishInv ==
    /\ finished \/ "final" \in pending => ended /\ ~writing
    /\ \A i \in 1..Len(ticks) : ticks[i].kind \in FinishKinds => finished
    /\ \A i, j \in 1..Len(ticks) :
          ticks[i].kind \in FinishKinds /\ Ends(j) => j < i
    /\ "finish" \in events => finished /\ \A i \in 1..Len(ticks) : ~Ends(i)

OrderInv == CallbackInv /\ EndedInv /\ FinishInv

LEMMA OrderInit == Init => OrderInv
<1>. SUFFICES ASSUME Init PROVE OrderInv
    OBVIOUS
<1>1. \A i \in 1..Len(ticks) : ticks[i].kind = "construct"
    BY DEF Init, Tick
<1>2. \A i \in 1..Len(ticks) : ~Ends(i) /\ ticks[i].kind \notin FinishKinds
    BY <1>1 DEF Ends, Completions, FinishKinds
<1>3. CalledUpTo(0) /\ Len(issued) = 0
    BY <1>2 DEF Init, CalledUpTo
<1>4. CallbackInv
    BY <1>2, <1>3 DEF Init, CallbackInv, CompletionOrder
<1>5. EndedInv /\ FinishInv
    BY <1>2 DEF Init, EndedInv, FinishInv, Calling
<1>. QED
    BY <1>4, <1>5 DEF OrderInv

(* Steps that put only ticks behind the others whose kind is not in K.      *)
Extended(K) ==
    /\ Len(ticks') >= Len(ticks)
    /\ \A i \in 1..Len(ticks) : ticks'[i] = ticks[i]
    /\ \A i \in (Len(ticks) + 1)..Len(ticks') : ticks'[i].kind \notin K

LEMMA ExtendedSame ==
    ASSUME ticks \in Seq(TickSet), ticks' = ticks, NEW K
    PROVE  Extended(K)
BY DEF Extended

LEMMA ExtendedDefer ==
    ASSUME ticks \in Seq(TickSet), NEW t \in TickSet, NEW K, t.kind \notin K,
           ticks' = Defer(t)
    PROVE  Extended(K)
BY AppendFacts DEF Extended, Defer

LEMMA ExtendedClose ==
    ASSUME ticks \in Seq(TickSet),
           ticks' \in {ticks \o CloseTicks, ticks \o ErrorTicks}
    PROVE  Extended(Completions \cup FinishKinds)
<1>1. /\ Tick("error", 0) \in TickSet /\ Tick("close", 0) \in TickSet
      /\ Tick("error", 0).kind \notin Completions \cup FinishKinds
      /\ Tick("close", 0).kind \notin Completions \cup FinishKinds
    BY TickFacts DEF TickKinds, Completions, FinishKinds, Tick
<1>2. CASE ticks' = ticks \o CloseTicks
    BY <1>1, <1>2 DEF Extended, CloseTicks
<1>3. CASE ticks' = ticks \o ErrorTicks
    BY <1>1, <1>3 DEF Extended, ErrorTicks
<1>. QED
    BY <1>2, <1>3

(* They leave the callbacks that are due as they are.                       *)
LEMMA CallbackFrame ==
    ASSUME ticks \in Seq(TickSet), ticks' \in Seq(TickSet), CallbackInv,
           Extended(Completions), UNCHANGED <<issued, inflight, called>>
    PROVE  CallbackInv'
<1>1. \A i \in 1..Len(ticks') :
         Ends(i)' <=> i \in 1..Len(ticks) /\ Ends(i)
    BY DEF Extended, Ends
<1>2. \A i \in 1..Len(ticks) : i \in 1..Len(ticks') /\ ticks'[i] = ticks[i]
    BY DEF Extended
<1>3. CompletionOrder'
    BY <1>1, <1>2 DEF CallbackInv, CompletionOrder
<1>4. PICK n \in 0..Len(issued) : CalledUpTo(n)
    BY DEF CallbackInv
<1>5. CalledUpTo(n)'
    BY <1>1, <1>2, <1>4 DEF CalledUpTo
<1>. QED
    BY <1>3, <1>4, <1>5 DEF CallbackInv

LEMMA FinishFrame ==
    ASSUME ticks \in Seq(TickSet), ticks' \in Seq(TickSet), FinishInv,
           Extended(Completions \cup FinishKinds), finished' = finished,
           "final" \in pending' <=> "final" \in pending,
           ended => ended' /\ writing' = writing,
           "finish" \in events' => "finish" \in events
    PROVE  FinishInv'
<1>1. \A i \in 1..Len(ticks') :
         ticks'[i].kind \in Completions \cup FinishKinds =>
             i \in 1..Len(ticks) /\ ticks'[i] = ticks[i]
    BY DEF Extended
<1>2. \A i \in 1..Len(ticks') :
         /\ Ends(i)' => i \in 1..Len(ticks) /\ Ends(i)
         /\ ticks'[i].kind \in FinishKinds =>
               i \in 1..Len(ticks) /\ ticks[i].kind \in FinishKinds
    BY <1>1 DEF Ends
<1>. QED
    BY <1>2 DEF FinishInv

(* Where the stream is asked to finish.                                     *)
LEMMA FinishDeferred ==
    ASSUME ticks \in Seq(TickSet), FinishInv, NEW o,
           ticks' = Defer(FinishTick(o)), finished', ended', ~writing',
           events' = events
    PROVE  FinishInv' /\ Extended(Completions)
<1>1. /\ FinishTick(o) \in TickSet /\ FinishTick(o).kind \in FinishKinds
      /\ FinishTick(o).kind \notin Completions
    BY TickFacts DEF FinishTick, TickKinds, Completions, FinishKinds, Tick
<1>2. /\ Len(ticks') = Len(ticks) + 1 /\ Len(ticks) \in Nat
      /\ \A i \in 1..(Len(ticks) + 1) :
            ticks'[i] = IF i = Len(ticks) + 1 THEN FinishTick(o) ELSE ticks[i]
    BY <1>1, AppendFacts DEF Defer
<1>3. \A i \in 1..Len(ticks') : Ends(i)' => i \in 1..Len(ticks) /\ Ends(i)
    BY <1>1, <1>2 DEF Ends
<1>4. \A i \in 1..Len(ticks') :
         ticks'[i].kind \in FinishKinds =>
             \/ i = Len(ticks) + 1
             \/ i \in 1..Len(ticks) /\ ticks[i].kind \in FinishKinds
    BY <1>2
<1>5. FinishInv'
    BY <1>2, <1>3, <1>4 DEF FinishInv
<1>6. Extended(Completions)
    BY <1>1, <1>2 DEF Extended
<1>. QED
    BY <1>5, <1>6

LEMMA MaybeFinishKeeps ==
    ASSUME TypeOK, FinishInv, NEW end, NEW busy, MaybeFinish(end, busy),
           end => ended', ended => ended', end /\ ~busy => ~writing',
           writing' => writing, events' = events
    PROVE  FinishInv' /\ Extended(Completions)
<1>1. ticks \in Seq(TickSet)
    BY DEF TypeOK, CallTypes
<1>2. CASE CanFinish(end, busy)
    <2>1. ended' /\ ~writing'
        BY <1>2 DEF CanFinish
    <2>2. PICK o \in Outcomes :
              IF Sync(o)
              THEN finished' = TRUE /\ ticks' = Defer(FinishTick(o))
              ELSE /\ pending' = pending \cup {"final"}
                   /\ UNCHANGED <<finished, ticks>>
        BY <1>2 DEF MaybeFinish
    <2>3. CASE Sync(o)
        BY <1>1, <2>1, <2>2, <2>3, FinishDeferred
    <2>4. CASE ~Sync(o)
        <3>1. finished' = finished /\ ticks' = ticks
            BY <2>2, <2>4
        <3>. QED
            BY <1>1, <2>1, <3>1, ExtendedSame DEF FinishInv, Ends
    <2>. QED
        BY <2>3, <2>4
<1>3. CASE ~CanFinish(end, busy)
    <2>1. UNCHANGED <<finished, ticks, pending>>
        BY <1>3 DEF MaybeFinish
    <2>. QED
        BY <1>1, <2>1, ExtendedSame DEF FinishInv, Ends
<1>. QED
    BY <1>2, <1>3

(* The sink takes a write, and may be done with it within the call.         *)
LEMMA DoWriteOrder ==
    ASSUME TypeOK, TypeOK', SerialInv, OrderInv, DoWrite
    PROVE  CallbackInv' /\ FinishInv'
<1>1. PICK o \in Outcomes :
          IF Sync(o)
          THEN ticks' = Defer(Tick(o, arg)) /\ UNCHANGED inflight
          ELSE inflight' = inflight \cup {arg} /\ UNCHANGED ticks
    BY DEF DoWrite
<1>2. /\ pc = "doWrite" /\ issued' = Append(issued, arg)
      /\ UNCHANGED <<finished, ended, writing, pending, events, called>>
    <2>1. pc = "doWrite" /\ issued' = Append(issued, arg)
        BY DEF DoWrite
    <2>2. UNCHANGED <<finished, ended, writing, events, called>>
        BY DEF DoWrite, endVars
    <2>3. UNCHANGED pending
        BY DEF DoWrite
    <2>. QED
        BY <2>1, <2>2, <2>3
<1>3. /\ writing /\ inflight = {} /\ arg = Len(issued) + 1 /\ arg \in Writes
    BY <1>2 DEF SerialInv, LockInv, QueueInv, Calling, TypeOK, CallTypes
<1>4. /\ ~finished /\ "final" \notin pending /\ "finish" \notin events
      /\ \A i \in 1..Len(ticks) : ticks[i].kind \notin FinishKinds
    BY <1>3 DEF OrderInv, FinishInv
<1>5. Len(issued) \in Nat /\ Len(issued') = Len(issued) + 1
      /\ ticks \in Seq(TickSet)
    BY <1>2, <1>3, AppendFacts DEF TypeOK, QueueTypes, CallTypes
<1>6. PICK n \in 0..Len(issued) : CalledUpTo(n)
    BY DEF OrderInv, CallbackInv
<1>7. CASE Sync(o)
    <2>1. /\ Tick(o, arg) \in TickSet /\ Tick(o, arg).kind \in Completions
          /\ Tick(o, arg).w = arg /\ Tick(o, arg).kind \notin FinishKinds
          /\ Tick(o, arg).kind # "finish"
        BY <1>3, <1>7, TickFacts DEF Sync, Completions, FinishKinds, Tick
    <2>2. /\ Len(ticks') = Len(ticks) + 1 /\ Len(ticks) \in Nat
          /\ \A i \in 1..(Len(ticks) + 1) :
                ticks'[i] = IF i = Len(ticks) + 1 THEN Tick(o, arg) ELSE ticks[i]
        BY <1>1, <1>5, <1>7, <2>1, AppendFacts DEF Defer
    <2>3. inflight' = {}
        BY <1>1, <1>3, <1>7
    <2>4. /\ \A i \in 1..Len(ticks) :
                i \in 1..Len(ticks') /\ ticks'[i] = ticks[i] /\ i # Len(ticks) + 1
          /\ Len(ticks) + 1 \in 1..Len(ticks')
          /\ \A i \in 1..Len(ticks') :
                \/ i = Len(ticks) + 1
                \/ i \in 1..Len(ticks) /\ i < Len(ticks) + 1
        BY <2>2
    <2>5. \A i \in 1..Len(ticks) : Ends(i) => ticks[i].w \in (n + 1)..Len(issued)
        BY <1>6 DEF CalledUpTo
    <2>6. \A i \in 1..Len(ticks) : Ends(i)' <=> Ends(i)
        BY <2>4 DEF Ends
    <2>7. CompletionOrder'
        BY SMTT(60), <1>3, <1>5, <2>1, <2>2, <2>3, <2>4, <2>5, <2>6
           DEF OrderInv, CallbackInv, CompletionOrder
    <2>8. CalledUpTo(n)'
        <3>1. called' = 1..n /\ \A w \in inflight' : w > n
            BY <1>2, <1>3, <1>6, <2>3 DEF CalledUpTo
        <3>2. \A i \in 1..Len(ticks') :
                  Ends(i)' => ticks'[i].w \in (n + 1)..Len(issued')
            BY <1>3, <1>5, <1>6, <2>1, <2>2, <2>4, <2>5, <2>6
        <3>3. ASSUME NEW w \in (n + 1)..Len(issued')
              PROVE  \E i \in 1..Len(ticks') : Ends(i)' /\ ticks'[i].w = w
            <4>1. CASE w = Len(issued) + 1
                BY <1>3, <2>1, <2>2, <2>4, <4>1 DEF Ends
            <4>2. CASE w # Len(issued) + 1
                <5>1. w \in (n + 1)..Len(issued)
                    BY <1>5, <4>2
                <5>2. PICK i \in 1..Len(ticks) : Ends(i) /\ ticks[i].w = w
                    BY <1>3, <1>6, <5>1 DEF CalledUpTo
                <5>. QED
                    BY <2>4, <2>6, <5>2
            <4>. QED
                BY <4>1, <4>2
        <3>. QED
            BY <3>1, <3>2, <3>3 DEF CalledUpTo
    <2>9. CallbackInv'
        BY <1>5, <1>6, <2>7, <2>8 DEF CallbackInv
    <2>10. FinishInv'
        BY <1>2, <1>4, <2>1, <2>2, <2>4 DEF FinishInv
    <2>. QED
        BY <2>9, <2>10
<1>8. CASE ~Sync(o)
    <2>1. inflight' = {arg} /\ ticks' = ticks
        BY <1>1, <1>3, <1>8
    <2>2. \A i \in 1..Len(ticks) : Ends(i)' <=> Ends(i)
        BY <2>1 DEF Ends
    <2>3. CalledUpTo(n)'
        <3>1. called' = 1..n /\ \A w \in inflight' : w > n
            BY <1>2, <1>3, <1>5, <1>6, <2>1 DEF CalledUpTo
        <3>2. \A i \in 1..Len(ticks') :
                  Ends(i)' => ticks'[i].w \in (n + 1)..Len(issued')
            BY <1>3, <1>5, <1>6, <2>1, <2>2 DEF CalledUpTo
        <3>3. ASSUME NEW w \in (n + 1)..Len(issued'), w \notin inflight'
              PROVE  \E i \in 1..Len(ticks') : Ends(i)' /\ ticks'[i].w = w
            <4>1. w \in (n + 1)..Len(issued)
                BY <1>3, <1>5, <2>1, <3>3
            <4>2. PICK i \in 1..Len(ticks) : Ends(i) /\ ticks[i].w = w
                BY <1>3, <1>6, <4>1 DEF CalledUpTo
            <4>. QED
                BY <2>1, <2>2, <4>2
        <3>. QED
            BY <3>1, <3>2, <3>3 DEF CalledUpTo
    <2>4. CompletionOrder'
        <3>1. CompletionOrder
            BY DEF OrderInv, CallbackInv
        <3>2. \A i, j \in 1..Len(ticks') :
                  Ends(i)' /\ Ends(j)' /\ i < j => ticks'[i].w < ticks'[j].w
            BY <2>1, <2>2, <3>1 DEF CompletionOrder
        <3>3. \A i \in 1..Len(ticks) : Ends(i) => ticks[i].w \in (n + 1)..Len(issued)
            BY <1>6 DEF CalledUpTo
        <3>4. \A k \in (n + 1)..Len(issued) : k # arg
            BY <1>3, <1>5
        <3>5. \A w \in inflight' : w = Len(issued')
            BY <1>3, <1>5, <2>1
        <3>6. \A i \in 1..Len(ticks') : Ends(i)' => ticks'[i].w # arg
            BY <2>1, <2>2, <3>3, <3>4
        <3>. QED
            BY <2>1, <3>2, <3>5, <3>6 DEF CompletionOrder
    <2>5. CallbackInv'
        BY <1>5, <1>6, <2>3, <2>4 DEF CallbackInv
    <2>6. FinishInv'
        BY <1>2, <1>4, <2>1 DEF FinishInv
    <2>. QED
        BY <2>5, <2>6
<1>. QED
    BY <1>7, <1>8

(* The sink calls back for the one write it has, the last one it was given. *)
LEMMA WriteCallbackOrder ==
    ASSUME TypeOK, SerialInv, OrderInv, WriteCallback
    PROVE  CallbackInv' /\ FinishInv'
<1>1. PICK w \in inflight, o \in {"async", "asyncErr"} :
          inflight' = inflight \ {w} /\ ticks' = Defer(Tick(o, w))
    BY OutcomeAssumption DEF WriteCallback, Sync, Completions
<1>2. UNCHANGED <<issued, called, finished, ended, writing, pending, events>>
    <2>1. UNCHANGED <<issued, called, events>>
        BY DEF WriteCallback, histVars
    <2>2. UNCHANGED <<finished, ended>>
        BY DEF WriteCallback, endVars
    <2>3. UNCHANGED <<writing, pending>>
        BY DEF WriteCallback
    <2>. QED
        BY <2>1, <2>2, <2>3
<1>3. inflight' = {} /\ writing /\ w \in Writes /\ w = Len(issued)
    BY <1>1 DEF SerialInv, LockInv, SerialWrites, TypeOK, SinkTypes, OrderInv,
                CallbackInv, CompletionOrder
<1>4. /\ ~finished /\ "final" \notin pending /\ "finish" \notin events
      /\ \A i \in 1..Len(ticks) : ticks[i].kind \notin FinishKinds
    BY <1>3 DEF OrderInv, FinishInv
<1>5. /\ Tick(o, w) \in TickSet /\ Tick(o, w).kind \in Completions
      /\ Tick(o, w).w = w /\ Tick(o, w).kind \notin FinishKinds
    BY <1>3, TickFacts DEF Completions, FinishKinds, Tick
<1>6. /\ Len(ticks') = Len(ticks) + 1 /\ Len(ticks) \in Nat
      /\ \A i \in 1..(Len(ticks) + 1) :
            ticks'[i] = IF i = Len(ticks) + 1 THEN Tick(o, w) ELSE ticks[i]
    BY <1>1, <1>5, AppendFacts DEF Defer, TypeOK, CallTypes
<1>7. /\ \A i \in 1..Len(ticks) : /\ i \in 1..Len(ticks')
                                  /\ ticks'[i] = ticks[i]
                                  /\ Ends(i)' <=> Ends(i)
      /\ Len(ticks) + 1 \in 1..Len(ticks')
      /\ ticks'[Len(ticks) + 1] = Tick(o, w)
      /\ \A i \in 1..Len(ticks') :
            \/ i = Len(ticks) + 1
            \/ i \in 1..Len(ticks) /\ i < Len(ticks) + 1
    BY <1>5, <1>6 DEF Ends
<1>8. PICK n \in 0..Len(issued) : CalledUpTo(n)
    BY DEF OrderInv, CallbackInv
<1>9. w > n /\ Len(issued) \in Nat
      /\ \A i \in 1..Len(ticks) : Ends(i) => ticks[i].w \in (n + 1)..Len(issued)
    BY <1>8 DEF CalledUpTo, TypeOK, QueueTypes
<1>10. \A i \in 1..Len(ticks) : Ends(i) => ticks[i].w < w
    BY <1>3, <1>9 DEF OrderInv, CallbackInv, CompletionOrder
<1>11. CompletionOrder'
    BY <1>3, <1>5, <1>6, <1>7, <1>10 DEF OrderInv, CallbackInv, CompletionOrder
<1>12. CalledUpTo(n)'
    <2>1. called' = 1..n /\ \A v \in inflight' : v > n
        BY <1>2, <1>3, <1>8 DEF CalledUpTo
    <2>2. \A i \in 1..Len(ticks') :
              Ends(i)' => ticks'[i].w \in (n + 1)..Len(issued')
        BY <1>2, <1>3, <1>5, <1>7, <1>9
    <2>3. ASSUME NEW v \in (n + 1)..Len(issued')
          PROVE  \E i \in 1..Len(ticks') : Ends(i)' /\ ticks'[i].w = v
        <3>1. CASE v = w
            BY <1>5, <1>7, <3>1 DEF Ends
        <3>2. CASE v # w
            <4>1. v \notin inflight
                BY <1>1, <1>3, <3>2
            <4>2. PICK i \in 1..Len(ticks) : Ends(i) /\ ticks[i].w = v
                BY <1>2, <1>8, <4>1 DEF CalledUpTo
            <4>. QED
                BY <1>7, <4>2
        <3>. QED
            BY <3>1, <3>2
    <2>. QED
        BY <2>1, <2>2, <2>3 DEF CalledUpTo
<1>13. CallbackInv'
    BY <1>2, <1>8, <1>11, <1>12 DEF CallbackInv
<1>14. FinishInv'
    BY <1>2, <1>4, <1>5, <1>7 DEF FinishInv
<1>. QED
    BY <1>13, <1>14

(* The next tick: if it ends a write, that is the first one whose callback  *)
(* has not run.                                                             *)
LEMMA TailOrder ==
    ASSUME TypeOK, CallbackInv, ticks # <<>>, ticks' = Tail(ticks),
           UNCHANGED <<issued, inflight>>,
           called' = IF Ends(1) THEN called \cup {ticks[1].w} ELSE called
    PROVE  CallbackInv'
<1>1. /\ Len(ticks') = Len(ticks) - 1 /\ Len(ticks) \in Nat \ {0}
      /\ \A i \in 1..Len(ticks') : /\ i + 1 \in 1..Len(ticks) /\ i + 1 > 1
                                   /\ ticks'[i] = ticks[i + 1]
      /\ 1 \in 1..Len(ticks)
    BY TailFacts DEF TypeOK, CallTypes
<1>2. \A i \in 1..Len(ticks') : Ends(i)' <=> Ends(i + 1)
    BY <1>1 DEF Ends
<1>3. CompletionOrder'
    BY <1>1, <1>2 DEF CallbackInv, CompletionOrder
<1>4. PICK n \in 0..Len(issued) : CalledUpTo(n)
    BY DEF CallbackInv
<1>5. ASSUME NEW i \in 1..Len(ticks), i # 1
      PROVE  /\ i - 1 \in 1..Len(ticks') /\ ticks'[i - 1] = ticks[i]
             /\ Ends(i - 1)' <=> Ends(i)
    BY <1>1, <1>5 DEF Ends
<1>6. Len(issued) \in Nat /\ Len(issued') = Len(issued)
    BY DEF TypeOK, QueueTypes
<1>7. CASE ~Ends(1)
    <2>1. called' = 1..n /\ \A w \in inflight' : w > n
        BY <1>4, <1>7 DEF CalledUpTo
    <2>2. \A i \in 1..Len(ticks') :
              Ends(i)' => ticks'[i].w \in (n + 1)..Len(issued')
        BY <1>1, <1>2, <1>4, <1>6 DEF CalledUpTo
    <2>3. ASSUME NEW w \in (n + 1)..Len(issued'), w \notin inflight'
          PROVE  \E i \in 1..Len(ticks') : Ends(i)' /\ ticks'[i].w = w
        <3>1. PICK i \in 1..Len(ticks) : Ends(i) /\ ticks[i].w = w
            BY <1>4, <1>6, <2>3 DEF CalledUpTo
        <3>. QED
            BY <1>5, <1>7, <3>1
    <2>. QED
        BY <1>3, <1>4, <1>6, <2>1, <2>2, <2>3 DEF CallbackInv, CalledUpTo
<1>8. CASE Ends(1)
    <2>1. ticks[1].w \in (n + 1)..Len(issued)
        BY <1>1, <1>4, <1>8 DEF CalledUpTo
    <2>2. n + 1 \in (n + 1)..Len(issued) /\ n + 1 \in 0..Len(issued)
        BY <1>4, <1>6, <2>1
    <2>3. ticks[1].w = n + 1
        <3>1. CASE n + 1 \in inflight
            <4>1. n + 1 = Len(issued) /\ ticks[1].w # n + 1
                BY <1>1, <1>8, <3>1 DEF CallbackInv, CompletionOrder
            <4>. QED
                BY <1>4, <1>6, <2>1, <4>1
        <3>2. CASE n + 1 \notin inflight
            <4>1. PICK i \in 1..Len(ticks) : Ends(i) /\ ticks[i].w = n + 1
                BY <1>4, <2>2, <3>2 DEF CalledUpTo
            <4>2. i = 1 \/ ticks[1].w < ticks[i].w
                BY <1>1, <1>8, <4>1 DEF CallbackInv, CompletionOrder
            <4>. QED
                BY <1>4, <2>1, <4>1, <4>2
        <3>. QED
            BY <3>1, <3>2
    <2>4. called' = 1..(n + 1)
        BY <1>4, <1>8, <2>3 DEF CalledUpTo
    <2>5. \A w \in inflight' : w > n + 1
        <3>. SUFFICES ASSUME NEW w \in inflight PROVE w > n + 1
            OBVIOUS
        <3>1. w > n /\ w # n + 1 /\ w \in Nat
            BY <1>1, <1>4, <1>6, <1>8, <2>3
               DEF CalledUpTo, CallbackInv, CompletionOrder
        <3>. QED
            BY <3>1
    <2>6. \A i \in 1..Len(ticks') :
              Ends(i)' => ticks'[i].w \in (n + 1 + 1)..Len(issued')
        <3>. SUFFICES ASSUME NEW i \in 1..Len(ticks'), Ends(i)'
                      PROVE  ticks'[i].w \in (n + 1 + 1)..Len(issued')
            OBVIOUS
        <3>1. /\ i + 1 \in 1..Len(ticks) /\ 1 < i + 1 /\ Ends(i + 1)
              /\ ticks'[i] = ticks[i + 1]
            BY <1>1, <1>2
        <3>2. /\ ticks[i + 1].w \in (n + 1)..Len(issued)
              /\ ticks[1].w < ticks[i + 1].w
            BY <1>1, <1>4, <1>8, <3>1 DEF CalledUpTo, CallbackInv, CompletionOrder
        <3>. QED
            BY <1>6, <2>3, <3>1, <3>2
    <2>7. ASSUME NEW w \in (n + 1 + 1)..Len(issued'), w \notin inflight'
          PROVE  \E i \in 1..Len(ticks') : Ends(i)' /\ ticks'[i].w = w
        <3>1. w \in (n + 1)..Len(issued) /\ w # n + 1
            BY <1>6
        <3>2. PICK i \in 1..Len(ticks) : Ends(i) /\ ticks[i].w = w
            BY <1>4, <2>7, <3>1 DEF CalledUpTo
        <3>. QED
            BY <1>5, <2>3, <3>1, <3>2
    <2>8. CalledUpTo(n + 1)'
        BY <2>4, <2>5, <2>6, <2>7 DEF CalledUpTo
    <2>. QED
        BY <1>3, <1>6, <2>2, <2>8 DEF CallbackInv
<1>. QED
    BY <1>7, <1>8

LEMMA TailFinish ==
    ASSUME TypeOK, FinishInv, ticks # <<>>, ticks' = Tail(ticks),
           finished' = finished, "final" \in pending' <=> "final" \in pending,
           ended' = ended, ended => writing' = writing,
           "finish" \in events' =>
               "finish" \in events \/ ticks[1].kind \in FinishKinds
    PROVE  FinishInv'
<1>1. /\ \A i \in 1..Len(ticks') : /\ i + 1 \in 1..Len(ticks)
                                   /\ ticks'[i] = ticks[i + 1]
      /\ 1 \in 1..Len(ticks) /\ Len(ticks) \in Nat /\ Len(ticks') \in Nat
    BY TailFacts DEF TypeOK, CallTypes
<1>2. \A i \in 1..Len(ticks') : Ends(i)' <=> Ends(i + 1)
    BY <1>1 DEF Ends
<1>3. /\ finished' \/ "final" \in pending' => ended' /\ ~writing'
      /\ \A i \in 1..Len(ticks') : ticks'[i].kind \in FinishKinds => finished'
    BY <1>1 DEF FinishInv
<1>4. \A i, j \in 1..Len(ticks') :
          ticks'[i].kind \in FinishKinds /\ Ends(j)' => j < i
    BY <1>1, <1>2 DEF FinishInv
<1>5. ASSUME "finish" \in events'
      PROVE  finished' /\ \A i \in 1..Len(ticks') : ~Ends(i)'
    <2>1. CASE "finish" \in events
        BY <1>1, <1>2, <2>1 DEF FinishInv
    <2>2. CASE ticks[1].kind \in FinishKinds
        <3>1. finished /\ \A j \in 1..Len(ticks) : Ends(j) => j < 1
            BY <1>1, <2>2 DEF FinishInv
        <3>. QED
            BY <1>1, <1>2, <3>1
    <2>. QED
        BY <1>5, <2>1, <2>2
<1>. QED
    BY <1>3, <1>4, <1>5 DEF FinishInv

LEMMA RunTickOrder ==
    ASSUME TypeOK, SerialInv, OrderInv, Uncorked, RunTick
    PROVE  CallbackInv' /\ FinishInv'
<1>1. /\ ticks # <<>> /\ Head(ticks) = ticks[1] /\ 1 \in 1..Len(ticks)
      /\ UNCHANGED <<issued, inflight>>
    BY TailFacts DEF RunTick, TypeOK, CallTypes
<1>2. UNCHANGED <<finished, ended>>
    BY DEF RunTick, endVars
<1>3. CASE Head(ticks).kind = "construct"
    <2>1. PICK o \in ConstructOutcomes :
              IF Sync(o)
              THEN Constructed(o, Tail(ticks), pending)
              ELSE /\ pending' = pending \cup {"construct"}
                   /\ ticks' = Tail(ticks)
                   /\ UNCHANGED writing
        BY <1>3 DEF RunTick
    <2>2. Ok(o)
        BY <2>1 DEF Ok, Uncorked
    <2>3. ticks' = Tail(ticks) /\ ("final" \in pending' <=> "final" \in pending)
        BY <2>1, <2>2 DEF Constructed
    <2>4. called' = called /\ events' = events /\ ~Ends(1)
        BY <1>1, <1>3 DEF RunTick, Ends, Completions
    <2>5. ~constructed /\ ~ended
        <3>1. Constructing
            BY <1>1, <1>3 DEF Constructing
        <3>. QED
            BY <3>1 DEF SerialInv, ConstructInv, OrderInv, EndedInv
    <2>. QED
        BY <1>1, <1>2, <2>3, <2>4, <2>5, TailOrder, TailFinish DEF OrderInv
<1>4. CASE Head(ticks).kind # "construct"
    <2>1. /\ ticks' = Tail(ticks) /\ UNCHANGED <<writing, pending>>
          /\ called' = IF ticks[1].kind \in Completions
                       THEN called \cup {ticks[1].w} ELSE called
          /\ events' = events \cup EventsOf(ticks[1])
        BY <1>1, <1>4 DEF RunTick
    <2>2. "finish" \in EventsOf(ticks[1]) => ticks[1].kind \in FinishKinds
        BY DEF EventsOf, FinishKinds
    <2>3. CallbackInv'
        BY <1>1, <2>1, TailOrder DEF OrderInv, Ends
    <2>4. FinishInv'
        BY <1>1, <1>2, <2>1, <2>2, TailFinish DEF OrderInv
    <2>. QED
        BY <2>3, <2>4
<1>. QED
    BY <1>3, <1>4

(* end() ends the stream when _doEnd gets past the write of its chunk, and  *)
(* no call of the constructing stream is under way then.                    *)
LEMMA EndedFrame ==
    ASSUME EndedInv, ended' = ended, ending' => ending,
           ended => constructed' /\ pc' \in {pc, "user"} /\ cont' = cont
    PROVE  EndedInv'
BY DEF EndedInv, Calling

LEMMA CallEnded ==
    ASSUME TypeOK, SerialInv, OrderInv, DoWrite \/ DrainWriteBuffer \/ EndRest
    PROVE  EndedInv'
<1>1. CASE DoWrite
    <2>1. /\ pc = "doWrite" /\ pc' \in {"drain", cont}
          /\ UNCHANGED <<constructed, ended, ending, cont>>
        BY <1>1 DEF DoWrite, endVars
    <2>. QED
        BY <2>1 DEF OrderInv, EndedInv, Calling
<1>2. CASE DrainWriteBuffer
    <2>1. /\ pc = "drain" /\ pc' \in {"doWrite", cont}
          /\ UNCHANGED <<constructed, ended, cont>>
        BY <1>2 DEF DrainWriteBuffer
    <2>2. ending' => ending
        <3>1. ending' = ending \/ MaybeFinish(ending, FALSE)
            BY <1>2 DEF DrainWriteBuffer
        <3>. QED
            BY <3>1 DEF MaybeFinish
    <2>. QED
        BY <2>1, <2>2 DEF OrderInv, EndedInv, Calling
<1>3. CASE EndRest
    <2>1. /\ pc = "endRest" /\ pc' = "user" /\ ended' = TRUE
          /\ UNCHANGED constructed
        BY <1>3 DEF EndRest
    <2>2. constructed
        BY <2>1 DEF SerialInv, ConstructInv
    <2>. QED
        BY <2>1, <2>2 DEF EndedInv, Calling
<1>. QED
    BY <1>1, <1>2, <1>3

LEMMA TickEnded ==
    ASSUME TypeOK, SerialInv, OrderInv, TickStep
    PROVE  EndedInv'
<1>1. CASE RunTick
    <2>1. UNCHANGED <<ended, ending>>
        BY <1>1 DEF RunTick, endVars
    <2>2. CASE Head(ticks).kind = "construct"
        <3>1. Constructing
            BY <1>1, <2>2, TailFacts DEF RunTick, Constructing, TypeOK, CallTypes
        <3>2. ~ended
            BY <3>1 DEF SerialInv, ConstructInv, OrderInv, EndedInv
        <3>. QED
            BY <2>1, <3>2, EndedFrame DEF OrderInv
    <2>3. CASE Head(ticks).kind # "construct"
        <3>1. UNCHANGED <<constructed, pc, cont>>
            BY <1>1, <2>3 DEF RunTick
        <3>. QED
            BY <2>1, <3>1, EndedFrame DEF OrderInv, EndedInv
    <2>. QED
        BY <2>2, <2>3
<1>2. CASE DrainCheck \/ FlushPart
    <2>1. /\ UNCHANGED <<constructed, ended, ending>>
          /\ \/ UNCHANGED <<pc, cont>>
             \/ pc' = "drain" /\ cont' = "user"
        BY <1>2 DEF DrainCheck, FlushPart, endVars
    <2>. QED
        BY <2>1 DEF OrderInv, EndedInv, Calling
<1>3. CASE ClosePart
    <2>1. UNCHANGED <<constructed, ended, ending, pc, cont>>
        BY <1>3 DEF ClosePart, endVars
    <2>. QED
        BY <2>1, EndedFrame DEF OrderInv, EndedInv
<1>. QED
    BY <1>1, <1>2, <1>3 DEF TickStep

LEMMA OutsideEnded ==
    ASSUME TypeOK, SerialInv, OrderInv, Uncorked,
           UserStep \/ SinkStep \/ PendingEnd
    PROVE  EndedInv'
<1>1. CASE Write \/ PendingEnd
    <2>1. ~ended /\ UNCHANGED <<ended, ending>>
        BY <1>1 DEF Write, PendingEnd, endVars, OrderInv, EndedInv
    <2>. QED
        BY <2>1, EndedFrame DEF OrderInv
<1>2. CASE End
    <2>1. UNCHANGED <<ended, ending, constructed>>
        BY <1>2 DEF End
    <2>2. ended => UNCHANGED <<pc, cont>>
        BY <1>2 DEF End
    <2>. QED
        BY <2>1, <2>2, EndedFrame DEF OrderInv, EndedInv
<1>3. CASE WriteAfterEnd \/ DestroyCall \/ DestroyCallback
    <2>1. UNCHANGED <<constructed, ended, ending, pc, cont>>
        BY <1>3 DEF WriteAfterEnd, DestroyCall, DestroyBody, DestroyCallback, endVars
    <2>. QED
        BY <2>1, EndedFrame DEF OrderInv, EndedInv
<1>4. CASE WriteCallback \/ FinalCallback
    <2>1. UNCHANGED <<constructed, ended, ending, pc, cont>>
        BY <1>4 DEF WriteCallback, FinalCallback, endVars
    <2>. QED
        BY <2>1, EndedFrame DEF OrderInv, EndedInv
<1>5. CASE ConstructCallback
    <2>1. ~ended /\ UNCHANGED <<ended, ending>>
        BY <1>5 DEF ConstructCallback, endVars, SerialInv, ConstructInv, OrderInv,
                    EndedInv
    <2>. QED
        BY <2>1, EndedFrame DEF OrderInv
<1>6. CASE CorkCall \/ Uncork \/ BatchCallback
    BY <1>6 DEF CorkCall, Uncork, BatchCallback, Uncorked, SerialInv, UncorkedInv
<1>. QED
    BY <1>1, <1>2, <1>3, <1>4, <1>5, <1>6 DEF UserStep, SinkStep

(* The steps that touch neither the sink, nor the callbacks, nor 'finish'.  *)
LEMMA QuietOrder ==
    ASSUME TypeOK, TypeOK', OrderInv,
           Extended(Completions \cup FinishKinds),
           UNCHANGED <<issued, inflight, called, finished, ended>>,
           "final" \in pending' <=> "final" \in pending,
           ended => writing' = writing,
           "finish" \in events' => "finish" \in events
    PROVE  CallbackInv' /\ FinishInv'
<1>1. Extended(Completions)
    BY DEF Extended
<1>. QED
    BY <1>1, CallbackFrame, FinishFrame DEF OrderInv, TypeOK, CallTypes

LEMMA QuietTick ==
    ASSUME TypeOK, NEW k \in {"late", "endcb", "close"}, NEW w,
           k = "endcb" => w \in 0..MaxEnds, k # "endcb" => w = 0,
           ticks' = Defer(Tick(k, w))
    PROVE  Extended(Completions \cup FinishKinds)
<1>1. /\ Tick(k, w) \in TickSet
      /\ Tick(k, w).kind \notin Completions \cup FinishKinds
    BY TickFacts DEF Tick, TickKinds, Completions, FinishKinds
<1>. QED
    BY <1>1, ExtendedDefer DEF TypeOK, CallTypes

LEMMA OrderStep ==
    Uncorked /\ TypeOK /\ SerialInv /\ OrderInv /\ [Next]_vars => OrderInv'
<1>. SUFFICES ASSUME Uncorked, TypeOK, SerialInv, OrderInv, [Next]_vars
              PROVE  OrderInv'
    OBVIOUS
<1>0. TypeOK' /\ ticks \in Seq(TickSet)
    BY TypeStep DEF TypeOK, CallTypes
<1>. USE <1>0
<1>1. EndedInv'
    <2>1. CASE UNCHANGED vars
        <3>1. UNCHANGED <<constructed, ended, ending, pc, cont>>
            BY <2>1 DEF vars, endVars, callVars
        <3>. QED
            BY <3>1, EndedFrame DEF OrderInv, EndedInv
    <2>. QED
        BY <2>1, CallEnded, TickEnded, OutsideEnded DEF Next, CallStep
<1>2. CallbackInv' /\ FinishInv'
    <2>1. CASE Write
        <3>1. /\ ~ended /\ ticks' = ticks
              /\ UNCHANGED <<issued, inflight, called, finished, ended, pending,
                             events>>
            BY <2>1 DEF Write, endVars, sinkVars
        <3>. QED
            BY <3>1, ExtendedSame, QuietOrder
    <2>2. CASE WriteAfterEnd
        <3>1. /\ ticks' = Defer(Tick("late", 0))
              /\ UNCHANGED <<issued, inflight, called, finished, ended, writing,
                             pending, events>>
            BY <2>2 DEF WriteAfterEnd, endVars, sinkVars, histVars
        <3>. QED
            BY <3>1, QuietTick, QuietOrder
    <2>3. CASE End
        <3>1. UNCHANGED <<issued, inflight, called, finished, ended, pending,
                          events>>
            BY <2>3 DEF End, sinkVars
        <3>2. CASE ended
            <4>1. /\ ticks' = Defer(Tick("endcb", ends + 1)) /\ writing' = writing
                  /\ ends + 1 \in 0..MaxEnds
                BY <2>3, <3>2, BoundAssumption DEF End, TypeOK, EndTypes
            <4>. QED
                BY <3>1, <4>1, QuietTick, QuietOrder
        <3>3. CASE ~ended
            <4>1. ticks' = ticks
                BY <2>3, <3>3 DEF End
            <4>. QED
                BY <3>1, <3>3, <4>1, ExtendedSame, QuietOrder
        <3>. QED
            BY <3>2, <3>3
    <2>4. CASE DestroyCall \/ DestroyCallback
        <3>1. UNCHANGED <<issued, inflight, called, finished, ended, writing,
                          events>>
            BY <2>4 DEF DestroyCall, DestroyBody, DestroyCallback, endVars, histVars
        <3>2. /\ ticks' \in {ticks, ticks \o CloseTicks, ticks \o ErrorTicks}
              /\ "final" \in pending' <=> "final" \in pending
            BY <2>4 DEF DestroyCall, DestroyBody, DestroyCallback
        <3>3. Extended(Completions \cup FinishKinds)
            BY <3>2, ExtendedSame, ExtendedClose
        <3>. QED
            BY <3>1, <3>2, <3>3, QuietOrder
    <2>5. CASE CorkCall \/ Uncork \/ BatchCallback
        BY <2>5 DEF CorkCall, Uncork, BatchCallback, Uncorked, SerialInv,
                    UncorkedInv
    <2>6. CASE WriteCallback
        BY <2>6, WriteCallbackOrder
    <2>7. CASE FinalCallback
        <3>1. PICK o \in Outcomes : ticks' = Defer(FinishTick(o))
            BY <2>7 DEF FinalCallback
        <3>2. /\ "final" \in pending /\ finished' = TRUE
              /\ UNCHANGED <<issued, inflight, called, ended, writing, events>>
            BY <2>7 DEF FinalCallback, histVars
        <3>3. ended' /\ ~writing'
            BY <3>2 DEF OrderInv, FinishInv
        <3>4. FinishInv' /\ Extended(Completions)
            BY <3>1, <3>2, <3>3, FinishDeferred DEF OrderInv
        <3>. QED
            BY <3>2, <3>4, CallbackFrame DEF OrderInv, TypeOK, CallTypes
    <2>8. CASE ConstructCallback
        <3>1. PICK o \in ConstructOutcomes :
                  Constructed(o, ticks, pending \ {"construct"})
            BY <2>8 DEF ConstructCallback
        <3>2. ticks' = ticks /\ pending' = pending \ {"construct"}
            BY <3>1 DEF Constructed, Ok, Uncorked
        <3>3. /\ "construct" \in pending
              /\ "final" \in pending' <=> "final" \in pending
              /\ UNCHANGED <<issued, inflight, called, finished, ended, events>>
            BY <2>8, <3>2 DEF ConstructCallback, endVars, histVars
        <3>4. ~ended
            BY <3>3 DEF SerialInv, ConstructInv, OrderInv, EndedInv
        <3>. QED
            BY <3>2, <3>3, <3>4, ExtendedSame, QuietOrder
    <2>9. CASE DoWrite
        BY <2>9, DoWriteOrder
    <2>10. CASE DrainWriteBuffer
        <3>1. /\ pc = "drain"
              /\ UNCHANGED <<issued, inflight, called, ended, events>>
            BY <2>10 DEF DrainWriteBuffer, histVars
        <3>2. writing
            BY <3>1 DEF SerialInv, LockInv, Calling
        <3>3. CASE writeBuf # <<>>
            <4>1. writing' = TRUE /\ UNCHANGED <<finished, ticks, pending>>
                BY <2>10, <3>3 DEF DrainWriteBuffer
            <4>2. writing' = writing
                BY <3>2, <4>1 DEF TypeOK, FlagTypes
            <4>. QED
                BY <3>1, <4>1, <4>2, ExtendedSame, QuietOrder
        <3>4. CASE writeBuf = <<>>
            <4>1. writing' = FALSE /\ MaybeFinish(ending, FALSE)
                BY <2>10, <3>4 DEF DrainWriteBuffer
            <4>2. /\ ending => ended'
                  /\ ended => ended'
                  /\ events' = events /\ ~writing' /\ FinishInv
                BY <3>1, <4>1 DEF OrderInv, EndedInv
            <4>3. FinishInv' /\ Extended(Completions)
                BY <4>1, <4>2, MaybeFinishKeeps, Zenon
            <4>. QED
                BY <3>1, <4>3, CallbackFrame DEF OrderInv, TypeOK, CallTypes
        <3>. QED
            BY <3>3, <3>4
    <2>11. CASE EndRest
        <3>1. MaybeFinish(TRUE, writing)
            BY <2>11, Zenon DEF EndRest
        <3>2. /\ ended' = TRUE
              /\ UNCHANGED <<issued, inflight, called, writing, events>>
            BY <2>11, Zenon DEF EndRest, histVars
        <3>3. FinishInv' /\ Extended(Completions)
            BY <3>1, <3>2, MaybeFinishKeeps DEF OrderInv
        <3>. QED
            BY <3>2, <3>3, CallbackFrame DEF OrderInv, TypeOK, CallTypes
    <2>12. CASE PendingEnd
        <3>1. /\ pc = "pendingEnd" /\ ticks' = ticks
              /\ UNCHANGED <<issued, inflight, called, finished, ended, pending,
                             events>>
            BY <2>12 DEF PendingEnd, sinkVars
        <3>2. ~ended
            BY <3>1 DEF OrderInv, EndedInv
        <3>. QED
            BY <3>1, <3>2, ExtendedSame, QuietOrder
    <2>13. CASE RunTick
        BY <2>13, RunTickOrder
    <2>14. CASE DrainCheck \/ FlushPart
        <3>1. /\ UNCHANGED <<issued, inflight, called, finished, ended, writing,
                             pending, ticks>>
              /\ events' \in {events, events \cup {"drain"}}
            BY <2>14 DEF DrainCheck, FlushPart, endVars, sinkVars, histVars
        <3>. QED
            BY <3>1, ExtendedSame, QuietOrder
    <2>15. CASE ClosePart
        <3>1. /\ ticks' = Defer(Tick("close", 0))
              /\ UNCHANGED <<issued, inflight, called, finished, ended, writing,
                             pending, events>>
            BY <2>15 DEF ClosePart, endVars, sinkVars
        <3>. QED
            BY <3>1, QuietTick, QuietOrder
    <2>16. CASE UNCHANGED vars
        <3>1. UNCHANGED <<ticks, issued, inflight, called, finished, ended, writing,
                          pending, events>>
            BY <2>16 DEF vars, endVars, callVars, sinkVars, histVars
        <3>. QED
            BY <3>1, ExtendedSame, QuietOrder
    <2>. QED
        BY <2>1, <2>2, <2>3, <2>4, <2>5, <2>6, <2>7, <2>8, <2>9, <2>10, <2>11,
           <2>12, <2>13, <2>14, <2>15, <2>16
           DEF Next, UserStep, SinkStep, CallStep, TickStep
<1>. QED
    BY <1>1, <1>2 DEF OrderInv

LEMMA Invariants ==
    ASSUME Uncorked PROVE Spec => [](TypeOK /\ SerialInv /\ OrderInv)
BY Uncorked, TypeInit, TypeStep, SerialInit, SerialStep, OrderInit, OrderStep,
   PTL DEF Spec

(* What the invariant says once the stream has finished.                    *)
LEMMA AllIssued ==
    ASSUME TypeOK, SerialInv, OrderInv
    PROVE  /\ Len(issued) \in Nat /\ Len(issued) <= nw
           /\ finished => inflight = {} /\ nw = Len(issued)
<1>1. /\ Len(issued) \in Nat /\ Len(writeBuf) \in Nat /\ Len(pendCons) \in Nat
      /\ nw = Dispatched + Len(writeBuf) + Len(pendCons)
    BY DEF TypeOK, QueueTypes, SerialInv, QueueInv
<1>2. Len(issued) <= nw
    BY <1>1 DEF Dispatched
<1>3. ASSUME finished PROVE inflight = {} /\ nw = Len(issued)
    <2>1. ended /\ ~writing /\ constructed
        BY <1>3 DEF OrderInv, FinishInv, EndedInv
    <2>2. /\ inflight = {} /\ pc # "doWrite"
          /\ writeBuf = <<>> /\ pendCons = <<>>
        BY <2>1 DEF SerialInv, LockInv, QueueInv, ConstructInv, Calling
    <2>. QED
        BY <1>1, <2>2 DEF Dispatched
<1>. QED
    BY <1>1, <1>2, <1>3

(* A stream that is never corked runs the callbacks of its writes in the    *)
(* order of the writes, however each of them completed.                     *)
THEOREM CallbacksInOrder == ASSUME Uncorked PROVE Spec => []CallbackOrder
<1>1. TypeOK /\ SerialInv /\ OrderInv => CallbackOrder
    <2>. SUFFICES ASSUME TypeOK, SerialInv, OrderInv PROVE CallbackOrder
        OBVIOUS
    <2>1. PICK n \in 0..Len(issued) : called = 1..n
        BY DEF OrderInv, CallbackInv, CalledUpTo
    <2>2. n \in 0..nw
        BY <2>1, AllIssued DEF TypeOK, QueueTypes
    <2>. QED
        BY <2>1, <2>2 DEF CallbackOrder
<1>. QED
    BY <1>1, Uncorked, Invariants, PTL

(* Such a stream emits 'finish' only when the callback of every write it    *)
(* accepted has run.                                                        *)
THEOREM FinishComesLast == ASSUME Uncorked PROVE Spec => []FinishLast
<1>1. TypeOK /\ SerialInv /\ OrderInv => FinishLast
    <2>. SUFFICES ASSUME TypeOK, SerialInv, OrderInv, "finish" \in events
                  PROVE  called = 1..nw
        BY DEF FinishLast
    <2>1. finished /\ \A i \in 1..Len(ticks) : ~Ends(i)
        BY DEF OrderInv, FinishInv
    <2>2. inflight = {} /\ nw = Len(issued) /\ Len(issued) \in Nat
        BY <2>1, AllIssued
    <2>3. PICK n \in 0..Len(issued) : CalledUpTo(n)
        BY DEF OrderInv, CallbackInv
    <2>4. \A w \in (n + 1)..Len(issued) : FALSE
        BY <2>1, <2>2, <2>3 DEF CalledUpTo
    <2>5. n = Len(issued)
        BY <2>2, <2>3, <2>4
    <2>. QED
        BY <2>2, <2>3, <2>5 DEF CalledUpTo
<1>. QED
    BY <1>1, Uncorked, Invariants, PTL

-----------------------------------------------------------------------------
(* The refinement of FifoSink.  The writes the sink was not given yet are   *)
(* Len(issued) + 1, ..., nw, in this order, wherever they wait.             *)
Queue == Handing \o writeBuf \o pendCons
Busy == IF inflight = {} THEN 0 ELSE CHOOSE w \in inflight : TRUE

QueueFormed ==
    /\ Queue \in Seq(Writes) /\ Len(issued) \in Nat /\ nw \in Nat
    /\ Len(Queue) = nw - Len(issued)
    /\ \A i \in 1..Len(Queue) : Queue[i] = Len(issued) + i

LEMMA QueueForm == TypeOK /\ SerialInv => QueueFormed
<1>. SUFFICES ASSUME TypeOK, SerialInv PROVE QueueFormed
    OBVIOUS
<1>1. /\ Len(issued) \in Nat /\ nw \in Nat /\ pendCons \in Seq(Writes)
      /\ writeBuf \in Seq(Writes)
    BY DEF TypeOK, QueueTypes
<1>2. CASE pc = "doWrite"
    <2>1. /\ Handing = <<arg>> /\ <<arg>> \in Seq(Writes) /\ pendCons = <<>>
        BY <1>2 DEF Handing, TypeOK, CallTypes, SerialInv, ConstructInv
    <2>2. Queue = <<arg>> \o writeBuf /\ Len(pendCons) = 0
        BY <1>1, <2>1, ConcatEmptySeq, ConcatProperties DEF Queue
    <2>3. /\ Len(Queue) = 1 + Len(writeBuf) /\ Queue \in Seq(Writes)
          /\ \A i \in 1..Len(Queue) :
                Queue[i] = IF i <= 1 THEN arg ELSE writeBuf[i - 1]
        BY <1>1, <2>1, <2>2
    <2>4. /\ arg = Len(issued) + 1 /\ Dispatched = Len(issued) + 1
          /\ \A i \in 1..Len(writeBuf) : writeBuf[i] = Dispatched + i
          /\ nw = Dispatched + Len(writeBuf)
        BY <1>1, <1>2, <2>2 DEF SerialInv, QueueInv, Dispatched
    <2>. QED
        BY SMTT(60), <1>1, <2>3, <2>4 DEF QueueFormed
<1>3. CASE pc # "doWrite"
    <2>1. Handing = <<>> /\ Dispatched = Len(issued)
        BY <1>1, <1>3 DEF Handing, Dispatched
    <2>2. Queue = writeBuf \o pendCons
        BY <1>1, <2>1, ConcatEmptySeq DEF Queue
    <2>3. /\ Len(Queue) = Len(writeBuf) + Len(pendCons) /\ Queue \in Seq(Writes)
          /\ \A i \in 1..Len(Queue) :
                Queue[i] = IF i <= Len(writeBuf) THEN writeBuf[i]
                           ELSE pendCons[i - Len(writeBuf)]
        BY <1>1, <2>2
    <2>4. /\ \A i \in 1..Len(writeBuf) : writeBuf[i] = Dispatched + i
          /\ \A i \in 1..Len(pendCons) :
                pendCons[i] = Dispatched + Len(writeBuf) + i
          /\ nw = Dispatched + Len(writeBuf) + Len(pendCons)
        BY DEF SerialInv, QueueInv
    <2>5. ASSUME NEW i \in 1..Len(Queue) PROVE Queue[i] = Len(issued) + i
        <3>1. CASE i <= Len(writeBuf)
            BY <1>1, <2>1, <2>3, <2>4, <3>1
        <3>2. CASE i > Len(writeBuf)
            <4>1. /\ Queue[i] = pendCons[i - Len(writeBuf)]
                  /\ i - Len(writeBuf) \in 1..Len(pendCons)
                  /\ Len(writeBuf) \in Nat
                BY <1>1, <2>3, <3>2
            <4>. QED
                BY <1>1, <2>1, <2>4, <4>1
        <3>. QED
            BY <1>1, <3>1, <3>2
    <2>. QED
        BY <1>1, <2>1, <2>3, <2>4, <2>5 DEF QueueFormed
<1>. QED
    BY <1>2, <1>3

LEMMA QueueFormNext == TypeOK' /\ SerialInv' => QueueFormed'
BY QueueForm, PTL

(* So the queue is known from the two numbers.                              *)
LEMMA QueueSame ==
    ASSUME TypeOK, TypeOK', SerialInv, SerialInv',
           UNCHANGED <<nw, issued>>
    PROVE  Queue' = Queue
<1>1. /\ Queue \in Seq(Writes) /\ Len(Queue) = nw - Len(issued)
      /\ \A i \in 1..Len(Queue) : Queue[i] = Len(issued) + i
    BY QueueForm DEF QueueFormed
<1>2. /\ Queue' \in Seq(Writes) /\ Len(Queue') = nw - Len(issued)
      /\ \A i \in 1..Len(Queue') : Queue'[i] = Len(issued) + i
    BY QueueFormNext DEF QueueFormed
<1>. QED
    BY <1>1, <1>2, SeqEqual

LEMMA QueueAccept ==
    ASSUME TypeOK, TypeOK', SerialInv, SerialInv', nw' = nw + 1,
           issued' = issued
    PROVE  Queue' = Append(Queue, nw + 1)
<1>1. /\ Queue \in Seq(Writes) /\ Len(issued) \in Nat /\ nw \in Nat
      /\ Len(Queue) = nw - Len(issued)
      /\ \A i \in 1..Len(Queue) : Queue[i] = Len(issued) + i
    BY QueueForm DEF QueueFormed
<1>2. /\ Queue' \in Seq(Writes) /\ Len(Queue') = nw + 1 - Len(issued)
      /\ \A i \in 1..Len(Queue') : Queue'[i] = Len(issued) + i
    <2>1. /\ Queue' \in Seq(Writes) /\ Len(Queue') = nw' - Len(issued')
          /\ \A i \in 1..Len(Queue') : Queue'[i] = Len(issued') + i
        BY QueueFormNext DEF QueueFormed
    <2>. QED
        BY <1>1, <2>1
<1>3. nw + 1 \in Writes
    BY BoundAssumption, <1>1 DEF TypeOK, QueueTypes, Writes
<1>4. /\ Append(Queue, nw + 1) \in Seq(Writes)
      /\ Len(Append(Queue, nw + 1)) = Len(Queue')
      /\ \A i \in 1..Len(Queue') : Append(Queue, nw + 1)[i] = Len(issued) + i
    <2>1. /\ Append(Queue, nw + 1) \in Seq(Writes)
          /\ Len(Append(Queue, nw + 1)) = Len(Queue) + 1
          /\ \A i \in 1..(Len(Queue) + 1) :
                Append(Queue, nw + 1)[i]
                    = IF i = Len(Queue) + 1 THEN nw + 1 ELSE Queue[i]
        BY <1>1, <1>3, AppendProperties, AppendFacts
    <2>2. Len(Queue') = Len(Queue) + 1 /\ Len(Queue) \in Nat
        BY <1>1, <1>2
    <2>3. ASSUME NEW i \in 1..Len(Queue')
          PROVE  Append(Queue, nw + 1)[i] = Len(issued) + i
        <3>1. CASE i = Len(Queue) + 1
            BY <1>1, <2>1, <2>2, <3>1
        <3>2. CASE i # Len(Queue) + 1
            <4>1. i \in 1..Len(Queue)
                BY <2>2, <3>2
            <4>. QED
                BY <1>1, <2>1, <2>2, <3>2, <4>1
        <3>. QED
            BY <3>1, <3>2
    <2>. QED
        BY <2>1, <2>2, <2>3
<1>. QED
    BY <1>2, <1>4, SeqEqual

LEMMA QueueTake ==
    ASSUME TypeOK, TypeOK', SerialInv, SerialInv', nw' = nw,
           Len(issued') = Len(issued) + 1
    PROVE  /\ Queue # <<>> /\ Queue' = Tail(Queue)
           /\ Head(Queue) = Len(issued) + 1
<1>1. /\ Queue \in Seq(Writes) /\ Len(issued) \in Nat /\ nw \in Nat
      /\ Len(Queue) = nw - Len(issued)
      /\ \A i \in 1..Len(Queue) : Queue[i] = Len(issued) + i
    BY QueueForm DEF QueueFormed
<1>2. /\ Queue' \in Seq(Writes) /\ Len(Queue') = nw - (Len(issued) + 1)
      /\ \A i \in 1..Len(Queue') : Queue'[i] = Len(issued) + 1 + i
    BY QueueFormNext DEF QueueFormed
<1>3. Len(Queue') \in Nat /\ Queue # <<>>
    BY <1>1, <1>2
<1>4. /\ Head(Queue) = Queue[1] /\ 1 \in 1..Len(Queue)
      /\ Tail(Queue) \in Seq(Writes) /\ Len(Tail(Queue)) = Len(Queue')
      /\ \A i \in 1..Len(Queue') : Tail(Queue)[i] = Len(issued) + 1 + i
    BY <1>1, <1>2, <1>3
<1>5. Queue' = Tail(Queue)
    <2>1. \A i \in 1..Len(Queue') : Queue'[i] = Tail(Queue)[i]
        BY <1>2, <1>4
    <2>. QED
        BY <1>2, <1>4, <2>1, SeqEqual
<1>. QED
    BY <1>1, <1>3, <1>4, <1>5

(* Every write that stream accepted went to the sink or waits in a queue,   *)
(* once: what the sink was given, with the queues behind it, is the first   *)
(* write, the second, and so on to the last.                                *)
Numbered == issued \o Queue = [i \in 1..nw |-> i]

THEOREM NothingLost == ASSUME Uncorked PROVE Spec => []Numbered
<1>1. TypeOK /\ SerialInv /\ OrderInv => Numbered
    <2>. SUFFICES ASSUME TypeOK, SerialInv PROVE Numbered
        OBVIOUS
    <2>1. QueueFormed /\ issued \in Seq(Writes) /\ Queue \in Seq(Writes)
        BY QueueForm DEF TypeOK, QueueTypes, QueueFormed
    <2>2. \A i \in 1..Len(issued) : issued[i] = i
        BY <2>1 DEF SerialInv, QueueInv, FifoDispatch
    <2>3. /\ issued \o Queue \in Seq(Writes)
          /\ Len(issued \o Queue) = nw
          /\ \A i \in 1..nw : (issued \o Queue)[i] = i
        BY <2>1, <2>2 DEF QueueFormed
    <2>4. [i \in 1..nw |-> i] \in Seq(Writes) /\ Len([i \in 1..nw |-> i]) = nw
        <3>1. 1..nw \subseteq Writes /\ nw \in Nat
            BY BoundAssumption DEF TypeOK, QueueTypes, Writes
        <3>. QED
            BY <3>1
    <2>. QED
        BY <2>3, <2>4, SeqEqual DEF Numbered
<1>. QED
    BY <1>1, Uncorked, Invariants, PTL

(* Once the stream may finish, all of it is with the sink, and done.        *)
LEMMA Drained ==
    ASSUME TypeOK, SerialInv, OrderInv, constructed, inflight = {},
           writeBuf = <<>>, pc # "doWrite"
    PROVE  Queue = <<>> /\ Busy = 0
<1>1. pendCons = <<>> /\ Handing = <<>>
    BY DEF SerialInv, ConstructInv, Handing
<1>2. <<>> \in Seq(Writes) /\ <<>> \o <<>> = <<>>
    BY ConcatEmptySeq
<1>. QED
    BY <1>1, <1>2 DEF Queue, Busy

LEMMA SinkInit == Init => Sink!AbsInit
<1>. SUFFICES ASSUME Init PROVE Sink!AbsInit
    OBVIOUS
<1>1. Handing \o writeBuf \o pendCons = <<>>
    <2>1. <<>> \in Seq(Writes) /\ <<>> \o <<>> = <<>>
        BY ConcatEmptySeq
    <2>. QED
        BY <2>1 DEF Init, Handing
<1>. QED
    BY <1>1 DEF Init, Sink!AbsInit

(* The steps of FifoSink, in terms of what the Writable changes.            *)
LEMMA Stutters ==
    ASSUME TypeOK, TypeOK', SerialInv, SerialInv',
           UNCHANGED <<nw, issued, inflight, ended, finished>>
    PROVE  UNCHANGED Sink!absVars
<1>1. Queue' = Queue /\ Busy' = Busy
    BY QueueSame DEF Busy
<1>. QED
    BY <1>1 DEF Sink!absVars, Queue, Busy

LEMMA Accepts ==
    ASSUME TypeOK, TypeOK', SerialInv, SerialInv', ~ended, nw < MaxWrites,
           nw' = nw + 1, UNCHANGED <<issued, inflight, ended, finished>>
    PROVE  Sink!AcceptOne
<1>1. Queue' = Append(Queue, nw + 1) /\ Busy' = Busy
    BY QueueAccept DEF Busy
<1>. QED
    BY <1>1 DEF Sink!AcceptOne, Queue, Busy

LEMMA Finishes ==
    ASSUME TypeOK, TypeOK', SerialInv, SerialInv', OrderInv, ended, ~writing,
           finished' = TRUE, UNCHANGED <<nw, issued, inflight, ended>>
    PROVE  Sink!FinishSink \/ UNCHANGED Sink!absVars
<1>1. Queue' = Queue /\ Busy' = Busy
    BY QueueSame DEF Busy
<1>2. Queue = <<>> /\ Busy = 0
    <2>1. constructed /\ inflight = {} /\ writeBuf = <<>> /\ pc # "doWrite"
        BY DEF OrderInv, EndedInv, SerialInv, LockInv, QueueInv, Calling
    <2>. QED
        BY <2>1, Drained
<1>3. CASE finished
    <2>1. finished' = finished
        BY <1>3 DEF TypeOK, FlagTypes
    <2>. QED
        BY <2>1, Stutters
<1>4. CASE ~finished
    BY <1>1, <1>2, <1>4 DEF Sink!FinishSink, Queue, Busy
<1>. QED
    BY <1>3, <1>4

LEMMA BusyOne ==
    ASSUME NEW w, w # 0, inflight = {w}
    PROVE  Busy = w
BY DEF Busy

LEMMA DoWriteRefines ==
    ASSUME TypeOK, TypeOK', SerialInv, SerialInv', DoWrite
    PROVE  Sink!TakeOne
<1>1. /\ pc = "doWrite" /\ issued' = Append(issued, arg)
      /\ inflight' \in {inflight, inflight \cup {arg}}
      /\ UNCHANGED <<nw, ended, finished>>
    BY DEF DoWrite, endVars
<1>2. inflight = {} /\ arg = Len(issued) + 1 /\ arg \in Writes /\ arg # 0
    BY <1>1 DEF SerialInv, LockInv, QueueInv, Calling, TypeOK, CallTypes, Writes
<1>3. Len(issued') = Len(issued) + 1
    BY <1>1, <1>2, AppendFacts DEF TypeOK, QueueTypes
<1>4. Queue # <<>> /\ Queue' = Tail(Queue) /\ Head(Queue) = arg
    BY <1>1, <1>2, <1>3, QueueTake
<1>5. Busy = 0 /\ Busy' \in {0, arg}
    <2>1. CASE inflight' = {}
        BY <1>2, <2>1 DEF Busy
    <2>2. CASE inflight' = {arg}
        <3>1. \E w \in inflight' : TRUE
            BY <2>2
        <3>2. (CHOOSE w \in inflight' : TRUE) \in inflight'
            BY <3>1
        <3>. QED
            BY <1>2, <2>2, <3>2 DEF Busy
    <2>. QED
        BY <1>1, <1>2, <2>1, <2>2
<1>. QED
    BY <1>1, <1>4, <1>5 DEF Sink!TakeOne, Queue, Busy

LEMMA WriteCallbackRefines ==
    ASSUME TypeOK, TypeOK', SerialInv, SerialInv', WriteCallback
    PROVE  Sink!CompleteOne
<1>1. PICK w \in inflight : inflight' = inflight \ {w}
    BY DEF WriteCallback
<1>2. inflight = {w} /\ inflight' = {} /\ w # 0
    <2>1. \A v \in inflight : v = w
        BY <1>1 DEF SerialInv, LockInv, SerialWrites
    <2>2. w \in Writes /\ 0 \notin Writes
        BY <1>1, BoundAssumption DEF TypeOK, SinkTypes, Writes
    <2>. QED
        BY <1>1, <2>1, <2>2, Zenon
<1>3. UNCHANGED <<nw, issued, ended, finished>>
    BY DEF WriteCallback, endVars, histVars
<1>4. Queue' = Queue
    BY <1>3, QueueSame
<1>5. Busy = w /\ Busy' = 0
    BY <1>2, BusyOne DEF Busy
<1>. QED
    BY <1>2, <1>3, <1>4, <1>5 DEF Sink!CompleteOne, Queue, Busy

LEMMA EndRestRefines ==
    ASSUME TypeOK, TypeOK', SerialInv, SerialInv', OrderInv, EndRest
    PROVE  Sink!CloseSink
<1>1. /\ pc = "endRest" /\ ended' = TRUE
      /\ UNCHANGED <<nw, issued, inflight>>
    BY Zenon DEF EndRest, histVars
<1>2. MaybeFinish(TRUE, writing)
    BY Zenon DEF EndRest
<1>3. ~ended /\ constructed /\ finished = FALSE
    BY <1>1 DEF OrderInv, EndedInv, FinishInv, SerialInv, ConstructInv, TypeOK,
                FlagTypes
<1>4. Queue' = Queue /\ Busy' = Busy
    BY <1>1, QueueSame DEF Busy
<1>5. CASE finished' = FALSE
    BY <1>1, <1>3, <1>4, <1>5 DEF Sink!CloseSink, Queue, Busy
<1>6. CASE finished' # FALSE
    <2>1. finished' = TRUE /\ ~writing /\ writeBuf = <<>>
        BY <1>2, <1>3, <1>6 DEF MaybeFinish, CanFinish
    <2>2. inflight = {} /\ pc # "doWrite"
        BY <1>1, <2>1 DEF SerialInv, LockInv
    <2>3. Queue = <<>> /\ Busy = 0
        BY <1>3, <2>1, <2>2, Drained
    <2>. QED
        BY <1>1, <1>3, <1>4, <2>1, <2>3 DEF Sink!CloseSink, Queue, Busy
<1>. QED
    BY <1>5, <1>6

LEMMA DrainRefines ==
    ASSUME TypeOK, TypeOK', SerialInv, SerialInv', OrderInv, DrainWriteBuffer
    PROVE  Sink!FinishSink \/ UNCHANGED Sink!absVars
<1>1. /\ pc = "drain" /\ UNCHANGED <<nw, issued, inflight, ended>>
      /\ finished' # finished =>
            /\ writeBuf = <<>> /\ finished' = TRUE
            /\ CanFinish(ending, FALSE)
    BY DEF DrainWriteBuffer, MaybeFinish, histVars
<1>2. CASE finished' = finished
    BY <1>1, <1>2, Stutters
<1>3. CASE finished' # finished
    <2>1. ended /\ ~finished /\ constructed
        BY <1>1, <1>3 DEF CanFinish, OrderInv, EndedInv
    <2>2. inflight = {}
        BY <1>1 DEF SerialInv, LockInv, Calling
    <2>3. Queue = <<>> /\ Busy = 0
        BY <1>1, <1>3, <2>1, <2>2, Drained
    <2>4. Queue' = Queue /\ Busy' = Busy
        BY <1>1, QueueSame DEF Busy
    <2>. QED
        BY <1>1, <1>3, <2>1, <2>3, <2>4 DEF Sink!FinishSink, Queue, Busy
<1>. QED
    BY <1>2, <1>3

LEMMA DoEndRefines ==
    ASSUME TypeOK, TypeOK', SerialInv, SerialInv', NEW chunk \in BOOLEAN, NEW id,
           DoEnd(chunk, id), chunk => nw < MaxWrites, ~ended,
           UNCHANGED <<issued, inflight, ended, finished>>
    PROVE  Sink!AcceptOne \/ UNCHANGED Sink!absVars
<1>1. CASE chunk
    BY <1>1, Accepts DEF DoEnd, Accept
<1>2. CASE ~chunk
    BY <1>2, Stutters DEF DoEnd
<1>. QED
    BY <1>1, <1>2

LEMMA Refines ==
    /\ Uncorked
    /\ TypeOK /\ SerialInv /\ OrderInv /\ TypeOK' /\ SerialInv'
    /\ [Next]_vars
    => [Sink!AbsNext]_Sink!absVars
<1>. SUFFICES ASSUME Uncorked, TypeOK, SerialInv, OrderInv, TypeOK', SerialInv',
                     [Next]_vars
              PROVE  Sink!AbsNext \/ UNCHANGED Sink!absVars
    OBVIOUS
<1>. USE DEF Sink!AbsNext
<1>1. CASE Write
    <2>1. /\ ~ended /\ nw < MaxWrites /\ nw' = nw + 1
          /\ UNCHANGED <<issued, inflight, ended, finished>>
        BY <1>1, BoundAssumption
           DEF Write, Room, Accept, TypeOK, EndTypes, QueueTypes, endVars, sinkVars
    <2>. QED
        BY <2>1, Accepts
<1>2. CASE End
    <2>1. UNCHANGED <<issued, inflight, ended, finished>>
        BY <1>2 DEF End, sinkVars
    <2>2. CASE ended \/ ~constructed
        <3>1. UNCHANGED nw
            BY <1>2, <2>2 DEF End
        <3>. QED
            BY <2>1, <3>1, Stutters
    <2>3. CASE ~ended /\ constructed
        <3>1. PICK chunk \in BOOLEAN : (chunk => Room) /\ DoEnd(chunk, ends + 1)
            BY <1>2, <2>3 DEF End
        <3>2. chunk => nw < MaxWrites
            BY <3>1, BoundAssumption DEF Room, TypeOK, EndTypes, QueueTypes
        <3>. QED
            BY <2>1, <2>3, <3>1, <3>2, DoEndRefines
    <2>. QED
        BY <2>2, <2>3
<1>3. CASE PendingEnd
    <2>1. ~ended /\ UNCHANGED <<issued, inflight, ended, finished>>
        BY <1>3 DEF PendingEnd, OrderInv, EndedInv, sinkVars
    <2>2. CASE pendEnd = NoEnd
        <3>1. UNCHANGED nw
            BY <1>3, <2>2 DEF PendingEnd
        <3>. QED
            BY <2>1, <3>1, Stutters
    <2>3. CASE pendEnd # NoEnd
        <3>1. DoEnd(pendEnd.chunk, pendEnd.id)
            BY <1>3, <2>3 DEF PendingEnd
        <3>2. pendEnd.chunk \in BOOLEAN /\ (pendEnd.chunk => nw < MaxWrites)
            BY DEF TypeOK, EndTypes
        <3>. QED
            BY <2>1, <3>1, <3>2, DoEndRefines
    <2>. QED
        BY <2>2, <2>3
<1>4. CASE WriteAfterEnd \/ DestroyCall \/ DestroyCallback \/ ConstructCallback
    BY <1>4, Stutters
       DEF WriteAfterEnd, DestroyCall, DestroyBody, DestroyCallback, ConstructCallback,
           endVars,
           sinkVars, histVars
<1>5. CASE CorkCall \/ Uncork \/ BatchCallback
    BY <1>5 DEF CorkCall, Uncork, BatchCallback, Uncorked, SerialInv, UncorkedInv
<1>6. CASE WriteCallback
    BY <1>6, WriteCallbackRefines
<1>7. CASE FinalCallback
    <2>1. /\ "final" \in pending /\ finished' = TRUE
          /\ UNCHANGED <<nw, issued, inflight, ended>>
        BY <1>7 DEF FinalCallback, histVars
    <2>2. ended /\ ~writing
        BY <2>1 DEF OrderInv, FinishInv
    <2>. QED
        BY <2>1, <2>2, Finishes
<1>8. CASE DoWrite
    BY <1>8, DoWriteRefines
<1>9. CASE DrainWriteBuffer
    BY <1>9, DrainRefines
<1>10. CASE EndRest
    BY <1>10, EndRestRefines
<1>11. CASE RunTick \/ DrainCheck \/ FlushPart \/ ClosePart
    BY <1>11, Stutters
       DEF RunTick, DrainCheck, FlushPart, ClosePart, endVars, sinkVars, histVars
<1>12. CASE UNCHANGED vars
    BY <1>12, Stutters DEF vars, endVars, sinkVars, histVars
<1>. QED
    BY <1>1, <1>2, <1>3, <1>4, <1>5, <1>6, <1>7, <1>8, <1>9, <1>10, <1>11, <1>12
       DEF Next, UserStep, SinkStep, CallStep, TickStep

(* A stream that is never corked implements FifoSink: what write() accepts  *)
(* goes to the sink in order and one at a time, and the stream finishes     *)
(* only when it has ended and the sink is done with all of it.              *)
THEOREM Implementation == ASSUME Uncorked PROVE Spec => ImplementsSink
<1>1. TypeOK /\ SerialInv /\ OrderInv /\ TypeOK' /\ SerialInv' /\ [Next]_vars
      => [Sink!AbsNext]_Sink!absVars
    BY Uncorked, Refines
<1>. QED
    BY <1>1, Uncorked, SinkInit, Invariants, PTL
       DEF Spec, ImplementsSink, Sink!AbsSpec
=============================================================================
