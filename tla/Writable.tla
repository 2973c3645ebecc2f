------------------------------ MODULE Writable ------------------------------
(***************************************************************************)
(* The Writable stream of packages/node/stream/src/writable.ts.            *)
(*                                                                         *)
(* JavaScript is single threaded, so a call runs to its end unless it      *)
(* calls user code.  pc says where the running call stands:                *)
(*   "user"     no stream code runs: the user, the sink or the tick queue  *)
(*              may take the next step (also inside a callback or an event *)
(*              listener, when cur holds the rest of the interrupted call) *)
(*   "doWrite"  _doWrite(arg) is about to call _write                      *)
(*   "drain"    _drainWriteBuffer is about to run                          *)
(*   "pendingEnd", "endRest"  the rest of _maybeFlush and of _doEnd        *)
(* and cont is where control goes when the chain of _doWrite and           *)
(* _drainWriteBuffer calls returns.  ticks is the FIFO of nextTick         *)
(* callbacks.  The k-th write the stream accepts is the number k, and      *)
(* Size[k] its chunkLen (1 in object mode).                                *)
(***************************************************************************)
EXTENDS Integers, Sequences, FiniteSets, FiniteSetsExt

CONSTANTS
    MaxWrites,  \* bound: writes accepted in a behaviour
    MaxEnds,    \* bound: calls of end()
    Size,       \* chunkLen of each write
    HWM,        \* writableHighWaterMark
    Outcomes,   \* how the user's _write, _writev and _final call back
    ConstructOutcomes,  \* how its _construct does
    Cork,       \* the user calls cork() and uncork()
    Writev,     \* the stream has a _writev
    Construct,  \* the stream may have a _construct
    Destroy     \* the user calls destroy() and may have given a _destroy

Writes == 1..MaxWrites

(* The four ways to call back, also the kinds of the ticks of _doWrite.    *)
Completions == {"sync", "syncErr", "async", "asyncErr"}

ASSUME BoundAssumption == MaxWrites \in Nat /\ MaxEnds \in Nat
ASSUME SizeAssumption == Size \in [Writes -> Nat] /\ HWM \in Nat
ASSUME OutcomeAssumption ==
    /\ Outcomes \subseteq Completions /\ ConstructOutcomes \subseteq Completions
    /\ Cork \in BOOLEAN /\ Writev \in BOOLEAN
    /\ Construct \in BOOLEAN /\ Destroy \in BOOLEAN

VARIABLES
    nw,          \* number of writes accepted so far
    length,      \* writableLength
    corked,      \* writableCorked
    needDrain,   \* writableNeedDrain
    constructed, writing, ended, ending, finished, destroyed,
    corkedBuf,   \* _corkedBuffer
    writeBuf,    \* _writeBuffer
    pendCons,    \* _pendingConstruct
    pendEnd,     \* _pendingEnd: NoEnd or the deferred arguments of end()
    endCb,       \* _endCallback: the number of the end() call, 0 for none
    ends,        \* number of calls of end() so far
    pc, arg, cont, cur, ticks,
    inflight,    \* writes _write was given and has not called back for
    batches,     \* batches _writev was given and has not called back for
    pending,     \* which of _construct, _final and _destroy are running
    issued,      \* history: the writes in the order _write(v) got them
    called,      \* history: the writes whose callback has run
    endCalled,   \* history: the end() calls whose callback has run
    events,      \* history: the events emitted
    owed         \* history: write() returned false, no 'drain' since

sinkVars == <<inflight, batches, pending>>
bufVars  == <<corkedBuf, writeBuf, pendCons>>
endVars  == <<ended, ending, finished, pendEnd, endCb, ends>>
callVars == <<pc, arg, cont, cur, ticks>>
histVars == <<issued, called, endCalled, events, owed>>
vars == <<nw, length, corked, needDrain, constructed, writing, destroyed,
          bufVars, endVars, callVars, sinkVars, histVars>>

NoEnd == [chunk |-> FALSE, id |-> 0]

Tick(kind, w) == [kind |-> kind, w |-> w]
SomeTick(kind) == \E i \in DOMAIN ticks : ticks[i].kind = kind

Total(S) == MapThenSumSet(LAMBDA w : Size[w], S)
SeqToSet(s) == {s[i] : i \in DOMAIN s}

(* nextTick(cb).                                                           *)
DeferMutant(t) == <<t>> \o ticks
Defer(t) == Append(ticks, t)

(* const [first, ...rest] = buffered                                       *)
RestMutant(buf) == buf
Rest(buf) == Tail(buf)

(* writableLength when the sink is done with the writes S.                 *)
ReleaseMutant(S) == length - Cardinality(S)
Release(S) == length - Total(S)

Ok(o)   == o \in {"sync", "async"}
Sync(o) == o \in {"sync", "syncErr"}

Init ==
    /\ nw = 0 /\ length = 0 /\ corked = 0 /\ needDrain = FALSE
    /\ constructed \in {TRUE, ~Construct}
    /\ writing = FALSE /\ ended = FALSE /\ ending = FALSE
    /\ finished = FALSE /\ destroyed = FALSE
    /\ corkedBuf = <<>> /\ writeBuf = <<>> /\ pendCons = <<>>
    /\ pendEnd = NoEnd /\ endCb = 0 /\ ends = 0
    /\ pc = "user" /\ arg = 0 /\ cont = "user" /\ cur = <<>>
    /\ ticks = IF constructed THEN <<>> ELSE <<Tick("construct", 0)>>
    /\ inflight = {} /\ batches = {} /\ pending = {}
    /\ issued = <<>> /\ called = {} /\ endCalled = {} /\ events = {}
    /\ owed = FALSE

-----------------------------------------------------------------------------
(* What write() decides on, and the queue it keeps.                        *)
BelowHWM(len) == len < HWM

LockedMutant == FALSE
Locked == writing

EnqueueMutant(buf, w) == <<w>> \o buf
EnqueueStaleMutant(buf, w) == Append(buf, arg)
Enqueue(buf, w) == Append(buf, w)

(* write(), after its writableEnded check; next is where control goes once *)
(* the call has returned.                                                  *)
Accept(next) ==
    LET w == nw + 1
        below == BelowHWM(length + Size[w])
    IN  /\ nw' = w
        /\ length' = length + Size[w]
        /\ owed' = (owed \/ ~below)
        /\ \/ /\ corked > 0
              /\ corkedBuf' = Append(corkedBuf, w)
              /\ pc' = next
              /\ UNCHANGED <<writeBuf, pendCons, needDrain, writing, arg, cont>>
           \/ /\ corked = 0 /\ ~constructed
              /\ pendCons' = Append(pendCons, w)
              /\ pc' = next
              /\ UNCHANGED <<corkedBuf, writeBuf, needDrain, writing, arg, cont>>
           \/ /\ corked = 0 /\ constructed
              /\ needDrain' = (needDrain \/ ~below)
              /\ \/ /\ Locked
                    /\ writeBuf' = Enqueue(writeBuf, w)
                    /\ pc' = next
                    /\ UNCHANGED <<writing, arg, cont>>
                 \/ /\ ~Locked
                    /\ writing' = TRUE
                    /\ pc' = "doWrite" /\ arg' = w /\ cont' = next
                    /\ UNCHANGED writeBuf
              /\ UNCHANGED <<corkedBuf, pendCons>>

(* Every accepted write but the one a deferred end() will make is counted. *)
Room == nw + (IF pendEnd.chunk THEN 1 ELSE 0) < MaxWrites

Write ==
    /\ pc = "user" /\ ~ended /\ Room
    /\ Accept("user")
    /\ UNCHANGED <<corked, constructed, destroyed, endVars, cur, ticks,
                   sinkVars, issued, called, endCalled, events>>

(* write() after end(): the error arrives in a tick.  Bound: one at a time. *)
WriteAfterEnd ==
    /\ pc = "user" /\ ended /\ ~SomeTick("late")
    /\ ticks' = Defer(Tick("late", 0))
    /\ UNCHANGED <<nw, length, corked, needDrain, constructed, writing,
                   destroyed, bufVars, endVars, pc, arg, cont, cur, sinkVars,
                   histVars>>

(* _doEnd with or without a chunk, for end() call number id.               *)
DoEnd(chunk, id) ==
    /\ endCb' = id
    /\ IF chunk
       THEN Accept("endRest")
       ELSE /\ pc' = "endRest"
            /\ UNCHANGED <<nw, length, owed, bufVars, needDrain, writing, arg,
                           cont>>

End ==
    /\ pc = "user" /\ ends < MaxEnds
    /\ ends' = ends + 1
    /\ \E chunk \in BOOLEAN :
        /\ chunk => IF constructed THEN Room ELSE nw < MaxWrites
        /\ \/ /\ ended
              /\ ticks' = Defer(Tick("endcb", ends + 1))
              /\ UNCHANGED <<nw, length, owed, bufVars, needDrain, writing, pc,
                             arg, cont, pendEnd, endCb>>
           \/ /\ ~ended /\ ~constructed
              /\ pendEnd' = [chunk |-> chunk, id |-> ends + 1]
              /\ UNCHANGED <<nw, length, owed, bufVars, needDrain, writing, pc,
                             arg, cont, ticks, endCb>>
           \/ /\ ~ended /\ constructed
              /\ DoEnd(chunk, ends + 1)
              /\ UNCHANGED <<ticks, pendEnd>>
    /\ UNCHANGED <<corked, constructed, destroyed, ended, ending, finished,
                   cur, sinkVars, issued, called, endCalled, events>>

CorkCall ==
    /\ Cork /\ pc = "user" /\ corked = 0  \* bound: no nested corks
    /\ corked' = corked + 1
    /\ UNCHANGED <<nw, length, needDrain, constructed, writing, destroyed,
                   bufVars, endVars, callVars, sinkVars, histVars>>

(* _writev has called back: lengths, callbacks, and the drain check or the *)
(* error event.                                                            *)
BatchDone(b, o) ==
    /\ length' = Release(b)
    /\ called' = called \cup b
    /\ events' = IF Ok(o) THEN events ELSE events \cup {"error"}
    /\ cur' = IF Ok(o) THEN <<"check">> \o cur ELSE cur

(* uncork() with a non-empty _corkedBuffer: _flushCorkedBuffer.            *)
Uncork ==
    /\ Cork /\ pc = "user" /\ corked > 0
    /\ corked' = corked - 1
    /\ corkedBuf' = IF corked = 1 THEN <<>> ELSE corkedBuf
    /\ \/ /\ corked > 1 \/ corkedBuf = <<>>
          /\ UNCHANGED <<length, writeBuf, writing, pc, arg, cont, cur,
                         batches, issued, called, events>>
       \/ /\ corked = 1 /\ Writev /\ Len(corkedBuf) > 1
          /\ issued' = issued \o corkedBuf
          /\ \E o \in Outcomes :
                IF Sync(o)
                THEN /\ BatchDone(SeqToSet(corkedBuf), o)
                     /\ UNCHANGED batches
                ELSE /\ batches' = batches \cup {SeqToSet(corkedBuf)}
                     /\ UNCHANGED <<length, called, events, cur>>
          /\ UNCHANGED <<writeBuf, writing, pc, arg, cont>>
       \/ /\ corked = 1 /\ corkedBuf # <<>>
          /\ ~(Writev /\ Len(corkedBuf) > 1)
          /\ writeBuf' = writeBuf \o Rest(corkedBuf)
          /\ writing' = TRUE
          /\ pc' = "doWrite" /\ arg' = Head(corkedBuf) /\ cont' = "user"
          /\ UNCHANGED <<length, cur, batches, issued, called, events>>
    /\ UNCHANGED <<nw, needDrain, constructed, destroyed, pendCons, endVars,
                   ticks, inflight, pending, endCalled, owed>>

BatchCallback ==
    /\ pc = "user"
    /\ \E b \in batches, o \in {o \in Outcomes : ~Sync(o)} :
        /\ batches' = batches \ {b}
        /\ BatchDone(b, o)
    /\ UNCHANGED <<nw, corked, needDrain, constructed, writing, destroyed,
                   bufVars, endVars, pc, arg, cont, ticks, inflight, pending,
                   issued, endCalled, owed>>

-----------------------------------------------------------------------------
(* _doWrite(arg): the sink takes the write and calls back now or later.    *)
DoWrite ==
    /\ pc = "doWrite"
    /\ issued' = Append(issued, arg)
    /\ arg' = 0
    /\ \E o \in Outcomes :
        /\ IF Sync(o)
           THEN /\ length' = Release({arg})
                /\ ticks' = Defer(Tick(o, arg))
                /\ UNCHANGED inflight
           ELSE /\ inflight' = inflight \cup {arg}
                /\ UNCHANGED <<length, ticks>>
        /\ pc' = IF o = "sync" THEN "drain" ELSE cont
    /\ UNCHANGED <<nw, corked, needDrain, constructed, writing, destroyed,
                   bufVars, endVars, cont, cur, batches, pending, called,
                   endCalled, events, owed>>

(* The sink calls back for a write it did not complete within _write.      *)
WriteCallback ==
    /\ pc = "user"
    /\ \E w \in inflight, o \in {o \in Outcomes : ~Sync(o)} :
        /\ inflight' = inflight \ {w}
        /\ length' = Release({w})
        /\ ticks' = Defer(Tick(o, w))
    /\ UNCHANGED <<nw, corked, needDrain, constructed, writing, destroyed,
                   bufVars, endVars, pc, arg, cont, cur, batches, pending,
                   histVars>>

(* _maybeFinish, given the values _ending and writing have when it runs.   *)
CanFinishMutant(end, busy) == end /\ ~finished /\ writeBuf = <<>>
CanFinish(end, busy) == end /\ ~finished /\ ~busy /\ writeBuf = <<>>

FinishTick(o) == Tick(IF Ok(o) THEN "finish" ELSE "finishErr", 0)

MaybeFinish(end, busy) ==
    IF CanFinish(end, busy)
    THEN /\ ending' = FALSE
         /\ \E o \in Outcomes :
               IF Sync(o)
               THEN /\ finished' = TRUE
                    /\ ticks' = Defer(FinishTick(o))
                    /\ UNCHANGED pending
               ELSE /\ pending' = pending \cup {"final"}
                    /\ UNCHANGED <<finished, ticks>>
    ELSE ending' = end /\ UNCHANGED <<finished, ticks, pending>>

DrainWriteBuffer ==
    /\ pc = "drain"
    /\ \/ /\ writeBuf # <<>>
          /\ arg' = Head(writeBuf) /\ writeBuf' = Tail(writeBuf)
          /\ writing' = TRUE
          /\ pc' = "doWrite"
          /\ UNCHANGED <<ending, finished, ticks, pending>>
       \/ /\ writeBuf = <<>>
          /\ writing' = FALSE
          /\ MaybeFinish(ending, FALSE)
          /\ pc' = cont
          /\ UNCHANGED <<arg, writeBuf>>
    /\ UNCHANGED <<nw, length, corked, needDrain, constructed, destroyed,
                   corkedBuf, pendCons, ended, pendEnd, endCb, ends, cont, cur,
                   inflight, batches, histVars>>

(* The rest of _doEnd, after the write of its chunk.                       *)
EndRest ==
    /\ pc = "endRest"
    /\ ended' = TRUE
    /\ MaybeFinish(TRUE, writing)
    /\ pc' = "user"
    /\ UNCHANGED <<nw, length, corked, needDrain, constructed, writing,
                   destroyed, bufVars, pendEnd, endCb, ends, arg, cont, cur,
                   inflight, batches, histVars>>

FinalCallback ==
    /\ pc = "user" /\ "final" \in pending
    /\ pending' = pending \ {"final"}
    /\ finished' = TRUE
    /\ \E o \in {o \in Outcomes : ~Sync(o)} :
          ticks' = Defer(FinishTick(o))
    /\ UNCHANGED <<nw, length, corked, needDrain, constructed, writing,
                   destroyed, bufVars, ended, ending, pendEnd, endCb, ends,
                   pc, arg, cont, cur, inflight, batches, histVars>>

-----------------------------------------------------------------------------
(* destroy(), whose callback emits 'error' and 'close' in two ticks.       *)
CloseTicks == <<Tick("close", 0)>>
ErrorTicks == <<Tick("error", 0), Tick("close", 0)>>

(* destroy(err) after its test: the ticks when there is no _destroy, or it  *)
(* calls back at once, with the error or without; else it is running.       *)
DestroyBody(queue, running) ==
    /\ destroyed' = TRUE
    /\ \/ ticks' = queue \o ErrorTicks /\ pending' = running
       \/ Destroy /\ ticks' = queue \o CloseTicks /\ pending' = running
       \/ /\ Destroy /\ \E o \in Outcomes : ~Sync(o)
          /\ ticks' = queue /\ pending' = running \cup {"destroy"}

DestroyCall ==
    /\ Destroy /\ pc = "user" /\ ~destroyed
    /\ DestroyBody(ticks, pending)
    /\ UNCHANGED <<nw, length, corked, needDrain, constructed, writing,
                   bufVars, endVars, pc, arg, cont, cur, inflight, batches,
                   histVars>>

DestroyCallback ==
    /\ pc = "user" /\ "destroy" \in pending
    /\ pending' = pending \ {"destroy"}
    /\ ticks' \in {ticks \o CloseTicks, ticks \o ErrorTicks}
    /\ UNCHANGED <<nw, length, corked, needDrain, constructed, writing,
                   destroyed, bufVars, endVars, pc, arg, cont, cur, inflight,
                   batches, histVars>>

(* The callback of _construct: destroy(err), or _maybeFlush up to          *)
(* _doWrite(first).  queue are the ticks that wait, running what the sink  *)
(* is doing.                                                               *)
Constructed(o, queue, running) ==
    /\ constructed' = TRUE
    /\ \/ /\ ~Ok(o)
          /\ \/ ~destroyed /\ DestroyBody(queue, running)
             \/ /\ destroyed
                /\ ticks' = queue /\ pending' = running /\ UNCHANGED destroyed
          /\ UNCHANGED <<pc, arg, cont, pendCons, writeBuf, writing>>
       \/ /\ Ok(o)
          /\ IF pendCons = <<>>
             THEN /\ pc' = "pendingEnd"
                  /\ UNCHANGED <<arg, cont, writeBuf, writing>>
             ELSE /\ pc' = "doWrite" /\ arg' = Head(pendCons)
                  /\ cont' = "pendingEnd"
                  /\ writeBuf' = writeBuf \o Rest(pendCons)
                  /\ writing' = TRUE
          /\ pendCons' = <<>>
          /\ ticks' = queue /\ pending' = running /\ UNCHANGED destroyed

ConstructCallback ==
    /\ pc = "user" /\ "construct" \in pending
    /\ \E o \in {o \in ConstructOutcomes : ~Sync(o)} :
          Constructed(o, ticks, pending \ {"construct"})
    /\ UNCHANGED <<nw, length, corked, needDrain, corkedBuf, endVars, cur,
                   inflight, batches, histVars>>

(* The rest of _maybeFlush: the end() that waited for _construct.          *)
PendingEnd ==
    /\ pc = "pendingEnd"
    /\ pendEnd' = NoEnd
    /\ IF pendEnd = NoEnd
       THEN /\ pc' = "user"
            /\ UNCHANGED <<nw, length, owed, bufVars, needDrain, writing, arg,
                           cont, endCb>>
       ELSE DoEnd(pendEnd.chunk, pendEnd.id)
    /\ UNCHANGED <<corked, constructed, destroyed, ended, ending, finished,
                   ends, cur, ticks, sinkVars, issued, called, endCalled,
                   events>>

-----------------------------------------------------------------------------
(* What runs of a nextTick callback after its first call of user code.     *)
RestOfTickNoCheckMutant(t) ==
    CASE t.kind \in {"async", "asyncErr"} -> <<"flush">>
      [] t.kind \in {"finish", "finishErr"} -> <<"close">>
      [] OTHER -> <<>>
RestOfTickNoFlushMutant(t) ==
    CASE t.kind = "sync" -> <<"check">>
      [] t.kind = "async" -> <<"checkFlush">>
      [] t.kind \in {"finish", "finishErr"} -> <<"close">>
      [] OTHER -> <<>>
RestOfTickNoEndMutant(t) ==
    CASE t.kind = "sync" -> <<"check">>
      [] t.kind = "async" -> <<"checkFlush">>
      [] t.kind = "asyncErr" -> <<"flush">>
      [] OTHER -> <<>>
RestOfTick(t) ==
    CASE t.kind = "sync" -> <<"check">>
      [] t.kind = "async" -> <<"checkFlush">>
      [] t.kind = "asyncErr" -> <<"flush">>
      [] t.kind \in {"finish", "finishErr"} -> <<"close">>
      [] OTHER -> <<>>

(* The events a nextTick callback emits before that.                        *)
EventsOf(t) ==
    CASE t.kind \in {"syncErr", "asyncErr", "late", "error"} -> {"error"}
      [] t.kind = "finishErr" -> {"error", "finish"}
      [] t.kind \in {"finish", "close"} -> {t.kind}
      [] OTHER -> {}

(* The next nextTick callback, up to its first call of user code.          *)
RunTick ==
    /\ pc = "user" /\ cur = <<>> /\ ticks # <<>>
    /\ LET t == Head(ticks)
           rest == Tail(ticks)
       IN  \/ /\ t.kind = "construct"
              /\ \E o \in ConstructOutcomes :
                    IF Sync(o)
                    THEN Constructed(o, rest, pending)
                    ELSE /\ pending' = pending \cup {"construct"}
                         /\ ticks' = rest
                         /\ UNCHANGED <<constructed, destroyed, pc, arg, cont,
                                        pendCons, writeBuf, writing>>
              /\ UNCHANGED <<cur, called, endCalled, events>>
           \/ /\ t.kind # "construct"
              /\ ticks' = rest
              /\ cur' = RestOfTick(t)
              /\ called' = IF t.kind \in Completions
                           THEN called \cup {t.w} ELSE called
              /\ endCalled' = IF t.kind = "endcb"
                              THEN endCalled \cup {t.w} ELSE endCalled
              /\ events' = events \cup EventsOf(t)
              /\ UNCHANGED <<constructed, destroyed, pc, arg, cont, pendCons,
                             writeBuf, writing, pending>>
    /\ UNCHANGED <<nw, length, corked, needDrain, corkedBuf, endVars,
                   inflight, batches, issued, owed>>

(* The drain check of a callback.  When 'drain' is not emitted no user     *)
(* code runs before the _drainWriteBuffer that may follow.                 *)
DrainDue == needDrain /\ length <= HWM

DrainCheck ==
    /\ pc = "user" /\ cur # <<>> /\ Head(cur) \in {"check", "checkFlush"}
    /\ \/ /\ DrainDue
          /\ needDrain' = FALSE /\ owed' = FALSE
          /\ events' = events \cup {"drain"}
          /\ cur' = (IF Head(cur) = "check" THEN <<>> ELSE <<"flush">>)
                      \o Tail(cur)
          /\ UNCHANGED <<pc, cont>>
       \/ /\ ~DrainDue
          /\ cur' = Tail(cur)
          /\ IF Head(cur) = "check"
             THEN UNCHANGED <<pc, cont>>
             ELSE pc' = "drain" /\ cont' = "user"
          /\ UNCHANGED <<needDrain, owed, events>>
    /\ UNCHANGED <<nw, length, corked, constructed, writing, destroyed,
                   bufVars, endVars, arg, ticks, sinkVars, issued, called,
                   endCalled>>

FlushPart ==
    /\ pc = "user" /\ cur # <<>> /\ Head(cur) = "flush"
    /\ cur' = Tail(cur)
    /\ pc' = "drain" /\ cont' = "user"
    /\ UNCHANGED <<nw, length, corked, needDrain, constructed, writing,
                   destroyed, bufVars, endVars, arg, ticks, sinkVars, histVars>>

(* After the listeners of 'finish': 'close' in a tick, then _endCallback.  *)
ClosePart ==
    /\ pc = "user" /\ cur # <<>> /\ Head(cur) = "close"
    /\ cur' = Tail(cur)
    /\ ticks' = Defer(Tick("close", 0))
    /\ endCalled' = endCalled \cup {endCb}
    /\ UNCHANGED <<nw, length, corked, needDrain, constructed, writing,
                   destroyed, bufVars, endVars, pc, arg, cont, sinkVars,
                   issued, called, events, owed>>

UserStep == Write \/ WriteAfterEnd \/ End \/ CorkCall \/ Uncork \/ DestroyCall
SinkStep == \/ WriteCallback \/ BatchCallback \/ FinalCallback
            \/ DestroyCallback \/ ConstructCallback
CallStep == DoWrite \/ DrainWriteBuffer \/ EndRest \/ PendingEnd
TickStep == RunTick \/ DrainCheck \/ FlushPart \/ ClosePart

Next == UserStep \/ SinkStep \/ CallStep \/ TickStep

Spec == Init /\ [][Next]_vars

(* The calls in progress return, the main loop runs its ticks, and a sink  *)
(* calls back for what it was given.                                       *)
Fairness == /\ WF_vars(CallStep)
            /\ WF_vars(TickStep)
            /\ WF_vars(WriteCallback)
            /\ WF_vars(BatchCallback)
            /\ WF_vars(FinalCallback)
            /\ WF_vars(ConstructCallback)
FairSpec == Spec /\ Fairness
-----------------------------------------------------------------------------
TickKinds == Completions \cup {"construct", "late", "finish", "finishErr",
                                "close", "error", "endcb"}
(* The tick of a completion is about a write, that of a late end() about   *)
(* its number.                                                             *)
TickSet == [kind : Completions, w : Writes]
             \cup [kind : {"endcb"}, w : 0..MaxEnds]
             \cup [kind : TickKinds \ (Completions \cup {"endcb"}), w : {0}]

FlagTypes ==
    /\ needDrain \in BOOLEAN /\ constructed \in BOOLEAN /\ writing \in BOOLEAN
    /\ ended \in BOOLEAN /\ ending \in BOOLEAN /\ finished \in BOOLEAN
    /\ destroyed \in BOOLEAN /\ owed \in BOOLEAN
QueueTypes ==
    /\ nw \in 0..MaxWrites /\ corked \in Nat
    /\ corkedBuf \in Seq(Writes) /\ writeBuf \in Seq(Writes)
    /\ pendCons \in Seq(Writes) /\ issued \in Seq(Writes)
EndTypes ==
    /\ pendEnd \in [chunk : BOOLEAN, id : 0..MaxEnds]
    /\ pendEnd.chunk => nw < MaxWrites
    /\ endCb \in 0..MaxEnds /\ ends \in 0..MaxEnds
Parts == {"check", "checkFlush", "flush", "close"}
CallTypes ==
    /\ pc \in {"user", "doWrite", "drain", "pendingEnd", "endRest"}
    /\ cont \in {"user", "pendingEnd", "endRest"}
    /\ arg \in 0..MaxWrites
    /\ pc = "doWrite" => arg \in Writes
    /\ cur \in Seq(Parts)
    /\ ticks \in Seq(TickSet)
SinkTypes ==
    /\ inflight \subseteq Writes /\ called \subseteq Writes
    /\ batches \subseteq SUBSET Writes
    /\ pending \subseteq {"construct", "final", "destroy"}
    /\ endCalled \subseteq 0..MaxEnds
    /\ events \subseteq {"drain", "finish", "close", "error"}

(* The variables keep the ranges the code reading them expects: a queue    *)
(* holds accepted writes, a deferred end() has its arguments, and _doWrite *)
(* is never called without a write.                                        *)
TypeOK == FlagTypes /\ QueueTypes /\ EndTypes /\ CallTypes /\ SinkTypes

(* The write _doWrite is about to hand to the sink.                        *)
Handing == IF pc = "doWrite" THEN <<arg>> ELSE <<>>
Buffered == SeqToSet(corkedBuf) \cup SeqToSet(writeBuf) \cup SeqToSet(pendCons)
              \cup SeqToSet(Handing)

(* Only one _write runs at a time (writable.ts:271); without cork().       *)
SerialWrites == \A v, w \in inflight : v = w

(* The sink gets the writes in the order the stream accepted them, none    *)
(* twice and none skipped (writable.ts:1, the FIFO drain queue).           *)
FifoDispatch == \A i \in DOMAIN issued : issued[i] = i

(* However cork, uncork, _writev, _construct and the write lock move it,   *)
(* an accepted write is in exactly one queue or went to the sink once, and *)
(* writableLength is the size of what the stream holds: nothing is counted *)
(* twice or forgotten on any of the completion paths.                      *)
Conservation ==
    LET all == corkedBuf \o writeBuf \o pendCons \o Handing \o issued
    IN  /\ Len(all) = nw /\ SeqToSet(all) = 1..nw
        /\ length = Total(Buffered \cup inflight \cup UNION batches)

(* The write callbacks run in the order of the writes, whichever of them   *)
(* completed within _write and whichever later (writable.ts:136-184).      *)
CallbackOrder == \E n \in 0..nw : called = 1..n

(* 'finish' comes after the callback of every write the stream accepted.   *)
FinishLast == "finish" \in events => called = 1..nw

(* No write fails within _write, which would leave the lock taken.         *)
NoStuckLock == []~SomeTick("syncErr")

(* A write() that returned false is followed by 'drain', or by the error   *)
(* of a write, after which _doWrite leaves the drain check out; a write()  *)
(* refused while _construct runs is not.                                   *)
DrainFollows ==
    NoStuckLock /\ []constructed => (owed ~> (~owed \/ "error" \in events))

(* The callback of every write runs.                                       *)
CallbacksRun == NoStuckLock => \A w \in Writes : (nw >= w) ~> (w \in called)

(* A stream that was ended emits 'finish'.                                 *)
FinishFollows == NoStuckLock => (ended ~> ("finish" \in events))

(* The callback given to end() runs, for each end() call that reached      *)
(* _doEnd or found the stream ended: one that waits for _construct may be  *)
(* replaced by a later one.                                                *)
EndTaken(i) == endCb = i \/ \E j \in DOMAIN ticks : ticks[j] = Tick("endcb", i)
EndCallbacksRun ==
    NoStuckLock => \A i \in 1..MaxEnds : EndTaken(i) ~> (i \in endCalled)

(* What the stream promises, seen through its queues.                      *)
Sink == INSTANCE FifoSink WITH
    queue <- Handing \o writeBuf \o pendCons,
    last <- nw,
    busy <- IF inflight = {} THEN 0 ELSE CHOOSE w \in inflight : TRUE,
    closing <- ended

ImplementsSink == Sink!AbsSpec
=============================================================================
