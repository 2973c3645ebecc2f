------------------------------- MODULE Duplex -------------------------------
(***************************************************************************)
(* The writable half of packages/node/stream/src/duplex.ts, which has a    *)
(* write queue of its own, and what transform.ts adds to it.               *)
(*                                                                         *)
(* Every call runs to its end but where it calls user code: there cur      *)
(* holds the rest of it.  A sink, _transform, _final or _flush that calls  *)
(* back before it returns is one whose callback is the next step.  ticks   *)
(* is the FIFO of nextTick callbacks, and the k-th write accepted is k.    *)
(***************************************************************************)
EXTENDS Integers, FiniteSets, FiniteSetsExt, SequencesExt

CONSTANTS
    MaxWrites,  \* bound: writes accepted in a behaviour
    MaxEnds,    \* bound: calls of end() by the user
    Size,       \* chunkLen of each write
    HWM,        \* writableHighWaterMark
    Uses        \* what the stream is and what its user does

Writes == 1..MaxWrites
Null == 0  \* the end of the output of a Transform

ASSUME BoundAssumption == MaxWrites \in Nat /\ MaxEnds \in Nat
ASSUME SizeAssumption == Size \in [Writes -> Nat] /\ HWM \in Nat
ASSUME UseAssumption ==
    Uses \subseteq [transform : BOOLEAN,  \* a Transform
                    ownFinal : BOOLEAN,   \* with a final of its user
                    halfOpen : BOOLEAN,   \* allowHalfOpen
                    corks : BOOLEAN,      \* cork() is called
                    fails : BOOLEAN,      \* the sink may fail
                    reenters : BOOLEAN]   \* 'drain' and 'error' have listeners
                                          \* that call the stream

VARIABLES
    use,
    nw,        \* number of writes accepted so far
    length,    \* writableLength
    corked,    \* writableCorked
    needDrain, \* writableNeedDrain
    corkedBuf, \* _duplexCorkedBuffer
    writing,   \* _duplexWriting
    queue,     \* _duplexWriteQueue
    pendEnd,   \* _pendingEndCb: that of which end() call, 0 for none
    ends,      \* number of calls of end() so far
    ended, finished,
    ticks, cur,
    inflight,  \* writes at the sink from _duplexStartWrite
    flushed,   \* writes at the sink from uncork()
    finals,    \* calls of doFinal on their way
    readEnd,   \* the readable half has emitted 'end'
    out,       \* history: what a Transform pushed
    issued,    \* history: the writes in the order the sink got them
    called,    \* history: the writes whose callback has run
    events,    \* history: the events emitted
    owed       \* history: write() returned false, no 'drain' since

bufVars  == <<nw, length, corked, needDrain, corkedBuf, writing, queue>>
endVars  == <<pendEnd, ends, ended, finished, finals, readEnd>>
sinkVars == <<inflight, flushed, out, issued>>
vars == <<use, bufVars, endVars, sinkVars, ticks, cur, called, events, owed>>

Init ==
    /\ use \in Uses
    /\ nw = 0 /\ length = 0 /\ corked = 0 /\ needDrain = FALSE
    /\ corkedBuf = <<>> /\ writing = FALSE /\ queue = <<>>
    /\ pendEnd = 0 /\ ends = 0 /\ ended = FALSE /\ finished = FALSE
    /\ finals = {} /\ readEnd = FALSE
    /\ ticks = <<>> /\ cur = <<>>
    /\ inflight = {} /\ flushed = {} /\ out = <<>> /\ issued = <<>>
    /\ called = {} /\ events = {} /\ owed = FALSE

Tick(kind, n) == [kind |-> kind, n |-> n]
Defer(t) == Append(ticks, t)

Total(S) == MapThenSumSet(LAMBDA w : Size[w], S)

(* The part of a call that waits for user code to return.                  *)
Part == IF cur = <<>> THEN "none" ELSE Head(cur)

(* Where the user may call the stream: in the event loop, in the callback  *)
(* of a write and, if its listeners do, in those of 'drain' and 'error'.   *)
UserRuns == Part \in {"none", "next", "release"}
                      \cup (IF use.reenters THEN {"settle", "errNext"} ELSE {})

-----------------------------------------------------------------------------
LockedMutant == inflight # {}
Locked == writing

(* write() before end(): what the user is told, and the corked buffer, the *)
(* queue behind the write in progress, or the sink.                        *)
Accept ==
    LET w == nw + 1
        below == length + Size[w] < HWM
    IN  /\ nw' = w
        /\ length' = length + Size[w]
        /\ owed' = (owed \/ ~below)
        /\ needDrain' = (needDrain \/ (corked = 0 /\ ~below))
        /\ corkedBuf' = IF corked > 0 THEN Append(corkedBuf, w) ELSE corkedBuf
        /\ queue' = IF corked = 0 /\ Locked THEN Append(queue, w) ELSE queue
        /\ IF corked = 0 /\ ~Locked
           THEN /\ writing' = TRUE
                /\ inflight' = inflight \cup {w}
                /\ issued' = Append(issued, w)
           ELSE UNCHANGED <<writing, inflight, issued>>
        /\ UNCHANGED corked

Write ==
    /\ UserRuns /\ ~ended /\ nw < MaxWrites
    /\ Accept
    /\ UNCHANGED <<use, endVars, flushed, out, ticks, cur, called, events>>

(* write() after end().  Bound: one such error at a time.                  *)
LateTick == Tick("late", 0)
WriteAfterEnd ==
    /\ UserRuns /\ ended /\ LateTick \notin ToSet(ticks)
    /\ ticks' = Defer(LateTick)
    /\ UNCHANGED <<use, bufVars, endVars, sinkVars, cur, called, events, owed>>

(* doFinal: _final, which in a Transform is _flush unless its user gave    *)
(* one.                                                                    *)
DoFinal(id) ==
    finals' = finals \cup
        {[stage |-> IF use.transform /\ ~use.ownFinal THEN "flush" ELSE "final",
          id |-> id, err |-> FALSE]}

(* The rest of end(), after the write of its chunk.                        *)
BusyMutant == inflight' # {}
Busy == inflight' # {} \/ writing' \/ queue' # <<>>

EndBody(id) ==
    /\ ended' = TRUE
    /\ IF Busy
       THEN pendEnd' = id /\ UNCHANGED finals
       ELSE DoFinal(id) /\ UNCHANGED pendEnd

(* end(), of the first call with a chunk or without.                       *)
End ==
    /\ UserRuns /\ ends < MaxEnds
    /\ ends' = ends + 1
    /\ \/ ~ended /\ nw < MaxWrites /\ Accept
       \/ UNCHANGED <<bufVars, inflight, issued, owed>>
    /\ EndBody(ends + 1)
    /\ UNCHANGED <<use, finished, readEnd, flushed, out, ticks, cur, called,
                   events>>

(* 'end' of the readable half, of a Transform after its output: without    *)
(* allowHalfOpen a tick ends the writable half.                            *)
ReadableEnd ==
    /\ cur = <<>> /\ ~readEnd
    /\ use.transform => Null \in ToSet(out)
    /\ readEnd' = TRUE
    /\ ticks' = IF use.halfOpen \/ ended THEN ticks ELSE Defer(Tick("autoEnd", 0))
    /\ UNCHANGED <<use, bufVars, pendEnd, ends, ended, finished, finals,
                   sinkVars, cur, called, events, owed>>

-----------------------------------------------------------------------------
(* The sink, or _transform and its push, is done with the write w.         *)
ReleaseMutant(w) == length - 1
Release(w) == length - Size[w]
Output(w, ok) == IF ok /\ use.transform THEN Append(out, w) ELSE out
Answers == {TRUE, ~use.fails}

WriteCallback ==
    /\ \E w \in inflight, ok \in Answers :
        /\ inflight' = inflight \ {w}
        /\ length' = Release(w)
        /\ out' = Output(w, ok)
        /\ ticks' = Defer(Tick(IF ok THEN "ok" ELSE "err", w))
    /\ UNCHANGED <<use, nw, corked, needDrain, corkedBuf, writing, queue,
                   endVars, flushed, issued, cur, called, events, owed>>

(* _duplexStartWrite of the head of the queue.                             *)
StartNext ==
    /\ queue' = Tail(queue)
    /\ inflight' = inflight \cup {Head(queue)}
    /\ issued' = Append(issued, Head(queue))

SettleMutant == UNCHANGED <<pendEnd, finals>>
Settle ==
    IF inflight = {} /\ pendEnd # 0
    THEN pendEnd' = 0 /\ DoFinal(pendEnd)
    ELSE UNCHANGED <<pendEnd, finals>>

(* The tick of a write that succeeded, after its callback: the next write  *)
(* or, when there is none, 'drain' and then a pending end.                 *)
DrainDueMutant == needDrain /\ ~ended
DrainDue == needDrain /\ length <= HWM
NextPart ==
    /\ Part = "next"
    /\ \/ /\ queue # <<>>
          /\ StartNext
          /\ cur' = Tail(cur)
          /\ UNCHANGED <<writing, needDrain, pendEnd, finals, events, owed>>
       \/ /\ queue = <<>> /\ DrainDue
          /\ writing' = FALSE /\ needDrain' = FALSE
          /\ events' = events \cup {"drain"} /\ owed' = FALSE
          /\ cur' = <<"settle">> \o Tail(cur)
          /\ UNCHANGED <<queue, inflight, issued, pendEnd, finals>>
       \/ /\ queue = <<>> /\ ~DrainDue
          /\ writing' = FALSE
          /\ Settle
          /\ cur' = Tail(cur)
          /\ UNCHANGED <<queue, inflight, issued, needDrain, events, owed>>
    /\ UNCHANGED <<use, nw, length, corked, corkedBuf, ends, ended, finished,
                   readEnd, flushed, out, ticks, called>>

SettlePart ==
    /\ Part = "settle"
    /\ cur' = Tail(cur)
    /\ Settle
    /\ UNCHANGED <<use, bufVars, ends, ended, finished, readEnd, sinkVars,
                   ticks, called, events, owed>>

(* The tick of a write that failed, after its callback: 'error', and after *)
(* its listeners the next write.                                           *)
ReleasePart ==
    /\ Part = "release"
    /\ cur' = <<"errNext">> \o Tail(cur)
    /\ writing' = FALSE
    /\ events' = events \cup {"error"}
    /\ UNCHANGED <<use, nw, length, corked, needDrain, corkedBuf, queue,
                   endVars, sinkVars, ticks, called, owed>>

ErrNextPart ==
    /\ Part = "errNext"
    /\ cur' = Tail(cur)
    /\ IF queue # <<>>
       THEN StartNext /\ writing' = TRUE
       ELSE UNCHANGED <<queue, inflight, issued, writing>>
    /\ UNCHANGED <<use, nw, length, corked, needDrain, corkedBuf, endVars,
                   flushed, out, ticks, called, events, owed>>

-----------------------------------------------------------------------------
(* The tick of 'finish' emits the error of the user's _final (and that of a *)
(* _flush after it is dropped), else that of _flush; the _final of Duplex   *)
(* itself does not fail.                                                    *)
FinishTick(f, ok) ==
    LET fails == IF use.transform /\ use.ownFinal THEN f.err
                 ELSE (use.transform \/ use.ownFinal) /\ ~ok
    IN  Tick(IF fails THEN "finishErr" ELSE "finish", f.id)

(* _final or _flush calls back; a Transform ends its output after _flush,  *)
(* also when its user replaced _final (_doPrefinishHooks).                 *)
FinalCallback ==
    /\ \E f \in finals, ok \in Answers :
        /\ finished' = TRUE
        /\ out' = IF f.stage = "flush" /\ ok THEN Append(out, Null) ELSE out
        /\ IF f.stage = "final" /\ use.transform
           THEN /\ finals' = (finals \ {f})
                     \cup {[f EXCEPT !.stage = "flush", !.err = ~ok]}
                /\ UNCHANGED ticks
           ELSE /\ finals' = finals \ {f}
                /\ ticks' = Defer(FinishTick(f, ok))
    /\ UNCHANGED <<use, bufVars, pendEnd, ends, ended, readEnd, inflight,
                   flushed, issued, cur, called, events, owed>>

(* The next tick, up to the first user code it calls.                      *)
EventsOf(k) == CASE k = "late" -> {"error"}
                 [] k = "finish" -> {"finish"}
                 [] k = "finishErr" -> {"finish", "error"}
                 [] k \in {"close", "drain"} -> {k}
                 [] OTHER -> {}

RunTick ==
    /\ cur = <<>> /\ ticks # <<>>
    /\ LET t == Head(ticks)
       IN  /\ events' = events \cup EventsOf(t.kind)
           /\ owed' = (owed /\ t.kind # "drain")
           /\ called' = IF t.kind \in {"ok", "err"} THEN called \cup {t.n}
                        ELSE called
           /\ cur' = CASE t.kind = "ok" -> <<"next">>
                       [] t.kind = "err" -> <<"release">>
                       [] OTHER -> <<>>
           /\ ticks' = IF t.kind \in {"finish", "finishErr"}
                       THEN Append(Tail(ticks), Tick("close", 0))
                       ELSE Tail(ticks)
           /\ UNCHANGED <<bufVars, inflight, issued>>
           /\ IF t.kind = "autoEnd"
              THEN EndBody(MaxEnds + 1)
              ELSE UNCHANGED <<ended, pendEnd, finals>>
    /\ UNCHANGED <<use, ends, finished, readEnd, flushed, out>>

-----------------------------------------------------------------------------
CorkCall ==
    /\ use.corks /\ UserRuns /\ corked = 0  \* bound: no nested corks
    /\ corked' = 1
    /\ UNCHANGED <<use, nw, length, needDrain, corkedBuf, writing, queue,
                   endVars, sinkVars, ticks, cur, called, events, owed>>

(* uncork() gives the sink all the corked writes, past the queue; the rest *)
(* of the call runs after those the sink answers at once.                  *)
Uncork ==
    /\ UserRuns /\ corked > 0
    /\ corked' = 0 /\ corkedBuf' = <<>>
    /\ flushed' = flushed \cup ToSet(corkedBuf)
    /\ issued' = issued \o corkedBuf
    /\ cur' = IF corkedBuf = <<>> THEN cur ELSE <<"uncorked">> \o cur
    /\ UNCHANGED <<use, nw, length, needDrain, writing, queue, endVars,
                   inflight, out, ticks, called, events, owed>>

FlushCallback ==
    /\ \E w \in flushed, ok \in Answers :
        /\ flushed' = flushed \ {w}
        /\ length' = Release(w)
        /\ out' = Output(w, ok)
        /\ called' = called \cup {w}
        /\ events' = IF ok THEN events ELSE events \cup {"error"}
    /\ UNCHANGED <<use, nw, corked, needDrain, corkedBuf, writing, queue,
                   endVars, inflight, issued, ticks, cur, owed>>

UncorkRest ==
    /\ Part = "uncorked"
    /\ cur' = Tail(cur)
    /\ needDrain' = (needDrain /\ ~DrainDue)
    /\ ticks' = IF DrainDue THEN Defer(Tick("drain", 0)) ELSE ticks
    /\ UNCHANGED <<use, nw, length, corked, corkedBuf, writing, queue, endVars,
                   sinkVars, called, events, owed>>

UserStep == Write \/ WriteAfterEnd \/ End \/ CorkCall \/ Uncork
SinkStep == WriteCallback \/ FlushCallback \/ FinalCallback
CallStep == NextPart \/ SettlePart \/ ReleasePart \/ ErrNextPart \/ UncorkRest

Next == UserStep \/ ReadableEnd \/ SinkStep \/ CallStep \/ RunTick

Spec == Init /\ [][Next]_vars

(* Calls return, ticks run, and the sink calls back.                       *)
Fairness == /\ WF_vars(CallStep) /\ WF_vars(RunTick)
            /\ WF_vars(WriteCallback) /\ WF_vars(FinalCallback)
FairSpec == Spec /\ Fairness
-----------------------------------------------------------------------------
(* A stream that is not corked, and not called by listeners of 'error'.    *)
Orderly == ~use.corks /\ ~(use.fails /\ use.reenters)

(* One write at a time is at the sink (duplex.ts:42, Gio refuses a second  *)
(* one), although the lock is passed on, and not taken anew, by the ticks  *)
(* of writes that complete within the call or later; and the sink gets the *)
(* writes in order, those made by listeners of 'drain' between two parts   *)
(* of a tick included (duplex.ts:183).                                     *)
SinkOrder == Orderly => /\ \A v, w \in inflight : v = w
                        /\ \A i \in DOMAIN issued : issued[i] = i

(* However corking, the queue and failures move it, an accepted write is   *)
(* in one place, and writableLength is the size of what is held.           *)
Conservation ==
    LET all == corkedBuf \o queue \o issued
    IN  /\ Len(all) = nw /\ ToSet(all) = 1..nw
        /\ length = Total(ToSet(corkedBuf \o queue) \cup inflight \cup flushed)

(* _final waits for every write that the queue, the sink or a tick has     *)
(* (duplex.ts:261): 'finish' comes after the callbacks of all of them, and *)
(* the output of a Transform ends after the results of those that did not  *)
(* fail, which are in order.  A listener of 'drain' can break this.        *)
OutputComplete ==
    ~use.corks /\ ~use.reenters =>
      /\ "finish" \in events => called = 1..nw
      /\ \A i \in DOMAIN out :
            /\ out[i] = Null => \A j \in i..Len(out) : out[j] = Null
            /\ out[i] = Null => inflight = {} /\ queue = <<>>
            /\ \A j \in 1..(i - 1) : out[i] # Null => out[j] < out[i]

(* A refused write() is followed by 'drain', or a write fails.             *)
DrainFollows == ~use.corks /\ owed ~> (~owed \/ "error" \in events)

(* A stream that was ended finishes, or a write fails; and every write's   *)
(* callback runs, also those queued behind one that failed.                *)
FinishFollows ==
    /\ ended ~> ({"finish", "error"} \cap events # {})
    /\ \A w \in Writes : (~use.corks /\ nw >= w) ~> (w \in called)
=============================================================================
