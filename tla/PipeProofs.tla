----------------------------- MODULE PipeProofs -----------------------------
(***************************************************************************)
(* Proofs about Pipe, for all sources, marks and bounds, and about the     *)
(* queue of NextTick, which its streams share.                             *)
(*                                                                         *)
(* The destination of a pipe is a Writable and its source a Readable that  *)
(* the pipe pauses and resumes, so the invariants of WritableProofs and of *)
(* ReadableProofs are used here as they stand: WP and RP are those modules *)
(* with the variables of the pipe.                                         *)
(***************************************************************************)
EXTENDS NextTick, Pipe, DataTheorems

RP == INSTANCE ReadableProofs WITH MaxTicks <- 0
WP == INSTANCE WritableProofs WITH
    MaxWrites <- MaxChunks, MaxEnds <- 1,
    Size <- [k \in 1..MaxChunks |-> 1], HWM <- WHWM,
    Outcomes <- WOutcomes, ConstructOutcomes <- {},
    Cork <- FALSE, Writev <- FALSE, Construct <- FALSE, Destroy <- WDestroy,
    nw <- wnw, length <- wlength, corked <- wcorked, needDrain <- wneedDrain,
    constructed <- wconstructed, writing <- wwriting, ended <- wended,
    ending <- wending, finished <- wfinished, destroyed <- wdestroyed,
    corkedBuf <- wcorkedBuf, writeBuf <- wwriteBuf, pendCons <- wpendCons,
    pendEnd <- wpendEnd, endCb <- wendCb, ends <- wends, pc <- wpc,
    arg <- warg, cont <- wcont, cur <- wcur, ticks <- wticks,
    inflight <- winflight, batches <- wbatches, pending <- wpending,
    issued <- wissued, called <- wcalled, endCalled <- wendCalled,
    events <- wevents, owed <- wowed

-----------------------------------------------------------------------------
(* The parameters of the pipe are ones of both streams.                    *)
LEMMA DestAssumptions ==
    /\ WP!BoundAssumption /\ WP!SizeAssumption /\ WP!OutcomeAssumption
    /\ WP!Uncorked
BY PipeAssumption
   DEF WP!BoundAssumption, WP!SizeAssumption, WP!OutcomeAssumption,
       WP!Uncorked, WP!Completions, WP!Writes

LEMMA SourceAssumptions == RP!BoundAssumption /\ RP!UseAssumption
BY PipeAssumption DEF RP!BoundAssumption, RP!UseAssumption

-----------------------------------------------------------------------------
(* The steps of the destination, and what they share, are those of the     *)
(* Writable the proofs are about.                                          *)
LEMMA SameTotal == \A S : W!Total(S) = WP!Total(S)
BY DEF W!Total, WP!Total, W!MapThenSumSet, WP!MapThenSumSet,
       W!MapThenFoldSet, WP!MapThenFoldSet

LEMMA SameVars ==
    /\ W!bufVars = WP!bufVars /\ W!endVars = WP!endVars
    /\ W!sinkVars = WP!sinkVars /\ W!callVars = WP!callVars
    /\ W!histVars = WP!histVars /\ W!vars = WP!vars
    /\ W!bufVars' = WP!bufVars' /\ W!endVars' = WP!endVars'
    /\ W!sinkVars' = WP!sinkVars' /\ W!callVars' = WP!callVars'
    /\ W!histVars' = WP!histVars' /\ W!vars' = WP!vars'
BY DEF W!bufVars, WP!bufVars, W!endVars, WP!endVars, W!sinkVars, WP!sinkVars,
       W!callVars, WP!callVars, W!histVars, WP!histVars, W!vars, WP!vars

LEMMA SameMaybeFinish ==
    \A end, busy : W!MaybeFinish(end, busy) <=> WP!MaybeFinish(end, busy)
BY Zenon
   DEF W!MaybeFinish, WP!MaybeFinish, W!CanFinish, WP!CanFinish, W!Sync,
       WP!Sync, W!FinishTick, WP!FinishTick, W!Ok, WP!Ok, W!Defer, WP!Defer,
       W!Tick, WP!Tick

LEMMA SameAccept == \A next : W!Accept(next) <=> WP!Accept(next)
BY Zenon
   DEF W!Accept, WP!Accept, W!BelowHWM, WP!BelowHWM, W!Locked, WP!Locked,
       W!Enqueue, WP!Enqueue

LEMMA SameWrite == W!Write => WP!Write
BY SameAccept
   DEF W!Write, WP!Write, W!Room, WP!Room, W!endVars, WP!endVars,
       W!sinkVars, WP!sinkVars
LEMMA SameEnd == W!End => WP!End
BY SameAccept, Zenon
   DEF W!End, WP!End, W!DoEnd, WP!DoEnd, W!Room, WP!Room, W!Defer, WP!Defer,
       W!Tick, WP!Tick, W!bufVars, WP!bufVars, W!sinkVars, WP!sinkVars

LEMMA SameDoWrite == W!DoWrite => WP!DoWrite
BY SameTotal
   DEF W!DoWrite, WP!DoWrite, W!Sync, WP!Sync, W!Release, WP!Release,
       W!Defer, WP!Defer, W!Tick, WP!Tick, W!bufVars, WP!bufVars, W!endVars,
       WP!endVars
LEMMA SameWriteCallback == W!WriteCallback => WP!WriteCallback
BY SameTotal
   DEF W!WriteCallback, WP!WriteCallback, W!Sync, WP!Sync, W!Release,
       WP!Release, W!Defer, WP!Defer, W!Tick, WP!Tick, W!bufVars, WP!bufVars,
       W!endVars, WP!endVars, W!histVars, WP!histVars

LEMMA SameDrain == W!DrainWriteBuffer => WP!DrainWriteBuffer
BY SameMaybeFinish
   DEF W!DrainWriteBuffer, WP!DrainWriteBuffer, W!histVars, WP!histVars
LEMMA SameEndRest == W!EndRest => WP!EndRest
BY SameMaybeFinish
   DEF W!EndRest, WP!EndRest, W!bufVars, WP!bufVars, W!histVars, WP!histVars
LEMMA SameFinal == W!FinalCallback => WP!FinalCallback
BY DEF W!FinalCallback, WP!FinalCallback, W!Sync, WP!Sync, W!FinishTick,
       WP!FinishTick, W!Ok, WP!Ok, W!Defer, WP!Defer, W!Tick, WP!Tick,
       W!bufVars, WP!bufVars, W!histVars, WP!histVars

LEMMA SameDestroy ==
    (W!DestroyCall => WP!DestroyCall) /\ (W!DestroyCallback => WP!DestroyCallback)
BY DEF W!DestroyCall, WP!DestroyCall, W!DestroyBody, WP!DestroyBody,
       W!DestroyCallback, WP!DestroyCallback,
       W!CloseTicks, WP!CloseTicks, W!ErrorTicks, WP!ErrorTicks, W!Tick,
       WP!Tick, W!Sync, WP!Sync, W!bufVars, WP!bufVars, W!endVars, WP!endVars,
       W!histVars, WP!histVars

LEMMA SameRunTick == W!RunTick => WP!RunTick
BY Zenon
   DEF W!RunTick, WP!RunTick, W!Constructed, WP!Constructed, W!DestroyBody,
       WP!DestroyBody, W!CloseTicks, WP!CloseTicks, W!Ok, WP!Ok,
       W!Sync, WP!Sync, W!ErrorTicks, WP!ErrorTicks, W!Tick, WP!Tick, W!Rest,
       WP!Rest, W!RestOfTick, WP!RestOfTick, W!EventsOf, WP!EventsOf,
       W!Completions, WP!Completions, W!endVars, WP!endVars
LEMMA SameDrainCheck == W!DrainCheck => WP!DrainCheck
BY DEF W!DrainCheck, WP!DrainCheck, W!DrainDue, WP!DrainDue, W!bufVars,
       WP!bufVars, W!endVars, WP!endVars, W!sinkVars, WP!sinkVars
LEMMA SameParts == (W!FlushPart => WP!FlushPart) /\ (W!ClosePart => WP!ClosePart)
BY DEF W!FlushPart, WP!FlushPart, W!ClosePart, WP!ClosePart, W!Defer,
       WP!Defer, W!Tick, WP!Tick, W!bufVars, WP!bufVars, W!endVars,
       WP!endVars, W!sinkVars, WP!sinkVars, W!histVars, WP!histVars

-----------------------------------------------------------------------------
(* So are those of the source.                                             *)
LEMMA SameSchedule ==
    /\ \A q : R!ScheduleReadable(q) <=> RP!ScheduleReadable(q)
    /\ R!Answered <=> RP!Answered
    /\ R!MayPush <=> RP!MayPush
    /\ R!FlowAgain = RP!FlowAgain
    /\ R!UserTurn <=> RP!UserTurn
BY Zenon
   DEF R!ScheduleReadable, RP!ScheduleReadable, R!Answered, RP!Answered,
       R!MayPush, RP!MayPush, R!Source, RP!Source, R!UserTurn, RP!UserTurn,
       R!InRead, RP!InRead, R!FlowAgain, RP!FlowAgain

LEMMA SamePush == R!Push => RP!Push
BY SameSchedule, Zenon
   DEF R!Push, RP!Push, R!PushBuffer, RP!PushBuffer, R!Numbers, RP!Numbers,
       R!Size, RP!Size, R!FlowDue, RP!FlowDue, R!stateVars, RP!stateVars,
       R!readVars, RP!readVars, R!handedVars, RP!handedVars, R!Source,
       RP!Source
LEMMA SamePushEnd == R!PushEnd => RP!PushEnd
BY SameSchedule, Zenon
   DEF R!PushEnd, RP!PushEnd, R!bufferVars, RP!bufferVars, R!readVars,
       RP!readVars, R!handedVars, RP!handedVars

LEMMA SameClose ==
    /\ \A q, p, err : R!DestroyBody(q, p, err) <=> RP!DestroyBody(q, p, err)
    /\ \A err : R!CloseTicks(err) = RP!CloseTicks(err)
    /\ \A q, p : R!Constructed(q, p) <=> RP!Constructed(q, p)
BY Zenon
   DEF R!DestroyBody, RP!DestroyBody, R!CloseTicks, RP!CloseTicks,
       R!Constructed, RP!Constructed
LEMMA SameSourceDestroy ==
    /\ R!DestroyCall => RP!DestroyCall
    /\ R!DestroyCallback => RP!DestroyCallback
    /\ R!ConstructCallback => RP!ConstructCallback
BY SameClose, SameSchedule, Zenon
   DEF R!DestroyCall, RP!DestroyCall, R!DestroyCallback, RP!DestroyCallback,
       R!ConstructCallback, RP!ConstructCallback, R!InRead, RP!InRead,
       R!sourceVars, RP!sourceVars, R!bufferVars, RP!bufferVars, R!stateVars,
       RP!stateVars, R!readableVars, RP!readableVars, R!readVars,
       RP!readVars, R!handedVars, RP!handedVars

LEMMA SameOnData == R!OnData => RP!OnData
BY SameSchedule, Zenon
   DEF R!OnData, RP!OnData, R!EnterFlow, RP!EnterFlow, R!Consumer,
       RP!Consumer, R!sourceVars, RP!sourceVars, R!bufferVars, RP!bufferVars,
       R!stateVars, RP!stateVars, R!readVars, RP!readVars, R!handedVars,
       RP!handedVars

LEMMA SameFlow ==
    /\ R!FlowHead => RP!FlowHead
    /\ R!FlowData => RP!FlowData
    /\ R!FlowRead => RP!FlowRead
<1>1. R!AskSource <=> RP!AskSource
    BY Zenon DEF R!AskSource, RP!AskSource, R!Source, RP!Source
<1>2. R!FlowHead => RP!FlowHead
    BY <1>1, SameSchedule, Zenon
       DEF R!FlowHead, RP!FlowHead, R!LoopOn, RP!LoopOn, R!EndDue, RP!EndDue,
           R!bufferVars, RP!bufferVars, R!readableVars, RP!readableVars,
           R!readVars, RP!readVars
<1>3. (R!FlowData => RP!FlowData) /\ (R!FlowRead => RP!FlowRead)
    BY SameSchedule, Zenon
       DEF R!FlowData, RP!FlowData, R!FlowRead, RP!FlowRead, R!sourceVars,
           RP!sourceVars, R!bufferVars, RP!bufferVars, R!stateVars,
           RP!stateVars, R!readableVars, RP!readableVars, R!readVars,
           RP!readVars, R!handedVars, RP!handedVars
<1>. QED
    BY <1>2, <1>3

LEMMA SameSourceTick == R!RunTick => RP!RunTick
BY SameClose, Zenon
   DEF R!RunTick, RP!RunTick, R!EnterFlow, RP!EnterFlow, R!AfterReadable,
       RP!AfterReadable, R!sourceVars, RP!sourceVars, R!bufferVars,
       RP!bufferVars, R!readVars, RP!readVars

-----------------------------------------------------------------------------
(* Each step of a pipe is, for its destination, one of a Writable or none. *)
DestStep ==
    \/ W!Write \/ W!End \/ W!DoWrite \/ W!DrainWriteBuffer \/ W!EndRest
    \/ W!WriteCallback \/ W!FinalCallback \/ W!DestroyCall
    \/ W!DestroyCallback \/ W!RunTick \/ W!DrainCheck \/ W!FlushPart
    \/ W!ClosePart

LEMMA DestMoves == [PipeNext]_pipeVars => DestStep \/ UNCHANGED destState
<1>. SUFFICES ASSUME [PipeNext]_pipeVars PROVE DestStep \/ UNCHANGED destState
    OBVIOUS
<1>1. CASE SourceSteps
    BY <1>1, Zenon DEF SourceSteps, SourceAlone
<1>2. CASE Start
    BY <1>2, Zenon DEF Start
<1>3. CASE Flow
    BY <1>3, Zenon DEF Flow
<1>4. CASE OnData
    BY <1>4, Zenon DEF OnData, DestStep
<1>5. CASE OnDataReturn
    BY <1>5, Zenon DEF OnDataReturn
<1>6. CASE DestCall
    BY <1>6, Zenon DEF DestCall, DestAlone, DestStep
<1>7. CASE DestRest
    BY <1>7, Zenon DEF DestRest, DestAlone, DestStep
<1>8. CASE OnDrain
    BY <1>8, Zenon DEF OnDrain, DestStep
<1>9. CASE SourceTick
    BY <1>9, Zenon DEF SourceTick, DestStep
<1>10. CASE DestTick
    BY <1>10, Zenon DEF DestTick, DestStep
<1>11. CASE SinkSteps \/ DestDestroy
    BY <1>11, Zenon DEF SinkSteps, DestDestroy, DestAlone, DestStep
<1>12. CASE UNCHANGED pipeVars
    BY <1>12, Zenon DEF pipeVars
<1>. QED
    BY <1>1, <1>2, <1>3, <1>4, <1>5, <1>6, <1>7, <1>8, <1>9, <1>10, <1>11,
       <1>12, Zenon
       DEF PipeNext, CallSteps, TickSteps

LEMMA DestVars == UNCHANGED destState => UNCHANGED W!vars /\ UNCHANGED WP!vars
BY DEF destState, W!vars, WP!vars, W!bufVars, W!endVars, W!callVars,
       W!sinkVars, W!histVars, WP!bufVars, WP!endVars, WP!callVars,
       WP!sinkVars, WP!histVars

LEMMA DestNext ==
    ASSUME [PipeNext]_pipeVars
    PROVE  [W!Next]_W!vars /\ [WP!Next]_WP!vars
<1>1. DestStep => W!Next
    BY Zenon
       DEF DestStep, W!Next, W!UserStep, W!SinkStep, W!CallStep, W!TickStep
<1>2. DestStep => WP!Next
    BY SameWrite, SameEnd, SameDoWrite, SameWriteCallback, SameDrain,
       SameEndRest, SameFinal, SameDestroy, SameRunTick, SameDrainCheck,
       SameParts, Zenon
       DEF DestStep, WP!Next, WP!UserStep, WP!SinkStep, WP!CallStep,
           WP!TickStep
<1>. QED
    BY <1>1, <1>2, DestMoves, DestVars, Zenon

LEMMA DestInit == PipeInit => W!Init /\ WP!Init
BY Zenon
   DEF PipeInit, W!Init, WP!Init, W!NoEnd, WP!NoEnd, W!Tick, WP!Tick

(* What a pipe does to its destination a user of the Writable could do: all *)
(* that is proved of a Writable that is not corked holds of it.            *)
THEOREM DestinationIsWritable == PipeSpec => W!Spec
BY DestInit, DestNext, PTL DEF PipeSpec, W!Spec

LEMMA DestInvariants == PipeSpec => [](WP!TypeOK /\ WP!SerialInv /\ WP!OrderInv)
<1>1. PipeSpec => WP!Spec
    BY DestInit, DestNext, PTL DEF PipeSpec, WP!Spec
<1>2. WP!Spec => [](WP!TypeOK /\ WP!SerialInv /\ WP!OrderInv)
    BY DestAssumptions, WP!Invariants
<1>. QED
    BY <1>1, <1>2, PTL

LEMMA DestFinish == PipeSpec => []WP!FinishLast
<1>1. PipeSpec => WP!Spec
    BY DestInit, DestNext, PTL DEF PipeSpec, WP!Spec
<1>2. WP!Spec => []WP!FinishLast
    BY DestAssumptions, WP!FinishComesLast
<1>. QED
    BY <1>1, <1>2, PTL

-----------------------------------------------------------------------------
(* For its source a step is one of a Readable, or pauses or resumes it.    *)
Turned ==
    /\ UNCHANGED sourceBesides
    /\ flowing' \in {flowing, "true", "false"} /\ flow' \in {flow, "head"}

SourceStep ==
    \/ R!Push \/ R!PushEnd \/ R!DestroyCall \/ R!DestroyCallback
    \/ R!ConstructCallback \/ R!OnData \/ R!FlowHead \/ R!FlowData
    \/ R!FlowRead \/ R!RunTick

LEMMA SourceMoves ==
    [PipeNext]_pipeVars => SourceStep \/ Turned \/ UNCHANGED sourceState
<1>. SUFFICES ASSUME [PipeNext]_pipeVars
              PROVE  SourceStep \/ Turned \/ UNCHANGED sourceState
    OBVIOUS
<1>1. CASE SourceSteps
    BY <1>1, Zenon DEF SourceSteps, SourceAlone, SourceStep
<1>2. CASE Start
    BY <1>2, Zenon DEF Start, SourceStep
<1>3. CASE Flow
    BY <1>3, Zenon DEF Flow, SourceStep
<1>4. CASE OnData
    BY <1>4, Zenon DEF OnData
<1>5. CASE OnDataReturn
    BY <1>5 DEF OnDataReturn, Turned
<1>6. CASE DestCall
    BY <1>6, Zenon DEF DestCall, DestAlone
<1>7. CASE DestRest
    BY <1>7, Zenon DEF DestRest, DestAlone
<1>8. CASE OnDrain
    BY <1>8 DEF OnDrain, Resume, R!ResumeBody, R!EnterFlow, Turned
<1>9. CASE SourceTick
    BY <1>9, Zenon DEF SourceTick, SourceStep
<1>10. CASE DestTick
    BY <1>10, Zenon DEF DestTick
<1>11. CASE SinkSteps \/ DestDestroy
    BY <1>11, Zenon DEF SinkSteps, DestDestroy, DestAlone
<1>12. CASE UNCHANGED pipeVars
    BY <1>12, Zenon DEF pipeVars
<1>. QED
    BY <1>1, <1>2, <1>3, <1>4, <1>5, <1>6, <1>7, <1>8, <1>9, <1>10, <1>11,
       <1>12, Zenon
       DEF PipeNext, CallSteps, TickSteps


LEMMA SourceVars ==
    UNCHANGED sourceState => UNCHANGED R!vars /\ UNCHANGED RP!vars
BY DEF sourceState, sourceBesides, R!vars, RP!vars, R!sourceVars,
       RP!sourceVars, R!bufferVars, RP!bufferVars, R!stateVars, RP!stateVars,
       R!readVars, RP!readVars, R!readableVars, RP!readableVars,
       R!handedVars, RP!handedVars

LEMMA SourceNext == [PipeNext]_pipeVars => [RP!Next]_RP!vars \/ Turned
<1>1. SourceStep => RP!Next
    BY SamePush, SamePushEnd, SameSourceDestroy, SameOnData, SameFlow,
       SameSourceTick, Zenon
       DEF SourceStep, RP!Next, RP!SourceStep, RP!UserStep, RP!CallStep
<1>. QED
    BY <1>1, SourceMoves, SourceVars, Zenon

(* The invariants of a Readable hold of the source: its type, that nothing *)
(* is lost, and that 'end' comes last.                                     *)
LEMMA TurnedKeeps == RP!ByteInv /\ RP!EndInv /\ Turned => (RP!ByteInv /\ RP!EndInv)'
<1>. SUFFICES ASSUME RP!ByteInv, RP!EndInv, Turned PROVE (RP!ByteInv /\ RP!EndInv)'
    OBVIOUS
<1>1. RP!Control'
    BY DEF RP!ByteInv, RP!Control, Turned, sourceBesides
<1>2. RP!Waiting'
    BY DEF RP!ByteInv, RP!Waiting, Turned, sourceBesides
<1>3. RP!Content'
    BY DEF RP!ByteInv, RP!Content, RP!Conservation, Turned, sourceBesides
<1>4. RP!EndInv'
    BY DEF RP!EndInv, RP!Listening, RP!Consumer, Turned, sourceBesides
<1>. QED
    BY <1>1, <1>2, <1>3, <1>4 DEF RP!ByteInv

LEMMA SourceInit == PipeInit => RP!Init
BY Zenon DEF PipeInit, R!Init, RP!Init, R!All, RP!All

LEMMA SourceInvariants == PipeSpec => [](RP!ByteInv /\ RP!EndInv)
<1>1. PipeInit => RP!ByteInv /\ RP!EndInv
    BY SourceInit, SourceAssumptions, RP!ByteInit, RP!EndInit
<1>2. RP!ByteInv /\ RP!EndInv /\ [PipeNext]_pipeVars => (RP!ByteInv /\ RP!EndInv)'
    <2>. SUFFICES ASSUME RP!ByteInv, RP!EndInv, [PipeNext]_pipeVars
                  PROVE  (RP!ByteInv /\ RP!EndInv)'
        OBVIOUS
    <2>1. CASE Turned
        BY <2>1, TurnedKeeps
    <2>2. CASE [RP!Next]_RP!vars
        <3>1. RP!Control'
            BY <2>2, SourceAssumptions, RP!ControlStep DEF RP!ByteInv, RP!Waiting
        <3>2. RP!Waiting' /\ RP!Content'
            BY <2>2, SourceAssumptions, RP!WaitingStep, RP!ContentStep DEF RP!ByteInv
        <3>3. RP!EndInv'
            BY <2>2, SourceAssumptions, RP!EndStep
        <3>. QED
            BY <3>1, <3>2, <3>3 DEF RP!ByteInv
    <2>. QED
        BY <2>1, <2>2, SourceNext
<1>. QED
    BY <1>1, <1>2, PTL DEF PipeSpec

-----------------------------------------------------------------------------
(* The destination is at its mark at most whenever the source flows, but   *)
(* for the object the pipe is just writing; a source flows for 'data' to   *)
(* be due, and stays where it is until the pipe's listener returns.        *)
FillInv ==
    /\ wlength \in Int /\ wlength <= WHWM + 1
    /\ flowing = "null" => wlength <= WHWM
    /\ flowing = "true" /\ (ondata = "write" => below) => wlength <= WHWM
    /\ ondata # "none" => flow = "data"
    /\ ondata = "due" => flowing = "true"

(* What the source's 'end' and 'close' say, and where they leave the pipe: *)
(* as long as its source flows it listens, or one end of it is over.       *)
SourceInv ==
    /\ endEmitted => ended /\ buffer = <<>>
    /\ "close" \in ToSet(ticks) => destroyed \/ endEmitted
    /\ "destroy" \in pending => destroyed
ListenInv ==
    /\ ondata # "none" => piping
    /\ endEmitted => ondata # "due"
    /\ drainListenerAdded => piping
    /\ flowing = "true" => piping \/ destroyed \/ wdestroyed \/ endEmitted

(* The destination is ended by the 'end' of the source alone, and closes   *)
(* for no other reason but destroy().                                      *)
Closing == \E i \in 1..Len(wticks) : wticks[i].kind = "close"
DestInv ==
    /\ wcont = "user"
    /\ wended \/ wpc = "endRest" => wends # 0
    /\ wcur # <<>> /\ wcur[1] = "close" => wended
    /\ Closing => wdestroyed \/ wended
    /\ "destroy" \in wpending => wdestroyed
EndedInv == wends # 0 => endEmitted

(* Every object the source emitted was written, but for the one that is    *)
(* due.                                                                    *)
Due == IF ondata = "due" THEN 1 ELSE 0
HandInv ==
    /\ \A i \in 1..Len(buffer) : Len(buffer[i]) = 1
    /\ ~wdestroyed => Len(got) = wnw + Due

PipeInv == FillInv /\ SourceInv /\ ListenInv /\ DestInv /\ EndedInv /\ HandInv
StreamInv ==
    /\ RP!ByteInv /\ RP!EndInv
    /\ WP!TypeOK /\ WP!SerialInv /\ WP!OrderInv

LEMMA ReleaseOne ==
    ASSUME NEW w \in 1..MaxChunks, wlength \in Int
    PROVE  W!Release({w}) = wlength - 1
<1>. DEFINE F == [k \in 1..MaxChunks |-> 1]
<1>1. IsFiniteSet(1..MaxChunks) /\ \A x \in 1..MaxChunks : F[x] \in Int
    BY PipeAssumption, FS_Interval
<1>2. {w} \in SUBSET (1..MaxChunks) /\ w \in {w} /\ {w} \ {w} = {} /\ F[w] = 1
    OBVIOUS
<1>. HIDE DEF F
<1>3. SumOf(F, {w}) = F[w] + SumOf(F, {w} \ {w})
    BY <1>1, <1>2, SumRemove
<1>4. SumOf(F, {w}) = 1
    BY <1>2, <1>3, SumEmpty
<1>5. W!Total({w}) = SumOf(F, {w})
    BY DEF F, W!Total, SumOf, W!MapThenSumSet, MapThenSumSet,
           W!MapThenFoldSet, MapThenFoldSet
<1>. QED
    BY <1>4, <1>5 DEF W!Release

(* What the steps of the destination do to what the pipe reads of it.      *)
DestOther ==
    \/ W!DoWrite \/ W!DrainWriteBuffer \/ W!EndRest \/ W!WriteCallback
    \/ W!FinalCallback \/ W!DestroyCall \/ W!DestroyCallback \/ W!RunTick
    \/ W!DrainCheck \/ W!FlushPart \/ W!ClosePart

LEMMA WriteMoves ==
    ASSUME WP!TypeOK, wlength \in Int, W!Write
    PROVE  /\ wlength' = wlength + 1 /\ wnw' = wnw + 1
           /\ wcont' = wcont \/ wcont' = "user"
           /\ wpc' \in {"user", "doWrite"}
           /\ UNCHANGED <<wended, wends, wcur, wticks, wpending, wdestroyed>>
<1>1. wnw \in 0..MaxChunks /\ wpendEnd.chunk \in BOOLEAN
    BY DEF WP!TypeOK, WP!QueueTypes, WP!EndTypes
<1>2. W!Room /\ W!Accept("user")
    BY Zenon DEF W!Write
<1>3. wnw + 1 \in 1..MaxChunks
    BY <1>1, <1>2, PipeAssumption DEF W!Room
<1>4. /\ wnw' = wnw + 1
      /\ wlength' = wlength + [k \in 1..MaxChunks |-> 1][wnw + 1]
      /\ wcont' = wcont \/ wcont' = "user"
      /\ wpc' = "user" \/ wpc' = "doWrite"
    BY <1>2, Zenon DEF W!Accept
<1>5. UNCHANGED <<wended, wends, wcur, wticks, wpending, wdestroyed>>
    BY DEF W!Write, W!endVars, W!sinkVars
<1>. QED
    BY <1>3, <1>4, <1>5

LEMMA EndMoves ==
    ASSUME WP!TypeOK, W!End, wnw' = wnw
    PROVE  /\ wlength' = wlength /\ wends' # 0 /\ wcont' = wcont
           /\ \/ wticks' = W!Defer(W!Tick("endcb", wends + 1)) /\ wpc' = wpc
              \/ wticks' = wticks
           /\ UNCHANGED <<wended, wcur, wpending, wdestroyed>>
<1>1. wnw \in Nat /\ wends \in Nat
    BY DEF WP!TypeOK, WP!QueueTypes, WP!EndTypes
<1>2. wends' = wends + 1 /\ UNCHANGED <<wended, wcur, wpending, wdestroyed>>
    BY DEF W!End, W!sinkVars
<1>3. PICK chunk \in BOOLEAN :
        \/ wlength' = wlength /\ wcont' = wcont /\ wpc' = wpc
           /\ wticks' = W!Defer(W!Tick("endcb", wends + 1))
        \/ wlength' = wlength /\ wcont' = wcont /\ wticks' = wticks
        \/ W!DoEnd(chunk, wends + 1) /\ wticks' = wticks
    BY Zenon DEF W!End
<1>4. ASSUME W!DoEnd(chunk, wends + 1) PROVE wlength' = wlength /\ wcont' = wcont
    <2>1. \/ wnw' = wnw + 1
          \/ wlength' = wlength /\ wcont' = wcont
        BY <1>4, Zenon DEF W!DoEnd, W!Accept
    <2>. QED
        BY <1>1, <2>1
<1>. QED
    BY <1>1, <1>2, <1>3, <1>4

LEMMA OtherMoves ==
    ASSUME WP!TypeOK, wlength \in Int, DestOther
    PROVE  /\ wlength' \in Int /\ wlength' <= wlength
           /\ wnw' = wnw /\ wends' = wends
           /\ wdestroyed => wdestroyed' = TRUE
<1>1. CASE W!DoWrite
    <2>1. wlength' = wlength \/ wlength' = W!Release({warg})
        BY <1>1, Zenon DEF W!DoWrite
    <2>2. warg \in 1..MaxChunks
        BY <1>1 DEF WP!TypeOK, WP!CallTypes, WP!Writes, W!DoWrite
    <2>3. wnw' = wnw /\ wends' = wends /\ wdestroyed' = wdestroyed
        BY <1>1 DEF W!DoWrite, W!endVars
    <2>4. wdestroyed \in BOOLEAN
        BY DEF WP!TypeOK, WP!FlagTypes
    <2>. QED
        BY <2>1, <2>2, <2>3, <2>4, ReleaseOne
<1>2. CASE W!WriteCallback
    <2>1. \E w \in winflight : wlength' = W!Release({w})
        BY <1>2, Zenon DEF W!WriteCallback
    <2>2. winflight \subseteq 1..MaxChunks
        BY DEF WP!TypeOK, WP!SinkTypes, WP!Writes
    <2>3. wnw' = wnw /\ wends' = wends /\ wdestroyed' = wdestroyed
        BY <1>2 DEF W!WriteCallback, W!endVars
    <2>4. wdestroyed \in BOOLEAN
        BY DEF WP!TypeOK, WP!FlagTypes
    <2>. QED
        BY <2>1, <2>2, <2>3, <2>4, ReleaseOne
<1>3. CASE W!RunTick
    <2>1. wdestroyed' = wdestroyed \/ wdestroyed' = TRUE
        BY <1>3, Zenon DEF W!RunTick, W!Constructed, W!DestroyBody
    <2>2. wlength' = wlength /\ wnw' = wnw /\ wends' = wends
        BY <1>3 DEF W!RunTick, W!endVars
    <2>3. wdestroyed \in BOOLEAN
        BY DEF WP!TypeOK, WP!FlagTypes
    <2>. QED
        BY <2>1, <2>2, <2>3
<1>4. CASE W!DrainWriteBuffer \/ W!EndRest \/ W!FinalCallback \/ W!DestroyCall
           \/ W!DestroyCallback \/ W!DrainCheck \/ W!FlushPart \/ W!ClosePart
    <2>1. /\ wlength' = wlength /\ wnw' = wnw /\ wends' = wends
          /\ wdestroyed' = wdestroyed \/ wdestroyed' = TRUE
        BY <1>4
           DEF W!DrainWriteBuffer, W!EndRest, W!FinalCallback, W!DestroyCall,
               W!DestroyBody, W!DestroyCallback, W!DrainCheck, W!FlushPart, W!ClosePart,
               W!endVars
    <2>2. wdestroyed \in BOOLEAN
        BY DEF WP!TypeOK, WP!FlagTypes
    <2>. QED
        BY <2>1, <2>2
<1>. QED
    BY <1>1, <1>2, <1>3, <1>4 DEF DestOther

-----------------------------------------------------------------------------
(* The steps of a pipe that leave its source, or its destination, as it is. *)
SourceOnly == SourceSteps \/ Start \/ Flow
DestOnly == DestCall \/ DestRest \/ DestTick \/ SinkSteps \/ DestDestroy

LEMMA DestOnlyMoves ==
    ASSUME DestOnly
    PROVE  DestOther /\ UNCHANGED <<sourceState, ondata, below>>
BY Zenon
   DEF DestOnly, DestCall, DestRest, DestTick, SinkSteps, DestDestroy,
       DestAlone, DestOther, closureVars

LEMMA SourceStepsMove ==
    ASSUME SourceSteps
    PROVE  /\ ondata # "write" /\ flowing' = flowing
           /\ flow' = flow \/ flow = "idle"
           /\ R!Push \/ R!PushEnd \/ R!DestroyCall \/ R!DestroyCallback
              \/ R!ConstructCallback
           /\ UNCHANGED <<destState, closureVars>>
<1>1. /\ ondata # "write" /\ UNCHANGED <<destState, closureVars>>
      /\ R!Push \/ R!PushEnd \/ R!DestroyCall \/ R!DestroyCallback
         \/ R!ConstructCallback
    BY Zenon DEF SourceSteps, SourceAlone
<1>2. flowing' = flowing /\ (flow' = flow \/ flow = "idle")
    BY <1>1 DEF R!Push, R!PushEnd, R!DestroyCall, R!DestroyCallback,
                R!ConstructCallback
<1>. QED
    BY <1>1, <1>2

LEMMA CaseMoves ==
    ASSUME [PipeNext]_pipeVars
    PROVE  \/ SourceSteps \/ Start \/ Flow \/ OnData \/ OnDataReturn
           \/ OnDrain \/ SourceTick \/ DestOnly \/ UNCHANGED pipeVars
BY Zenon DEF PipeNext, CallSteps, TickSteps, DestOnly

LEMMA FillStep ==
    ASSUME FillInv, WP!TypeOK, [PipeNext]_pipeVars
    PROVE  FillInv'
<1>. USE DEF FillInv
<1>0. WHWM \in Nat
    BY PipeAssumption
<1>1. CASE SourceSteps
    <2>1. /\ ondata # "write" /\ flowing' = flowing /\ wlength' = wlength
          /\ ondata' = ondata /\ (flow' = flow \/ flow = "idle")
        BY <1>1, SourceStepsMove DEF destState, closureVars
    <2>. QED
        BY <2>1
<1>2. CASE Start
    <2>1. /\ flow = "idle" /\ wlength' = wlength /\ ondata' = ondata
          /\ below' = below
          /\ flowing' = flowing \/ (flowing = "null" /\ flowing' = "true")
        BY <1>2 DEF Start, SourceIdle, R!OnData, destState
    <2>. QED
        BY <2>1
<1>3. CASE Flow
    <2>1. /\ ondata = "none" /\ flowing' = flowing /\ wlength' = wlength
          /\ below' = below
          /\ ondata' = "none"
             \/ (ondata' = "due" /\ flow = "head" /\ flow' = "data")
        BY <1>3 DEF Flow, R!FlowHead, R!FlowData, R!FlowRead, destState
    <2>2. flow = "head" /\ flow' = "data" => flowing = "true"
        BY <1>3 DEF Flow, R!FlowHead, R!FlowData, R!FlowRead, R!LoopOn
    <2>. QED
        BY <2>1, <2>2
<1>4. CASE OnData
    <2>1. ondata = "due" /\ flow = "data" /\ UNCHANGED sourceState
        BY <1>4, Zenon DEF OnData
    <2>2. flowing' = flowing /\ flow' = flow
        BY <2>1 DEF sourceState
    <2>3. wlength <= WHWM
        BY <2>1
    <2>4. \/ ondata' = "none" /\ UNCHANGED destState
          \/ ondata' = "write" /\ W!Write /\ below' = W!BelowHWM(wlength')
        BY <1>4, Zenon DEF OnData
    <2>5. CASE ondata' = "none" /\ UNCHANGED destState
        <3>1. wlength' = wlength
            BY <2>5 DEF destState
        <3>. QED
            BY <2>1, <2>2, <2>3, <2>5, <3>1, <1>0
    <2>6. CASE ondata' = "write" /\ W!Write /\ below' = W!BelowHWM(wlength')
        <3>1. wlength' = wlength + 1
            BY <2>6, WriteMoves
        <3>2. below' <=> wlength' < WHWM
            BY <2>6 DEF W!BelowHWM
        <3>. QED
            BY <2>1, <2>2, <2>3, <2>6, <3>1, <3>2, <1>0
    <2>. QED
        BY <2>4, <2>5, <2>6
<1>5. CASE OnDataReturn
    <2>1. /\ ondata = "write" /\ ondata' = "none" /\ wlength' = wlength
          /\ below' = below /\ flow' = flow
          /\ (~below /\ flowing' = "false") \/ (below /\ flowing' = flowing)
        BY <1>5 DEF OnDataReturn, MustPause, destState
    <2>. QED
        BY <2>1
<1>6. CASE OnDrain
    <2>1. /\ flow = "idle" /\ wlength <= WHWM /\ UNCHANGED <<ondata, below>>
          /\ wlength' = wlength
        BY <1>6 DEF OnDrain, SourceIdle, W!DrainDue, W!DrainCheck
    <2>. QED
        BY <2>1
<1>7. CASE SourceTick
    <2>1. /\ flow = "idle" /\ flowing' = flowing /\ UNCHANGED <<ondata, below>>
        BY <1>7 DEF SourceTick, SourceIdle, R!RunTick
    <2>2. (W!End /\ wnw' = wnw) \/ UNCHANGED destState
        BY <1>7, Zenon DEF SourceTick
    <2>3. wlength' = wlength
        BY <2>2, EndMoves DEF destState
    <2>. QED
        BY <2>1, <2>3
<1>8. CASE DestOnly
    <2>1. wlength' \in Int /\ wlength' <= wlength
        BY <1>8, DestOnlyMoves, OtherMoves
    <2>2. UNCHANGED <<flowing, flow, ondata, below>>
        BY <1>8, DestOnlyMoves DEF sourceState
    <2>. QED
        BY <1>0, <2>1, <2>2
<1>9. CASE UNCHANGED pipeVars
    BY <1>9 DEF pipeVars, sourceState, destState, closureVars
<1>. QED
    BY <1>1, <1>2, <1>3, <1>4, <1>5, <1>6, <1>7, <1>8, <1>9, CaseMoves

LEMMA FillInit == PipeInit => FillInv
BY PipeAssumption DEF PipeInit, FillInv, R!Init, W!Init

(* However the callbacks of the sink fall between the writes, the pipe     *)
(* fills its destination by one object beyond the mark at most, for every  *)
(* mark and every source: write() answers false at the mark, ondata pauses *)
(* the source before the next chunk, and only ondrain resumes it.          *)
THEOREM BackpressureKept == PipeSpec => []Backpressure
<1>1. WP!TypeOK /\ FillInv /\ [PipeNext]_pipeVars => FillInv'
    BY FillStep
<1>2. FillInv => Backpressure
    BY DEF FillInv, Backpressure
<1>. QED
    BY <1>1, <1>2, FillInit, DestInvariants, PTL DEF PipeSpec

-----------------------------------------------------------------------------
(* The ticks of the source.                                                *)
LEMMA SameSet == \A s : RP!ToSet(s) = ToSet(s)
BY DEF RP!ToSet, ToSet

LEMMA SourceTicks ==
    ASSUME NEW q \in Seq(RP!Kinds)
    PROVE  /\ \A k \in RP!Kinds : /\ Append(q, k) \in Seq(RP!Kinds)
                                  /\ ToSet(Append(q, k)) = ToSet(q) \cup {k}
           /\ ToSet(q \o R!FlowAgain) \subseteq ToSet(q) \cup {"flow"}
           /\ \A err : ToSet(q \o R!CloseTicks(err))
                         \subseteq ToSet(q) \cup {"error", "close"}
           /\ q # <<>> => /\ Tail(q) \in Seq(RP!Kinds) /\ Head(q) \in ToSet(q)
                          /\ ToSet(Tail(q)) \subseteq ToSet(q)
<1>0. {"flow", "end", "close", "readable", "error", "construct"} \subseteq RP!Kinds
    BY DEF RP!Kinds
<1>1. \A k \in RP!Kinds : /\ Append(q, k) \in Seq(RP!Kinds)
                          /\ ToSet(Append(q, k)) = ToSet(q) \cup {k}
    BY AppendSet
<1>c. \A t \in Seq(RP!Kinds) : ToSet(q \o t) = ToSet(q) \cup ToSet(t)
    BY CatSet
<1>2. ToSet(q \o R!FlowAgain) \subseteq ToSet(q) \cup {"flow"}
    <2>1. R!FlowAgain = <<>> \/ R!FlowAgain = <<"flow">>
        BY Zenon DEF R!FlowAgain
    <2>2. <<>> \in Seq(RP!Kinds) /\ <<"flow">> \in Seq(RP!Kinds)
        BY <1>0
    <2>3. ToSet(<<>>) = {} /\ ToSet(<<"flow">>) = {"flow"}
        BY DEF ToSet
    <2>4. /\ ToSet(q \o <<>>) = ToSet(q) \cup ToSet(<<>>)
          /\ ToSet(q \o <<"flow">>) = ToSet(q) \cup ToSet(<<"flow">>)
        BY <1>c, <2>2, Zenon
    <2>. QED
        BY <2>1, <2>3, <2>4
<1>3. ASSUME NEW err
      PROVE  ToSet(q \o R!CloseTicks(err)) \subseteq ToSet(q) \cup {"error", "close"}
    <2>1. R!CloseTicks(err) = <<"close">> \/ R!CloseTicks(err) = <<"error", "close">>
        BY Zenon DEF R!CloseTicks
    <2>2. <<"close">> \in Seq(RP!Kinds) /\ <<"error", "close">> \in Seq(RP!Kinds)
        BY <1>0
    <2>3. /\ ToSet(<<"close">>) \subseteq {"error", "close"}
          /\ ToSet(<<"error", "close">>) \subseteq {"error", "close"}
        BY DEF ToSet
    <2>4. /\ ToSet(q \o <<"close">>) = ToSet(q) \cup ToSet(<<"close">>)
          /\ ToSet(q \o <<"error", "close">>)
                = ToSet(q) \cup ToSet(<<"error", "close">>)
        BY <1>c, <2>2, Zenon
    <2>. QED
        BY <2>1, <2>3, <2>4
<1>4. q # <<>> => /\ Tail(q) \in Seq(RP!Kinds) /\ Head(q) \in ToSet(q)
                  /\ ToSet(Tail(q)) \subseteq ToSet(q)
    BY TailSet
<1>. QED
    BY <1>1, <1>2, <1>3, <1>4

LEMMA SourceScheduled ==
    ASSUME NEW q \in Seq(RP!Kinds), R!ScheduleReadable(q)
    PROVE  ToSet(ticks') \subseteq ToSet(q) \cup {"readable"}
<1>1. "readable" \in RP!Kinds
    BY DEF RP!Kinds
<1>2. ticks' = q \/ ticks' = Append(q, "readable")
    BY Zenon DEF R!ScheduleReadable
<1>. QED
    BY <1>1, <1>2, SourceTicks

LEMMA SourceDestroys ==
    ASSUME NEW q, NEW p, NEW err, R!DestroyBody(q, p, err)
    PROVE  destroyed' = TRUE
BY DEF R!DestroyBody

LEMMA SourceConstructs ==
    ASSUME NEW q, NEW p, R!Constructed(q, p)
    PROVE  destroyed' = TRUE \/ (destroyed' = destroyed /\ ticks' = q /\ pending' = p)
<1>1. \/ R!DestroyBody(q, p, TRUE)
      \/ destroyed' = destroyed /\ ticks' = q /\ pending' = p
    BY Zenon DEF R!Constructed
<1>. QED
    BY <1>1, SourceDestroys

LEMMA SourceKeeps ==
    ASSUME SourceInv, RP!ByteInv, RP!EndInv, SourceStep
    PROVE  SourceInv'
<1>. USE DEF SourceInv, R!sourceVars, R!bufferVars, R!stateVars, R!readVars,
             R!readableVars, R!handedVars
<1>0. /\ ticks \in Seq(RP!Kinds) /\ ended \in BOOLEAN /\ destroyed \in BOOLEAN
      /\ endEmitted \in BOOLEAN /\ use \in Uses
    BY DEF RP!ByteInv, RP!Waiting, RP!Control
<1>a. "flow" \in RP!Kinds /\ "end" \in RP!Kinds
    BY DEF RP!Kinds
<1>b. /\ ToSet(Append(ticks, "flow")) = ToSet(ticks) \cup {"flow"}
      /\ ToSet(Append(ticks, "end")) = ToSet(ticks) \cup {"end"}
      /\ Append(ticks, "end") \in Seq(RP!Kinds)
      /\ ToSet(ticks \o R!FlowAgain) \subseteq ToSet(ticks) \cup {"flow"}
    BY <1>0, <1>a, SourceTicks
<1>1. CASE R!Push
    <2>1. ~endEmitted /\ UNCHANGED <<endEmitted, destroyed, pending>>
        BY <1>1 DEF R!Push
    <2>2. \/ ticks' = ticks \/ ticks' = Append(ticks, "flow")
          \/ R!ScheduleReadable(ticks)
        BY <1>1, Zenon DEF R!Push
    <2>3. ToSet(ticks') \subseteq ToSet(ticks) \cup {"flow", "readable"}
        <3>1. R!ScheduleReadable(ticks) =>
                 ToSet(ticks') \subseteq ToSet(ticks) \cup {"readable"}
            BY <1>0, SourceScheduled
        <3>. QED
            BY <1>b, <2>2, <3>1
    <2>. QED
        BY <2>1, <2>3
<1>2. CASE R!PushEnd
    <2>1. UNCHANGED <<endEmitted, destroyed, pending, buffer>> /\ ended' = TRUE
        BY <1>2 DEF R!PushEnd
    <2>2. PICK q : R!ScheduleReadable(q) /\ (q = ticks \/ q = Append(ticks, "end"))
        BY <1>2, Zenon DEF R!PushEnd
    <2>3. q \in Seq(RP!Kinds) /\ ToSet(q) \subseteq ToSet(ticks) \cup {"end"}
        BY <1>0, <1>b, <2>2
    <2>4. ToSet(ticks') \subseteq ToSet(q) \cup {"readable"}
        BY <2>2, <2>3, SourceScheduled
    <2>. QED
        BY <2>1, <2>3, <2>4
<1>3. CASE R!DestroyCall
    <2>1. UNCHANGED <<endEmitted, ended, buffer>> /\ destroyed' = TRUE
        BY <1>3, SourceDestroys DEF R!DestroyCall
    <2>. QED
        BY <2>1
<1>4. CASE R!DestroyCallback
    <2>1. UNCHANGED <<endEmitted, ended, buffer, destroyed>> /\ "destroy" \in pending
        BY <1>4 DEF R!DestroyCallback
    <2>. QED
        BY <2>1
<1>5. CASE R!ConstructCallback
    <2>1. UNCHANGED <<endEmitted, ended, buffer>>
        BY <1>5 DEF R!ConstructCallback
    <2>2. \/ destroyed' = TRUE
          \/ destroyed' = destroyed /\ ticks' = ticks /\ pending' = pending \ {"construct"}
        BY <1>5, SourceConstructs DEF R!ConstructCallback
    <2>. QED
        BY <2>1, <2>2
<1>6. CASE R!OnData \/ R!FlowData \/ R!FlowRead
    <2>1. UNCHANGED <<endEmitted, ended, buffer, destroyed, pending>>
          /\ (ticks' = ticks \/ ticks' = ticks \o R!FlowAgain)
        BY <1>6 DEF R!OnData, R!FlowData, R!FlowRead
    <2>2. ToSet(ticks') \subseteq ToSet(ticks) \cup {"flow"}
        BY <1>0, <2>1, SourceTicks
    <2>. QED
        BY <2>1, <2>2
<1>7. CASE R!FlowHead
    <2>1. UNCHANGED <<endEmitted, ended, destroyed, pending>>
        BY <1>7 DEF R!FlowHead
    <2>2. buffer' = buffer \/ buffer # <<>>
        BY <1>7, Zenon DEF R!FlowHead, R!LoopOn
    <2>3. \/ ticks' = ticks \/ ticks' = Append(ticks, "end")
          \/ ticks' = ticks \o R!FlowAgain
        BY <1>7, Zenon DEF R!FlowHead
    <2>4. ToSet(ticks') \subseteq ToSet(ticks) \cup {"end", "flow"}
        BY <1>b, <2>3
    <2>. QED
        BY <2>1, <2>2, <2>4
<1>8. CASE R!RunTick
    <2>1. UNCHANGED <<ended, buffer>> /\ ticks # <<>>
        BY <1>8 DEF R!RunTick
    <2>2. /\ Tail(ticks) \in Seq(RP!Kinds) /\ Head(ticks) \in ToSet(ticks)
          /\ ToSet(Tail(ticks)) \subseteq ToSet(ticks)
        BY <1>0, <2>1, SourceTicks
    <2>3. CASE Head(ticks) = "construct"
        <3>1. endEmitted' = endEmitted
            BY <1>8, <2>3 DEF R!RunTick
        <3>2. \/ R!Constructed(Tail(ticks), pending)
              \/ /\ pending' = pending \cup {"construct"}
                 /\ ticks' = Tail(ticks) /\ destroyed' = destroyed
            BY <1>8, <2>3 DEF R!RunTick
        <3>3. \/ destroyed' = TRUE
              \/ /\ pending' = pending \cup {"construct"} \/ pending' = pending
                 /\ ticks' = Tail(ticks) /\ destroyed' = destroyed
            BY <3>2, SourceConstructs
        <3>. QED
            BY <2>1, <2>2, <3>1, <3>3
    <2>4. CASE Head(ticks) = "end"
        <3>1. ended /\ buffer = <<>>
            <4>1. RP!Listening
                BY <1>0, PipeAssumption DEF RP!Listening, RP!Consumer
            <4>2. "end" \in RP!ToSet(ticks)
                BY <2>2, <2>4, SameSet
            <4>. QED
                BY <4>1, <4>2 DEF RP!EndInv
        <3>2. /\ destroyed' = destroyed /\ pending' = pending
              /\ \/ ticks' = Tail(ticks) /\ endEmitted' = endEmitted
                 \/ endEmitted' = TRUE
            BY <1>8, <2>4 DEF R!RunTick
        <3>. QED
            BY <2>1, <2>2, <3>1, <3>2
    <2>5. CASE Head(ticks) \notin {"construct", "end"}
        <3>1. /\ destroyed' = destroyed /\ pending' = pending
              /\ ticks' = Tail(ticks) /\ endEmitted' = endEmitted
            BY <1>8, <2>5 DEF R!RunTick
        <3>. QED
            BY <2>1, <2>2, <3>1
    <2>. QED
        BY <2>3, <2>4, <2>5
<1>. QED
    BY <1>1, <1>2, <1>3, <1>4, <1>5, <1>6, <1>7, <1>8 DEF SourceStep

LEMMA SourceInvStep ==
    ASSUME SourceInv, RP!ByteInv, RP!EndInv, [PipeNext]_pipeVars
    PROVE  SourceInv'
<1>1. CASE SourceStep
    BY <1>1, SourceKeeps
<1>2. CASE Turned \/ UNCHANGED sourceState
    <2>1. UNCHANGED sourceBesides
        BY <1>2 DEF Turned, sourceState
    <2>. QED
        BY <2>1 DEF SourceInv, sourceBesides
<1>. QED
    BY <1>1, <1>2, SourceMoves

-----------------------------------------------------------------------------
(* The listeners of the pipe.                                              *)
LEMMA SourceGrows ==
    ASSUME SourceStep, RP!ByteInv
    PROVE  (destroyed => destroyed') /\ (endEmitted => endEmitted')
<1>0. destroyed \in BOOLEAN /\ endEmitted \in BOOLEAN
    BY DEF RP!ByteInv, RP!Control
<1>1. ASSUME R!Push \/ R!PushEnd \/ R!DestroyCallback \/ R!OnData \/ R!FlowHead
             \/ R!FlowData \/ R!FlowRead
      PROVE  destroyed' = destroyed /\ endEmitted' = endEmitted
    BY <1>1
       DEF R!Push, R!PushEnd, R!DestroyCallback, R!OnData, R!FlowHead,
           R!FlowData, R!FlowRead, R!stateVars
<1>2. ASSUME R!DestroyCall \/ R!ConstructCallback
      PROVE  /\ destroyed' = TRUE \/ destroyed' = destroyed
             /\ endEmitted' = endEmitted
    BY <1>2, SourceDestroys, SourceConstructs DEF R!DestroyCall, R!ConstructCallback
<1>3. ASSUME R!RunTick
      PROVE  /\ destroyed' = TRUE \/ destroyed' = destroyed
             /\ endEmitted' = TRUE \/ endEmitted' = endEmitted
    <2>1. \/ R!Constructed(Tail(ticks), pending) \/ destroyed' = destroyed
        BY <1>3, Zenon DEF R!RunTick
    <2>2. endEmitted' = TRUE \/ endEmitted' = endEmitted
        BY <1>3, Zenon DEF R!RunTick
    <2>. QED
        BY <2>1, <2>2, SourceConstructs
<1>. QED
    BY <1>0, <1>1, <1>2, <1>3 DEF SourceStep

LEMMA SourceGrowsOn ==
    ASSUME RP!ByteInv, [PipeNext]_pipeVars
    PROVE  (destroyed => destroyed') /\ (endEmitted => endEmitted')
<1>1. CASE SourceStep
    BY <1>1, SourceGrows
<1>2. CASE Turned \/ UNCHANGED sourceState
    <2>1. UNCHANGED sourceBesides
        BY <1>2 DEF Turned, sourceState
    <2>. QED
        BY <2>1 DEF sourceBesides
<1>. QED
    BY <1>1, <1>2, SourceMoves

LEMMA DestGrows ==
    ASSUME WP!TypeOK, FillInv, [PipeNext]_pipeVars
    PROVE  wdestroyed => wdestroyed'
<1>1. CASE W!Write \/ UNCHANGED destState
    BY <1>1, WriteMoves DEF destState, FillInv
<1>2. CASE W!End
    BY <1>2 DEF W!End
<1>3. CASE DestOther
    BY <1>3, OtherMoves DEF FillInv
<1>. QED
    BY <1>1, <1>2, <1>3, DestMoves, Zenon DEF DestStep, DestOther

LEMMA ListenStep ==
    ASSUME ListenInv, FillInv, SourceInv, DestInv, EndedInv, RP!ByteInv,
           WP!TypeOK, [PipeNext]_pipeVars
    PROVE  ListenInv'
<1>. USE DEF ListenInv
<1>a. (destroyed => destroyed') /\ (endEmitted => endEmitted')
    BY SourceGrowsOn
<1>b. wdestroyed => wdestroyed'
    BY DestGrows
<1>c. ondata # "none" => flow = "data"
    BY DEF FillInv
<1>d. flow # "idle" => endEmitted' = endEmitted
    <2>1. SourceStep /\ flow # "idle" => endEmitted' = endEmitted
        BY DEF SourceStep, R!Push, R!PushEnd, R!DestroyCall, R!DestroyCallback,
               R!ConstructCallback, R!OnData, R!FlowHead, R!FlowData,
               R!FlowRead, R!RunTick, R!stateVars
    <2>2. Turned \/ UNCHANGED sourceState => endEmitted' = endEmitted
        BY DEF Turned, sourceState, sourceBesides
    <2>. QED
        BY <2>1, <2>2, SourceMoves
<1>1. CASE SourceSteps
    <2>1. UNCHANGED <<flowing, piping, ondata, drainListenerAdded>>
        BY <1>1, SourceStepsMove DEF closureVars
    <2>. QED
        BY <1>a, <1>b, <1>c, <1>d, <2>1
<1>2. CASE Start
    <2>1. flow = "idle" /\ piping' = TRUE /\ ondata' = ondata
        BY <1>2 DEF Start, SourceIdle
    <2>. QED
        BY <1>c, <2>1
<1>3. CASE Flow
    <2>1. /\ ondata' = "none" \/ piping
          /\ UNCHANGED <<flowing, piping, drainListenerAdded>>
        BY <1>3 DEF Flow, R!FlowHead, R!FlowData, R!FlowRead
    <2>2. ondata' = "none" \/ (flow # "idle" /\ buffer # <<>>)
        BY <1>3 DEF Flow, R!FlowHead, R!FlowData, R!FlowRead, R!LoopOn
    <2>. QED
        BY <1>a, <1>b, <1>d, <2>1, <2>2 DEF SourceInv
<1>4. CASE OnData
    <2>1. /\ ondata = "due" /\ UNCHANGED <<piping, drainListenerAdded>>
          /\ UNCHANGED sourceState
        BY <1>4, Zenon DEF OnData
    <2>2. flowing' = flowing /\ (ondata' = "none" \/ ondata' = "write")
        BY <1>4, <2>1 DEF OnData, sourceState
    <2>. QED
        BY <1>a, <1>b, <2>1, <2>2
<1>5. CASE OnDataReturn
    <2>1. /\ ondata = "write" /\ piping' = piping /\ ondata' = "none"
        BY <1>5 DEF OnDataReturn
    <2>. QED
        BY <2>1
<1>6. CASE OnDrain
    <2>1. /\ piping' = piping /\ ondata' = ondata /\ drainListenerAdded' = FALSE
          /\ drainListenerAdded \/ flowing' = flowing
          /\ flow = "idle"
        BY <1>6 DEF OnDrain, SourceIdle
    <2>. QED
        BY <1>a, <1>b, <1>c, <2>1
<1>7. CASE SourceTick
    <2>1. /\ flow = "idle" /\ ondata' = ondata /\ flowing' = flowing
        BY <1>7 DEF SourceTick, SourceIdle, R!RunTick
    <2>2. \/ /\ Ends \/ Head(ticks) = "close"
             /\ piping' = FALSE /\ drainListenerAdded' = FALSE
          \/ UNCHANGED <<piping, drainListenerAdded>>
        BY <1>7, Zenon DEF SourceTick, Cleanup
    <2>3. CASE Ends \/ Head(ticks) = "close"
        <3>1. destroyed' \/ endEmitted'
            <4>1. CASE Ends
                BY <4>1 DEF Ends
            <4>2. CASE Head(ticks) = "close"
                <5>1. ticks # <<>>
                    BY <1>7 DEF SourceTick, R!RunTick
                <5>2. Head(ticks) \in ToSet(ticks)
                    BY <5>1, SourceTicks DEF RP!ByteInv, RP!Waiting
                <5>. QED
                    BY <1>a, <4>2, <5>2 DEF SourceInv
            <4>. QED
                BY <2>3, <4>1, <4>2
        <3>. QED
            BY <1>a, <1>b, <1>c, <2>1, <2>2, <3>1
    <2>4. CASE UNCHANGED <<piping, drainListenerAdded>>
        BY <1>a, <1>b, <1>c, <2>1, <2>4
    <2>. QED
        BY <2>2, <2>3, <2>4
<1>8. CASE DestOnly
    <2>1. flowing' = flowing /\ ondata' = ondata /\ endEmitted' = endEmitted
        BY <1>8, DestOnlyMoves DEF sourceState, sourceBesides
    <2>2. CASE UNCHANGED <<piping, drainListenerAdded>>
        BY <1>a, <1>b, <2>1, <2>2
    <2>3. CASE DestTick /\ Head(wticks).kind = "close"
        <3>1. /\ flow = "idle" /\ piping' = FALSE /\ drainListenerAdded' = FALSE
              /\ wticks # <<>>
            BY <2>3 DEF DestTick, SourceIdle, Cleanup, W!RunTick
        <3>2. Closing
            <4>1. wticks \in Seq(WP!TickSet)
                BY DEF WP!TypeOK, WP!CallTypes
            <4>2. 1 \in 1..Len(wticks) /\ wticks[1] = Head(wticks)
                BY <3>1, <4>1
            <4>. QED
                BY <2>3, <4>2 DEF Closing
        <3>3. wdestroyed' \/ endEmitted'
            BY <1>a, <1>b, <3>2 DEF DestInv, EndedInv
        <3>. QED
            BY <1>c, <2>1, <3>1, <3>3
    <2>4. UNCHANGED <<piping, drainListenerAdded>>
          \/ (DestTick /\ Head(wticks).kind = "close")
        <3>1. CASE DestTick
            BY <3>1, Zenon DEF DestTick
        <3>2. CASE DestCall \/ DestRest \/ SinkSteps \/ DestDestroy
            <4>1. UNCHANGED closureVars
                BY <3>2, Zenon DEF DestCall, DestRest, SinkSteps, DestDestroy, DestAlone
            <4>. QED
                BY <4>1 DEF closureVars
        <3>. QED
            BY <1>8, <3>1, <3>2 DEF DestOnly
    <2>. QED
        BY <2>2, <2>3, <2>4
<1>9. CASE UNCHANGED pipeVars
    BY <1>9 DEF pipeVars, sourceState, sourceBesides, destState, closureVars
<1>. QED
    BY <1>1, <1>2, <1>3, <1>4, <1>5, <1>6, <1>7, <1>8, <1>9, CaseMoves

-----------------------------------------------------------------------------
(* How the destination comes to its end and is closed.                     *)
LEMMA ClosingAppend ==
    ASSUME WP!TypeOK, NEW kind, kind # "close", NEW w,
           wticks' = W!Defer(W!Tick(kind, w))
    PROVE  Closing' => Closing
<1>. DEFINE t == W!Tick(kind, w)
<1>1. wticks \in Seq(WP!TickSet)
    BY DEF WP!TypeOK, WP!CallTypes
<1>2. t.kind # "close"
    BY DEF W!Tick
<1>. HIDE DEF t
<1>3. wticks \in Seq(WP!TickSet \cup {t})
    BY <1>1
<1>4. wticks' = Append(wticks, t)
    BY DEF W!Defer, t
<1>5. /\ Len(wticks') = Len(wticks) + 1 /\ Len(wticks) \in Nat
      /\ \A i \in 1..Len(wticks) : wticks'[i] = wticks[i]
      /\ wticks'[Len(wticks) + 1] = t
    BY <1>3, <1>4
<1>. QED
    BY <1>2, <1>5 DEF Closing

LEMMA ClosingTail ==
    ASSUME WP!TypeOK, wticks # <<>>, wticks' = Tail(wticks)
    PROVE  Closing' => Closing
<1>1. wticks \in Seq(WP!TickSet)
    BY DEF WP!TypeOK, WP!CallTypes
<1>2. /\ Len(wticks') = Len(wticks) - 1 /\ Len(wticks) \in Nat
      /\ \A i \in 1..(Len(wticks) - 1) : wticks'[i] = wticks[i + 1]
    BY <1>1
<1>. QED
    BY <1>2 DEF Closing

LEMMA ClosingSame == wticks' = wticks => (Closing' => Closing)
BY DEF Closing

LEMMA OutcomeKinds == \A o \in WOutcomes : o # "close" /\ "close" # o
BY PipeAssumption

LEMMA FinishTicks ==
    ASSUME WP!TypeOK, NEW o, wticks' = W!Defer(W!FinishTick(o))
    PROVE  Closing' => Closing
<1>1. PICK k \in {"finish", "finishErr"} : wticks' = W!Defer(W!Tick(k, 0))
    BY Zenon DEF W!FinishTick
<1>2. k # "close"
    OBVIOUS
<1>. QED
    BY <1>1, <1>2, ClosingAppend

LEMMA MaybeFinishes ==
    ASSUME WP!TypeOK, NEW end, NEW busy, W!MaybeFinish(end, busy)
    PROVE  /\ Closing' => Closing
           /\ wpending' \subseteq wpending \cup {"final"}
<1>1. \/ \E o : wticks' = W!Defer(W!FinishTick(o)) /\ wpending' = wpending
      \/ wticks' = wticks /\ wpending' = wpending
      \/ wticks' = wticks /\ wpending' = wpending \cup {"final"}
    BY Zenon DEF W!MaybeFinish
<1>. QED
    BY <1>1, FinishTicks, ClosingSame

LEMMA DestKeeps ==
    ASSUME DestInv, WP!TypeOK, WP!SerialInv, WP!OrderInv, DestOther
    PROVE  DestInv'
<1>. USE DEF DestInv
<1>0. /\ wcur \in Seq(WP!Parts) /\ wticks \in Seq(WP!TickSet)
      /\ wended \in BOOLEAN /\ wdestroyed \in BOOLEAN
      /\ wcur # <<>> => Tail(wcur) = <<>>
    <2>1. /\ wcur \in Seq(WP!Parts) /\ wticks \in Seq(WP!TickSet)
          /\ wended \in BOOLEAN /\ wdestroyed \in BOOLEAN
        BY DEF WP!TypeOK, WP!CallTypes, WP!FlagTypes
    <2>2. Len(wcur) <= 1
        BY DEF WP!SerialInv, WP!UncorkedInv
    <2>3. wcur # <<>> => Tail(wcur) = <<>>
        BY <2>1, <2>2
    <2>. QED
        BY <2>1, <2>3
<1>1. CASE W!DoWrite
    <2>1. /\ UNCHANGED <<wended, wends, wdestroyed, wcur, wcont, wpending>>
          /\ wpc' = "drain" \/ wpc' = wcont
        BY <1>1, Zenon DEF W!DoWrite, W!endVars
    <2>2. wticks' = wticks \/ \E o \in WOutcomes : wticks' = W!Defer(W!Tick(o, warg))
        BY <1>1, Zenon DEF W!DoWrite
    <2>3. Closing' => Closing
        BY <2>2, ClosingSame, ClosingAppend, OutcomeKinds
    <2>. QED
        BY <2>1, <2>3
<1>2. CASE W!WriteCallback
    <2>1. UNCHANGED <<wended, wends, wdestroyed, wcur, wcont, wpending, wpc>>
        BY <1>2 DEF W!WriteCallback, W!endVars
    <2>2. \E o \in WOutcomes, w \in winflight : wticks' = W!Defer(W!Tick(o, w))
        BY <1>2, Zenon DEF W!WriteCallback
    <2>3. Closing' => Closing
        BY <2>2, ClosingAppend, OutcomeKinds
    <2>. QED
        BY <2>1, <2>3
<1>3. CASE W!DrainWriteBuffer
    <2>1. /\ UNCHANGED <<wended, wends, wdestroyed, wcur, wcont>>
          /\ wpc' = "doWrite" \/ wpc' = wcont
        BY <1>3, Zenon DEF W!DrainWriteBuffer
    <2>2. \/ wticks' = wticks /\ wpending' = wpending
          \/ W!MaybeFinish(wending, FALSE)
        BY <1>3, Zenon DEF W!DrainWriteBuffer
    <2>3. /\ Closing' => Closing
          /\ wpending' \subseteq wpending \cup {"final"}
        BY <2>2, ClosingSame, MaybeFinishes
    <2>. QED
        BY <2>1, <2>3
<1>4. CASE W!EndRest
    <2>1. /\ UNCHANGED <<wends, wdestroyed, wcur, wcont>> /\ wended' = TRUE
          /\ wpc = "endRest" /\ wpc' = "user"
        BY <1>4 DEF W!EndRest
    <2>2. wpending' \subseteq wpending \cup {"final"}
        BY <1>4, MaybeFinishes DEF W!EndRest
    <2>. QED
        BY <2>1, <2>2
<1>5. CASE W!FinalCallback
    <2>1. /\ UNCHANGED <<wended, wends, wdestroyed, wcur, wcont, wpc>>
          /\ wpending' \subseteq wpending
        BY <1>5 DEF W!FinalCallback
    <2>2. \E o : wticks' = W!Defer(W!FinishTick(o))
        BY <1>5, Zenon DEF W!FinalCallback
    <2>. QED
        BY <2>1, <2>2, FinishTicks
<1>6. CASE W!DestroyCall \/ W!DestroyCallback
    <2>1. /\ UNCHANGED <<wended, wends, wcur, wcont, wpc>>
          /\ wdestroyed' = TRUE \/ (wdestroyed' = wdestroyed /\ "destroy" \in wpending)
        BY <1>6 DEF W!DestroyCall, W!DestroyBody, W!DestroyCallback, W!endVars
    <2>. QED
        BY <2>1
<1>7. CASE W!RunTick
    <2>1. /\ wticks # <<>> /\ UNCHANGED <<wended, wends>>
        BY <1>7 DEF W!RunTick, W!endVars
    <2>2. /\ wticks' = Tail(wticks) /\ wcur' = W!RestOfTick(Head(wticks))
          /\ UNCHANGED <<wdestroyed, wpc, wcont, wpending>>
        BY <1>7 DEF W!RunTick
    <2>3. Closing' => Closing
        BY <2>1, <2>2, ClosingTail
    <2>4. wcur' # <<>> /\ wcur'[1] = "close" => wended
        <3>1. wcur' # <<>> /\ wcur'[1] = "close" =>
                 Head(wticks).kind \in {"finish", "finishErr"}
            BY <2>2 DEF W!RestOfTick
        <3>2. 1 \in 1..Len(wticks) /\ wticks[1] = Head(wticks)
            BY <1>0, <2>1
        <3>. QED
            BY <3>1, <3>2 DEF WP!OrderInv, WP!FinishInv, WP!FinishKinds
    <2>. QED
        BY <2>1, <2>2, <2>3, <2>4
<1>8. CASE W!DrainCheck
    <2>1. /\ wcur # <<>>
          /\ UNCHANGED <<wended, wends, wdestroyed, wpending, wticks>>
          /\ (wpc' = wpc /\ wcont' = wcont) \/ (wpc' = "drain" /\ wcont' = "user")
        BY <1>8 DEF W!DrainCheck, W!endVars, W!sinkVars
    <2>2. \/ wcur' = <<>> \o Tail(wcur) \/ wcur' = <<"flush">> \o Tail(wcur)
          \/ wcur' = Tail(wcur)
        BY <1>8, Zenon DEF W!DrainCheck
    <2>3. <<>> \o <<>> = <<>> /\ <<"flush">> \o <<>> = <<"flush">>
        <3>1. <<"flush">> \in Seq(WP!Parts) /\ <<>> \in Seq(WP!Parts)
            BY DEF WP!Parts
        <3>. QED
            BY <3>1, ConcatEmptySeq
    <2>4. wcur' = <<>> \/ wcur' = <<"flush">>
        BY <1>0, <2>1, <2>2, <2>3, Zenon
    <2>. QED
        BY <2>1, <2>4, ClosingSame
<1>9. CASE W!FlushPart
    <2>1. /\ wcur' = <<>>
          /\ UNCHANGED <<wended, wends, wdestroyed, wpending, wticks>>
          /\ wpc' = "drain" /\ wcont' = "user"
        BY <1>0, <1>9 DEF W!FlushPart, W!endVars, W!sinkVars
    <2>. QED
        BY <2>1, ClosingSame
<1>10. CASE W!ClosePart
    <2>1. /\ wcur' = <<>> /\ wcur # <<>> /\ Head(wcur) = "close"
          /\ UNCHANGED <<wended, wends, wdestroyed, wpending, wpc, wcont>>
        BY <1>0, <1>10 DEF W!ClosePart, W!endVars, W!sinkVars
    <2>2. wcur[1] = "close"
        BY <1>0, <2>1
    <2>. QED
        BY <2>1, <2>2
<1>. QED
    BY <1>1, <1>2, <1>3, <1>4, <1>5, <1>6, <1>7, <1>8, <1>9, <1>10 DEF DestOther

LEMMA PipeEnds ==
    ASSUME [PipeNext]_pipeVars, W!End
    PROVE  DestOther \/ W!Write \/ UNCHANGED destState \/ wnw' = wnw
BY Zenon
   DEF PipeNext, CallSteps, TickSteps, SourceSteps, SourceAlone, Start, Flow,
       OnData, OnDataReturn, DestCall, DestRest, OnDrain, SourceTick, DestTick,
       SinkSteps, DestDestroy, DestAlone, DestOther, pipeVars

LEMMA DestInvStep ==
    ASSUME DestInv, FillInv, WP!TypeOK, WP!SerialInv, WP!OrderInv,
           [PipeNext]_pipeVars
    PROVE  DestInv'
<1>1. CASE DestOther
    BY <1>1, DestKeeps
<1>2. CASE W!Write
    <2>1. /\ wcont' = wcont \/ wcont' = "user"
          /\ wpc' \in {"user", "doWrite"}
          /\ UNCHANGED <<wended, wends, wcur, wticks, wpending, wdestroyed>>
        BY <1>2, WriteMoves DEF FillInv
    <2>. QED
        BY <2>1, ClosingSame DEF DestInv
<1>3. CASE W!End /\ wnw' = wnw
    <2>1. /\ wends' # 0 /\ wcont' = wcont
          /\ UNCHANGED <<wended, wcur, wpending, wdestroyed>>
          /\ \/ wticks' = W!Defer(W!Tick("endcb", wends + 1))
             \/ wticks' = wticks
        BY <1>3, EndMoves
    <2>2. Closing' => Closing
        BY <2>1, ClosingAppend, ClosingSame
    <2>. QED
        BY <2>1, <2>2 DEF DestInv
<1>4. CASE UNCHANGED destState
    <2>1. /\ UNCHANGED <<wcont, wpc, wended, wends, wcur, wticks, wpending,
                         wdestroyed>>
        BY <1>4 DEF destState
    <2>. QED
        BY <2>1, ClosingSame DEF DestInv
<1>. QED
    BY <1>1, <1>2, <1>3, <1>4, DestMoves, PipeEnds, Zenon DEF DestStep, DestOther

LEMMA EndedStep ==
    ASSUME EndedInv, FillInv, RP!ByteInv, WP!TypeOK, [PipeNext]_pipeVars
    PROVE  EndedInv'
<1>1. endEmitted => endEmitted'
    BY SourceGrowsOn
<1>2. CASE SourceTick
    <2>1. Ends \/ UNCHANGED destState
        BY <1>2, Zenon DEF SourceTick
    <2>. QED
        BY <1>1, <2>1 DEF Ends, EndedInv, destState
<1>3. CASE SourceSteps \/ Start \/ Flow \/ OnDataReturn
    <2>1. UNCHANGED destState
        BY <1>3, SourceStepsMove, Zenon DEF Start, Flow, OnDataReturn
    <2>. QED
        BY <1>1, <2>1 DEF EndedInv, destState
<1>4. CASE OnData
    <2>1. W!Write \/ UNCHANGED destState
        BY <1>4, Zenon DEF OnData
    <2>2. wends' = wends
        BY <2>1, WriteMoves DEF FillInv, destState
    <2>. QED
        BY <1>1, <2>2 DEF EndedInv
<1>5. CASE DestOnly \/ OnDrain
    <2>1. DestOther
        BY <1>5, DestOnlyMoves, Zenon DEF OnDrain, DestOther
    <2>. QED
        BY <1>1, <2>1, OtherMoves DEF EndedInv, FillInv
<1>6. CASE UNCHANGED pipeVars
    BY <1>1, <1>6 DEF EndedInv, pipeVars, destState
<1>. QED
    BY <1>2, <1>3, <1>4, <1>5, <1>6, CaseMoves

(* What the pipe handed over.                                              *)
LEMMA CatFacts ==
    ASSUME NEW X, NEW s \in Seq(X), NEW t \in Seq(X)
    PROVE  /\ Len(s \o t) = Len(s) + Len(t)
           /\ Len(s) \in Nat /\ Len(t) \in Nat
           /\ \A i \in 1..Len(s) : (s \o t)[i] = s[i]
BY ConcatProperties

LEMMA HandSource ==
    ASSUME HandInv, RP!ByteInv, SourceStep
    PROVE  /\ \A i \in 1..Len(buffer') : Len(buffer'[i]) = 1
           /\ \/ got' = got
              \/ /\ R!FlowHead /\ flow' = "data" /\ R!LoopOn
                 /\ Len(got') = Len(got) + 1
<1>0. /\ buffer \in Seq(Seq(Nat)) /\ got \in Seq(Nat) /\ use \in Uses
      /\ \A i \in 1..Len(buffer) : Len(buffer[i]) = 1
    BY DEF RP!ByteInv, RP!Content, RP!Control, HandInv
<1>1. CASE R!Push
    <2>1. got' = got
        BY <1>1 DEF R!Push, R!handedVars
    <2>2. PICK k \in use.sizes :
            buffer' = R!PushBuffer(buffer, R!Numbers(produced, k))
        BY <1>1, Zenon DEF R!Push
    <2>3. k = 1
        BY <1>0, PipeAssumption
    <2>4. produced \in Nat
        BY DEF RP!ByteInv, RP!Content
    <2>5. R!Numbers(produced, 1) \in Seq(Nat) /\ Len(R!Numbers(produced, 1)) = 1
        BY <2>4 DEF R!Numbers
    <2>. DEFINE c == R!Numbers(produced, 1)
    <2>. HIDE DEF c
    <2>6. buffer' = Append(buffer, c) /\ c \in Seq(Nat) /\ Len(c) = 1
        BY <2>2, <2>3, <2>5 DEF R!PushBuffer, c
    <2>7. /\ Len(buffer') = Len(buffer) + 1 /\ buffer'[Len(buffer) + 1] = c
          /\ \A i \in 1..Len(buffer) : buffer'[i] = buffer[i]
          /\ Len(buffer) \in Nat
        BY <1>0, <2>6
    <2>8. ASSUME NEW i \in 1..Len(buffer') PROVE Len(buffer'[i]) = 1
        <3>1. i \in 1..Len(buffer) \/ i = Len(buffer) + 1
            BY <2>7
        <3>. QED
            BY <1>0, <2>6, <2>7, <3>1
    <2>. QED
        BY <2>1, <2>8
<1>2. CASE R!FlowHead
    <2>1. /\ \/ R!LoopOn /\ flow' = "data" /\ buffer' = Tail(buffer)
                /\ got' = got \o Head(buffer)
             \/ buffer' = buffer /\ got' = got
        BY <1>2 DEF R!FlowHead, R!bufferVars
    <2>2. CASE R!LoopOn /\ flow' = "data" /\ buffer' = Tail(buffer)
               /\ got' = got \o Head(buffer)
        <3>1. buffer # <<>>
            BY <2>2 DEF R!LoopOn
        <3>2. /\ Head(buffer) = buffer[1] /\ 1 \in 1..Len(buffer)
              /\ Len(buffer') = Len(buffer) - 1 /\ Len(buffer) \in Nat
              /\ \A i \in 1..(Len(buffer) - 1) : buffer'[i] = buffer[i + 1]
              /\ Head(buffer) \in Seq(Nat)
            BY <1>0, <2>2, <3>1
        <3>3. Len(Head(buffer)) = 1
            BY <1>0, <3>2
        <3>4. Len(got') = Len(got) + 1
            <4>1. got \in Seq(Nat) /\ Head(buffer) \in Seq(Nat)
                BY <1>0, <3>2
            <4>2. Len(got \o Head(buffer)) = Len(got) + Len(Head(buffer))
                BY <4>1, CatFacts, Zenon
            <4>. QED
                BY <2>2, <3>3, <4>2, Zenon
        <3>5. ASSUME NEW i \in 1..Len(buffer') PROVE Len(buffer'[i]) = 1
            <4>1. i \in 1..(Len(buffer) - 1) /\ i + 1 \in 1..Len(buffer)
                BY <3>2
            <4>. QED
                BY <1>0, <3>2, <4>1
        <3>. QED
            BY <1>2, <2>2, <3>4, <3>5
    <2>. QED
        BY <1>0, <2>1, <2>2
<1>3. CASE R!PushEnd \/ R!DestroyCall \/ R!DestroyCallback \/ R!ConstructCallback
           \/ R!OnData \/ R!FlowData \/ R!FlowRead \/ R!RunTick
    <2>1. buffer' = buffer /\ got' = got
        BY <1>3
           DEF R!PushEnd, R!DestroyCall, R!DestroyCallback, R!ConstructCallback,
               R!OnData, R!FlowData, R!FlowRead, R!RunTick, R!bufferVars,
               R!handedVars
    <2>. QED
        BY <1>0, <2>1
<1>. QED
    BY <1>1, <1>2, <1>3 DEF SourceStep

LEMMA HandStep ==
    ASSUME HandInv, FillInv, SourceInv, ListenInv, RP!ByteInv, WP!TypeOK,
           [PipeNext]_pipeVars
    PROVE  HandInv'
<1>0. /\ wnw \in Nat /\ Len(got) \in Nat /\ Due \in {0, 1}
      /\ wdestroyed \in BOOLEAN
      /\ \A i \in 1..Len(buffer) : Len(buffer[i]) = 1
      /\ ~wdestroyed => Len(got) = wnw + Due
    <2>1. got \in Seq(Nat)
        BY DEF RP!ByteInv, RP!Content
    <2>. QED
        BY <2>1 DEF WP!TypeOK, WP!QueueTypes, WP!FlagTypes, HandInv, Due
<1>a. ~wdestroyed' => ~wdestroyed
    BY DestGrows
<1>1. CASE SourceSteps
    <2>1. /\ R!Push \/ R!PushEnd \/ R!DestroyCall \/ R!DestroyCallback
             \/ R!ConstructCallback
          /\ UNCHANGED <<destState, closureVars>>
        BY <1>1, SourceStepsMove
    <2>2. SourceStep /\ got' = got
        BY <2>1
           DEF SourceStep, R!Push, R!PushEnd, R!DestroyCall,
               R!DestroyCallback, R!ConstructCallback, R!handedVars
    <2>3. UNCHANGED <<wnw, wdestroyed, ondata>>
        BY <2>1 DEF destState, closureVars
    <2>. QED
        BY <1>0, <2>2, <2>3, HandSource DEF HandInv, Due
<1>2. CASE Start
    <2>1. R!OnData /\ UNCHANGED destState /\ ondata' = ondata
        BY <1>2, Zenon DEF Start
    <2>2. UNCHANGED <<wnw, wdestroyed, ondata>> /\ got' = got /\ buffer' = buffer
        BY <2>1 DEF destState, R!OnData, R!bufferVars, R!handedVars
    <2>. QED
        BY <1>0, <2>2 DEF HandInv, Due
<1>3. CASE Flow
    <2>1. /\ ondata = "none" /\ UNCHANGED <<wnw, wdestroyed>>
          /\ ondata' = IF flow = "head" /\ flow' = "data" /\ piping
                       THEN "due" ELSE "none"
        BY <1>3 DEF Flow, destState
    <2>2. SourceStep
        BY <1>3, Zenon DEF Flow, SourceStep
    <2>3. CASE got' = got
        <3>1. ~(flow = "head" /\ flow' = "data")
            <4>1. ASSUME flow = "head", flow' = "data" PROVE FALSE
                <5>1. R!FlowHead
                    BY <1>3, <4>1 DEF Flow, R!FlowData, R!FlowRead
                <5>2. R!LoopOn /\ got' = got \o Head(buffer)
                    BY <4>1, <5>1 DEF R!FlowHead
                <5>3. buffer \in Seq(Seq(Nat)) /\ got \in Seq(Nat)
                    BY DEF RP!ByteInv, RP!Content
                <5>4. Len(Head(buffer)) = 1 /\ Head(buffer) \in Seq(Nat)
                    BY <1>0, <5>2, <5>3 DEF R!LoopOn
                <5>5. Len(got') = Len(got) + 1
                    <6>1. Len(got \o Head(buffer))
                              = Len(got) + Len(Head(buffer))
                        BY <5>3, <5>4, CatFacts, Zenon
                    <6>. QED
                        BY <5>2, <5>4, <6>1, Zenon
                <5>. QED
                    BY <1>0, <2>3, <5>5
            <4>. QED
                BY <4>1
        <3>. QED
            BY <1>0, <1>a, <2>1, <2>2, <2>3, <3>1, HandSource DEF HandInv, Due
    <2>4. CASE got' # got
        <3>1. R!FlowHead /\ flow' = "data" /\ R!LoopOn /\ Len(got') = Len(got) + 1
            BY <2>2, <2>4, HandSource
        <3>2. flow = "head" /\ flowing = "true" /\ buffer # <<>> /\ ~destroyed
            BY <3>1 DEF R!FlowHead, R!LoopOn
        <3>3. piping \/ wdestroyed
            BY <3>2 DEF SourceInv, ListenInv
        <3>4. wdestroyed \/ ondata' = "due"
            BY <2>1, <3>1, <3>2, <3>3
        <3>. QED
            BY <1>0, <1>a, <2>1, <2>2, <3>1, <3>4, HandSource DEF HandInv, Due
    <2>. QED
        BY <2>3, <2>4
<1>4. CASE OnData
    <2>1. ondata = "due" /\ UNCHANGED sourceState
        BY <1>4, Zenon DEF OnData
    <2>2. got' = got /\ buffer' = buffer
        BY <2>1 DEF sourceState, sourceBesides
    <2>3. \/ wdestroyed /\ UNCHANGED destState
          \/ ondata' = "write" /\ W!Write
        BY <1>4, Zenon DEF OnData
    <2>4. \/ wdestroyed'
          \/ ondata' = "write" /\ wnw' = wnw + 1
        BY <2>3, WriteMoves DEF destState, FillInv
    <2>. QED
        BY <1>0, <1>a, <2>1, <2>2, <2>4 DEF HandInv, Due
<1>5. CASE OnDataReturn
    <2>1. /\ ondata = "write" /\ ondata' = "none"
          /\ UNCHANGED <<got, buffer, wnw, wdestroyed>>
        BY <1>5 DEF OnDataReturn, sourceBesides, destState
    <2>. QED
        BY <1>0, <2>1 DEF HandInv, Due
<1>6. CASE OnDrain \/ DestOnly
    <2>1. DestOther
        BY <1>6, DestOnlyMoves, Zenon DEF OnDrain, DestOther
    <2>2. wnw' = wnw
        BY <2>1, OtherMoves DEF FillInv
    <2>3. UNCHANGED <<got, buffer, ondata>>
        BY <1>6, DestOnlyMoves DEF OnDrain, sourceState, sourceBesides
    <2>. QED
        BY <1>0, <1>a, <2>2, <2>3 DEF HandInv, Due
<1>7. CASE SourceTick
    <2>1. R!RunTick /\ ondata' = ondata
        BY <1>7, Zenon DEF SourceTick
    <2>2. UNCHANGED <<got, buffer>>
        BY <2>1 DEF R!RunTick, R!bufferVars
    <2>3. wnw' = wnw \/ UNCHANGED destState
        BY <1>7, Zenon DEF SourceTick
    <2>. QED
        BY <1>0, <1>a, <2>1, <2>2, <2>3 DEF HandInv, Due, destState
<1>8. CASE UNCHANGED pipeVars
    <2>1. UNCHANGED <<got, buffer, ondata, wnw, wdestroyed>>
        BY <1>8 DEF pipeVars, sourceState, sourceBesides, destState, closureVars
    <2>. QED
        BY <1>0, <2>1 DEF HandInv, Due
<1>. QED
    BY <1>1, <1>2, <1>3, <1>4, <1>5, <1>6, <1>7, <1>8, CaseMoves

-----------------------------------------------------------------------------
LEMMA PipeInitInv == PipeInit => PipeInv
<1>. SUFFICES ASSUME PipeInit PROVE PipeInv
    OBVIOUS
<1>1. /\ ticks = <<"construct">> \/ ticks = <<>>
      /\ ~endEmitted /\ pending = {} /\ flowing = "null" /\ buffer = <<>>
      /\ got = <<>>
    BY Zenon DEF PipeInit, R!Init
<1>2. /\ wcont = "user" /\ wended = FALSE /\ wpc = "user" /\ wcur = <<>>
      /\ wpending = {} /\ wends = 0 /\ wnw = 0
      /\ wconstructed = TRUE
    BY DEF PipeInit, W!Init
<1>3. wticks = <<>>
    BY <1>2, Zenon DEF PipeInit, W!Init
<1>4. piping = FALSE /\ ondata = "none" /\ drainListenerAdded = FALSE
    BY DEF PipeInit
<1>5. FillInv
    BY FillInit
<1>6. SourceInv
    BY <1>1 DEF SourceInv, ToSet
<1>7. ListenInv /\ EndedInv
    BY <1>1, <1>2, <1>4 DEF ListenInv, EndedInv
<1>8. DestInv
    BY <1>2, <1>3 DEF DestInv, Closing
<1>9. HandInv
    BY <1>1, <1>2, <1>4 DEF HandInv, Due
<1>. QED
    BY <1>5, <1>6, <1>7, <1>8, <1>9 DEF PipeInv

LEMMA PipeStep ==
    ASSUME PipeInv, StreamInv, [PipeNext]_pipeVars
    PROVE  PipeInv'
<1>1. FillInv' /\ SourceInv' /\ ListenInv'
    BY FillStep, SourceInvStep, ListenStep DEF PipeInv, StreamInv
<1>2. DestInv' /\ EndedInv' /\ HandInv'
    BY DestInvStep, EndedStep, HandStep DEF PipeInv, StreamInv
<1>. QED
    BY <1>1, <1>2 DEF PipeInv

LEMMA PipeInvariants == PipeSpec => [](PipeInv /\ StreamInv)
<1>1. PipeSpec => []StreamInv
    BY SourceInvariants, DestInvariants, PTL DEF StreamInv
<1>2. PipeInv /\ StreamInv /\ [PipeNext]_pipeVars => PipeInv'
    BY PipeStep
<1>. QED
    BY <1>1, <1>2, PipeInitInv, PTL DEF PipeSpec

(* What was handed over when all of it is out of the buffer.               *)
LEMMA GotNumbers ==
    ASSUME RP!ByteInv
    PROVE  /\ got \in Seq(Nat) /\ produced \in Nat
           /\ \A i \in 1..Len(got) : got[i] = i
           /\ buffer = <<>> => Len(got) = produced
<1>1. /\ got \in Seq(Nat) /\ buffer \in Seq(Seq(Nat)) /\ produced \in Nat
      /\ got \o RP!Bytes(buffer) = RP!Numbers(0, produced)
    BY DEF RP!ByteInv, RP!Content, RP!Conservation
<1>2. RP!Bytes(buffer) = FlattenSeq(buffer)
    BY DEF RP!Bytes, RP!FlattenSeq, FlattenSeq
<1>3. FlattenSeq(buffer) \in Seq(Nat)
    BY <1>1, FlattenType
<1>. DEFINE rest == FlattenSeq(buffer)
<1>4. got \o rest = [i \in 1..produced |-> 0 + i] /\ rest \in Seq(Nat)
    BY <1>1, <1>2, <1>3 DEF RP!Numbers
<1>5. buffer = <<>> => rest = <<>>
    BY FlattenEmpty
<1>. HIDE DEF rest
<1>6. /\ Len(got) + Len(rest) = produced
      /\ \A i \in 1..Len(got) : got[i] = i
    <2>1. /\ Len(got \o rest) = Len(got) + Len(rest)
          /\ \A i \in 1..Len(got) : (got \o rest)[i] = got[i]
          /\ Len(got) \in Nat /\ Len(rest) \in Nat
        BY <1>1, <1>4, CatFacts
    <2>2. Len([i \in 1..produced |-> 0 + i]) = produced
        BY <1>1
    <2>3. Len(got) + Len(rest) = produced
        BY <1>4, <2>1, <2>2, Zenon
    <2>4. ASSUME NEW i \in 1..Len(got) PROVE got[i] = i
        <3>1. i \in 1..produced
            BY <1>1, <2>1, <2>3
        <3>2. [j \in 1..produced |-> 0 + j][i] = i
            BY <3>1
        <3>. QED
            BY <1>4, <2>1, <3>2, Zenon
    <2>. QED
        BY <2>3, <2>4
<1>. QED
    BY <1>1, <1>5, <1>6

(* 'finish' says that the sink is done with all the source produced: the   *)
(* pipe ends its destination at the source's 'end', which comes after the  *)
(* last object, and by then ondata has written each of them.               *)
THEOREM FinishIsComplete == PipeSpec => []FinishAfterAll
<1>1. PipeInv /\ StreamInv /\ WP!FinishLast => FinishAfterAll
    <2>. SUFFICES ASSUME PipeInv, StreamInv, WP!FinishLast, "finish" \in wevents,
                         ~wdestroyed
                  PROVE  ended /\ wcalled = 1..produced
        BY DEF FinishAfterAll
    <2>1. wcalled = 1..wnw
        BY DEF WP!FinishLast
    <2>2. wended
        BY DEF StreamInv, WP!OrderInv, WP!FinishInv
    <2>3. endEmitted
        BY <2>2 DEF PipeInv, DestInv, EndedInv
    <2>4. ended /\ buffer = <<>>
        BY <2>3 DEF PipeInv, SourceInv
    <2>5. Due = 0 /\ wnw \in Nat
        BY <2>3 DEF PipeInv, ListenInv, Due, StreamInv, WP!TypeOK, WP!QueueTypes
    <2>6. Len(got) = wnw /\ Len(got) = produced
        BY <2>4, <2>5, GotNumbers DEF PipeInv, HandInv, StreamInv
    <2>. QED
        BY <2>1, <2>4, <2>6
<1>. QED
    BY <1>1, PipeInvariants, DestFinish, PTL

(* The sink is given the objects in the order the source handed them over, *)
(* none twice and none skipped: the pipe's writes are numbered as they are *)
(* accepted, and by here that is also their number at the source.          *)
Delivered ==
    ~wdestroyed => /\ Len(wissued) <= Len(got)
                   /\ \A i \in 1..Len(wissued) : wissued[i] = got[i]

THEOREM InSourceOrder == PipeSpec => []Delivered
<1>1. PipeInv /\ StreamInv => Delivered
    <2>. SUFFICES ASSUME PipeInv, StreamInv, ~wdestroyed
                  PROVE  /\ Len(wissued) <= Len(got)
                         /\ \A i \in 1..Len(wissued) : wissued[i] = got[i]
        BY DEF Delivered
    <2>1. /\ wissued \in Seq(WP!Writes) /\ wwriteBuf \in Seq(WP!Writes)
          /\ wpendCons \in Seq(WP!Writes) /\ wnw \in Nat
        BY DEF StreamInv, WP!TypeOK, WP!QueueTypes
    <2>2. /\ \A i \in DOMAIN wissued : wissued[i] = i
          /\ wnw = WP!Dispatched + Len(wwriteBuf) + Len(wpendCons)
        BY DEF StreamInv, WP!SerialInv, WP!QueueInv, WP!FifoDispatch
    <2>3. /\ Len(wissued) \in Nat /\ Len(wwriteBuf) \in Nat
          /\ Len(wpendCons) \in Nat /\ DOMAIN wissued = 1..Len(wissued)
        BY <2>1
    <2>4. Len(wissued) <= wnw
        <3>1. \/ WP!Dispatched = Len(wissued) + 1
              \/ WP!Dispatched = Len(wissued) + 0
            BY Zenon DEF WP!Dispatched
        <3>. QED
            BY <2>2, <2>3, <3>1
    <2>5. Len(got) = wnw + Due /\ Due \in {0, 1}
        BY DEF PipeInv, HandInv, Due
    <2>6. Len(got) \in Nat /\ \A i \in 1..Len(got) : got[i] = i
        BY GotNumbers DEF StreamInv
    <2>7. Len(wissued) <= Len(got)
        BY <2>1, <2>3, <2>4, <2>5
    <2>. QED
        BY <2>2, <2>3, <2>6, <2>7
<1>. QED
    BY <1>1, PipeInvariants, PTL

(* The destination keeps the promise of a Writable at the end of a pipe.   *)
THEOREM DestinationIsSink == PipeSpec => W!ImplementsSink
<1>1. PipeSpec => WP!ImplementsSink
    <2>1. PipeSpec => WP!Spec
        BY DestInit, DestNext, PTL DEF PipeSpec, WP!Spec
    <2>2. WP!Spec => WP!ImplementsSink
        BY DestAssumptions, WP!Implementation
    <2>. QED
        BY <2>1, <2>2, PTL
<1>2. WP!Sink!absVars = W!Sink!absVars /\ WP!Sink!absVars' = W!Sink!absVars'
    BY Zenon DEF WP!Sink!absVars, W!Sink!absVars, WP!Handing, W!Handing
<1>3. WP!Sink!AbsInit => W!Sink!AbsInit
    BY Zenon DEF WP!Sink!AbsInit, W!Sink!AbsInit, WP!Handing, W!Handing
<1>4. WP!Sink!AbsNext => W!Sink!AbsNext
    BY Zenon
       DEF WP!Sink!AbsNext, W!Sink!AbsNext, WP!Sink!AcceptOne,
           W!Sink!AcceptOne, WP!Sink!TakeOne, W!Sink!TakeOne,
           WP!Sink!CompleteOne, W!Sink!CompleteOne, WP!Sink!CloseSink,
           W!Sink!CloseSink, WP!Sink!FinishSink, W!Sink!FinishSink,
           WP!Handing, W!Handing
<1>5. [WP!Sink!AbsNext]_WP!Sink!absVars => [W!Sink!AbsNext]_W!Sink!absVars
    BY <1>2, <1>4
<1>. QED
    BY <1>1, <1>3, <1>5, PTL
       DEF WP!ImplementsSink, W!ImplementsSink, WP!Sink!AbsSpec, W!Sink!AbsSpec

-----------------------------------------------------------------------------
(* The queue of NextTick, for every chunk size and number of callbacks.    *)

(* A chunk never shifts a callback from an empty queue.                    *)
ChunkInv == left <= Len(queue) /\ (~draining => left = 0 /\ running = 0)

(* What an event has waited for, and what it may still wait for.           *)
WaitInv ==
    /\ event = "none" => waited = 0
    /\ event = "waiting" =>
          /\ waited + left <= ChunkSize
          /\ ~draining /\ due > 0 => waited = 0
    /\ event = "due" =>
          /\ waited + left <= 2 * ChunkSize
          /\ ~draining /\ due > 0 => waited <= ChunkSize

TickInv == TypeOK /\ OneDrainer /\ CallOrder /\ ChunkInv /\ WaitInv

LEMMA SeqFacts ==
    ASSUME NEW S, NEW s \in Seq(S), NEW e \in S
    PROVE  /\ Append(s, e) \in Seq(S) /\ Len(Append(s, e)) = Len(s) + 1
           /\ Append(s, e)[Len(s) + 1] = e /\ Append(s, e) # <<>>
           /\ \A i \in 1..Len(s) : Append(s, e)[i] = s[i]
           /\ Len(s) \in Nat
    OBVIOUS

LEMMA TailSeq ==
    ASSUME NEW S, NEW s \in Seq(S), Len(s) > 0
    PROVE  /\ Head(s) \in S /\ Head(s) = s[1]
           /\ Tail(s) \in Seq(S) /\ Len(Tail(s)) = Len(s) - 1
           /\ \A i \in 1..(Len(s) - 1) : Tail(s)[i] = s[i + 1]
           /\ Len(s) \in Nat
    OBVIOUS

(* A sequence of consecutive numbers, appended to.                         *)
LEMMA Extend ==
    ASSUME NEW f, NEW g, NEW n \in Nat, NEW k \in Nat,
           \A i \in 1..n : f[i] = k + i,
           \A i \in 1..n : g[i] = f[i], g[n + 1] = k + n + 1
    PROVE  \A i \in 1..(n + 1) : g[i] = k + i
<1>. SUFFICES ASSUME NEW i \in 1..(n + 1) PROVE g[i] = k + i
    OBVIOUS
<1>1. CASE i = n + 1
    BY <1>1
<1>2. CASE i \in 1..n
    BY <1>2
<1>. QED
    BY <1>1, <1>2

LEMMA TickInit == Init => TickInv
<1>. SUFFICES ASSUME Init PROVE TickInv
    OBVIOUS
<1>1. <<>> \in Seq(Ticks) /\ Len(<<>>) = 0
    BY EmptySeq
<1>2. TypeOK
    <2>1. queue \in Seq(Ticks) /\ ran \in Seq(Ticks)
        BY <1>1, Zenon DEF Init
    <2>2. /\ added \in 0..MaxTicks /\ running \in 0..MaxTicks
          /\ left \in 0..ChunkSize
        BY ConstantsAssumption DEF Init
    <2>3. /\ armed \in BOOLEAN /\ draining \in BOOLEAN
          /\ delayed \in Nat /\ ready \in Nat /\ due \in Nat /\ waited \in Nat
          /\ event \in {"none", "waiting", "due"}
        BY DEF Init
    <2>. QED
        BY <2>1, <2>2, <2>3 DEF TypeOK
<1>3. CallOrder
    BY <1>1 DEF Init, CallOrder
<1>4. OneDrainer /\ ChunkInv /\ WaitInv
    BY <1>1, ConstantsAssumption DEF Init, OneDrainer, ChunkInv, WaitInv
<1>. QED
    BY <1>2, <1>3, <1>4 DEF TickInv

(* Only two actions change the queue: a call appends to it, the drainer    *)
(* takes its head.                                                         *)
LEMMA CallStep ==
    ASSUME TickInv, NextTickCall
    PROVE  TickInv'
<1>1. /\ added \in Nat /\ added + 1 \in Ticks /\ queue \in Seq(Ticks)
      /\ added' = added + 1 /\ queue' = Append(queue, added + 1)
      /\ UNCHANGED <<delayed, due, event, waited, draining, left, running, ran>>
    BY ConstantsAssumption
       DEF NextTickCall, Push, drainVars, TickInv, TypeOK, Ticks
<1>2. /\ queue' \in Seq(Ticks) /\ Len(queue') = Len(queue) + 1
      /\ queue'[Len(queue) + 1] = added + 1 /\ queue' # <<>>
      /\ \A i \in 1..Len(queue) : queue'[i] = queue[i]
      /\ Len(queue) \in Nat
    BY <1>1, SeqFacts
<1>3. armed' = TRUE /\ ready' = ready + (IF armed THEN 0 ELSE 1)
    BY DEF NextTickCall, MustArm, TickInv, TypeOK
<1>4. TypeOK'
    BY <1>1, <1>2, <1>3, ConstantsAssumption
       DEF NextTickCall, TickInv, TypeOK, drainVars
<1>5. OneDrainer'
    BY <1>1, <1>2, <1>3 DEF TickInv, TypeOK, OneDrainer
<1>6. CallOrder'
    <2>1. Len(ran) \in Nat /\ Len(ran) + Len(queue) = added
        BY DEF TickInv, TypeOK, CallOrder
    <2>2. \A i \in 1..(Len(queue) + 1) : queue'[i] = Len(ran) + i
        <3>1. \A i \in 1..Len(queue) : queue[i] = Len(ran) + i
            BY DEF TickInv, CallOrder
        <3>. QED
            BY <1>2, <2>1, <3>1, Extend, SMTT(30)
    <2>3. Len(ran') + Len(queue') = added'
        <3>1. ran' = ran
            BY <1>1
        <3>. QED
            BY <1>1, <1>2, <2>1, <3>1, SMTT(30)
    <2>4. \A i \in 1..Len(ran') : ran'[i] = i
        BY <1>1 DEF TickInv, CallOrder
    <2>5. \A i \in 1..Len(queue') : queue'[i] = Len(ran') + i
        BY <1>1, <1>2, <2>2
    <2>. QED
        BY <2>3, <2>4, <2>5 DEF CallOrder
<1>7. ChunkInv' /\ WaitInv'
    BY <1>1, <1>2 DEF TickInv, TypeOK, ChunkInv, WaitInv
<1>. QED
    BY <1>4, <1>5, <1>6, <1>7 DEF TickInv

LEMMA RunStep ==
    ASSUME TickInv, RunNext
    PROVE  TickInv'
<1>1. /\ queue \in Seq(Ticks) /\ ran \in Seq(Ticks)
      /\ draining /\ running = 0 /\ left > 0 /\ Len(queue) > 0
      /\ running' = Head(queue) /\ queue' = Tail(queue) /\ left' = left - 1
      /\ ran' = Append(ran, Head(queue))
      /\ UNCHANGED <<added, armed, delayed, ready, due, draining, event>>
    BY DEF RunNext, TickInv, TypeOK, ChunkInv
<1>2. /\ Head(queue) \in Ticks /\ Head(queue) = queue[1]
      /\ queue' \in Seq(Ticks) /\ Len(queue') = Len(queue) - 1
      /\ \A i \in 1..(Len(queue) - 1) : queue'[i] = queue[i + 1]
      /\ Len(queue) \in Nat
    BY <1>1, TailSeq
<1>3. /\ ran' \in Seq(Ticks) /\ Len(ran') = Len(ran) + 1
      /\ ran'[Len(ran) + 1] = Head(queue)
      /\ \A i \in 1..Len(ran) : ran'[i] = ran[i]
      /\ Len(ran) \in Nat
    BY <1>1, <1>2, SeqFacts
<1>4. waited' = IF event = "none" THEN 0 ELSE waited + 1
    BY DEF RunNext
<1>5. TypeOK'
    BY <1>1, <1>2, <1>3, <1>4, ConstantsAssumption DEF TickInv, TypeOK, Ticks
<1>6. OneDrainer'
    <2>1. armed
        BY <1>1 DEF TickInv, TypeOK, OneDrainer
    <2>. QED
        BY <1>1, <2>1 DEF TickInv, TypeOK, OneDrainer
<1>7. CallOrder'
    <2>1. queue[1] = Len(ran) + 1 /\ Len(ran) + Len(queue) = added
        BY <1>1, <1>2 DEF TickInv, CallOrder
    <2>2. \A i \in 1..(Len(ran) + 1) : ran'[i] = i
        <3>1. \A i \in 1..Len(ran) : ran[i] = 0 + i
            BY <1>3 DEF TickInv, CallOrder
        <3>2. ran'[Len(ran) + 1] = 0 + Len(ran) + 1
            BY <1>2, <1>3, <2>1
        <3>3. \A i \in 1..(Len(ran) + 1) : ran'[i] = 0 + i
            BY <1>3, <3>1, <3>2, Extend
        <3>. QED
            BY <1>3, <3>3
    <2>3. \A i \in 1..(Len(queue) - 1) : queue'[i] = (Len(ran) + 1) + i
        <3>1. \A i \in 1..Len(queue) : queue[i] = Len(ran) + i
            BY DEF TickInv, CallOrder
        <3>2. Len(ran) \in Nat /\ Len(queue) \in Nat
            BY <1>2, <1>3
        <3>3. \A i \in 1..(Len(queue) - 1) : queue'[i] = queue[i + 1]
            BY <1>2
        <3>. SUFFICES ASSUME NEW i \in 1..(Len(queue) - 1)
                      PROVE  queue'[i] = (Len(ran) + 1) + i
            OBVIOUS
        <3>4. i \in Int /\ i + 1 \in 1..Len(queue)
            BY <3>2
        <3>5. queue[i + 1] = Len(ran) + (i + 1)
            BY <3>1, <3>4
        <3>6. queue'[i] = queue[i + 1]
            BY <3>3
        <3>. QED
            BY <3>2, <3>4, <3>5, <3>6
    <2>4. Len(ran') + Len(queue') = added'
        <3>1. added' = added /\ added \in Nat
            BY <1>1 DEF TickInv, TypeOK
        <3>2. Len(ran') + Len(queue') = Len(ran) + Len(queue)
            BY <1>2, <1>3
        <3>. QED
            BY <2>1, <3>1, <3>2
    <2>5. \A i \in 1..Len(ran') : ran'[i] = i
        BY <1>3, <2>2
    <2>6. \A i \in 1..Len(queue') : queue'[i] = Len(ran') + i
        BY <1>2, <1>3, <2>3
    <2>. QED
        BY <2>4, <2>5, <2>6 DEF CallOrder
<1>8. ChunkInv' /\ WaitInv'
    BY <1>1, <1>2, <1>4 DEF TickInv, TypeOK, ChunkInv, WaitInv
<1>. QED
    BY <1>5, <1>6, <1>7, <1>8 DEF TickInv

LEMMA DrainStepKeeps ==
    ASSUME TickInv, DrainBegin \/ Return \/ Throw \/ DrainEnd
    PROVE  TickInv'
<1>. USE ConstantsAssumption
<1>1. UNCHANGED <<added, queue, ran>> /\ CallOrder'
    BY DEF DrainBegin, Return, Throw, DrainEnd, TickInv, CallOrder
<1>2. /\ queue \in Seq(Ticks) /\ Len(queue) \in Nat
      /\ queue = <<>> => Len(queue) = 0
    BY DEF TickInv, TypeOK
<1>3. CASE DrainBegin
    <2>1. Chunk \in 0..ChunkSize /\ Chunk <= Len(queue)
        BY <1>2 DEF Chunk
    <2>. QED
        BY <1>1, <1>2, <1>3, <2>1
           DEF DrainBegin, TickInv, TypeOK, OneDrainer, ChunkInv, WaitInv
<1>4. CASE Return
    BY <1>1, <1>4
       DEF Return, loopVars, TickInv, TypeOK, OneDrainer, ChunkInv, WaitInv
<1>5. CASE Throw
    BY <1>1, <1>5
       DEF Throw, Caught, loopVars, TickInv, TypeOK, OneDrainer, ChunkInv, WaitInv
<1>6. CASE DrainEnd
    <2>1. /\ armed = TRUE /\ delayed = 0 /\ ready = 0 /\ due = 0
          /\ draining' = FALSE
          /\ UNCHANGED <<added, ready, due, event, waited, left, running>>
          /\ \/ delayed' = 1 /\ armed' = TRUE
             \/ queue = <<>> /\ delayed' = 0 /\ armed' = FALSE
        BY <1>6 DEF DrainEnd, More, TickInv, TypeOK, OneDrainer
    <2>2. TypeOK'
        <3>1. delayed' \in Nat
            BY <2>1
        <3>2. armed' \in BOOLEAN /\ draining' \in BOOLEAN
            BY <2>1, Zenon
        <3>3. UNCHANGED <<added, queue, ran, ready, due, event, waited, left,
                          running>>
            BY <1>1, <2>1
        <3>. QED
            BY <3>1, <3>2, <3>3 DEF TickInv, TypeOK
    <2>3. OneDrainer'
        BY <1>1, <2>1 DEF OneDrainer
    <2>4. ChunkInv' /\ WaitInv'
        BY <1>1, <1>2, <1>6, <2>1 DEF DrainEnd, TickInv, TypeOK, ChunkInv, WaitInv
    <2>. QED
        BY <1>1, <2>2, <2>3, <2>4 DEF TickInv
<1>. QED
    BY <1>3, <1>4, <1>5, <1>6

LEMMA LoopStepKeeps ==
    ASSUME TickInv, Elapse \/ EventArrives \/ Poll \/ DispatchEvent
    PROVE  TickInv'
<1>. USE ConstantsAssumption
<1>1. /\ UNCHANGED <<added, queue, ran, armed, draining, left, running>>
      /\ CallOrder'
    BY DEF Elapse, EventArrives, Poll, DispatchEvent, drainVars, TickInv, CallOrder
<1>2. queue \in Seq(Ticks) /\ Len(queue) \in Nat
    BY DEF TickInv, TypeOK
<1>3. CASE Elapse
    BY <1>1, <1>3 DEF Elapse, TickInv, TypeOK, OneDrainer, ChunkInv, WaitInv
<1>4. CASE EventArrives
    BY <1>1, <1>2, <1>4
       DEF EventArrives, TickInv, TypeOK, OneDrainer, ChunkInv, WaitInv
<1>5. CASE Poll
    BY <1>1, <1>2, <1>5 DEF Poll, TickInv, TypeOK, OneDrainer, ChunkInv, WaitInv
<1>6. CASE DispatchEvent
    BY <1>1, <1>6 DEF DispatchEvent, TickInv, TypeOK, OneDrainer, ChunkInv, WaitInv
<1>. QED
    BY <1>3, <1>4, <1>5, <1>6

LEMMA TickStep == TickInv /\ [Next]_vars => TickInv'
<1>. SUFFICES ASSUME TickInv, [Next]_vars PROVE TickInv'
    OBVIOUS
<1>1. CASE UNCHANGED vars
    BY <1>1 DEF vars, loopVars, drainVars, TickInv, TypeOK, OneDrainer, CallOrder,
                ChunkInv, WaitInv
<1>2. CASE Next
    BY <1>2, CallStep, RunStep, DrainStepKeeps, LoopStepKeeps
       DEF Next, DrainStep
<1>. QED
    BY <1>1, <1>2

(* The invariant of all that follows, for every chunk size.                *)
THEOREM TickInvariant == Spec => []TickInv
    BY TickInit, TickStep, PTL DEF Spec

(* There is one drainer while callbacks wait, and none when none do.       *)
THEOREM SingleDrainer == Spec => []OneDrainer
<1>1. TickInv => OneDrainer
    BY DEF TickInv
<1>. QED
    BY <1>1, TickInvariant, PTL

(* The callbacks run once each, in the order of the calls.                 *)
THEOREM Order == Spec => []CallOrder
<1>1. TickInv => CallOrder
    BY DEF TickInv
<1>. QED
    BY <1>1, TickInvariant, PTL

(* No event waits for more than two chunks of callbacks.                   *)
THEOREM EventsDispatched == Spec => []Responsive
<1>1. TickInv => Responsive
    BY ConstantsAssumption DEF TickInv, TypeOK, ChunkInv, WaitInv, Responsive
<1>. QED
    BY <1>1, TickInvariant, PTL
=============================================================================
