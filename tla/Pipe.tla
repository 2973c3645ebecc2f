-------------------------------- MODULE Pipe --------------------------------
(***************************************************************************)
(* source.pipe(destination), packages/node/stream/src/utils/pipe.ts: a     *)
(* Readable and a Writable on one stack and one nextTick queue.            *)
(*                                                                         *)
(* The source's variables have Readable's names and the destination's      *)
(* those of Writable with a w before them.  order is the shared queue:     *)
(* whose tick is the next.  ondata says where the pipe's listener of       *)
(* 'data' stands: "none", "due" (the chunk was emitted), or "write" (in    *)
(* destination.write).  A chunk is one object, so the k-th write is the    *)
(* object k.                                                               *)
(***************************************************************************)
EXTENDS Integers, Sequences, FiniteSets, FiniteSetsExt

CONSTANTS MaxChunks, MaxAsked, HWM, Uses,  \* of the source, see Readable
          WHWM, WOutcomes, WDestroy        \* of the destination, see Writable

(* The pipe is the one listener of the source, of which each chunk is an   *)
(* object, and which does not read a Gio stream (Readable's SourceFails is *)
(* no step here).                                                          *)
ASSUME PipeAssumption ==
    /\ MaxChunks \in Nat /\ MaxAsked \in Nat /\ HWM \in Nat /\ WHWM \in Nat
    /\ WOutcomes \subseteq {"sync", "syncErr", "async", "asyncErr"}
    /\ WDestroy \in BOOLEAN
    /\ \A u \in Uses :
        /\ u.source \in {"eager", "pull", "from"}
        /\ u.consumer = {"data"} /\ ~u.unshifts
        /\ u.objects /\ u.sizes = {1}

VARIABLES
    use, chunks, produced, asked, failing, stalled, buffer, length, flowing,
    ended, endEmitted, reading, constructed, destroyed, readablePending,
    listeners, flow, rd, rdSize, ticks, pending, got, endAt, told
VARIABLES
    wnw, wlength, wcorked, wneedDrain, wconstructed, wwriting, wended, wending,
    wfinished, wdestroyed, wcorkedBuf, wwriteBuf, wpendCons, wpendEnd, wendCb,
    wends, wpc, warg, wcont, wcur, wticks, winflight, wbatches, wpending,
    wissued, wcalled, wendCalled, wevents, wowed
VARIABLES
    order,
    piping,   \* the pipe's listeners are attached
    ondata,
    below,    \* what destination.write returned
    drainListenerAdded

closureVars == <<piping, ondata, below, drainListenerAdded>>

R == INSTANCE Readable WITH MaxTicks <- 0
W == INSTANCE Writable WITH
    MaxWrites <- MaxChunks, MaxEnds <- 1,
    Size <- [k \in 1..MaxChunks |-> 1], HWM <- WHWM,
    Outcomes <- WOutcomes, ConstructOutcomes <- {},
    Cork <- FALSE, Writev <- FALSE, Construct <- FALSE, Destroy <- WDestroy,
    nw <- wnw, length <- wlength, corked <- wcorked, needDrain <- wneedDrain,
    constructed <- wconstructed, writing <- wwriting, ended <- wended,
    ending <- wending, finished <- wfinished, destroyed <- wdestroyed,
    corkedBuf <- wcorkedBuf, writeBuf <- wwriteBuf, pendCons <- wpendCons,
    pendEnd <- wpendEnd, endCb <- wendCb, ends <- wends, pc <- wpc,
    arg <- warg, cont <- wcont, cur <- wcur, ticks <- wticks,
    inflight <- winflight, batches <- wbatches, pending <- wpending,
    issued <- wissued, called <- wcalled, endCalled <- wendCalled,
    events <- wevents, owed <- wowed

sourceBesides == <<use, chunks, produced, asked, failing, stalled, buffer,
                   length, ended, endEmitted, reading, constructed, destroyed,
                   readablePending, listeners, rd, rdSize, ticks, pending, got,
                   endAt, told>>
sourceState == <<sourceBesides, flowing, flow>>
destState == <<wnw, wlength, wcorked, wneedDrain, wconstructed, wwriting,
               wended, wending, wfinished, wdestroyed, wcorkedBuf, wwriteBuf,
               wpendCons, wpendEnd, wendCb, wends, wpc, warg, wcont, wcur,
               wticks, winflight, wbatches, wpending, wissued, wcalled,
               wendCalled, wevents, wowed>>
pipeVars == <<sourceState, destState, order, closureVars>>

PipeInit ==
    /\ R!Init /\ W!Init
    /\ order = [i \in 1..Len(ticks) |-> "source"]
    /\ piping = FALSE /\ ondata = "none" /\ below = TRUE
    /\ drainListenerAdded = FALSE

SourceIdle == flow = "idle" /\ rd = "idle"
DestIdle == wpc = "user" /\ wcur = <<>>

(* The ticks of the shared queue q, and those a step put behind them, or   *)
(* ahead of the last of them.                                              *)
Queued(q, owner, n) == order' = q \o [i \in 1..n |-> owner]
Ahead(q, owner, n) ==
    LET k == Max({1, Len(q)})
    IN order' = SubSeq(q, 1, k - 1) \o [i \in 1..n |-> owner]
                 \o SubSeq(q, k, Len(q))
SourceQueues == Queued(order, "source", Len(ticks') - Len(ticks))
DestQueues == Queued(order, "dest", Len(wticks') - Len(wticks))

(* A step of one of them, in which the pipe does nothing.                  *)
SourceAlone(A) == A /\ SourceQueues /\ UNCHANGED <<destState, closureVars>>
DestAlone(A) == A /\ DestQueues /\ UNCHANGED <<sourceState, closureVars>>

-----------------------------------------------------------------------------
(* The source's own steps.  A push in a listener of 'data' may come before *)
(* or after the pipe's listener; the answer of a Gio stream comes from the *)
(* main loop.                                                              *)
SourceSteps ==
    /\ wpc = "user" /\ ondata # "write"
    /\ (flow = "idle" => wcur = <<>>)
    /\ SourceAlone(R!Push \/ R!PushEnd \/ R!DestroyCall
                   \/ R!DestroyCallback \/ R!ConstructCallback)

(* source.on('data', ondata)                                               *)
Start ==
    /\ ~piping /\ SourceIdle /\ DestIdle
    /\ piping' = TRUE
    /\ R!OnData
    /\ SourceQueues
    /\ UNCHANGED <<destState, ondata, below, drainListenerAdded>>

(* emit('data'), and the loop after it.                                    *)
Flow ==
    /\ wpc = "user" /\ ondata = "none"
    /\ R!FlowHead \/ R!FlowData \/ R!FlowRead
    /\ ondata' = IF flow = "head" /\ flow' = "data" /\ piping
                 THEN "due" ELSE "none"
    /\ SourceQueues
    /\ UNCHANGED <<destState, piping, below, drainListenerAdded>>

(* ondata: write(chunk) if the destination is writable; a false answer     *)
(* pauses the source and waits for 'drain'.                                *)
OnData ==
    /\ ondata = "due" /\ flow = "data" /\ wpc = "user"
    /\ IF wdestroyed
       THEN /\ ondata' = "none"
            /\ UNCHANGED <<destState, below, order>>
       ELSE /\ ondata' = "write"
            /\ W!Write
            /\ below' = W!BelowHWM(wlength')
            /\ DestQueues
    /\ UNCHANGED <<sourceState, piping, drainListenerAdded>>

MustPauseMutant == ~below /\ ~wwriting
MustPause == ~below

OnDataReturn ==
    /\ ondata = "write" /\ wpc = "user"
    /\ ondata' = "none"
    /\ IF MustPause
       THEN flowing' = "false" /\ drainListenerAdded' = TRUE
       ELSE UNCHANGED <<flowing, drainListenerAdded>>
    /\ UNCHANGED <<sourceBesides, flow, destState, order, piping, below>>

(* ondrain, within the destination's tick: the source resumes.             *)
ResumeMutant == UNCHANGED <<flowing, flow>>
Resume == R!ResumeBody

OnDrain ==
    /\ SourceIdle
    /\ W!DrainCheck /\ W!DrainDue
    /\ IF drainListenerAdded THEN Resume ELSE UNCHANGED <<flowing, flow>>
    /\ drainListenerAdded' = FALSE
    /\ UNCHANGED <<sourceBesides, order, piping, ondata, below>>

-----------------------------------------------------------------------------
(* The next tick of the source: at its 'end' the destination is ended, and *)
(* then or at its 'close' the pipe's listeners are removed.                *)
EndsMutant == (endEmitted' /\ ~endEmitted) \/ Head(ticks) = "close"
Ends == endEmitted' /\ ~endEmitted
Cleanup == piping' = FALSE /\ drainListenerAdded' = FALSE

SourceTick ==
    /\ SourceIdle /\ DestIdle
    /\ order # <<>> /\ Head(order) = "source"
    /\ R!RunTick
    /\ Queued(Tail(order), "source", Len(ticks') - Len(Tail(ticks)))
    /\ IF Ends /\ piping
       THEN W!End /\ wnw' = wnw
       ELSE UNCHANGED destState
    /\ IF Ends \/ Head(ticks) = "close"
       THEN Cleanup
       ELSE UNCHANGED <<piping, drainListenerAdded>>
    /\ UNCHANGED <<ondata, below>>

(* The next tick of the destination, up to its first listener.             *)
DestTick ==
    /\ SourceIdle /\ DestIdle
    /\ order # <<>> /\ Head(order) = "dest"
    /\ W!RunTick
    /\ Queued(Tail(order), "dest", Len(wticks') - Len(Tail(wticks)))
    /\ IF Head(wticks).kind = "close"
       THEN Cleanup
       ELSE UNCHANGED <<piping, drainListenerAdded>>
    /\ UNCHANGED <<sourceState, ondata, below>>

DestRest ==
    /\ SourceIdle
    /\ DestAlone((W!DrainCheck /\ ~W!DrainDue) \/ W!FlushPart \/ W!ClosePart)

(* The calls of the destination that run to their end.  end() was called   *)
(* by the source's 'end', whose own tick for 'close' comes after those of  *)
(* end().                                                                  *)
DestCall ==
    \/ DestAlone(W!DoWrite \/ W!DrainWriteBuffer)
    \/ /\ W!EndRest
       /\ Ahead(order, "dest", Len(wticks') - Len(wticks))
       /\ UNCHANGED <<sourceState, closureVars>>

(* The sink calls back, or the user destroys the destination.              *)
SinkSteps == SourceIdle /\ DestAlone(W!WriteCallback \/ W!FinalCallback)
DestDestroy == SourceIdle /\ DestAlone(W!DestroyCall \/ W!DestroyCallback)

CallSteps == Flow \/ OnData \/ OnDataReturn \/ DestCall \/ DestRest \/ OnDrain
TickSteps == SourceTick \/ DestTick

PipeNext ==
    SourceSteps \/ Start \/ CallSteps \/ TickSteps \/ SinkSteps \/ DestDestroy

PipeSpec == PipeInit /\ [][PipeNext]_pipeVars

(* Calls return, ticks run, the sink calls back, _construct does, and the  *)
(* source answers.                                                         *)
Answer == /\ wpc = "user" /\ ondata # "write" /\ (flow = "idle" => wcur = <<>>)
          /\ SourceAlone(R!Push \/ R!PushEnd \/ R!ConstructCallback)
PipeFairness ==
    /\ WF_pipeVars(CallSteps) /\ WF_pipeVars(TickSteps)
    /\ WF_pipeVars(SinkSteps) /\ SF_pipeVars(Answer)
PipeFairSpec == PipeSpec /\ PipeFairness
-----------------------------------------------------------------------------
(* However the sink's callbacks fall between the writes, the pipe fills    *)
(* the destination to its mark and, since 'drain' is emitted already at    *)
(* the mark (writable.ts:157, :175), by one object beyond it: no paused    *)
(* source goes on, and no two drains let it write twice.                   *)
Backpressure == wlength <= WHWM + 1

(* 'finish' says that the sink is done with all the source produced.       *)
FinishAfterAll ==
    "finish" \in wevents /\ ~wdestroyed => ended /\ wcalled = 1..produced

(* A pipe begun before the source's 'end' finishes, unless an end of it is *)
(* destroyed or a write failed: the source is resumed after each pause and *)
(* the destination is ended.                                               *)
PipeCompletes ==
    piping /\ ~endEmitted ~>
        ({"finish", "error"} \cap wevents # {} \/ destroyed \/ wdestroyed)
=============================================================================
