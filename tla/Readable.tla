------------------------------ MODULE Readable ------------------------------
(***************************************************************************)
(* The Readable stream of packages/node/stream/src/readable.ts.            *)
(*                                                                         *)
(* A chunk is a sequence of bytes, and the bytes the source produces are   *)
(* 1, 2, ..., so what the consumer gets can be compared with what was      *)
(* pushed; in object mode an object is a chunk of one byte.                *)
(*                                                                         *)
(* flow says where _flow() stands: "idle", "head" (about to test its loop  *)
(* condition), "data" (in emit('data')) or "read" (in the user's _read).   *)
(* rd says the same of read(): "idle", "read" (in the user's _read), or    *)
(* "rest" (after it), with the argument in rdSize.  ticks is the FIFO of   *)
(* nextTick callbacks.                                                     *)
(***************************************************************************)
EXTENDS Integers, Sequences, FiniteSets, FiniteSetsExt, SequencesExt

CONSTANTS
    MaxChunks,   \* bound: chunks the source pushes
    MaxAsked,    \* bound: unanswered _read calls that are told apart
    MaxTicks,    \* bound: pause() and resume() while fewer ticks wait
    HWM,         \* readableHighWaterMark
    Uses         \* the ways the stream is used, see below

(* Which subset of the interface one behaviour uses:                       *)
(*   source     who pushes, see MayPush: "eager", "pull", "gio" or "from"  *)
(*   consumer   what the consumer uses: events, read() and read(n)         *)
(*   objects    the stream is in object mode                               *)
(*   sizes      the lengths of the chunks                                  *)
(*   pauses     the consumer calls pause() and resume()                    *)
(*   unshifts   it calls unshift()                                         *)
(*   constructs, destroys  the stream has a _construct; destroy() is       *)
(*              called, and _construct may fail                            *)
ASSUME BoundAssumption ==
    MaxChunks \in Nat /\ MaxAsked \in Nat /\ MaxTicks \in Nat /\ HWM \in Nat
ASSUME UseAssumption ==
    \A u \in Uses :
        /\ u.source \in {"eager", "pull", "gio", "from"}
        /\ u.consumer \subseteq {"data", "readable", "read", "sized"}
        /\ u.sizes \subseteq Nat /\ (u.objects => u.sizes = {1})

VARIABLES
    use,         \* the way this stream is used
    chunks,      \* number of chunks pushed so far
    produced,    \* number of bytes pushed so far
    asked,       \* _read calls the source has not answered
    failing,     \* a read of the source failed, its callback has not run
    stalled,     \* Readable.from waits for 'drain'
    buffer,      \* _buffer
    length,      \* readableLength
    flowing,     \* readableFlowing: "null", "true" or "false"
    ended, endEmitted, reading, constructed, destroyed,
    readablePending,  \* _readablePending
    listeners,   \* the events the consumer listens to
    flow, rd, rdSize, ticks,
    pending,     \* which of _construct and _destroy are running
    got,         \* history: the bytes handed to the consumer
    endAt,       \* history: how many those were when 'end' was emitted, or -1
    told         \* history: 'readable' was emitted since the last push

sourceVars == <<chunks, produced, asked, failing, stalled>>
bufferVars == <<buffer, length>>
stateVars == <<ended, endEmitted, reading, constructed, destroyed>>
readVars == <<rd, rdSize>>
readableVars == <<readablePending, listeners, told>>
handedVars == <<got, endAt>>
vars == <<use, sourceVars, bufferVars, stateVars, flowing, readableVars, flow,
          readVars, ticks, pending, handedVars>>

Source == use.source
Consumer == use.consumer
All == -1    \* read() without a size
Bytes(buf) == FlattenSeq(buf)
Numbers(n, k) == [i \in 1..k |-> n + i]

Init ==
    /\ use \in Uses
    /\ chunks = 0 /\ produced = 0 /\ asked = 0
    /\ failing = FALSE /\ stalled = FALSE
    /\ buffer = <<>> /\ length = 0 /\ flowing = "null"
    /\ ended = FALSE /\ endEmitted = FALSE /\ reading = FALSE
    /\ constructed = ~use.constructs /\ destroyed = FALSE
    /\ readablePending = FALSE /\ listeners = {} /\ told = TRUE
    /\ flow = "idle" /\ rd = "idle" /\ rdSize = All
    /\ ticks = IF use.constructs THEN <<"construct">> ELSE <<>>
    /\ pending = {} /\ got = <<>> /\ endAt = -1

(* Where user code runs: outside any call or in a listener of 'data', and  *)
(* in the user's _read.                                                    *)
UserTurn == rd = "idle" /\ flow \in {"idle", "data"}
InRead == rd = "read" \/ flow = "read"

-----------------------------------------------------------------------------
(* _scheduleReadable(), when q are the ticks before it.                    *)
ScheduleReadable(q) ==
    IF readablePending \/ "readable" \notin listeners
    THEN ticks' = q /\ UNCHANGED readablePending
    ELSE ticks' = Append(q, "readable") /\ readablePending' = TRUE

(* An eager source pushes when it likes, Readable.from until push returns  *)
(* false, a pull source once for each _read, within it or later, and one   *)
(* that reads a Gio stream later, and one read at a time: a second fails.  *)
MayPush ==
    CASE Source = "eager" -> UserTurn \/ InRead
      [] Source = "from" -> UserTurn /\ flow = "idle" /\ ~stalled
      [] Source = "pull" -> (UserTurn \/ InRead) /\ asked > 0
      [] Source = "gio" -> UserTurn /\ flow = "idle" /\ asked > 0

Answered == asked' = IF asked > 0 THEN asked - 1 ELSE asked

AskSource ==
    /\ asked' = CASE Source = "pull" /\ asked < MaxAsked -> asked + 1
                  [] Source = "gio" -> 1
                  [] OTHER -> asked
    /\ failing' = (failing \/ (Source = "gio" /\ asked > 0))

(* push(chunk).  A push after push(null), which is a mistake of the source *)
(* that the code does not test for, is left out.                           *)
FlowDue == flowing = "true" /\ flow = "idle"

(* What a chunk adds to readableLength.                                    *)
Size(chunk) == Len(chunk)

PushBuffer(buf, chunk) == Append(buf, chunk)

Push ==
    /\ MayPush /\ ~ended /\ chunks < MaxChunks
    /\ \E k \in use.sizes :
        /\ buffer' = PushBuffer(buffer, Numbers(produced, k))
        /\ length' = length + Size(Numbers(produced, k))
        /\ produced' = produced + k
    /\ chunks' = chunks + 1
    /\ stalled' = (Source = "from" /\ length' >= HWM)
    /\ told' = FALSE
    /\ Answered
    /\ IF FlowDue
       THEN ticks' = Append(ticks, "flow") /\ UNCHANGED readablePending
       ELSE IF flowing # "true"
       THEN ScheduleReadable(ticks)
       ELSE UNCHANGED <<ticks, readablePending>>
    /\ UNCHANGED <<use, failing, flowing, stateVars, listeners, flow,
                   readVars, pending, handedVars>>

(* push(null)                                                              *)
PushEnd ==
    /\ MayPush /\ ~ended
    /\ ended' = TRUE
    /\ told' = FALSE
    /\ Answered
    /\ ScheduleReadable(IF buffer = <<>> /\ ~endEmitted
                        THEN Append(ticks, "end") ELSE ticks)
    /\ UNCHANGED <<use, chunks, produced, failing, stalled, bufferVars,
                   flowing, endEmitted, reading, constructed, destroyed,
                   listeners, flow, readVars, pending, handedVars>>

-----------------------------------------------------------------------------
(* _flow(), called with readableFlowing = f.                               *)
EnterFlow(f) ==
    flow' = IF f = "true" /\ flow = "idle" /\ ~destroyed /\ constructed
            THEN "head" ELSE flow

OnData ==
    /\ UserTurn /\ "data" \in Consumer \ listeners
    /\ listeners' = listeners \cup {"data"}
    /\ IF flowing = "null"
       THEN flowing' = "true" /\ EnterFlow("true")
       ELSE UNCHANGED <<flowing, flow>>
    /\ UNCHANGED <<use, sourceVars, bufferVars, stateVars, readablePending,
                   told, readVars, ticks, pending, handedVars>>

OnReadable ==
    /\ UserTurn /\ "readable" \in Consumer \ listeners
    /\ listeners' = listeners \cup {"readable"}
    /\ IF (buffer # <<>> \/ ended) /\ ~readablePending
       THEN ticks' = Append(ticks, "readable") /\ readablePending' = TRUE
       ELSE UNCHANGED <<ticks, readablePending>>
    /\ UNCHANGED <<use, sourceVars, bufferVars, flowing, stateVars, told,
                   flow, readVars, pending, handedVars>>

MayPause == use.pauses /\ UserTurn /\ Len(ticks) < MaxTicks

Pause ==
    /\ MayPause /\ flowing # "false"
    /\ flowing' = "false"
    /\ UNCHANGED <<use, sourceVars, bufferVars, stateVars, readableVars, flow,
                   readVars, ticks, pending, handedVars>>

ResumeBody ==
    IF flowing # "true"
    THEN flowing' = "true" /\ EnterFlow("true")
    ELSE UNCHANGED <<flowing, flow>>

Resume ==
    /\ MayPause
    /\ ResumeBody
    /\ UNCHANGED <<use, sourceVars, bufferVars, stateVars, readableVars,
                   readVars, ticks, pending, handedVars>>

(* One turn of _flow(): the next chunk is emitted, or the loop is over.    *)
LoopOn == buffer # <<>> /\ flowing = "true" /\ ~destroyed

EndDueMutant == ended /\ ~endEmitted
EndDue == ended /\ buffer = <<>> /\ ~endEmitted

(* The last lines of _flow, after its finally block.                       *)
FlowAgainMutant == <<>>
FlowAgainPollMutant == IF flowing = "true" THEN <<"flow">> ELSE <<>>
FlowAgain == IF buffer # <<>> /\ flowing = "true" /\ ~destroyed
             THEN <<"flow">> ELSE <<>>

FlowHead ==
    /\ flow = "head"
    /\ \/ /\ LoopOn
          /\ buffer' = Tail(buffer)
          /\ length' = length - Len(Head(buffer))
          /\ got' = got \o Head(buffer)
          /\ flow' = "data"
          /\ UNCHANGED <<reading, asked, failing, ticks>>
       \/ /\ ~LoopOn
          /\ IF destroyed
             THEN flow' = "idle" /\ UNCHANGED <<reading, asked, failing, ticks>>
             ELSE IF EndDue
             THEN /\ flow' = "idle" /\ ticks' = Append(ticks, "end")
                  /\ UNCHANGED <<reading, asked, failing>>
             ELSE IF ~ended /\ ~reading
             THEN /\ flow' = "read" /\ reading' = TRUE
                  /\ AskSource
                  /\ UNCHANGED ticks
             ELSE /\ flow' = "idle" /\ ticks' = ticks \o FlowAgain
                  /\ UNCHANGED <<reading, asked, failing>>
          /\ UNCHANGED <<bufferVars, got>>
    /\ UNCHANGED <<use, chunks, produced, stalled, flowing, ended, endEmitted,
                   constructed, destroyed, readableVars, readVars, pending,
                   endAt>>

(* The listeners of 'data' return.                                         *)
FlowData ==
    /\ flow = "data" /\ rd = "idle"
    /\ flow' = "head"
    /\ UNCHANGED <<use, sourceVars, bufferVars, flowing, stateVars,
                   readableVars, readVars, ticks, pending, handedVars>>

(* The _read that _flow called returns.                                    *)
FlowRead ==
    /\ flow = "read"
    /\ reading' = FALSE
    /\ flow' = "idle"
    /\ ticks' = ticks \o FlowAgain
    /\ UNCHANGED <<use, sourceVars, bufferVars, flowing, ended, endEmitted,
                   constructed, destroyed, readableVars, readVars, pending,
                   handedVars>>

-----------------------------------------------------------------------------
(* read(n): up to the call of _read, its return, and the rest.             *)
Sizes == (IF "read" \in Consumer THEN {All} ELSE {})
           \cup (IF "sized" \in Consumer THEN 0..2 ELSE {})

Read ==
    /\ UserTurn /\ constructed
    /\ ~(buffer = <<>> /\ ended)
    /\ rdSize' \in Sizes
    /\ IF buffer = <<>>
       THEN rd' = "read" /\ reading' = TRUE /\ AskSource
       ELSE rd' = "rest" /\ UNCHANGED <<reading, asked, failing>>
    /\ UNCHANGED <<use, chunks, produced, stalled, bufferVars, flowing, ended,
                   endEmitted, constructed, destroyed, readableVars, flow,
                   ticks, pending, handedVars>>

ReadReturn ==
    /\ rd = "read"
    /\ reading' = FALSE
    /\ rd' = "rest"
    /\ UNCHANGED <<use, sourceVars, bufferVars, flowing, ended, endEmitted,
                   constructed, destroyed, readableVars, flow, rdSize, ticks,
                   pending, handedVars>>

(* _readBytes(n): how many whole chunks it takes; n is at most length.     *)
SumTo(k) == Len(Bytes(SubSeq(buffer, 1, k)))
Whole(n) == Max({k \in 0..Len(buffer) :
                    SumTo(k) <= n /\ (k > 0 => SumTo(k - 1) < n)})
Needed(n) == n - SumTo(Whole(n))
Splits(n) == Needed(n) > 0 /\ Whole(n) < Len(buffer)
Split(n) == buffer[Whole(n) + 1]

(* What read(n) returns, and what it leaves in the buffer.                 *)
Taken(n) ==
    IF use.objects THEN Head(buffer)
    ELSE IF n = All THEN Bytes(buffer)
    ELSE Bytes(SubSeq(buffer, 1, Whole(n)))
           \o (IF Splits(n) THEN SubSeq(Split(n), 1, Needed(n)) ELSE <<>>)

LeftMutant(n) == IF n = All THEN <<>>
                 ELSE SubSeq(buffer, IF use.objects THEN n + 1 ELSE Whole(n) + 1,
                             Len(buffer))
Left(n) ==
    IF use.objects THEN Tail(buffer)
    ELSE IF n = All THEN <<>>
    ELSE IF Splits(n)
    THEN <<SubSeq(Split(n), Needed(n) + 1, Len(Split(n)))>>
           \o SubSeq(buffer, Whole(n) + 2, Len(buffer))
    ELSE SubSeq(buffer, Whole(n) + 1, Len(buffer))

ReadsNull(n) == buffer = <<>> \/ n = 0 \/ (n # All /\ n > length)

(* The rest of read(n), with 'end' if read() took the last chunk.          *)
ReadRest ==
    /\ rd = "rest"
    /\ rd' = "idle" /\ rdSize' = All
    /\ IF ReadsNull(rdSize)
       THEN UNCHANGED <<bufferVars, got, endAt, endEmitted, ticks>>
       ELSE /\ buffer' = Left(rdSize)
            /\ length' = IF rdSize = All /\ ~use.objects THEN 0
                         ELSE length - Len(Taken(rdSize))
            /\ got' = got \o Taken(rdSize)
            /\ IF rdSize = All /\ ended /\ buffer' = <<>> /\ ~endEmitted
               THEN /\ endEmitted' = TRUE
                    /\ endAt' = Len(got)
                    /\ ticks' = Append(ticks, "close")
               ELSE UNCHANGED <<endAt, endEmitted, ticks>>
    /\ UNCHANGED <<use, sourceVars, flowing, ended, reading, constructed,
                   destroyed, readableVars, flow, pending>>

(* unshift() of the end of what the consumer got.                          *)
Unshift ==
    /\ use.unshifts /\ UserTurn /\ endAt = -1
    /\ \E k \in 1..(IF use.objects THEN 1 ELSE 2) :
        /\ k <= Len(got)
        /\ buffer' = <<SubSeq(got, Len(got) - k + 1, Len(got))>> \o buffer
        /\ length' = length + Size(Head(buffer'))
        /\ got' = SubSeq(got, 1, Len(got) - k)
    /\ UNCHANGED <<use, sourceVars, flowing, stateVars, readableVars, flow,
                   readVars, ticks, pending, endAt>>

-----------------------------------------------------------------------------
(* destroy(err) when the stream is not destroyed, q are the ticks and p    *)
(* the callbacks awaited; the stream's _destroy may call back later.       *)
CloseTicks(err) == IF err THEN <<"error", "close">> ELSE <<"close">>

DestroyBody(q, p, err) ==
    /\ destroyed' = TRUE
    /\ \/ ticks' = q \o CloseTicks(err) /\ pending' = p
       \/ use.destroys /\ ticks' = q /\ pending' = p \cup {"destroy"}

DestroyCall ==
    /\ use.destroys /\ (UserTurn \/ InRead) /\ ~destroyed
    /\ \E err \in BOOLEAN : DestroyBody(ticks, pending, err)
    /\ UNCHANGED <<use, sourceVars, bufferVars, flowing, ended, endEmitted,
                   reading, constructed, readableVars, flow, readVars,
                   handedVars>>

DestroyCallback ==
    /\ UserTurn /\ "destroy" \in pending
    /\ pending' = pending \ {"destroy"}
    /\ \E err \in BOOLEAN : ticks' = ticks \o CloseTicks(err)
    /\ UNCHANGED <<use, sourceVars, bufferVars, flowing, stateVars,
                   readableVars, flow, readVars, handedVars>>

(* The callback of a read of a Gio stream that failed.                     *)
SourceFails ==
    /\ failing /\ flow = "idle" /\ rd = "idle"
    /\ failing' = FALSE
    /\ IF destroyed THEN UNCHANGED <<destroyed, ticks, pending>>
                    ELSE DestroyBody(ticks, pending, TRUE)
    /\ UNCHANGED <<use, chunks, produced, asked, stalled, bufferVars, flowing,
                   ended, endEmitted, reading, constructed, readableVars,
                   flow, readVars, handedVars>>

(* The callback of _construct, when q are the ticks and p the callbacks    *)
(* awaited.                                                                *)
Constructed(q, p) ==
    /\ constructed' = TRUE
    /\ \/ /\ use.destroys  \* it failed
          /\ IF destroyed
             THEN ticks' = q /\ pending' = p /\ UNCHANGED destroyed
             ELSE DestroyBody(q, p, TRUE)
          /\ UNCHANGED flow
       \/ /\ flow' = IF flowing = "true" /\ ~destroyed THEN "head" ELSE flow
          /\ ticks' = q /\ pending' = p
          /\ UNCHANGED destroyed

ConstructCallback ==
    /\ flow = "idle" /\ rd = "idle" /\ "construct" \in pending
    /\ Constructed(ticks, pending \ {"construct"})
    /\ UNCHANGED <<use, sourceVars, bufferVars, flowing, ended, endEmitted,
                   reading, readableVars, readVars, handedVars>>

-----------------------------------------------------------------------------
(* _readablePending once the tick has run.                                  *)
AfterReadableMutant == readablePending
AfterReadable == FALSE

(* The next nextTick callback.                                             *)
RunTick ==
    /\ flow = "idle" /\ rd = "idle" /\ ticks # <<>>
    /\ LET kind == Head(ticks)
           q == Tail(ticks)
       IN  \/ /\ kind = "construct"
              /\ \/ Constructed(q, pending)
                 \/ /\ pending' = pending \cup {"construct"} /\ ticks' = q
                    /\ UNCHANGED <<constructed, destroyed, flow>>
              /\ UNCHANGED <<endEmitted, endAt, readablePending, told>>
           \/ /\ kind = "flow"
              /\ ticks' = q /\ EnterFlow(flowing)
              /\ UNCHANGED <<constructed, destroyed, pending, endEmitted, endAt,
                             readablePending, told>>
           \/ /\ kind = "end"
              /\ IF endEmitted
                 THEN ticks' = q /\ UNCHANGED <<endEmitted, endAt>>
                 ELSE /\ endEmitted' = TRUE /\ endAt' = Len(got)
                      /\ ticks' = Append(q, "close")
              /\ UNCHANGED <<constructed, destroyed, pending, flow,
                             readablePending, told>>
           \/ /\ kind = "readable"
              /\ ticks' = q
              /\ readablePending' = AfterReadable
              /\ told' = (told \/ ~destroyed)
              /\ UNCHANGED <<constructed, destroyed, pending, flow, endEmitted,
                             endAt>>
           \/ /\ kind \in {"error", "close"}
              /\ ticks' = q
              /\ UNCHANGED <<constructed, destroyed, pending, flow, endEmitted,
                             endAt, readablePending, told>>
    /\ UNCHANGED <<use, sourceVars, bufferVars, flowing, ended, reading,
                   listeners, readVars, got>>

SourceStep == Push \/ PushEnd \/ SourceFails
UserStep == \/ OnData \/ OnReadable \/ Pause \/ Resume \/ Read \/ Unshift
            \/ DestroyCall \/ DestroyCallback \/ ConstructCallback
CallStep == FlowHead \/ FlowData \/ FlowRead \/ ReadReturn \/ ReadRest

Next == SourceStep \/ UserStep \/ CallStep \/ RunTick

Spec == Init /\ [][Next]_vars

(* Calls return, and user code returns to the event loop again and again,  *)
(* where ticks run, _construct calls back, and a source that may push does *)
(* so, until it ends.                                                      *)
Fairness == /\ WF_vars(CallStep) /\ SF_vars(RunTick)
            /\ SF_vars(ConstructCallback) /\ SF_vars(Push \/ PushEnd)
FairSpec == Spec /\ Fairness
-----------------------------------------------------------------------------
TypeOK ==
    /\ use \in Uses /\ chunks \in 0..MaxChunks /\ produced \in Nat /\ asked \in Nat
    /\ failing \in BOOLEAN /\ stalled \in BOOLEAN
    /\ buffer \in Seq(Seq(Nat)) /\ length \in Nat
    /\ flowing \in {"null", "true", "false"}
    /\ ended \in BOOLEAN /\ endEmitted \in BOOLEAN /\ reading \in BOOLEAN
    /\ constructed \in BOOLEAN /\ destroyed \in BOOLEAN
    /\ readablePending \in BOOLEAN /\ told \in BOOLEAN
    /\ listeners \subseteq {"data", "readable"}
    /\ flow \in {"idle", "head", "data", "read"}
    /\ rd \in {"idle", "read", "rest"} /\ rdSize \in -1..2
    /\ ticks \in Seq({"flow", "end", "close", "readable", "error", "construct"})
    /\ pending \subseteq {"construct", "destroy"}
    /\ got \in Seq(Nat) /\ endAt \in -1..produced

(* Whatever mixture of flowing, paused and explicit reads takes them out,  *)
(* split or joined, and whatever unshift() puts back, the bytes handed to  *)
(* the consumer and those still held are the bytes pushed, in order; and   *)
(* readableLength, which decides what push() answers and whether read(n)   *)
(* returns null, is the size of what is held after every split and join.   *)
Conservation == /\ got \o Bytes(buffer) = Numbers(0, produced)
                /\ length = Len(Bytes(buffer))

(* A consumer of events alone.                                             *)
Listening == /\ Consumer \subseteq {"data", "readable"}
             /\ ~use.unshifts

(* 'end' comes after the last chunk (index.spec.ts:97) for a consumer of   *)
(* 'data', although it is scheduled at three places and the stream may be  *)
(* paused, destroyed or not yet constructed when its tick runs.            *)
EndLast == Listening /\ endAt # -1 => endAt = produced

(* A consumer that keeps the stream flowing gets to the end of it: no flow *)
(* or _read is left undone when pushes, pauses and ticks interleave; and   *)
(* once the source has ended and all is consumed, 'end' is emitted.        *)
Finished == endEmitted \/ destroyed \/ buffer # <<>>
FlowReachesEnd ==
    /\ <>[](flowing = "true" /\ "data" \in listeners) => <>(endEmitted \/ destroyed)
    /\ (Listening /\ ended /\ buffer = <<>>) ~> Finished

(* A consumer that waits for 'readable' is told of what was pushed since.  *)
ReadableFollows ==
    ("readable" \in listeners /\ "data" \notin Consumer /\ ~told)
      ~> (told \/ destroyed \/ buffer = <<>>)

(* A source that reads a Gio stream, and whose stream is neither paused    *)
(* nor read with read(), is not asked again before it answered: Gio        *)
(* refuses the second read, and the error destroys the stream.  (Once it   *)
(* is paused, or read() finds nothing twice, it may be.)                   *)
OneReadAtATime == ~use.pauses /\ Consumer \cap {"read", "sized"} = {} => ~failing
=============================================================================
