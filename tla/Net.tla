---------------------------------- MODULE Net ----------------------------------
(***************************************************************************)
(* A TCP connection between two Sockets, one of them accepted by a Server: *)
(* packages/node/net/src/socket.ts and server.ts, over GIO, with the parts *)
(* of Duplex and Readable that they drive.                                 *)
(*                                                                         *)
(* Data are numbered units.  wire[e] is what the network holds for e, and  *)
(* a write or a read may move a part of what is asked for.  ticks[e] is    *)
(* the nextTick queue of the process of e.                                 *)
(***************************************************************************)
EXTENDS Naturals, SequencesExt

CONSTANTS HalfOpen,   \* the ends with allowHalfOpen
          WriteSizes, \* the sizes of a write
          EarlyUse,   \* whether the client writes and ends before 'connect'
          HWM,        \* readableHighWaterMark
          Room,       \* the units that the network holds for an end
          MaxUnits,   \* bound: units that the client and the server write
          MaxPauses,  \* bound: pauses of an end
          Faults      \* the faults that may happen: "reset", "destroy"

Ends == {"client", "server"}
Peer(e) == IF e = "client" THEN "server" ELSE "client"

ASSUME EndsAssumption == HalfOpen \subseteq Ends /\ EarlyUse \in BOOLEAN
ASSUME SizeAssumption == WriteSizes \subseteq Nat \ {0}
ASSUME BoundAssumption == HWM \in Nat \ {0} /\ Room \in Nat \ {0} /\ MaxPauses \in Nat
                          /\ MaxUnits \in [Ends -> Nat]
ASSUME FaultAssumption == Faults \subseteq {"reset", "destroy"}

VARIABLES
    wire, fin,      \* per end: units on their way to it; whether it was shut down
    broken,         \* the connection was reset
    up,             \* the socket has its connection and streams
    \* The server
    listening,
    tracked,        \* its socket is in _connections
    \* The readable half
    reading,        \* _reading
    reads,          \* number of pending reads of the input stream
    buffer,         \* _buffer
    taken,          \* what a read() that still runs has taken out of it
    flowing,        \* readableFlowing
    ended, endEmitted, \* of _readableState
    endHook,        \* the listener of 'end' that the read loop added
    \* The writable half
    writing,        \* _duplexWriting
    inflight,       \* the units of the pending write, if any
    queue,          \* _duplexWriteQueue
    writableEnded, finished,
    endWaits,       \* _pendingEndCb
    \* Both
    destroyed, ticks,
    \* History
    got,            \* number of the last unit that the consumer got
    sent,           \* number of units that the user wrote
    refused,        \* whether a write was called back with an error
    pauses

netVars == <<wire, fin, broken>>
serverVars == <<listening, tracked>>
readVars == <<reading, reads, buffer, taken, flowing, ended, endEmitted, endHook, got,
              pauses>>
writeVars == <<writing, inflight, queue, writableEnded, finished, endWaits, sent, refused>>
vars == <<netVars, up, serverVars, readVars, writeVars, destroyed, ticks>>

Init ==
    LET all(v) == [e \in Ends |-> v] IN
    /\ wire = all(<<>>) /\ fin = all(FALSE) /\ broken = FALSE
    /\ up = all(FALSE)
    /\ listening = TRUE /\ tracked = FALSE
    /\ reading = all(FALSE) /\ reads = all(0)
    /\ buffer = all(<<>>) /\ taken = all(<<>>) /\ flowing = all(FALSE)
    /\ ended = all(FALSE) /\ endEmitted = all(FALSE) /\ endHook = all(FALSE)
    /\ writing = all(FALSE) /\ inflight = all(<<>>) /\ queue = all(<<>>)
    /\ writableEnded = all(FALSE) /\ finished = all(FALSE) /\ endWaits = all(FALSE)
    /\ destroyed = all(FALSE) /\ ticks = all(<<>>)
    /\ got = all(0) /\ sent = all(0) /\ refused = all(FALSE) /\ pauses = all(0)

(* The tick queue of e after the running tick, if any, is taken from it    *)
(* and later ones are added.                                               *)
Later(e, rest, more) == ticks' = [ticks EXCEPT ![e] = rest \o more]
-----------------------------------------------------------------------------
(* Connecting.                                                             *)

(* _startReading, also by _read.                                           *)
MayStartMutant(e) == TRUE
MayStart(e) == ~reading[e]
StartReading(e) ==
    IF MayStart(e)
    THEN /\ reading' = [reading EXCEPT ![e] = TRUE]
         /\ reads' = [reads EXCEPT ![e] = @ + 1]
    ELSE UNCHANGED <<reading, reads>>

(* _setupConnection, for the client when connect_to_host_async is done.    *)
SetUp(e) ==
    /\ ~up[e]
    /\ up' = [up EXCEPT ![e] = TRUE]
    /\ StartReading(e)
    /\ UNCHANGED <<netVars, buffer, taken, flowing, ended, endEmitted, endHook, got,
                   pauses, writeVars, destroyed, ticks>>

Connected == SetUp("client") /\ UNCHANGED serverVars

(* _handleConnection                                                       *)
Accept ==
    /\ listening
    /\ SetUp("server")
    /\ tracked' = TRUE /\ UNCHANGED listening
-----------------------------------------------------------------------------
(* The writable half.                                                      *)

(* _write: the first of the pending writes is given to GIO, or refused     *)
(* when there is no connection yet.                                        *)
StartWrite(e, units) ==
    inflight' = [inflight EXCEPT ![e] = IF up[e] THEN units ELSE <<>>]

Refusal(e) == IF up[e] THEN <<>> ELSE <<"writeFailed">>

(* write(chunk), of a socket that has no end() yet.                        *)
MayUse(e) == up[e] \/ (e = "client" /\ EarlyUse)

Write(e, size) ==
    LET units == [i \in 1..size |-> sent[e] + i] IN
    /\ MayUse(e) /\ ~writableEnded[e]
    /\ sent[e] + size <= MaxUnits[e]
    /\ sent' = [sent EXCEPT ![e] = @ + size]
    /\ IF writing[e]
       THEN /\ queue' = [queue EXCEPT ![e] = Append(@, units)]
            /\ UNCHANGED <<writing, inflight, ticks>>
       ELSE /\ writing' = [writing EXCEPT ![e] = TRUE]
            /\ StartWrite(e, units)
            /\ Later(e, ticks[e], Refusal(e))
            /\ UNCHANGED queue
    /\ UNCHANGED <<netVars, up, serverVars, readVars, writableEnded, finished, endWaits,
                   refused, destroyed>>

(* write_bytes_async has written what there was room for, at least a unit; *)
(* the callback counts the write as done.                                  *)
Written(e) ==
    LET units == inflight[e]
        room == Room - Len(wire[Peer(e)])
        n == IF Len(units) <= room THEN Len(units) ELSE room
    IN  /\ units # <<>> /\ ~broken /\ room > 0
        /\ wire' = [wire EXCEPT ![Peer(e)] = @ \o SubSeq(units, 1, n)]
        /\ inflight' = [inflight EXCEPT ![e] = <<>>]
        /\ Later(e, ticks[e], <<"written">>)
        /\ UNCHANGED <<fin, broken, up, serverVars, readVars, writing, queue, writableEnded,
                       finished, endWaits, sent, refused, destroyed>>

WriteFails(e) ==
    /\ inflight[e] # <<>> /\ broken
    /\ inflight' = [inflight EXCEPT ![e] = <<>>]
    /\ Later(e, ticks[e], <<"writeFailed">>)
    /\ UNCHANGED <<netVars, up, serverVars, readVars, writing, queue, writableEnded,
                   finished, endWaits, sent, refused, destroyed>>

(* doFinal of Duplex: _final shuts the write side down, if there is a      *)
(* connection.                                                             *)
DoFinal(e) ==
    /\ fin' = [fin EXCEPT ![Peer(e)] = @ \/ up[e]]
    /\ finished' = [finished EXCEPT ![e] = TRUE]

(* end(): waits for the writes that are pending, queued or not called back.*)
EndWaitsMutant(e) == inflight[e] # <<>>
EndWaits(e) == writing[e] \/ inflight[e] # <<>> \/ queue[e] # <<>>

EndNow(e, rest, more) ==
    /\ writableEnded' = [writableEnded EXCEPT ![e] = TRUE]
    /\ IF EndWaits(e)
       THEN /\ endWaits' = [endWaits EXCEPT ![e] = TRUE]
            /\ Later(e, rest, more)
            /\ UNCHANGED <<fin, finished>>
       ELSE /\ DoFinal(e)
            /\ Later(e, rest, <<"finish">> \o more)
            /\ UNCHANGED endWaits

End(e) ==
    /\ MayUse(e) /\ ~writableEnded[e]
    /\ EndNow(e, ticks[e], <<>>)
    /\ UNCHANGED <<wire, broken, up, serverVars, readVars, writing, inflight, queue, sent,
                   refused, destroyed>>
-----------------------------------------------------------------------------
(* The readable half.                                                      *)

(* A read of _readLoop ends with some units: push() schedules a flow, and  *)
(* the loop goes on unless the buffer has reached its mark.                *)
Refills(e, units) == Len(buffer[e] \o units) < HWM
ReadData(e, n) ==
    LET units == SubSeq(wire[e], 1, n) IN
    /\ reads[e] > 0 /\ ~broken
    /\ n \in 1..Len(wire[e])
    /\ wire' = [wire EXCEPT ![e] = SubSeq(@, n + 1, Len(@))]
    /\ buffer' = [buffer EXCEPT ![e] = @ \o units]
    /\ Later(e, ticks[e], IF flowing[e] THEN <<"flow">> ELSE <<>>)
    /\ IF Refills(e, units) THEN UNCHANGED <<reading, reads>>
       ELSE /\ reading' = [reading EXCEPT ![e] = FALSE]
            /\ reads' = [reads EXCEPT ![e] = @ - 1]
    /\ UNCHANGED <<fin, broken, up, serverVars, taken, flowing, ended, endEmitted,
                   endHook, got, pauses, writeVars, destroyed>>

(* It ends with none: push(null).                                          *)
AtEof(e) == fin[e] /\ wire[e] = <<>>
ReadEof(e) ==
    /\ reads[e] > 0 /\ ~broken /\ AtEof(e)
    /\ reads' = [reads EXCEPT ![e] = @ - 1]
    /\ reading' = [reading EXCEPT ![e] = FALSE]
    /\ endHook' = [endHook EXCEPT ![e] = e \notin HalfOpen]
    /\ ended' = [ended EXCEPT ![e] = TRUE]
    /\ Later(e, ticks[e], IF buffer[e] = <<>> THEN <<"end">> ELSE <<>>)
    /\ UNCHANGED <<netVars, up, serverVars, buffer, taken, flowing, endEmitted, got,
                   pauses, writeVars, destroyed>>

(* destroy(), which leaves the connection alone: the _destroy of Socket is *)
(* of its prototype, and is not called.                                    *)
DestroyNow(e, err) ==
    /\ destroyed' = [destroyed EXCEPT ![e] = TRUE]
    /\ Later(e, ticks[e], IF destroyed[e] THEN <<>> ELSE err \o <<"close">>)

ReadFails(e) ==
    /\ reads[e] > 0 /\ broken
    /\ reads' = [reads EXCEPT ![e] = @ - 1]
    /\ DestroyNow(e, <<"error">>)
    /\ UNCHANGED <<netVars, up, serverVars, reading, buffer, taken, flowing, ended,
                   endEmitted, endHook, got, pauses, writeVars>>

(* _flow: hands over what is buffered, n units when a listener pauses the  *)
(* socket; at its end schedules 'end', else reads on: _read does so when   *)
(* there is a connection.                                                  *)
ReadsOnMutant(e) == /\ ~ended[e]
                    /\ buffer[e] # <<>>
ReadsOn(e) == ~ended[e]

LeftMutant(e, n) == <<>>
Left(e, n) == SubSeq(buffer[e], n + 1, Len(buffer[e]))

Flow(e, rest, n) ==
    LET left == Left(e, n) IN
    /\ got' = IF n = 0 THEN got ELSE [got EXCEPT ![e] = buffer[e][n]]
    /\ buffer' = [buffer EXCEPT ![e] = left]
    /\ IF ReadsOn(e) /\ up[e] THEN StartReading(e) ELSE UNCHANGED <<reading, reads>>
    /\ Later(e, rest, IF ended[e] /\ left = <<>> /\ ~endEmitted[e] THEN <<"end">> ELSE <<>>)

(* pause() in a 'data' listener, after the n-th unit.                      *)
FlowAndPause(e, rest, n) ==
    /\ pauses[e] < MaxPauses
    /\ pauses' = [pauses EXCEPT ![e] = @ + 1]
    /\ flowing' = [flowing EXCEPT ![e] = FALSE]
    /\ n \in 1..Len(buffer[e])
    /\ Flow(e, rest, n)

Flows(e, rest) ==
    IF destroyed[e]
    THEN /\ flowing' = [flowing EXCEPT ![e] = TRUE]
         /\ Later(e, rest, <<>>)
         /\ UNCHANGED <<got, buffer, reading, reads, pauses>>
    ELSE \/ /\ Flow(e, rest, Len(buffer[e]))
            /\ flowing' = [flowing EXCEPT ![e] = TRUE] /\ UNCHANGED pauses
         \/ \E n \in 1..Len(buffer[e]) : FlowAndPause(e, rest, n)

(* on('data') or resume(), which flows at once.                            *)
Resume(e) ==
    /\ MayUse(e) /\ ~flowing[e]
    /\ Flows(e, ticks[e])
    /\ UNCHANGED <<netVars, up, serverVars, taken, ended, endEmitted, endHook, writeVars,
                   destroyed>>

(* _emitEnd.  Two listeners of 'end' may close the other half: the one of  *)
(* Duplex, which the sockets of a server have, in a tick; that of the read *)
(* loop at once.                                                           *)
DuplexHook(e) == e = "server" /\ e \notin HalfOpen /\ ~writableEnded[e]

EmitEnd(e, rest) ==
    LET hooked == IF DuplexHook(e) THEN Append(rest, "endAgain") ELSE rest IN
    /\ endEmitted' = [endEmitted EXCEPT ![e] = TRUE]
    /\ endHook' = [endHook EXCEPT ![e] = FALSE]
    /\ IF endHook[e]
       THEN EndNow(e, hooked, <<"close">>)
       ELSE /\ Later(e, hooked, <<"close">>)
            /\ UNCHANGED <<fin, writableEnded, finished, endWaits>>
    /\ UNCHANGED <<wire, broken, writing, inflight, queue, sent, refused>>

(* read(), by a user who does not let the socket flow, takes all out of    *)
(* the buffer.  At the end of the data it emits 'end' before it returns    *)
(* what it took; the listeners may call what a user may, and nothing else  *)
(* of the process runs.                                                    *)
Returned(e) == taken[e] = <<>>

TakeAll(e) ==
    /\ up[e] /\ ~flowing[e]
    /\ IF buffer[e] = <<>>
       THEN /\ ~ended[e] /\ ~reading[e] /\ StartReading(e)
            /\ UNCHANGED <<buffer, taken, got, endEmitted, endHook, netVars, writeVars,
                           ticks>>
       ELSE /\ buffer' = [buffer EXCEPT ![e] = <<>>]
            /\ IF ended[e] /\ ~endEmitted[e]
               THEN /\ taken' = [taken EXCEPT ![e] = buffer[e]]
                    /\ EmitEnd(e, ticks[e])
                    /\ UNCHANGED got
               ELSE /\ got' = [got EXCEPT ![e] = Last(buffer[e])]
                    /\ UNCHANGED <<taken, endEmitted, endHook, netVars, writeVars, ticks>>
            /\ UNCHANGED <<reading, reads>>
    /\ UNCHANGED <<up, serverVars, flowing, ended, pauses, destroyed>>

TakeReturn(e) ==
    /\ ~Returned(e)
    /\ got' = [got EXCEPT ![e] = Last(taken[e])]
    /\ taken' = [taken EXCEPT ![e] = <<>>]
    /\ UNCHANGED <<netVars, up, serverVars, reading, reads, buffer, flowing, ended,
                   endEmitted, endHook, pauses, writeVars, destroyed, ticks>>
-----------------------------------------------------------------------------
(* The ticks.                                                              *)
Runs(e, tick) == Returned(e) /\ ticks[e] # <<>> /\ Head(ticks[e]) = tick
Rest(e) == Tail(ticks[e])

TickFlow(e) ==
    /\ Runs(e, "flow")
    /\ IF flowing[e] THEN Flows(e, Rest(e))
       ELSE /\ Later(e, Rest(e), <<>>)
            /\ UNCHANGED <<got, buffer, reading, reads, pauses, flowing>>
    /\ UNCHANGED <<netVars, up, serverVars, taken, ended, endEmitted, endHook, writeVars,
                   destroyed>>

TickEnd(e) ==
    /\ Runs(e, "end")
    /\ IF endEmitted[e]
       THEN /\ Later(e, Rest(e), <<>>)
            /\ UNCHANGED <<endEmitted, endHook, netVars, writeVars>>
       ELSE EmitEnd(e, Rest(e))
    /\ UNCHANGED <<up, serverVars, reading, reads, buffer, taken, flowing, ended, got,
                   pauses, destroyed>>

TickEndAgain(e) ==
    /\ Runs(e, "endAgain")
    /\ EndNow(e, Rest(e), <<>>)
    /\ UNCHANGED <<wire, broken, up, serverVars, readVars, writing, inflight, queue, sent,
                   refused, destroyed>>

(* A write is called back: the next one starts, or else an end() that      *)
(* waits goes on.  After one that failed it does not.                      *)
TickWritten(e) ==
    LET failed == Head(ticks[e]) = "writeFailed" IN
    /\ Runs(e, "written") \/ Runs(e, "writeFailed")
    /\ refused' = [refused EXCEPT ![e] = @ \/ failed]
    /\ IF queue[e] # <<>>
       THEN /\ queue' = [queue EXCEPT ![e] = Tail(@)]
            /\ StartWrite(e, Head(queue[e]))
            /\ Later(e, Rest(e), Refusal(e))
            /\ UNCHANGED <<writing, endWaits, fin, finished>>
       ELSE /\ writing' = [writing EXCEPT ![e] = FALSE]
            /\ IF endWaits[e] /\ ~failed
               THEN /\ DoFinal(e)
                    /\ endWaits' = [endWaits EXCEPT ![e] = FALSE]
                    /\ Later(e, Rest(e), <<"finish">>)
               ELSE /\ Later(e, Rest(e), <<>>)
                    /\ UNCHANGED <<endWaits, fin, finished>>
            /\ UNCHANGED <<queue, inflight>>
    /\ UNCHANGED <<wire, broken, up, serverVars, readVars, writableEnded, sent, destroyed>>

(* 'finish' schedules a 'close'; 'close' of the server's socket takes it   *)
(* out of _connections.                                                    *)
TickEvent(e) ==
    LET tick == Head(ticks[e]) IN
    /\ Runs(e, "finish") \/ Runs(e, "close") \/ Runs(e, "error")
    /\ Later(e, Rest(e), IF tick = "finish" THEN <<"close">> ELSE <<>>)
    /\ tracked' = (tracked /\ ~(e = "server" /\ tick = "close"))
    /\ UNCHANGED <<netVars, up, listening, readVars, writeVars, destroyed>>

Tick(e) == TickFlow(e) \/ TickEnd(e) \/ TickEndAgain(e) \/ TickWritten(e) \/ TickEvent(e)
-----------------------------------------------------------------------------
(* destroy() by the user, and close() of the server, which destroys the    *)
(* sockets of _connections.  Bound: one fault.                             *)
NoFault == ~broken /\ listening /\ \A e \in Ends : ~destroyed[e]

Destroy(e) ==
    /\ "destroy" \in Faults /\ MayUse(e) /\ NoFault
    /\ DestroyNow(e, <<>>)
    /\ UNCHANGED <<netVars, up, serverVars, readVars, writeVars>>

Close ==
    /\ "destroy" \in Faults /\ NoFault
    /\ listening' = FALSE /\ tracked' = FALSE
    /\ IF tracked THEN DestroyNow("server", <<>>) ELSE UNCHANGED <<destroyed, ticks>>
    /\ UNCHANGED <<netVars, up, readVars, writeVars>>

(* The network loses the connection, and what it held.                     *)
Reset ==
    /\ "reset" \in Faults /\ NoFault /\ \A e \in Ends : up[e]
    /\ broken' = TRUE
    /\ wire' = [e \in Ends |-> <<>>]
    /\ UNCHANGED <<fin, up, serverVars, readVars, writeVars, destroyed, ticks>>

Gio(e) == /\ Returned(e)
          /\ \/ Written(e) \/ WriteFails(e)
             \/ \E n \in 1..Room : ReadData(e, n)
             \/ ReadEof(e) \/ ReadFails(e)

User(e) == \/ \E size \in WriteSizes : Write(e, size)
           \/ End(e) \/ Resume(e) \/ TakeAll(e) \/ Destroy(e)

Next == \/ Connected \/ Accept \/ Close \/ Reset
        \/ \E e \in Ends : User(e) \/ TakeReturn(e) \/ Gio(e) \/ Tick(e)

Spec == Init /\ [][Next]_vars

(* The main loops run the callbacks of GIO and the ticks; the network      *)
(* connects and carries.                                                   *)
FairSpec == /\ Spec
            /\ WF_vars(Connected) /\ WF_vars(Accept)
            /\ \A e \in Ends : WF_vars(TakeReturn(e)) /\ WF_vars(Gio(e)) /\ WF_vars(Tick(e))
-----------------------------------------------------------------------------
(* GIO refuses a read of a stream that has one pending: there is one at    *)
(* most, however data, flows, pauses, reads and the end interleave.        *)
OneRead == \A e \in Ends : reads[e] <= 1

(* While no write was refused and the connection holds, the units that the *)
(* user wrote are, in order, those that the peer's consumer got, those     *)
(* that its read() is about to return, those in its buffer, on the wire,   *)
(* in the pending write and in the queue.                                  *)
Transfer ==
    \A e \in Ends :
        LET p == Peer(e)
            rest == taken[p] \o buffer[p] \o wire[p] \o inflight[e] \o FlattenSeq(queue[e])
        IN  ~broken /\ ~refused[e] /\ ~Contains(ticks[e], "writeFailed") =>
               rest = [i \in 1..(sent[e] - got[p]) |-> got[p] + i]

(* A half is shut only when all that was written to it is out, and 'end'   *)
(* comes after the last unit that the peer wrote, or with the one read()   *)
(* that is about to return it: read() emits 'end' first (readable.ts:170). *)
EndIsLast ==
    \A e \in Ends :
        LET p == Peer(e) IN
        /\ fin[e] => inflight[p] = <<>> /\ queue[p] = <<>>
        /\ endEmitted[e] /\ ~refused[p] /\ Returned(e) => got[e] = sent[p]

(* When neither process has a tick to run, a read() to return from or an   *)
(* operation that GIO can finish, a connected socket that flows has        *)
(* consumed all that its peer had out before it ended, and got 'end' if    *)
(* the peer did; and a socket that got 'end' has closed its half unless    *)
(* half-open, or its last write waits for room.                            *)
Idle == \A e \in Ends : /\ ticks[e] = <<>> /\ Returned(e)
                        /\ inflight[e] # <<>> => Len(wire[Peer(e)]) = Room
                        /\ reads[e] > 0 => wire[e] = <<>> /\ ~fin[e]

EndReaches ==
    Idle /\ ~broken =>
        \A e \in Ends :
            LET p == Peer(e) IN
            /\ up[e] /\ flowing[e] /\ ~destroyed[e] =>
                  /\ wire[e] = <<>> /\ buffer[e] = <<>> /\ inflight[p] = <<>>
                  /\ (endWaits[p] => refused[p]) /\ (fin[e] => endEmitted[e])
            /\ endEmitted[e] /\ e \notin HalfOpen => fin[p] \/ endWaits[e]

(* "Close all existing connections" (server.ts:169): when the server was   *)
(* closed, a connection that it had accepted is shut or reset.             *)
CloseReaches ==
    (~listening /\ up["server"]) ~> (fin["client"] \/ broken)
=============================================================================
