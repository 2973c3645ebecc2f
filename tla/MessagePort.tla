----------------------------- MODULE MessagePort -----------------------------
(***************************************************************************)
(* The ports of node:worker_threads within a process:                      *)
(* packages/node/worker_threads/src/message-port.ts and index.ts, over the *)
(* W3C port of packages/web/message-channel that each of them holds.       *)
(*                                                                         *)
(* Ports are numbered as they are created: 1 and 2, 3 and 4 are those of   *)
(* two channels, the others come from transfers.  A transferred port gives *)
(* its end of the channel to a new one: end says which of the first four   *)
(* had it.  micro is the microtask queue; the user's calls between two of  *)
(* its jobs are made in their listeners.                                   *)
(***************************************************************************)
EXTENDS Naturals, SequencesExt

CONSTANTS MaxPosts,  \* bound: messages posted to an end
          MaxPorts,  \* bound: ports created
          Listening  \* bound: the ends whose ports listen; the others post

Ends == 1..4
Ports == 1..MaxPorts
NoPort == 0

ASSUME BoundAssumption == MaxPosts \in Nat /\ MaxPorts \in Nat /\ MaxPorts >= 4
ASSUME ListeningAssumption == Listening \subseteq Ends

VARIABLES
    np,         \* number of ports created
    other,      \* _otherPort
    closed, detached,
    started,    \* _inner._started
    queue,      \* _inner._queue
    micro,      \* microtasks that tell a port of a message
    known,      \* the ports the user has
    end,        \* history: the end of a channel that the port has or had
    sent,       \* history: number of messages posted to an end
    emitted,    \* history: the messages that EventEmitter listeners
    dispatched  \* and W3C listeners at an end were told of

portVars == <<np, other, closed, detached, started, end>>
histVars == <<sent, emitted, dispatched>>
vars == <<portVars, queue, micro, known, histVars>>

Init ==
    /\ np = 4 /\ known = Ends
    /\ other = [p \in Ports |-> CASE p \in {1, 3} -> p + 1
                                  [] p \in {2, 4} -> p - 1
                                  [] OTHER -> NoPort]
    /\ closed = [p \in Ports |-> FALSE] /\ detached = closed
    /\ started = closed
    /\ queue = [p \in Ports |-> <<>>] /\ micro = <<>>
    /\ end = [p \in Ports |-> p]
    /\ sent = [e \in Ends |-> 0]
    /\ emitted = [e \in Ends |-> <<>>] /\ dispatched = emitted

Message(e, port) == [n |-> sent[e] + 1, port |-> port]

(* The jobs that tell p of messages: inner.start() makes those for the W3C *)
(* listeners of all of them before the wrapper makes its own.              *)
Job(p, via, m) == [to |-> p, via |-> via, msg |-> m]
Jobs(p, via, ms) == [i \in DOMAIN ms |-> Job(p, via, ms[i])]

(* transport-less _receiveMessage(m) of a port that is not closed.         *)
ReceiveMutant(p, m) ==
    IF started[p]
    THEN /\ micro' = micro \o <<Job(p, "ee", m)>>
         /\ UNCHANGED queue
    ELSE /\ queue' = [queue EXCEPT ![p] = Append(@, m)]
         /\ UNCHANGED micro
Receive(p, m) ==
    IF started[p]
    THEN /\ micro' = micro \o <<Job(p, "w3c", m), Job(p, "ee", m)>>
         /\ UNCHANGED queue
    ELSE /\ queue' = [queue EXCEPT ![p] = Append(@, m)]
         /\ UNCHANGED micro

(* postMessage(value) to the partner.                                      *)
MayPost(p) == /\ p \in known /\ ~closed[p] /\ other[p] # NoPort
              /\ end[p] \notin Listening /\ sent[end[other[p]]] < MaxPosts

Post(p) ==
    LET e == end[other[p]] IN
    /\ MayPost(p)
    /\ Receive(other[p], Message(e, NoPort))
    /\ sent' = [sent EXCEPT ![e] = @ + 1]
    /\ UNCHANGED <<portVars, known, emitted, dispatched>>

(* postMessage(value, [q]): q is detached, and a new port takes its        *)
(* partner.  q may be the partner of p, which then is closed to the        *)
(* message.                                                                *)
RelinkMutant(q, new) == [other EXCEPT ![q] = NoPort, ![new] = other[q]]
Relink(q, new) ==
    [p \in Ports |-> IF p = q THEN NoPort
                     ELSE IF p = new THEN other[q]
                     ELSE IF other[p] = q THEN new
                     ELSE other[p]]

PostTransfer(p, q) ==
    LET new == np + 1
        target == other[p]
        e == end[target]
    IN  /\ MayPost(p) /\ np < MaxPorts
        /\ q \in known /\ q # p /\ ~closed[q]
        /\ np' = new
        /\ other' = Relink(q, new)
        /\ closed' = [closed EXCEPT ![q] = TRUE]
        /\ detached' = [detached EXCEPT ![q] = TRUE]
        /\ end' = [end EXCEPT ![new] = end[q]]
        /\ IF closed'[target]
           THEN UNCHANGED <<queue, micro>>
           ELSE Receive(target, Message(e, new))
        /\ sent' = [sent EXCEPT ![e] = @ + 1]
        /\ UNCHANGED <<started, known, emitted, dispatched>>

(* start(), also by on('message') and once('message').                     *)
SnapshotMutant(p) == <<>>
Snapshot(p) == queue[p]

StartInner(p) ==
    /\ started' = [started EXCEPT ![p] = TRUE]
    /\ queue' = [queue EXCEPT ![p] = <<>>]
    /\ micro' = micro \o Jobs(p, "w3c", queue[p]) \o Jobs(p, "ee", Snapshot(p))
    /\ UNCHANGED <<np, other, closed, detached, end, known, histVars>>

Listens(p) == p \in known /\ end[p] \in Listening /\ ~started[p]

Start(p) == /\ Listens(p) /\ ~closed[p]
            /\ StartInner(p)

(* onmessage = fn, the same but for a port that was transferred, where it  *)
(* does not look at _closed.                                               *)
OnMessage(p) == /\ Listens(p) /\ detached[p]
                /\ StartInner(p)

(* close(): both sides are unlinked, and the queue is emptied.             *)
Unlink(p) == [q \in Ports |-> IF p \in {q, other[q]} THEN NoPort ELSE other[q]]

Close(p) ==
    /\ p \in known /\ ~closed[p]
    /\ closed' = [closed EXCEPT ![p] = TRUE]
    /\ other' = Unlink(p)
    /\ queue' = [queue EXCEPT ![p] = <<>>]
    /\ UNCHANGED <<np, detached, started, end, micro, known, histVars>>

(* The user is told of a message, and has the port that came with it.      *)
Gains(m) == known' = known \cup ({m.port} \ {NoPort})

(* receiveMessageOnPort(p)                                                 *)
ReceiveOnPort(p) ==
    LET m == Head(queue[p])
        e == end[p]
    IN  /\ p \in known /\ queue[p] # <<>>
        /\ queue' = [queue EXCEPT ![p] = Tail(@)]
        /\ Gains(m)
        /\ IF closed[p]
           THEN UNCHANGED <<emitted, dispatched>>
           ELSE /\ emitted' = [emitted EXCEPT ![e] = Append(@, m.n)]
                /\ dispatched' = [dispatched EXCEPT ![e] = Append(@, m.n)]
        /\ UNCHANGED <<portVars, micro, sent>>

(* A job: nothing is told of a port that is closed; the W3C port of one    *)
(* that was transferred is not.                                            *)
ToldMutant(job) == TRUE
Told(job) == IF job.via = "ee" THEN ~closed[job.to]
             ELSE ~closed[job.to] \/ detached[job.to]

RunMicrotask ==
    LET job == Head(micro)
        e == end[job.to]
    IN  /\ micro # <<>>
        /\ micro' = Tail(micro)
        /\ IF Told(job)
           THEN /\ Gains(job.msg)
                /\ emitted' = IF job.via = "ee"
                              THEN [emitted EXCEPT ![e] = Append(@, job.msg.n)]
                              ELSE emitted
                /\ dispatched' = IF job.via = "ee" THEN dispatched
                                 ELSE [dispatched EXCEPT ![e] = Append(@, job.msg.n)]
           ELSE UNCHANGED <<known, emitted, dispatched>>
        /\ UNCHANGED <<portVars, queue, sent>>

UserStep(p) == \/ Post(p) \/ Start(p) \/ OnMessage(p) \/ Close(p)
               \/ ReceiveOnPort(p) \/ \E q \in Ports : PostTransfer(p, q)

Next == RunMicrotask \/ \E p \in Ports : UserStep(p)

Spec == Init /\ [][Next]_vars

(* The main loop runs the microtasks.                                      *)
FairSpec == Spec /\ WF_vars(RunMicrotask)
-----------------------------------------------------------------------------
(* The port that has an end, the last of those that had it.                *)
Owner(e) == CHOOSE p \in 1..np : end[p] = e /\ ~detached[p]

(* The messages that wait for the owner of e, in the jobs and the queue.   *)
Numbers(ms) == [i \in DOMAIN ms |-> ms[i].n]
InJobs(jobs, p, via) ==
    FlattenSeq([i \in DOMAIN jobs |-> IF jobs[i].to = p /\ jobs[i].via = via
                                      THEN <<jobs[i].msg.n>> ELSE <<>>])
Waiting(e, via) ==
    LET p == Owner(e) IN
    IF closed[p] THEN <<>> ELSE InJobs(micro, p, via) \o Numbers(queue[p])

(* EventEmitter listeners and W3C listeners of a port that was neither     *)
(* closed nor transferred are told of the same messages, all of them and   *)
(* in order, whichever way the port was started and whenever.              *)
SurfacesAgree ==
    \A e \in Ends : ~closed[e] =>
        /\ emitted[e] \o Waiting(e, "ee") = [i \in 1..sent[e] |-> i]
        /\ dispatched[e] \o Waiting(e, "w3c") = [i \in 1..sent[e] |-> i]

(* The EventEmitter side keeps the promise of a channel across closing and *)
(* transfers: a message is told to the port that has the end, or lost with *)
(* its owner's close() or transfer.                                        *)
Chan == INSTANCE Channels WITH
    transit <- [e \in Ends |-> Waiting(e, "ee")],
    got <- emitted,
    owner <- [e \in Ends |-> IF closed[Owner(e)] THEN 0 ELSE Owner(e)]

ImplementsChannels == Chan!AbsSpec

(* All that was posted to a port that was started reaches it, unless the   *)
(* port is closed or transferred first.                                    *)
Arrives ==
    \A e \in Ends :
        started[e] ~> (Len(emitted[e]) = sent[e] \/ closed[e])
=============================================================================
