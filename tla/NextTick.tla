------------------------------ MODULE NextTick ------------------------------
(***************************************************************************)
(* nextTick of packages/gjs/utils/src/next-tick.ts: one queue of           *)
(* callbacks, drained by a GLib timeout in chunks of ChunkSize, between    *)
(* which the main loop dispatches its other sources.  Callback k is the    *)
(* k-th given to nextTick.                                                 *)
(*                                                                         *)
(* The main loop polls (Poll: which sources are ready?), then dispatches   *)
(* the ready ones in some order, all of this module's priority: drainers   *)
(* (DrainBegin, RunNext, Return, Throw, DrainEnd) and the input event that *)
(* stands for all others (DispatchEvent).                                  *)
(***************************************************************************)
EXTENDS Integers, Sequences, FiniteSetsExt

CONSTANTS
    ChunkSize,  \* CHUNK_SIZE
    MaxTicks    \* bound: calls of nextTick in a behaviour

ASSUME ConstantsAssumption == ChunkSize \in Nat \ {0} /\ MaxTicks \in Nat

VARIABLES
    added,     \* number of calls of nextTick so far
    queue,     \* _queue
    armed,     \* _drainerArmed
    delayed,   \* drainer timeouts whose delay of 1 ms has not passed
    ready,     \* drainer timeouts the next poll will find ready
    due,       \* drainers this iteration has still to dispatch
    draining,  \* drainOnce is running
    left,      \* iterations its loop has left
    running,   \* the callback that is running, 0 for none
    event,     \* an input event: "none", "waiting", "due" in this iteration
    waited,    \* history: callbacks run since the event arrived
    ran        \* history: the callbacks that have run, in order

loopVars == <<delayed, ready, due, event, waited>>
drainVars == <<draining, left, running>>
vars == <<added, queue, armed, loopVars, drainVars, ran>>

Init ==
    /\ added = 0 /\ queue = <<>> /\ armed = FALSE
    /\ delayed = 0 /\ ready = 0 /\ due = 0
    /\ draining = FALSE /\ left = 0 /\ running = 0
    /\ event = "none" /\ waited = 0 /\ ran = <<>>

(* User code runs: a callback of nextTick, or one of another source.       *)
UserCode == draining => running # 0

(* _queue.push(cb)                                                         *)
PushMutant(q, cb) == <<cb>> \o q
Push(q, cb) == Append(q, cb)

(* if (!_drainerArmed)                                                     *)
MustArmMutant == TRUE
MustArm == ~armed

NextTickCall ==
    /\ UserCode /\ added < MaxTicks
    /\ added' = added + 1
    /\ queue' = Push(queue, added + 1)
    /\ IF MustArm
       THEN armed' = TRUE /\ ready' = ready + 1
       ELSE UNCHANGED <<armed, ready>>
    /\ UNCHANGED <<delayed, due, event, waited, drainVars, ran>>

-----------------------------------------------------------------------------
(* drainOnce                                                               *)
ChunkMutant == Len(queue)
Chunk == IF Len(queue) < ChunkSize THEN Len(queue) ELSE ChunkSize

DrainBegin ==
    /\ ~draining /\ due > 0
    /\ due' = due - 1
    /\ draining' = TRUE
    /\ left' = Chunk
    /\ UNCHANGED <<added, queue, armed, delayed, ready, event, waited, running,
                   ran>>

RunNext ==
    /\ draining /\ running = 0 /\ left > 0
    /\ running' = Head(queue) /\ queue' = Tail(queue)
    /\ left' = left - 1
    /\ ran' = Append(ran, Head(queue))
    /\ waited' = IF event = "none" THEN 0 ELSE waited + 1
    /\ UNCHANGED <<added, armed, delayed, ready, due, draining, event>>

Return ==
    /\ running # 0
    /\ running' = 0
    /\ UNCHANGED <<added, queue, armed, loopVars, draining, left, ran>>

(* The callback throws; caught, the loop goes on.                          *)
CaughtMutant == FALSE
Caught == TRUE

Throw ==
    /\ running # 0
    /\ running' = 0
    /\ IF Caught THEN UNCHANGED <<draining, left>>
                 ELSE draining' = FALSE /\ left' = 0
    /\ UNCHANGED <<added, queue, armed, loopVars, ran>>

More == queue # <<>>

DrainEnd ==
    /\ draining /\ running = 0 /\ left = 0
    /\ draining' = FALSE
    /\ IF More
       THEN delayed' = delayed + 1 /\ UNCHANGED armed
       ELSE armed' = FALSE /\ UNCHANGED delayed
    /\ UNCHANGED <<added, queue, ready, due, event, waited, left, running, ran>>

-----------------------------------------------------------------------------
(* GLib: time passes; an event arrives at any time, also while a callback  *)
(* runs; an iteration dispatches what its poll found ready.                *)
Elapse ==
    /\ delayed > 0
    /\ delayed' = delayed - 1 /\ ready' = ready + 1
    /\ UNCHANGED <<added, queue, armed, due, event, waited, drainVars, ran>>

EventArrives ==
    /\ event = "none"
    /\ event' = "waiting" /\ waited' = 0
    /\ UNCHANGED <<added, queue, armed, delayed, ready, due, drainVars, ran>>

Poll ==
    /\ ~draining /\ due = 0 /\ event # "due"
    /\ ready > 0 \/ event = "waiting"
    /\ due' = ready /\ ready' = 0
    /\ event' = IF event = "waiting" THEN "due" ELSE event
    /\ UNCHANGED <<added, queue, armed, delayed, waited, drainVars, ran>>

DispatchEvent ==
    /\ ~draining /\ event = "due"
    /\ event' = "none" /\ waited' = 0
    /\ UNCHANGED <<added, queue, armed, delayed, ready, due, drainVars, ran>>

DrainStep == DrainBegin \/ RunNext \/ Return \/ Throw \/ DrainEnd

Next == \/ NextTickCall \/ DrainStep
        \/ Elapse \/ EventArrives \/ Poll \/ DispatchEvent

Spec == Init /\ [][Next]_vars

(* Callbacks return, time passes, and the main loop iterates.              *)
Fairness == /\ WF_vars(DrainStep) /\ WF_vars(Elapse) /\ WF_vars(Poll)
            /\ WF_vars(DispatchEvent)
FairSpec == Spec /\ Fairness
-----------------------------------------------------------------------------
Ticks == 1..MaxTicks

TypeOK ==
    /\ added \in 0..MaxTicks /\ queue \in Seq(Ticks) /\ ran \in Seq(Ticks)
    /\ armed \in BOOLEAN /\ draining \in BOOLEAN
    /\ delayed \in Nat /\ ready \in Nat /\ due \in Nat
    /\ left \in 0..ChunkSize /\ running \in 0..MaxTicks
    /\ event \in {"none", "waiting", "due"} /\ waited \in Nat

(* "single shared queue + single drainer" (next-tick.ts:24): one timeout   *)
(* or one drainOnce is alive while the flag is set, none otherwise, and    *)
(* the flag is set whenever a callback waits.                              *)
OneDrainer ==
    /\ delayed + ready + due + (IF draining THEN 1 ELSE 0)
         = (IF armed THEN 1 ELSE 0)
    /\ queue # <<>> => armed

(* The callbacks run once each, in the order of the calls of nextTick,     *)
(* those deferred by a callback behind all that wait (next-tick.ts:24).    *)
CallOrder == /\ Len(ran) + Len(queue) = added
             /\ \A i \in 1..Len(ran) : ran[i] = i
             /\ \A i \in 1..Len(queue) : queue[i] = Len(ran) + i

(* Events that arrive during a chunk are dispatched after it: one waits    *)
(* for the chunk in progress and at most one more (next-tick.ts:18).       *)
Responsive == waited <= 2 * ChunkSize

(* Every callback runs, also after others that threw (next-tick.ts:36).    *)
AllRun == \A t \in Ticks : (added >= t) ~> (\E i \in DOMAIN ran : ran[i] = t)
=============================================================================
