------------------------------ MODULE FifoSink ------------------------------
(***************************************************************************)
(* What a Writable promises its user and its sink: the writes are numbered *)
(* 1, 2, ... as they are accepted, the sink is given them in that order    *)
(* and one at a time, and the stream finishes only after end() and after   *)
(* the sink is done with the last of them.                                 *)
(***************************************************************************)
EXTENDS Naturals, Sequences

CONSTANT MaxWrites  \* bound: writes accepted in a behaviour

VARIABLES
    queue,    \* accepted, not yet given to the sink
    last,     \* the number of the last write accepted
    busy,     \* the write the sink works on, 0 for none
    closing,  \* end() has been called
    finished  \* the sink was asked to finalise, and has

absVars == <<queue, last, busy, closing, finished>>

AbsInit == /\ queue = <<>> /\ last = 0 /\ busy = 0
           /\ closing = FALSE /\ finished = FALSE

AcceptOne == /\ ~closing /\ last < MaxWrites
             /\ last' = last + 1
             /\ queue' = Append(queue, last + 1)
             /\ UNCHANGED <<busy, closing, finished>>

(* The sink takes the oldest write; it may be done with it at once.        *)
TakeOne == /\ busy = 0 /\ queue # <<>>
           /\ queue' = Tail(queue)
           /\ busy' \in {0, Head(queue)}
           /\ UNCHANGED <<last, closing, finished>>

CompleteOne == /\ busy # 0 /\ busy' = 0
               /\ UNCHANGED <<queue, last, closing, finished>>

(* After end() has returned; a sink that has nothing left may finish at    *)
(* once.                                                                   *)
CloseSink == /\ ~closing /\ closing' = TRUE
             /\ finished' \in {FALSE, queue = <<>> /\ busy = 0}
             /\ UNCHANGED <<queue, last, busy>>

FinishSink == /\ closing /\ ~finished /\ queue = <<>> /\ busy = 0
              /\ finished' = TRUE
              /\ UNCHANGED <<queue, last, busy, closing>>

AbsNext == AcceptOne \/ TakeOne \/ CompleteOne \/ CloseSink \/ FinishSink

AbsSpec == AbsInit /\ [][AbsNext]_absVars
=============================================================================
