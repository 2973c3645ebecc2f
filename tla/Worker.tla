-------------------------------- MODULE Worker --------------------------------
(***************************************************************************)
(* A Worker and its child process: packages/node/worker_threads/src/       *)
(* worker.ts with sab-transfer.ts and subprocess-port-transport.ts.  The   *)
(* two exchange JSON lines over the child's stdin and stdout, written with *)
(* blocking calls, and file descriptors of SharedBuffers over a socket     *)
(* beside them.                                                            *)
(*                                                                         *)
(* Conn 0 is the worker's own message channel; the others are MessagePorts *)
(* that the parent may transfer, each with the end that it keeps.          *)
(* PipeRoom is the number of lines that a pipe holds.                      *)
(***************************************************************************)
EXTENDS Naturals, SequencesExt

CONSTANTS Ports,     \* channels of which an end may be transferred
          Values,    \* the kinds of value that postMessage is given
          InitBuffers, \* the possible numbers of SharedBuffers in workerData
          PipeRoom,
          MaxDown,   \* bound: messages of the parent
          MaxUp      \* bound: messages, prints and early closes of the child

Conns == Ports \cup {0}
Kinds == {"plain", "sab", "pair", "twice", "unwritable"}

ASSUME PortsAssumption == Ports \subseteq Nat \ {0}
ASSUME ValuesAssumption == Values \subseteq Kinds
ASSUME InitAssumption == InitBuffers \subseteq Nat
ASSUME BoundAssumption == PipeRoom \in Nat \ {0} /\ MaxDown \in Nat /\ MaxUp \in Nat

VARIABLES
    stdin, stdout,    \* the lines in the two pipes
    fds,              \* the tags of the descriptors in the side channel
    \* The parent
    nextTag,          \* _sabNextTag
    exited,           \* _exited
    reading,          \* _readMessages has a read pending
    kept,             \* the end of a port that stays: "local", "wired", "closed"
    unwritten,        \* the line that write_all waits to write, if any
    timer,            \* of terminate(): "off", "armed", "done"
    \* The child
    phase,            \* "boot", "code" (runs), "loop" (runs), "gone"
    childReading,     \* readNext has a read pending
    held,             \* sabFds
    conn,             \* "none", "open", "heard" (has a listener), "closed"
    childUnwritten,   \* the line that write_all waits to write, if any
    \* History
    stopped,          \* an exception or foreign output has ended the reading
    odd,              \* number of prints, and of closes before the loop
    down, up,         \* number of messages posted on a conn
    childGot, parentGot, \* the last message that listeners of a conn were told of
    terminated

pipes == <<stdin, stdout, fds>>
parentVars == <<nextTag, exited, reading, kept, unwritten, timer, down, parentGot,
                terminated, stopped>>
childVars == <<phase, childReading, held, conn, childUnwritten, up, odd, childGot>>
vars == <<pipes, parentVars, childVars>>

-----------------------------------------------------------------------------
(* Lines.  tags are those of the placeholders, port that of a port         *)
(* placeholder or 0.                                                       *)
Line(t, on, n, tags, port) == [t |-> t, on |-> on, n |-> n, tags |-> tags, port |-> port]
Plain(t) == Line(t, 0, 0, <<>>, 0)

(* The bounds.                                                             *)
Total(f) == FoldFunction(+, 0, f)
MayPost == Total(down) < MaxDown
MaySay == Total(up) + odd < MaxUp

(* extractSharedBuffers: a tag for each buffer, a placeholder for each     *)
(* occurrence.                                                             *)
Buffers(v) == CASE v \in {"sab", "twice", "unwritable"} -> <<nextTag>>
                [] v = "pair" -> <<nextTag, nextTag + 1>>
                [] OTHER -> <<>>
Placeholders(v) == IF v = "twice" THEN <<nextTag, nextTag>> ELSE Buffers(v)

(* write_all on stdin: waits while the pipe is full; throws when the child *)
(* is gone, which every caller ignores.                                    *)
WriteMutant(line) ==
    /\ stdin' = IF Len(stdin) < PipeRoom /\ phase # "gone" THEN Append(stdin, line)
                ELSE stdin
    /\ UNCHANGED unwritten
Write(line) ==
    IF phase = "gone" THEN UNCHANGED <<stdin, unwritten>>
    ELSE IF Len(stdin) < PipeRoom
         THEN stdin' = Append(stdin, line) /\ UNCHANGED unwritten
         ELSE unwritten' = <<line>> /\ UNCHANGED stdin

(* send(obj) in the child.                                                 *)
Send(line) ==
    IF Len(stdout) < PipeRoom
    THEN stdout' = Append(stdout, line) /\ UNCHANGED childUnwritten
    ELSE childUnwritten' = <<line>> /\ UNCHANGED stdout

Init ==
    /\ nextTag \in InitBuffers
    /\ fds = [i \in 1..nextTag |-> i - 1]
    /\ stdin = <<Line("init", 0, 0, fds, 0)>>
    /\ stdout = <<>>
    /\ exited = FALSE /\ reading = TRUE
    /\ kept = [p \in Ports |-> "local"]
    /\ unwritten = <<>> /\ timer = "off"
    /\ phase = "boot" /\ childReading = TRUE
    /\ held = {}
    /\ conn = [c \in Conns |-> IF c = 0 THEN "open" ELSE "none"]
    /\ childUnwritten = <<>>
    /\ down = [c \in Conns |-> 0] /\ up = down /\ odd = 0
    /\ childGot = down /\ parentGot = down
    /\ terminated = FALSE /\ stopped = FALSE
-----------------------------------------------------------------------------
(* The parent.  It does nothing while it waits in write_all.               *)
ParentRuns == unwritten = <<>>

(* postMessage(value, transferList), where port is transferred or 0: the   *)
(* kept end is wired and the descriptors are sent before the line is made; *)
(* what goes wrong after that is ignored.                                  *)
Post(v, port) ==
    /\ ParentRuns /\ ~exited /\ MayPost
    /\ port # 0 => kept[port] = "local"
    /\ kept' = [p \in Ports |-> IF p = port THEN "wired" ELSE kept[p]]
    /\ nextTag' = nextTag + Len(Buffers(v))
    /\ fds' = IF phase = "gone" THEN fds ELSE fds \o Buffers(v)
    /\ IF v = "unwritable" THEN UNCHANGED <<stdin, unwritten, down>>
       ELSE /\ down' = [down EXCEPT ![0] = @ + 1]
            /\ Write(Line("message", 0, down'[0], Placeholders(v), port))
    /\ UNCHANGED <<stdout, exited, reading, timer, parentGot, terminated, stopped, childVars>>

(* postMessage and close of a kept end.                                    *)
KeptPost(p) ==
    /\ ParentRuns /\ kept[p] = "wired" /\ MayPost
    /\ down' = [down EXCEPT ![p] = @ + 1]
    /\ Write(Line("send", p, down'[p], <<>>, 0))
    /\ UNCHANGED <<stdout, fds, nextTag, exited, reading, kept, timer, parentGot,
                   terminated, stopped, childVars>>

KeptClose(p) ==
    /\ ParentRuns /\ kept[p] = "wired"
    /\ kept' = [kept EXCEPT ![p] = "closed"]
    /\ Write(Line("close", p, 0, <<>>, 0))
    /\ UNCHANGED <<stdout, fds, nextTag, exited, reading, timer, down, parentGot,
                   terminated, stopped, childVars>>

(* terminate(), once.  The timer is set after the line is written.         *)
AfterWriteMutant(line) == timer
AfterWrite(line) == IF line.t = "terminate" THEN "armed" ELSE timer

Terminate ==
    /\ ParentRuns /\ ~exited /\ ~terminated
    /\ terminated' = TRUE
    /\ Write(Plain("terminate"))
    /\ timer' = IF unwritten' = <<>> THEN AfterWrite(Plain("terminate")) ELSE timer
    /\ UNCHANGED <<stdout, fds, nextTag, exited, reading, kept, down, parentGot, stopped,
                   childVars>>

WriteEnds ==
    /\ unwritten # <<>>
    /\ Len(stdin) < PipeRoom \/ phase = "gone"
    /\ stdin' = IF phase = "gone" THEN stdin ELSE stdin \o unwritten
    /\ unwritten' = <<>>
    /\ timer' = AfterWrite(unwritten[1])
    /\ UNCHANGED <<stdout, fds, nextTag, exited, reading, kept, down, parentGot,
                   terminated, stopped, childVars>>

(* The process is gone, and with it what it held and what it did not read. *)
ChildGone ==
    /\ phase' = "gone" /\ childReading' = FALSE
    /\ stdin' = <<>> /\ childUnwritten' = <<>> /\ held' = {}
    /\ conn' = [c \in Conns |-> "none"]

ForceExit ==
    /\ ParentRuns /\ timer = "armed"
    /\ timer' = "done"
    /\ IF exited \/ phase = "gone"
       THEN UNCHANGED <<stdin, phase, childReading, childUnwritten, held, conn>>
       ELSE ChildGone
    /\ UNCHANGED <<stdout, fds, nextTag, exited, reading, kept, unwritten, down, parentGot,
                   terminated, stopped, up, odd, childGot>>

(* _onExit and _cleanup: the kept ends are closed without an event.  The   *)
(* lines of stdout that remain are still read.                             *)
ReadsAfterExitMutant == FALSE
ReadsAfterExit == reading

OnExit ==
    /\ ParentRuns /\ phase = "gone" /\ ~exited
    /\ exited' = TRUE
    /\ reading' = ReadsAfterExit
    /\ kept' = [p \in Ports |-> IF kept[p] = "wired" THEN "closed" ELSE kept[p]]
    /\ UNCHANGED <<pipes, nextTag, unwritten, timer, down, parentGot, terminated, stopped,
                   childVars>>

(* _readMessages: close() of a kept end answers with a line of its own.    *)
Told(line) == [parentGot EXCEPT ![line.on] = line.n]

ParentReads ==
    LET line == Head(stdout) IN
    /\ ParentRuns /\ reading /\ stdout # <<>>
    /\ stdout' = Tail(stdout)
    /\ reading' = (line.t # "text")
    /\ stopped' = (line.t = "text")
    /\ IF line.t = "close" /\ kept[line.on] = "wired"
       THEN /\ kept' = [kept EXCEPT ![line.on] = "closed"]
            /\ Write(Line("close", line.on, 0, <<>>, 0))
       ELSE UNCHANGED <<kept, stdin, unwritten>>
    /\ parentGot' = IF \/ line.t = "message"
                       \/ line.t = "send" /\ kept[line.on] = "wired"
                    THEN Told(line) ELSE parentGot
    /\ UNCHANGED <<fds, nextTag, exited, timer, down, terminated, childVars>>

(* A listener of the worker throws, or 'error' has none: the exception is   *)
(* caught where a parse error is, and no read follows.                     *)
ParentThrows ==
    LET line == Head(stdout) IN
    /\ ParentRuns /\ reading /\ stdout # <<>>
    /\ line.t \in {"online", "message", "error", "thrown"}
    /\ stdout' = Tail(stdout) /\ reading' = FALSE /\ stopped' = TRUE
    /\ parentGot' = IF line.t = "message" THEN Told(line) ELSE parentGot
    /\ UNCHANGED <<stdin, fds, nextTag, exited, kept, unwritten, timer, down,
                   terminated, childVars>>

Parent == \/ \E v \in Values, port \in Conns : Post(v, port)
          \/ \E p \in Ports : KeptPost(p) \/ KeptClose(p)
          \/ Terminate \/ WriteEnds \/ ForceExit \/ OnExit
          \/ ParentReads \/ ParentThrows
-----------------------------------------------------------------------------
(* The child.  It does nothing while it waits in write_all.                *)
ChildRuns == phase # "gone" /\ childUnwritten = <<>>

(* readNext's callback, with the line that was read.                       *)
Reads(kinds) == /\ ChildRuns /\ childReading /\ stdin # <<>>
                /\ Head(stdin).t \in kinds

(* drainSabFds takes as many descriptors as the line has placeholders, and *)
(* waits for those that are not there.  materialise takes each tag once.   *)
NeedMutant(line) == IF line.tags = <<>> THEN 0 ELSE 1
Need(line) == Len(line.tags)

Drains(line) ==
    /\ Len(fds) >= Need(line)
    /\ fds' = SubSeq(fds, Need(line) + 1, Len(fds))

Taken(line) == SubSeq(fds, 1, Need(line))
Materialises(line) ==
    /\ \A i, j \in DOMAIN line.tags : i # j => line.tags[i] # line.tags[j]
    /\ ToSet(line.tags) \subseteq held \cup ToSet(Taken(line))

(* The init line: the worker is online and its code starts.                *)
Boot ==
    LET line == Head(stdin) IN
    /\ Reads({"init"})
    /\ Drains(line) /\ Materialises(line)
    /\ Send(Plain("online"))
    /\ phase' = "code" /\ stdin' = Tail(stdin)
    /\ UNCHANGED <<parentVars, childReading, held, conn, up, odd, childGot>>

(* A message: without a listener it is lost, but for the port it brings.   *)
RebuiltMutant(line) ==
    [c \in Conns |-> IF c # 0 /\ c = line.port /\ conn[0] = "heard" THEN "open" ELSE conn[c]]
Rebuilt(line) == [c \in Conns |-> IF c # 0 /\ c = line.port THEN "open" ELSE conn[c]]

Deliver ==
    LET line == Head(stdin) IN
    /\ Reads({"message"})
    /\ Drains(line) /\ Materialises(line)
    /\ held' = (held \cup ToSet(Taken(line))) \ ToSet(line.tags)
    /\ conn' = Rebuilt(line)
    /\ childGot' = IF conn[0] = "heard"
                   THEN [childGot EXCEPT ![0] = line.n] ELSE childGot
    /\ stdin' = Tail(stdin)
    /\ UNCHANGED <<stdout, parentVars, phase, childReading, childUnwritten, up, odd>>

(* loop.quit() ends the process, once the line is sent, if the loop runs;  *)
(* before that it does nothing.                                            *)
SendAndQuit(line, reads, rest, conns) ==
    IF phase = "loop" /\ Len(stdout) < PipeRoom
    THEN stdout' = Append(stdout, line) /\ ChildGone
    ELSE /\ Send(line)
         /\ childReading' = reads /\ stdin' = rest /\ conn' = conns
         /\ UNCHANGED <<phase, held>>

(* A placeholder without its descriptor, or an exception of a listener:    *)
(* reported, and no read follows.                                          *)
Fail ==
    LET line == Head(stdin) IN
    /\ Reads({"message"})
    /\ Drains(line)
    /\ conn[0] = "heard" \/ ~Materialises(line)
    /\ childGot' = IF Materialises(line)
                   THEN [childGot EXCEPT ![0] = line.n] ELSE childGot
    /\ SendAndQuit(Plain("error"), FALSE, Tail(stdin),
                   IF Materialises(line) THEN Rebuilt(line) ELSE conn)
    /\ UNCHANGED <<parentVars, up, odd>>

TakeTerminate ==
    /\ Reads({"terminate"})
    /\ SendAndQuit(Plain("exit"), FALSE, Tail(stdin), conn)
    /\ UNCHANGED <<fds, parentVars, up, odd, childGot>>

(* A line for a port: one that is not known, or closed, ignores it; one    *)
(* without a listener loses the message.                                   *)
PortLine ==
    LET line == Head(stdin) IN
    /\ Reads({"send", "close"})
    /\ childGot' = IF line.t = "send" /\ conn[line.on] = "heard"
                   THEN [childGot EXCEPT ![line.on] = line.n] ELSE childGot
    /\ conn' = IF line.t = "close" /\ conn[line.on] \in {"open", "heard"}
               THEN [conn EXCEPT ![line.on] = "closed"] ELSE conn
    /\ stdin' = Tail(stdin)
    /\ UNCHANGED <<stdout, fds, parentVars, phase, childReading, held, childUnwritten, up, odd>>

SendEnds ==
    /\ childUnwritten # <<>> /\ Len(stdout) < PipeRoom
    /\ stdout' = stdout \o childUnwritten
    /\ IF phase = "loop" /\ childUnwritten[1].t \in {"error", "exit"}
       THEN ChildGone
       ELSE childUnwritten' = <<>>
            /\ UNCHANGED <<stdin, phase, childReading, held, conn>>
    /\ UNCHANGED <<fds, parentVars, up, odd, childGot>>

(* The code that the worker runs: it may listen, post, write to stdout     *)
(* itself and close; loop.run() follows it.                                *)
UserRuns == ChildRuns /\ phase # "boot"

Listen(c) ==
    /\ UserRuns /\ conn[c] = "open"
    /\ conn' = [conn EXCEPT ![c] = "heard"]
    /\ UNCHANGED <<pipes, parentVars, phase, childReading, held, childUnwritten,
                   up, odd, childGot>>

ChildPost(c) ==
    /\ UserRuns /\ conn[c] \in {"open", "heard"} /\ MaySay
    /\ up' = [up EXCEPT ![c] = @ + 1]
    /\ Send(Line(IF c = 0 THEN "message" ELSE "send", c, up'[c], <<>>, 0))
    /\ UNCHANGED <<stdin, fds, parentVars, phase, childReading, held, conn, odd,
                   childGot>>

ChildPortClose(p) ==
    /\ UserRuns /\ conn[p] \in {"open", "heard"}
    /\ conn' = [conn EXCEPT ![p] = "closed"]
    /\ Send(Line("close", p, 0, <<>>, 0))
    /\ UNCHANGED <<stdin, fds, parentVars, phase, childReading, held, up, odd, childGot>>

(* parentPort.close()                                                      *)
ChildClose ==
    /\ UserRuns
    /\ phase = "loop" \/ MaySay
    /\ odd' = IF phase = "loop" THEN odd ELSE odd + 1
    /\ SendAndQuit(Plain("exit"), childReading, stdin, conn)
    /\ UNCHANGED <<fds, parentVars, up, childGot>>

EndCode ==
    /\ ChildRuns /\ phase = "code"
    /\ phase' = "loop"
    /\ Send(Plain("thrown")) \/ UNCHANGED <<stdout, childUnwritten>>
    /\ UNCHANGED <<stdin, fds, parentVars, childReading, held, conn, up, odd, childGot>>

ChildPrints ==
    /\ UserRuns /\ MaySay
    /\ odd' = odd + 1
    /\ Send(Plain("text"))
    /\ UNCHANGED <<stdin, fds, parentVars, phase, childReading, held, conn, up,
                   childGot>>

(* The process ends by itself, at any moment.                              *)
Die ==
    /\ phase # "gone" /\ ChildGone
    /\ UNCHANGED <<stdout, fds, parentVars, up, odd, childGot>>

Child == \/ Boot \/ Deliver \/ Fail \/ TakeTerminate \/ PortLine \/ SendEnds
         \/ \E c \in Conns : Listen(c) \/ ChildPost(c)
         \/ \E p \in Ports : ChildPortClose(p)
         \/ ChildClose \/ EndCode \/ ChildPrints \/ Die

Next == Parent \/ Child

Spec == Init /\ [][Next]_vars

(* The parent's main loop runs what is ready; of the child nothing is      *)
(* assumed: its code may never end or never turn to the loop.              *)
FairSpec == /\ Spec
            /\ WF_vars(ParentReads \/ ParentThrows)
            /\ WF_vars(WriteEnds)
            /\ WF_vars(ForceExit)
            /\ WF_vars(OnExit)
-----------------------------------------------------------------------------
(* The lines that the child will read, and the numbers of the messages of  *)
(* a conn among lines.                                                     *)
Ahead == IF phase = "gone" THEN <<>> ELSE stdin \o unwritten
Numbers(lines, c) ==
    FlattenSeq([i \in DOMAIN lines |->
                  IF lines[i].t \in {"message", "send"} /\ lines[i].on = c
                  THEN <<lines[i].n>> ELSE <<>>])

(* The descriptors in the side channel are those of the placeholders in    *)
(* the lines ahead, in their order: each line finds its own, there, when   *)
(* the child drains as many as it has placeholders (worker.ts:38-47).      *)
FdsPaired ==
    phase # "gone" => FlattenSeq([i \in DOMAIN Ahead |-> Ahead[i].tags]) = fds

(* What goes to a port of the child comes after the line that brings the   *)
(* port, so none of it is dropped for a port that is not known.            *)
PortKnown ==
    \A i \in DOMAIN Ahead :
        LET p == Ahead[i].on IN
        Ahead[i].t \in {"send", "close"} =>
            conn[p] # "none" \/ \E j \in 1..(i - 1) : Ahead[j].port = p

(* On each conn and either way, once a listener is told of a message it is *)
(* told of all the next ones, in order and once, though the pipes be full; *)
(* the parent, whose ports keep what is early, of all from the first.      *)
FromTo(m, n) == [i \in 1..(n - m) |-> m + i]
InOrder ==
    \A c \in Conns :
        /\ childGot[c] # 0 /\ conn[c] = "heard" =>
              Numbers(Ahead, c) = FromTo(childGot[c], down[c])
        /\ phase # "gone" /\ (c = 0 \/ kept[c] = "wired") =>
              Numbers(stdout \o childUnwritten, c) = FromTo(parentGot[c], up[c])

(* terminate() ends in 'exit', also when the child hangs, has stopped to   *)
(* read or quit its loop too early, provided that the parent's writes end. *)
TerminateExits == ([]<>ParentRuns) => (terminated ~> exited)

(* A line that the child has written is acted on, also when the child has  *)
(* exited since, unless an exception or foreign output stops the reading;  *)
(* ports of the parent end with 'exit'.                                    *)
Written(t, c, n) == \E i \in DOMAIN stdout :
                      stdout[i].t = t /\ stdout[i].on = c /\ stdout[i].n = n
LinesArrive ==
    ([]~stopped /\ []<>ParentRuns) =>
        /\ \A n \in 1..MaxUp :
              Written("message", 0, n) ~> (parentGot[0] >= n)
        /\ \A p \in Ports : Written("close", p, 0) ~> (kept[p] = "closed")

(* When the child reads a line, the descriptors of all its placeholders    *)
(* are in the channel (worker.ts:105-109), and are the right ones.         *)
BufferedOnRead ==
    Reads({"message"}) => /\ Len(fds) >= Need(Head(stdin))
                          /\ Materialises(Head(stdin))
=============================================================================
