----------------------------- MODULE WorkerProofs -----------------------------
(* Proofs about Worker, for all ports, bounds and sizes of the pipes.       *)
EXTENDS Worker, DataTheorems

-----------------------------------------------------------------------------
(* Type correctness.                                                        *)
DownKinds == {"init", "message", "send", "close", "terminate"}
UpKinds == {"online", "message", "send", "close", "error", "exit", "thrown", "text"}
Shape(l) ==
    /\ l.t = "message" => l.on = 0
    /\ l.t \in {"send", "close"} => l.on \in Ports
    /\ l.t \notin {"init", "message"} => l.tags = <<>>
    /\ l.t # "message" => l.port = 0
Lines == [t : DownKinds \cup UpKinds, on : Conns, n : Nat, tags : Seq(Nat), port : Conns]
DownLines == {l \in Lines : l.t \in DownKinds /\ Shape(l)}
UpLines == {l \in Lines : l.t \in UpKinds /\ Shape(l)}

PipeTypes ==
    /\ stdin \in Seq(DownLines) /\ stdout \in Seq(UpLines) /\ fds \in Seq(Nat)
    /\ unwritten \in Seq(DownLines) /\ Len(unwritten) <= 1
    /\ childUnwritten \in Seq(UpLines) /\ Len(childUnwritten) <= 1
ParentTypes ==
    /\ nextTag \in Nat /\ exited \in BOOLEAN /\ reading \in BOOLEAN
    /\ kept \in [Ports -> {"local", "wired", "closed"}]
    /\ timer \in {"off", "armed", "done"}
ChildTypes ==
    /\ phase \in {"boot", "code", "loop", "gone"} /\ childReading \in BOOLEAN
    /\ held \in SUBSET Nat
    /\ conn \in [Conns -> {"none", "open", "heard", "closed"}]
HistTypes ==
    /\ down \in [Conns -> Nat] /\ up \in [Conns -> Nat]
    /\ childGot \in [Conns -> Nat] /\ parentGot \in [Conns -> Nat]
    /\ odd \in Nat /\ terminated \in BOOLEAN /\ stopped \in BOOLEAN
TypeOK == PipeTypes /\ ParentTypes /\ ChildTypes /\ HistTypes

(* The lines that the two sides make.                                       *)
LEMMA LineTypes ==
    /\ \A t \in {"terminate"} : Plain(t) \in DownLines
    /\ \A t \in {"online", "error", "exit", "thrown", "text"} : Plain(t) \in UpLines
    /\ \A p \in Ports, n \in Nat : Line("send", p, n, <<>>, 0) \in DownLines \cap UpLines
    /\ \A p \in Ports : Line("close", p, 0, <<>>, 0) \in DownLines \cap UpLines
    /\ \A n \in Nat, tags \in Seq(Nat), port \in Conns :
          Line("message", 0, n, tags, port) \in DownLines
    /\ \A n \in Nat : Line("message", 0, n, <<>>, 0) \in UpLines
    /\ \A tags \in Seq(Nat) : Line("init", 0, 0, tags, 0) \in DownLines
<1>. USE DEF Line, Plain, Lines, DownLines, UpLines, DownKinds, UpKinds, Shape, Conns
<1>0. <<>> \in Seq(Nat)
    OBVIOUS
<1>1. \A t \in {"terminate"} : Plain(t) \in DownLines
    BY <1>0
<1>2. \A t \in {"online", "error", "exit", "thrown", "text"} : Plain(t) \in UpLines
    BY <1>0
<1>3. \A p \in Ports, n \in Nat : Line("send", p, n, <<>>, 0) \in DownLines \cap UpLines
    BY <1>0
<1>4. \A p \in Ports : Line("close", p, 0, <<>>, 0) \in DownLines \cap UpLines
    BY <1>0
<1>5. \A n \in Nat, tags \in Seq(Nat), port \in Conns :
         Line("message", 0, n, tags, port) \in DownLines
    OBVIOUS
<1>6. \A n \in Nat : Line("message", 0, n, <<>>, 0) \in UpLines
    BY <1>0
<1>7. \A tags \in Seq(Nat) : Line("init", 0, 0, tags, 0) \in DownLines
    OBVIOUS
<1>. QED
    BY <1>1, <1>2, <1>3, <1>4, <1>5, <1>6, <1>7

LEMMA LineFacts ==
    ASSUME NEW l, l \in DownLines \/ l \in UpLines
    PROVE  /\ l.on \in Conns /\ l.n \in Nat /\ l.tags \in Seq(Nat) /\ l.port \in Conns
           /\ Shape(l) /\ (l \in DownLines => l.t \in DownKinds)
           /\ (l \in UpLines => l.t \in UpKinds)
BY DEF DownLines, UpLines, Lines

(* A write that waits is that of one line.                                  *)
LEMMA OneOrNone ==
    ASSUME NEW X
    PROVE  /\ <<>> \in Seq(X) /\ Len(<<>>) <= 1
           /\ \A x \in X : <<x>> \in Seq(X) /\ Len(<<x>>) <= 1
OBVIOUS

(* Queues of lines, as the steps change them.                               *)
LEMMA QueueFacts ==
    ASSUME NEW X
    PROVE  /\ <<>> \in Seq(X)
           /\ \A s \in Seq(X), x \in X : Append(s, x) \in Seq(X)
           /\ \A x \in X : <<x>> \in Seq(X) /\ Len(<<x>>) = 1 /\ <<x>> # <<>>
           /\ \A s, t \in Seq(X) : s \o t \in Seq(X)
           /\ \A s \in Seq(X) : s # <<>> =>
                 Head(s) \in X /\ Tail(s) \in Seq(X) /\ s[1] \in X /\ s[1] = Head(s)
OBVIOUS

LEMMA WriteTypes ==
    ASSUME PipeTypes, ParentRuns, NEW line \in DownLines, Write(line)
    PROVE  /\ stdin' \in Seq(DownLines) /\ unwritten' \in Seq(DownLines)
           /\ Len(unwritten') <= 1
<1>1. /\ stdin \in Seq(DownLines) /\ Append(stdin, line) \in Seq(DownLines)
      /\ unwritten \in Seq(DownLines) /\ Len(unwritten) <= 1
    BY QueueFacts DEF PipeTypes
<1>2. \/ stdin' = stdin /\ unwritten' = unwritten
      \/ stdin' = Append(stdin, line) /\ unwritten' = unwritten
      \/ stdin' = stdin /\ unwritten' = <<line>>
    BY DEF Write
<1>. QED
    BY <1>1, <1>2, OneOrNone

LEMMA SendTypes ==
    ASSUME PipeTypes, childUnwritten = <<>>, NEW line \in UpLines, Send(line)
    PROVE  /\ stdout' \in Seq(UpLines) /\ childUnwritten' \in Seq(UpLines)
           /\ Len(childUnwritten') <= 1
<1>1. /\ stdout \in Seq(UpLines) /\ Append(stdout, line) \in Seq(UpLines)
      /\ childUnwritten \in Seq(UpLines) /\ Len(childUnwritten) <= 1
    BY QueueFacts DEF PipeTypes
<1>2. \/ stdout' = Append(stdout, line) /\ childUnwritten' = childUnwritten
      \/ stdout' = stdout /\ childUnwritten' = <<line>>
    BY DEF Send
<1>. QED
    BY <1>1, <1>2, OneOrNone

LEMMA GoneTypes ==
    ASSUME TypeOK, ChildGone
    PROVE  /\ stdin' \in Seq(DownLines) /\ childUnwritten' \in Seq(UpLines)
           /\ Len(childUnwritten') <= 1 /\ ChildTypes'
<1>1. stdin' = <<>> /\ childUnwritten' = <<>>
    BY DEF ChildGone
<1>2. ChildTypes'
    BY DEF ChildGone, ChildTypes
<1>. QED
    BY <1>1, <1>2, OneOrNone

LEMMA QuitTypes ==
    ASSUME TypeOK, childUnwritten = <<>>, NEW line \in UpLines, NEW reads \in BOOLEAN,
           NEW rest \in Seq(DownLines),
           NEW conns \in [Conns -> {"none", "open", "heard", "closed"}],
           SendAndQuit(line, reads, rest, conns)
    PROVE  /\ stdin' \in Seq(DownLines) /\ stdout' \in Seq(UpLines)
           /\ childUnwritten' \in Seq(UpLines) /\ Len(childUnwritten') <= 1 /\ ChildTypes'
<1>1. CASE phase = "loop" /\ Len(stdout) < PipeRoom
    <2>1. ChildGone /\ stdout' = Append(stdout, line) /\ stdout \in Seq(UpLines)
        BY <1>1 DEF SendAndQuit, TypeOK, PipeTypes
    <2>. QED
        BY <2>1, GoneTypes, QueueFacts
<1>2. CASE ~(phase = "loop" /\ Len(stdout) < PipeRoom)
    <2>1. /\ Send(line) /\ childReading' = reads /\ stdin' = rest /\ conn' = conns
          /\ UNCHANGED <<phase, held>>
        BY <1>2 DEF SendAndQuit
    <2>. QED
        BY <2>1, SendTypes DEF TypeOK, ChildTypes
<1>. QED
    BY <1>1, <1>2

LEMMA BufferTypes ==
    ASSUME nextTag \in Nat, NEW v
    PROVE  /\ Buffers(v) \in Seq(Nat) /\ Placeholders(v) \in Seq(Nat)
           /\ Len(Buffers(v)) \in Nat
<1>1. /\ <<nextTag>> \in Seq(Nat) /\ <<nextTag, nextTag + 1>> \in Seq(Nat)
      /\ <<nextTag, nextTag>> \in Seq(Nat) /\ <<>> \in Seq(Nat)
    OBVIOUS
<1>2. Buffers(v) \in Seq(Nat) /\ Placeholders(v) \in Seq(Nat)
    BY <1>1 DEF Buffers, Placeholders
<1>. QED
    BY <1>2

LEMMA TypeInit == Init => TypeOK
<1>. SUFFICES ASSUME Init PROVE TypeOK
    OBVIOUS
<1>1. nextTag \in Nat
    BY InitAssumption DEF Init
<1>2. fds \in Seq(Nat)
    BY <1>1 DEF Init
<1>3. PipeTypes
    <2>1. Line("init", 0, 0, fds, 0) \in DownLines
        BY <1>2, LineTypes
    <2>2. Len(<<>>) = 0
        OBVIOUS
    <2>. QED
        BY <1>2, <2>1, <2>2, QueueFacts DEF Init, PipeTypes
<1>4. ParentTypes /\ HistTypes /\ ChildTypes
    BY <1>1 DEF Init, ParentTypes, HistTypes, ChildTypes
<1>. QED
    BY <1>3, <1>4 DEF TypeOK

LEMMA TypePost ==
    ASSUME TypeOK, NEW v, NEW port \in Conns, Post(v, port)
    PROVE  TypeOK'
<1>1. ParentRuns /\ UNCHANGED <<stdout, exited, reading, timer, parentGot, terminated,
                               stopped, childVars>>
    BY DEF Post
<1>2. /\ fds \in Seq(Nat) /\ nextTag \in Nat /\ kept \in [Ports -> {"local", "wired", "closed"}]
      /\ down \in [Conns -> Nat] /\ 0 \in Conns
    BY DEF TypeOK, PipeTypes, ParentTypes, HistTypes, Conns
<1>3. /\ Buffers(v) \in Seq(Nat) /\ Placeholders(v) \in Seq(Nat) /\ Len(Buffers(v)) \in Nat
    BY <1>2, BufferTypes
<1>4. fds' \in Seq(Nat) /\ nextTag' \in Nat
    BY <1>2, <1>3 DEF Post
<1>5. ParentTypes'
    <2>1. kept' \in [Ports -> {"local", "wired", "closed"}]
        BY <1>2 DEF Post
    <2>. QED
        BY <1>1, <1>4, <2>1 DEF TypeOK, ParentTypes
<1>6. down' \in [Conns -> Nat]
    BY <1>2 DEF Post
<1>7. /\ stdin' \in Seq(DownLines) /\ unwritten' \in Seq(DownLines) /\ Len(unwritten') <= 1
    <2>1. CASE v = "unwritable"
        BY <2>1 DEF Post, TypeOK, PipeTypes
    <2>2. CASE v # "unwritable"
        <3>1. Line("message", 0, down'[0], Placeholders(v), port) \in DownLines
            BY <1>2, <1>3, <1>6, LineTypes
        <3>2. Write(Line("message", 0, down'[0], Placeholders(v), port))
            BY <2>2 DEF Post
        <3>. QED
            BY <1>1, <3>1, <3>2, WriteTypes DEF TypeOK
    <2>. QED
        BY <2>1, <2>2
<1>8. PipeTypes'
    BY <1>1, <1>4, <1>7 DEF TypeOK, PipeTypes, childVars
<1>9. ChildTypes' /\ HistTypes'
    BY <1>1, <1>6 DEF TypeOK, ChildTypes, HistTypes, childVars
<1>. QED
    BY <1>5, <1>8, <1>9 DEF TypeOK

LEMMA TypeKept ==
    ASSUME TypeOK, NEW p \in Ports, KeptPost(p) \/ KeptClose(p)
    PROVE  TypeOK'
<1>1. ParentRuns /\ UNCHANGED <<stdout, fds, nextTag, exited, reading, timer, parentGot,
                               terminated, stopped, childVars>>
    BY DEF KeptPost, KeptClose
<1>2. p \in Conns /\ down \in [Conns -> Nat]
      /\ kept \in [Ports -> {"local", "wired", "closed"}]
    BY DEF TypeOK, HistTypes, ParentTypes, Conns
<1>3. down' \in [Conns -> Nat] /\ kept' \in [Ports -> {"local", "wired", "closed"}]
    BY <1>2 DEF KeptPost, KeptClose
<1>4. PICK line \in DownLines : Write(line)
    <2>1. CASE KeptPost(p)
        <3>1. Line("send", p, down'[p], <<>>, 0) \in DownLines
            BY <1>2, <1>3, LineTypes
        <3>. QED
            BY <2>1, <3>1 DEF KeptPost
    <2>2. CASE KeptClose(p)
        BY <2>2, LineTypes DEF KeptClose
    <2>. QED
        BY <2>1, <2>2
<1>5. stdin' \in Seq(DownLines) /\ unwritten' \in Seq(DownLines) /\ Len(unwritten') <= 1
    BY <1>1, <1>4, WriteTypes DEF TypeOK
<1>6. PipeTypes'
    BY <1>1, <1>5 DEF TypeOK, PipeTypes, childVars
<1>7. ParentTypes' /\ ChildTypes' /\ HistTypes'
    BY <1>1, <1>3 DEF TypeOK, ParentTypes, ChildTypes, HistTypes, childVars
<1>. QED
    BY <1>6, <1>7 DEF TypeOK

LEMMA TypeTerminate ==
    ASSUME TypeOK, Terminate
    PROVE  TypeOK'
<1>1. /\ ParentRuns /\ Write(Plain("terminate")) /\ terminated' = TRUE
      /\ timer' \in {timer, "armed"}
      /\ UNCHANGED <<stdout, fds, nextTag, exited, reading, kept, down, parentGot, stopped,
                     childVars>>
    BY DEF Terminate, AfterWrite
<1>2. stdin' \in Seq(DownLines) /\ unwritten' \in Seq(DownLines) /\ Len(unwritten') <= 1
    BY <1>1, LineTypes, WriteTypes DEF TypeOK
<1>3. PipeTypes'
    BY <1>1, <1>2 DEF TypeOK, PipeTypes, childVars
<1>4. ParentTypes' /\ ChildTypes' /\ HistTypes'
    BY <1>1 DEF TypeOK, ParentTypes, ChildTypes, HistTypes, childVars
<1>. QED
    BY <1>3, <1>4 DEF TypeOK

LEMMA TypeWriteEnds ==
    ASSUME TypeOK, WriteEnds
    PROVE  TypeOK'
<1>1. /\ unwritten' = <<>> /\ stdin' \in {stdin, stdin \o unwritten}
      /\ timer' \in {timer, "armed"}
      /\ UNCHANGED <<stdout, fds, nextTag, exited, reading, kept, down, parentGot,
                     terminated, stopped, childVars>>
    BY DEF WriteEnds, AfterWrite
<1>2. stdin' \in Seq(DownLines) /\ unwritten' \in Seq(DownLines) /\ Len(unwritten') <= 1
    <2>1. stdin \o unwritten \in Seq(DownLines)
        BY QueueFacts DEF TypeOK, PipeTypes
    <2>2. stdin' \in Seq(DownLines)
        BY <1>1, <2>1 DEF TypeOK, PipeTypes
    <2>. QED
        BY <1>1, <2>2, OneOrNone
<1>3. PipeTypes'
    BY <1>1, <1>2 DEF TypeOK, PipeTypes, childVars
<1>4. ParentTypes' /\ ChildTypes' /\ HistTypes'
    BY <1>1 DEF TypeOK, ParentTypes, ChildTypes, HistTypes, childVars
<1>. QED
    BY <1>3, <1>4 DEF TypeOK

LEMMA TypeExit ==
    ASSUME TypeOK, ForceExit \/ OnExit
    PROVE  TypeOK'
<1>1. CASE ForceExit
    <2>1. /\ timer' = "done"
          /\ UNCHANGED <<stdout, fds, nextTag, exited, reading, kept, unwritten, down,
                         parentGot, terminated, stopped, up, odd, childGot>>
        BY <1>1 DEF ForceExit
    <2>2. /\ stdin' \in Seq(DownLines) /\ childUnwritten' \in Seq(UpLines)
          /\ Len(childUnwritten') <= 1 /\ ChildTypes'
        <3>1. CASE exited \/ phase = "gone"
            BY <1>1, <3>1 DEF ForceExit, TypeOK, PipeTypes, ChildTypes
        <3>2. CASE ~(exited \/ phase = "gone")
            BY <1>1, <3>2, GoneTypes DEF ForceExit
        <3>. QED
            BY <3>1, <3>2
    <2>. QED
        BY <2>1, <2>2 DEF TypeOK, PipeTypes, ParentTypes, HistTypes
<1>2. CASE OnExit
    <2>1. /\ exited' = TRUE /\ reading' = reading
          /\ kept' = [p \in Ports |-> IF kept[p] = "wired" THEN "closed" ELSE kept[p]]
          /\ UNCHANGED <<pipes, nextTag, unwritten, timer, down, parentGot, terminated,
                         stopped, childVars>>
        BY <1>2 DEF OnExit, ReadsAfterExit
    <2>2. kept' \in [Ports -> {"local", "wired", "closed"}]
        BY <2>1 DEF TypeOK, ParentTypes
    <2>3. PipeTypes' /\ ParentTypes'
        BY <2>1, <2>2 DEF TypeOK, PipeTypes, ParentTypes, pipes, childVars
    <2>4. ChildTypes' /\ HistTypes'
        BY <2>1 DEF TypeOK, ChildTypes, HistTypes, childVars
    <2>. QED
        BY <2>3, <2>4 DEF TypeOK
<1>. QED
    BY <1>1, <1>2

LEMMA TypeParentReads ==
    ASSUME TypeOK, ParentReads \/ ParentThrows
    PROVE  TypeOK'
<1>. DEFINE line == Head(stdout)
<1>1. /\ stdout # <<>> /\ ParentRuns /\ stdout' = Tail(stdout)
      /\ reading' \in BOOLEAN /\ stopped' \in BOOLEAN
      /\ UNCHANGED <<fds, nextTag, exited, timer, down, terminated, childVars>>
      /\ parentGot' \in {parentGot, [parentGot EXCEPT ![line.on] = line.n]}
    BY DEF ParentReads, ParentThrows, Told
<1>2. line \in UpLines /\ stdout' \in Seq(UpLines)
    BY <1>1, QueueFacts DEF TypeOK, PipeTypes
<1>. HIDE DEF line
<1>3. parentGot' \in [Conns -> Nat]
    BY <1>1, <1>2, LineFacts DEF TypeOK, HistTypes
<1>4. /\ kept' \in [Ports -> {"local", "wired", "closed"}]
      /\ stdin' \in Seq(DownLines) /\ unwritten' \in Seq(DownLines)
      /\ Len(unwritten') <= 1
    <2>1. CASE UNCHANGED <<kept, stdin, unwritten>>
        BY <2>1 DEF TypeOK, PipeTypes, ParentTypes
    <2>2. CASE ~UNCHANGED <<kept, stdin, unwritten>>
        <3>1. /\ line.t = "close" /\ kept' = [kept EXCEPT ![line.on] = "closed"]
              /\ Write(Line("close", line.on, 0, <<>>, 0))
            BY <2>2 DEF ParentReads, ParentThrows, line
        <3>2. line.on \in Ports
            BY <1>2, <3>1, LineFacts DEF Shape
        <3>3. Line("close", line.on, 0, <<>>, 0) \in DownLines
            BY <3>2, LineTypes
        <3>. QED
            BY <1>1, <3>1, <3>2, <3>3, WriteTypes DEF TypeOK, ParentTypes
    <2>. QED
        BY <2>1, <2>2
<1>5. PipeTypes'
    BY <1>1, <1>2, <1>4 DEF TypeOK, PipeTypes, childVars
<1>6. ParentTypes' /\ ChildTypes' /\ HistTypes'
    BY <1>1, <1>3, <1>4 DEF TypeOK, ParentTypes, ChildTypes, HistTypes, childVars
<1>. QED
    BY <1>5, <1>6 DEF TypeOK

LEMMA DrainTypes ==
    ASSUME TypeOK, NEW line \in DownLines, Drains(line)
    PROVE  fds' \in Seq(Nat) /\ Need(line) \in Nat /\ Taken(line) \in Seq(Nat)
<1>1. fds \in Seq(Nat) /\ Len(fds) \in Nat
    BY DEF TypeOK, PipeTypes
<1>2. line.tags \in Seq(Nat)
    BY LineFacts
<1>3. Need(line) \in Nat /\ Len(fds) >= Need(line)
    BY <1>2 DEF Drains, Need
<1>4. /\ \A i \in Need(line) + 1 .. Len(fds) : fds[i] \in Nat
      /\ \A i \in 1 .. Need(line) : fds[i] \in Nat
    BY <1>1, <1>3
<1>5. SubSeq(fds, Need(line) + 1, Len(fds)) \in Seq(Nat)
    BY <1>1, <1>3, <1>4, SubSeqProperties
<1>6. SubSeq(fds, 1, Need(line)) \in Seq(Nat)
    BY <1>1, <1>3, <1>4, SubSeqProperties
<1>. QED
    BY <1>3, <1>5, <1>6 DEF Drains, Taken

LEMMA ReadTypes ==
    ASSUME TypeOK, NEW kinds, Reads(kinds)
    PROVE  /\ Head(stdin) \in DownLines /\ Tail(stdin) \in Seq(DownLines)
           /\ childUnwritten = <<>> /\ stdin # <<>> /\ phase # "gone"
BY QueueFacts DEF Reads, ChildRuns, TypeOK, PipeTypes

LEMMA RebuiltType ==
    ASSUME TypeOK, NEW line
    PROVE  Rebuilt(line) \in [Conns -> {"none", "open", "heard", "closed"}]
BY DEF TypeOK, ChildTypes, Rebuilt

LEMMA GotType ==
    ASSUME TypeOK, NEW line \in DownLines
    PROVE  [childGot EXCEPT ![line.on] = line.n] \in [Conns -> Nat]
BY LineFacts DEF TypeOK, HistTypes

LEMMA TypeBoot ==
    ASSUME TypeOK, Boot
    PROVE  TypeOK'
<1>. DEFINE line == Head(stdin)
<1>1. /\ Reads({"init"}) /\ Drains(line) /\ Send(Plain("online"))
      /\ phase' = "code" /\ stdin' = Tail(stdin)
      /\ UNCHANGED <<parentVars, childReading, held, conn, up, odd, childGot>>
    BY DEF Boot
<1>2. line \in DownLines /\ stdin' \in Seq(DownLines) /\ childUnwritten = <<>>
    BY <1>1, ReadTypes
<1>3. fds' \in Seq(Nat)
    BY <1>1, <1>2, DrainTypes
<1>4. /\ stdout' \in Seq(UpLines) /\ childUnwritten' \in Seq(UpLines)
      /\ Len(childUnwritten') <= 1
    BY <1>1, <1>2, LineTypes, SendTypes DEF TypeOK
<1>5. PipeTypes'
    BY <1>1, <1>2, <1>3, <1>4 DEF TypeOK, PipeTypes, parentVars
<1>6. ParentTypes' /\ ChildTypes' /\ HistTypes'
    BY <1>1 DEF TypeOK, ParentTypes, ChildTypes, HistTypes, parentVars
<1>. QED
    BY <1>5, <1>6 DEF TypeOK

LEMMA TypeDeliver ==
    ASSUME TypeOK, Deliver
    PROVE  TypeOK'
<1>. DEFINE line == Head(stdin)
<1>1. /\ Reads({"message"}) /\ Drains(line) /\ stdin' = Tail(stdin)
      /\ held' = (held \cup ToSet(Taken(line))) \ ToSet(line.tags)
      /\ conn' = Rebuilt(line)
      /\ childGot' \in {childGot, [childGot EXCEPT ![0] = line.n]}
      /\ UNCHANGED <<stdout, parentVars, phase, childReading, childUnwritten, up, odd>>
    BY DEF Deliver
<1>2. line \in DownLines /\ stdin' \in Seq(DownLines)
    BY <1>1, ReadTypes
<1>. HIDE DEF line
<1>3. fds' \in Seq(Nat) /\ Taken(line) \in Seq(Nat)
    BY <1>1, <1>2, DrainTypes
<1>4. held' \in SUBSET Nat
    <2>1. ToSet(Taken(line)) \in SUBSET Nat
        BY <1>3 DEF ToSet
    <2>. QED
        BY <1>1, <2>1 DEF TypeOK, ChildTypes
<1>5. childGot' \in [Conns -> Nat]
    BY <1>1, <1>2, LineFacts DEF TypeOK, HistTypes
<1>6. PipeTypes'
    BY <1>1, <1>2, <1>3 DEF TypeOK, PipeTypes, parentVars
<1>7. ParentTypes' /\ ChildTypes' /\ HistTypes'
    BY <1>1, <1>4, <1>5, RebuiltType DEF TypeOK, ParentTypes, ChildTypes, HistTypes, parentVars
<1>. QED
    BY <1>6, <1>7 DEF TypeOK

LEMMA TypeFail ==
    ASSUME TypeOK, Fail
    PROVE  TypeOK'
<1>. DEFINE line == Head(stdin)
            conns == IF Materialises(line) THEN Rebuilt(line) ELSE conn
<1>1. /\ Reads({"message"}) /\ Drains(line)
      /\ childGot' \in {childGot, [childGot EXCEPT ![0] = line.n]}
      /\ SendAndQuit(Plain("error"), FALSE, Tail(stdin), conns)
      /\ UNCHANGED <<parentVars, up, odd>>
    BY DEF Fail
<1>2. line \in DownLines /\ Tail(stdin) \in Seq(DownLines) /\ childUnwritten = <<>>
    BY <1>1, ReadTypes
<1>3. conns \in [Conns -> {"none", "open", "heard", "closed"}]
    BY RebuiltType DEF TypeOK, ChildTypes
<1>. HIDE DEF line, conns
<1>4. fds' \in Seq(Nat)
    BY <1>1, <1>2, DrainTypes
<1>5. childGot' \in [Conns -> Nat]
    BY <1>1, <1>2, LineFacts DEF TypeOK, HistTypes
<1>6. /\ stdin' \in Seq(DownLines) /\ stdout' \in Seq(UpLines)
      /\ childUnwritten' \in Seq(UpLines) /\ Len(childUnwritten') <= 1 /\ ChildTypes'
    BY <1>1, <1>2, <1>3, LineTypes, QuitTypes
<1>7. PipeTypes'
    BY <1>1, <1>4, <1>6 DEF TypeOK, PipeTypes, parentVars
<1>8. ParentTypes' /\ HistTypes'
    BY <1>1, <1>5 DEF TypeOK, ParentTypes, HistTypes, parentVars
<1>. QED
    BY <1>6, <1>7, <1>8 DEF TypeOK

LEMMA TypeQuit ==
    ASSUME TypeOK, TakeTerminate \/ ChildClose
    PROVE  TypeOK'
<1>1. PICK reads \in BOOLEAN, rest \in Seq(DownLines) :
         SendAndQuit(Plain("exit"), reads, rest, conn)
    <2>1. CASE TakeTerminate
        BY <2>1, ReadTypes DEF TakeTerminate
    <2>2. CASE ChildClose
        BY <2>2 DEF ChildClose, TypeOK, ChildTypes, PipeTypes
    <2>. QED
        BY <2>1, <2>2
<1>2. /\ childUnwritten = <<>> /\ UNCHANGED <<fds, parentVars, up, childGot>>
      /\ odd' \in {odd, odd + 1}
    BY DEF TakeTerminate, ChildClose, Reads, UserRuns, ChildRuns
<1>3. /\ stdin' \in Seq(DownLines) /\ stdout' \in Seq(UpLines)
      /\ childUnwritten' \in Seq(UpLines) /\ Len(childUnwritten') <= 1 /\ ChildTypes'
    BY <1>1, <1>2, LineTypes, QuitTypes DEF TypeOK, ChildTypes
<1>4. PipeTypes'
    BY <1>2, <1>3 DEF TypeOK, PipeTypes, parentVars
<1>5. ParentTypes' /\ HistTypes'
    BY <1>2 DEF TypeOK, ParentTypes, HistTypes, parentVars
<1>. QED
    BY <1>3, <1>4, <1>5 DEF TypeOK

LEMMA TypePortLine ==
    ASSUME TypeOK, PortLine
    PROVE  TypeOK'
<1>. DEFINE line == Head(stdin)
<1>1. /\ Reads({"send", "close"}) /\ stdin' = Tail(stdin)
      /\ childGot' \in {childGot, [childGot EXCEPT ![line.on] = line.n]}
      /\ conn' \in {conn, [conn EXCEPT ![line.on] = "closed"]}
      /\ UNCHANGED <<stdout, fds, parentVars, phase, childReading, held, childUnwritten,
                     up, odd>>
    BY DEF PortLine
<1>2. line \in DownLines /\ stdin' \in Seq(DownLines)
    BY <1>1, ReadTypes
<1>. HIDE DEF line
<1>3. childGot' \in [Conns -> Nat]
    BY <1>1, <1>2, GotType DEF TypeOK, HistTypes
<1>4. PipeTypes'
    BY <1>1, <1>2 DEF TypeOK, PipeTypes, parentVars
<1>5. ParentTypes' /\ ChildTypes' /\ HistTypes'
    BY <1>1, <1>3 DEF TypeOK, ParentTypes, ChildTypes, HistTypes, parentVars
<1>. QED
    BY <1>4, <1>5 DEF TypeOK

LEMMA TypeSendEnds ==
    ASSUME TypeOK, SendEnds
    PROVE  TypeOK'
<1>1. /\ stdout' = stdout \o childUnwritten
      /\ UNCHANGED <<fds, parentVars, up, odd, childGot>>
      /\ \/ ChildGone
         \/ childUnwritten' = <<>> /\ UNCHANGED <<stdin, phase, childReading, held, conn>>
    BY DEF SendEnds
<1>2. stdout' \in Seq(UpLines)
    BY <1>1, QueueFacts DEF TypeOK, PipeTypes
<1>3. /\ stdin' \in Seq(DownLines) /\ childUnwritten' \in Seq(UpLines)
      /\ Len(childUnwritten') <= 1 /\ ChildTypes'
    BY <1>1, GoneTypes, OneOrNone DEF TypeOK, PipeTypes, ChildTypes
<1>4. PipeTypes'
    BY <1>1, <1>2, <1>3 DEF TypeOK, PipeTypes, parentVars
<1>5. ParentTypes' /\ HistTypes'
    BY <1>1 DEF TypeOK, ParentTypes, HistTypes, parentVars
<1>. QED
    BY <1>3, <1>4, <1>5 DEF TypeOK

(* The child sends line, or nothing.                                        *)
LEMMA TypeSays ==
    ASSUME TypeOK, childUnwritten = <<>>, UNCHANGED <<stdin, fds, parentVars, childGot>>,
           \/ UNCHANGED <<stdout, childUnwritten>>
           \/ \E line \in UpLines : Send(line),
           ChildTypes', up' \in [Conns -> Nat], odd' \in Nat
    PROVE  TypeOK'
<1>1. /\ stdout' \in Seq(UpLines) /\ childUnwritten' \in Seq(UpLines)
      /\ Len(childUnwritten') <= 1
    <2>1. CASE UNCHANGED <<stdout, childUnwritten>>
        BY <2>1 DEF TypeOK, PipeTypes
    <2>2. CASE \E line \in UpLines : Send(line)
        BY <2>2, SendTypes DEF TypeOK
    <2>. QED
        BY <2>1, <2>2
<1>2. PipeTypes'
    BY <1>1 DEF TypeOK, PipeTypes, parentVars
<1>3. ParentTypes' /\ HistTypes'
    BY DEF TypeOK, ParentTypes, HistTypes, parentVars
<1>. QED
    BY <1>2, <1>3 DEF TypeOK

LEMMA TypeCode ==
    ASSUME TypeOK, \/ \E c \in Conns : Listen(c) \/ ChildPost(c)
                   \/ \E p \in Ports : ChildPortClose(p)
                   \/ EndCode \/ ChildPrints
    PROVE  TypeOK'
<1>1. CASE \E c \in Conns : Listen(c)
    <2>1. PICK c \in Conns : Listen(c)
        BY <1>1
    <2>2. /\ conn' = [conn EXCEPT ![c] = "heard"] /\ childUnwritten = <<>>
          /\ UNCHANGED <<pipes, parentVars, phase, childReading, held, childUnwritten, up,
                         odd, childGot>>
        BY <2>1 DEF Listen, UserRuns, ChildRuns
    <2>3. ChildTypes'
        BY <2>2 DEF TypeOK, ChildTypes
    <2>. QED
        BY <2>2, <2>3, TypeSays DEF pipes, TypeOK, HistTypes
<1>2. CASE \E c \in Conns : ChildPost(c)
    <2>1. PICK c \in Conns : ChildPost(c)
        BY <1>2
    <2>2. /\ up' = [up EXCEPT ![c] = @ + 1] /\ childUnwritten = <<>>
          /\ Send(Line(IF c = 0 THEN "message" ELSE "send", c, up'[c], <<>>, 0))
          /\ UNCHANGED <<stdin, fds, parentVars, phase, childReading, held, conn, odd,
                         childGot>>
        BY <2>1 DEF ChildPost, UserRuns, ChildRuns
    <2>3. up' \in [Conns -> Nat] /\ up'[c] \in Nat
        BY <2>2 DEF TypeOK, HistTypes
    <2>4. Line(IF c = 0 THEN "message" ELSE "send", c, up'[c], <<>>, 0) \in UpLines
        <3>1. CASE c = 0
            BY <2>3, <3>1, LineTypes
        <3>2. CASE c # 0
            BY <2>3, <3>2, LineTypes DEF Conns
        <3>. QED
            BY <3>1, <3>2
    <2>5. ChildTypes' /\ odd' \in Nat
        BY <2>2 DEF TypeOK, ChildTypes, HistTypes
    <2>. QED
        BY <2>2, <2>3, <2>4, <2>5, TypeSays
<1>3. CASE \E p \in Ports : ChildPortClose(p)
    <2>1. PICK p \in Ports : ChildPortClose(p)
        BY <1>3
    <2>2. /\ conn' = [conn EXCEPT ![p] = "closed"] /\ childUnwritten = <<>>
          /\ Send(Line("close", p, 0, <<>>, 0))
          /\ UNCHANGED <<stdin, fds, parentVars, phase, childReading, held, up, odd,
                         childGot>>
        BY <2>1 DEF ChildPortClose, UserRuns, ChildRuns
    <2>3. ChildTypes' /\ up' \in [Conns -> Nat] /\ odd' \in Nat
        BY <2>2 DEF TypeOK, ChildTypes, HistTypes
    <2>4. Line("close", p, 0, <<>>, 0) \in UpLines
        BY LineTypes
    <2>. QED
        BY <2>2, <2>3, <2>4, TypeSays
<1>4. CASE EndCode
    <2>1. /\ phase' = "loop" /\ childUnwritten = <<>>
          /\ Send(Plain("thrown")) \/ UNCHANGED <<stdout, childUnwritten>>
          /\ UNCHANGED <<stdin, fds, parentVars, childReading, held, conn, up, odd, childGot>>
        BY <1>4 DEF EndCode, ChildRuns
    <2>2. ChildTypes' /\ up' \in [Conns -> Nat] /\ odd' \in Nat
        BY <2>1 DEF TypeOK, ChildTypes, HistTypes
    <2>3. Plain("thrown") \in UpLines
        BY LineTypes
    <2>. QED
        BY <2>1, <2>2, <2>3, TypeSays
<1>5. CASE ChildPrints
    <2>1. /\ odd' = odd + 1 /\ childUnwritten = <<>> /\ Send(Plain("text"))
          /\ UNCHANGED <<stdin, fds, parentVars, phase, childReading, held, conn, up,
                         childGot>>
        BY <1>5 DEF ChildPrints, UserRuns, ChildRuns
    <2>2. ChildTypes' /\ up' \in [Conns -> Nat] /\ odd' \in Nat
        BY <2>1 DEF TypeOK, ChildTypes, HistTypes
    <2>3. Plain("text") \in UpLines
        BY LineTypes
    <2>. QED
        BY <2>1, <2>2, <2>3, TypeSays
<1>. QED
    BY <1>1, <1>2, <1>3, <1>4, <1>5

LEMMA TypeDie ==
    ASSUME TypeOK, Die
    PROVE  TypeOK'
<1>1. ChildGone /\ UNCHANGED <<stdout, fds, parentVars, up, odd, childGot>>
    BY DEF Die
<1>2. /\ stdin' \in Seq(DownLines) /\ childUnwritten' \in Seq(UpLines)
      /\ Len(childUnwritten') <= 1 /\ ChildTypes'
    BY <1>1, GoneTypes
<1>. QED
    BY <1>1, <1>2 DEF TypeOK, PipeTypes, ParentTypes, HistTypes, parentVars

LEMMA TypeStep == TypeOK /\ [Next]_vars => TypeOK'
<1>. SUFFICES ASSUME TypeOK, [Next]_vars PROVE TypeOK'
    OBVIOUS
<1>1. CASE Parent
    BY <1>1, TypePost, TypeKept, TypeTerminate, TypeWriteEnds, TypeExit, TypeParentReads
       DEF Parent
<1>2. CASE Child
    BY <1>2, TypeBoot, TypeDeliver, TypeFail, TypeQuit, TypePortLine, TypeSendEnds,
       TypeCode, TypeDie DEF Child
<1>3. CASE UNCHANGED vars
    BY <1>3 DEF vars, pipes, parentVars, childVars, TypeOK, PipeTypes, ParentTypes,
                ChildTypes, HistTypes
<1>. QED
    BY <1>1, <1>2, <1>3 DEF Next

(* Every reachable state of Worker is well typed, for all ports, values,    *)
(* bounds and sizes of the pipes.                                           *)
THEOREM TypeCorrect == Spec => []TypeOK
<1>. QED
    BY TypeInit, TypeStep, PTL DEF Spec

-----------------------------------------------------------------------------
(* The lines that the child will read, as the steps change them, and those  *)
(* that the parent will.                                                    *)
Out == stdout \o childUnwritten

LEMMA CatFacts ==
    ASSUME NEW X
    PROVE  /\ \A s \in Seq(X) : s \o <<>> = s
           /\ \A s \in Seq(X), x \in X : s \o <<x>> = Append(s, x)
           /\ \A s, t \in Seq(X) : s # <<>> =>
                 /\ s \o t # <<>> /\ s \o t \in Seq(X) /\ Head(s \o t) = Head(s)
                 /\ Tail(s \o t) = Tail(s) \o t
           /\ \A s, t \in Seq(X) :
                 /\ SubSeq(s \o t, 1, Len(s)) = s /\ Len(s) <= Len(s \o t)
                 /\ SubSeq(s \o t, Len(s) + 1, Len(s \o t)) = t
<1>1. \A s \in Seq(X) : s \o <<>> = s
    OBVIOUS
<1>2. \A s \in Seq(X), x \in X : s \o <<x>> = Append(s, x)
    OBVIOUS
<1>3. ASSUME NEW s \in Seq(X), NEW t \in Seq(X), s # <<>>
      PROVE  /\ s \o t # <<>> /\ s \o t \in Seq(X) /\ Head(s \o t) = Head(s)
             /\ Tail(s \o t) = Tail(s) \o t
    BY <1>3, CatHead
<1>4. ASSUME NEW s \in Seq(X), NEW t \in Seq(X)
      PROVE  /\ SubSeq(s \o t, 1, Len(s)) = s /\ Len(s) <= Len(s \o t)
             /\ SubSeq(s \o t, Len(s) + 1, Len(s \o t)) = t
    <2>. DEFINE q == s \o t  m == Len(s)  n == Len(t)
    <2>1. /\ q \in Seq(X) /\ Len(q) = m + n
          /\ \A i \in 1..(m + n) : q[i] = IF i <= m THEN s[i] ELSE t[i - m]
          /\ m \in Nat /\ n \in Nat
        BY ConcatProperties
    <2>2. s = [i \in 1..m |-> s[i]] /\ t = [i \in 1..n |-> t[i]]
        OBVIOUS
    <2>3. SubSeq(q, 1, m) = [i \in 1..m |-> q[i]]
        BY <2>1
    <2>4. SubSeq(q, m + 1, m + n) = [i \in 1..n |-> q[i + m]]
        BY <2>1
    <2>. HIDE DEF q, m, n
    <2>5. \A i \in 1..m : q[i] = s[i]
        BY <2>1
    <2>6. \A i \in 1..n : q[i + m] = t[i]
        BY <2>1
    <2>7. SubSeq(q, 1, m) = s
        BY <2>2, <2>3, <2>5
    <2>8. SubSeq(q, m + 1, m + n) = t
        BY <2>2, <2>4, <2>6
    <2>. QED
        BY <2>1, <2>7, <2>8 DEF q, m, n
<1>. QED
    BY <1>1, <1>2, <1>3, <1>4

LEMMA AheadType ==
    ASSUME TypeOK
    PROVE  Ahead \in Seq(DownLines) /\ Out \in Seq(UpLines)
BY QueueFacts DEF TypeOK, PipeTypes, Ahead, Out

LEMMA AheadWrite ==
    ASSUME TypeOK, ParentRuns, NEW line \in DownLines, Write(line), phase # "gone",
           UNCHANGED phase
    PROVE  Ahead' = Append(Ahead, line)
<1>1. stdin \in Seq(DownLines) /\ unwritten = <<>>
    BY DEF TypeOK, PipeTypes, ParentRuns
<1>2. Ahead = stdin
    BY <1>1, CatFacts DEF Ahead
<1>3. Ahead' = stdin' \o unwritten'
    BY DEF Ahead
<1>4. CASE stdin' = Append(stdin, line) /\ unwritten' = unwritten
    <2>1. Append(stdin, line) \in Seq(DownLines)
        BY <1>1, QueueFacts
    <2>. QED
        BY <1>1, <1>2, <1>3, <1>4, <2>1, CatFacts
<1>5. CASE unwritten' = <<line>> /\ stdin' = stdin
    BY <1>1, <1>2, <1>3, <1>5, CatFacts
<1>. QED
    BY <1>4, <1>5 DEF Write

LEMMA AheadRead ==
    ASSUME TypeOK, stdin # <<>>, phase # "gone", phase' # "gone", stdin' = Tail(stdin),
           UNCHANGED unwritten
    PROVE  Ahead # <<>> /\ Head(Ahead) = Head(stdin) /\ Ahead' = Tail(Ahead)
<1>1. stdin \in Seq(DownLines) /\ unwritten \in Seq(DownLines)
    BY DEF TypeOK, PipeTypes
<1>2. Ahead = stdin \o unwritten /\ Ahead' = Tail(stdin) \o unwritten
    BY DEF Ahead
<1>3. /\ stdin \o unwritten # <<>> /\ Head(stdin \o unwritten) = Head(stdin)
      /\ Tail(stdin \o unwritten) = Tail(stdin) \o unwritten
    BY <1>1, CatHead
<1>. QED
    BY <1>2, <1>3, Zenon

LEMMA AheadSame ==
    ASSUME TypeOK, phase # "gone", phase' # "gone",
           UNCHANGED <<stdin, unwritten>> \/ WriteEnds
    PROVE  Ahead' = Ahead
<1>1. Ahead = stdin \o unwritten /\ Ahead' = stdin' \o unwritten'
    BY DEF Ahead
<1>2. CASE UNCHANGED <<stdin, unwritten>>
    BY <1>1, <1>2
<1>3. CASE WriteEnds
    <2>1. stdin' = stdin \o unwritten /\ unwritten' = <<>>
        BY <1>3 DEF WriteEnds
    <2>2. stdin \o unwritten \in Seq(DownLines)
        BY QueueFacts DEF TypeOK, PipeTypes
    <2>. QED
        BY <1>1, <2>1, <2>2, CatFacts
<1>. QED
    BY <1>2, <1>3

LEMMA OutSend ==
    ASSUME TypeOK, childUnwritten = <<>>, NEW line \in UpLines, Send(line)
    PROVE  Out' = Append(Out, line)
<1>1. stdout \in Seq(UpLines)
    BY DEF TypeOK, PipeTypes
<1>2. Out = stdout
    BY <1>1, CatFacts DEF Out
<1>3. Out' = stdout' \o childUnwritten'
    BY DEF Out
<1>4. CASE stdout' = Append(stdout, line) /\ childUnwritten' = childUnwritten
    <2>1. Append(stdout, line) \in Seq(UpLines)
        BY <1>1, QueueFacts
    <2>. QED
        BY <1>1, <1>2, <1>3, <1>4, <2>1, CatFacts
<1>5. CASE childUnwritten' = <<line>> /\ stdout' = stdout
    BY <1>1, <1>2, <1>3, <1>5, CatFacts
<1>. QED
    BY <1>4, <1>5 DEF Send

LEMMA OutRead ==
    ASSUME TypeOK, stdout # <<>>, stdout' = Tail(stdout), UNCHANGED childUnwritten
    PROVE  Out # <<>> /\ Head(Out) = Head(stdout) /\ Out' = Tail(Out)
<1>1. stdout \in Seq(UpLines) /\ childUnwritten \in Seq(UpLines)
    BY DEF TypeOK, PipeTypes
<1>2. Out = stdout \o childUnwritten /\ Out' = Tail(stdout) \o childUnwritten
    BY DEF Out
<1>3. /\ stdout \o childUnwritten # <<>> /\ Head(stdout \o childUnwritten) = Head(stdout)
      /\ Tail(stdout \o childUnwritten) = Tail(stdout) \o childUnwritten
    BY <1>1, CatHead
<1>. QED
    BY <1>2, <1>3, Zenon

LEMMA OutEnds ==
    ASSUME TypeOK, stdout' = stdout \o childUnwritten, childUnwritten' = <<>>
    PROVE  Out' = Out
<1>1. stdout \o childUnwritten \in Seq(UpLines)
    BY QueueFacts DEF TypeOK, PipeTypes
<1>2. Out = stdout \o childUnwritten /\ Out' = (stdout \o childUnwritten) \o <<>>
    BY DEF Out
<1>. QED
    BY <1>1, <1>2, CatFacts

-----------------------------------------------------------------------------
(* The descriptors.  A line on its way to the child has its tags once each, *)
(* and the side channel has those of all the lines: postMessage makes them  *)
(* so of the values that it can send with one placeholder for each buffer.  *)
Matching == Values \cap {"twice", "unwritable"} = {}
TagsOf(a) == [i \in DOMAIN a |-> a[i].tags]
Fed(a, f) ==
    /\ FlattenSeq(TagsOf(a)) = f
    /\ \A i \in 1..Len(a) : Distinct(a[i].tags)

LEMMA TagsTypes ==
    ASSUME NEW a \in Seq(DownLines)
    PROVE  /\ TagsOf(a) \in Seq(Seq(Nat)) /\ Len(a) \in Nat
           /\ \A l \in DownLines : TagsOf(Append(a, l)) = Append(TagsOf(a), l.tags)
           /\ a # <<>> => /\ TagsOf(a) # <<>> /\ Head(TagsOf(a)) = Head(a).tags
                         /\ Tail(TagsOf(a)) = TagsOf(Tail(a))
<1>1. \A l \in DownLines : l.tags \in Seq(Nat)
    BY LineFacts
<1>2. /\ Len(a) \in Nat /\ DOMAIN a = 1..Len(a) /\ \A i \in 1..Len(a) : a[i] \in DownLines
    OBVIOUS
<1>3. TagsOf(a) = [i \in 1..Len(a) |-> a[i].tags]
    BY <1>2 DEF TagsOf
<1>4. TagsOf(a) \in Seq(Seq(Nat)) /\ Len(TagsOf(a)) = Len(a)
      /\ \A i \in 1..Len(a) : TagsOf(a)[i] = a[i].tags
    BY <1>1, <1>2, <1>3
<1>5. ASSUME NEW l \in DownLines
      PROVE  TagsOf(Append(a, l)) = Append(TagsOf(a), l.tags)
    <2>. DEFINE b == Append(a, l)
    <2>1. /\ Len(b) = Len(a) + 1 /\ DOMAIN b = 1..(Len(a) + 1)
          /\ \A i \in 1..(Len(a) + 1) : b[i] = IF i = Len(a) + 1 THEN l ELSE a[i]
        BY <1>2
    <2>. HIDE DEF b
    <2>2. TagsOf(b) = [i \in 1..(Len(a) + 1) |-> b[i].tags]
        BY <2>1 DEF TagsOf
    <2>3. \A i \in 1..(Len(a) + 1) : b[i].tags \in Seq(Nat)
        BY <1>1, <1>2, <2>1
    <2>4. /\ TagsOf(b) \in Seq(Seq(Nat)) /\ Len(TagsOf(b)) = Len(a) + 1
          /\ \A i \in 1..(Len(a) + 1) : TagsOf(b)[i] = b[i].tags
        BY <1>2, <2>2, <2>3
    <2>. DEFINE T == TagsOf(a)  e == l.tags
    <2>5. T \in Seq(Seq(Nat)) /\ Len(T) = Len(a) /\ e \in Seq(Nat)
          /\ \A i \in 1..Len(a) : T[i] = a[i].tags
        BY <1>1, <1>4
    <2>. HIDE DEF T
    <2>6. /\ Append(T, e) \in Seq(Seq(Nat)) /\ Len(Append(T, e)) = Len(a) + 1
          /\ \A i \in 1..(Len(a) + 1) :
                Append(T, e)[i] = IF i = Len(a) + 1 THEN e ELSE T[i]
        BY <1>2, <2>5
    <2>7. ASSUME NEW i \in 1..(Len(a) + 1) PROVE TagsOf(b)[i] = Append(T, e)[i]
        <3>1. TagsOf(b)[i] = b[i].tags
            BY <2>4
        <3>2. CASE i = Len(a) + 1
            <4>1. b[i] = l /\ Append(T, e)[i] = e
                BY <2>1, <2>6, <3>2
            <4>. QED
                BY <3>1, <4>1
        <3>3. CASE i # Len(a) + 1
            <4>1. i \in 1..Len(a) /\ b[i] = a[i] /\ Append(T, e)[i] = T[i]
                BY <1>2, <2>1, <2>6, <3>3
            <4>. QED
                BY <2>5, <3>1, <4>1
        <3>. QED
            BY <3>2, <3>3
    <2>8. TagsOf(b) = Append(T, e)
        BY <2>4, <2>6, <2>7, SeqEqual
    <2>. QED
        BY <2>8 DEF b, T
<1>6. ASSUME a # <<>>
      PROVE  /\ TagsOf(a) # <<>> /\ Head(TagsOf(a)) = Head(a).tags
             /\ Tail(TagsOf(a)) = TagsOf(Tail(a))
    <2>. DEFINE b == Tail(a)  T == TagsOf(a)
    <2>1. /\ Len(a) # 0 /\ Len(b) = Len(a) - 1 /\ DOMAIN b = 1..(Len(a) - 1)
          /\ \A i \in 1..(Len(a) - 1) : b[i] = a[i + 1] /\ i + 1 \in 1..Len(a)
        BY <1>2, <1>6
    <2>2. /\ T \in Seq(Seq(Nat)) /\ Len(T) = Len(a)
          /\ \A i \in 1..Len(a) : T[i] = a[i].tags
        BY <1>4
    <2>. HIDE DEF b, T
    <2>3. TagsOf(b) = [i \in 1..(Len(a) - 1) |-> b[i].tags]
        BY <2>1 DEF TagsOf
    <2>4. \A i \in 1..(Len(a) - 1) : b[i].tags \in Seq(Nat)
        BY <1>1, <1>2, <2>1
    <2>5. /\ TagsOf(b) \in Seq(Seq(Nat)) /\ Len(TagsOf(b)) = Len(a) - 1
          /\ \A i \in 1..(Len(a) - 1) : TagsOf(b)[i] = b[i].tags
        BY <1>2, <2>1, <2>3, <2>4
    <2>6. T # <<>> /\ Head(T) = T[1] /\ Tail(T) \in Seq(Seq(Nat))
          /\ Len(Tail(T)) = Len(a) - 1
          /\ \A i \in 1..(Len(a) - 1) : Tail(T)[i] = T[i + 1]
        BY <1>2, <2>1, <2>2
    <2>7. \A i \in 1..(Len(a) - 1) : Tail(T)[i] = TagsOf(b)[i]
        BY <2>1, <2>2, <2>5, <2>6
    <2>8. Tail(T) = TagsOf(b)
        BY <2>5, <2>6, <2>7, SeqEqual
    <2>9. Head(T) = Head(a).tags
        <3>1. Head(a) = a[1] /\ 1 \in 1..Len(a)
            BY <1>2, <1>6
        <3>. QED
            BY <2>2, <2>6, <3>1
    <2>. QED
        BY <2>6, <2>8, <2>9 DEF b, T
<1>. QED
    BY <1>2, <1>4, <1>5, <1>6

LEMMA FedAppend ==
    ASSUME NEW a \in Seq(DownLines), NEW l \in DownLines, NEW f, Fed(a, f), Distinct(l.tags)
    PROVE  Fed(Append(a, l), f \o l.tags)
<1>1. l.tags \in Seq(Nat)
    BY LineFacts
<1>2. FlattenSeq(TagsOf(Append(a, l))) = f \o l.tags
    BY <1>1, TagsTypes, FlattenAppend DEF Fed
<1>3. \A i \in 1..Len(Append(a, l)) : Append(a, l)[i] = l \/
          (i \in 1..Len(a) /\ Append(a, l)[i] = a[i])
    OBVIOUS
<1>4. \A i \in 1..Len(Append(a, l)) : Distinct(Append(a, l)[i].tags)
    BY <1>3 DEF Fed
<1>. QED
    BY <1>2, <1>4 DEF Fed

LEMMA FedTail ==
    ASSUME NEW a \in Seq(DownLines), NEW f, Fed(a, f), a # <<>>
    PROVE  /\ Distinct(Head(a).tags) /\ Len(Head(a).tags) <= Len(f)
           /\ SubSeq(f, 1, Len(Head(a).tags)) = Head(a).tags
           /\ Fed(Tail(a), SubSeq(f, Len(Head(a).tags) + 1, Len(f)))
           /\ Head(a).tags = <<>> => Fed(Tail(a), f)
<1>. DEFINE h == Head(a).tags  r == FlattenSeq(TagsOf(Tail(a)))
<1>1. Head(a) \in DownLines /\ Tail(a) \in Seq(DownLines) /\ h \in Seq(Nat)
    BY LineFacts, QueueFacts
<1>2. r \in Seq(Nat)
    BY <1>1, TagsTypes, FlattenType
<1>3. f = h \o r
    BY TagsTypes, FlattenHead DEF Fed
<1>4. /\ \A i \in 1..Len(Tail(a)) : i + 1 \in 1..Len(a) /\ Tail(a)[i] = a[i + 1]
      /\ 1 \in 1..Len(a) /\ Head(a) = a[1]
    OBVIOUS
<1>5. Distinct(h) /\ \A i \in 1..Len(Tail(a)) : Distinct(Tail(a)[i].tags)
    BY <1>4 DEF Fed
<1>6. Fed(Tail(a), r)
    BY <1>5 DEF Fed
<1>. HIDE DEF h, r
<1>7. Len(h) <= Len(f) /\ SubSeq(f, 1, Len(h)) = h /\ SubSeq(f, Len(h) + 1, Len(f)) = r
    BY <1>1, <1>2, <1>3, CatFacts
<1>8. h = <<>> => f = r
    BY <1>2, <1>3
<1>. QED
    BY <1>5, <1>6, <1>7, <1>8 DEF h

-----------------------------------------------------------------------------
(* The ports.  A message on its way brings a port that the child does not   *)
(* have, and only one message does; the parent sends to a port once it has  *)
(* given it away.                                                           *)
Brought(a, k, c) ==
    \A p \in Ports :
        /\ k[p] = "local" => c[p] = "none" /\ \A i \in 1..Len(a) : a[i].port # p
        /\ c[p] # "none" => \A i \in 1..Len(a) : a[i].port # p
        /\ \A i, j \in 1..Len(a) : a[i].port = p /\ a[j].port = p => i = j
        /\ k[p] = "wired" => c[p] # "none" \/ \E i \in 1..Len(a) : a[i].port = p
        /\ \A i \in 1..Len(a) :
              a[i].t \in {"send", "close"} /\ a[i].on = p =>
                  c[p] # "none" \/ \E j \in 1..(i - 1) : a[j].port = p

LEMMA BroughtAppend ==
    ASSUME NEW a \in Seq(DownLines), NEW l \in DownLines, NEW k, NEW m, NEW c,
           Brought(a, k, c),
           \A p \in Ports : m[p] = "local" => k[p] = "local" /\ l.port # p,
           \A p \in Ports : m[p] = "wired" => k[p] = "wired" \/ l.port = p,
           l.port \in Ports => k[l.port] = "local",
           l.t \in {"send", "close"} => k[l.on] = "wired"
    PROVE  Brought(Append(a, l), m, c)
<1>. DEFINE b == Append(a, l)  n == Len(a)
<1>1. /\ n \in Nat /\ Len(b) = n + 1 /\ b[n + 1] = l
      /\ \A i \in 1..n : b[i] = a[i] /\ i \in 1..(n + 1)
      /\ \A i \in 1..(n + 1) : i \in 1..n \/ i = n + 1
      /\ n + 1 \in 1..(n + 1) /\ (n + 1) - 1 = n
    OBVIOUS
<1>. HIDE DEF b, n
<1>. SUFFICES ASSUME NEW p \in Ports
              PROVE  /\ m[p] = "local" => c[p] = "none" /\ \A i \in 1..Len(b) : b[i].port # p
                     /\ c[p] # "none" => \A i \in 1..Len(b) : b[i].port # p
                     /\ \A i, j \in 1..Len(b) : b[i].port = p /\ b[j].port = p => i = j
                     /\ m[p] = "wired" => c[p] # "none" \/ \E i \in 1..Len(b) : b[i].port = p
                     /\ \A i \in 1..Len(b) :
                           b[i].t \in {"send", "close"} /\ b[i].on = p =>
                               c[p] # "none" \/ \E j \in 1..(i - 1) : b[j].port = p
    BY DEF Brought, b
<1>2. /\ k[p] = "local" => c[p] = "none" /\ \A i \in 1..n : a[i].port # p
      /\ c[p] # "none" => \A i \in 1..n : a[i].port # p
      /\ \A i, j \in 1..n : a[i].port = p /\ a[j].port = p => i = j
      /\ k[p] = "wired" => c[p] # "none" \/ \E i \in 1..n : a[i].port = p
      /\ \A i \in 1..n :
            a[i].t \in {"send", "close"} /\ a[i].on = p =>
                c[p] # "none" \/ \E j \in 1..(i - 1) : a[j].port = p
    BY DEF Brought, n
<1>3. \A i \in 1..Len(b) : b[i].port = p => \/ l.port = p
                                            \/ i \in 1..n /\ a[i].port = p
    BY <1>1
<1>4. l.port = p => k[p] = "local" /\ c[p] = "none" /\ \A i \in 1..n : a[i].port # p
    BY <1>2
<1>5. m[p] = "local" => c[p] = "none" /\ \A i \in 1..Len(b) : b[i].port # p
    BY <1>2, <1>3
<1>6. c[p] # "none" => \A i \in 1..Len(b) : b[i].port # p
    BY <1>2, <1>3, <1>4
<1>7. ASSUME NEW i \in 1..Len(b), NEW j \in 1..Len(b), b[i].port = p, b[j].port = p
      PROVE  i = j
    <2>1. CASE l.port = p
        <3>1. i = n + 1 /\ j = n + 1
            BY <1>1, <1>4, <1>7, <2>1
        <3>. QED
            BY <3>1
    <2>2. CASE l.port # p
        <3>1. i \in 1..n /\ j \in 1..n /\ a[i].port = p /\ a[j].port = p
            BY <1>1, <1>7, <2>2
        <3>. QED
            BY <1>2, <3>1
    <2>. QED
        BY <2>1, <2>2
<1>8. ASSUME m[p] = "wired"
      PROVE  c[p] # "none" \/ \E i \in 1..Len(b) : b[i].port = p
    <2>1. CASE l.port = p
        BY <1>1, <2>1
    <2>2. CASE k[p] = "wired" /\ c[p] = "none"
        <3>1. PICK i \in 1..n : a[i].port = p
            BY <1>2, <2>2
        <3>. QED
            BY <1>1, <3>1
    <2>. QED
        BY <1>8, <2>1, <2>2
<1>9. ASSUME NEW i \in 1..Len(b), b[i].t \in {"send", "close"}, b[i].on = p, c[p] = "none"
      PROVE  \E j \in 1..(i - 1) : b[j].port = p
    <2>1. CASE i \in 1..n
        <3>1. PICK j \in 1..(i - 1) : a[j].port = p
            BY <1>1, <1>2, <1>9, <2>1
        <3>2. j \in 1..n
            BY <1>1, <2>1
        <3>. QED
            BY <1>1, <3>1, <3>2
    <2>2. CASE i = n + 1
        <3>1. k[p] = "wired"
            BY <1>1, <1>9, <2>2
        <3>2. PICK j \in 1..n : a[j].port = p
            BY <1>2, <1>9, <3>1
        <3>. QED
            BY <1>1, <2>2, <3>2
    <2>. QED
        BY <1>1, <2>1, <2>2
<1>. QED
    BY <1>5, <1>6, <1>7, <1>8, <1>9

LEMMA BroughtTail ==
    ASSUME NEW a \in Seq(DownLines), a # <<>>, NEW k, NEW c, NEW d, Brought(a, k, c),
           \A p \in Ports : d[p] = "none" <=> c[p] = "none" /\ Head(a).port # p
    PROVE  Brought(Tail(a), k, d)
<1>. DEFINE b == Tail(a)  n == Len(a)
<1>1. /\ n \in Nat /\ n # 0 /\ Len(b) = n - 1 /\ Head(a) = a[1] /\ 1 \in 1..n
      /\ \A i \in 1..(n - 1) : b[i] = a[i + 1] /\ i + 1 \in 1..n /\ i + 1 # 1
      /\ \A i \in 1..n : i = 1 \/ (i - 1 \in 1..(n - 1) /\ b[i - 1] = a[i])
    OBVIOUS
<1>. HIDE DEF b, n
<1>. SUFFICES ASSUME NEW p \in Ports
              PROVE  /\ k[p] = "local" => d[p] = "none" /\ \A i \in 1..Len(b) : b[i].port # p
                     /\ d[p] # "none" => \A i \in 1..Len(b) : b[i].port # p
                     /\ \A i, j \in 1..Len(b) : b[i].port = p /\ b[j].port = p => i = j
                     /\ k[p] = "wired" => d[p] # "none" \/ \E i \in 1..Len(b) : b[i].port = p
                     /\ \A i \in 1..Len(b) :
                           b[i].t \in {"send", "close"} /\ b[i].on = p =>
                               d[p] # "none" \/ \E j \in 1..(i - 1) : b[j].port = p
    BY DEF Brought, b
<1>2. /\ k[p] = "local" => c[p] = "none" /\ \A i \in 1..n : a[i].port # p
      /\ c[p] # "none" => \A i \in 1..n : a[i].port # p
      /\ \A i, j \in 1..n : a[i].port = p /\ a[j].port = p => i = j
      /\ k[p] = "wired" => c[p] # "none" \/ \E i \in 1..n : a[i].port = p
      /\ \A i \in 1..n :
            a[i].t \in {"send", "close"} /\ a[i].on = p =>
                c[p] # "none" \/ \E j \in 1..(i - 1) : a[j].port = p
    BY DEF Brought, n
<1>3. k[p] = "local" => d[p] = "none" /\ \A i \in 1..Len(b) : b[i].port # p
    <2>. SUFFICES ASSUME k[p] = "local"
                  PROVE  d[p] = "none" /\ \A i \in 1..Len(b) : b[i].port # p
        OBVIOUS
    <2>1. c[p] = "none" /\ \A i \in 1..n : a[i].port # p
        BY <1>2
    <2>2. d[p] = "none"
        BY <1>1, <2>1
    <2>3. ASSUME NEW i \in 1..Len(b) PROVE b[i].port # p
        <3>1. b[i] = a[i + 1] /\ i + 1 \in 1..n
            BY <1>1
        <3>. QED
            BY <2>1, <3>1
    <2>. QED
        BY <2>2, <2>3
<1>4. ASSUME d[p] # "none", NEW i \in 1..Len(b), b[i].port = p
      PROVE  FALSE
    <2>1. i + 1 \in 1..n /\ a[i + 1].port = p /\ i + 1 # 1
        BY <1>1, <1>4
    <2>2. CASE c[p] # "none"
        BY <1>2, <2>1, <2>2
    <2>3. CASE a[1].port = p
        BY <1>1, <1>2, <2>1, <2>3
    <2>. QED
        BY <1>1, <1>4, <2>2, <2>3
<1>5. ASSUME NEW i \in 1..Len(b), NEW j \in 1..Len(b), b[i].port = p, b[j].port = p
      PROVE  i = j
    <2>1. i + 1 \in 1..n /\ j + 1 \in 1..n /\ a[i + 1].port = p /\ a[j + 1].port = p
        BY <1>1, <1>5
    <2>2. i + 1 = j + 1
        BY <1>2, <2>1
    <2>. QED
        BY <2>2
<1>6. ASSUME k[p] = "wired", d[p] = "none"
      PROVE  \E i \in 1..Len(b) : b[i].port = p
    <2>1. c[p] = "none" /\ a[1].port # p
        BY <1>1, <1>6
    <2>2. PICK i \in 1..n : a[i].port = p
        BY <1>2, <1>6, <2>1
    <2>3. i - 1 \in 1..(n - 1) /\ b[i - 1] = a[i]
        BY <1>1, <2>1, <2>2
    <2>. QED
        BY <1>1, <2>2, <2>3
<1>7. ASSUME NEW i \in 1..Len(b), b[i].t \in {"send", "close"}, b[i].on = p, d[p] = "none"
      PROVE  \E j \in 1..(i - 1) : b[j].port = p
    <2>1. c[p] = "none" /\ a[1].port # p
        BY <1>1, <1>7
    <2>2. i + 1 \in 1..n /\ b[i] = a[i + 1] /\ (i + 1) - 1 = i
        BY <1>1
    <2>3. PICK j \in 1..i : a[j].port = p
        BY <1>2, <1>7, <2>1, <2>2
    <2>4. j # 1 /\ j \in 1..n /\ j - 1 \in 1..(i - 1)
        BY <1>1, <2>1, <2>2, <2>3
    <2>5. b[j - 1] = a[j]
        BY <1>1, <2>4
    <2>. QED
        BY <2>3, <2>4, <2>5
<1>. QED
    BY <1>3, <1>4, <1>5, <1>6, <1>7

LEMMA BroughtConn ==
    ASSUME NEW a, NEW k, NEW c, NEW d, Brought(a, k, c),
           \A p \in Ports : d[p] = "none" <=> c[p] = "none"
    PROVE  Brought(a, k, d)
BY DEF Brought

-----------------------------------------------------------------------------
(* The numbers of the messages of a conn among lines.                       *)
Numbered(l, c) == l.t \in {"message", "send"} /\ l.on = c
NumberOf(l, c) == IF Numbered(l, c) THEN <<l.n>> ELSE <<>>
AllLines == DownLines \cup UpLines

LEMMA NumbersTypes ==
    ASSUME NEW a \in Seq(AllLines), NEW c
    PROVE  /\ Numbers(a, c) \in Seq(Nat)
           /\ a = <<>> => Numbers(a, c) = <<>>
           /\ \A l \in AllLines : Numbers(Append(a, l), c) = Numbers(a, c) \o NumberOf(l, c)
           /\ a # <<>> => Numbers(a, c) = NumberOf(Head(a), c) \o Numbers(Tail(a), c)
<1>. DEFINE F(s) == [i \in DOMAIN s |-> NumberOf(s[i], c)]
<1>1. \A s : Numbers(s, c) = FlattenSeq(F(s))
    BY DEF Numbers, NumberOf, Numbered
<1>2. \A l \in AllLines : NumberOf(l, c) \in Seq(Nat)
    <2>1. \A l \in AllLines : l.n \in Nat
        BY LineFacts DEF AllLines
    <2>2. <<>> \in Seq(Nat) /\ \A n \in Nat : <<n>> \in Seq(Nat)
        OBVIOUS
    <2>. QED
        BY <2>1, <2>2 DEF NumberOf
<1>3. \A s \in Seq(AllLines) :
         /\ F(s) \in Seq(Seq(Nat)) /\ Len(F(s)) = Len(s)
         /\ \A i \in 1..Len(s) : F(s)[i] = NumberOf(s[i], c)
    <2>. SUFFICES ASSUME NEW s \in Seq(AllLines)
                  PROVE  /\ F(s) \in Seq(Seq(Nat)) /\ Len(F(s)) = Len(s)
                         /\ \A i \in 1..Len(s) : F(s)[i] = NumberOf(s[i], c)
        OBVIOUS
    <2>1. Len(s) \in Nat /\ DOMAIN s = 1..Len(s) /\ \A i \in 1..Len(s) : s[i] \in AllLines
        OBVIOUS
    <2>2. F(s) = [i \in 1..Len(s) |-> NumberOf(s[i], c)]
        BY <2>1
    <2>3. \A i \in 1..Len(s) : NumberOf(s[i], c) \in Seq(Nat)
        BY <1>2, <2>1
    <2>. HIDE DEF F
    <2>. QED
        BY <2>1, <2>2, <2>3
<1>4. ASSUME a = <<>> PROVE Numbers(a, c) = <<>>
    <2>1. F(<<>>) = <<>>
        OBVIOUS
    <2>. QED
        BY <1>1, <1>4, <2>1, FlattenEmpty
<1>. HIDE DEF F
<1>5. Numbers(a, c) \in Seq(Nat)
    BY <1>1, <1>3, FlattenType
<1>6. ASSUME NEW l \in AllLines
      PROVE  Numbers(Append(a, l), c) = Numbers(a, c) \o NumberOf(l, c)
    <2>. DEFINE b == Append(a, l)  A == F(a)  B == F(b)  e == NumberOf(l, c)
    <2>1. /\ Len(a) \in Nat /\ b \in Seq(AllLines) /\ Len(b) = Len(a) + 1
          /\ \A i \in 1..(Len(a) + 1) : b[i] = IF i = Len(a) + 1 THEN l ELSE a[i]
        OBVIOUS
    <2>. HIDE DEF b
    <2>2. /\ A \in Seq(Seq(Nat)) /\ Len(A) = Len(a) /\ e \in Seq(Nat)
          /\ \A i \in 1..Len(a) : A[i] = NumberOf(a[i], c)
        BY <1>2, <1>3
    <2>3. /\ B \in Seq(Seq(Nat)) /\ Len(B) = Len(a) + 1
          /\ \A i \in 1..(Len(a) + 1) : B[i] = NumberOf(b[i], c)
        BY <1>3, <2>1
    <2>. HIDE DEF A, B, e
    <2>4. /\ Append(A, e) \in Seq(Seq(Nat)) /\ Len(Append(A, e)) = Len(a) + 1
          /\ \A i \in 1..(Len(a) + 1) :
                Append(A, e)[i] = IF i = Len(a) + 1 THEN e ELSE A[i]
        BY <2>1, <2>2
    <2>5. ASSUME NEW i \in 1..(Len(a) + 1) PROVE B[i] = Append(A, e)[i]
        <3>1. B[i] = NumberOf(b[i], c)
            BY <2>3
        <3>2. CASE i = Len(a) + 1
            <4>1. b[i] = l /\ Append(A, e)[i] = e
                BY <2>1, <2>4, <3>2
            <4>. QED
                BY <3>1, <4>1 DEF e
        <3>3. CASE i # Len(a) + 1
            <4>1. i \in 1..Len(a)
                BY <2>1, <3>3
            <4>2. b[i] = a[i] /\ A[i] = NumberOf(a[i], c)
                BY <2>1, <2>2, <3>3, <4>1
            <4>3. Append(A, e)[i] = A[i]
                BY <2>4, <3>3
            <4>. QED
                BY <3>1, <4>2, <4>3
        <3>. QED
            BY <3>2, <3>3
    <2>6. B = Append(A, e)
        BY <2>3, <2>4, <2>5, SeqEqual
    <2>7. FlattenSeq(B) = FlattenSeq(A) \o e
        BY <2>2, <2>6, FlattenAppend
    <2>. QED
        BY <1>1, <2>7 DEF A, B, e, b
<1>7. ASSUME a # <<>>
      PROVE  Numbers(a, c) = NumberOf(Head(a), c) \o Numbers(Tail(a), c)
    <2>. DEFINE b == Tail(a)  A == F(a)  B == F(b)
    <2>1. /\ Len(a) \in Nat /\ Len(a) # 0 /\ b \in Seq(AllLines) /\ Len(b) = Len(a) - 1
          /\ \A i \in 1..(Len(a) - 1) : b[i] = a[i + 1] /\ i + 1 \in 1..Len(a)
          /\ Head(a) = a[1] /\ 1 \in 1..Len(a)
        BY <1>7
    <2>. HIDE DEF b
    <2>2. /\ A \in Seq(Seq(Nat)) /\ Len(A) = Len(a)
          /\ \A i \in 1..Len(a) : A[i] = NumberOf(a[i], c)
        BY <1>3
    <2>3. /\ B \in Seq(Seq(Nat)) /\ Len(B) = Len(a) - 1
          /\ \A i \in 1..(Len(a) - 1) : B[i] = NumberOf(b[i], c)
        BY <1>3, <2>1
    <2>. HIDE DEF A, B
    <2>4. A # <<>> /\ Head(A) = A[1] /\ Tail(A) \in Seq(Seq(Nat))
          /\ Len(Tail(A)) = Len(a) - 1
          /\ \A i \in 1..(Len(a) - 1) : Tail(A)[i] = A[i + 1]
        BY <2>1, <2>2
    <2>5. \A i \in 1..(Len(a) - 1) : B[i] = Tail(A)[i]
        BY <2>1, <2>2, <2>3, <2>4
    <2>6. B = Tail(A)
        BY <2>3, <2>4, <2>5, SeqEqual
    <2>7. FlattenSeq(A) = Head(A) \o FlattenSeq(B)
        BY <2>2, <2>4, <2>6, FlattenHead
    <2>8. Head(A) = NumberOf(Head(a), c)
        BY <2>1, <2>2, <2>4
    <2>. QED
        BY <1>1, <2>7, <2>8 DEF A, B, b
<1>. QED
    BY <1>4, <1>5, <1>6, <1>7

LEMMA FromToFacts ==
    ASSUME NEW m \in Nat, NEW n \in Nat, m <= n
    PROVE  /\ FromTo(m, n) \in Seq(Nat)
           /\ FromTo(m, n) \o <<n + 1>> = FromTo(m, n + 1)
           /\ m = n => FromTo(m, n) = <<>>
           /\ \A k \in Nat, s \in Seq(Nat) :
                 FromTo(m, n) = <<k>> \o s => k = m + 1 /\ m < n /\ s = FromTo(m + 1, n)
<1>1. /\ FromTo(m, n) \in Seq(Nat) /\ Len(FromTo(m, n)) = n - m
      /\ \A i \in 1..(n - m) : FromTo(m, n)[i] = m + i
    BY DEF FromTo
<1>2. /\ FromTo(m, n + 1) \in Seq(Nat) /\ Len(FromTo(m, n + 1)) = (n - m) + 1
      /\ \A i \in 1..((n - m) + 1) : FromTo(m, n + 1)[i] = m + i
    <2>1. (n + 1) - m = (n - m) + 1 /\ (n - m) + 1 \in Nat
        OBVIOUS
    <2>2. FromTo(m, n + 1) = [i \in 1..((n - m) + 1) |-> m + i]
        BY <2>1 DEF FromTo
    <2>. QED
        BY <2>1, <2>2
<1>3. FromTo(m, n) \o <<n + 1>> = FromTo(m, n + 1)
    <2>. DEFINE f == FromTo(m, n)  d == n - m
    <2>1. d \in Nat /\ f \in Seq(Nat) /\ Len(f) = d /\ \A i \in 1..d : f[i] = m + i
        BY <1>1
    <2>2. m + (d + 1) = n + 1
        OBVIOUS
    <2>. HIDE DEF f, d
    <2>3. /\ Append(f, n + 1) \in Seq(Nat) /\ Len(Append(f, n + 1)) = d + 1
          /\ f \o <<n + 1>> = Append(f, n + 1)
          /\ \A i \in 1..(d + 1) : Append(f, n + 1)[i] = IF i = d + 1 THEN n + 1 ELSE f[i]
        BY <2>1
    <2>4. ASSUME NEW i \in 1..(d + 1) PROVE Append(f, n + 1)[i] = m + i
        <3>1. CASE i = d + 1
            BY <2>2, <2>3, <3>1
        <3>2. CASE i # d + 1
            <4>1. i \in 1..d
                BY <2>1, <3>2
            <4>. QED
                BY <2>1, <2>3, <3>2, <4>1
        <3>. QED
            BY <3>1, <3>2
    <2>5. \A i \in 1..Len(Append(f, n + 1)) : Append(f, n + 1)[i] = FromTo(m, n + 1)[i]
        BY <1>2, <2>3, <2>4 DEF d
    <2>6. Append(f, n + 1) = FromTo(m, n + 1)
        BY <1>2, <2>3, <2>5, SeqEqual DEF d
    <2>. QED
        BY <2>3, <2>6 DEF f
<1>4. m = n => FromTo(m, n) = <<>>
    BY <1>1
<1>5. ASSUME NEW k \in Nat, NEW s \in Seq(Nat), FromTo(m, n) = <<k>> \o s
      PROVE  k = m + 1 /\ m < n /\ s = FromTo(m + 1, n)
    <2>. DEFINE q == <<k>> \o s
    <2>1. /\ Len(s) \in Nat /\ Len(q) = Len(s) + 1 /\ q[1] = k
          /\ \A i \in 1..Len(s) : q[i + 1] = s[i]
        <3>1. <<k>> \in Seq(Nat) /\ Len(<<k>>) = 1 /\ <<k>>[1] = k
            OBVIOUS
        <3>2. /\ Len(q) = Len(<<k>>) + Len(s) /\ Len(s) \in Nat
              /\ \A i \in 1..(Len(<<k>>) + Len(s)) :
                    q[i] = IF i <= Len(<<k>>) THEN <<k>>[i] ELSE s[i - Len(<<k>>)]
            BY <3>1, ConcatProperties
        <3>3. Len(q) = Len(s) + 1
            BY <3>1, <3>2
        <3>4. q[1] = k
            BY <3>1, <3>2
        <3>5. \A i \in 1..Len(s) : ~(i + 1 <= 1) /\ (i + 1) - 1 = i /\ i + 1 \in 1..(1 + Len(s))
            BY <3>2
        <3>6. \A i \in 1..Len(s) : q[i + 1] = s[i]
            BY <3>1, <3>2, <3>5
        <3>. QED
            BY <3>2, <3>3, <3>4, <3>6
    <2>2. Len(q) = n - m /\ \A i \in 1..(n - m) : q[i] = m + i
        BY <1>1, <1>5
    <2>. HIDE DEF q
    <2>3. k = m + 1 /\ m < n /\ Len(s) = n - (m + 1)
        BY <2>1, <2>2
    <2>4. ASSUME NEW i \in 1..Len(s) PROVE s[i] = (m + 1) + i
        <3>1. i + 1 \in 1..(n - m) /\ m + (i + 1) = (m + 1) + i
            BY <2>1, <2>2
        <3>2. q[i + 1] = m + (i + 1) /\ q[i + 1] = s[i]
            BY <2>1, <2>2, <3>1
        <3>. QED
            BY <3>1, <3>2
    <2>5. s = [i \in 1..(n - (m + 1)) |-> (m + 1) + i]
        <3>1. s = [i \in 1..Len(s) |-> s[i]]
            OBVIOUS
        <3>. QED
            BY <2>3, <2>4, <3>1
    <2>. QED
        BY <2>3, <2>5 DEF FromTo
<1>. QED
    BY <1>1, <1>3, <1>4, <1>5

-----------------------------------------------------------------------------
(* The messages of a conn.  Those on their way down are the last of those   *)
(* that were posted, and what listeners were told of last is just before.   *)
Order(a, c, d, g, k) ==
    /\ k \in {"none", "open"} => g = 0
    /\ \E m \in 0..d : /\ Numbers(a, c) = FromTo(m, d)
                       /\ g # 0 /\ k = "heard" => m = g

LEMMA OrderAppend ==
    ASSUME NEW a \in Seq(AllLines), NEW l \in AllLines, NEW c, NEW d \in Nat, NEW e \in Nat,
           NEW g, NEW k, Order(a, c, d, g, k),
           IF Numbered(l, c) THEN e = d + 1 /\ l.n = d + 1 ELSE e = d
    PROVE  Order(Append(a, l), c, e, g, k)
<1>1. PICK m \in 0..d : Numbers(a, c) = FromTo(m, d) /\ (g # 0 /\ k = "heard" => m = g)
    BY DEF Order
<1>2. m \in Nat /\ m <= d /\ Numbers(a, c) \in Seq(Nat)
    BY NumbersTypes
<1>3. Numbers(Append(a, l), c) = FromTo(m, e)
    <2>1. Numbers(Append(a, l), c) = Numbers(a, c) \o NumberOf(l, c)
        BY NumbersTypes
    <2>2. CASE Numbered(l, c)
        <3>1. NumberOf(l, c) = <<d + 1>>
            BY <2>2 DEF NumberOf
        <3>2. FromTo(m, d) \o <<d + 1>> = FromTo(m, d + 1)
            BY <1>2, FromToFacts
        <3>. QED
            BY <1>1, <2>1, <2>2, <3>1, <3>2
    <2>3. CASE ~Numbered(l, c)
        <3>1. NumberOf(l, c) = <<>> /\ e = d
            BY <2>3 DEF NumberOf
        <3>2. Numbers(a, c) \o <<>> = Numbers(a, c)
            BY <1>2
        <3>. QED
            BY <1>1, <2>1, <3>1, <3>2
    <2>. QED
        BY <2>2, <2>3
<1>4. m \in 0..e
    BY <1>2
<1>. QED
    BY <1>1, <1>3, <1>4 DEF Order

LEMMA OrderTail ==
    ASSUME NEW a \in Seq(AllLines), a # <<>>, NEW c, NEW d \in Nat,
           NEW g, NEW k, Order(a, c, d, g, k), NEW h, NEW j,
           j = k \/ (k = "none" /\ j = "open") \/ j = "closed",
           \/ h = g /\ (Numbered(Head(a), c) => j # "heard")
           \/ Numbered(Head(a), c) /\ h = Head(a).n /\ j = "heard"
    PROVE  Order(Tail(a), c, d, h, j)
<1>1. PICK m \in 0..d : Numbers(a, c) = FromTo(m, d) /\ (g # 0 /\ k = "heard" => m = g)
    BY DEF Order
<1>. DEFINE s == Numbers(Tail(a), c)
<1>2. /\ m \in Nat /\ m <= d /\ Head(a) \in AllLines /\ Tail(a) \in Seq(AllLines)
      /\ s \in Seq(Nat) /\ Numbers(a, c) = NumberOf(Head(a), c) \o s
    <2>1. Head(a) \in AllLines /\ Tail(a) \in Seq(AllLines)
        BY QueueFacts
    <2>2. s \in Seq(Nat)
        BY <2>1, NumbersTypes
    <2>3. Numbers(a, c) = NumberOf(Head(a), c) \o s
        BY NumbersTypes
    <2>. QED
        BY <2>1, <2>2, <2>3
<1>3. j \in {"none", "open"} => h = 0
    BY DEF Order
<1>. HIDE DEF s
<1>4. CASE Numbered(Head(a), c)
    <2>1. NumberOf(Head(a), c) = <<Head(a).n>> /\ Head(a).n \in Nat
        BY <1>2, <1>4, LineFacts DEF NumberOf, AllLines
    <2>2. FromTo(m, d) = <<Head(a).n>> \o s
        BY <1>1, <1>2, <2>1
    <2>3. Head(a).n = m + 1 /\ m < d /\ s = FromTo(m + 1, d)
        <3>. DEFINE n == Head(a).n
        <3>1. \A i \in Nat, q \in Seq(Nat) :
                 FromTo(m, d) = <<i>> \o q => i = m + 1 /\ m < d /\ q = FromTo(m + 1, d)
            BY <1>2, FromToFacts
        <3>2. n \in Nat /\ FromTo(m, d) = <<n>> \o s
            BY <2>1, <2>2
        <3>. HIDE DEF n
        <3>3. n = m + 1 /\ m < d /\ s = FromTo(m + 1, d)
            BY <1>2, <3>1, <3>2
        <3>. QED
            BY <3>3 DEF n
    <2>4. m + 1 \in 0..d
        BY <1>2, <2>3
    <2>. QED
        BY <1>3, <1>4, <2>3, <2>4 DEF Order, s
<1>5. CASE ~Numbered(Head(a), c)
    <2>1. NumberOf(Head(a), c) = <<>> /\ <<>> \o s = s
        BY <1>2, <1>5 DEF NumberOf
    <2>2. s = FromTo(m, d)
        BY <1>1, <1>2, <2>1
    <2>3. h = g /\ (j = "heard" => k = "heard")
        BY <1>5
    <2>. QED
        BY <1>1, <1>3, <2>2, <2>3 DEF Order, s
<1>. QED
    BY <1>4, <1>5

LEMMA OrderConn ==
    ASSUME NEW a, NEW c, NEW d, NEW g, NEW k, Order(a, c, d, g, k), NEW j,
           j = k \/ j = "closed" \/ (k = "open" /\ j = "heard")
    PROVE  Order(a, c, d, g, j)
BY DEF Order

-----------------------------------------------------------------------------
(* What the parent writes, and the child reads.                             *)
DownInv ==
    phase # "gone" =>
        /\ Fed(Ahead, fds)
        /\ Brought(Ahead, kept, conn) /\ conn[0] # "none"
        /\ \A c \in Conns : Order(Ahead, c, down[c], childGot[c], conn[c])

LEMMA DownPrime ==
    ASSUME phase' # "gone" =>
               /\ Fed(Ahead', fds') /\ Brought(Ahead', kept', conn') /\ conn'[0] # "none"
               /\ \A c \in Conns : Order(Ahead', c, down'[c], childGot'[c], conn'[c])
    PROVE  DownInv'
<1>1. /\ Fed(Ahead, fds)' = Fed(Ahead', fds')
      /\ Brought(Ahead, kept, conn)' = Brought(Ahead', kept', conn')
      /\ \A c : Order(Ahead, c, down[c], childGot[c], conn[c])'
                  = Order(Ahead', c, down'[c], childGot'[c], conn'[c])
    OBVIOUS
<1>. QED
    BY <1>1 DEF DownInv

LEMMA LinesUnion ==
    /\ \A l : l \in DownLines \/ l \in UpLines => l \in AllLines
    /\ \A s \in Seq(DownLines) : s \in Seq(AllLines)
    /\ \A s \in Seq(UpLines) : s \in Seq(AllLines)
<1>1. \A l : l \in DownLines \/ l \in UpLines => l \in AllLines
    BY DEF AllLines
<1>2. ASSUME NEW X, NEW Y, X \subseteq Y PROVE Seq(X) \subseteq Seq(Y)
    BY <1>2
<1>3. DownLines \subseteq AllLines /\ UpLines \subseteq AllLines
    BY DEF AllLines
<1>. QED
    BY <1>1, <1>2, <1>3

(* A line is written, with the descriptors of its tags and its number.      *)
LEMMA DownWrites ==
    ASSUME TypeOK, DownInv, ParentRuns, NEW line \in DownLines, Write(line),
           UNCHANGED <<phase, conn, childGot>>,
           phase # "gone" => fds' = fds \o line.tags, Distinct(line.tags),
           \A p \in Ports : kept'[p] = "local" => kept[p] = "local" /\ line.port # p,
           \A p \in Ports : kept'[p] = "wired" => kept[p] = "wired" \/ line.port = p,
           line.port \in Ports => kept[line.port] = "local",
           line.t \in {"send", "close"} => kept[line.on] = "wired",
           \A c \in Conns : IF Numbered(line, c)
                            THEN down'[c] = down[c] + 1 /\ line.n = down[c] + 1
                            ELSE down'[c] = down[c]
    PROVE  DownInv'
<1>. SUFFICES ASSUME phase # "gone"
              PROVE  /\ Fed(Ahead', fds') /\ Brought(Ahead', kept', conn')
                     /\ conn'[0] # "none"
                     /\ \A c \in Conns : Order(Ahead', c, down'[c], childGot'[c], conn'[c])
    BY DownPrime
<1>1. Ahead' = Append(Ahead, line) /\ Ahead \in Seq(DownLines)
    BY AheadWrite, AheadType
<1>2. /\ Fed(Ahead, fds) /\ Brought(Ahead, kept, conn) /\ conn[0] # "none"
      /\ \A c \in Conns : Order(Ahead, c, down[c], childGot[c], conn[c])
    BY DEF DownInv
<1>. DEFINE a == Ahead  b == Ahead'
<1>. HIDE DEF a, b
<1>3. b = Append(a, line) /\ a \in Seq(DownLines) /\ a \in Seq(AllLines) /\ line \in AllLines
    BY <1>1, LinesUnion DEF a, b
<1>4. /\ Fed(a, fds) /\ Brought(a, kept, conn)
      /\ \A c \in Conns : Order(a, c, down[c], childGot[c], conn[c])
    BY <1>2 DEF a
<1>5. Fed(b, fds')
    <2>1. Fed(Append(a, line), fds \o line.tags)
        BY <1>3, <1>4, FedAppend
    <2>2. fds' = fds \o line.tags
        OBVIOUS
    <2>. QED
        BY <1>3, <2>1, <2>2, Zenon
<1>6. Brought(b, kept', conn')
    BY <1>3, <1>4, BroughtAppend
<1>7. ASSUME NEW c \in Conns PROVE Order(b, c, down'[c], childGot'[c], conn'[c])
    <2>. DEFINE d == down[c]  e == down'[c]  g == childGot[c]  k == conn[c]
    <2>1. d \in Nat /\ e \in Nat /\ childGot'[c] = g /\ conn'[c] = k
        BY DEF TypeOK, HistTypes
    <2>2. IF Numbered(line, c) THEN e = d + 1 /\ line.n = d + 1 ELSE e = d
        OBVIOUS
    <2>3. Order(a, c, d, g, k)
        BY <1>4
    <2>. HIDE DEF d, e, g, k
    <2>4. Order(Append(a, line), c, e, g, k)
        BY <1>3, <2>1, <2>2, <2>3, OrderAppend
    <2>. QED
        BY <1>3, <2>1, <2>4 DEF d, e, g, k
<1>. QED
    BY <1>2, <1>5, <1>6, <1>7 DEF b

(* The child takes a line, and the descriptors of its tags.                 *)
LEMMA DownReads ==
    ASSUME TypeOK, DownInv, stdin # <<>>, phase # "gone", phase' # "gone",
           stdin' = Tail(stdin), UNCHANGED <<unwritten, kept, down>>,
           NEW line, line = Head(stdin),
           \/ fds' = SubSeq(fds, Len(line.tags) + 1, Len(fds))
           \/ line.tags = <<>> /\ fds' = fds,
           \A p \in Ports : conn'[p] = "none" <=> conn[p] = "none" /\ line.port # p,
           conn'[0] = conn[0],
           \A c \in Conns :
               /\ \/ conn'[c] = conn[c] \/ conn'[c] = "closed"
                  \/ conn[c] = "none" /\ conn'[c] = "open"
               /\ \/ childGot'[c] = childGot[c] /\ (Numbered(line, c) => conn'[c] # "heard")
                  \/ Numbered(line, c) /\ childGot'[c] = line.n /\ conn'[c] = "heard"
    PROVE  DownInv'
<1>1. /\ Ahead \in Seq(DownLines) /\ Ahead # <<>> /\ Head(Ahead) = line
      /\ Ahead' = Tail(Ahead)
    BY AheadRead, AheadType
<1>2. /\ Fed(Ahead, fds) /\ Brought(Ahead, kept, conn) /\ conn[0] # "none"
      /\ \A c \in Conns : Order(Ahead, c, down[c], childGot[c], conn[c])
    BY DEF DownInv
<1>. DEFINE a == Ahead  b == Ahead'
<1>. HIDE DEF a, b
<1>3. /\ b = Tail(a) /\ a \in Seq(DownLines) /\ a \in Seq(AllLines)
      /\ a # <<>> /\ Head(a) = line
    BY <1>1, LinesUnion DEF a, b
<1>4. /\ Fed(a, fds) /\ Brought(a, kept, conn)
      /\ \A c \in Conns : Order(a, c, down[c], childGot[c], conn[c])
    BY <1>2 DEF a
<1>5. Fed(b, fds')
    <2>1. /\ Fed(Tail(a), SubSeq(fds, Len(Head(a).tags) + 1, Len(fds)))
          /\ Head(a).tags = <<>> => Fed(Tail(a), fds)
        BY <1>3, <1>4, FedTail
    <2>2. CASE fds' = SubSeq(fds, Len(line.tags) + 1, Len(fds))
        BY <1>3, <2>1, <2>2, Zenon
    <2>3. CASE line.tags = <<>> /\ fds' = fds
        BY <1>3, <2>1, <2>3, Zenon
    <2>. QED
        BY <2>2, <2>3
<1>6. Brought(b, kept', conn')
    BY <1>3, <1>4, BroughtTail
<1>7. ASSUME NEW c \in Conns PROVE Order(b, c, down'[c], childGot'[c], conn'[c])
    <2>. DEFINE d == down[c]  g == childGot[c]  k == conn[c]  h == childGot'[c]  j == conn'[c]
    <2>1. d \in Nat /\ down'[c] = d
        BY DEF TypeOK, HistTypes
    <2>2. /\ j = k \/ (k = "none" /\ j = "open") \/ j = "closed"
          /\ \/ h = g /\ (Numbered(Head(a), c) => j # "heard")
             \/ Numbered(Head(a), c) /\ h = Head(a).n /\ j = "heard"
        BY <1>3
    <2>3. Order(a, c, d, g, k)
        BY <1>4
    <2>. HIDE DEF d, g, k, h, j
    <2>4. Order(Tail(a), c, d, h, j)
        BY <1>3, <2>1, <2>2, <2>3, OrderTail
    <2>. QED
        BY <1>3, <2>1, <2>4 DEF h, j
<1>. QED
    BY <1>2, <1>5, <1>6, <1>7, DownPrime DEF b

(* Nothing is written or read.                                              *)
LEMMA DownSame ==
    ASSUME TypeOK, DownInv,
           phase' = "gone" \/ UNCHANGED <<stdin, unwritten>> \/ WriteEnds,
           phase' # "gone" =>
               /\ phase # "gone" /\ UNCHANGED <<fds, kept, down, childGot>>
               /\ \A c \in Conns : \/ conn'[c] = conn[c]
                                   \/ conn[c] \in {"open", "heard"} /\ conn'[c] = "closed"
                                   \/ conn[c] = "open" /\ conn'[c] = "heard"
    PROVE  DownInv'
<1>. SUFFICES ASSUME phase' # "gone"
              PROVE  /\ Fed(Ahead', fds') /\ Brought(Ahead', kept', conn')
                     /\ conn'[0] # "none"
                     /\ \A c \in Conns : Order(Ahead', c, down'[c], childGot'[c], conn'[c])
    BY DownPrime
<1>1. Ahead' = Ahead /\ UNCHANGED <<fds, kept, down, childGot>>
    BY AheadSame
<1>2. /\ Fed(Ahead, fds) /\ Brought(Ahead, kept, conn) /\ conn[0] # "none"
      /\ \A c \in Conns : Order(Ahead, c, down[c], childGot[c], conn[c])
    BY DEF DownInv
<1>3. \A c \in Conns : conn'[c] = "none" <=> conn[c] = "none"
    OBVIOUS
<1>4. 0 \in Conns /\ \A p \in Ports : p \in Conns
    BY DEF Conns
<1>5. conn'[0] # "none"
    BY <1>2, <1>3, <1>4
<1>6. Brought(Ahead, kept, conn')
    BY <1>2, <1>3, <1>4, BroughtConn
<1>7. ASSUME NEW c \in Conns PROVE Order(Ahead, c, down[c], childGot[c], conn'[c])
    BY <1>2, OrderConn
<1>. QED
    BY <1>1, <1>2, <1>5, <1>6, <1>7

(* What the child reads is given the right descriptors.                     *)
LEMMA HeadFed ==
    ASSUME TypeOK, DownInv, phase # "gone", stdin # <<>>
    PROVE  /\ Len(fds) >= Need(Head(stdin)) /\ Materialises(Head(stdin))
<1>. DEFINE line == Head(stdin)  a == Ahead
<1>1. /\ a \in Seq(DownLines) /\ a # <<>> /\ Head(a) = line /\ Fed(a, fds)
    <2>1. stdin \in Seq(DownLines) /\ unwritten \in Seq(DownLines)
        BY DEF TypeOK, PipeTypes
    <2>2. stdin \o unwritten # <<>> /\ Head(stdin \o unwritten) = Head(stdin)
        BY <2>1, CatFacts
    <2>3. a = stdin \o unwritten
        BY DEF Ahead
    <2>. QED
        BY <2>2, <2>3, AheadType DEF DownInv
<1>2. line \in DownLines /\ line.tags \in Seq(Nat) /\ Len(line.tags) \in Nat
    BY <1>1, QueueFacts, LineFacts
<1>. HIDE DEF a, line
<1>3. /\ Distinct(line.tags) /\ Len(line.tags) <= Len(fds)
      /\ SubSeq(fds, 1, Len(line.tags)) = line.tags
    BY <1>1, FedTail
<1>4. Len(fds) \in Nat
    BY DEF TypeOK, PipeTypes
<1>5. Taken(line) = line.tags /\ Len(fds) >= Need(line)
    BY <1>2, <1>3, <1>4 DEF Taken, Need
<1>6. Materialises(line)
    <2>. DEFINE T == line.tags
    <2>1. DOMAIN T = 1..Len(T) /\ Distinct(T) /\ Taken(line) = T
        BY <1>2, <1>3, <1>5
    <2>2. Materialises(line) <=>
             /\ \A i, j \in DOMAIN T : i # j => T[i] # T[j]
             /\ ToSet(T) \subseteq held \cup ToSet(Taken(line))
        BY DEF Materialises
    <2>. HIDE DEF T
    <2>3. \A i, j \in DOMAIN T : i # j => T[i] # T[j]
        BY <2>1 DEF Distinct
    <2>4. ToSet(T) \subseteq held \cup ToSet(Taken(line))
        BY <2>1
    <2>. QED
        BY <2>2, <2>3, <2>4
<1>. QED
    BY <1>5, <1>6 DEF line

LEMMA DownInit == ASSUME Init PROVE DownInv
<1>. DEFINE l == Line("init", 0, 0, fds, 0)  a == <<l>>
<1>1. nextTag \in Nat
    BY InitAssumption DEF Init
<1>2. /\ fds \in Seq(Nat) /\ Distinct(fds)
    BY <1>1 DEF Init, Distinct
<1>3. l \in DownLines /\ l.tags = fds /\ l.port = 0 /\ l.t = "init"
    BY <1>2, LineTypes DEF Line
<1>4. Ahead = a
    BY DEF Init, Ahead
<1>. HIDE DEF l
<1>5. a = Append(<<>>, l) /\ <<>> \in Seq(DownLines) /\ a \in Seq(DownLines) /\ Len(a) = 1
      /\ a[1] = l
    BY <1>3
<1>6. Fed(a, fds)
    <2>1. Fed(<<>>, <<>>)
        <3>1. TagsOf(<<>>) = <<>>
            BY DEF TagsOf
        <3>. QED
            BY <3>1, FlattenEmpty DEF Fed
    <2>2. Fed(Append(<<>>, l), <<>> \o l.tags)
        BY <1>2, <1>3, <1>5, <2>1, FedAppend
    <2>3. <<>> \o l.tags = fds
        BY <1>2, <1>3
    <2>. QED
        BY <1>5, <2>2, <2>3
<1>7. \A c \in Conns : NumberOf(l, c) = <<>>
    BY <1>3 DEF NumberOf, Numbered
<1>8. ASSUME NEW c \in Conns PROVE Order(a, c, down[c], childGot[c], conn[c])
    <2>1. down[c] = 0 /\ childGot[c] = 0
        BY <1>8 DEF Init
    <2>2. <<>> \in Seq(AllLines) /\ l \in AllLines
        BY <1>3, LinesUnion
    <2>3. Numbers(<<>>, c) = <<>>
        BY <2>2, NumbersTypes
    <2>4. Numbers(Append(<<>>, l), c) = Numbers(<<>>, c) \o NumberOf(l, c)
        BY <2>2, NumbersTypes
    <2>5. NumberOf(l, c) = <<>> /\ <<>> \o <<>> = <<>>
        BY <1>7
    <2>6. Numbers(a, c) = <<>>
        BY <1>5, <2>3, <2>4, <2>5
    <2>7. FromTo(0, 0) = <<>>
        <3>1. FromTo(0, 0) \in Seq(Nat) /\ Len(FromTo(0, 0)) = 0
            BY DEF FromTo
        <3>. QED
            BY <3>1
    <2>. QED
        BY <2>1, <2>6, <2>7 DEF Order
<1>9. Brought(a, kept, conn)
    <2>1. \A p \in Ports : p # 0 /\ p \in Conns /\ kept[p] = "local" /\ conn[p] = "none"
        BY PortsAssumption DEF Init, Conns
    <2>2. \A i \in 1..Len(a) : i = 1
        BY <1>5
    <2>3. \A p \in Ports : \A i \in 1..Len(a) : a[i].port # p
        BY <1>3, <1>5, <2>1, <2>2
    <2>4. \A i \in 1..Len(a) : a[i].t \notin {"send", "close"}
        BY <1>3, <1>5, <2>2
    <2>. QED
        BY <2>1, <2>3, <2>4 DEF Brought
<1>10. conn[0] # "none"
    BY DEF Init, Conns
<1>. QED
    BY <1>4, <1>6, <1>8, <1>9, <1>10 DEF DownInv

LEMMA DownPost ==
    ASSUME Matching, TypeOK, DownInv, NEW v \in Values, NEW port \in Conns, Post(v, port)
    PROVE  DownInv'
<1>. DEFINE line == Line("message", 0, down'[0], Placeholders(v), port)
<1>1. /\ v # "unwritable" /\ v # "twice"
      /\ Placeholders(v) = Buffers(v)
    BY DEF Matching, Placeholders
<1>2. /\ ParentRuns /\ Write(line) /\ UNCHANGED <<phase, conn, childGot>>
      /\ down' = [down EXCEPT ![0] = @ + 1]
      /\ kept' = [p \in Ports |-> IF p = port THEN "wired" ELSE kept[p]]
      /\ port # 0 => kept[port] = "local"
      /\ phase # "gone" => fds' = fds \o Buffers(v)
    BY <1>1 DEF Post, childVars
<1>3. 0 \in Conns /\ down \in [Conns -> Nat] /\ nextTag \in Nat
    BY DEF Conns, TypeOK, HistTypes, ParentTypes
<1>4. down'[0] = down[0] + 1 /\ down'[0] \in Nat /\ \A c \in Conns : c # 0 => down'[c] = down[c]
    BY <1>2, <1>3
<1>5. Buffers(v) \in Seq(Nat) /\ Placeholders(v) \in Seq(Nat)
    BY <1>3, BufferTypes
<1>6. Distinct(Buffers(v))
    BY <1>3 DEF Buffers, Distinct
<1>7. line \in DownLines
    BY <1>4, <1>5, LineTypes
<1>8. /\ line.t = "message" /\ line.on = 0 /\ line.n = down'[0] /\ line.tags = Buffers(v)
      /\ line.port = port
    BY <1>1 DEF Line
<1>. HIDE DEF line
<1>9. \A p \in Ports : /\ kept'[p] = "local" => kept[p] = "local" /\ line.port # p
                       /\ kept'[p] = "wired" => kept[p] = "wired" \/ line.port = p
    BY <1>2, <1>8
<1>10. line.port \in Ports => kept[line.port] = "local"
    BY <1>2, <1>8, PortsAssumption
<1>11. \A c \in Conns : IF Numbered(line, c)
                        THEN down'[c] = down[c] + 1 /\ line.n = down[c] + 1
                        ELSE down'[c] = down[c]
    BY <1>4, <1>8 DEF Numbered
<1>. QED
    BY <1>2, <1>6, <1>7, <1>8, <1>9, <1>10, <1>11, DownWrites

LEMMA DownKept ==
    ASSUME TypeOK, DownInv, NEW p \in Ports, KeptPost(p) \/ KeptClose(p)
    PROVE  DownInv'
<1>1. /\ ParentRuns /\ kept[p] = "wired" /\ UNCHANGED <<phase, conn, childGot, fds>>
    BY DEF KeptPost, KeptClose, childVars
<1>2. /\ p \in Conns /\ p # 0 /\ down \in [Conns -> Nat] /\ fds \in Seq(Nat)
      /\ kept \in [Ports -> {"local", "wired", "closed"}]
    BY PortsAssumption DEF Conns, TypeOK, HistTypes, PipeTypes, ParentTypes
<1>3. Distinct(<<>>) /\ fds \o <<>> = fds
    BY <1>2 DEF Distinct
<1>4. CASE KeptPost(p)
    <2>. DEFINE line == Line("send", p, down'[p], <<>>, 0)
    <2>1. Write(line) /\ down' = [down EXCEPT ![p] = @ + 1] /\ kept' = kept
        BY <1>4 DEF KeptPost
    <2>2. /\ down'[p] = down[p] + 1 /\ down'[p] \in Nat
          /\ \A c \in Conns : c # p => down'[c] = down[c]
        BY <1>2, <2>1
    <2>3. line \in DownLines
        BY <2>2, LineTypes
    <2>4. /\ line.t = "send" /\ line.on = p /\ line.n = down'[p] /\ line.tags = <<>>
          /\ line.port = 0
        BY DEF Line
    <2>. HIDE DEF line
    <2>5. \A c \in Conns : IF Numbered(line, c)
                           THEN down'[c] = down[c] + 1 /\ line.n = down[c] + 1
                           ELSE down'[c] = down[c]
        BY <2>2, <2>4 DEF Numbered
    <2>6. line.port \notin Ports
        BY <2>4, PortsAssumption
    <2>. QED
        BY <1>1, <1>3, <2>1, <2>3, <2>4, <2>5, <2>6, DownWrites
<1>5. CASE KeptClose(p)
    <2>. DEFINE line == Line("close", p, 0, <<>>, 0)
    <2>1. Write(line) /\ kept' = [kept EXCEPT ![p] = "closed"] /\ down' = down
        BY <1>5 DEF KeptClose
    <2>2. line \in DownLines
        BY LineTypes
    <2>3. /\ line.t = "close" /\ line.on = p /\ line.tags = <<>> /\ line.port = 0
        BY DEF Line
    <2>. HIDE DEF line
    <2>4. \A c \in Conns : ~Numbered(line, c) /\ down'[c] = down[c]
        BY <2>1, <2>3 DEF Numbered
    <2>5. line.port \notin Ports
        BY <2>3, PortsAssumption
    <2>6. \A q \in Ports : kept'[q] = "closed" \/ (kept'[q] = kept[q] /\ line.port # q)
        BY <1>2, <2>1, <2>5
    <2>. QED
        BY <1>1, <1>3, <2>1, <2>2, <2>3, <2>4, <2>5, <2>6, DownWrites
<1>. QED
    BY <1>4, <1>5

LEMMA DownTerminate ==
    ASSUME TypeOK, DownInv, Terminate
    PROVE  DownInv'
<1>. DEFINE line == Plain("terminate")
<1>1. /\ ParentRuns /\ Write(line)
      /\ UNCHANGED <<phase, conn, childGot, fds, kept, down>>
    BY DEF Terminate, childVars
<1>2. Distinct(<<>>) /\ fds \o <<>> = fds
    BY DEF Distinct, TypeOK, PipeTypes
<1>3. line \in DownLines
    BY LineTypes
<1>4. line.t = "terminate" /\ line.tags = <<>> /\ line.port = 0
    BY DEF Plain, Line
<1>. HIDE DEF line
<1>5. line.port \notin Ports /\ \A c \in Conns : ~Numbered(line, c) /\ down'[c] = down[c]
    BY <1>1, <1>4, PortsAssumption DEF Numbered
<1>. QED
    BY <1>1, <1>2, <1>3, <1>4, <1>5, DownWrites

LEMMA DownParentReads ==
    ASSUME TypeOK, DownInv, ParentReads \/ ParentThrows
    PROVE  DownInv'
<1>. DEFINE got == Head(stdout)
<1>1. /\ ParentRuns /\ stdout # <<>> /\ UNCHANGED <<phase, conn, childGot, fds, down>>
    BY DEF ParentReads, ParentThrows, childVars
<1>2. CASE UNCHANGED <<kept, stdin, unwritten>>
    <2>1. phase = "gone" => phase' = "gone"
        BY <1>1
    <2>. QED
        BY <1>1, <1>2, <2>1, DownSame
<1>3. CASE ~UNCHANGED <<kept, stdin, unwritten>>
    <2>. DEFINE line == Line("close", got.on, 0, <<>>, 0)  q == got.on
    <2>1. /\ got.t = "close" /\ kept[q] = "wired"
          /\ kept' = [kept EXCEPT ![q] = "closed"] /\ Write(line)
        BY <1>3 DEF ParentReads, ParentThrows
    <2>2. got \in UpLines
        BY <1>1, QueueFacts DEF TypeOK, PipeTypes
    <2>3. q \in Ports
        BY <2>1, <2>2, LineFacts DEF Shape
    <2>. HIDE DEF got, q
    <2>4. line \in DownLines
        BY <2>3, LineTypes DEF q
    <2>5. /\ line.t = "close" /\ line.on = q /\ line.tags = <<>> /\ line.port = 0
        BY DEF Line, q
    <2>. HIDE DEF line
    <2>6. \A c \in Conns : ~Numbered(line, c) /\ down'[c] = down[c]
        BY <1>1, <2>5 DEF Numbered
    <2>7. line.port \notin Ports
        BY <2>5, PortsAssumption
    <2>8. \A p \in Ports : kept'[p] = "closed" \/ (kept'[p] = kept[p] /\ line.port # p)
        BY <2>1, <2>7 DEF TypeOK, ParentTypes
    <2>9. Distinct(<<>>) /\ fds \o <<>> = fds
        BY DEF Distinct, TypeOK, PipeTypes
    <2>. QED
        BY <1>1, <2>1, <2>4, <2>5, <2>6, <2>7, <2>8, <2>9, DownWrites
<1>. QED
    BY <1>2, <1>3

(* The child reads, in each of its states.                                  *)
LEMMA DownBoot ==
    ASSUME TypeOK, DownInv, Boot
    PROVE  DownInv'
<1>. DEFINE line == Head(stdin)
<1>1. /\ Reads({"init"}) /\ Drains(line) /\ stdin' = Tail(stdin) /\ phase' = "code"
      /\ UNCHANGED <<unwritten, kept, down, conn, childGot>> /\ line.t = "init"
    BY DEF Boot, parentVars, Reads
<1>2. line \in DownLines /\ stdin # <<>> /\ phase # "gone"
    BY <1>1, ReadTypes
<1>3. fds' = SubSeq(fds, Len(line.tags) + 1, Len(fds))
    BY <1>1 DEF Drains, Need
<1>4. line.port = 0
    BY <1>1, <1>2, LineFacts DEF Shape
<1>5. /\ \A c \in Conns : ~Numbered(line, c)
      /\ \A p \in Ports : line.port # p
    BY <1>1, <1>4, PortsAssumption DEF Numbered
<1>. HIDE DEF line
<1>. QED
    BY <1>1, <1>2, <1>3, <1>5, DownReads DEF line

(* A message that is delivered, or whose listener throws.                   *)
LEMMA DownTold ==
    ASSUME TypeOK, DownInv, Reads({"message"}), Drains(Head(stdin)), phase' # "gone",
           stdin' = Tail(stdin), conn' = Rebuilt(Head(stdin)),
           UNCHANGED <<unwritten, kept, down>>,
           childGot' = IF conn[0] = "heard"
                       THEN [childGot EXCEPT ![0] = Head(stdin).n] ELSE childGot
    PROVE  DownInv'
<1>. DEFINE line == Head(stdin)
<1>1. /\ line \in DownLines /\ stdin # <<>> /\ phase # "gone" /\ line.t = "message"
    BY ReadTypes DEF Reads
<1>2. fds' = SubSeq(fds, Len(line.tags) + 1, Len(fds))
    BY DEF Drains, Need
<1>3. line.on = 0 /\ line.port \in Conns
    BY <1>1, LineFacts DEF Shape
<1>4. /\ Ahead \in Seq(DownLines) /\ Ahead # <<>> /\ Head(Ahead) = line
    BY <1>1, AheadRead, AheadType
<1>5. line.port \in Ports => conn[line.port] = "none"
    <2>1. Head(Ahead) = Ahead[1] /\ 1 \in 1..Len(Ahead)
        BY <1>4
    <2>2. Brought(Ahead, kept, conn)
        BY <1>1 DEF DownInv
    <2>. QED
        BY <1>4, <2>1, <2>2 DEF Brought
<1>. HIDE DEF line
<1>6. /\ 0 \in Conns /\ \A p \in Ports : p \in Conns /\ p # 0
      /\ \A c \in Conns : c = 0 \/ c \in Ports
    BY PortsAssumption DEF Conns
<1>7. /\ conn'[0] = conn[0]
      /\ \A p \in Ports : conn'[p] = IF line.port = p THEN "open" ELSE conn[p]
    BY <1>6 DEF Rebuilt, line
<1>8. /\ \A p \in Ports : conn'[p] = "none" <=> conn[p] = "none" /\ line.port # p
      /\ \A c \in Conns : conn'[c] = conn[c] \/ (conn[c] = "none" /\ conn'[c] = "open")
    BY <1>5, <1>6, <1>7
<1>9. \A c \in Conns : Numbered(line, c) <=> c = 0
    BY <1>1, <1>3 DEF Numbered, line
<1>10. \A c \in Conns :
          \/ childGot'[c] = childGot[c] /\ (Numbered(line, c) => conn'[c] # "heard")
          \/ Numbered(line, c) /\ childGot'[c] = line.n /\ conn'[c] = "heard"
    <2>1. CASE conn[0] = "heard"
        <3>1. childGot'[0] = line.n /\ \A c \in Conns : c # 0 => childGot'[c] = childGot[c]
            BY <1>6, <2>1 DEF TypeOK, HistTypes, line
        <3>. QED
            BY <1>7, <1>9, <2>1, <3>1
    <2>2. CASE conn[0] # "heard"
        BY <1>7, <1>9, <2>2
    <2>. QED
        BY <2>1, <2>2
<1>. QED
    BY <1>1, <1>2, <1>7, <1>8, <1>10, DownReads DEF line

LEMMA DownMessage ==
    ASSUME TypeOK, DownInv, Deliver \/ Fail
    PROVE  DownInv'
<1>1. CASE Deliver
    <2>1. /\ Reads({"message"}) /\ Drains(Head(stdin)) /\ stdin' = Tail(stdin)
          /\ conn' = Rebuilt(Head(stdin)) /\ UNCHANGED <<phase, unwritten, kept, down>>
          /\ childGot' = IF conn[0] = "heard"
                         THEN [childGot EXCEPT ![0] = Head(stdin).n] ELSE childGot
        BY <1>1 DEF Deliver, parentVars
    <2>2. phase' # "gone"
        BY <2>1 DEF Reads, ChildRuns
    <2>. QED
        BY <2>1, <2>2, DownTold
<1>2. CASE Fail
    <2>1. /\ Reads({"message"}) /\ Drains(Head(stdin))
          /\ UNCHANGED <<unwritten, kept, down>>
        BY <1>2 DEF Fail, parentVars
    <2>2. Materialises(Head(stdin))
        BY <2>1, HeadFed DEF Reads, ChildRuns
    <2>3. /\ conn[0] = "heard" /\ childGot' = [childGot EXCEPT ![0] = Head(stdin).n]
          /\ SendAndQuit(Plain("error"), FALSE, Tail(stdin), Rebuilt(Head(stdin)))
        BY <1>2, <2>2 DEF Fail
    <2>4. CASE phase' = "gone"
        BY <2>4, DownSame
    <2>5. CASE phase' # "gone"
        <3>1. stdin' = Tail(stdin) /\ conn' = Rebuilt(Head(stdin))
            BY <2>3, <2>5 DEF SendAndQuit, ChildGone
        <3>. QED
            BY <2>1, <2>3, <2>5, <3>1, DownTold
    <2>. QED
        BY <2>4, <2>5
<1>. QED
    BY <1>1, <1>2

LEMMA DownLine ==
    ASSUME TypeOK, DownInv, TakeTerminate \/ PortLine
    PROVE  DownInv'
<1>. DEFINE line == Head(stdin)
<1>1. /\ Reads({"terminate", "send", "close"}) /\ UNCHANGED <<fds, unwritten, kept, down>>
    BY DEF TakeTerminate, PortLine, parentVars, Reads
<1>2. /\ line \in DownLines /\ stdin # <<>> /\ phase # "gone"
      /\ line.t \in {"terminate", "send", "close"}
    BY <1>1, ReadTypes DEF Reads
<1>3. line.tags = <<>> /\ line.port = 0 /\ (line.t # "terminate" => line.on \in Ports)
    BY <1>2, LineFacts DEF Shape
<1>4. \A p \in Ports : p # 0 /\ p \in Conns /\ line.port # p
    BY <1>3, PortsAssumption DEF Conns
<1>5. CASE phase' = "gone"
    BY <1>5, DownSame
<1>6. CASE TakeTerminate /\ phase' # "gone"
    <2>1. stdin' = Tail(stdin) /\ conn' = conn /\ childGot' = childGot /\ line.t = "terminate"
        BY <1>6 DEF TakeTerminate, SendAndQuit, ChildGone, Reads
    <2>2. \A c \in Conns : ~Numbered(line, c)
        BY <2>1 DEF Numbered
    <2>. HIDE DEF line
    <2>. QED
        BY <1>1, <1>2, <1>3, <1>4, <1>6, <2>1, <2>2, DownReads DEF line
<1>7. CASE PortLine /\ phase' # "gone"
    <2>. DEFINE q == line.on
    <2>1. /\ stdin' = Tail(stdin) /\ line.t \in {"send", "close"}
          /\ childGot' = IF line.t = "send" /\ conn[q] = "heard"
                         THEN [childGot EXCEPT ![q] = line.n] ELSE childGot
          /\ conn' = IF line.t = "close" /\ conn[q] \in {"open", "heard"}
                     THEN [conn EXCEPT ![q] = "closed"] ELSE conn
        BY <1>7 DEF PortLine, Reads
    <2>2. q \in Ports /\ q \in Conns /\ q # 0
        BY <1>3, <1>4, <2>1
    <2>. HIDE DEF line
    <2>3. \A c \in Conns : Numbered(line, c) <=> (line.t = "send" /\ c = q)
        BY <2>1 DEF Numbered
    <2>. HIDE DEF q
    <2>4. /\ conn \in [Conns -> {"none", "open", "heard", "closed"}] /\ 0 \in Conns
          /\ childGot \in [Conns -> Nat]
        BY DEF TypeOK, ChildTypes, HistTypes, Conns
    <2>5. /\ \A p \in Ports : conn'[p] = "none" <=> conn[p] = "none" /\ line.port # p
          /\ conn'[0] = conn[0]
          /\ \A c \in Conns : conn'[c] = conn[c] \/ conn'[c] = "closed"
        BY <1>4, <2>1, <2>2, <2>4
    <2>6. ASSUME NEW c \in Conns
          PROVE  \/ childGot'[c] = childGot[c] /\ (Numbered(line, c) => conn'[c] # "heard")
                 \/ Numbered(line, c) /\ childGot'[c] = line.n /\ conn'[c] = "heard"
        <3>1. CASE line.t = "send" /\ conn[q] = "heard"
            BY <2>1, <2>2, <2>3, <2>4, <3>1
        <3>2. CASE ~(line.t = "send" /\ conn[q] = "heard")
            BY <2>1, <2>3, <3>2
        <3>. QED
            BY <3>1, <3>2
    <2>. QED
        BY <1>1, <1>2, <1>3, <1>7, <2>1, <2>5, <2>6, DownReads DEF line
<1>. QED
    BY <1>5, <1>6, <1>7

LEMMA DownRest ==
    ASSUME TypeOK, DownInv,
           \/ WriteEnds \/ ForceExit \/ OnExit \/ SendEnds
           \/ \E c \in Conns : Listen(c) \/ ChildPost(c)
           \/ \E p \in Ports : ChildPortClose(p)
           \/ ChildClose \/ EndCode \/ ChildPrints \/ Die \/ UNCHANGED vars
    PROVE  DownInv'
<1>0. conn \in [Conns -> {"none", "open", "heard", "closed"}] /\ \A p \in Ports : p \in Conns
    BY DEF TypeOK, ChildTypes, Conns
<1>1. phase = "gone" => phase' = "gone"
    BY DEF WriteEnds, ForceExit, OnExit, SendEnds, Listen, ChildPost, ChildPortClose,
           ChildClose, EndCode, ChildPrints, Die, vars, childVars, UserRuns, ChildRuns,
           ChildGone
<1>2. CASE WriteEnds
    BY <1>1, <1>2, DownSame DEF WriteEnds, childVars
<1>3. CASE ForceExit
    BY <1>1, <1>3, DownSame DEF ForceExit, ChildGone
<1>4. CASE OnExit
    <2>1. phase' = "gone"
        BY <1>1, <1>4 DEF OnExit
    <2>. QED
        BY <2>1, DownSame
<1>5. CASE SendEnds \/ ChildClose \/ EndCode \/ ChildPrints
    <2>1. CASE phase' = "gone"
        BY <2>1, DownSame
    <2>2. CASE phase' # "gone"
        <3>1. UNCHANGED <<stdin, unwritten, fds, kept, down, childGot, conn>>
            BY <1>5, <2>2 DEF SendEnds, ChildClose, EndCode, ChildPrints, SendAndQuit,
                              ChildGone, parentVars
        <3>. QED
            BY <1>1, <2>2, <3>1, DownSame
    <2>. QED
        BY <2>1, <2>2
<1>6. CASE \E c \in Conns : Listen(c)
    <2>1. PICK c \in Conns : Listen(c)
        BY <1>6
    <2>2. /\ conn[c] = "open" /\ conn' = [conn EXCEPT ![c] = "heard"]
          /\ UNCHANGED <<stdin, unwritten, fds, kept, down, childGot>>
        BY <2>1 DEF Listen, pipes, parentVars
    <2>3. \A d \in Conns : \/ conn'[d] = conn[d]
                           \/ conn[d] = "open" /\ conn'[d] = "heard"
        BY <1>0, <2>2
    <2>. QED
        BY <1>1, <2>2, <2>3, DownSame
<1>7. CASE \E c \in Conns : ChildPost(c)
    BY <1>1, <1>7, DownSame DEF ChildPost, parentVars
<1>8. CASE \E p \in Ports : ChildPortClose(p)
    <2>1. PICK p \in Ports : ChildPortClose(p)
        BY <1>8
    <2>2. /\ conn[p] \in {"open", "heard"} /\ conn' = [conn EXCEPT ![p] = "closed"]
          /\ UNCHANGED <<stdin, unwritten, fds, kept, down, childGot>>
        BY <2>1 DEF ChildPortClose, parentVars
    <2>3. \A d \in Conns : \/ conn'[d] = conn[d]
                           \/ conn[d] \in {"open", "heard"} /\ conn'[d] = "closed"
        BY <1>0, <2>2
    <2>. QED
        BY <1>1, <2>2, <2>3, DownSame
<1>9. CASE Die
    BY <1>9, DownSame DEF Die, ChildGone
<1>10. CASE UNCHANGED vars
    BY <1>1, <1>10, DownSame DEF vars, pipes, parentVars, childVars
<1>. QED
    BY <1>2, <1>3, <1>4, <1>5, <1>6, <1>7, <1>8, <1>9, <1>10

LEMMA DownStep == Matching /\ TypeOK /\ DownInv /\ [Next]_vars => DownInv'
<1>. SUFFICES ASSUME Matching, TypeOK, DownInv, [Next]_vars PROVE DownInv'
    OBVIOUS
<1>1. CASE Parent
    BY <1>1, DownPost, DownKept, DownTerminate, DownRest, DownParentReads DEF Parent
<1>2. CASE Child
    BY <1>2, DownBoot, DownMessage, DownLine, DownRest DEF Child
<1>3. CASE UNCHANGED vars
    BY <1>3, DownRest
<1>. QED
    BY <1>1, <1>2, <1>3 DEF Next

-----------------------------------------------------------------------------
(* If no value needs more placeholders than it has descriptors, and none    *)
(* fails after its descriptors are sent, the side channel always has the    *)
(* descriptors of the lines ahead, in order.                                *)
THEOREM DescriptorsPaired == ASSUME Matching PROVE Spec => []FdsPaired
<1>1. DownInv => FdsPaired
    BY DEF DownInv, FdsPaired, Fed, TagsOf
<1>. QED
    BY <1>1, TypeInit, TypeStep, DownInit, DownStep, PTL DEF Spec

(* Under the same condition, what the child reads finds its descriptors in  *)
(* the channel, the right ones: the wait of drainSabFds is never needed.    *)
THEOREM DescriptorsThere == ASSUME Matching PROVE Spec => []BufferedOnRead
<1>1. TypeOK /\ DownInv => BufferedOnRead
    BY HeadFed DEF BufferedOnRead, Reads, ChildRuns
<1>. QED
    BY <1>1, TypeInit, TypeStep, DownInit, DownStep, PTL DEF Spec

(* A line for a port never comes before the one that brings the port.       *)
THEOREM PortsComeFirst == ASSUME Matching PROVE Spec => []PortKnown
<1>1. TypeOK /\ DownInv => PortKnown
    <2>. SUFFICES ASSUME TypeOK, DownInv, NEW i \in DOMAIN Ahead,
                         Ahead[i].t \in {"send", "close"}
                  PROVE  \/ conn[Ahead[i].on] # "none"
                         \/ \E j \in 1..(i - 1) : Ahead[j].port = Ahead[i].on
        BY DEF PortKnown
    <2>1. phase # "gone"
        BY DEF Ahead
    <2>2. Ahead \in Seq(DownLines) /\ Brought(Ahead, kept, conn)
        BY <2>1, AheadType DEF DownInv
    <2>3. i \in 1..Len(Ahead) /\ Ahead[i] \in DownLines
        BY <2>2
    <2>4. Ahead[i].on \in Ports
        BY <2>3, LineFacts DEF Shape
    <2>. QED
        BY <2>2, <2>3, <2>4 DEF Brought
<1>. QED
    BY <1>1, TypeInit, TypeStep, DownInit, DownStep, PTL DEF Spec
-----------------------------------------------------------------------------
(* What the child writes, and the parent reads.  The lines on their way up  *)
(* hold the messages from the one that the parent was told of last to the   *)
(* last one posted, on each conn whose kept end is not closed.              *)
Heard(o, c, g, u) == g <= u /\ Numbers(o, c) = FromTo(g, u)
UpInv ==
    phase # "gone" =>
        \A c \in Conns :
            /\ conn[c] = "none" => up[c] = 0
            /\ (c = 0 \/ kept[c] # "closed") => Heard(Out, c, parentGot[c], up[c])
GoneInv == phase = "gone" => \A c \in Conns : conn[c] = "none"

LEMMA HeardAppend ==
    ASSUME NEW o \in Seq(AllLines), NEW l \in AllLines, NEW c, NEW g \in Nat, NEW u \in Nat,
           NEW e \in Nat, Heard(o, c, g, u),
           IF Numbered(l, c) THEN e = u + 1 /\ l.n = u + 1 ELSE e = u
    PROVE  Heard(Append(o, l), c, g, e)
<1>1. g <= u /\ Numbers(o, c) = FromTo(g, u) /\ Numbers(o, c) \in Seq(Nat)
    BY NumbersTypes DEF Heard
<1>2. Numbers(Append(o, l), c) = Numbers(o, c) \o NumberOf(l, c)
    BY NumbersTypes
<1>3. CASE Numbered(l, c)
    <2>1. NumberOf(l, c) = <<u + 1>> /\ e = u + 1 /\ g <= e
        BY <1>1, <1>3 DEF NumberOf
    <2>2. FromTo(g, u) \o <<u + 1>> = FromTo(g, u + 1)
        BY <1>1, FromToFacts
    <2>. QED
        BY <1>1, <1>2, <2>1, <2>2 DEF Heard
<1>4. CASE ~Numbered(l, c)
    <2>1. NumberOf(l, c) = <<>> /\ e = u
        BY <1>4 DEF NumberOf
    <2>2. Numbers(o, c) \o <<>> = Numbers(o, c)
        BY <1>1
    <2>. QED
        BY <1>1, <1>2, <2>1, <2>2 DEF Heard
<1>. QED
    BY <1>3, <1>4

LEMMA HeardTail ==
    ASSUME NEW o \in Seq(AllLines), o # <<>>, NEW c, NEW g \in Nat, NEW u \in Nat,
           Heard(o, c, g, u)
    PROVE  /\ Numbered(Head(o), c) => g < u /\ Heard(Tail(o), c, Head(o).n, u)
           /\ ~Numbered(Head(o), c) => Heard(Tail(o), c, g, u)
<1>1. g <= u /\ Numbers(o, c) = FromTo(g, u)
    BY DEF Heard
<1>2. Numbers(o, c) = NumberOf(Head(o), c) \o Numbers(Tail(o), c)
    BY NumbersTypes
<1>3. Head(o) \in AllLines /\ Tail(o) \in Seq(AllLines)
    BY QueueFacts
<1>. DEFINE l == Head(o)  t == Numbers(Tail(o), c)
<1>4. t \in Seq(Nat) /\ l.n \in Nat
    BY <1>3, NumbersTypes, LineFacts DEF AllLines
<1>. HIDE DEF t
<1>5. ASSUME Numbered(l, c) PROVE g < u /\ Heard(Tail(o), c, l.n, u)
    <2>1. FromTo(g, u) = <<l.n>> \o t
        BY <1>1, <1>2, <1>5 DEF NumberOf, t
    <2>2. \A k \in Nat, s \in Seq(Nat) :
             FromTo(g, u) = <<k>> \o s => k = g + 1 /\ g < u /\ s = FromTo(g + 1, u)
        BY <1>1, FromToFacts
    <2>3. l.n = g + 1 /\ g < u /\ t = FromTo(g + 1, u)
        BY <1>4, <2>1, <2>2
    <2>4. l.n <= u
        BY <2>3
    <2>. QED
        BY <2>3, <2>4 DEF Heard, t
<1>6. ASSUME ~Numbered(l, c) PROVE Heard(Tail(o), c, g, u)
    <2>1. FromTo(g, u) = <<>> \o t
        BY <1>1, <1>2, <1>6 DEF NumberOf, t
    <2>2. <<>> \o t = t
        BY <1>4
    <2>. QED
        BY <1>1, <2>1, <2>2 DEF Heard, t
<1>. QED
    BY <1>5, <1>6

LEMMA UpPrime ==
    ASSUME phase' # "gone" =>
               \A c \in Conns :
                   /\ conn'[c] = "none" => up'[c] = 0
                   /\ (c = 0 \/ kept'[c] # "closed") => Heard(Out', c, parentGot'[c], up'[c])
    PROVE  UpInv'
<1>1. \A c : Heard(Out, c, parentGot[c], up[c])' = Heard(Out', c, parentGot'[c], up'[c])
    OBVIOUS
<1>. QED
    BY <1>1 DEF UpInv

LEMMA UpInit == ASSUME Init PROVE UpInv /\ GoneInv
<1>1. Out = <<>>
    <2>1. <<>> \o <<>> = <<>>
        OBVIOUS
    <2>. QED
        BY <2>1 DEF Init, Out
<1>2. FromTo(0, 0) = <<>>
    <2>1. 0 \in Nat /\ 0 <= 0
        OBVIOUS
    <2>. QED
        BY <2>1, FromToFacts
<1>3. <<>> \in Seq(AllLines)
    OBVIOUS
<1>4. \A c \in Conns : Numbers(Out, c) = <<>>
    BY <1>1, <1>3, NumbersTypes
<1>5. \A c \in Conns : up[c] = 0 /\ parentGot[c] = 0
    BY DEF Init
<1>6. \A c \in Conns : Heard(Out, c, parentGot[c], up[c])
    BY <1>2, <1>4, <1>5 DEF Heard
<1>. QED
    BY <1>5, <1>6 DEF UpInv, GoneInv, Init

(* A line is sent, with the next number of its conn.                        *)
LEMMA UpSends ==
    ASSUME TypeOK, UpInv, childUnwritten = <<>>, NEW line \in UpLines, Send(line),
           phase # "gone", UNCHANGED <<kept, parentGot>>, up' \in [Conns -> Nat],
           \A c \in Conns : /\ conn'[c] = "none" => conn[c] = "none"
                            /\ IF Numbered(line, c)
                               THEN up'[c] = up[c] + 1 /\ line.n = up[c] + 1
                                    /\ conn'[c] # "none"
                               ELSE up'[c] = up[c]
    PROVE  UpInv'
<1>. DEFINE o == Out  b == Out'
<1>1. b = Append(o, line) /\ o \in Seq(AllLines) /\ line \in AllLines
    BY OutSend, AheadType, LinesUnion
<1>. HIDE DEF o, b
<1>2. ASSUME NEW c \in Conns, c = 0 \/ kept'[c] # "closed"
      PROVE  Heard(b, c, parentGot'[c], up'[c])
    <2>. DEFINE g == parentGot[c]  u == up[c]  e == up'[c]
    <2>1. g \in Nat /\ u \in Nat /\ e \in Nat /\ parentGot'[c] = g
        BY DEF TypeOK, HistTypes
    <2>2. Heard(o, c, g, u)
        BY <1>2 DEF UpInv, o
    <2>3. IF Numbered(line, c) THEN e = u + 1 /\ line.n = u + 1 ELSE e = u
        OBVIOUS
    <2>. HIDE DEF g, u, e
    <2>4. Heard(Append(o, line), c, g, e)
        BY <1>1, <2>1, <2>2, <2>3, HeardAppend
    <2>. QED
        BY <1>1, <2>1, <2>4 DEF e
<1>3. \A c \in Conns : conn'[c] = "none" => up'[c] = 0
    BY DEF UpInv
<1>. QED
    BY <1>2, <1>3, UpPrime DEF b

(* Nothing is sent or read, or the process is gone.                         *)
LEMMA UpSame ==
    ASSUME TypeOK, UpInv,
           phase' # "gone" =>
               /\ phase # "gone" /\ UNCHANGED <<parentGot, up>>
               /\ \/ UNCHANGED <<stdout, childUnwritten>>
                  \/ stdout' = stdout \o childUnwritten /\ childUnwritten' = <<>>
               /\ \A c \in Conns : conn'[c] = "none" => conn[c] = "none"
               /\ \A p \in Ports : kept'[p] # "closed" => kept[p] # "closed"
    PROVE  UpInv'
<1>. SUFFICES ASSUME phase' # "gone"
              PROVE  \A c \in Conns :
                        /\ conn'[c] = "none" => up'[c] = 0
                        /\ (c = 0 \/ kept'[c] # "closed") =>
                              Heard(Out', c, parentGot'[c], up'[c])
    BY UpPrime
<1>1. Out' = Out
    <2>1. CASE UNCHANGED <<stdout, childUnwritten>>
        BY <2>1 DEF Out
    <2>2. CASE stdout' = stdout \o childUnwritten /\ childUnwritten' = <<>>
        BY <2>2, OutEnds
    <2>. QED
        BY <2>1, <2>2
<1>2. \A c \in Conns : c = 0 \/ c \in Ports
    BY DEF Conns
<1>. QED
    BY <1>1, <1>2 DEF UpInv

(* The parent reads a line.  One for a port whose end it still has cannot   *)
(* be there: the child does not know the port, and posted nothing on it.    *)
LEMMA UpReads ==
    ASSUME TypeOK, DownInv, UpInv, ParentReads \/ ParentThrows
    PROVE  UpInv'
<1>. DEFINE line == Head(stdout)  o == Out  b == Out'
<1>1. /\ stdout # <<>> /\ stdout' = Tail(stdout)
      /\ UNCHANGED <<phase, conn, up, childUnwritten>>
      /\ kept' = kept \/ (line.t = "close" /\ kept' = [kept EXCEPT ![line.on] = "closed"])
    BY DEF ParentReads, ParentThrows, childVars
<1>2. line \in UpLines /\ Shape(line) /\ line.on \in Conns
    BY <1>1, QueueFacts, LineFacts DEF TypeOK, PipeTypes
<1>3. o # <<>> /\ Head(o) = line /\ b = Tail(o) /\ o \in Seq(AllLines)
    BY <1>1, OutRead, AheadType, LinesUnion
<1>4. /\ kept \in [Ports -> {"local", "wired", "closed"}]
      /\ parentGot \in [Conns -> Nat] /\ up \in [Conns -> Nat]
    BY DEF TypeOK, ParentTypes, HistTypes
<1>5. \A c \in Conns : c = 0 \/ c \in Ports
    BY DEF Conns
<1>6. \/ line.t = "message" /\ parentGot' = [parentGot EXCEPT ![line.on] = line.n]
      \/ /\ line.t = "send"
         /\ parentGot' = IF kept[line.on] = "wired"
                         THEN [parentGot EXCEPT ![line.on] = line.n] ELSE parentGot
      \/ line.t \notin {"message", "send"} /\ parentGot' = parentGot
    BY DEF ParentReads, ParentThrows, Told
<1>. HIDE DEF line, o, b
<1>7. \A p \in Ports : kept'[p] # "closed" => kept'[p] = kept[p]
    BY <1>1, <1>4
<1>8. SUFFICES ASSUME phase # "gone", NEW c \in Conns, c = 0 \/ kept'[c] # "closed"
               PROVE  Heard(b, c, parentGot'[c], up[c])
    <2>1. ASSUME phase # "gone" PROVE \A c \in Conns : conn[c] = "none" => up[c] = 0
        BY <2>1 DEF UpInv
    <2>. QED
        BY <1>1, <1>8, <2>1, UpPrime DEF b
<1>. DEFINE g == parentGot[c]  u == up[c]
<1>9. g \in Nat /\ u \in Nat
    BY <1>4
<1>10. Heard(o, c, g, u)
    BY <1>5, <1>7, <1>8 DEF UpInv, o
<1>11. /\ Numbered(line, c) => g < u /\ Heard(b, c, line.n, u)
       /\ ~Numbered(line, c) => Heard(b, c, g, u)
    <2>. HIDE DEF g, u
    <2>. QED
        BY <1>3, <1>9, <1>10, HeardTail
<1>12. CASE ~Numbered(line, c)
    <2>1. parentGot'[c] = parentGot[c]
        BY <1>2, <1>4, <1>6, <1>12 DEF Numbered, Shape
    <2>. QED
        BY <1>11, <1>12, <2>1
<1>13. CASE Numbered(line, c)
    <2>1. line.on = c /\ line.t \in {"message", "send"}
        BY <1>13 DEF Numbered
    <2>2. CASE line.t = "message" \/ kept[c] = "wired"
        <3>1. parentGot'[c] = line.n
            BY <1>4, <1>6, <2>1, <2>2
        <3>. QED
            BY <1>11, <1>13, <3>1
    <2>3. CASE line.t = "send" /\ kept[c] # "wired"
        <3>1. c \in Ports /\ c # 0
            BY <1>2, <2>1, <2>3, PortsAssumption DEF Shape
        <3>2. kept[c] = "local"
            BY <1>4, <1>7, <1>8, <2>3, <3>1
        <3>3. conn[c] = "none"
            BY <1>8, <3>1, <3>2 DEF DownInv, Brought
        <3>4. u = 0
            BY <1>8, <3>3 DEF UpInv
        <3>. QED
            BY <1>9, <1>11, <1>13, <3>4
    <2>. QED
        BY <2>1, <2>2, <2>3
<1>. QED
    BY <1>12, <1>13

(* The steps that send a line which belongs to no conn.                     *)
LEMMA UpQuits ==
    ASSUME TypeOK, UpInv, childUnwritten = <<>>, phase # "gone", NEW t \in {"error", "exit"},
           NEW reads, NEW rest, NEW conns, SendAndQuit(Plain(t), reads, rest, conns),
           \A c \in Conns : conns[c] = "none" => conn[c] = "none",
           UNCHANGED <<kept, parentGot, up>>
    PROVE  UpInv'
<1>1. CASE phase = "loop" /\ Len(stdout) < PipeRoom
    BY <1>1, UpSame DEF SendAndQuit, ChildGone
<1>2. CASE ~(phase = "loop" /\ Len(stdout) < PipeRoom)
    <2>1. Send(Plain(t)) /\ conn' = conns
        BY <1>2 DEF SendAndQuit
    <2>2. Plain(t) \in UpLines /\ \A c \in Conns : ~Numbered(Plain(t), c)
        BY LineTypes DEF Plain, Line, Numbered
    <2>3. up' \in [Conns -> Nat]
        BY DEF TypeOK, HistTypes
    <2>. QED
        BY <2>1, <2>2, <2>3, UpSends
<1>. QED
    BY <1>1, <1>2

LEMMA UpParent ==
    ASSUME TypeOK, UpInv,
           \/ \E v \in Values, port \in Conns : Post(v, port)
           \/ \E p \in Ports : KeptPost(p) \/ KeptClose(p)
           \/ Terminate \/ WriteEnds \/ ForceExit \/ OnExit \/ UNCHANGED vars
    PROVE  UpInv'
<1>0. kept \in [Ports -> {"local", "wired", "closed"}]
    BY DEF TypeOK, ParentTypes
<1>1. CASE \E v \in Values, port \in Conns : Post(v, port)
    <2>1. PICK v \in Values, port \in Conns : Post(v, port)
        BY <1>1
    <2>2. /\ port # 0 => kept[port] = "local"
          /\ kept' = [p \in Ports |-> IF p = port THEN "wired" ELSE kept[p]]
          /\ UNCHANGED <<stdout, childUnwritten, phase, conn, parentGot, up>>
        BY <2>1 DEF Post, childVars
    <2>3. \A p \in Ports : kept'[p] # "closed" => kept[p] # "closed"
        BY <2>2, PortsAssumption
    <2>. QED
        BY <2>2, <2>3, UpSame DEF UpInv
<1>2. CASE \E p \in Ports : KeptPost(p) \/ KeptClose(p)
    <2>1. PICK p \in Ports : KeptPost(p) \/ KeptClose(p)
        BY <1>2
    <2>2. /\ kept' = kept \/ kept' = [kept EXCEPT ![p] = "closed"]
          /\ UNCHANGED <<stdout, childUnwritten, phase, conn, parentGot, up>>
        BY <2>1 DEF KeptPost, KeptClose, childVars
    <2>3. \A q \in Ports : kept'[q] # "closed" => kept[q] # "closed"
        BY <1>0, <2>2
    <2>. QED
        BY <2>2, <2>3, UpSame DEF UpInv
<1>3. CASE Terminate \/ WriteEnds \/ UNCHANGED vars
    <2>1. UNCHANGED <<kept, stdout, childUnwritten, phase, conn, parentGot, up>>
        BY <1>3 DEF Terminate, WriteEnds, vars, pipes, parentVars, childVars
    <2>. QED
        BY <2>1, UpSame DEF UpInv
<1>4. CASE ForceExit
    <2>1. CASE phase' = "gone"
        BY <2>1, UpSame
    <2>2. CASE phase' # "gone"
        <3>1. UNCHANGED <<kept, stdout, childUnwritten, phase, conn, parentGot, up>>
            BY <1>4, <2>2 DEF ForceExit, ChildGone
        <3>. QED
            BY <2>2, <3>1, UpSame
    <2>. QED
        BY <2>1, <2>2
<1>5. CASE OnExit
    BY <1>5, UpSame DEF OnExit, childVars
<1>. QED
    BY <1>1, <1>2, <1>3, <1>4, <1>5

LEMMA UpTakes ==
    ASSUME TypeOK, UpInv, Boot \/ Deliver \/ Fail \/ TakeTerminate \/ PortLine \/ SendEnds
    PROVE  UpInv'
<1>0. /\ conn \in [Conns -> {"none", "open", "heard", "closed"}] /\ up \in [Conns -> Nat]
      /\ \A line, c : Rebuilt(line)[c] = "none" /\ c \in Conns => conn[c] = "none"
    BY DEF TypeOK, ChildTypes, HistTypes, Rebuilt
<1>1. CASE Boot
    <2>1. /\ Send(Plain("online")) /\ childUnwritten = <<>> /\ phase # "gone"
          /\ UNCHANGED <<kept, parentGot, up, conn>>
        BY <1>1 DEF Boot, Reads, ChildRuns, parentVars
    <2>2. Plain("online") \in UpLines /\ \A c \in Conns : ~Numbered(Plain("online"), c)
        BY LineTypes DEF Plain, Line, Numbered
    <2>. QED
        BY <1>0, <2>1, <2>2, UpSends
<1>2. CASE Deliver
    <2>1. /\ phase # "gone" /\ conn' = Rebuilt(Head(stdin))
          /\ UNCHANGED <<kept, stdout, childUnwritten, phase, parentGot, up>>
        BY <1>2 DEF Deliver, Reads, ChildRuns, parentVars
    <2>. QED
        BY <1>0, <2>1, UpSame
<1>3. CASE Fail
    <2>. DEFINE conns == IF Materialises(Head(stdin)) THEN Rebuilt(Head(stdin)) ELSE conn
    <2>1. /\ childUnwritten = <<>> /\ phase # "gone" /\ UNCHANGED <<kept, parentGot, up>>
          /\ SendAndQuit(Plain("error"), FALSE, Tail(stdin), conns)
        BY <1>3 DEF Fail, Reads, ChildRuns, parentVars
    <2>2. \A c \in Conns : conns[c] = "none" => conn[c] = "none"
        BY <1>0
    <2>. HIDE DEF conns
    <2>. QED
        BY <2>1, <2>2, UpQuits
<1>4. CASE TakeTerminate
    <2>1. /\ childUnwritten = <<>> /\ phase # "gone" /\ UNCHANGED <<kept, parentGot, up>>
          /\ SendAndQuit(Plain("exit"), FALSE, Tail(stdin), conn)
        BY <1>4 DEF TakeTerminate, Reads, ChildRuns, parentVars
    <2>. QED
        BY <2>1, UpQuits
<1>5. CASE PortLine
    <2>1. /\ phase # "gone" /\ UNCHANGED <<kept, stdout, childUnwritten, phase, parentGot, up>>
          /\ conn' = conn \/ conn' = [conn EXCEPT ![Head(stdin).on] = "closed"]
        BY <1>5 DEF PortLine, Reads, ChildRuns, parentVars
    <2>2. \A c \in Conns : conn'[c] = "none" => conn[c] = "none"
        BY <1>0, <2>1
    <2>. QED
        BY <2>1, <2>2, UpSame
<1>6. CASE SendEnds
    <2>1. /\ stdout' = stdout \o childUnwritten /\ UNCHANGED <<kept, parentGot, up>>
          /\ phase' # "gone" => childUnwritten' = <<>> /\ UNCHANGED <<phase, conn>>
        BY <1>6 DEF SendEnds, ChildGone, parentVars
    <2>. QED
        BY <2>1, UpSame
<1>. QED
    BY <1>1, <1>2, <1>3, <1>4, <1>5, <1>6

LEMMA UpCode ==
    ASSUME TypeOK, UpInv,
           \/ \E c \in Conns : Listen(c) \/ ChildPost(c)
           \/ \E p \in Ports : ChildPortClose(p)
           \/ ChildClose \/ EndCode \/ ChildPrints \/ Die
    PROVE  UpInv'
<1>0. conn \in [Conns -> {"none", "open", "heard", "closed"}] /\ up \in [Conns -> Nat]
    BY DEF TypeOK, ChildTypes, HistTypes
<1>1. CASE \E c \in Conns : Listen(c)
    <2>1. PICK c \in Conns : Listen(c)
        BY <1>1
    <2>2. /\ phase # "gone" /\ conn' = [conn EXCEPT ![c] = "heard"]
          /\ UNCHANGED <<kept, stdout, childUnwritten, phase, parentGot, up>>
        BY <2>1 DEF Listen, UserRuns, ChildRuns, pipes, parentVars
    <2>3. \A d \in Conns : conn'[d] = "none" => conn[d] = "none"
        BY <1>0, <2>2
    <2>. QED
        BY <2>2, <2>3, UpSame
<1>2. CASE \E c \in Conns : ChildPost(c)
    <2>1. PICK c \in Conns : ChildPost(c)
        BY <1>2
    <2>. DEFINE line == Line(IF c = 0 THEN "message" ELSE "send", c, up'[c], <<>>, 0)
    <2>2. /\ up' = [up EXCEPT ![c] = @ + 1] /\ childUnwritten = <<>> /\ phase # "gone"
          /\ Send(line) /\ conn[c] \in {"open", "heard"}
          /\ UNCHANGED <<kept, parentGot, conn>>
        BY <2>1 DEF ChildPost, UserRuns, ChildRuns, parentVars
    <2>3. /\ up' \in [Conns -> Nat] /\ up'[c] = up[c] + 1 /\ up'[c] \in Nat
          /\ \A d \in Conns : d # c => up'[d] = up[d]
        BY <1>0, <2>2
    <2>4. line \in UpLines
        <3>1. CASE c = 0
            BY <2>3, <3>1, LineTypes
        <3>2. CASE c # 0
            BY <2>3, <3>2, LineTypes DEF Conns
        <3>. QED
            BY <3>1, <3>2
    <2>5. line.t \in {"message", "send"} /\ line.on = c /\ line.n = up'[c]
        BY DEF Line
    <2>. HIDE DEF line
    <2>6. \A d \in Conns : /\ conn'[d] = "none" => conn[d] = "none"
                           /\ IF Numbered(line, d)
                              THEN up'[d] = up[d] + 1 /\ line.n = up[d] + 1
                                   /\ conn'[d] # "none"
                              ELSE up'[d] = up[d]
        BY <2>2, <2>3, <2>5 DEF Numbered
    <2>. QED
        BY <2>2, <2>3, <2>4, <2>6, UpSends
<1>3. CASE \E p \in Ports : ChildPortClose(p)
    <2>1. PICK p \in Ports : ChildPortClose(p)
        BY <1>3
    <2>. DEFINE line == Line("close", p, 0, <<>>, 0)
    <2>2. /\ conn' = [conn EXCEPT ![p] = "closed"] /\ childUnwritten = <<>>
          /\ phase # "gone" /\ Send(line) /\ UNCHANGED <<kept, parentGot, up>>
        BY <2>1 DEF ChildPortClose, UserRuns, ChildRuns, parentVars
    <2>3. line \in UpLines /\ \A c \in Conns : ~Numbered(line, c)
        BY LineTypes DEF Line, Numbered
    <2>4. \A c \in Conns : conn'[c] = "none" => conn[c] = "none"
        BY <1>0, <2>2
    <2>. HIDE DEF line
    <2>. QED
        BY <1>0, <2>2, <2>3, <2>4, UpSends
<1>4. CASE ChildClose
    <2>1. /\ childUnwritten = <<>> /\ phase # "gone" /\ UNCHANGED <<kept, parentGot, up>>
          /\ SendAndQuit(Plain("exit"), childReading, stdin, conn)
        BY <1>4 DEF ChildClose, UserRuns, ChildRuns, parentVars
    <2>. QED
        BY <2>1, UpQuits
<1>5. CASE EndCode \/ ChildPrints
    <2>1. /\ childUnwritten = <<>> /\ phase # "gone"
          /\ UNCHANGED <<kept, parentGot, up, conn>>
          /\ \/ \E t \in {"thrown", "text"} : Send(Plain(t))
             \/ UNCHANGED <<stdout, childUnwritten>>
        BY <1>5 DEF EndCode, ChildPrints, UserRuns, ChildRuns, parentVars
    <2>2. CASE UNCHANGED <<stdout, childUnwritten>>
        BY <2>1, <2>2, UpSame
    <2>3. CASE \E t \in {"thrown", "text"} : Send(Plain(t))
        <3>1. PICK t \in {"thrown", "text"} : Send(Plain(t))
            BY <2>3
        <3>2. Plain(t) \in UpLines /\ \A c \in Conns : ~Numbered(Plain(t), c)
            BY LineTypes DEF Plain, Line, Numbered
        <3>. QED
            BY <1>0, <2>1, <3>1, <3>2, UpSends
    <2>. QED
        BY <2>1, <2>2, <2>3
<1>6. CASE Die
    BY <1>6, UpSame DEF Die, ChildGone
<1>. QED
    BY <1>1, <1>2, <1>3, <1>4, <1>5, <1>6

LEMMA UpStep == TypeOK /\ DownInv /\ UpInv /\ [Next]_vars => UpInv'
<1>. SUFFICES ASSUME TypeOK, DownInv, UpInv, [Next]_vars PROVE UpInv'
    OBVIOUS
<1>1. CASE Parent
    BY <1>1, UpParent, UpReads DEF Parent
<1>2. CASE Child
    BY <1>2, UpTakes, UpCode DEF Child
<1>3. CASE UNCHANGED vars
    BY <1>3, UpParent
<1>. QED
    BY <1>1, <1>2, <1>3 DEF Next

(* What is gone has no conns.                                               *)
LEMMA GoneStep == GoneInv /\ [Next]_vars => GoneInv'
<1>. SUFFICES ASSUME GoneInv, [Next]_vars PROVE GoneInv'
    OBVIOUS
<1>1. ASSUME ChildGone PROVE GoneInv'
    BY <1>1 DEF ChildGone, GoneInv
<1>2. ASSUME UNCHANGED <<phase, conn>> PROVE GoneInv'
    BY <1>2 DEF GoneInv
<1>3. CASE Parent
    BY <1>1, <1>2, <1>3 DEF Parent, Post, KeptPost, KeptClose, Terminate, WriteEnds,
        ForceExit, OnExit, ParentReads, ParentThrows, childVars
<1>4. CASE Child
    <2>1. CASE SendEnds \/ Die
        BY <1>1, <1>2, <2>1 DEF SendEnds, Die
    <2>2. CASE ~(SendEnds \/ Die)
        <3>1. phase # "gone" /\ (phase' = "gone" => ChildGone)
            BY <1>4, <2>2 DEF Child, Boot, Deliver, Fail, TakeTerminate, PortLine, Listen,
                ChildPost, ChildPortClose, ChildClose, EndCode, ChildPrints, SendAndQuit,
                Reads, UserRuns, ChildRuns
        <3>. QED
            BY <1>1, <3>1 DEF GoneInv
    <2>. QED
        BY <2>1, <2>2
<1>5. CASE UNCHANGED vars
    BY <1>2, <1>5 DEF vars, childVars
<1>. QED
    BY <1>3, <1>4, <1>5 DEF Next

(* On each conn and either way, once a listener is told of a message it is  *)
(* told of all the next ones, in order and once; the parent of all from the *)
(* first.                                                                   *)
THEOREM MessagesInOrder == ASSUME Matching PROVE Spec => []InOrder
<1>1. TypeOK /\ DownInv /\ UpInv /\ GoneInv => InOrder
    <2>. SUFFICES ASSUME TypeOK, DownInv, UpInv, GoneInv PROVE InOrder
        OBVIOUS
    <2>1. ASSUME NEW c \in Conns, childGot[c] # 0, conn[c] = "heard"
          PROVE  Numbers(Ahead, c) = FromTo(childGot[c], down[c])
        <3>1. phase # "gone"
            BY <2>1 DEF GoneInv
        <3>. QED
            BY <2>1, <3>1 DEF DownInv, Order
    <2>2. ASSUME NEW c \in Conns, phase # "gone", c = 0 \/ kept[c] = "wired"
          PROVE  Numbers(Out, c) = FromTo(parentGot[c], up[c])
        BY <2>2 DEF UpInv, Heard
    <2>. QED
        BY <2>1, <2>2 DEF InOrder, Out
<1>. QED
    BY <1>1, TypeInit, TypeStep, DownInit, DownStep, UpInit, UpStep, GoneStep, PTL DEF Spec
=============================================================================
