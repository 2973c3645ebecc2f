------------------------------ MODULE PortProofs ------------------------------
(* Proofs about MessagePort, for every number of ports and messages.        *)
EXTENDS MessagePort, DataTheorems

-----------------------------------------------------------------------------
(* Type correctness.                                                        *)
Vias == {"w3c", "ee"}
Messages == [n : Nat, port : 0..MaxPorts]
JobSet == [to : Ports, via : Vias, msg : Messages]

PortTypes ==
    /\ np \in 4..MaxPorts /\ known \in SUBSET Ports
    /\ other \in [Ports -> 0..MaxPorts] /\ end \in [Ports -> Ports]
    /\ closed \in [Ports -> BOOLEAN] /\ detached \in [Ports -> BOOLEAN]
    /\ started \in [Ports -> BOOLEAN]
QueueTypes == queue \in [Ports -> Seq(Messages)] /\ micro \in Seq(JobSet)
HistTypes ==
    /\ sent \in [Ends -> Nat]
    /\ emitted \in [Ends -> Seq(Nat)] /\ dispatched \in [Ends -> Seq(Nat)]
TypeOK == PortTypes /\ QueueTypes /\ HistTypes

(* Two ports are linked to each other, and neither of them is closed.       *)
LinkInv ==
    \A p \in Ports : other[p] # NoPort =>
        other[p] # p /\ other[other[p]] = p /\ ~closed[p]

(* Each end has one port that was not transferred, its owner.               *)
OwnerInv ==
    /\ \A e \in Ends : end[e] = e /\ \E p \in 1..np : end[p] = e /\ ~detached[p]
    /\ \A p \in 1..np : end[p] \in Ends
    /\ \A p, q \in 1..np : end[p] = end[q] /\ ~detached[p] /\ ~detached[q] => p = q
    /\ \A p \in Ports : detached[p] => closed[p]

(* Ports that were not created are as a new port is.                        *)
FutureInv ==
    \A p \in Ports : p > np =>
        /\ ~closed[p] /\ ~detached[p] /\ ~started[p] /\ queue[p] = <<>>
        /\ other[p] = NoPort /\ p \notin known
CarriedInv ==
    /\ \A p \in Ports : \A i \in 1..Len(queue[p]) : queue[p][i].port <= np
    /\ \A i \in 1..Len(micro) : micro[i].msg.port <= np

(* A port that was started has no queue, and only such a port has jobs.     *)
StartInv ==
    /\ \A p \in Ports : started[p] => queue[p] = <<>>
    /\ \A i \in 1..Len(micro) : started[micro[i].to]
PortInv == TypeOK /\ LinkInv /\ OwnerInv /\ FutureInv /\ CarriedInv /\ StartInv

LEMMA EndsArePorts ==
    /\ MaxPosts \in Nat /\ MaxPorts \in Nat /\ MaxPorts >= 4
    /\ Ends \subseteq Ports /\ Ends \subseteq Nat
    /\ Ports \subseteq Nat /\ NoPort \notin Ports /\ NoPort \in Nat
BY BoundAssumption DEF Ends, Ports, NoPort

LEMMA PortInit == Init => PortInv
<1>. SUFFICES ASSUME Init PROVE PortInv
    OBVIOUS
<1>. USE EndsArePorts
<1>1. TypeOK
    <2>1. PortTypes
        BY DEF Init, PortTypes, Ports, Ends, NoPort
    <2>2. QueueTypes /\ HistTypes
        BY DEF Init, QueueTypes, HistTypes
    <2>. QED
        BY <2>1, <2>2 DEF TypeOK
<1>2. LinkInv
    BY DEF Init, LinkInv, Ports, NoPort
<1>3. OwnerInv
    BY DEF Init, OwnerInv, Ports, Ends
<1>4. FutureInv
    BY DEF Init, FutureInv, Ports, Ends
<1>5. CarriedInv /\ StartInv
    BY DEF Init, CarriedInv, StartInv
<1>. QED
    BY <1>1, <1>2, <1>3, <1>4, <1>5 DEF PortInv

-----------------------------------------------------------------------------
(* What the steps do to queues and jobs.                                    *)
LEMMA SeqFacts ==
    ASSUME NEW X
    PROVE  /\ \A s \in Seq(X), x \in X :
                 /\ Append(s, x) \in Seq(X) /\ Len(Append(s, x)) = Len(s) + 1
                 /\ \A i \in 1..(Len(s) + 1) :
                       Append(s, x)[i] = IF i = Len(s) + 1 THEN x ELSE s[i]
           /\ \A s \in Seq(X) : s # <<>> =>
                 /\ Head(s) \in X /\ Head(s) = s[1] /\ Tail(s) \in Seq(X)
                 /\ Len(s) \in Nat \ {0} /\ Len(Tail(s)) = Len(s) - 1
                 /\ \A i \in 1..(Len(s) - 1) : Tail(s)[i] = s[i + 1]
OBVIOUS

LEMMA TwoJobs ==
    ASSUME NEW X, NEW s \in Seq(X), NEW a \in X, NEW b \in X
    PROVE  s \o <<a, b>> = Append(Append(s, a), b)
OBVIOUS

LEMMA JobType ==
    \A p \in Ports, via \in Vias, m \in Messages :
        /\ Job(p, via, m) \in JobSet
        /\ Job(p, via, m).to = p /\ Job(p, via, m).via = via /\ Job(p, via, m).msg = m
BY DEF Job, JobSet

LEMMA MessageFacts ==
    /\ \A m \in Messages : m.n \in Nat /\ m.port \in 0..MaxPorts /\ m.port \in Nat
    /\ \A j \in JobSet : j.to \in Ports /\ j.via \in Vias /\ j.msg \in Messages
<1>. USE EndsArePorts
<1>1. \A m \in Messages : m.n \in Nat /\ m.port \in 0..MaxPorts /\ m.port \in Nat
    BY DEF Messages
<1>2. \A j \in JobSet : j.to \in Ports /\ j.via \in Vias /\ j.msg \in Messages
    BY DEF JobSet
<1>. QED
    BY <1>1, <1>2

LEMMA Held ==
    ASSUME PortInv
    PROVE  /\ \A i \in 1..Len(micro) :
                 /\ micro[i] \in JobSet /\ started[micro[i].to]
                 /\ micro[i].msg.port <= np /\ micro[i].msg.port \in Nat
           /\ \A q \in Ports : \A i \in 1..Len(queue[q]) :
                 /\ queue[q][i] \in Messages
                 /\ queue[q][i].port <= np /\ queue[q][i].port \in Nat
<1>1. queue \in [Ports -> Seq(Messages)] /\ micro \in Seq(JobSet)
    BY DEF PortInv, TypeOK, QueueTypes
<1>2. \A i \in 1..Len(micro) : micro[i] \in JobSet
    BY <1>1
<1>3. \A q \in Ports : \A i \in 1..Len(queue[q]) : queue[q][i] \in Messages
    BY <1>1
<1>4. \A i \in 1..Len(micro) : started[micro[i].to] /\ micro[i].msg.port <= np
    BY DEF PortInv, CarriedInv, StartInv
<1>5. \A q \in Ports : \A i \in 1..Len(queue[q]) : queue[q][i].port <= np
    BY DEF PortInv, CarriedInv
<1>6. \A i \in 1..Len(micro) : micro[i].msg.port \in Nat
    BY <1>2, MessageFacts
<1>7. \A q \in Ports : \A i \in 1..Len(queue[q]) : queue[q][i].port \in Nat
    BY <1>3, MessageFacts
<1>. QED
    BY <1>2, <1>3, <1>4, <1>5, <1>6, <1>7

(* What a port that is told, or that keeps a message for later, leaves true. *)
LEMMA ReceiveKeeps ==
    ASSUME PortInv, NEW p \in Ports, NEW m \in Messages, Receive(p, m), UNCHANGED started,
           np \in Nat, np' \in Nat, np <= np', m.port <= np', p <= np
    PROVE  /\ QueueTypes' /\ CarriedInv' /\ StartInv'
           /\ \A q \in Ports : q > np => queue'[q] = <<>>
<1>1. queue \in [Ports -> Seq(Messages)] /\ micro \in Seq(JobSet)
      /\ \A q \in Ports : q \in Nat
    BY EndsArePorts DEF PortInv, TypeOK, QueueTypes
<1>2. \A q \in Ports : q > np => queue[q] = <<>>
    BY DEF PortInv, FutureInv
<1>3. CASE started[p]
    <2>. DEFINE a == Job(p, "w3c", m)  b == Job(p, "ee", m)  s == Append(micro, a)
    <2>1. /\ a \in JobSet /\ b \in JobSet
          /\ a.to = p /\ b.to = p /\ a.msg = m /\ b.msg = m
        BY JobType DEF Vias
    <2>. HIDE DEF a, b
    <2>2. /\ micro' = Append(s, b) /\ s \in Seq(JobSet) /\ Len(s) = Len(micro) + 1
          /\ micro' \in Seq(JobSet) /\ queue' = queue /\ Len(micro') = (Len(micro) + 1) + 1
          /\ \A i \in 1..((Len(micro) + 1) + 1) :
                micro'[i] = IF i = (Len(micro) + 1) + 1 THEN b
                            ELSE IF i = Len(micro) + 1 THEN a ELSE micro[i]
        <3>1. micro' = s \o <<b>> \/ micro' = Append(s, b)
            BY <1>1, <1>3, <2>1, TwoJobs DEF Receive, a, b
        <3>2. s \in Seq(JobSet) /\ Len(s) = Len(micro) + 1
              /\ \A i \in 1..(Len(micro) + 1) : s[i] = IF i = Len(micro) + 1 THEN a ELSE micro[i]
            BY <1>1, <2>1, SeqFacts
        <3>. HIDE DEF s
        <3>3. micro' = Append(s, b)
            BY <2>1, <3>1, <3>2
        <3>4. Len(micro) \in Nat
            BY <1>1
        <3>. QED
            BY <1>3, <2>1, <3>2, <3>3, <3>4, SeqFacts DEF Receive
    <2>3. QueueTypes'
        BY <1>1, <2>2 DEF QueueTypes
    <2>4. ASSUME NEW i \in 1..Len(micro')
          PROVE  micro'[i].msg.port <= np' /\ started'[micro'[i].to]
        <3>1. \A j \in 1..Len(micro) : micro[j].msg.port <= np /\ started[micro[j].to]
              /\ micro[j].msg.port \in Nat
            BY Held
        <3>2. Len(micro) \in Nat
            BY <1>1
        <3>3. i \in 1..Len(micro) \/ i = Len(micro) + 1 \/ i = (Len(micro) + 1) + 1
            BY <2>2, <3>2
        <3>4. CASE i \in 1..Len(micro)
            <4>1. micro'[i] = micro[i]
                BY <2>2, <3>2, <3>4
            <4>. QED
                BY <3>1, <3>4, <4>1
        <3>5. CASE i = Len(micro) + 1
            BY <1>3, <2>1, <2>2, <3>2, <3>5
        <3>6. CASE i = (Len(micro) + 1) + 1
            BY <1>3, <2>1, <2>2, <3>2, <3>6
        <3>. QED
            BY <3>3, <3>4, <3>5, <3>6
    <2>5. \A q \in Ports : \A i \in 1..Len(queue'[q]) : queue'[q][i].port <= np'
        <3>1. \A q \in Ports : \A i \in 1..Len(queue[q]) :
                 queue[q][i].port <= np /\ queue[q][i].port \in Nat
            BY Held
        <3>. QED
            BY <2>2, <3>1
    <2>6. \A q \in Ports : started'[q] => queue'[q] = <<>>
        BY <2>2 DEF PortInv, StartInv
    <2>. QED
        BY <1>2, <2>2, <2>3, <2>4, <2>5, <2>6 DEF CarriedInv, StartInv
<1>4. CASE ~started[p]
    <2>1. /\ queue' = [queue EXCEPT ![p] = Append(queue[p], m)] /\ micro' = micro
        BY <1>4 DEF Receive
    <2>. DEFINE s == Append(queue[p], m)
    <2>2. /\ s \in Seq(Messages) /\ Len(s) = Len(queue[p]) + 1
          /\ \A i \in 1..(Len(queue[p]) + 1) :
                s[i] = IF i = Len(queue[p]) + 1 THEN m ELSE queue[p][i]
        <3>1. queue[p] \in Seq(Messages)
            BY <1>1
        <3>. QED
            BY <3>1, SeqFacts
    <2>. HIDE DEF s
    <2>3. /\ queue' \in [Ports -> Seq(Messages)] /\ queue'[p] = s
          /\ \A q \in Ports : q # p => queue'[q] = queue[q]
        BY <1>1, <2>1, <2>2 DEF s
    <2>4. QueueTypes'
        BY <1>1, <2>1, <2>3 DEF QueueTypes
    <2>5. ASSUME NEW q \in Ports, NEW i \in 1..Len(queue'[q])
          PROVE  queue'[q][i].port <= np'
        <3>1. \A j \in 1..Len(queue[q]) :
                 queue[q][j].port <= np /\ queue[q][j].port \in Nat
            BY Held
        <3>2. CASE q # p
            <4>1. queue'[q] = queue[q]
                BY <2>3, <3>2
            <4>. QED
                BY <3>1, <4>1
        <3>3. CASE q = p
            <4>1. Len(queue[p]) \in Nat
                BY <1>1
            <4>2. i \in 1..(Len(queue[p]) + 1) /\ queue'[q][i] = s[i]
                BY <2>2, <2>3, <3>3
            <4>3. CASE i = Len(queue[p]) + 1
                BY <2>2, <4>2, <4>3
            <4>4. CASE i # Len(queue[p]) + 1
                <5>1. i \in 1..Len(queue[p]) /\ s[i] = queue[p][i]
                    BY <2>2, <4>1, <4>2, <4>4
                <5>. QED
                    BY <3>1, <3>3, <4>2, <5>1
            <4>. QED
                BY <4>3, <4>4
        <3>. QED
            BY <3>2, <3>3
    <2>6. \A i \in 1..Len(micro') : micro'[i].msg.port <= np' /\ started'[micro'[i].to]
        <3>1. \A j \in 1..Len(micro) : micro[j].msg.port <= np /\ started[micro[j].to]
              /\ micro[j].msg.port \in Nat
            BY Held
        <3>. QED
            BY <2>1, <3>1
    <2>7. \A q \in Ports : started'[q] => queue'[q] = <<>>
        BY <1>4, <2>3 DEF PortInv, StartInv
    <2>8. \A q \in Ports : q > np => queue'[q] = <<>>
        <3>1. \A q \in Ports : q > np => q # p
            BY <1>1
        <3>. QED
            BY <1>2, <2>3, <3>1
    <2>. QED
        BY <2>4, <2>5, <2>6, <2>7, <2>8 DEF CarriedInv, StartInv
<1>. QED
    BY <1>3, <1>4

(* The partner of a port that may post.                                     *)
LEMMA Partner ==
    ASSUME PortInv, NEW p \in Ports, MayPost(p)
    PROVE  /\ other[p] \in Ports /\ other[p] <= np /\ other[p] \in 1..np
           /\ ~closed[other[p]] /\ ~detached[other[p]] /\ other[other[p]] = p
           /\ end[other[p]] \in Ends /\ p \in 1..np
<1>. USE EndsArePorts
<1>1. np \in Nat /\ other \in [Ports -> 0..MaxPorts] /\ known \in SUBSET Ports
    BY DEF PortInv, TypeOK, PortTypes
<1>2. other[p] \in Ports /\ other[other[p]] = p /\ p # NoPort
    BY <1>1 DEF PortInv, LinkInv, MayPost, Ports, NoPort
<1>3. ~closed[other[p]]
    BY <1>2 DEF PortInv, LinkInv
<1>4. ~(other[p] > np) /\ ~(p > np)
    BY <1>2 DEF PortInv, FutureInv, MayPost
<1>5. other[p] \in 1..np /\ p \in 1..np
    BY <1>1, <1>2, <1>4 DEF Ports
<1>. QED
    BY <1>2, <1>3, <1>5 DEF PortInv, OwnerInv

LEMMA Same ==
    ASSUME PortInv, UNCHANGED <<portVars, known>>
    PROVE  PortTypes' /\ LinkInv' /\ OwnerInv'
<1>1. /\ np' = np /\ other' = other /\ closed' = closed /\ detached' = detached
      /\ started' = started /\ end' = end /\ known' = known
    BY DEF portVars
<1>. QED
    BY <1>1 DEF PortInv, TypeOK, PortTypes, LinkInv, OwnerInv

LEMMA SentType ==
    ASSUME HistTypes, NEW e \in Ends, sent' = [sent EXCEPT ![e] = @ + 1],
           UNCHANGED <<emitted, dispatched>>
    PROVE  HistTypes'
BY DEF HistTypes

LEMMA MessageType ==
    ASSUME PortInv, NEW e \in Ends, NEW port \in 0..MaxPorts
    PROVE  /\ Message(e, port) \in Messages
           /\ Message(e, port).n = sent[e] + 1 /\ Message(e, port).port = port
<1>1. sent[e] \in Nat
    BY DEF PortInv, TypeOK, HistTypes
<1>. QED
    BY <1>1 DEF Message, Messages

LEMMA PortPost ==
    ASSUME PortInv, NEW p \in Ports, Post(p)
    PROVE  PortInv'
<1>. DEFINE t == other[p]  e == end[other[p]]
<1>1. t \in Ports /\ t <= np /\ e \in Ends
    BY Partner DEF Post
<1>2. /\ Receive(t, Message(e, NoPort)) /\ sent' = [sent EXCEPT ![e] = @ + 1]
      /\ UNCHANGED <<portVars, known, emitted, dispatched>>
    BY DEF Post
<1>3. np \in Nat /\ np' = np /\ started' = started
    BY <1>2, EndsArePorts DEF PortInv, TypeOK, PortTypes, portVars
<1>4. /\ Message(e, NoPort) \in Messages /\ Message(e, NoPort).port <= np'
      /\ NoPort \in 0..MaxPorts
    <2>. HIDE DEF e
    <2>1. NoPort \in 0..MaxPorts /\ NoPort <= np
        BY <1>3, EndsArePorts DEF NoPort
    <2>2. Message(e, NoPort) \in Messages /\ Message(e, NoPort).port = NoPort
        BY <1>1, <2>1, MessageType
    <2>. QED
        BY <1>3, <2>1, <2>2
<1>. HIDE DEF t, e
<1>5. /\ QueueTypes' /\ CarriedInv' /\ StartInv'
      /\ \A q \in Ports : q > np => queue'[q] = <<>>
    BY <1>1, <1>2, <1>3, <1>4, ReceiveKeeps
<1>6. PortTypes' /\ LinkInv' /\ OwnerInv'
    BY <1>2, Same
<1>7. HistTypes'
    BY <1>1, <1>2, SentType DEF PortInv, TypeOK
<1>8. FutureInv'
    BY <1>2, <1>5 DEF PortInv, FutureInv, portVars
<1>. QED
    BY <1>5, <1>6, <1>7, <1>8 DEF PortInv, TypeOK

LEMMA CatMembers ==
    ASSUME NEW X, NEW s \in Seq(X), NEW t \in Seq(X), NEW i \in 1..Len(s \o t)
    PROVE  \/ \E j \in 1..Len(s) : (s \o t)[i] = s[j]
           \/ \E j \in 1..Len(t) : (s \o t)[i] = t[j]
<1>1. Len(s) \in Nat /\ Len(t) \in Nat /\ Len(s \o t) = Len(s) + Len(t)
    OBVIOUS
<1>2. CASE i <= Len(s)
    BY <1>1, <1>2
<1>3. CASE ~(i <= Len(s))
    <2>1. i - Len(s) \in 1..Len(t) /\ (s \o t)[i] = t[i - Len(s)]
        BY <1>1, <1>3
    <2>. QED
        BY <2>1
<1>. QED
    BY <1>2, <1>3

LEMMA JobsType ==
    ASSUME NEW p \in Ports, NEW via \in Vias, NEW ms \in Seq(Messages)
    PROVE  /\ Jobs(p, via, ms) \in Seq(JobSet) /\ Len(Jobs(p, via, ms)) = Len(ms)
           /\ \A i \in 1..Len(ms) :
                 /\ Jobs(p, via, ms)[i].to = p /\ Jobs(p, via, ms)[i].via = via
                 /\ Jobs(p, via, ms)[i].msg = ms[i]
<1>1. DOMAIN ms = 1..Len(ms) /\ Len(ms) \in Nat /\ \A i \in 1..Len(ms) : ms[i] \in Messages
    OBVIOUS
<1>2. Jobs(p, via, ms) = [i \in 1..Len(ms) |-> Job(p, via, ms[i])]
    BY <1>1 DEF Jobs
<1>3. \A i \in 1..Len(ms) : /\ Job(p, via, ms[i]) \in JobSet /\ Job(p, via, ms[i]).to = p
                            /\ Job(p, via, ms[i]).via = via /\ Job(p, via, ms[i]).msg = ms[i]
    BY <1>1, JobType
<1>. QED
    BY <1>1, <1>2, <1>3

LEMMA PortStart ==
    ASSUME PortInv, NEW p \in Ports, p \in known, StartInner(p)
    PROVE  PortInv'
<1>1. /\ queue \in [Ports -> Seq(Messages)] /\ micro \in Seq(JobSet) /\ np \in Nat
      /\ started \in [Ports -> BOOLEAN] /\ \A q \in Ports : q \in Nat
    BY EndsArePorts DEF PortInv, TypeOK, QueueTypes, PortTypes
<1>2. /\ started' = [started EXCEPT ![p] = TRUE] /\ queue' = [queue EXCEPT ![p] = <<>>]
      /\ micro' = micro \o Jobs(p, "w3c", queue[p]) \o Jobs(p, "ee", queue[p])
      /\ np' = np /\ other' = other /\ closed' = closed /\ detached' = detached
      /\ end' = end /\ known' = known /\ sent' = sent /\ emitted' = emitted
      /\ dispatched' = dispatched
    BY DEF StartInner, Snapshot, histVars
<1>3. ~(p > np)
    BY DEF PortInv, FutureInv
<1>4. /\ queue' \in [Ports -> Seq(Messages)] /\ started' \in [Ports -> BOOLEAN]
      /\ queue'[p] = <<>> /\ started'[p] = TRUE
      /\ \A q \in Ports : q # p => queue'[q] = queue[q] /\ started'[q] = started[q]
    BY <1>1, <1>2
<1>. DEFINE a == Jobs(p, "w3c", queue[p])  b == Jobs(p, "ee", queue[p])
            Good(s) == \A i \in 1..Len(s) : started'[s[i].to] /\ s[i].msg.port <= np
<1>5. /\ a \in Seq(JobSet) /\ b \in Seq(JobSet) /\ Good(a) /\ Good(b)
    <2>1. queue[p] \in Seq(Messages) /\ "w3c" \in Vias /\ "ee" \in Vias
        BY <1>1 DEF Vias
    <2>2. \A i \in 1..Len(queue[p]) : queue[p][i].port <= np
        BY Held
    <2>3. a \in Seq(JobSet) /\ Len(a) = Len(queue[p])
          /\ \A i \in 1..Len(queue[p]) : a[i].to = p /\ a[i].msg = queue[p][i]
        BY <2>1, JobsType
    <2>4. b \in Seq(JobSet) /\ Len(b) = Len(queue[p])
          /\ \A i \in 1..Len(queue[p]) : b[i].to = p /\ b[i].msg = queue[p][i]
        BY <2>1, JobsType
    <2>. HIDE DEF a, b
    <2>. QED
        BY <1>4, <2>2, <2>3, <2>4
<1>6. Good(micro)
    <2>1. \A i \in 1..Len(micro) : micro[i].to \in Ports
        BY Held, MessageFacts
    <2>. QED
        BY <1>4, <2>1, Held
<1>7. micro' \in Seq(JobSet) /\ Good(micro')
    <2>. HIDE DEF a, b
    <2>1. micro' = (micro \o a) \o b
        BY <1>2 DEF a, b
    <2>2. micro \o a \in Seq(JobSet) /\ (micro \o a) \o b \in Seq(JobSet)
        BY <1>1, <1>5
    <2>3. Good(micro \o a)
        <3>. SUFFICES ASSUME NEW i \in 1..Len(micro \o a)
                      PROVE  /\ started'[(micro \o a)[i].to]
                             /\ (micro \o a)[i].msg.port <= np
            OBVIOUS
        <3>1. \/ \E j \in 1..Len(micro) : (micro \o a)[i] = micro[j]
              \/ \E j \in 1..Len(a) : (micro \o a)[i] = a[j]
            <4>1. micro \in Seq(JobSet) /\ a \in Seq(JobSet)
                BY <1>1, <1>5
            <4>. QED
                BY <4>1, CatMembers
        <3>. QED
            BY <1>5, <1>6, <3>1
    <2>. DEFINE c == micro \o a
    <2>. HIDE DEF c
    <2>4. c \in Seq(JobSet) /\ Good(c)
        BY <2>2, <2>3 DEF c
    <2>5. Good(c \o b)
        <3>. SUFFICES ASSUME NEW i \in 1..Len(c \o b)
                      PROVE  started'[(c \o b)[i].to] /\ (c \o b)[i].msg.port <= np
            OBVIOUS
        <3>1. \/ \E j \in 1..Len(c) : (c \o b)[i] = c[j]
              \/ \E j \in 1..Len(b) : (c \o b)[i] = b[j]
            <4>1. c \in Seq(JobSet) /\ b \in Seq(JobSet)
                BY <1>5, <2>4
            <4>. QED
                BY <4>1, CatMembers
        <3>. QED
            BY <1>5, <2>4, <3>1
    <2>. QED
        BY <2>1, <2>2, <2>5 DEF c
<1>8. TypeOK'
    BY <1>2, <1>4, <1>7 DEF PortInv, TypeOK, PortTypes, QueueTypes, HistTypes
<1>9. LinkInv' /\ OwnerInv'
    BY <1>2 DEF PortInv, LinkInv, OwnerInv
<1>10. FutureInv'
    BY <1>2, <1>3, <1>4 DEF PortInv, FutureInv
<1>11. CarriedInv' /\ StartInv'
    <2>1. \A q \in Ports : \A i \in 1..Len(queue'[q]) : queue'[q][i].port <= np'
        <3>1. Len(queue'[p]) = 0
            BY <1>4
        <3>2. \A q \in Ports : q # p => queue'[q] = queue[q]
            BY <1>4
        <3>. QED
            BY <1>2, <3>1, <3>2, Held
    <2>. QED
        BY <1>2, <1>4, <1>7, <2>1 DEF PortInv, CarriedInv, StartInv
<1>. QED
    BY <1>8, <1>9, <1>10, <1>11 DEF PortInv

LEMMA PortClose ==
    ASSUME PortInv, NEW p \in Ports, Close(p)
    PROVE  PortInv'
<1>1. /\ queue \in [Ports -> Seq(Messages)] /\ closed \in [Ports -> BOOLEAN]
      /\ other \in [Ports -> 0..MaxPorts] /\ np \in Nat
    BY EndsArePorts DEF PortInv, TypeOK, QueueTypes, PortTypes
<1>2. /\ closed' = [closed EXCEPT ![p] = TRUE] /\ queue' = [queue EXCEPT ![p] = <<>>]
      /\ other' = [q \in Ports |-> IF p \in {q, other[q]} THEN NoPort ELSE other[q]]
      /\ np' = np /\ detached' = detached /\ started' = started /\ end' = end
      /\ micro' = micro /\ known' = known /\ sent' = sent /\ emitted' = emitted
      /\ dispatched' = dispatched /\ p \in known
    BY DEF Close, Unlink, histVars
<1>3. ~(p > np)
    BY <1>2 DEF PortInv, FutureInv
<1>4. /\ queue' \in [Ports -> Seq(Messages)] /\ closed' \in [Ports -> BOOLEAN]
      /\ other' \in [Ports -> 0..MaxPorts]
      /\ queue'[p] = <<>> /\ closed'[p] = TRUE
      /\ \A q \in Ports : q # p => queue'[q] = queue[q] /\ closed'[q] = closed[q]
      /\ \A q \in Ports : other'[q] = IF p = q \/ p = other[q] THEN NoPort ELSE other[q]
    BY <1>1, <1>2, EndsArePorts DEF NoPort
<1>5. TypeOK'
    BY <1>2, <1>4 DEF PortInv, TypeOK, PortTypes, QueueTypes, HistTypes
<1>6. LinkInv'
    <2>. SUFFICES ASSUME NEW q \in Ports, other'[q] # NoPort
                  PROVE  other'[q] # q /\ other'[other'[q]] = q /\ ~closed'[q]
        BY DEF LinkInv
    <2>1. q # p /\ other[q] # p /\ other'[q] = other[q] /\ other[q] \in Ports
        BY <1>1, <1>4 DEF Ports, NoPort
    <2>2. other[q] # q /\ other[other[q]] = q /\ ~closed[q]
        BY <2>1 DEF PortInv, LinkInv
    <2>. QED
        BY <1>4, <2>1, <2>2
<1>7. OwnerInv'
    BY <1>2, <1>4 DEF PortInv, OwnerInv
<1>8. FutureInv'
    BY <1>2, <1>3, <1>4 DEF PortInv, FutureInv
<1>9. CarriedInv' /\ StartInv'
    <2>1. \A q \in Ports : \A i \in 1..Len(queue'[q]) : queue'[q][i].port <= np'
        <3>1. Len(queue'[p]) = 0
            BY <1>4
        <3>2. \A q \in Ports : q # p => queue'[q] = queue[q]
            BY <1>4
        <3>. QED
            BY <1>2, <3>1, <3>2, Held
    <2>. QED
        BY <1>2, <1>4, <2>1 DEF PortInv, CarriedInv, StartInv
<1>. QED
    BY <1>5, <1>6, <1>7, <1>8, <1>9 DEF PortInv

LEMMA GainsKeeps ==
    ASSUME PortInv, NEW m \in Messages, m.port <= np, Gains(m)
    PROVE  /\ known' \in SUBSET Ports
           /\ \A q \in Ports : q > np => q \notin known'
<1>1. known \in SUBSET Ports /\ np \in Nat /\ \A q \in Ports : q \in Nat
    BY EndsArePorts DEF PortInv, TypeOK, PortTypes
<1>2. \A q \in Ports : q > np => q \notin known
    BY DEF PortInv, FutureInv
<1>3. m.port \in 0..MaxPorts /\ m.port \in Nat
    BY MessageFacts
<1>4. m.port # NoPort => m.port \in Ports
    BY <1>3 DEF NoPort, Ports
<1>5. \A q \in Ports : q > np => q # m.port
    BY <1>1, <1>3
<1>. QED
    BY <1>1, <1>2, <1>4, <1>5 DEF Gains

LEMMA PortReceiveOn ==
    ASSUME PortInv, NEW p \in Ports, ReceiveOnPort(p)
    PROVE  PortInv'
<1>. DEFINE m == Head(queue[p])  e == end[p]
<1>1. /\ queue \in [Ports -> Seq(Messages)] /\ np \in Nat
      /\ emitted \in [Ends -> Seq(Nat)] /\ dispatched \in [Ends -> Seq(Nat)]
    BY EndsArePorts DEF PortInv, TypeOK, QueueTypes, PortTypes, HistTypes
<1>2. /\ p \in known /\ queue[p] # <<>>
      /\ queue' = [queue EXCEPT ![p] = Tail(queue[p])] /\ Gains(m)
      /\ UNCHANGED <<portVars, micro, sent>>
      /\ IF closed[p]
         THEN UNCHANGED <<emitted, dispatched>>
         ELSE /\ emitted' = [emitted EXCEPT ![e] = Append(emitted[e], m.n)]
              /\ dispatched' = [dispatched EXCEPT ![e] = Append(dispatched[e], m.n)]
    BY DEF ReceiveOnPort
<1>3. /\ Tail(queue[p]) \in Seq(Messages) /\ m \in Messages /\ m = queue[p][1]
      /\ Len(queue[p]) \in Nat \ {0} /\ Len(Tail(queue[p])) = Len(queue[p]) - 1
      /\ \A i \in 1..(Len(queue[p]) - 1) : Tail(queue[p])[i] = queue[p][i + 1]
    <2>1. queue[p] \in Seq(Messages)
        BY <1>1
    <2>. QED
        BY <1>2, <2>1, SeqFacts
<1>4. m.port <= np
    BY <1>3, Held
<1>5. known' \in SUBSET Ports /\ \A q \in Ports : q > np => q \notin known'
    BY <1>2, <1>3, <1>4, GainsKeeps
<1>6. e \in Ends /\ m.n \in Nat
    <2>1. ~(p > np)
        BY <1>2 DEF PortInv, FutureInv
    <2>2. p \in 1..np
        BY <1>1, <2>1, EndsArePorts DEF Ports
    <2>. QED
        BY <1>3, <2>2, MessageFacts DEF PortInv, OwnerInv
<1>. HIDE DEF m, e
<1>7. np' = np /\ other' = other /\ closed' = closed /\ detached' = detached
      /\ started' = started /\ end' = end /\ micro' = micro /\ sent' = sent
    BY <1>2 DEF portVars
<1>8. HistTypes'
    <2>1. Append(emitted[e], m.n) \in Seq(Nat) /\ Append(dispatched[e], m.n) \in Seq(Nat)
        BY <1>1, <1>6
    <2>2. emitted' \in [Ends -> Seq(Nat)] /\ dispatched' \in [Ends -> Seq(Nat)]
        <3>1. CASE closed[p]
            BY <1>1, <1>2, <3>1
        <3>2. CASE ~closed[p]
            BY <1>1, <1>2, <1>6, <2>1, <3>2
        <3>. QED
            BY <3>1, <3>2
    <2>. QED
        BY <1>7, <2>2 DEF PortInv, TypeOK, HistTypes
<1>9. /\ queue' \in [Ports -> Seq(Messages)] /\ queue'[p] = Tail(queue[p])
      /\ \A q \in Ports : q # p => queue'[q] = queue[q]
    BY <1>1, <1>2, <1>3
<1>10. TypeOK'
    BY <1>5, <1>7, <1>8, <1>9 DEF PortInv, TypeOK, PortTypes, QueueTypes
<1>11. LinkInv' /\ OwnerInv'
    BY <1>7 DEF PortInv, LinkInv, OwnerInv
<1>12. FutureInv'
    <2>1. \A q \in Ports : q > np => q # p
        BY <1>2 DEF PortInv, FutureInv
    <2>. QED
        BY <1>5, <1>7, <1>9, <2>1 DEF PortInv, FutureInv
<1>13. CarriedInv'
    <2>1. \A q \in Ports : \A i \in 1..Len(queue'[q]) : queue'[q][i].port <= np'
        <3>. SUFFICES ASSUME NEW q \in Ports, NEW i \in 1..Len(queue'[q])
                      PROVE  queue'[q][i].port <= np'
            OBVIOUS
        <3>1. CASE q # p
            <4>1. queue'[q] = queue[q]
                BY <1>9, <3>1
            <4>. QED
                BY <1>7, <4>1, Held
        <3>2. CASE q = p
            <4>1. i \in 1..(Len(queue[p]) - 1) /\ queue'[q] = Tail(queue[p])
                BY <1>3, <1>9, <3>2
            <4>2. queue'[q][i] = queue[p][i + 1] /\ i + 1 \in 1..Len(queue[p])
                BY <1>3, <4>1
            <4>. QED
                BY <1>7, <4>2, Held
        <3>. QED
            BY <3>1, <3>2
    <2>. QED
        BY <1>7, <2>1 DEF PortInv, CarriedInv
<1>14. StartInv'
    <2>1. ~started[p]
        BY <1>2 DEF PortInv, StartInv
    <2>. QED
        BY <1>7, <1>9, <2>1 DEF PortInv, StartInv
<1>. QED
    BY <1>10, <1>11, <1>12, <1>13, <1>14 DEF PortInv

LEMMA PortRun ==
    ASSUME PortInv, RunMicrotask
    PROVE  PortInv'
<1>. DEFINE j == Head(micro)  e == end[j.to]
<1>1. /\ micro \in Seq(JobSet) /\ np \in Nat
      /\ emitted \in [Ends -> Seq(Nat)] /\ dispatched \in [Ends -> Seq(Nat)]
    BY EndsArePorts DEF PortInv, TypeOK, QueueTypes, PortTypes, HistTypes
<1>2. /\ micro # <<>> /\ micro' = Tail(micro)
      /\ UNCHANGED <<portVars, queue, sent>>
      /\ IF Told(j)
         THEN /\ Gains(j.msg)
              /\ emitted' = IF j.via = "ee"
                            THEN [emitted EXCEPT ![e] = Append(emitted[e], j.msg.n)]
                            ELSE emitted
              /\ dispatched' = IF j.via = "ee" THEN dispatched
                               ELSE [dispatched EXCEPT ![e] = Append(dispatched[e], j.msg.n)]
         ELSE UNCHANGED <<known, emitted, dispatched>>
    BY DEF RunMicrotask
<1>3. /\ Tail(micro) \in Seq(JobSet) /\ j \in JobSet /\ j = micro[1]
      /\ Len(micro) \in Nat \ {0} /\ Len(Tail(micro)) = Len(micro) - 1
      /\ \A i \in 1..(Len(micro) - 1) : Tail(micro)[i] = micro[i + 1]
    BY <1>1, <1>2, SeqFacts
<1>4. j.msg.port <= np /\ started[j.to] /\ j.to \in Ports /\ j.msg \in Messages
    BY <1>3, Held, MessageFacts
<1>5. e \in Ends /\ j.msg.n \in Nat
    <2>1. ~(j.to > np)
        BY <1>4 DEF PortInv, FutureInv
    <2>2. j.to \in 1..np
        BY <1>1, <1>4, <2>1, EndsArePorts DEF Ports
    <2>. QED
        BY <1>4, <2>2, MessageFacts DEF PortInv, OwnerInv
<1>6. known' \in SUBSET Ports /\ \A q \in Ports : q > np => q \notin known'
    <2>. HIDE DEF j
    <2>1. Gains(j.msg) => known' \in SUBSET Ports /\ \A q \in Ports : q > np => q \notin known'
        BY <1>4, GainsKeeps
    <2>2. known \in SUBSET Ports /\ \A q \in Ports : q > np => q \notin known
        BY DEF PortInv, FutureInv, TypeOK, PortTypes
    <2>. QED
        BY <1>2, <2>1, <2>2
<1>. HIDE DEF j, e
<1>7. np' = np /\ other' = other /\ closed' = closed /\ detached' = detached
      /\ started' = started /\ end' = end /\ queue' = queue /\ sent' = sent
    BY <1>2 DEF portVars
<1>8. HistTypes'
    <2>1. \A s \in Seq(Nat) : Append(s, j.msg.n) \in Seq(Nat)
        BY <1>5
    <2>2. emitted \in [Ends -> Seq(Nat)] /\ dispatched \in [Ends -> Seq(Nat)] /\ sent \in [Ends -> Nat]
        BY DEF PortInv, TypeOK, HistTypes
    <2>3. emitted' \in [Ends -> Seq(Nat)]
        <3>1. emitted' = emitted \/ emitted' = [emitted EXCEPT ![e] = Append(emitted[e], j.msg.n)]
            BY <1>2
        <3>. QED
            BY <2>1, <2>2, <3>1
    <2>4. dispatched' \in [Ends -> Seq(Nat)]
        <3>1. \/ dispatched' = dispatched
              \/ dispatched' = [dispatched EXCEPT ![e] = Append(dispatched[e], j.msg.n)]
            BY <1>2
        <3>. QED
            BY <2>1, <2>2, <3>1
    <2>. QED
        BY <1>7, <2>2, <2>3, <2>4 DEF HistTypes
<1>9. TypeOK'
    BY <1>2, <1>3, <1>6, <1>7, <1>8 DEF PortInv, TypeOK, PortTypes, QueueTypes
<1>10. LinkInv' /\ OwnerInv'
    BY <1>7 DEF PortInv, LinkInv, OwnerInv
<1>11. FutureInv'
    BY <1>6, <1>7 DEF PortInv, FutureInv
<1>12. CarriedInv' /\ StartInv'
    <2>1. ASSUME NEW i \in 1..Len(micro')
          PROVE  micro'[i].msg.port <= np' /\ started'[micro'[i].to]
        <3>1. micro'[i] = micro[i + 1] /\ i + 1 \in 1..Len(micro)
            BY <1>2, <1>3
        <3>. QED
            BY <1>7, <3>1, Held
    <2>. QED
        BY <1>7, <2>1 DEF PortInv, CarriedInv, StartInv
<1>. QED
    BY <1>9, <1>10, <1>11, <1>12 DEF PortInv

(* A transfer: the new port n takes the partner of q.                       *)
Moves(p, q, n) ==
    /\ n = np + 1 /\ n \in Ports /\ q \in Ports /\ q \in 1..np /\ q # n
    /\ n \notin Ends /\ np' = n
    /\ np \in Nat /\ q \in known /\ ~closed[q] /\ ~detached[q] /\ p \in 1..np
    /\ other' = Relink(q, n)
    /\ closed' = [closed EXCEPT ![q] = TRUE] /\ detached' = [detached EXCEPT ![q] = TRUE]
    /\ end' = [end EXCEPT ![n] = end[q]]
    /\ sent' = [sent EXCEPT ![end[other[p]]] = @ + 1]
    /\ UNCHANGED <<started, known, emitted, dispatched>>

LEMMA TransferMoves ==
    ASSUME PortInv, NEW p \in Ports, NEW q \in Ports, PostTransfer(p, q)
    PROVE  Moves(p, q, np + 1)
<1>1. /\ MayPost(p) /\ np < MaxPorts /\ q \in known /\ ~closed[q] /\ np' = np + 1
      /\ other' = Relink(q, np + 1)
      /\ closed' = [closed EXCEPT ![q] = TRUE] /\ detached' = [detached EXCEPT ![q] = TRUE]
      /\ end' = [end EXCEPT ![np + 1] = end[q]]
      /\ sent' = [sent EXCEPT ![end[other[p]]] = @ + 1]
      /\ UNCHANGED <<started, known, emitted, dispatched>>
    BY DEF PostTransfer
<1>2. np \in Nat /\ np >= 4 /\ MaxPorts \in Nat
    BY EndsArePorts DEF PortInv, TypeOK, PortTypes
<1>3. np + 1 \in Ports /\ np + 1 \notin Ends
    BY <1>1, <1>2 DEF Ports, Ends
<1>4. ~(q > np)
    BY <1>1 DEF PortInv, FutureInv
<1>5. q \in 1..np /\ q # np + 1
    BY <1>2, <1>4, EndsArePorts DEF Ports
<1>6. p \in 1..np
    BY <1>1, Partner
<1>7. ~detached[q]
    BY <1>1 DEF PortInv, OwnerInv
<1>. QED
    BY <1>1, <1>2, <1>3, <1>5, <1>6, <1>7 DEF Moves

LEMMA MoveTypes ==
    ASSUME PortInv, NEW p, NEW q, NEW n, Moves(p, q, n), other[p] \in 1..np
    PROVE  PortTypes' /\ HistTypes'
<1>1. PortTypes /\ HistTypes
    BY DEF PortInv, TypeOK
<1>2. np' \in 4..MaxPorts
    BY <1>1, EndsArePorts DEF PortTypes, Moves, Ports
<1>3. other' \in [Ports -> 0..MaxPorts]
    <2>1. n \in 0..MaxPorts /\ NoPort \in 0..MaxPorts
        BY EndsArePorts DEF Moves, Ports, NoPort
    <2>2. \A x \in Ports : other[x] \in 0..MaxPorts
        BY <1>1 DEF PortTypes
    <2>. QED
        BY <2>1, <2>2 DEF Moves, Relink
<1>4. end' \in [Ports -> Ports]
    BY <1>1 DEF PortTypes, Moves
<1>5. HistTypes'
    <2>1. end[other[p]] \in Ends
        BY DEF PortInv, OwnerInv
    <2>. QED
        BY <1>1, <2>1 DEF Moves, HistTypes
<1>. QED
    BY <1>1, <1>2, <1>3, <1>4, <1>5 DEF PortTypes, Moves

LEMMA MoveLinks ==
    ASSUME PortInv, NEW p, NEW q, NEW n, Moves(p, q, n)
    PROVE  LinkInv'
<1>1. \A x \in Ports : other'[x] = IF x = q THEN NoPort
                                   ELSE IF x = n THEN other[q]
                                   ELSE IF other[x] = q THEN n ELSE other[x]
    BY DEF Moves, Relink
<1>2. /\ closed \in [Ports -> BOOLEAN] /\ other \in [Ports -> 0..MaxPorts]
      /\ \A x \in Ports : other[x] # NoPort => other[x] \in Ports
    <2>1. closed \in [Ports -> BOOLEAN] /\ other \in [Ports -> 0..MaxPorts]
        BY DEF PortInv, TypeOK, PortTypes
    <2>2. \A i \in 0..MaxPorts : i # NoPort => i \in Ports
        BY EndsArePorts DEF Ports, NoPort
    <2>3. \A x \in Ports : other[x] \in 0..MaxPorts
        BY <2>1
    <2>. QED
        BY <2>1, <2>2, <2>3
<1>3. q \in Ports /\ n \in Ports /\ q # n /\ n # NoPort /\ q # NoPort
    BY EndsArePorts DEF Moves
<1>4. other[n] = NoPort /\ ~closed[n]
    BY DEF PortInv, FutureInv, Moves
<1>5. \A x \in Ports : x # q => closed'[x] = closed[x]
    BY <1>2 DEF Moves
<1>. SUFFICES ASSUME NEW x \in Ports, other'[x] # NoPort
              PROVE  other'[x] # x /\ other'[other'[x]] = x /\ ~closed'[x]
    BY DEF LinkInv
<1>6. x # q
    BY <1>1
<1>7. CASE x = n
    <2>1. other'[x] = other[q] /\ other[q] \in Ports
        BY <1>1, <1>2, <1>3, <1>7
    <2>2. other[other[q]] = q /\ other[q] # q
        BY <1>3, <2>1, EndsArePorts DEF PortInv, LinkInv
    <2>3. other[q] # n
        BY <1>3, <1>4, <2>2
    <2>4. other'[other[q]] = n
        BY <1>1, <2>1, <2>2, <2>3
    <2>. QED
        BY <1>4, <1>5, <1>6, <1>7, <2>1, <2>3, <2>4
<1>8. CASE x # n /\ other[x] = q
    <2>1. other'[x] = n /\ other[q] = x /\ ~closed[x]
        BY <1>1, <1>3, <1>6, <1>8 DEF PortInv, LinkInv
    <2>2. other'[n] = x
        BY <1>1, <1>3, <2>1
    <2>. QED
        BY <1>5, <1>6, <1>8, <2>1, <2>2
<1>9. CASE x # n /\ other[x] # q
    <2>1. other'[x] = other[x] /\ other[x] \in Ports
        BY <1>1, <1>2, <1>6, <1>9
    <2>2. other[other[x]] = x /\ other[x] # x /\ ~closed[x]
        BY <2>1, EndsArePorts DEF PortInv, LinkInv
    <2>3. other[x] # n
        BY <1>4, <2>2, EndsArePorts
    <2>4. other'[other[x]] = x
        BY <1>1, <1>6, <1>9, <2>1, <2>2, <2>3
    <2>. QED
        BY <1>5, <1>6, <2>1, <2>2, <2>4
<1>. QED
    BY <1>7, <1>8, <1>9

LEMMA MoveOwners ==
    ASSUME PortInv, NEW p, NEW q, NEW n, Moves(p, q, n)
    PROVE  OwnerInv'
<1>1. /\ closed \in [Ports -> BOOLEAN] /\ detached \in [Ports -> BOOLEAN]
      /\ end \in [Ports -> Ports] /\ np \in Nat
    BY DEF PortInv, TypeOK, PortTypes, Moves
<1>2. /\ q \in Ports /\ n \in Ports /\ q # n /\ q \in 1..np /\ n \notin 1..np
      /\ n \notin Ends /\ np' = n /\ n = np + 1 /\ 1..np' = 1..np \cup {n}
      /\ \A x \in 1..np : x \in Ports /\ x # n
    <2>1. np \in 4..MaxPorts /\ MaxPorts \in Nat
        BY EndsArePorts DEF PortInv, TypeOK, PortTypes
    <2>2. n = np + 1 /\ np' = n /\ q \in 1..np /\ n \in Ports /\ n \notin Ends /\ q # n
        BY DEF Moves
    <2>. QED
        BY <2>1, <2>2 DEF Ports
<1>3. /\ end'[n] = end[q] /\ \A x \in Ports : x # n => end'[x] = end[x]
      /\ detached'[q] = TRUE /\ closed'[q] = TRUE
      /\ \A x \in Ports : x # q => detached'[x] = detached[x] /\ closed'[x] = closed[x]
    BY <1>1, <1>2 DEF Moves
<1>4. ~detached[n] /\ ~detached[q]
    BY <1>2, EndsArePorts DEF PortInv, FutureInv, Moves
<1>5. \A e \in Ends : end'[e] = e
    BY <1>2, <1>3, EndsArePorts DEF PortInv, OwnerInv
<1>6. ASSUME NEW e \in Ends PROVE \E x \in 1..np' : end'[x] = e /\ ~detached'[x]
    <2>1. PICK x \in 1..np : end[x] = e /\ ~detached[x]
        BY DEF PortInv, OwnerInv
    <2>2. CASE x = q
        BY <1>2, <1>3, <1>4, <2>1, <2>2
    <2>3. CASE x # q
        BY <1>2, <1>3, <2>1, <2>3
    <2>. QED
        BY <2>2, <2>3
<1>7. \A x \in 1..np' : end'[x] \in Ends
    BY <1>2, <1>3 DEF PortInv, OwnerInv
<1>8. ASSUME NEW x \in 1..np', NEW y \in 1..np', end'[x] = end'[y],
             ~detached'[x], ~detached'[y]
      PROVE  x = y
    <2>1. x # q /\ y # q
        BY <1>3, <1>8
    <2>2. CASE x \in 1..np /\ y \in 1..np
        BY <1>2, <1>3, <1>8, <2>1, <2>2 DEF PortInv, OwnerInv
    <2>3. CASE x = n /\ y \in 1..np
        <3>1. end[y] = end[q] /\ ~detached[y]
            BY <1>2, <1>3, <1>8, <2>1, <2>3
        <3>2. y = q
            BY <1>2, <1>4, <2>3, <3>1 DEF PortInv, OwnerInv
        <3>. QED
            BY <2>1, <3>2
    <2>4. CASE y = n /\ x \in 1..np
        <3>1. end[x] = end[q] /\ ~detached[x]
            BY <1>2, <1>3, <1>8, <2>1, <2>4
        <3>2. x = q
            BY <1>2, <1>4, <2>4, <3>1 DEF PortInv, OwnerInv
        <3>. QED
            BY <2>1, <3>2
    <2>. QED
        BY <1>2, <2>2, <2>3, <2>4
<1>9. \A x \in Ports : detached'[x] => closed'[x]
    BY <1>3 DEF PortInv, OwnerInv
<1>. QED
    BY <1>5, <1>6, <1>7, <1>8, <1>9 DEF OwnerInv

LEMMA PortTransfer ==
    ASSUME PortInv, NEW p \in Ports, NEW q \in Ports, PostTransfer(p, q)
    PROVE  PortInv'
<1>. DEFINE t == other[p]  e == end[other[p]]  n == np + 1
<1>1. Moves(p, q, n)
    BY TransferMoves
<1>2. t \in Ports /\ t \in 1..np /\ e \in Ends
    BY Partner DEF PostTransfer
<1>3. n \in Nat /\ np \in Nat /\ np' = n /\ started' = started /\ known' = known
      /\ n \in 0..MaxPorts /\ t <= np
    <2>1. np \in 4..MaxPorts /\ MaxPorts \in Nat /\ n \in Ports /\ np' = n
        BY <1>1, EndsArePorts DEF PortInv, TypeOK, PortTypes, Moves
    <2>. QED
        BY <1>1, <1>2, <2>1 DEF Moves, Ports
<1>4. PortTypes' /\ HistTypes' /\ LinkInv' /\ OwnerInv'
    BY <1>1, <1>2, MoveTypes, MoveLinks, MoveOwners
<1>5. /\ QueueTypes' /\ CarriedInv' /\ StartInv'
      /\ \A x \in Ports : x > np => queue'[x] = <<>>
    <2>1. CASE closed'[t]
        <3>1. queue' = queue /\ micro' = micro
            BY <2>1 DEF PostTransfer
        <3>2. CarriedInv'
            BY <1>3, <3>1, Held DEF CarriedInv
        <3>. QED
            BY <1>3, <3>1, <3>2 DEF PortInv, TypeOK, QueueTypes, StartInv, FutureInv
    <2>2. CASE ~closed'[t]
        <3>. DEFINE m == Message(e, n)
        <3>1. Receive(t, m)
            BY <2>2 DEF PostTransfer
        <3>. HIDE DEF e, n
        <3>2. m \in Messages /\ m.port = n
            BY <1>2, <1>3, MessageType
        <3>. HIDE DEF t, m
        <3>3. m.port <= np' /\ np <= np' /\ np' \in Nat
            <4>1. n = np + 1
                BY DEF n
            <4>. QED
                BY <1>3, <3>2, <4>1
        <3>. QED
            BY <1>2, <1>3, <3>1, <3>2, <3>3, ReceiveKeeps
    <2>. QED
        BY <2>1, <2>2
<1>6. FutureInv'
    <2>. SUFFICES ASSUME NEW x \in Ports, x > n
                  PROVE  /\ ~closed'[x] /\ ~detached'[x] /\ ~started'[x] /\ queue'[x] = <<>>
                         /\ other'[x] = NoPort /\ x \notin known'
        BY <1>3 DEF FutureInv
    <2>1. x > np /\ x # n /\ x # q /\ x \in Nat
        BY <1>1, <1>3, EndsArePorts DEF Moves
    <2>2. /\ ~closed[x] /\ ~detached[x] /\ ~started[x] /\ other[x] = NoPort /\ x \notin known
        BY <2>1 DEF PortInv, FutureInv
    <2>3. closed \in [Ports -> BOOLEAN] /\ detached \in [Ports -> BOOLEAN]
        BY DEF PortInv, TypeOK, PortTypes
    <2>4. ~closed'[x] /\ ~detached'[x]
        BY <1>1, <2>1, <2>2, <2>3 DEF Moves
    <2>5. other'[x] = NoPort
        BY <1>1, <2>1, <2>2, EndsArePorts DEF Moves, Relink
    <2>. QED
        BY <1>3, <1>5, <2>1, <2>2, <2>4, <2>5
<1>. QED
    BY <1>4, <1>5, <1>6 DEF PortInv, TypeOK

LEMMA PortStep == PortInv /\ [Next]_vars => PortInv'
<1>. SUFFICES ASSUME PortInv, [Next]_vars PROVE PortInv'
    OBVIOUS
<1>1. CASE UNCHANGED vars
    BY <1>1 DEF vars, portVars, histVars, PortInv, TypeOK, PortTypes, QueueTypes, HistTypes,
                LinkInv, OwnerInv, FutureInv, CarriedInv, StartInv
<1>2. CASE RunMicrotask
    BY <1>2, PortRun
<1>3. ASSUME NEW p \in Ports, UserStep(p) PROVE PortInv'
    <2>1. CASE Post(p)
        BY <2>1, PortPost
    <2>2. CASE Start(p) \/ OnMessage(p)
        BY <2>2, PortStart DEF Start, OnMessage, Listens
    <2>3. CASE Close(p)
        BY <2>3, PortClose
    <2>4. CASE ReceiveOnPort(p)
        BY <2>4, PortReceiveOn
    <2>5. CASE \E q \in Ports : PostTransfer(p, q)
        BY <2>5, PortTransfer
    <2>. QED
        BY <1>3, <2>1, <2>2, <2>3, <2>4, <2>5 DEF UserStep
<1>. QED
    BY <1>1, <1>2, <1>3 DEF Next

(* Every reachable state is well typed.                                     *)
THEOREM TypeCorrect == Spec => []TypeOK
<1>1. PortInv => TypeOK
    BY DEF PortInv
<1>. QED
    BY <1>1, PortInit, PortStep, PTL DEF Spec

-----------------------------------------------------------------------------
(* The messages that wait for a port, as the steps change them.             *)
NatSeqs == Seq(Nat)
OneJob(j, p, via) == IF j.to = p /\ j.via = via THEN <<j.msg.n>> ELSE <<>>
Parts(jobs, p, via) == [i \in 1..Len(jobs) |-> OneJob(jobs[i], p, via)]
Pending(p, via) == InJobs(micro, p, via) \o Numbers(queue[p])

LEMMA OneJobType ==
    ASSUME NEW j \in JobSet, NEW p, NEW via
    PROVE  OneJob(j, p, via) \in NatSeqs
<1>1. j.msg.n \in Nat
    BY MessageFacts
<1>. QED
    BY <1>1 DEF OneJob, NatSeqs

LEMMA PartsType ==
    ASSUME NEW jobs \in Seq(JobSet), NEW p, NEW via
    PROVE  /\ Parts(jobs, p, via) \in Seq(NatSeqs) /\ Len(Parts(jobs, p, via)) = Len(jobs)
           /\ \A i \in 1..Len(jobs) : Parts(jobs, p, via)[i] = OneJob(jobs[i], p, via)
           /\ InJobs(jobs, p, via) = FlattenSeq(Parts(jobs, p, via))
           /\ InJobs(jobs, p, via) \in Seq(Nat)
<1>1. DOMAIN jobs = 1..Len(jobs) /\ Len(jobs) \in Nat
      /\ \A i \in 1..Len(jobs) : jobs[i] \in JobSet
    OBVIOUS
<1>2. \A i \in 1..Len(jobs) : OneJob(jobs[i], p, via) \in NatSeqs
    BY <1>1, OneJobType
<1>3. /\ Parts(jobs, p, via) \in Seq(NatSeqs) /\ Len(Parts(jobs, p, via)) = Len(jobs)
      /\ \A i \in 1..Len(jobs) : Parts(jobs, p, via)[i] = OneJob(jobs[i], p, via)
    BY <1>1, <1>2 DEF Parts
<1>4. InJobs(jobs, p, via) = FlattenSeq(Parts(jobs, p, via))
    BY <1>1 DEF InJobs, Parts, OneJob
<1>5. FlattenSeq(Parts(jobs, p, via)) \in Seq(Nat)
    BY <1>3, FlattenType DEF NatSeqs
<1>. QED
    BY <1>3, <1>4, <1>5

LEMMA SameSeq ==
    ASSUME NEW X, NEW s \in Seq(X), NEW t \in Seq(X), Len(s) = Len(t),
           \A i \in 1..Len(s) : s[i] = t[i]
    PROVE  s = t
OBVIOUS

LEMMA InJobsAppend ==
    ASSUME NEW jobs \in Seq(JobSet), NEW j \in JobSet, NEW p, NEW via
    PROVE  InJobs(Append(jobs, j), p, via) = InJobs(jobs, p, via) \o OneJob(j, p, via)
<1>. DEFINE r == Append(jobs, j)  a == Parts(r, p, via)  b == Parts(jobs, p, via)
            o == OneJob(j, p, via)  c == Append(b, o)
<1>1. /\ r \in Seq(JobSet) /\ Len(r) = Len(jobs) + 1 /\ Len(jobs) \in Nat
      /\ \A i \in 1..(Len(jobs) + 1) : r[i] = IF i = Len(jobs) + 1 THEN j ELSE jobs[i]
    BY SeqFacts
<1>. HIDE DEF r
<1>2. a \in Seq(NatSeqs) /\ Len(a) = Len(r)
      /\ \A i \in 1..Len(r) : a[i] = OneJob(r[i], p, via)
    BY <1>1, PartsType
<1>3. b \in Seq(NatSeqs) /\ Len(b) = Len(jobs)
      /\ \A i \in 1..Len(jobs) : b[i] = OneJob(jobs[i], p, via)
    BY PartsType
<1>4. o \in NatSeqs
    BY OneJobType
<1>. HIDE DEF a, b, o
<1>5. c \in Seq(NatSeqs) /\ Len(c) = Len(b) + 1
      /\ \A i \in 1..(Len(b) + 1) : c[i] = IF i = Len(b) + 1 THEN o ELSE b[i]
    BY <1>3, <1>4, SeqFacts
<1>. HIDE DEF c
<1>6. \A i \in 1..Len(a) : a[i] = c[i]
    <2>. SUFFICES ASSUME NEW i \in 1..Len(a) PROVE a[i] = c[i]
        OBVIOUS
    <2>1. CASE i = Len(jobs) + 1
        BY <1>1, <1>2, <1>3, <1>5, <2>1 DEF o
    <2>2. CASE i # Len(jobs) + 1
        <3>1. i \in 1..Len(jobs)
            BY <1>1, <1>2, <2>2
        <3>. QED
            BY <1>1, <1>2, <1>3, <1>5, <2>2, <3>1
    <2>. QED
        BY <2>1, <2>2
<1>7. a = c
    BY <1>1, <1>2, <1>3, <1>5, <1>6, SameSeq
<1>8. FlattenSeq(c) = FlattenSeq(b) \o o
    BY <1>3, <1>4, FlattenAppend DEF c, NatSeqs
<1>9. InJobs(r, p, via) = FlattenSeq(a) /\ InJobs(jobs, p, via) = FlattenSeq(b)
    BY <1>1, PartsType DEF a, b
<1>. QED
    BY <1>7, <1>8, <1>9, Zenon DEF r, o

LEMMA InJobsHead ==
    ASSUME NEW jobs \in Seq(JobSet), jobs # <<>>, NEW p, NEW via
    PROVE  InJobs(jobs, p, via) = OneJob(Head(jobs), p, via) \o InJobs(Tail(jobs), p, via)
<1>. DEFINE r == Tail(jobs)  a == Parts(jobs, p, via)  b == Parts(r, p, via)
            o == OneJob(Head(jobs), p, via)  c == Tail(a)
<1>1. /\ r \in Seq(JobSet) /\ Len(r) = Len(jobs) - 1 /\ Len(jobs) \in Nat \ {0}
      /\ \A i \in 1..(Len(jobs) - 1) : r[i] = jobs[i + 1]
      /\ Head(jobs) = jobs[1]
    BY SeqFacts
<1>. HIDE DEF r
<1>2. a \in Seq(NatSeqs) /\ Len(a) = Len(jobs)
      /\ \A i \in 1..Len(jobs) : a[i] = OneJob(jobs[i], p, via)
    BY PartsType
<1>3. b \in Seq(NatSeqs) /\ Len(b) = Len(r)
      /\ \A i \in 1..Len(r) : b[i] = OneJob(r[i], p, via)
    BY <1>1, PartsType
<1>4. o = a[1]
    BY <1>1, <1>2
<1>. HIDE DEF a, b, o
<1>5. a # <<>>
    BY <1>1, <1>2
<1>6. /\ Head(a) = a[1] /\ c \in Seq(NatSeqs) /\ Len(c) = Len(a) - 1
      /\ \A i \in 1..(Len(a) - 1) : c[i] = a[i + 1]
    BY <1>2, <1>5, SeqFacts
<1>. HIDE DEF c
<1>7. \A i \in 1..Len(b) : b[i] = c[i]
    <2>. SUFFICES ASSUME NEW i \in 1..Len(b) PROVE b[i] = c[i]
        OBVIOUS
    <2>1. i \in 1..(Len(jobs) - 1) /\ i + 1 \in 1..Len(jobs) /\ i \in 1..Len(r)
        BY <1>1, <1>3
    <2>2. b[i] = OneJob(jobs[i + 1], p, via)
        BY <1>1, <1>3, <2>1
    <2>3. c[i] = OneJob(jobs[i + 1], p, via)
        BY <1>2, <1>6, <2>1
    <2>. QED
        BY <2>2, <2>3
<1>8. b = c
    BY <1>1, <1>2, <1>3, <1>6, <1>7, SameSeq
<1>9. FlattenSeq(a) = Head(a) \o FlattenSeq(c)
    BY <1>2, <1>5, FlattenHead DEF c, NatSeqs
<1>10. InJobs(jobs, p, via) = FlattenSeq(a) /\ InJobs(r, p, via) = FlattenSeq(b)
    BY <1>1, PartsType DEF a, b
<1>. QED
    BY <1>4, <1>6, <1>8, <1>9, <1>10, Zenon DEF r, o

LEMMA InJobsCat ==
    ASSUME NEW s \in Seq(JobSet), NEW t \in Seq(JobSet), NEW p, NEW via
    PROVE  InJobs(s \o t, p, via) = InJobs(s, p, via) \o InJobs(t, p, via)
<1>. DEFINE r == s \o t  a == Parts(s, p, via)  b == Parts(t, p, via)
            c == Parts(r, p, via)  d == a \o b
<1>1. /\ r \in Seq(JobSet) /\ Len(r) = Len(s) + Len(t)
      /\ \A i \in 1..(Len(s) + Len(t)) :
            r[i] = IF i <= Len(s) THEN s[i] ELSE t[i - Len(s)]
      /\ Len(s) \in Nat /\ Len(t) \in Nat
    BY ConcatProperties
<1>. HIDE DEF r
<1>2. a \in Seq(NatSeqs) /\ Len(a) = Len(s)
      /\ \A i \in 1..Len(s) : a[i] = OneJob(s[i], p, via)
    BY PartsType
<1>3. b \in Seq(NatSeqs) /\ Len(b) = Len(t)
      /\ \A i \in 1..Len(t) : b[i] = OneJob(t[i], p, via)
    BY PartsType
<1>4. c \in Seq(NatSeqs) /\ Len(c) = Len(r)
      /\ \A i \in 1..Len(r) : c[i] = OneJob(r[i], p, via)
    BY <1>1, PartsType
<1>. HIDE DEF a, b, c
<1>5. /\ d \in Seq(NatSeqs) /\ Len(d) = Len(a) + Len(b)
      /\ \A i \in 1..(Len(a) + Len(b)) :
            d[i] = IF i <= Len(a) THEN a[i] ELSE b[i - Len(a)]
    <2>1. a \in Seq(NatSeqs) /\ b \in Seq(NatSeqs)
        BY <1>2, <1>3
    <2>. QED
        BY <2>1, ConcatProperties
<1>. HIDE DEF d
<1>6. \A i \in 1..Len(c) : c[i] = d[i]
    <2>. SUFFICES ASSUME NEW i \in 1..Len(c) PROVE c[i] = d[i]
        OBVIOUS
    <2>1. i \in 1..(Len(s) + Len(t)) /\ i \in 1..(Len(a) + Len(b)) /\ i \in 1..Len(r)
        BY <1>1, <1>2, <1>3, <1>4
    <2>2. CASE i <= Len(s)
        <3>1. i \in 1..Len(s) /\ r[i] = s[i] /\ d[i] = a[i]
            BY <1>1, <1>2, <1>5, <2>1, <2>2
        <3>. QED
            BY <1>2, <1>4, <2>1, <3>1
    <2>3. CASE ~(i <= Len(s))
        <3>1. i - Len(s) \in 1..Len(t) /\ r[i] = t[i - Len(s)] /\ d[i] = b[i - Len(s)]
            BY <1>1, <1>2, <1>5, <2>1, <2>3
        <3>. QED
            BY <1>3, <1>4, <2>1, <3>1
    <2>. QED
        BY <2>2, <2>3
<1>7. c = d
    BY <1>1, <1>2, <1>3, <1>4, <1>5, <1>6, SameSeq
<1>8. FlattenSeq(d) = FlattenSeq(a) \o FlattenSeq(b)
    BY <1>2, <1>3, FlattenCat DEF d, NatSeqs
<1>9. /\ InJobs(r, p, via) = FlattenSeq(c) /\ InJobs(s, p, via) = FlattenSeq(a)
      /\ InJobs(t, p, via) = FlattenSeq(b)
    BY <1>1, PartsType DEF a, b, c
<1>. QED
    BY <1>7, <1>8, <1>9, Zenon DEF r

LEMMA InJobsNone ==
    ASSUME NEW jobs \in Seq(JobSet), NEW p, NEW via,
           \A i \in 1..Len(jobs) : jobs[i].to # p \/ jobs[i].via # via
    PROVE  InJobs(jobs, p, via) = <<>>
<1>. DEFINE a == Parts(jobs, p, via)
<1>1. a \in Seq(NatSeqs) /\ Len(a) = Len(jobs)
      /\ \A i \in 1..Len(jobs) : a[i] = OneJob(jobs[i], p, via)
    BY PartsType
<1>. HIDE DEF a
<1>2. \A i \in 1..Len(a) : a[i] = <<>>
    BY <1>1 DEF OneJob
<1>3. FlattenSeq(a) = <<>>
    <2>1. a \in Seq(Seq(Nat))
        BY <1>1 DEF NatSeqs
    <2>. HIDE DEF a
    <2>2. \A s \in Seq(Seq(Nat)) :
             (\A i \in 1..Len(s) : s[i] = <<>>) => FlattenSeq(s) = <<>>
        BY FlattenNone
    <2>. QED
        BY <1>2, <2>1, <2>2
<1>4. InJobs(jobs, p, via) = FlattenSeq(a)
    BY PartsType DEF a
<1>. QED
    BY <1>3, <1>4

LEMMA NumbersFacts ==
    /\ Numbers(<<>>) = <<>>
    /\ \A ms \in Seq(Messages) :
          /\ Numbers(ms) \in Seq(Nat) /\ Len(Numbers(ms)) = Len(ms)
          /\ \A i \in 1..Len(ms) : Numbers(ms)[i] = ms[i].n
<1>1. Numbers(<<>>) = <<>>
    BY DEF Numbers
<1>2. ASSUME NEW ms \in Seq(Messages)
      PROVE  /\ Numbers(ms) \in Seq(Nat) /\ Len(Numbers(ms)) = Len(ms)
             /\ \A i \in 1..Len(ms) : Numbers(ms)[i] = ms[i].n
    <2>1. DOMAIN ms = 1..Len(ms) /\ Len(ms) \in Nat /\ \A i \in 1..Len(ms) : ms[i] \in Messages
        OBVIOUS
    <2>2. \A i \in 1..Len(ms) : ms[i].n \in Nat
        BY <2>1, MessageFacts
    <2>. QED
        BY <2>1, <2>2 DEF Numbers
<1>. QED
    BY <1>1, <1>2

LEMMA InJobsOwn ==
    ASSUME NEW q \in Ports, NEW v \in Vias, NEW ms \in Seq(Messages), NEW p, NEW via
    PROVE  InJobs(Jobs(q, v, ms), p, via) =
              IF p = q /\ via = v THEN Numbers(ms) ELSE <<>>
<1>. DEFINE js == Jobs(q, v, ms)  a == Parts(js, p, via)
<1>1. /\ js \in Seq(JobSet) /\ Len(js) = Len(ms) /\ Len(ms) \in Nat
      /\ \A i \in 1..Len(ms) : js[i].to = q /\ js[i].via = v /\ js[i].msg = ms[i]
    BY JobsType
<1>. HIDE DEF js
<1>2. CASE ~(p = q /\ via = v)
    <2>1. InJobs(js, p, via) = <<>>
        BY <1>1, <1>2, InJobsNone
    <2>. QED
        BY <1>2, <2>1 DEF js
<1>3. CASE p = q /\ via = v
    <2>1. a \in Seq(NatSeqs) /\ Len(a) = Len(js)
          /\ \A i \in 1..Len(js) : a[i] = OneJob(js[i], p, via)
        BY <1>1, PartsType
    <2>. HIDE DEF a
    <2>8. InJobs(js, p, via) = FlattenSeq(a) /\ InJobs(js, p, via) \in Seq(Nat)
        BY <1>1, PartsType DEF a
    <2>2. \A i \in 1..Len(ms) : a[i] = <<ms[i].n>>
        BY <1>1, <1>3, <2>1 DEF OneJob
    <2>3. \A i \in 1..Len(a) : Len(a[i]) = 1 /\ a[i][1] = ms[i].n
        <3>. SUFFICES ASSUME NEW i \in 1..Len(a) PROVE Len(a[i]) = 1 /\ a[i][1] = ms[i].n
            OBVIOUS
        <3>1. i \in 1..Len(ms)
            BY <1>1, <2>1
        <3>2. a[i] = <<ms[i].n>>
            BY <2>2, <3>1
        <3>. QED
            BY <3>2
    <2>4. Len(FlattenSeq(a)) = Len(a) /\ \A i \in 1..Len(a) : FlattenSeq(a)[i] = a[i][1]
        BY <2>1, <2>3, FlattenOnes DEF NatSeqs
    <2>. DEFINE f == FlattenSeq(a)  g == Numbers(ms)
    <2>5. g \in Seq(Nat) /\ Len(g) = Len(ms) /\ \A i \in 1..Len(ms) : g[i] = ms[i].n
        BY NumbersFacts
    <2>6. f \in Seq(Nat) /\ Len(f) = Len(ms) /\ \A i \in 1..Len(ms) : f[i] = ms[i].n
        <3>1. f \in Seq(Nat)
            BY <2>8
        <3>2. Len(a) = Len(ms)
            BY <1>1, <2>1
        <3>. QED
            BY <2>3, <2>4, <3>1, <3>2, Zenon
    <2>. HIDE DEF f, g
    <2>7. f = g
        <3>1. f \in Seq(Nat) /\ g \in Seq(Nat) /\ Len(f) = Len(g)
              /\ \A i \in 1..Len(f) : f[i] = g[i]
            BY <2>5, <2>6, Zenon
        <3>. QED
            BY <3>1, SameSeq, Zenon
    <2>. QED
        BY <1>3, <2>7, <2>8, Zenon DEF f, g, js
<1>. QED
    BY <1>2, <1>3

LEMMA PendingType ==
    ASSUME PortInv, NEW p \in Ports, NEW via
    PROVE  /\ InJobs(micro, p, via) \in Seq(Nat) /\ Numbers(queue[p]) \in Seq(Nat)
           /\ Pending(p, via) \in Seq(Nat)
<1>1. micro \in Seq(JobSet) /\ queue[p] \in Seq(Messages)
    BY DEF PortInv, TypeOK, QueueTypes
<1>2. InJobs(micro, p, via) \in Seq(Nat)
    BY <1>1, PartsType
<1>3. Numbers(queue[p]) \in Seq(Nat)
    BY <1>1, NumbersFacts
<1>. QED
    BY <1>2, <1>3 DEF Pending

LEMMA NatCats ==
    /\ \A a, b, c \in Seq(Nat) : (a \o b) \o c = a \o (b \o c)
    /\ \A a, b \in Seq(Nat) : \A x \in Nat : a \o Append(b, x) = Append(a \o b, x)
<1>1. ASSUME NEW a \in Seq(Nat), NEW b \in Seq(Nat), NEW c \in Seq(Nat)
      PROVE  (a \o b) \o c = a \o (b \o c)
    BY ConcatAssociative, SMTT(30)
<1>2. ASSUME NEW a \in Seq(Nat), NEW b \in Seq(Nat), NEW x \in Nat
      PROVE  a \o Append(b, x) = Append(a \o b, x)
    BY CatAppend
<1>. QED
    BY <1>1, <1>2

LEMMA NumbersAppend ==
    ASSUME NEW ms \in Seq(Messages), NEW m \in Messages
    PROVE  Numbers(Append(ms, m)) = Append(Numbers(ms), m.n)
<1>. DEFINE r == Append(ms, m)  a == Numbers(r)  b == Numbers(ms)  c == Append(b, m.n)
<1>1. /\ r \in Seq(Messages) /\ Len(r) = Len(ms) + 1 /\ Len(ms) \in Nat
      /\ \A i \in 1..(Len(ms) + 1) : r[i] = IF i = Len(ms) + 1 THEN m ELSE ms[i]
    BY SeqFacts
<1>. HIDE DEF r
<1>2. a \in Seq(Nat) /\ Len(a) = Len(r) /\ \A i \in 1..Len(r) : a[i] = r[i].n
    BY <1>1, NumbersFacts
<1>3. b \in Seq(Nat) /\ Len(b) = Len(ms) /\ \A i \in 1..Len(ms) : b[i] = ms[i].n
    BY NumbersFacts
<1>. HIDE DEF a, b
<1>4. m.n \in Nat
    BY MessageFacts
<1>5. /\ c \in Seq(Nat) /\ Len(c) = Len(b) + 1
      /\ \A i \in 1..(Len(b) + 1) : c[i] = IF i = Len(b) + 1 THEN m.n ELSE b[i]
    BY <1>3, <1>4, SeqFacts
<1>. HIDE DEF c
<1>6. \A i \in 1..Len(a) : a[i] = c[i]
    <2>. SUFFICES ASSUME NEW i \in 1..Len(a) PROVE a[i] = c[i]
        OBVIOUS
    <2>1. i \in 1..(Len(ms) + 1) /\ i \in 1..(Len(b) + 1) /\ i \in 1..Len(r)
        BY <1>1, <1>2, <1>3
    <2>2. CASE i = Len(ms) + 1
        BY <1>1, <1>2, <1>3, <1>5, <2>1, <2>2
    <2>3. CASE i # Len(ms) + 1
        <3>1. i \in 1..Len(ms)
            BY <1>1, <2>1, <2>3
        <3>2. r[i] = ms[i] /\ a[i] = r[i].n
            BY <1>1, <1>2, <2>1, <2>3
        <3>3. c[i] = b[i] /\ b[i] = ms[i].n
            BY <1>3, <1>5, <2>1, <2>3, <3>1
        <3>. QED
            BY <3>2, <3>3
    <2>. QED
        BY <2>2, <2>3
<1>7. a = c
    BY <1>1, <1>2, <1>3, <1>5, <1>6, SameSeq
<1>. QED
    BY <1>7 DEF a, b, c, r

LEMMA NumbersTail ==
    ASSUME NEW ms \in Seq(Messages), ms # <<>>
    PROVE  /\ Numbers(ms) # <<>> /\ Head(Numbers(ms)) = Head(ms).n
           /\ Numbers(Tail(ms)) = Tail(Numbers(ms))
<1>. DEFINE r == Tail(ms)  a == Numbers(r)  b == Numbers(ms)  c == Tail(b)
<1>1. /\ r \in Seq(Messages) /\ Len(r) = Len(ms) - 1 /\ Len(ms) \in Nat \ {0}
      /\ Head(ms) = ms[1] /\ \A i \in 1..(Len(ms) - 1) : r[i] = ms[i + 1]
    BY SeqFacts
<1>. HIDE DEF r
<1>2. a \in Seq(Nat) /\ Len(a) = Len(r) /\ \A i \in 1..Len(r) : a[i] = r[i].n
    BY <1>1, NumbersFacts
<1>3. b \in Seq(Nat) /\ Len(b) = Len(ms) /\ \A i \in 1..Len(ms) : b[i] = ms[i].n
    BY NumbersFacts
<1>. HIDE DEF a, b
<1>4. b # <<>>
    BY <1>1, <1>3
<1>5. /\ c \in Seq(Nat) /\ Len(c) = Len(b) - 1 /\ Head(b) = b[1]
      /\ \A i \in 1..(Len(b) - 1) : c[i] = b[i + 1]
    BY <1>3, <1>4, SeqFacts
<1>. HIDE DEF c
<1>6. \A i \in 1..Len(a) : a[i] = c[i]
    <2>. SUFFICES ASSUME NEW i \in 1..Len(a) PROVE a[i] = c[i]
        OBVIOUS
    <2>1. i \in 1..(Len(ms) - 1) /\ i + 1 \in 1..Len(ms) /\ i \in 1..Len(r)
        BY <1>1, <1>2
    <2>. QED
        BY <1>1, <1>2, <1>3, <1>5, <2>1
<1>7. a = c
    BY <1>1, <1>2, <1>3, <1>5, <1>6, SameSeq
<1>8. Head(b) = Head(ms).n
    BY <1>1, <1>3, <1>5
<1>. QED
    BY <1>4, <1>7, <1>8 DEF a, b, c, r

(* A port that gets a message has one more to wait for, on both surfaces.   *)
LEMMA ReceivePending ==
    ASSUME PortInv, NEW t \in Ports, NEW m \in Messages, Receive(t, m),
           NEW x \in Ports, NEW via \in Vias
    PROVE  Pending(x, via)' = IF x = t THEN Append(Pending(x, via), m.n) ELSE Pending(x, via)
<1>1. micro \in Seq(JobSet) /\ queue \in [Ports -> Seq(Messages)] /\ m.n \in Nat
    BY MessageFacts DEF PortInv, TypeOK, QueueTypes
<1>2. Pending(x, via)' = InJobs(micro', x, via) \o Numbers(queue'[x])
    BY DEF Pending
<1>. DEFINE j == InJobs(micro, x, via)  q == Numbers(queue[x])
<1>3. j \in Seq(Nat) /\ q \in Seq(Nat) /\ Pending(x, via) = j \o q
    BY PendingType DEF Pending
<1>. HIDE DEF j, q
<1>4. CASE ~started[t]
    <2>1. micro' = micro /\ queue' = [queue EXCEPT ![t] = Append(queue[t], m)]
        BY <1>4 DEF Receive
    <2>2. CASE x = t
        <3>1. queue'[x] = Append(queue[x], m)
            BY <1>1, <2>1, <2>2
        <3>2. Numbers(Append(queue[x], m)) = Append(q, m.n)
            BY <1>1, NumbersAppend DEF q
        <3>3. j \o Append(q, m.n) = Append(j \o q, m.n)
            BY <1>1, <1>3, NatCats, Zenon
        <3>. QED
            BY <1>2, <1>3, <2>1, <2>2, <3>1, <3>2, <3>3, Zenon DEF j
    <2>3. CASE x # t
        <3>1. queue'[x] = queue[x]
            BY <1>1, <2>1, <2>3
        <3>. QED
            BY <1>2, <1>3, <2>1, <2>3, <3>1 DEF j, q
    <2>. QED
        BY <2>2, <2>3
<1>5. CASE started[t]
    <2>. DEFINE a == Job(t, "w3c", m)  b == Job(t, "ee", m)  s == Append(micro, a)
    <2>1. /\ a \in JobSet /\ b \in JobSet /\ a.to = t /\ b.to = t
          /\ a.via = "w3c" /\ b.via = "ee" /\ a.msg = m /\ b.msg = m
        BY JobType DEF Vias
    <2>. HIDE DEF a, b
    <2>2. micro' = micro \o <<a, b>> /\ queue' = queue
        BY <1>5 DEF Receive, a, b
    <2>3. s \in Seq(JobSet) /\ micro' = Append(s, b)
        <3>1. micro \o <<a, b>> = Append(Append(micro, a), b)
            BY <1>1, <2>1, TwoJobs
        <3>2. s \in Seq(JobSet)
            BY <1>1, <2>1, SeqFacts
        <3>. QED
            BY <2>2, <3>1, <3>2
    <2>4. InJobs(s, x, via) = j \o OneJob(a, x, via)
        BY <1>1, <2>1, InJobsAppend DEF j
    <2>. HIDE DEF s
    <2>5. InJobs(micro', x, via) = InJobs(s, x, via) \o OneJob(b, x, via)
        BY <2>1, <2>3, InJobsAppend
    <2>6. OneJob(a, x, via) = IF x = t /\ via = "w3c" THEN <<m.n>> ELSE <<>>
        BY <2>1 DEF OneJob
    <2>7. OneJob(b, x, via) = IF x = t /\ via = "ee" THEN <<m.n>> ELSE <<>>
        BY <2>1 DEF OneJob
    <2>8. \A z \in Seq(Nat) : z \o <<>> = z /\ z \o <<m.n>> = Append(z, m.n)
        BY <1>1
    <2>9. InJobs(micro', x, via) = IF x = t THEN Append(j, m.n) ELSE j
        <3>1. CASE x = t /\ via = "w3c"
            <4>1. InJobs(s, x, via) = Append(j, m.n)
                BY <1>3, <2>4, <2>6, <2>8, <3>1
            <4>2. OneJob(b, x, via) = <<>> /\ Append(j, m.n) \in Seq(Nat)
                BY <1>1, <1>3, <2>7, <3>1
            <4>. QED
                BY <2>5, <2>8, <3>1, <4>1, <4>2
        <3>2. CASE x = t /\ via = "ee"
            BY <1>3, <2>4, <2>5, <2>6, <2>7, <2>8, <3>2
        <3>3. CASE x # t
            BY <1>3, <2>4, <2>5, <2>6, <2>7, <2>8, <3>3
        <3>. QED
            BY <3>1, <3>2, <3>3 DEF Vias
    <2>10. Pending(x, via)' = (IF x = t THEN Append(j, m.n) ELSE j) \o q
        BY <1>2, <2>2, <2>9 DEF q
    <2>11. CASE x = t
        <3>1. queue[x] = <<>>
            BY <1>5, <2>11 DEF PortInv, StartInv
        <3>2. q = <<>>
            BY <3>1, NumbersFacts DEF q
        <3>3. Append(j, m.n) \in Seq(Nat) /\ j \o <<>> = j
            BY <1>1, <1>3
        <3>4. Append(j, m.n) \o <<>> = Append(j, m.n)
            BY <2>8, <3>3
        <3>. QED
            BY <1>3, <2>10, <2>11, <3>2, <3>3, <3>4, Zenon
    <2>12. CASE x # t
        BY <1>3, <2>10, <2>12
    <2>. QED
        BY <2>11, <2>12
<1>. QED
    BY <1>4, <1>5

(* Starting a port moves its queue to the jobs.                             *)
LEMMA StartPending ==
    ASSUME PortInv, NEW p \in Ports, StartInner(p), NEW x \in Ports, NEW via \in Vias
    PROVE  Pending(x, via)' = Pending(x, via)
<1>1. micro \in Seq(JobSet) /\ queue \in [Ports -> Seq(Messages)]
    BY DEF PortInv, TypeOK, QueueTypes
<1>2. /\ queue' = [queue EXCEPT ![p] = <<>>]
      /\ micro' = micro \o Jobs(p, "w3c", queue[p]) \o Jobs(p, "ee", queue[p])
    BY DEF StartInner, Snapshot
<1>. DEFINE j == InJobs(micro, x, via)  q == Numbers(queue[x])
            a == Jobs(p, "w3c", queue[p])  b == Jobs(p, "ee", queue[p])
<1>3. j \in Seq(Nat) /\ q \in Seq(Nat) /\ Pending(x, via) = j \o q
    BY PendingType DEF Pending
<1>4. Pending(x, via)' = InJobs(micro', x, via) \o Numbers(queue'[x])
    BY DEF Pending
<1>5. queue[p] \in Seq(Messages) /\ "w3c" \in Vias /\ "ee" \in Vias
    BY <1>1 DEF Vias
<1>6. a \in Seq(JobSet) /\ b \in Seq(JobSet)
    BY <1>5, JobsType
<1>7. InJobs(a, x, via) = IF x = p /\ via = "w3c" THEN Numbers(queue[p]) ELSE <<>>
    BY <1>5, InJobsOwn
<1>8. InJobs(b, x, via) = IF x = p /\ via = "ee" THEN Numbers(queue[p]) ELSE <<>>
    BY <1>5, InJobsOwn
<1>. HIDE DEF j, a, b
<1>9. InJobs(micro', x, via) = (j \o InJobs(a, x, via)) \o InJobs(b, x, via)
    <2>. DEFINE c == micro \o a
    <2>1. c \in Seq(JobSet) /\ micro' = c \o b
        BY <1>1, <1>2, <1>6 DEF a, b
    <2>2. InJobs(c, x, via) = j \o InJobs(a, x, via)
        BY <1>1, <1>6, InJobsCat DEF j
    <2>. HIDE DEF c
    <2>3. InJobs(c \o b, x, via) = InJobs(c, x, via) \o InJobs(b, x, via)
        BY <1>6, <2>1, InJobsCat
    <2>. QED
        BY <2>1, <2>2, <2>3, Zenon
<1>10. CASE x # p
    <2>1. queue'[x] = queue[x]
        BY <1>1, <1>2, <1>10
    <2>2. InJobs(a, x, via) = <<>> /\ InJobs(b, x, via) = <<>>
        BY <1>7, <1>8, <1>10
    <2>3. (j \o <<>>) \o <<>> = j
        BY <1>3
    <2>. QED
        BY <1>3, <1>4, <1>9, <2>1, <2>2, <2>3, Zenon
<1>11. CASE x = p
    <2>1. queue'[x] = <<>>
        BY <1>1, <1>2, <1>11
    <2>2. Numbers(queue'[x]) = <<>>
        BY <2>1, NumbersFacts
    <2>3. InJobs(micro', x, via) = j \o q
        <3>. HIDE DEF q
        <3>1. j \o q \in Seq(Nat) /\ (j \o q) \o <<>> = j \o q /\ j \o <<>> = j
            BY <1>3
        <3>2. CASE via = "w3c"
            <4>1. InJobs(a, x, via) = q /\ InJobs(b, x, via) = <<>>
                BY <1>7, <1>8, <1>11, <3>2 DEF q
            <4>. QED
                BY <1>9, <3>1, <4>1, Zenon
        <3>3. CASE via = "ee"
            <4>1. InJobs(a, x, via) = <<>> /\ InJobs(b, x, via) = q
                BY <1>7, <1>8, <1>11, <3>3 DEF q
            <4>. QED
                BY <1>9, <3>1, <4>1, Zenon
        <3>. QED
            BY <3>2, <3>3 DEF Vias
    <2>4. (j \o q) \o <<>> = j \o q
        <3>. HIDE DEF q
        <3>. QED
            BY <1>3
    <2>. QED
        BY <1>3, <1>4, <2>2, <2>3, <2>4, Zenon
<1>. QED
    BY <1>10, <1>11

LEMMA SinglePart ==
    ASSUME NEW n \in Nat, NEW s \in Seq(Nat)
    PROVE  /\ <<n>> \o s # <<>> /\ Head(<<n>> \o s) = n /\ Tail(<<n>> \o s) = s
           /\ <<n>> \o s \in Seq(Nat)
<1>1. /\ <<n>> \in Seq(Nat) /\ <<n>> # <<>> /\ Head(<<n>>) = n /\ Tail(<<n>>) = <<>>
      /\ <<>> \o s = s
    OBVIOUS
<1>2. \A a, b \in Seq(Nat) : a # <<>> => /\ a \o b # <<>> /\ a \o b \in Seq(Nat)
                                         /\ Head(a \o b) = Head(a) /\ Tail(a \o b) = Tail(a) \o b
    BY CatHead
<1>. QED
    BY <1>1, <1>2

(* A job takes the first message that waits for its port on its surface.    *)
LEMMA RunPending ==
    ASSUME PortInv, RunMicrotask, NEW x \in Ports, NEW via \in Vias
    PROVE  IF x = Head(micro).to /\ via = Head(micro).via
           THEN /\ Pending(x, via) # <<>> /\ Head(Pending(x, via)) = Head(micro).msg.n
                /\ Pending(x, via)' = Tail(Pending(x, via))
           ELSE Pending(x, via)' = Pending(x, via)
<1>. DEFINE j == Head(micro)  r == InJobs(Tail(micro), x, via)  q == Numbers(queue[x])
<1>1. micro \in Seq(JobSet) /\ micro # <<>> /\ micro' = Tail(micro) /\ queue' = queue
    BY DEF PortInv, TypeOK, QueueTypes, RunMicrotask
<1>2. j \in JobSet /\ Tail(micro) \in Seq(JobSet)
    BY <1>1, SeqFacts
<1>3. j.msg.n \in Nat
    BY <1>2, MessageFacts
<1>4. InJobs(micro, x, via) = OneJob(j, x, via) \o r
    BY <1>1, InJobsHead
<1>5. r \in Seq(Nat) /\ q \in Seq(Nat)
    BY <1>2, PartsType, PendingType
<1>6. Pending(x, via)' = r \o q /\ Pending(x, via) = (OneJob(j, x, via) \o r) \o q
    BY <1>1, <1>4 DEF Pending
<1>. HIDE DEF j, r, q
<1>7. CASE x = j.to /\ via = j.via
    <2>1. OneJob(j, x, via) = <<j.msg.n>>
        BY <1>7 DEF OneJob
    <2>2. <<j.msg.n>> \in Seq(Nat) /\ r \o q \in Seq(Nat)
        BY <1>3, <1>5
    <2>3. (<<j.msg.n>> \o r) \o q = <<j.msg.n>> \o (r \o q)
        BY <1>5, <2>2, CatAssoc
    <2>4. Pending(x, via) = <<j.msg.n>> \o (r \o q)
        BY <1>6, <2>1, <2>3, Zenon
    <2>. DEFINE z == r \o q
    <2>. HIDE DEF z
    <2>5. <<j.msg.n>> \o z # <<>> /\ Head(<<j.msg.n>> \o z) = j.msg.n
          /\ Tail(<<j.msg.n>> \o z) = z
        BY <1>3, <2>2, SinglePart DEF z
    <2>6. Pending(x, via) = <<j.msg.n>> \o z /\ Pending(x, via)' = z
        BY <1>6, <2>4 DEF z
    <2>7. Pending(x, via) # <<>> /\ Head(Pending(x, via)) = j.msg.n
          /\ Pending(x, via)' = Tail(Pending(x, via))
        BY <2>5, <2>6, Zenon
    <2>. QED
        BY <1>7, <2>7 DEF j
<1>8. CASE ~(x = j.to /\ via = j.via)
    <2>1. OneJob(j, x, via) = <<>>
        BY <1>8 DEF OneJob
    <2>2. <<>> \o r = r
        BY <1>5
    <2>3. Pending(x, via)' = Pending(x, via)
        BY <1>6, <2>1, <2>2, Zenon
    <2>. QED
        BY <1>8, <2>3 DEF j
<1>. QED
    BY <1>7, <1>8

(* receiveMessageOnPort takes it on both surfaces: the port has no jobs.    *)
LEMMA TakePending ==
    ASSUME PortInv, NEW p \in Ports, ReceiveOnPort(p), NEW x \in Ports, NEW via \in Vias
    PROVE  IF x = p
           THEN /\ Pending(x, via) # <<>> /\ Head(Pending(x, via)) = Head(queue[p]).n
                /\ Pending(x, via)' = Tail(Pending(x, via))
           ELSE Pending(x, via)' = Pending(x, via)
<1>1. /\ micro \in Seq(JobSet) /\ micro' = micro /\ queue[p] \in Seq(Messages)
      /\ queue \in [Ports -> Seq(Messages)] /\ queue[p] # <<>>
      /\ queue' = [queue EXCEPT ![p] = Tail(queue[p])]
    BY DEF PortInv, TypeOK, QueueTypes, ReceiveOnPort
<1>2. /\ Pending(x, via) = InJobs(micro, x, via) \o Numbers(queue[x])
      /\ Pending(x, via)' = InJobs(micro, x, via) \o Numbers(queue'[x])
    BY <1>1 DEF Pending
<1>3. CASE x # p
    <2>1. queue'[x] = queue[x]
        BY <1>1, <1>3
    <2>. QED
        BY <1>2, <1>3, <2>1
<1>4. CASE x = p
    <2>1. ~started[p]
        BY <1>1 DEF PortInv, StartInv
    <2>2. \A i \in 1..Len(micro) : micro[i].to # p
        BY <2>1 DEF PortInv, StartInv
    <2>3. InJobs(micro, x, via) = <<>>
        BY <1>1, <1>4, <2>2, InJobsNone
    <2>4. /\ Numbers(queue[p]) # <<>> /\ Head(Numbers(queue[p])) = Head(queue[p]).n
          /\ Numbers(Tail(queue[p])) = Tail(Numbers(queue[p]))
        BY <1>1, NumbersTail
    <2>5. Numbers(queue[p]) \in Seq(Nat)
        BY <1>1, NumbersFacts
    <2>6. queue'[p] = Tail(queue[p])
        BY <1>1
    <2>. DEFINE a == Numbers(queue[p])
    <2>7. a \in Seq(Nat) /\ Tail(a) \in Seq(Nat)
        BY <2>4, <2>5
    <2>8. Pending(x, via) = <<>> \o a /\ Pending(x, via)' = <<>> \o Tail(a)
        BY <1>2, <1>4, <2>3, <2>4, <2>6, Zenon
    <2>. HIDE DEF a
    <2>9. Pending(x, via) = a /\ Pending(x, via)' = Tail(a)
        BY <2>7, <2>8
    <2>. QED
        BY <1>4, <2>4, <2>9 DEF a
<1>. QED
    BY <1>3, <1>4

LEMMA ClosePending ==
    ASSUME PortInv, NEW p \in Ports, Close(p), NEW x \in Ports, x # p, NEW via
    PROVE  Pending(x, via)' = Pending(x, via)
<1>1. queue \in [Ports -> Seq(Messages)]
    BY DEF PortInv, TypeOK, QueueTypes
<1>2. queue'[x] = queue[x] /\ micro' = micro
    BY <1>1 DEF Close
<1>. QED
    BY <1>2 DEF Pending

LEMMA NewPending ==
    ASSUME PortInv', NEW n \in Ports, ~started'[n], queue'[n] = <<>>, NEW via
    PROVE  Pending(n, via)' = <<>>
<1>1. micro' \in Seq(JobSet) /\ \A i \in 1..Len(micro') : started'[micro'[i].to]
    BY DEF PortInv, TypeOK, QueueTypes, StartInv
<1>2. \A i \in 1..Len(micro') : micro'[i].to # n
    BY <1>1
<1>3. InJobs(micro', n, via) = <<>>
    BY <1>1, <1>2, InJobsNone
<1>4. Pending(n, via)' = InJobs(micro', n, via) \o Numbers(queue'[n])
    BY DEF Pending
<1>5. Numbers(<<>>) = <<>> /\ <<>> \o <<>> = <<>>
    BY NumbersFacts
<1>. QED
    BY <1>3, <1>4, <1>5, Zenon

-----------------------------------------------------------------------------
(* The owner of an end, and the messages that wait for it.                  *)
LEMMA OwnerIs ==
    ASSUME PortInv, NEW e \in Ends
    PROVE  /\ Owner(e) \in 1..np /\ Owner(e) \in Ports
           /\ end[Owner(e)] = e /\ ~detached[Owner(e)]
<1>1. \E p \in 1..np : end[p] = e /\ ~detached[p]
    BY DEF PortInv, OwnerInv
<1>2. Owner(e) \in 1..np /\ end[Owner(e)] = e /\ ~detached[Owner(e)]
    BY <1>1 DEF Owner
<1>3. np \in 4..MaxPorts /\ MaxPorts \in Nat
    BY EndsArePorts DEF PortInv, TypeOK, PortTypes
<1>. QED
    BY <1>2, <1>3 DEF Ports

LEMMA OwnerOnly ==
    ASSUME PortInv, NEW p \in Ports, p <= np
    PROVE  /\ p \in 1..np /\ end[p] \in Ends
           /\ ~detached[p] => Owner(end[p]) = p
           /\ ~closed[p] => ~detached[p]
<1>1. p \in 1..np
    BY EndsArePorts DEF PortInv, TypeOK, PortTypes, Ports
<1>2. end[p] \in Ends
    BY <1>1 DEF PortInv, OwnerInv
<1>3. ASSUME ~detached[p] PROVE Owner(end[p]) = p
    BY <1>1, <1>2, <1>3, OwnerIs DEF PortInv, OwnerInv
<1>4. ~closed[p] => ~detached[p]
    BY DEF PortInv, OwnerInv
<1>. QED
    BY <1>1, <1>2, <1>3, <1>4

LEMMA OwnerKept ==
    ASSUME UNCHANGED <<np, end, detached>>, NEW e
    PROVE  Owner(e)' = Owner(e)
BY DEF Owner

LEMMA WaitingIs ==
    ASSUME NEW e, NEW via
    PROVE  Waiting(e, via) = IF closed[Owner(e)] THEN <<>> ELSE Pending(Owner(e), via)
BY DEF Waiting, Pending

LEMMA WaitingNext ==
    ASSUME NEW e, NEW via, NEW o, Owner(e)' = o
    PROVE  Waiting(e, via)' = IF closed'[o] THEN <<>> ELSE Pending(o, via)'
BY DEF Waiting, Pending

LEMMA WaitingType ==
    ASSUME PortInv, NEW e \in Ends, NEW via
    PROVE  Waiting(e, via) \in Seq(Nat)
<1>1. PICK o \in Ports : o = Owner(e)
    BY OwnerIs
<1>2. Waiting(e, via) = IF closed[o] THEN <<>> ELSE Pending(o, via)
    BY <1>1, WaitingIs
<1>3. Pending(o, via) \in Seq(Nat) /\ <<>> \in Seq(Nat)
    BY PendingType
<1>. QED
    BY <1>2, <1>3

(* What the steps do to the messages that wait for the owner of an end.     *)
LEMMA SameOwner ==
    ASSUME UNCHANGED <<np, end, detached>>, NEW e, NEW via, NEW o, o = Owner(e),
           closed'[o] = closed[o], ~closed[o] => Pending(o, via)' = Pending(o, via)
    PROVE  Waiting(e, via)' = Waiting(e, via)
<1>1. Owner(e)' = o
    BY OwnerKept
<1>2. Waiting(e, via)' = IF closed'[o] THEN <<>> ELSE Pending(o, via)'
    BY <1>1, WaitingNext
<1>3. Waiting(e, via) = IF closed[o] THEN <<>> ELSE Pending(o, via)
    BY WaitingIs
<1>. QED
    BY <1>2, <1>3

LEMMA PostWaiting ==
    ASSUME PortInv, NEW p \in Ports, Post(p), NEW f \in Ends, f = end[other[p]],
           NEW e \in Ends, NEW via \in Vias
    PROVE  /\ ~closed[Owner(f)]
           /\ Waiting(e, via)' = IF e = f THEN Append(Waiting(e, via), sent[e] + 1)
                                 ELSE Waiting(e, via)
<1>1. PICK t \in Ports : t = other[p]
    BY Partner DEF Post
<1>2. t <= np /\ ~closed[t] /\ ~detached[t] /\ f = end[t]
    BY <1>1, Partner DEF Post
<1>3. Owner(f) = t
    BY <1>2, OwnerOnly
<1>4. NoPort \in 0..MaxPorts
    BY EndsArePorts DEF NoPort
<1>5. PICK m \in Messages : m = Message(f, NoPort) /\ m.n = sent[f] + 1
    BY <1>4, MessageType
<1>6. /\ Receive(t, m) /\ np' = np /\ end' = end /\ detached' = detached /\ closed' = closed
    BY <1>1, <1>5 DEF Post, portVars
<1>7. PICK o \in Ports : o = Owner(e) /\ end[o] = e
    BY OwnerIs
<1>8. Pending(o, via)' = IF o = t THEN Append(Pending(o, via), m.n) ELSE Pending(o, via)
    BY <1>6, ReceivePending
<1>9. Owner(e)' = o
    BY <1>6, <1>7, OwnerKept
<1>10. Waiting(e, via)' = IF closed'[o] THEN <<>> ELSE Pending(o, via)'
    BY <1>9, WaitingNext
<1>11. Waiting(e, via) = IF closed[o] THEN <<>> ELSE Pending(o, via)
    BY <1>7, WaitingIs
<1>12. e = f <=> o = t
    BY <1>2, <1>3, <1>7
<1>. QED
    BY <1>2, <1>3, <1>5, <1>6, <1>8, <1>10, <1>11, <1>12

LEMMA StartWaiting ==
    ASSUME PortInv, NEW p \in Ports, StartInner(p), NEW e \in Ends, NEW via \in Vias
    PROVE  Waiting(e, via)' = Waiting(e, via) /\ Owner(e)' = Owner(e)
<1>1. PICK o \in Ports : o = Owner(e)
    BY OwnerIs
<1>2. Pending(o, via)' = Pending(o, via)
    BY StartPending
<1>3. UNCHANGED <<np, end, detached>> /\ closed' = closed
    BY DEF StartInner
<1>. QED
    BY <1>1, <1>2, <1>3, SameOwner, OwnerKept

LEMMA CloseWaiting ==
    ASSUME PortInv, NEW p \in Ports, Close(p), NEW e \in Ends, NEW via \in Vias
    PROVE  /\ p <= np /\ Owner(end[p]) = p
           /\ Waiting(e, via)' = IF e = end[p] THEN <<>> ELSE Waiting(e, via)
<1>1. /\ p \in known /\ ~closed[p] /\ closed' = [closed EXCEPT ![p] = TRUE]
      /\ UNCHANGED <<np, end, detached>>
    BY DEF Close
<1>2. np \in Nat /\ closed \in [Ports -> BOOLEAN]
    BY DEF PortInv, TypeOK, PortTypes
<1>3. ~(p > np)
    BY <1>1 DEF PortInv, FutureInv
<1>4. p <= np
    BY <1>2, <1>3, EndsArePorts
<1>5. Owner(end[p]) = p
    BY <1>1, <1>4, OwnerOnly
<1>6. PICK o \in Ports : o = Owner(e) /\ end[o] = e
    BY OwnerIs
<1>7. e = end[p] <=> o = p
    BY <1>5, <1>6
<1>8. Owner(e)' = o
    BY <1>1, <1>6, OwnerKept
<1>9. CASE o = p
    <2>1. closed'[o]
        BY <1>1, <1>2, <1>9
    <2>2. Waiting(e, via)' = <<>>
        BY <1>8, <2>1, WaitingNext
    <2>. QED
        BY <1>4, <1>5, <1>7, <1>9, <2>2
<1>10. CASE o # p
    <2>1. closed'[o] = closed[o]
        BY <1>1, <1>2, <1>10
    <2>2. Pending(o, via)' = Pending(o, via)
        BY <1>10, ClosePending
    <2>3. Waiting(e, via)' = Waiting(e, via)
        BY <1>1, <1>6, <2>1, <2>2, SameOwner
    <2>. QED
        BY <1>4, <1>5, <1>7, <1>10, <2>3
<1>. QED
    BY <1>9, <1>10

LEMMA TakeWaiting ==
    ASSUME PortInv, NEW p \in Ports, ReceiveOnPort(p), NEW e \in Ends, NEW via \in Vias
    PROVE  /\ Owner(e)' = Owner(e)
           /\ IF e = end[p] /\ ~closed[p]
              THEN /\ Waiting(e, via) # <<>> /\ Head(Waiting(e, via)) = Head(queue[p]).n
                   /\ Waiting(e, via)' = Tail(Waiting(e, via))
              ELSE Waiting(e, via)' = Waiting(e, via)
<1>1. /\ p \in known /\ UNCHANGED <<np, end, detached>> /\ closed' = closed
    BY DEF ReceiveOnPort, portVars
<1>2. ~(p > np) /\ np \in Nat
    BY <1>1 DEF PortInv, FutureInv, TypeOK, PortTypes
<1>3. p <= np
    BY <1>2, EndsArePorts
<1>4. ~closed[p] => Owner(end[p]) = p
    BY <1>3, OwnerOnly
<1>5. PICK o \in Ports : o = Owner(e) /\ end[o] = e
    BY OwnerIs
<1>6. Owner(e)' = o
    BY <1>1, <1>5, OwnerKept
<1>7. IF o = p
      THEN /\ Pending(o, via) # <<>> /\ Head(Pending(o, via)) = Head(queue[p]).n
           /\ Pending(o, via)' = Tail(Pending(o, via))
      ELSE Pending(o, via)' = Pending(o, via)
    BY TakePending
<1>8. CASE e = end[p] /\ ~closed[p]
    <2>1. o = p
        BY <1>4, <1>5, <1>8
    <2>2. Waiting(e, via) = Pending(o, via)
        BY <1>5, <1>8, <2>1, WaitingIs
    <2>3. Waiting(e, via)' = Pending(o, via)'
        BY <1>1, <1>6, <1>8, <2>1, WaitingNext
    <2>. QED
        BY <1>5, <1>6, <1>7, <1>8, <2>1, <2>2, <2>3
<1>9. CASE ~(e = end[p] /\ ~closed[p])
    <2>1. o = p => closed[o]
        BY <1>5, <1>9
    <2>2. ~closed[o] => Pending(o, via)' = Pending(o, via)
        BY <1>7, <2>1
    <2>3. Waiting(e, via)' = Waiting(e, via)
        BY <1>1, <1>5, <2>2, SameOwner
    <2>. QED
        BY <1>5, <1>6, <1>9, <2>3
<1>. QED
    BY <1>8, <1>9

LEMMA RunWaiting ==
    ASSUME PortInv, RunMicrotask, NEW j, j = Head(micro), NEW e \in Ends, NEW via \in Vias
    PROVE  /\ Owner(e)' = Owner(e) /\ j \in JobSet /\ j.to \in 1..np
           /\ IF e = end[j.to] /\ via = j.via /\ ~closed[j.to]
              THEN /\ Waiting(e, via) # <<>> /\ Head(Waiting(e, via)) = j.msg.n
                   /\ Waiting(e, via)' = Tail(Waiting(e, via))
              ELSE Waiting(e, via)' = Waiting(e, via)
<1>1. /\ micro # <<>> /\ UNCHANGED <<np, end, detached>> /\ closed' = closed
    BY DEF RunMicrotask, portVars
<1>2. micro \in Seq(JobSet) /\ np \in Nat
    BY DEF PortInv, TypeOK, QueueTypes, PortTypes
<1>3. j = micro[1] /\ 1 \in 1..Len(micro)
    BY <1>1, <1>2
<1>4. j \in JobSet /\ started[j.to]
    BY <1>2, <1>3, Held
<1>5. j.to \in Ports
    BY <1>4, MessageFacts
<1>6. ~(j.to > np)
    BY <1>4, <1>5 DEF PortInv, FutureInv
<1>7. j.to <= np /\ j.to \in 1..np
    BY <1>2, <1>5, <1>6, EndsArePorts DEF Ports
<1>8. ~closed[j.to] => Owner(end[j.to]) = j.to
    BY <1>5, <1>7, OwnerOnly
<1>9. PICK o \in Ports : o = Owner(e) /\ end[o] = e
    BY OwnerIs
<1>10. Owner(e)' = o
    BY <1>1, <1>9, OwnerKept
<1>11. IF o = j.to /\ via = j.via
       THEN /\ Pending(o, via) # <<>> /\ Head(Pending(o, via)) = j.msg.n
            /\ Pending(o, via)' = Tail(Pending(o, via))
       ELSE Pending(o, via)' = Pending(o, via)
    BY RunPending
<1>12. CASE e = end[j.to] /\ via = j.via /\ ~closed[j.to]
    <2>1. o = j.to
        BY <1>8, <1>9, <1>12
    <2>2. Waiting(e, via) = Pending(o, via)
        BY <1>9, <1>12, <2>1, WaitingIs
    <2>3. Waiting(e, via)' = Pending(o, via)'
        BY <1>1, <1>10, <1>12, <2>1, WaitingNext
    <2>. QED
        BY <1>4, <1>7, <1>9, <1>10, <1>11, <1>12, <2>1, <2>2, <2>3
<1>13. CASE ~(e = end[j.to] /\ via = j.via /\ ~closed[j.to])
    <2>1. o = j.to /\ via = j.via => closed[o]
        BY <1>9, <1>13
    <2>2. ~closed[o] => Pending(o, via)' = Pending(o, via)
        BY <1>11, <2>1
    <2>3. Waiting(e, via)' = Waiting(e, via)
        BY <1>1, <1>9, <2>2, SameOwner
    <2>. QED
        BY <1>4, <1>7, <1>9, <1>10, <1>13, <2>3
<1>. QED
    BY <1>12, <1>13

(* A transfer of q: f is the end that moves to the new port, e0 that of the *)
(* message, which is lost when q itself was to be told of it.               *)
LEMMA TransferWaiting ==
    ASSUME PortInv, PortInv', NEW p \in Ports, NEW q \in Ports, PostTransfer(p, q),
           NEW e0 \in Ends, e0 = end[other[p]], NEW f \in Ends, f = end[q],
           NEW n, n = np + 1, NEW e \in Ends, NEW via \in Vias
    PROVE  /\ ~closed[Owner(e0)] /\ Owner(f) = q /\ n \in Ports /\ n # q
           /\ Owner(e)' = IF e = f THEN n ELSE Owner(e)
           /\ e = f => ~closed'[n]
           /\ e # f => closed'[Owner(e)] = closed[Owner(e)]
           /\ Waiting(e, via)' = IF e = f THEN <<>>
                                 ELSE IF e = e0 THEN Append(Waiting(e, via), sent[e] + 1)
                                 ELSE Waiting(e, via)
<1>1. /\ n \in Ports /\ q \in 1..np /\ q # n /\ np' = n /\ np \in Nat
      /\ ~closed[q] /\ ~detached[q]
      /\ closed' = [closed EXCEPT ![q] = TRUE] /\ detached' = [detached EXCEPT ![q] = TRUE]
      /\ end' = [end EXCEPT ![n] = end[q]] /\ started' = started
    BY TransferMoves DEF Moves
<1>2. /\ closed \in [Ports -> BOOLEAN] /\ detached \in [Ports -> BOOLEAN]
      /\ end \in [Ports -> Ports]
    BY DEF PortInv, TypeOK, PortTypes
<1>3. PICK t \in Ports : t = other[p]
    BY Partner DEF PostTransfer
<1>4. t <= np /\ ~closed[t] /\ ~detached[t] /\ e0 = end[t]
    BY <1>3, Partner DEF PostTransfer
<1>5. Owner(e0) = t /\ Owner(f) = q
    <2>1. q <= np
        BY <1>1
    <2>. QED
        BY <1>1, <1>4, <2>1, OwnerOnly
<1>6. ~started[n] /\ queue[n] = <<>> /\ ~closed[n] /\ ~detached[n] /\ n > np
    <2>1. n > np
        BY <1>1
    <2>. QED
        BY <1>1, <2>1 DEF PortInv, FutureInv
<1>7. t # n
    BY <1>1, <1>4
<1>8. PICK o \in Ports : o = Owner(e) /\ end[o] = e /\ o \in 1..np /\ ~detached[o]
    BY OwnerIs
<1>9. o # n /\ (o = q <=> e = f) /\ (o = t <=> e = e0)
    BY <1>1, <1>4, <1>5, <1>8
<1>10. PICK m \in Messages : m = Message(e0, n) /\ m.n = sent[e0] + 1
    <2>1. n \in 0..MaxPorts
        BY <1>1, EndsArePorts DEF Ports
    <2>. QED
        BY <2>1, MessageType
<1>11. IF closed'[t] THEN UNCHANGED <<queue, micro>> ELSE Receive(t, m)
    BY <1>3, <1>10 DEF PostTransfer
<1>12. closed'[t] <=> t = q
    BY <1>1, <1>2, <1>4
<1>13. CASE e = f
    <2>1. /\ end'[n] = f /\ ~detached'[n] /\ ~closed'[n] /\ ~started'[n]
        BY <1>1, <1>2, <1>6
    <2>2. Owner(f)' = n
        <3>1. n \in 1..np'
            BY <1>1
        <3>2. \A x, y \in 1..np' :
                  end'[x] = end'[y] /\ ~detached'[x] /\ ~detached'[y] => x = y
            BY DEF PortInv, OwnerInv
        <3>3. \A x \in 1..np' : end'[x] = f /\ ~detached'[x] => x = n
            BY <2>1, <3>1, <3>2
        <3>4. Owner(f)' = CHOOSE x \in 1..np' : end'[x] = f /\ ~detached'[x]
            BY DEF Owner
        <3>. QED
            BY <2>1, <3>1, <3>3, <3>4
    <2>3. queue'[n] = <<>>
        <3>1. CASE t = q
            BY <1>6, <1>11, <1>12, <3>1
        <3>2. CASE t # q
            <4>1. queue \in [Ports -> Seq(Messages)]
                BY DEF PortInv, TypeOK, QueueTypes
            <4>2. Receive(t, m)
                BY <1>11, <1>12, <3>2
            <4>3. queue' = queue \/ queue' = [queue EXCEPT ![t] = Append(queue[t], m)]
                BY <4>2 DEF Receive
            <4>4. queue'[n] = queue[n]
                BY <1>1, <1>7, <4>1, <4>3
            <4>. QED
                BY <1>6, <4>4
        <3>. QED
            BY <3>1, <3>2
    <2>4. Pending(n, via)' = <<>>
        BY <1>1, <2>1, <2>3, NewPending
    <2>5. Waiting(e, via)' = <<>>
        BY <1>13, <2>1, <2>2, <2>4, WaitingNext
    <2>. QED
        BY <1>1, <1>4, <1>5, <1>13, <2>1, <2>2, <2>5
<1>14. CASE e # f
    <2>1. o # q /\ o # n
        BY <1>9, <1>14
    <2>2. end'[o] = e /\ ~detached'[o] /\ closed'[o] = closed[o]
        BY <1>1, <1>2, <1>8, <2>1
    <2>3. Owner(e)' = o
        <3>1. o \in 1..np'
            BY <1>1, <1>8
        <3>2. \A x, y \in 1..np' :
                  end'[x] = end'[y] /\ ~detached'[x] /\ ~detached'[y] => x = y
            BY DEF PortInv, OwnerInv
        <3>3. \A x \in 1..np' : end'[x] = e /\ ~detached'[x] => x = o
            BY <2>2, <3>1, <3>2
        <3>4. Owner(e)' = CHOOSE x \in 1..np' : end'[x] = e /\ ~detached'[x]
            BY DEF Owner
        <3>. QED
            BY <2>2, <3>1, <3>3, <3>4
    <2>4. Waiting(e, via)' = IF closed'[o] THEN <<>> ELSE Pending(o, via)'
        BY <2>3, WaitingNext
    <2>5. Waiting(e, via) = IF closed[o] THEN <<>> ELSE Pending(o, via)
        BY <1>8, WaitingIs
    <2>6. Pending(o, via)' = IF e = e0 THEN Append(Pending(o, via), m.n) ELSE Pending(o, via)
        <3>1. CASE t = q
            <4>1. queue' = queue /\ micro' = micro
                BY <1>11, <1>12, <3>1
            <4>. QED
                BY <1>9, <2>1, <3>1, <4>1 DEF Pending
        <3>2. CASE t # q
            <4>1. Receive(t, m)
                BY <1>11, <1>12, <3>2
            <4>2. Pending(o, via)' = IF o = t THEN Append(Pending(o, via), m.n)
                                     ELSE Pending(o, via)
                BY <4>1, ReceivePending
            <4>. QED
                BY <1>9, <4>2
        <3>. QED
            BY <3>1, <3>2
    <2>7. Waiting(e, via)' = IF e = e0 THEN Append(Waiting(e, via), sent[e] + 1)
                             ELSE Waiting(e, via)
        <3>1. e = e0 => ~closed[o] /\ m.n = sent[e] + 1
            BY <1>4, <1>9, <1>10
        <3>. QED
            BY <2>2, <2>4, <2>5, <2>6, <3>1
    <2>. QED
        BY <1>1, <1>4, <1>5, <1>8, <1>14, <2>2, <2>3, <2>7
<1>. QED
    BY <1>13, <1>14

-----------------------------------------------------------------------------
(* A port that has not the end of its number got it from the port that has, *)
(* which was transferred: an end whose first port is open is that port's.   *)
FirstInv == \A p \in 1..np : p # end[p] => detached[end[p]]

(* The numbers from 1 on, as many as n.                                     *)
Iota(n) == [i \in 1..n |-> i]

(* Both surfaces have a message once for each that was posted.              *)
OneSide(told, via) ==
    \A e \in Ends : ~closed[e] => told[e] \o Waiting(e, via) = Iota(sent[e])
AgreeInv == PortInv /\ FirstInv /\ SurfacesAgree

LEMMA TwoSides ==
    SurfacesAgree <=> OneSide(emitted, "ee") /\ OneSide(dispatched, "w3c")
BY DEF SurfacesAgree, OneSide, Iota

LEMMA FirstOwner ==
    ASSUME PortInv, NEW e \in Ends, ~closed[e]
    PROVE  Owner(e) = e
<1>1. e \in Ports /\ e <= np /\ end[e] = e
    <2>1. np \in 4..MaxPorts
        BY DEF PortInv, TypeOK, PortTypes
    <2>2. e <= np
        BY <2>1, EndsArePorts DEF Ends
    <2>. QED
        BY <2>2, EndsArePorts DEF PortInv, OwnerInv
<1>. QED
    BY <1>1, OwnerOnly

LEMMA OneMore ==
    ASSUME NEW n \in Nat
    PROVE  Append(Iota(n), n + 1) = Iota(n + 1)
<1>. DEFINE a == Iota(n)  b == Iota(n + 1)  c == Append(a, n + 1)
<1>1. a \in Seq(Nat) /\ Len(a) = n /\ \A i \in 1..n : a[i] = i
    BY DEF Iota
<1>2. b \in Seq(Nat) /\ Len(b) = n + 1 /\ \A i \in 1..(n + 1) : b[i] = i
    BY DEF Iota
<1>. HIDE DEF a, b
<1>3. /\ c \in Seq(Nat) /\ Len(c) = n + 1
      /\ \A i \in 1..(n + 1) : c[i] = IF i = n + 1 THEN n + 1 ELSE a[i]
    BY <1>1
<1>. HIDE DEF c
<1>4. \A i \in 1..Len(c) : c[i] = b[i]
    BY <1>1, <1>2, <1>3
<1>5. c = b
    BY <1>2, <1>3, <1>4, SameSeq
<1>. QED
    BY <1>5 DEF a, b, c

LEMMA Grows ==
    ASSUME NEW a \in Seq(Nat), NEW w \in Seq(Nat), NEW n \in Nat,
           a \o w = Iota(n)
    PROVE  a \o Append(w, n + 1) = Iota(n + 1)
<1>1. a \o Append(w, n + 1) = Append(a \o w, n + 1)
    <2>. DEFINE k == n + 1
    <2>1. k \in Nat
        OBVIOUS
    <2>. HIDE DEF k
    <2>2. a \o Append(w, k) = Append(a \o w, k)
        BY <2>1, NatCats, Zenon
    <2>. QED
        BY <2>2 DEF k
<1>2. Append(Iota(n), n + 1) = Iota(n + 1)
    BY OneMore
<1>. QED
    BY <1>1, <1>2, Zenon

LEMMA Passes ==
    ASSUME NEW a \in Seq(Nat), NEW w \in Seq(Nat), w # <<>>
    PROVE  Append(a, Head(w)) \o Tail(w) = a \o w
<1>. DEFINE x == Head(w)  r == Tail(w)  o == <<x>>
<1>1. r \in Seq(Nat) /\ w = o \o r /\ o \in Seq(Nat)
    OBVIOUS
<1>2. Append(a, x) = a \o o
    OBVIOUS
<1>. HIDE DEF r, o
<1>3. (a \o o) \o r = a \o (o \o r)
    BY <1>1, NatCats, Zenon
<1>. QED
    BY <1>1, <1>2, <1>3, Zenon DEF x, r

(* What a step may do to an end: nothing, one more message that waits, or   *)
(* the first of those that wait told.                                       *)
Advances(a, w, n, b, v, m) ==
    \/ b = a /\ v = w /\ m = n
    \/ b = a /\ v = Append(w, n + 1) /\ m = n + 1
    \/ w # <<>> /\ b = Append(a, Head(w)) /\ v = Tail(w) /\ m = n

Complete(a, w, n) == a \o w = Iota(n)

LEMMA AdvancesKeep ==
    ASSUME NEW a \in Seq(Nat), NEW w \in Seq(Nat), NEW n \in Nat, NEW b, NEW v, NEW m,
           Advances(a, w, n, b, v, m), Complete(a, w, n)
    PROVE  Complete(b, v, m)
<1>. SUFFICES ASSUME a \o w = Iota(n) PROVE b \o v = Iota(m)
    BY DEF Complete
<1>1. CASE b = a /\ v = w /\ m = n
    BY <1>1
<1>2. CASE b = a /\ v = Append(w, n + 1) /\ m = n + 1
    <2>1. a \o Append(w, n + 1) = Iota(n + 1)
        BY Grows
    <2>. QED
        BY <1>2, <2>1, Zenon
<1>3. CASE w # <<>> /\ b = Append(a, Head(w)) /\ v = Tail(w) /\ m = n
    <2>1. Append(a, Head(w)) \o Tail(w) = a \o w
        BY <1>3, Passes
    <2>. QED
        BY <1>3, <2>1, Zenon
<1>. QED
    BY <1>1, <1>2, <1>3 DEF Advances

LEMMA FirstStep ==
    ASSUME PortInv, FirstInv, [Next]_vars
    PROVE  FirstInv'
<1>1. CASE UNCHANGED <<np, end, detached>>
    BY <1>1 DEF FirstInv
<1>2. ASSUME NEW p \in Ports, NEW q \in Ports, PostTransfer(p, q)
      PROVE  FirstInv'
    <2>1. PICK n : n = np + 1
        OBVIOUS
    <2>2. /\ n \in Ports /\ q \in 1..np /\ q # n /\ np' = n /\ np \in Nat
          /\ detached' = [detached EXCEPT ![q] = TRUE] /\ end' = [end EXCEPT ![n] = end[q]]
        BY <1>2, <2>1, TransferMoves DEF Moves
    <2>3. detached \in [Ports -> BOOLEAN] /\ end \in [Ports -> Ports] /\ 1..np \subseteq Ports
        <3>1. np \in 4..MaxPorts /\ MaxPorts \in Nat
            BY EndsArePorts DEF PortInv, TypeOK, PortTypes
        <3>. QED
            BY <3>1 DEF PortInv, TypeOK, PortTypes, Ports
    <2>4. \A x \in 1..np : end[x] \in Ends /\ end[x] \in Ports
        BY EndsArePorts DEF PortInv, OwnerInv
    <2>5. \A x \in Ports : detached[x] => detached'[x]
        BY <2>2, <2>3
    <2>6. detached'[q] /\ end'[n] = end[q]
        BY <2>2, <2>3
    <2>. SUFFICES ASSUME NEW x \in 1..np', x # end'[x] PROVE detached'[end'[x]]
        BY DEF FirstInv
    <2>7. CASE x = n
        <3>1. CASE end[q] = q
            BY <2>6, <2>7, <3>1
        <3>2. CASE end[q] # q
            <4>1. detached[end[q]]
                BY <2>2, <3>2 DEF FirstInv
            <4>. QED
                BY <2>2, <2>4, <2>5, <2>6, <2>7, <4>1
        <3>. QED
            BY <3>1, <3>2
    <2>8. CASE x # n
        <3>1. x \in 1..np
            BY <2>1, <2>2, <2>8
        <3>2. end'[x] = end[x]
            BY <2>2, <2>3, <2>8, <3>1
        <3>3. detached[end[x]]
            BY <3>1, <3>2 DEF FirstInv
        <3>. QED
            BY <2>4, <2>5, <3>1, <3>2, <3>3
    <2>. QED
        BY <2>7, <2>8
<1>. QED
    BY <1>1, <1>2 DEF Next, UserStep, vars, portVars, Post, Start, OnMessage, StartInner, Close,
                      ReceiveOnPort, RunMicrotask

(* Both sides of an end whose first port stays open, whatever the step.     *)
OpenStep(e) ==
    /\ ~closed[e]
    /\ Advances(emitted[e], Waiting(e, "ee"), sent[e],
                emitted'[e], Waiting(e, "ee")', sent'[e])
    /\ Advances(dispatched[e], Waiting(e, "w3c"), sent[e],
                dispatched'[e], Waiting(e, "w3c")', sent'[e])

LEMMA OpenUnchanged ==
    ASSUME UNCHANGED vars, NEW e \in Ends, ~closed'[e]
    PROVE  OpenStep(e)
BY DEF vars, portVars, histVars, OpenStep, Advances, Waiting, Owner

LEMMA OpenPost ==
    ASSUME PortInv, NEW p \in Ports, Post(p), NEW e \in Ends, ~closed'[e]
    PROVE  OpenStep(e)
<1>1. PICK f \in Ends : f = end[other[p]]
    BY Partner DEF Post
<1>2. /\ closed' = closed /\ emitted' = emitted /\ dispatched' = dispatched
      /\ sent' = [sent EXCEPT ![f] = sent[f] + 1]
    BY <1>1 DEF Post, portVars
<1>3. sent \in [Ends -> Nat] /\ "ee" \in Vias /\ "w3c" \in Vias
    BY DEF PortInv, TypeOK, HistTypes, Vias
<1>4. sent'[e] = IF e = f THEN sent[e] + 1 ELSE sent[e]
    BY <1>2, <1>3
<1>5. /\ Waiting(e, "ee")' = IF e = f THEN Append(Waiting(e, "ee"), sent[e] + 1)
                             ELSE Waiting(e, "ee")
      /\ Waiting(e, "w3c")' = IF e = f THEN Append(Waiting(e, "w3c"), sent[e] + 1)
                              ELSE Waiting(e, "w3c")
    BY <1>1, <1>3, PostWaiting
<1>. QED
    BY <1>2, <1>4, <1>5 DEF OpenStep, Advances

LEMMA OpenStart ==
    ASSUME PortInv, NEW p \in Ports, StartInner(p), NEW e \in Ends, ~closed'[e]
    PROVE  OpenStep(e)
<1>1. "ee" \in Vias /\ "w3c" \in Vias
    BY DEF Vias
<1>2. Waiting(e, "ee")' = Waiting(e, "ee") /\ Waiting(e, "w3c")' = Waiting(e, "w3c")
    BY <1>1, StartWaiting
<1>. QED
    BY <1>2 DEF OpenStep, Advances, StartInner, histVars

LEMMA OpenClose ==
    ASSUME PortInv, NEW p \in Ports, Close(p), NEW e \in Ends, ~closed'[e]
    PROVE  OpenStep(e)
<1>1. "ee" \in Vias /\ "w3c" \in Vias
    BY DEF Vias
<1>2. /\ closed' = [closed EXCEPT ![p] = TRUE] /\ emitted' = emitted
      /\ dispatched' = dispatched /\ sent' = sent
    BY DEF Close, histVars
<1>3. closed \in [Ports -> BOOLEAN] /\ e \in Ports
    BY EndsArePorts DEF PortInv, TypeOK, PortTypes
<1>4. e # p /\ ~closed[e]
    BY <1>2, <1>3
<1>5. e # end[p]
    <2>1. Owner(e) = e
        BY <1>4, FirstOwner
    <2>2. Owner(end[p]) = p
        BY <1>1, CloseWaiting
    <2>. QED
        BY <1>4, <2>1, <2>2
<1>6. Waiting(e, "ee")' = Waiting(e, "ee") /\ Waiting(e, "w3c")' = Waiting(e, "w3c")
    BY <1>1, <1>5, CloseWaiting
<1>. QED
    BY <1>2, <1>4, <1>6 DEF OpenStep, Advances

LEMMA OpenTake ==
    ASSUME PortInv, NEW p \in Ports, ReceiveOnPort(p), NEW e \in Ends, ~closed'[e]
    PROVE  OpenStep(e)
<1>1. "ee" \in Vias /\ "w3c" \in Vias
    BY DEF Vias
<1>2. PICK m : m = Head(queue[p])
    OBVIOUS
<1>3. PICK f : f = end[p]
    OBVIOUS
<1>4. /\ closed' = closed /\ sent' = sent
      /\ IF closed[p] THEN emitted' = emitted /\ dispatched' = dispatched
         ELSE /\ emitted' = [emitted EXCEPT ![f] = Append(emitted[f], m.n)]
              /\ dispatched' = [dispatched EXCEPT ![f] = Append(dispatched[f], m.n)]
    BY <1>2, <1>3 DEF ReceiveOnPort, portVars
<1>5. emitted \in [Ends -> Seq(Nat)] /\ dispatched \in [Ends -> Seq(Nat)]
    BY DEF PortInv, TypeOK, HistTypes
<1>6. CASE e = f /\ ~closed[p]
    <2>1. emitted'[e] = Append(emitted[e], m.n) /\ dispatched'[e] = Append(dispatched[e], m.n)
        BY <1>4, <1>5, <1>6
    <2>2. /\ Waiting(e, "ee") # <<>> /\ Head(Waiting(e, "ee")) = m.n
          /\ Waiting(e, "ee")' = Tail(Waiting(e, "ee"))
          /\ Waiting(e, "w3c") # <<>> /\ Head(Waiting(e, "w3c")) = m.n
          /\ Waiting(e, "w3c")' = Tail(Waiting(e, "w3c"))
        BY <1>1, <1>2, <1>3, <1>6, TakeWaiting
    <2>. QED
        BY <1>4, <2>1, <2>2 DEF OpenStep, Advances
<1>7. CASE ~(e = f /\ ~closed[p])
    <2>1. emitted'[e] = emitted[e] /\ dispatched'[e] = dispatched[e]
        BY <1>4, <1>5, <1>7
    <2>2. Waiting(e, "ee")' = Waiting(e, "ee") /\ Waiting(e, "w3c")' = Waiting(e, "w3c")
        BY <1>1, <1>3, <1>7, TakeWaiting
    <2>. QED
        BY <1>4, <2>1, <2>2 DEF OpenStep, Advances
<1>. QED
    BY <1>6, <1>7

LEMMA OpenRun ==
    ASSUME PortInv, FirstInv, RunMicrotask, NEW e \in Ends, ~closed'[e]
    PROVE  OpenStep(e)
<1>1. "ee" \in Vias /\ "w3c" \in Vias
    BY DEF Vias
<1>2. PICK j : j = Head(micro)
    OBVIOUS
<1>3. j \in JobSet /\ j.to \in 1..np /\ j.to \in Ports
    BY <1>1, <1>2, RunWaiting, MessageFacts
<1>4. PICK f : f = end[j.to]
    OBVIOUS
<1>5. /\ closed' = closed /\ sent' = sent
      /\ Told(j) /\ j.via = "ee" => /\ emitted' = [emitted EXCEPT ![f] = Append(emitted[f], j.msg.n)]
                                    /\ dispatched' = dispatched
      /\ Told(j) /\ j.via # "ee" =>
            /\ dispatched' = [dispatched EXCEPT ![f] = Append(dispatched[f], j.msg.n)]
            /\ emitted' = emitted
      /\ ~Told(j) => emitted' = emitted /\ dispatched' = dispatched
    BY <1>2, <1>4 DEF RunMicrotask, portVars
<1>6. emitted \in [Ends -> Seq(Nat)] /\ dispatched \in [Ends -> Seq(Nat)]
    BY DEF PortInv, TypeOK, HistTypes
<1>7. j.via = "ee" \/ j.via = "w3c"
    BY <1>3, MessageFacts DEF Vias
<1>8. e = f => (Told(j) <=> ~closed[j.to])
    <2>. SUFFICES ASSUME e = f, detached[j.to], closed[j.to] PROVE FALSE
        BY DEF Told
    <2>1. CASE j.to = e
        BY <1>5, <2>1
    <2>2. CASE j.to # e
        <3>1. detached[e]
            BY <1>3, <1>4, <2>2 DEF FirstInv
        <3>2. closed[e]
            BY <3>1, EndsArePorts DEF PortInv, OwnerInv
        <3>. QED
            BY <1>5, <3>2
    <2>. QED
        BY <2>1, <2>2
<1>9. CASE e = f /\ ~closed[j.to] /\ j.via = "ee"
    <2>1. emitted'[e] = Append(emitted[e], j.msg.n) /\ dispatched'[e] = dispatched[e]
        BY <1>5, <1>6, <1>8, <1>9
    <2>2. /\ Waiting(e, "ee") # <<>> /\ Head(Waiting(e, "ee")) = j.msg.n
          /\ Waiting(e, "ee")' = Tail(Waiting(e, "ee"))
          /\ Waiting(e, "w3c")' = Waiting(e, "w3c")
        BY <1>1, <1>2, <1>4, <1>9, RunWaiting
    <2>. QED
        BY <1>5, <2>1, <2>2 DEF OpenStep, Advances
<1>10. CASE e = f /\ ~closed[j.to] /\ j.via = "w3c"
    <2>1. dispatched'[e] = Append(dispatched[e], j.msg.n) /\ emitted'[e] = emitted[e]
        BY <1>5, <1>6, <1>8, <1>10
    <2>2. /\ Waiting(e, "w3c") # <<>> /\ Head(Waiting(e, "w3c")) = j.msg.n
          /\ Waiting(e, "w3c")' = Tail(Waiting(e, "w3c"))
          /\ Waiting(e, "ee")' = Waiting(e, "ee")
        BY <1>1, <1>2, <1>4, <1>10, RunWaiting
    <2>. QED
        BY <1>5, <2>1, <2>2 DEF OpenStep, Advances
<1>11. CASE e # f \/ closed[j.to]
    <2>1. emitted'[e] = emitted[e] /\ dispatched'[e] = dispatched[e]
        <3>1. CASE e # f
            BY <1>5, <1>6, <1>7, <3>1
        <3>2. CASE e = f
            BY <1>5, <1>8, <1>11, <3>2
        <3>. QED
            BY <3>1, <3>2
    <2>2. Waiting(e, "ee")' = Waiting(e, "ee") /\ Waiting(e, "w3c")' = Waiting(e, "w3c")
        BY <1>1, <1>2, <1>4, <1>11, RunWaiting
    <2>. QED
        BY <1>5, <2>1, <2>2 DEF OpenStep, Advances
<1>. QED
    BY <1>7, <1>9, <1>10, <1>11

LEMMA OpenTransfer ==
    ASSUME PortInv, PortInv', NEW p \in Ports, NEW q \in Ports, PostTransfer(p, q),
           NEW e \in Ends, ~closed'[e]
    PROVE  OpenStep(e)
<1>1. "ee" \in Vias /\ "w3c" \in Vias
    BY DEF Vias
<1>2. PICK g \in Ends : g = end[other[p]]
    BY Partner DEF PostTransfer
<1>3. PICK n : n = np + 1
    OBVIOUS
<1>4. /\ closed' = [closed EXCEPT ![q] = TRUE] /\ q \in 1..np
      /\ emitted' = emitted /\ dispatched' = dispatched
      /\ sent' = [sent EXCEPT ![g] = sent[g] + 1]
    BY <1>2, TransferMoves DEF Moves
<1>5. PICK f \in Ends : f = end[q]
    BY <1>4 DEF PortInv, OwnerInv
<1>6. closed \in [Ports -> BOOLEAN] /\ sent \in [Ends -> Nat] /\ e \in Ports
    BY EndsArePorts DEF PortInv, TypeOK, PortTypes, HistTypes
<1>7. e # q /\ ~closed[e] /\ sent'[e] = IF e = g THEN sent[e] + 1 ELSE sent[e]
    BY <1>4, <1>6
<1>8. e # f
    <2>1. Owner(e) = e
        BY <1>7, FirstOwner
    <2>2. Owner(f) = q
        BY <1>1, <1>2, <1>3, <1>5, TransferWaiting
    <2>. QED
        BY <1>7, <2>1, <2>2
<1>9. /\ Waiting(e, "ee")' = IF e = g THEN Append(Waiting(e, "ee"), sent[e] + 1)
                             ELSE Waiting(e, "ee")
      /\ Waiting(e, "w3c")' = IF e = g THEN Append(Waiting(e, "w3c"), sent[e] + 1)
                              ELSE Waiting(e, "w3c")
    BY <1>1, <1>2, <1>3, <1>5, <1>8, TransferWaiting
<1>. QED
    BY <1>4, <1>7, <1>9 DEF OpenStep, Advances

LEMMA Opens ==
    ASSUME PortInv, PortInv', FirstInv, [Next]_vars, NEW e \in Ends, ~closed'[e]
    PROVE  OpenStep(e)
<1>1. CASE UNCHANGED vars
    BY <1>1, OpenUnchanged
<1>2. CASE RunMicrotask
    BY <1>2, OpenRun
<1>3. ASSUME NEW p \in Ports, UserStep(p) PROVE OpenStep(e)
    <2>1. CASE Post(p)
        BY <2>1, OpenPost
    <2>2. CASE Start(p) \/ OnMessage(p)
        BY <2>2, OpenStart DEF Start, OnMessage
    <2>3. CASE Close(p)
        BY <2>3, OpenClose
    <2>4. CASE ReceiveOnPort(p)
        BY <2>4, OpenTake
    <2>5. CASE \E q \in Ports : PostTransfer(p, q)
        BY <2>5, OpenTransfer
    <2>. QED
        BY <1>3, <2>1, <2>2, <2>3, <2>4, <2>5 DEF UserStep
<1>. QED
    BY <1>1, <1>2, <1>3 DEF Next

LEMMA AgreeStep == AgreeInv /\ [Next]_vars => AgreeInv'
<1>. SUFFICES ASSUME AgreeInv, [Next]_vars PROVE AgreeInv'
    OBVIOUS
<1>1. PortInv /\ FirstInv /\ PortInv' /\ FirstInv'
    BY PortStep, FirstStep DEF AgreeInv
<1>2. ASSUME NEW e \in Ends, ~closed'[e]
      PROVE  /\ emitted'[e] \o Waiting(e, "ee")' = Iota(sent'[e])
             /\ dispatched'[e] \o Waiting(e, "w3c")' = Iota(sent'[e])
    <2>1. OpenStep(e)
        BY <1>1, <1>2, Opens
    <2>2. /\ emitted[e] \in Seq(Nat) /\ dispatched[e] \in Seq(Nat) /\ sent[e] \in Nat
        BY <1>1 DEF PortInv, TypeOK, HistTypes
    <2>3. Waiting(e, "ee") \in Seq(Nat) /\ Waiting(e, "w3c") \in Seq(Nat)
        BY <1>1, WaitingType
    <2>4. /\ emitted[e] \o Waiting(e, "ee") = Iota(sent[e])
          /\ dispatched[e] \o Waiting(e, "w3c") = Iota(sent[e])
        BY <2>1, TwoSides DEF AgreeInv, OneSide, OpenStep
    <2>5. PICK a \in Seq(Nat), w \in Seq(Nat), c \in Seq(Nat), x \in Seq(Nat), n \in Nat :
              a = emitted[e] /\ w = Waiting(e, "ee") /\ c = dispatched[e]
              /\ x = Waiting(e, "w3c") /\ n = sent[e]
        BY <2>2, <2>3, Zenon
    <2>6. a \o w = Iota(n) /\ c \o x = Iota(n)
        BY <2>4, <2>5, Zenon
    <2>7. PICK b, v, d, y, m :
              b = emitted'[e] /\ v = Waiting(e, "ee")' /\ d = dispatched'[e]
              /\ y = Waiting(e, "w3c")' /\ m = sent'[e]
        OBVIOUS
    <2>8. Advances(a, w, n, b, v, m) /\ Advances(c, x, n, d, y, m)
        BY <2>1, <2>5, <2>7, Zenon DEF OpenStep
    <2>9. Complete(a, w, n) /\ Complete(c, x, n)
        BY <2>6 DEF Complete
    <2>10. Complete(b, v, m)
        BY <2>5, <2>8, <2>9, AdvancesKeep
    <2>11. Complete(d, y, m)
        BY <2>5, <2>8, <2>9, AdvancesKeep
    <2>. QED
        BY <2>7, <2>10, <2>11, Zenon DEF Complete
<1>3. SurfacesAgree'
    BY <1>2 DEF SurfacesAgree, Iota
<1>. QED
    BY <1>1, <1>3 DEF AgreeInv

LEMMA AgreeInit == Init => AgreeInv
<1>. SUFFICES ASSUME Init PROVE AgreeInv
    OBVIOUS
<1>1. PortInv
    BY PortInit
<1>2. FirstInv
    <2>1. np = 4 /\ end = [p \in Ports |-> p]
        BY DEF Init
    <2>2. \A p \in 1..np : p \in Ports
        BY <2>1, EndsArePorts DEF Ends
    <2>. QED
        BY <2>1, <2>2 DEF FirstInv
<1>3. ASSUME NEW e \in Ends
      PROVE  /\ emitted[e] = <<>> /\ dispatched[e] = <<>> /\ sent[e] = 0
             /\ \A via \in Vias : Waiting(e, via) = <<>>
    <2>1. /\ emitted[e] = <<>> /\ dispatched[e] = <<>> /\ sent[e] = 0 /\ micro = <<>>
          /\ \A p \in Ports : queue[p] = <<>>
        BY DEF Init
    <2>2. ASSUME NEW via \in Vias PROVE Waiting(e, via) = <<>>
        <3>1. PICK o \in Ports : o = Owner(e)
            BY <1>1, OwnerIs
        <3>2. micro \in Seq(JobSet) /\ \A i \in 1..Len(micro) : micro[i].to # o
            BY <1>1, <2>1 DEF PortInv, TypeOK, QueueTypes
        <3>3. InJobs(micro, o, via) = <<>>
            BY <3>2, InJobsNone
        <3>4. Numbers(queue[o]) = <<>>
            BY <2>1, NumbersFacts
        <3>5. Pending(o, via) = <<>>
            <4>1. <<>> \o <<>> = <<>>
                OBVIOUS
            <4>. QED
                BY <3>3, <3>4, <4>1, Zenon DEF Pending
        <3>. QED
            BY <3>1, <3>5, WaitingIs, Zenon
    <2>. QED
        BY <2>1, <2>2
<1>4. SurfacesAgree
    <2>1. "ee" \in Vias /\ "w3c" \in Vias
        BY DEF Vias
    <2>2. <<>> \o <<>> = [i \in 1..0 |-> i]
        OBVIOUS
    <2>. QED
        BY <1>3, <2>1, <2>2 DEF SurfacesAgree
<1>. QED
    BY <1>1, <1>2, <1>4 DEF AgreeInv

(* The EventEmitter listeners and the W3C listeners of a port that was       *)
(* neither closed nor transferred are told of the same messages: those       *)
(* posted to it, in order, but for the ones that wait in its queue or in     *)
(* microtasks (message-port.ts: start(), _receiveMessage, postMessage with   *)
(* and without a transfer, close(), receiveMessageOnPort).                   *)
THEOREM SurfacesTold == Spec => []SurfacesAgree
<1>1. AgreeInv => SurfacesAgree
    BY DEF AgreeInv
<1>. QED
    BY <1>1, AgreeInit, AgreeStep, PTL DEF Spec

-----------------------------------------------------------------------------
(* The implementation of Channels.                                          *)
Holder(e) == IF closed[Owner(e)] THEN 0 ELSE Owner(e)

LEMMA HolderNext ==
    ASSUME NEW e, NEW o, Owner(e)' = o
    PROVE  Holder(e)' = IF closed'[o] THEN 0 ELSE o
BY DEF Holder

LEMMA HolderSame ==
    ASSUME NEW e, NEW o, o = Owner(e), Owner(e)' = o, closed'[o] = closed[o]
    PROVE  Holder(e)' = Holder(e)
BY DEF Holder

LEMMA HolderPort ==
    ASSUME PortInv, NEW e \in Ends, ~closed[Owner(e)]
    PROVE  Holder(e) = Owner(e) /\ Holder(e) # 0
<1>1. PICK o \in Ports : o = Owner(e)
    BY OwnerIs
<1>2. o # 0
    BY EndsArePorts DEF NoPort
<1>. QED
    BY <1>1, <1>2 DEF Holder

(* A step of Channels, end by end.                                          *)
LEMMA ChanStutters ==
    ASSUME sent' = sent, emitted' = emitted,
           \A e \in Ends : Waiting(e, "ee")' = Waiting(e, "ee") /\ Holder(e)' = Holder(e)
    PROVE  UNCHANGED Chan!absVars
BY DEF Chan!absVars, Holder

LEMMA ChanSends ==
    ASSUME NEW f \in Ends, Holder(f) # 0, sent' = [sent EXCEPT ![f] = @ + 1], sent \in [Ends -> Nat],
           emitted' = emitted,
           \A e \in Ends : /\ Waiting(e, "ee")' = IF e = f THEN Append(Waiting(e, "ee"), sent[e] + 1)
                                                  ELSE Waiting(e, "ee")
                           /\ Holder(e)' = Holder(e)
    PROVE  Chan!SendTo(f)
<1>1. sent'[f] = sent[f] + 1
    OBVIOUS
<1>2. [e \in Ends |-> Waiting(e, "ee")'] =
      [[e \in Ends |-> Waiting(e, "ee")] EXCEPT ![f] = Append(@, sent'[f])]
    BY <1>1
<1>3. [e \in Ends |-> Holder(e)'] = [e \in Ends |-> Holder(e)]
    OBVIOUS
<1>. QED
    BY <1>2, <1>3 DEF Chan!SendTo, Holder

LEMMA ChanDelivers ==
    ASSUME NEW f \in Ends, Waiting(f, "ee") # <<>>, sent' = sent, emitted \in [Ends -> Seq(Nat)],
           emitted' = [emitted EXCEPT ![f] = Append(@, Head(Waiting(f, "ee")))],
           \A e \in Ends : /\ Waiting(e, "ee")' = IF e = f THEN Tail(Waiting(e, "ee"))
                                                  ELSE Waiting(e, "ee")
                           /\ Holder(e)' = Holder(e)
    PROVE  Chan!DeliverTo(f)
<1>1. [e \in Ends |-> Waiting(e, "ee")'] = [[e \in Ends |-> Waiting(e, "ee")] EXCEPT ![f] = Tail(@)]
    OBVIOUS
<1>2. [e \in Ends |-> Holder(e)'] = [e \in Ends |-> Holder(e)]
    OBVIOUS
<1>. QED
    BY <1>1, <1>2 DEF Chan!DeliverTo, Holder

LEMMA ChanCloses ==
    ASSUME NEW f \in Ends, Holder(f) # 0, sent' = sent, emitted' = emitted,
           \A e \in Ends : /\ Waiting(e, "ee")' = IF e = f THEN <<>> ELSE Waiting(e, "ee")
                           /\ Holder(e)' = IF e = f THEN 0 ELSE Holder(e)
    PROVE  Chan!CloseOf(f)
<1>1. [e \in Ends |-> Waiting(e, "ee")'] = [[e \in Ends |-> Waiting(e, "ee")] EXCEPT ![f] = <<>>]
    OBVIOUS
<1>2. [e \in Ends |-> Holder(e)'] = [[e \in Ends |-> Holder(e)] EXCEPT ![f] = 0]
    OBVIOUS
<1>. QED
    BY <1>1, <1>2 DEF Chan!CloseOf, Holder

LEMMA ChanMoves ==
    ASSUME NEW g \in Ends, NEW f \in Ends, NEW n \in Ports, Holder(g) # 0, Holder(f) # 0, n # Holder(f),
           sent \in [Ends -> Nat], sent' = [sent EXCEPT ![g] = @ + 1], emitted' = emitted,
           \A e \in Ends : /\ Waiting(e, "ee")' = IF e = f THEN <<>>
                                                  ELSE IF e = g THEN Append(Waiting(e, "ee"), sent[e] + 1)
                                                  ELSE Waiting(e, "ee")
                           /\ Holder(e)' = IF e = f THEN n ELSE Holder(e)
    PROVE  Chan!MoveBy(g, f)
<1>1. sent'[g] = sent[g] + 1
    OBVIOUS
<1>2. [e \in Ends |-> Waiting(e, "ee")'] =
      [[[e \in Ends |-> Waiting(e, "ee")] EXCEPT ![g] = Append(@, sent'[g])] EXCEPT ![f] = <<>>]
    BY <1>1
<1>3. [e \in Ends |-> Holder(e)'] = [[e \in Ends |-> Holder(e)] EXCEPT ![f] = n]
    OBVIOUS
<1>4. n \in 1..MaxPorts
    BY DEF Ports
<1>. QED
    BY <1>2, <1>3, <1>4 DEF Chan!MoveBy, Holder

LEMMA HoldersSame ==
    ASSUME UNCHANGED <<np, end, detached, closed>>, NEW e
    PROVE  Holder(e)' = Holder(e)
<1>1. Owner(e)' = Owner(e)
    BY OwnerKept
<1>. QED
    BY <1>1 DEF Holder

LEMMA PostSends ==
    ASSUME PortInv, NEW p \in Ports, Post(p)
    PROVE  Chan!AbsNext
<1>1. PICK f \in Ends : f = end[other[p]]
    BY Partner DEF Post
<1>2. UNCHANGED <<np, end, detached, closed>> /\ emitted' = emitted
      /\ sent' = [sent EXCEPT ![f] = @ + 1]
    BY <1>1 DEF Post, portVars
<1>3. sent \in [Ends -> Nat] /\ "ee" \in Vias
    BY DEF PortInv, TypeOK, HistTypes, Vias
<1>4. \A e \in Ends : /\ Waiting(e, "ee")' = IF e = f THEN Append(Waiting(e, "ee"), sent[e] + 1)
                                             ELSE Waiting(e, "ee")
                      /\ Holder(e)' = Holder(e)
    BY <1>1, <1>2, <1>3, PostWaiting, HoldersSame
<1>5. Holder(f) # 0
    <2>1. ~closed[Owner(f)]
        BY <1>1, <1>3, PostWaiting
    <2>. QED
        BY <2>1, HolderPort
<1>6. Chan!SendTo(f)
    BY <1>2, <1>3, <1>4, <1>5, ChanSends
<1>. QED
    BY <1>6 DEF Chan!AbsNext

LEMMA StartStutters ==
    ASSUME PortInv, NEW p \in Ports, StartInner(p)
    PROVE  UNCHANGED Chan!absVars
<1>1. "ee" \in Vias /\ UNCHANGED <<np, end, detached, closed>> /\ sent' = sent /\ emitted' = emitted
    BY DEF Vias, StartInner, histVars
<1>2. \A e \in Ends : Waiting(e, "ee")' = Waiting(e, "ee") /\ Holder(e)' = Holder(e)
    BY <1>1, StartWaiting, HoldersSame
<1>. QED
    BY <1>1, <1>2, ChanStutters

LEMMA CloseCloses ==
    ASSUME PortInv, NEW p \in Ports, Close(p)
    PROVE  Chan!AbsNext
<1>1. "ee" \in Vias
    BY DEF Vias
<1>2. PICK f : f = end[p]
    OBVIOUS
<1>3. p <= np /\ Owner(f) = p
    <2>1. 1 \in Ends
        BY DEF Ends
    <2>. QED
        BY <1>1, <1>2, <2>1, CloseWaiting
<1>4. f \in Ends
    BY <1>2, <1>3, OwnerOnly
<1>5. /\ ~closed[p] /\ closed' = [closed EXCEPT ![p] = TRUE] /\ sent' = sent /\ emitted' = emitted
      /\ UNCHANGED <<np, end, detached>>
    BY DEF Close, histVars
<1>6. Holder(f) # 0
    BY <1>3, <1>4, <1>5, HolderPort
<1>7. closed \in [Ports -> BOOLEAN]
    BY DEF PortInv, TypeOK, PortTypes
<1>8. ASSUME NEW e \in Ends
      PROVE  /\ Waiting(e, "ee")' = IF e = f THEN <<>> ELSE Waiting(e, "ee")
             /\ Holder(e)' = IF e = f THEN 0 ELSE Holder(e)
    <2>1. Waiting(e, "ee")' = IF e = f THEN <<>> ELSE Waiting(e, "ee")
        BY <1>1, <1>2, CloseWaiting
    <2>2. PICK o \in Ports : o = Owner(e) /\ end[o] = e
        BY OwnerIs
    <2>3. Owner(e)' = o
        BY <1>5, <2>2, OwnerKept
    <2>4. o = p <=> e = f
        BY <1>2, <1>3, <2>2
    <2>5. closed'[o] = IF o = p THEN TRUE ELSE closed[o]
        BY <1>5, <1>7
    <2>6. Holder(e)' = IF closed'[o] THEN 0 ELSE o
        BY <2>3, HolderNext
    <2>7. Holder(e) = IF closed[o] THEN 0 ELSE o
        BY <2>2 DEF Holder
    <2>8. Holder(e)' = IF e = f THEN 0 ELSE Holder(e)
        <3>1. CASE o = p
            BY <2>4, <2>5, <2>6, <3>1
        <3>2. CASE o # p
            BY <2>4, <2>5, <2>6, <2>7, <3>2
        <3>. QED
            BY <3>1, <3>2
    <2>. QED
        BY <2>1, <2>8
<1>9. Chan!CloseOf(f)
    BY <1>4, <1>5, <1>6, <1>8, ChanCloses
<1>. QED
    BY <1>4, <1>9 DEF Chan!AbsNext

LEMMA TakeDelivers ==
    ASSUME PortInv, NEW p \in Ports, ReceiveOnPort(p)
    PROVE  Chan!AbsNext \/ UNCHANGED Chan!absVars
<1>1. "ee" \in Vias
    BY DEF Vias
<1>2. PICK m : m = Head(queue[p])
    OBVIOUS
<1>3. PICK f : f = end[p]
    OBVIOUS
<1>4. /\ UNCHANGED <<np, end, detached, closed>> /\ sent' = sent
      /\ IF closed[p] THEN emitted' = emitted
         ELSE emitted' = [emitted EXCEPT ![f] = Append(@, m.n)]
    BY <1>2, <1>3 DEF ReceiveOnPort, portVars
<1>5. \A e \in Ends : Holder(e)' = Holder(e)
    BY <1>4, HoldersSame
<1>6. CASE closed[p]
    <2>1. \A e \in Ends : Waiting(e, "ee")' = Waiting(e, "ee")
        BY <1>1, <1>6, TakeWaiting
    <2>. QED
        BY <1>4, <1>5, <1>6, <2>1, ChanStutters
<1>7. CASE ~closed[p]
    <2>1. f \in Ends
        <3>1. ~(p > np) /\ np \in Nat
            BY DEF PortInv, FutureInv, ReceiveOnPort, TypeOK, PortTypes
        <3>2. p <= np
            BY <3>1, EndsArePorts
        <3>. QED
            BY <1>3, <3>2, OwnerOnly
    <2>2. /\ Waiting(f, "ee") # <<>> /\ Head(Waiting(f, "ee")) = m.n
          /\ Waiting(f, "ee")' = Tail(Waiting(f, "ee"))
        BY <1>1, <1>2, <1>3, <1>7, <2>1, TakeWaiting
    <2>3. \A e \in Ends : e # f => Waiting(e, "ee")' = Waiting(e, "ee")
        BY <1>1, <1>3, TakeWaiting
    <2>4. emitted \in [Ends -> Seq(Nat)]
        BY DEF PortInv, TypeOK, HistTypes
    <2>5. emitted' = [emitted EXCEPT ![f] = Append(@, Head(Waiting(f, "ee")))]
        BY <1>4, <1>7, <2>2
    <2>6. \A e \in Ends : /\ Waiting(e, "ee")' = IF e = f THEN Tail(Waiting(e, "ee"))
                                                 ELSE Waiting(e, "ee")
                          /\ Holder(e)' = Holder(e)
        BY <1>5, <2>2, <2>3
    <2>7. Chan!DeliverTo(f)
        BY <1>4, <2>1, <2>2, <2>4, <2>5, <2>6, ChanDelivers
    <2>. QED
        BY <2>1, <2>7 DEF Chan!AbsNext
<1>. QED
    BY <1>6, <1>7

LEMMA RunDelivers ==
    ASSUME PortInv, RunMicrotask
    PROVE  Chan!AbsNext \/ UNCHANGED Chan!absVars
<1>1. "ee" \in Vias /\ 1 \in Ends
    BY DEF Vias, Ends
<1>2. PICK j : j = Head(micro)
    OBVIOUS
<1>3. PICK f : f = end[j.to]
    OBVIOUS
<1>4. f \in Ends
    <2>1. j.to \in 1..np
        BY <1>1, <1>2, RunWaiting
    <2>. QED
        BY <1>3, <2>1 DEF PortInv, OwnerInv
<1>5. /\ UNCHANGED <<np, end, detached, closed>> /\ sent' = sent
      /\ IF j.via = "ee" /\ ~closed[j.to]
         THEN emitted' = [emitted EXCEPT ![f] = Append(@, j.msg.n)]
         ELSE emitted' = emitted
    BY <1>2, <1>3 DEF RunMicrotask, portVars, Told
<1>6. \A e \in Ends : Holder(e)' = Holder(e)
    BY <1>5, HoldersSame
<1>7. CASE ~(j.via = "ee" /\ ~closed[j.to])
    <2>1. \A e \in Ends : Waiting(e, "ee")' = Waiting(e, "ee")
        BY <1>1, <1>2, <1>7, RunWaiting
    <2>. QED
        BY <1>5, <1>6, <1>7, <2>1, ChanStutters
<1>8. CASE j.via = "ee" /\ ~closed[j.to]
    <2>2. /\ Waiting(f, "ee") # <<>> /\ Head(Waiting(f, "ee")) = j.msg.n
          /\ Waiting(f, "ee")' = Tail(Waiting(f, "ee"))
        BY <1>1, <1>2, <1>3, <1>4, <1>8, RunWaiting
    <2>3. \A e \in Ends : e # f => Waiting(e, "ee")' = Waiting(e, "ee")
        BY <1>1, <1>2, <1>3, RunWaiting
    <2>4. emitted \in [Ends -> Seq(Nat)]
        BY DEF PortInv, TypeOK, HistTypes
    <2>5. emitted' = [emitted EXCEPT ![f] = Append(@, Head(Waiting(f, "ee")))]
        BY <1>5, <1>8, <2>2
    <2>6. \A e \in Ends : /\ Waiting(e, "ee")' = IF e = f THEN Tail(Waiting(e, "ee"))
                                                 ELSE Waiting(e, "ee")
                          /\ Holder(e)' = Holder(e)
        BY <1>6, <2>2, <2>3
    <2>7. Chan!DeliverTo(f)
        BY <1>4, <1>5, <2>2, <2>4, <2>5, <2>6, ChanDelivers
    <2>. QED
        BY <1>4, <2>7 DEF Chan!AbsNext
<1>. QED
    BY <1>7, <1>8

LEMMA TransferMovesEnd ==
    ASSUME PortInv, PortInv', NEW p \in Ports, NEW q \in Ports, PostTransfer(p, q)
    PROVE  Chan!AbsNext
<1>1. "ee" \in Vias
    BY DEF Vias
<1>2. PICK g \in Ends : g = end[other[p]]
    BY Partner DEF PostTransfer
<1>3. PICK n : n = np + 1
    OBVIOUS
<1>4. q \in 1..np /\ ~closed[q] /\ emitted' = emitted /\ sent' = [sent EXCEPT ![g] = @ + 1]
    BY <1>2, TransferMoves DEF Moves
<1>5. PICK f \in Ends : f = end[q]
    BY <1>4 DEF PortInv, OwnerInv
<1>6. sent \in [Ends -> Nat]
    BY DEF PortInv, TypeOK, HistTypes
<1>7. \A e \in Ends :
          /\ ~closed[Owner(g)] /\ Owner(f) = q /\ n \in Ports /\ n # q
          /\ Owner(e)' = IF e = f THEN n ELSE Owner(e)
          /\ e = f => ~closed'[n]
          /\ e # f => closed'[Owner(e)] = closed[Owner(e)]
          /\ Waiting(e, "ee")' = IF e = f THEN <<>>
                                 ELSE IF e = g THEN Append(Waiting(e, "ee"), sent[e] + 1)
                                 ELSE Waiting(e, "ee")
    BY <1>1, <1>2, <1>3, <1>5, TransferWaiting
<1>8. Holder(g) # 0 /\ Holder(f) # 0 /\ n # Holder(f) /\ n \in Ports
    BY <1>4, <1>7, HolderPort
<1>9. ASSUME NEW e \in Ends PROVE Holder(e)' = IF e = f THEN n ELSE Holder(e)
    <2>1. CASE e = f
        <3>1. Owner(e)' = n /\ ~closed'[n]
            BY <1>7, <2>1
        <3>. QED
            BY <2>1, <3>1, HolderNext
    <2>2. CASE e # f
        <3>1. PICK o \in Ports : o = Owner(e)
            BY OwnerIs
        <3>2. Owner(e)' = o /\ closed'[o] = closed[o]
            BY <1>7, <2>2, <3>1
        <3>. QED
            BY <2>2, <3>1, <3>2, HolderSame
    <2>. QED
        BY <2>1, <2>2
<1>10. \A e \in Ends :
           /\ Waiting(e, "ee")' = IF e = f THEN <<>>
                                  ELSE IF e = g THEN Append(Waiting(e, "ee"), sent[e] + 1)
                                  ELSE Waiting(e, "ee")
           /\ Holder(e)' = IF e = f THEN n ELSE Holder(e)
    BY <1>7, <1>9
<1>11. Chan!MoveBy(g, f)
    BY <1>4, <1>6, <1>8, <1>10, ChanMoves
<1>. QED
    BY <1>11 DEF Chan!AbsNext

LEMMA ChanStep == PortInv /\ PortInv' /\ [Next]_vars => [Chan!AbsNext]_Chan!absVars
<1>. SUFFICES ASSUME PortInv, PortInv', [Next]_vars
              PROVE  Chan!AbsNext \/ UNCHANGED Chan!absVars
    OBVIOUS
<1>1. CASE UNCHANGED vars
    <2>1. UNCHANGED <<np, end, detached, closed>> /\ sent' = sent /\ emitted' = emitted
          /\ micro' = micro /\ queue' = queue
        BY <1>1 DEF vars, portVars, histVars
    <2>2. \A e \in Ends : Waiting(e, "ee")' = Waiting(e, "ee")
        BY <2>1 DEF Waiting, Owner
    <2>3. \A e \in Ends : Holder(e)' = Holder(e)
        BY <2>1, HoldersSame
    <2>. QED
        BY <2>1, <2>2, <2>3, ChanStutters
<1>2. CASE RunMicrotask
    BY <1>2, RunDelivers
<1>3. ASSUME NEW p \in Ports, UserStep(p) PROVE Chan!AbsNext \/ UNCHANGED Chan!absVars
    <2>1. CASE Post(p)
        BY <2>1, PostSends
    <2>2. CASE Start(p) \/ OnMessage(p)
        BY <2>2, StartStutters DEF Start, OnMessage
    <2>3. CASE Close(p)
        BY <2>3, CloseCloses
    <2>4. CASE ReceiveOnPort(p)
        BY <2>4, TakeDelivers
    <2>5. CASE \E q \in Ports : PostTransfer(p, q)
        BY <2>5, TransferMovesEnd
    <2>. QED
        BY <1>3, <2>1, <2>2, <2>3, <2>4, <2>5 DEF UserStep
<1>. QED
    BY <1>1, <1>2, <1>3 DEF Next

LEMMA ChanInit == Init => Chan!AbsInit
<1>. SUFFICES ASSUME Init PROVE Chan!AbsInit
    OBVIOUS
<1>1. AgreeInv /\ PortInv
    BY AgreeInit DEF AgreeInv
<1>2. ASSUME NEW e \in Ends
      PROVE  ~closed[e] /\ Owner(e) = e /\ emitted[e] = <<>> /\ sent[e] = 0
    <2>1. ~closed[e] /\ emitted[e] = <<>> /\ sent[e] = 0
        BY EndsArePorts DEF Init
    <2>. QED
        BY <1>1, <2>1, FirstOwner
<1>3. ASSUME NEW e \in Ends PROVE Waiting(e, "ee") = <<>>
    <2>1. emitted[e] \o Waiting(e, "ee") = Iota(sent[e])
        BY <1>1, <1>2, TwoSides DEF AgreeInv, OneSide
    <2>2. Waiting(e, "ee") \in Seq(Nat)
        BY <1>1, WaitingType
    <2>3. PICK w \in Seq(Nat) : w = Waiting(e, "ee")
        BY <2>2
    <2>4. <<>> \o w = Iota(0)
        BY <1>2, <2>1, <2>3, Zenon
    <2>5. <<>> \o w = w
        OBVIOUS
    <2>6. Iota(0) = <<>>
        BY DEF Iota
    <2>. QED
        BY <2>3, <2>4, <2>5, <2>6, Zenon
<1>4. ASSUME NEW e \in Ends PROVE Holder(e) = e
    BY <1>2 DEF Holder
<1>5. sent = [e \in Ends |-> 0] /\ emitted = [e \in Ends |-> <<>>]
    BY DEF Init
<1>6. [e \in Ends |-> Holder(e)] = [e \in Ends |-> e]
    BY <1>4
<1>7. [e \in Ends |-> Waiting(e, "ee")] = [e \in Ends |-> <<>>]
    BY <1>3
<1>. QED
    BY <1>5, <1>6, <1>7 DEF Chan!AbsInit, Holder

(* The ports implement Channels: a message that was posted to an end is told *)
(* to the EventEmitter listeners of the port that has the end, in order and  *)
(* at most once, or lost when that port is closed or transferred.            *)
THEOREM Implementation == Spec => ImplementsChannels
<1>1. PortInv /\ PortInv' /\ [Next]_vars => [Chan!AbsNext]_Chan!absVars
    BY ChanStep
<1>. QED
    BY <1>1, ChanInit, PortInit, PortStep, PTL DEF Spec, ImplementsChannels, Chan!AbsSpec
==============================================================================
