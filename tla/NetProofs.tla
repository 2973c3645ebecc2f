------------------------------- MODULE NetProofs -------------------------------
(* Proofs about Net, for both ends of a connection and every bound.         *)
EXTENDS Net, DataTheorems

-----------------------------------------------------------------------------
(* Type correctness.                                                        *)
TickKinds == {"flow", "end", "endAgain", "written", "writeFailed", "finish",
              "close", "error"}

FlagTypes ==
    /\ broken \in BOOLEAN /\ listening \in BOOLEAN /\ tracked \in BOOLEAN
    /\ fin \in [Ends -> BOOLEAN] /\ up \in [Ends -> BOOLEAN]
    /\ destroyed \in [Ends -> BOOLEAN]
ReadTypes ==
    /\ reading \in [Ends -> BOOLEAN] /\ flowing \in [Ends -> BOOLEAN]
    /\ ended \in [Ends -> BOOLEAN] /\ endEmitted \in [Ends -> BOOLEAN]
    /\ endHook \in [Ends -> BOOLEAN]
    /\ reads \in [Ends -> Nat] /\ got \in [Ends -> Nat] /\ pauses \in [Ends -> Nat]
    /\ buffer \in [Ends -> Seq(Nat)] /\ wire \in [Ends -> Seq(Nat)]
    /\ taken \in [Ends -> Seq(Nat)]
WriteTypes ==
    /\ writing \in [Ends -> BOOLEAN] /\ writableEnded \in [Ends -> BOOLEAN]
    /\ finished \in [Ends -> BOOLEAN] /\ endWaits \in [Ends -> BOOLEAN]
    /\ refused \in [Ends -> BOOLEAN]
    /\ sent \in [Ends -> Nat]
    /\ inflight \in [Ends -> Seq(Nat)] /\ queue \in [Ends -> Seq(Seq(Nat))]
TypeOK ==
    /\ FlagTypes /\ ReadTypes /\ WriteTypes
    /\ ticks \in [Ends -> Seq(TickKinds)]

LEMMA ExceptType ==
    ASSUME NEW S, NEW T, NEW f \in [S -> T], NEW x \in S, NEW v \in T
    PROVE  [f EXCEPT ![x] = v] \in [S -> T]
OBVIOUS

LEMMA PeerFacts ==
    /\ \A e \in Ends : Peer(e) \in Ends /\ Peer(e) # e /\ Peer(Peer(e)) = e
    /\ \A e, d \in Ends : d # e => d = Peer(e)
BY DEF Ends, Peer

(* What the steps append to the ticks of an end.                            *)
LEMMA TickSeqs ==
    /\ <<>> \in Seq(TickKinds)
    /\ \A k \in TickKinds : <<k>> \in Seq(TickKinds)
    /\ \A s, t \in Seq(TickKinds) : s \o t \in Seq(TickKinds)
    /\ \A s \in Seq(TickKinds), k \in TickKinds : Append(s, k) \in Seq(TickKinds)
    /\ \A s \in Seq(TickKinds) : s # <<>> => Tail(s) \in Seq(TickKinds)
    /\ {"flow", "end", "endAgain", "written", "writeFailed", "finish", "close",
        "error"} = TickKinds
<1>1. \A k \in TickKinds : <<k>> \in Seq(TickKinds)
    OBVIOUS
<1>. QED
    BY <1>1 DEF TickKinds

LEMMA LaterType ==
    ASSUME ticks \in [Ends -> Seq(TickKinds)], NEW e \in Ends,
           NEW rest \in Seq(TickKinds), NEW more \in Seq(TickKinds),
           Later(e, rest, more)
    PROVE  /\ ticks' \in [Ends -> Seq(TickKinds)]
           /\ ticks'[e] = rest \o more
           /\ \A d \in Ends : d # e => ticks'[d] = ticks[d]
<1>1. rest \o more \in Seq(TickKinds)
    BY TickSeqs
<1>. QED
    BY <1>1 DEF Later

LEMMA TypeInit == Init => TypeOK
<1>. SUFFICES ASSUME Init PROVE TypeOK
    OBVIOUS
<1>1. FlagTypes
    BY DEF Init, FlagTypes
<1>2. ReadTypes
    BY DEF Init, ReadTypes
<1>3. WriteTypes
    BY DEF Init, WriteTypes
<1>4. ticks \in [Ends -> Seq(TickKinds)]
    BY DEF Init
<1>. QED
    BY <1>1, <1>2, <1>3, <1>4 DEF TypeOK

LEMMA EndNowType ==
    ASSUME TypeOK, NEW e \in Ends, NEW rest \in Seq(TickKinds),
           NEW more \in Seq(TickKinds), EndNow(e, rest, more)
    PROVE  /\ writableEnded' \in [Ends -> BOOLEAN]
           /\ endWaits' \in [Ends -> BOOLEAN] /\ finished' \in [Ends -> BOOLEAN]
           /\ fin' \in [Ends -> BOOLEAN] /\ ticks' \in [Ends -> Seq(TickKinds)]
<1>1. <<"finish">> \o more \in Seq(TickKinds)
    BY TickSeqs
<1>2. ticks' \in [Ends -> Seq(TickKinds)]
    BY <1>1, LaterType DEF EndNow, TypeOK
<1>. QED
    BY <1>2, PeerFacts DEF EndNow, DoFinal, TypeOK, FlagTypes, WriteTypes

LEMMA StartReadingType ==
    ASSUME TypeOK, NEW e \in Ends, StartReading(e)
    PROVE  reading' \in [Ends -> BOOLEAN] /\ reads' \in [Ends -> Nat]
<1>1. reading \in [Ends -> BOOLEAN] /\ reads \in [Ends -> Nat]
    BY DEF TypeOK, ReadTypes
<1>2. CASE MayStart(e)
    <2>1. reads[e] + 1 \in Nat
        BY <1>1
    <2>2. /\ reading' = [reading EXCEPT ![e] = TRUE]
          /\ reads' = [reads EXCEPT ![e] = reads[e] + 1]
        BY <1>2 DEF StartReading
    <2>. QED
        BY <1>1, <2>1, <2>2, ExceptType, Zenon
<1>3. CASE ~MayStart(e)
    BY <1>1, <1>3 DEF StartReading
<1>. QED
    BY <1>2, <1>3

LEMMA Parts ==
    ASSUME NEW s \in Seq(Nat), NEW n \in Nat, n <= Len(s)
    PROVE  /\ SubSeq(s, 1, n) \in Seq(Nat) /\ Len(SubSeq(s, 1, n)) = n
           /\ \A i \in 1..n : SubSeq(s, 1, n)[i] = s[i]
           /\ SubSeq(s, n + 1, Len(s)) \in Seq(Nat)
<1>1. Len(s) \in Nat /\ \A i \in 1..Len(s) : s[i] \in Nat
    OBVIOUS
<1>2. /\ \A i \in 1..n : s[i] \in Nat
      /\ \A i \in (n + 1)..Len(s) : s[i] \in Nat
    BY <1>1
<1>3. /\ SubSeq(s, 1, n) \in Seq(Nat)
      /\ Len(SubSeq(s, 1, n)) = IF 1 <= n THEN n - 1 + 1 ELSE 0
      /\ \A i \in 1..(n - 1 + 1) : SubSeq(s, 1, n)[i] = s[1 + i - 1]
    BY <1>1, <1>2, SubSeqProperties
<1>4. SubSeq(s, n + 1, Len(s)) \in Seq(Nat)
    BY <1>1, <1>2, SubSeqProperties
<1>. QED
    BY <1>1, <1>3, <1>4

LEMMA FlowType ==
    ASSUME TypeOK, NEW e \in Ends, NEW rest \in Seq(TickKinds),
           NEW n \in 0..Len(buffer[e]), Flow(e, rest, n)
    PROVE  /\ reading' \in [Ends -> BOOLEAN] /\ reads' \in [Ends -> Nat]
           /\ got' \in [Ends -> Nat] /\ buffer' \in [Ends -> Seq(Nat)]
           /\ ticks' \in [Ends -> Seq(TickKinds)]
<1>1. reading' \in [Ends -> BOOLEAN] /\ reads' \in [Ends -> Nat]
    BY StartReadingType DEF Flow, TypeOK, ReadTypes
<1>2. buffer[e] \in Seq(Nat) /\ (n # 0 => buffer[e][n] \in Nat)
    BY DEF TypeOK, ReadTypes
<1>3. got' \in [Ends -> Nat]
    BY <1>2 DEF Flow, TypeOK, ReadTypes
<1>4. Left(e, n) \in Seq(Nat)
    <2>1. n \in Nat /\ n <= Len(buffer[e])
        BY <1>2
    <2>. QED
        BY <1>2, <2>1, Parts DEF Left
<1>5. buffer' \in [Ends -> Seq(Nat)]
    BY <1>4 DEF Flow, TypeOK, ReadTypes
<1>6. ticks' \in [Ends -> Seq(TickKinds)]
    BY TickSeqs, LaterType DEF Flow, TypeOK
<1>. QED
    BY <1>1, <1>3, <1>5, <1>6

LEMMA FlowsType ==
    ASSUME TypeOK, NEW e \in Ends, NEW rest \in Seq(TickKinds), Flows(e, rest)
    PROVE  /\ reading' \in [Ends -> BOOLEAN] /\ reads' \in [Ends -> Nat]
           /\ got' \in [Ends -> Nat] /\ buffer' \in [Ends -> Seq(Nat)]
           /\ flowing' \in [Ends -> BOOLEAN] /\ pauses' \in [Ends -> Nat]
           /\ ticks' \in [Ends -> Seq(TickKinds)]
<1>1. CASE destroyed[e]
    <2>1. ticks' \in [Ends -> Seq(TickKinds)]
        BY <1>1, TickSeqs, LaterType DEF Flows, TypeOK
    <2>. QED
        BY <1>1, <2>1 DEF Flows, TypeOK, ReadTypes
<1>2. CASE ~destroyed[e] /\ Flow(e, rest, Len(buffer[e]))
                /\ flowing' = [flowing EXCEPT ![e] = TRUE] /\ UNCHANGED pauses
    <2>1. Len(buffer[e]) \in 0..Len(buffer[e])
        BY DEF TypeOK, ReadTypes
    <2>. QED
        BY <1>2, <2>1, FlowType DEF TypeOK, ReadTypes
<1>3. CASE \E n \in 1..Len(buffer[e]) : FlowAndPause(e, rest, n)
    <2>1. PICK n \in 1..Len(buffer[e]) : FlowAndPause(e, rest, n)
        BY <1>3
    <2>2. n \in 0..Len(buffer[e])
        BY <2>1 DEF TypeOK, ReadTypes
    <2>3. /\ Flow(e, rest, n) /\ flowing' = [flowing EXCEPT ![e] = FALSE]
          /\ pauses' = [pauses EXCEPT ![e] = @ + 1]
        BY <2>1 DEF FlowAndPause
    <2>4. flowing' \in [Ends -> BOOLEAN] /\ pauses' \in [Ends -> Nat]
        BY <2>3 DEF TypeOK, ReadTypes
    <2>. QED
        BY <2>2, <2>3, <2>4, FlowType
<1>. QED
    BY <1>1, <1>2, <1>3 DEF Flows

LEMMA EmitEndType ==
    ASSUME TypeOK, NEW e \in Ends, NEW rest \in Seq(TickKinds), EmitEnd(e, rest)
    PROVE  /\ endEmitted' \in [Ends -> BOOLEAN] /\ endHook' \in [Ends -> BOOLEAN]
           /\ WriteTypes' /\ ticks' \in [Ends -> Seq(TickKinds)]
           /\ fin' \in [Ends -> BOOLEAN]
           /\ UNCHANGED <<wire, broken>>
<1>1. Append(rest, "endAgain") \in Seq(TickKinds) /\ <<"close">> \in Seq(TickKinds)
    BY TickSeqs
<1>2. CASE endHook[e]
    BY <1>1, <1>2, EndNowType DEF EmitEnd, TypeOK, WriteTypes, ReadTypes
<1>3. CASE ~endHook[e]
    BY <1>1, <1>3, LaterType DEF EmitEnd, TypeOK, WriteTypes, ReadTypes, FlagTypes
<1>. QED
    BY <1>2, <1>3

LEMMA DestroyNowType ==
    ASSUME TypeOK, NEW e \in Ends, NEW err \in Seq(TickKinds), DestroyNow(e, err)
    PROVE  /\ destroyed' \in [Ends -> BOOLEAN]
           /\ ticks' \in [Ends -> Seq(TickKinds)]
<1>1. IF destroyed[e] THEN <<>> \in Seq(TickKinds)
      ELSE err \o <<"close">> \in Seq(TickKinds)
    BY TickSeqs
<1>2. ticks' \in [Ends -> Seq(TickKinds)]
    BY <1>1, LaterType DEF DestroyNow, TypeOK
<1>. QED
    BY <1>2 DEF DestroyNow, TypeOK, FlagTypes

LEMMA UserType ==
    ASSUME TypeOK, NEW e \in Ends, User(e)
    PROVE  TypeOK'
<1>. USE DEF TypeOK
<1>1. ASSUME NEW size \in WriteSizes, Write(e, size) PROVE TypeOK'
    <2>1. size \in Nat /\ [i \in 1..size |-> sent[e] + i] \in Seq(Nat)
        <3>1. size \in Nat
            BY SizeAssumption
        <3>. QED
            BY <3>1 DEF WriteTypes
    <2>2. Append(queue[e], [i \in 1..size |-> sent[e] + i]) \in Seq(Seq(Nat))
        BY <2>1 DEF WriteTypes
    <2>3. FlagTypes' /\ ReadTypes'
        BY <1>1 DEF Write, netVars, serverVars, readVars, FlagTypes, ReadTypes
    <2>4. sent' \in [Ends -> Nat]
        BY <1>1, <2>1 DEF Write, WriteTypes
    <2>5. queue' \in [Ends -> Seq(Seq(Nat))]
        <3>1. \/ queue' = queue
              \/ queue' = [queue EXCEPT ![e] =
                              Append(queue[e], [i \in 1..size |-> sent[e] + i])]
            BY <1>1 DEF Write
        <3>2. queue \in [Ends -> Seq(Seq(Nat))]
            BY DEF WriteTypes
        <3>3. [queue EXCEPT ![e] =
                  Append(queue[e], [i \in 1..size |-> sent[e] + i])]
                  \in [Ends -> Seq(Seq(Nat))]
            BY <2>2, <3>2, ExceptType
        <3>4. CASE queue' = queue
            BY <3>2, <3>4
        <3>5. CASE queue' # queue
            BY <3>1, <3>3, <3>5
        <3>. QED
            BY <3>4, <3>5
    <2>6. inflight' \in [Ends -> Seq(Nat)]
        <3>. DEFINE units == [i \in 1..size |-> sent[e] + i]
                    w == IF up[e] THEN units ELSE <<>>
        <3>1. inflight' = inflight \/ inflight' = [inflight EXCEPT ![e] = w]
            BY <1>1 DEF Write, StartWrite
        <3>2. inflight \in [Ends -> Seq(Nat)]
            BY DEF WriteTypes
        <3>3. w \in Seq(Nat)
            BY <2>1
        <3>. HIDE DEF w
        <3>4. [inflight EXCEPT ![e] = w] \in [Ends -> Seq(Nat)]
            BY <3>2, <3>3, ExceptType
        <3>. QED
            BY <3>1, <3>2, <3>4, Zenon
    <2>7. WriteTypes'
        BY <1>1, <2>4, <2>5, <2>6 DEF Write, WriteTypes
    <2>8. ticks' \in [Ends -> Seq(TickKinds)]
        BY <1>1, TickSeqs, LaterType DEF Write, Refusal
    <2>. QED
        BY <2>3, <2>7, <2>8
<1>2. CASE End(e)
    <2>1. EndNow(e, ticks[e], <<>>)
        BY <1>2 DEF End
    <2>2. ticks' \in [Ends -> Seq(TickKinds)] /\ fin' \in [Ends -> BOOLEAN]
        BY <2>1, TickSeqs, EndNowType
    <2>3. WriteTypes'
        BY <1>2, <2>1, TickSeqs, EndNowType DEF End, WriteTypes
    <2>4. FlagTypes' /\ ReadTypes'
        BY <1>2, <2>2 DEF End, serverVars, readVars, FlagTypes, ReadTypes
    <2>. QED
        BY <2>2, <2>3, <2>4
<1>3. CASE Resume(e)
    <2>1. Flows(e, ticks[e])
        BY <1>3 DEF Resume
    <2>2. ReadTypes' /\ ticks' \in [Ends -> Seq(TickKinds)]
        BY <1>3, <2>1, FlowsType DEF Resume, ReadTypes, netVars
    <2>3. FlagTypes' /\ WriteTypes'
        BY <1>3 DEF Resume, FlagTypes, WriteTypes, netVars, serverVars, writeVars
    <2>. QED
        BY <2>2, <2>3
<1>4. CASE TakeAll(e)
    <2>1. UNCHANGED <<up, serverVars, flowing, ended, pauses, destroyed>>
        BY <1>4 DEF TakeAll
    <2>2. CASE buffer[e] = <<>>
        <3>1. /\ StartReading(e)
              /\ UNCHANGED <<buffer, taken, got, endEmitted, endHook, netVars,
                             writeVars, ticks>>
            BY <1>4, <2>2 DEF TakeAll
        <3>2. ReadTypes'
            BY <2>1, <3>1, StartReadingType DEF ReadTypes, netVars
        <3>3. FlagTypes' /\ WriteTypes'
            BY <2>1, <3>1 DEF FlagTypes, WriteTypes, netVars, serverVars, writeVars
        <3>. QED
            BY <3>1, <3>2, <3>3
    <2>3. CASE buffer[e] # <<>>
        <3>1. /\ got' = got \/ got' = [got EXCEPT ![e] = Last(buffer[e])]
              /\ taken' = taken \/ taken' = [taken EXCEPT ![e] = buffer[e]]
              /\ buffer' = [buffer EXCEPT ![e] = <<>>]
              /\ IF ended[e] /\ ~endEmitted[e] THEN EmitEnd(e, ticks[e])
                 ELSE UNCHANGED <<endEmitted, endHook, netVars, writeVars, ticks>>
              /\ UNCHANGED <<reading, reads>>
            BY <1>4, <2>3 DEF TakeAll
        <3>2. /\ Last(buffer[e]) \in Nat /\ buffer[e] \in Seq(Nat)
              /\ ticks[e] \in Seq(TickKinds)
            BY <2>3 DEF ReadTypes, Last
        <3>3. /\ endEmitted' \in [Ends -> BOOLEAN] /\ endHook' \in [Ends -> BOOLEAN]
              /\ WriteTypes' /\ ticks' \in [Ends -> Seq(TickKinds)]
              /\ fin' \in [Ends -> BOOLEAN]
              /\ UNCHANGED <<wire, broken>>
            <4>1. CASE ended[e] /\ ~endEmitted[e]
                BY <3>1, <3>2, <4>1, EmitEndType
            <4>2. CASE ~(ended[e] /\ ~endEmitted[e])
                BY <3>1, <4>2 DEF ReadTypes, FlagTypes, WriteTypes, netVars, writeVars
            <4>. QED
                BY <4>1, <4>2
        <3>4. FlagTypes'
            BY <2>1, <3>3 DEF FlagTypes, serverVars
        <3>5. ReadTypes'
            <4>1. got' \in [Ends -> Nat]
                BY <3>1, <3>2 DEF ReadTypes
            <4>2. buffer' \in [Ends -> Seq(Nat)]
                BY <3>1 DEF ReadTypes
            <4>3. taken' \in [Ends -> Seq(Nat)]
                BY <3>1, <3>2 DEF ReadTypes
            <4>. QED
                BY <2>1, <3>1, <3>3, <4>1, <4>2, <4>3 DEF ReadTypes
        <3>. QED
            BY <3>3, <3>4, <3>5
    <2>. QED
        BY <2>2, <2>3
<1>5. CASE Destroy(e)
    <2>1. DestroyNow(e, <<>>)
        BY <1>5 DEF Destroy
    <2>2. destroyed' \in [Ends -> BOOLEAN] /\ ticks' \in [Ends -> Seq(TickKinds)]
        BY <2>1, TickSeqs, DestroyNowType
    <2>. QED
        BY <1>5, <2>2 DEF Destroy, FlagTypes, ReadTypes, WriteTypes, netVars,
                          serverVars, readVars, writeVars
<1>. QED
    BY <1>1, <1>2, <1>3, <1>4, <1>5 DEF User

LEMMA ReturnType ==
    ASSUME TypeOK, NEW e \in Ends, TakeReturn(e)
    PROVE  TypeOK'
<1>1. Last(taken[e]) \in Nat
    BY DEF TypeOK, ReadTypes, TakeReturn, Returned, Last
<1>2. got' \in [Ends -> Nat] /\ taken' \in [Ends -> Seq(Nat)]
    BY <1>1 DEF TypeOK, ReadTypes, TakeReturn
<1>. QED
    BY <1>2 DEF TypeOK, FlagTypes, ReadTypes, WriteTypes, TakeReturn, netVars,
                serverVars, writeVars

LEMMA GioType ==
    ASSUME TypeOK, NEW e \in Ends, Gio(e)
    PROVE  TypeOK'
<1>. USE DEF TypeOK
<1>0. ticks[e] \in Seq(TickKinds) /\ Peer(e) \in Ends
    BY PeerFacts
<1>1. CASE Written(e)
    <2>. DEFINE room == Room - Len(wire[Peer(e)])
                n == IF Len(inflight[e]) <= room THEN Len(inflight[e]) ELSE room
                w == wire[Peer(e)] \o SubSeq(inflight[e], 1, n)
    <2>1. /\ wire' = [wire EXCEPT ![Peer(e)] = w]
          /\ inflight' = [inflight EXCEPT ![e] = <<>>]
          /\ Later(e, ticks[e], <<"written">>)
          /\ room > 0
        BY <1>1 DEF Written
    <2>2. w \in Seq(Nat)
        <3>1. inflight[e] \in Seq(Nat) /\ wire[Peer(e)] \in Seq(Nat)
            BY <1>0 DEF WriteTypes, ReadTypes
        <3>2. n \in 1..Len(inflight[e]) \/ n = 0
            <4>1. /\ Len(inflight[e]) \in Nat /\ Len(wire[Peer(e)]) \in Nat
                  /\ Room \in Nat /\ room \in Int /\ room > 0
                BY <2>1, <3>1, BoundAssumption
            <4>. HIDE DEF room
            <4>. QED
                BY <4>1
        <3>3. SubSeq(inflight[e], 1, n) \in Seq(Nat)
            <4>1. n \in Nat /\ n <= Len(inflight[e])
                BY <3>1, <3>2
            <4>. HIDE DEF n
            <4>. QED
                BY <3>1, <4>1, Parts
        <3>. QED
            BY <3>1, <3>3
    <2>. HIDE DEF w
    <2>3. wire' \in [Ends -> Seq(Nat)] /\ inflight' \in [Ends -> Seq(Nat)]
        <3>1. wire \in [Ends -> Seq(Nat)] /\ inflight \in [Ends -> Seq(Nat)]
            BY DEF ReadTypes, WriteTypes
        <3>2. [wire EXCEPT ![Peer(e)] = w] \in [Ends -> Seq(Nat)]
            BY <1>0, <2>2, <3>1, ExceptType
        <3>3. [inflight EXCEPT ![e] = <<>>] \in [Ends -> Seq(Nat)]
            BY <3>1
        <3>. QED
            BY <2>1, <3>2, <3>3, Zenon
    <2>4. ticks' \in [Ends -> Seq(TickKinds)]
        BY <1>0, <2>1, TickSeqs, LaterType
    <2>5. FlagTypes' /\ ReadTypes'
        BY <1>1, <2>3 DEF Written, serverVars, readVars, FlagTypes, ReadTypes
    <2>6. WriteTypes'
        BY <1>1, <2>3 DEF Written, WriteTypes
    <2>. QED
        BY <2>4, <2>5, <2>6
<1>2. CASE WriteFails(e)
    <2>1. /\ inflight' \in [Ends -> Seq(Nat)]
          /\ ticks' \in [Ends -> Seq(TickKinds)]
        <3>1. inflight' \in [Ends -> Seq(Nat)]
            BY <1>2 DEF WriteFails, WriteTypes
        <3>2. Later(e, ticks[e], <<"writeFailed">>)
            BY <1>2 DEF WriteFails
        <3>. QED
            BY <1>0, <3>1, <3>2, TickSeqs, LaterType
    <2>2. FlagTypes' /\ ReadTypes' /\ WriteTypes'
        BY <1>2, <2>1 DEF WriteFails, netVars, serverVars, readVars, FlagTypes,
                          ReadTypes, WriteTypes
    <2>. QED
        BY <2>1, <2>2
<1>3. ASSUME NEW n \in 1..Room, ReadData(e, n) PROVE TypeOK'
    <2>1. /\ wire[e] \in Seq(Nat) /\ buffer[e] \in Seq(Nat) /\ n \in 1..Len(wire[e])
          /\ reads[e] \in Nat /\ reads[e] > 0
        BY <1>3 DEF ReadData, ReadTypes
    <2>2. /\ SubSeq(wire[e], 1, n) \in Seq(Nat)
          /\ SubSeq(wire[e], n + 1, Len(wire[e])) \in Seq(Nat)
        <3>1. n \in Nat /\ n <= Len(wire[e])
            BY <2>1
        <3>2. wire[e] \in Seq(Nat)
            BY <2>1
        <3>. QED
            BY <3>1, <3>2, Parts
    <2>3. buffer[e] \o SubSeq(wire[e], 1, n) \in Seq(Nat) /\ reads[e] - 1 \in Nat
        <3>1. buffer[e] \in Seq(Nat) /\ SubSeq(wire[e], 1, n) \in Seq(Nat)
            BY <2>1, <2>2
        <3>2. buffer[e] \o SubSeq(wire[e], 1, n) \in Seq(Nat)
            BY <3>1, ConcatProperties
        <3>3. reads[e] - 1 \in Nat
            <4>1. \A m \in Nat : m > 0 => m - 1 \in Nat
                OBVIOUS
            <4>. QED
                BY <2>1, <4>1, Zenon
        <3>. QED
            BY <3>2, <3>3
    <2>4. wire' \in [Ends -> Seq(Nat)] /\ buffer' \in [Ends -> Seq(Nat)]
        BY <1>3, <2>2, <2>3 DEF ReadData, ReadTypes
    <2>5. reading' \in [Ends -> BOOLEAN] /\ reads' \in [Ends -> Nat]
        <3>1. \/ UNCHANGED <<reading, reads>>
              \/ /\ reading' = [reading EXCEPT ![e] = FALSE]
                 /\ reads' = [reads EXCEPT ![e] = reads[e] - 1]
            BY <1>3 DEF ReadData
        <3>2. reading \in [Ends -> BOOLEAN] /\ reads \in [Ends -> Nat]
            BY DEF ReadTypes
        <3>3. /\ [reading EXCEPT ![e] = FALSE] \in [Ends -> BOOLEAN]
              /\ [reads EXCEPT ![e] = reads[e] - 1] \in [Ends -> Nat]
            BY <2>3, <3>2, ExceptType
        <3>. QED
            BY <3>1, <3>2, <3>3, Zenon
    <2>6. ticks' \in [Ends -> Seq(TickKinds)]
        BY <1>0, <1>3, TickSeqs, LaterType DEF ReadData
    <2>7. FlagTypes' /\ ReadTypes'
        BY <1>3, <2>4, <2>5 DEF ReadData, serverVars, FlagTypes, ReadTypes
    <2>8. WriteTypes'
        BY <1>3 DEF ReadData, writeVars, WriteTypes
    <2>. QED
        BY <2>6, <2>7, <2>8
<1>4. CASE ReadEof(e)
    <2>1. reads' \in [Ends -> Nat]
        <3>1. /\ reads' = [reads EXCEPT ![e] = reads[e] - 1]
              /\ reads \in [Ends -> Nat] /\ reads[e] > 0
            BY <1>4 DEF ReadEof, ReadTypes
        <3>2. reads[e] - 1 \in Nat
            BY <3>1
        <3>. QED
            BY <3>1, <3>2, ExceptType
    <2>2. ticks' \in [Ends -> Seq(TickKinds)]
        BY <1>0, <1>4, TickSeqs, LaterType DEF ReadEof
    <2>3. ReadTypes'
        BY <1>4, <2>1 DEF ReadEof, netVars, ReadTypes
    <2>4. FlagTypes' /\ WriteTypes'
        BY <1>4 DEF ReadEof, netVars, serverVars, writeVars, FlagTypes, WriteTypes
    <2>. QED
        BY <2>2, <2>3, <2>4
<1>5. CASE ReadFails(e)
    <2>1. reads' \in [Ends -> Nat]
        <3>1. /\ reads' = [reads EXCEPT ![e] = reads[e] - 1]
              /\ reads \in [Ends -> Nat] /\ reads[e] > 0
            BY <1>5 DEF ReadFails, ReadTypes
        <3>2. reads[e] - 1 \in Nat
            BY <3>1
        <3>. QED
            BY <3>1, <3>2, ExceptType
    <2>2. DestroyNow(e, <<"error">>) /\ <<"error">> \in Seq(TickKinds)
        BY <1>5, TickSeqs DEF ReadFails
    <2>3. destroyed' \in [Ends -> BOOLEAN] /\ ticks' \in [Ends -> Seq(TickKinds)]
        BY <2>2, DestroyNowType
    <2>4. FlagTypes' /\ ReadTypes' /\ WriteTypes'
        BY <1>5, <2>1, <2>3 DEF ReadFails, netVars, serverVars, writeVars,
                                FlagTypes, ReadTypes, WriteTypes
    <2>. QED
        BY <2>3, <2>4
<1>. QED
    BY <1>1, <1>2, <1>3, <1>4, <1>5 DEF Gio

LEMMA TickType ==
    ASSUME TypeOK, NEW e \in Ends, Tick(e)
    PROVE  TypeOK'
<1>. USE DEF TypeOK
<1>0. ticks[e] # <<>> /\ Rest(e) \in Seq(TickKinds)
    <2>1. ticks[e] # <<>> /\ ticks[e] \in Seq(TickKinds)
        BY DEF Tick, TickFlow, TickEnd, TickEndAgain, TickWritten, TickEvent, Runs
    <2>. QED
        BY <2>1, TickSeqs DEF Rest
<1>1. CASE TickFlow(e)
    <2>1. ReadTypes' /\ ticks' \in [Ends -> Seq(TickKinds)]
        <3>1. UNCHANGED <<netVars, taken, ended, endEmitted, endHook>>
            BY <1>1 DEF TickFlow
        <3>2. CASE flowing[e]
            <4>1. Flows(e, Rest(e))
                BY <1>1, <3>2 DEF TickFlow
            <4>. QED
                BY <1>0, <3>1, <4>1, FlowsType DEF ReadTypes, netVars
        <3>3. CASE ~flowing[e]
            <4>1. Later(e, Rest(e), <<>>)
                  /\ UNCHANGED <<got, buffer, reading, reads, pauses, flowing>>
                BY <1>1, <3>3 DEF TickFlow
            <4>. QED
                BY <1>0, <3>1, <4>1, TickSeqs, LaterType DEF ReadTypes, netVars
        <3>. QED
            BY <3>2, <3>3
    <2>2. FlagTypes' /\ WriteTypes'
        BY <1>1 DEF TickFlow, FlagTypes, WriteTypes, netVars, serverVars, writeVars
    <2>. QED
        BY <2>1, <2>2
<1>2. CASE TickEnd(e)
    <2>1. /\ UNCHANGED <<up, serverVars, reading, reads, buffer, taken, flowing,
                         ended, got, pauses, destroyed>>
          /\ IF endEmitted[e]
             THEN /\ Later(e, Rest(e), <<>>)
                  /\ UNCHANGED <<endEmitted, endHook, netVars, writeVars>>
             ELSE EmitEnd(e, Rest(e))
        BY <1>2 DEF TickEnd
    <2>2. /\ endEmitted' \in [Ends -> BOOLEAN] /\ endHook' \in [Ends -> BOOLEAN]
          /\ WriteTypes' /\ ticks' \in [Ends -> Seq(TickKinds)]
          /\ fin' \in [Ends -> BOOLEAN] /\ UNCHANGED <<wire, broken>>
        <3>1. CASE endEmitted[e]
            BY <1>0, <2>1, <3>1, TickSeqs, LaterType
               DEF ReadTypes, FlagTypes, WriteTypes, netVars, writeVars
        <3>2. CASE ~endEmitted[e]
            BY <1>0, <2>1, <3>2, EmitEndType
        <3>. QED
            BY <3>1, <3>2
    <2>3. FlagTypes' /\ ReadTypes'
        BY <2>1, <2>2 DEF FlagTypes, ReadTypes, serverVars
    <2>. QED
        BY <2>2, <2>3
<1>3. CASE TickEndAgain(e)
    <2>1. EndNow(e, Rest(e), <<>>)
        BY <1>3 DEF TickEndAgain
    <2>2. ticks' \in [Ends -> Seq(TickKinds)] /\ fin' \in [Ends -> BOOLEAN]
        BY <1>0, <2>1, TickSeqs, EndNowType
    <2>3. WriteTypes'
        BY <1>0, <1>3, <2>1, TickSeqs, EndNowType DEF TickEndAgain, WriteTypes
    <2>4. FlagTypes' /\ ReadTypes'
        BY <1>3, <2>2 DEF TickEndAgain, serverVars, readVars, FlagTypes, ReadTypes
    <2>. QED
        BY <2>2, <2>3, <2>4
<1>4. CASE TickWritten(e)
    <2>1. refused' \in [Ends -> BOOLEAN]
        BY <1>4 DEF TickWritten, WriteTypes
    <2>2. /\ queue' \in [Ends -> Seq(Seq(Nat))] /\ inflight' \in [Ends -> Seq(Nat)]
          /\ writing' \in [Ends -> BOOLEAN] /\ endWaits' \in [Ends -> BOOLEAN]
          /\ fin' \in [Ends -> BOOLEAN] /\ finished' \in [Ends -> BOOLEAN]
          /\ ticks' \in [Ends -> Seq(TickKinds)]
        <3>1. CASE queue[e] # <<>>
            <4>1. /\ queue' = [queue EXCEPT ![e] = Tail(queue[e])]
                  /\ inflight' = [inflight EXCEPT ![e] =
                         IF up[e] THEN Head(queue[e]) ELSE <<>>]
                  /\ Later(e, Rest(e), Refusal(e))
                  /\ UNCHANGED <<writing, endWaits, fin, finished>>
                BY <1>4, <3>1 DEF TickWritten, StartWrite
            <4>2. /\ queue[e] \in Seq(Seq(Nat)) /\ queue \in [Ends -> Seq(Seq(Nat))]
                  /\ inflight \in [Ends -> Seq(Nat)]
                BY DEF WriteTypes
            <4>3. /\ Tail(queue[e]) \in Seq(Seq(Nat))
                  /\ (IF up[e] THEN Head(queue[e]) ELSE <<>>) \in Seq(Nat)
                BY <3>1, <4>2
            <4>4. queue' \in [Ends -> Seq(Seq(Nat))] /\ inflight' \in [Ends -> Seq(Nat)]
                BY <4>1, <4>2, <4>3, ExceptType, Zenon
            <4>5. ticks' \in [Ends -> Seq(TickKinds)]
                BY <1>0, <4>1, TickSeqs, LaterType DEF Refusal
            <4>. QED
                BY <4>1, <4>4, <4>5 DEF WriteTypes, FlagTypes
        <3>2. CASE queue[e] = <<>>
            <4>1. /\ writing' = [writing EXCEPT ![e] = FALSE]
                  /\ UNCHANGED <<queue, inflight>>
                  /\ \/ /\ DoFinal(e)
                        /\ endWaits' = [endWaits EXCEPT ![e] = FALSE]
                        /\ Later(e, Rest(e), <<"finish">>)
                     \/ /\ Later(e, Rest(e), <<>>)
                        /\ UNCHANGED <<endWaits, fin, finished>>
                BY <1>4, <3>2 DEF TickWritten
            <4>2. ticks' \in [Ends -> Seq(TickKinds)]
                BY <1>0, <4>1, TickSeqs, LaterType
            <4>. QED
                BY <4>1, <4>2, PeerFacts DEF DoFinal, FlagTypes, WriteTypes
        <3>. QED
            BY <3>1, <3>2
    <2>3. WriteTypes'
        BY <1>4, <2>1, <2>2 DEF TickWritten, WriteTypes
    <2>4. FlagTypes' /\ ReadTypes'
        BY <1>4, <2>2 DEF TickWritten, serverVars, readVars, FlagTypes, ReadTypes
    <2>. QED
        BY <2>2, <2>3, <2>4
<1>5. CASE TickEvent(e)
    <2>1. ticks' \in [Ends -> Seq(TickKinds)]
        BY <1>0, <1>5, TickSeqs, LaterType DEF TickEvent
    <2>2. FlagTypes' /\ ReadTypes' /\ WriteTypes'
        BY <1>5 DEF TickEvent, netVars, readVars, writeVars, FlagTypes, ReadTypes,
                    WriteTypes
    <2>. QED
        BY <2>1, <2>2
<1>. QED
    BY <1>1, <1>2, <1>3, <1>4, <1>5 DEF Tick

LEMMA TypeStep == TypeOK /\ [Next]_vars => TypeOK'
<1>. SUFFICES ASSUME TypeOK, [Next]_vars PROVE TypeOK'
    OBVIOUS
<1>. USE DEF TypeOK
<1>1. ASSUME NEW e \in Ends, SetUp(e), tracked' \in BOOLEAN, listening' \in BOOLEAN
      PROVE  TypeOK'
    <2>1. reading' \in [Ends -> BOOLEAN] /\ reads' \in [Ends -> Nat]
        BY <1>1, StartReadingType DEF SetUp
    <2>. QED
        BY <1>1, <2>1 DEF SetUp, netVars, writeVars, FlagTypes, ReadTypes, WriteTypes
<1>2. CASE Connected \/ Accept
    BY <1>1, <1>2 DEF Connected, Accept, serverVars, FlagTypes, Ends
<1>3. CASE Close
    <2>1. destroyed' \in [Ends -> BOOLEAN] /\ ticks' \in [Ends -> Seq(TickKinds)]
        <3>1. DestroyNow("server", <<>>) \/ UNCHANGED <<destroyed, ticks>>
            BY <1>3 DEF Close
        <3>. QED
            BY <3>1, TickSeqs, DestroyNowType DEF FlagTypes, Ends
    <2>. QED
        BY <1>3, <2>1 DEF Close, netVars, readVars, writeVars, FlagTypes, ReadTypes,
                          WriteTypes
<1>4. CASE Reset
    BY <1>4 DEF Reset, serverVars, readVars, writeVars, FlagTypes, ReadTypes,
                WriteTypes
<1>5. CASE UNCHANGED vars
    BY <1>5 DEF vars, netVars, serverVars, readVars, writeVars, FlagTypes, ReadTypes,
                WriteTypes
<1>. QED
    BY <1>2, <1>3, <1>4, <1>5, UserType, ReturnType, GioType,
       TickType DEF Next

(* Every reachable state of a connection is well typed.                     *)
THEOREM TypeCorrect == Spec => []TypeOK
<1>. QED
    BY TypeInit, TypeStep, PTL DEF Spec

(* At most one read is pending, and none when the loop does not run.        *)
ReadInv == \A e \in Ends : reads[e] <= IF reading[e] THEN 1 ELSE 0

(* Starting the loop, and the end of its read, of end e.                    *)
LEMMA StartKeeps ==
    ASSUME TypeOK, ReadInv, NEW e \in Ends,
           StartReading(e) \/ UNCHANGED <<reading, reads>>
    PROVE  ReadInv'
<1>1. reading \in [Ends -> BOOLEAN] /\ reads \in [Ends -> Nat]
    BY DEF TypeOK, ReadTypes
<1>2. CASE UNCHANGED <<reading, reads>>
    BY <1>2 DEF ReadInv
<1>3. CASE StartReading(e) /\ MayStart(e)
    BY <1>1, <1>3 DEF StartReading, MayStart, ReadInv
<1>4. CASE StartReading(e) /\ ~MayStart(e)
    BY <1>4 DEF StartReading, ReadInv
<1>. QED
    BY <1>2, <1>3, <1>4

LEMMA StopKeeps ==
    ASSUME TypeOK, ReadInv, NEW e \in Ends,
           reads' = [reads EXCEPT ![e] = reads[e] - 1], reads[e] > 0,
           reading' = reading \/ reading' = [reading EXCEPT ![e] = FALSE]
    PROVE  ReadInv'
<1>1. reading \in [Ends -> BOOLEAN] /\ reads \in [Ends -> Nat]
    BY DEF TypeOK, ReadTypes
<1>2. ASSUME NEW d \in Ends
      PROVE  reads'[d] <= IF reading'[d] THEN 1 ELSE 0
    <2>1. reads[d] <= IF reading[d] THEN 1 ELSE 0
        BY DEF ReadInv
    <2>2. CASE d = e
        BY <1>1, <2>1, <2>2
    <2>3. CASE d # e
        BY <1>1, <2>1, <2>3
    <2>. QED
        BY <2>2, <2>3
<1>. QED
    BY <1>2 DEF ReadInv

LEMMA FlowsStarts ==
    ASSUME NEW e, NEW rest, Flows(e, rest)
    PROVE  StartReading(e) \/ UNCHANGED <<reading, reads>>
BY DEF Flows, Flow, FlowAndPause

LEMMA ReadStep == TypeOK /\ ReadInv /\ [Next]_vars => ReadInv'
<1>. SUFFICES ASSUME TypeOK, ReadInv, [Next]_vars PROVE ReadInv'
    OBVIOUS
<1>1. CASE Connected \/ Accept
    BY <1>1, StartKeeps DEF Connected, Accept, SetUp, Ends
<1>6. ASSUME NEW e \in Ends, TakeReturn(e) PROVE ReadInv'
    BY <1>6 DEF TakeReturn, ReadInv
<1>2. CASE Close \/ Reset \/ UNCHANGED vars
    BY <1>2 DEF Close, Reset, vars, readVars, ReadInv
<1>3. ASSUME NEW e \in Ends, User(e) PROVE ReadInv'
    <2>1. CASE (\E size \in WriteSizes : Write(e, size)) \/ End(e) \/ Destroy(e)
        BY <2>1 DEF Write, End, Destroy, readVars, ReadInv
    <2>2. CASE Resume(e)
        BY <2>2, FlowsStarts, StartKeeps DEF Resume
    <2>3. CASE TakeAll(e)
        BY <2>3, StartKeeps DEF TakeAll
    <2>. QED
        BY <1>3, <2>1, <2>2, <2>3 DEF User
<1>4. ASSUME NEW e \in Ends, Gio(e) PROVE ReadInv'
    <2>1. CASE Written(e) \/ WriteFails(e)
        BY <2>1 DEF Written, WriteFails, readVars, ReadInv
    <2>2. ASSUME NEW n \in 1..Room, ReadData(e, n) PROVE ReadInv'
        <3>1. CASE UNCHANGED <<reading, reads>>
            BY <3>1, StartKeeps
        <3>2. CASE ~UNCHANGED <<reading, reads>>
            <4>1. /\ reads[e] > 0 /\ reads' = [reads EXCEPT ![e] = reads[e] - 1]
                  /\ reading' = [reading EXCEPT ![e] = FALSE]
                BY <2>2, <3>2 DEF ReadData
            <4>. QED
                BY <4>1, StopKeeps
        <3>. QED
            BY <3>1, <3>2
    <2>3. CASE ReadEof(e) \/ ReadFails(e)
        <3>1. /\ reads[e] > 0 /\ reads' = [reads EXCEPT ![e] = reads[e] - 1]
              /\ reading' = reading \/ reading' = [reading EXCEPT ![e] = FALSE]
            BY <2>3 DEF ReadEof, ReadFails
        <3>. QED
            BY <3>1, StopKeeps
    <2>. QED
        BY <1>4, <2>1, <2>2, <2>3 DEF Gio
<1>5. ASSUME NEW e \in Ends, Tick(e) PROVE ReadInv'
    <2>1. CASE TickFlow(e)
        BY <2>1, FlowsStarts, StartKeeps DEF TickFlow
    <2>2. CASE TickEnd(e) \/ TickEndAgain(e) \/ TickWritten(e) \/ TickEvent(e)
        BY <2>2 DEF TickEnd, TickEndAgain, TickWritten, TickEvent, readVars, ReadInv
    <2>. QED
        BY <1>5, <2>1, <2>2 DEF Tick
<1>. QED
    BY <1>1, <1>2, <1>3, <1>4, <1>5, <1>6 DEF Next

(* GIO never has two reads of an input stream pending, whatever data, flows,*)
(* pauses, read() and the end do to the loop.                               *)
THEOREM OneReadOnly == Spec => []OneRead
<1>1. Init => ReadInv
    BY DEF Init, ReadInv
<1>2. TypeOK /\ ReadInv => OneRead
    <2>. SUFFICES ASSUME TypeOK, ReadInv, NEW e \in Ends PROVE reads[e] <= 1
        BY DEF OneRead
    <2>1. reads[e] \in Nat /\ reads[e] <= IF reading[e] THEN 1 ELSE 0
        BY DEF TypeOK, ReadTypes, ReadInv
    <2>. QED
        BY <2>1
<1>. QED
    BY <1>1, <1>2, TypeInit, TypeStep, ReadStep, PTL DEF Spec

-----------------------------------------------------------------------------
(* One direction of the connection, from the writable half of e to the      *)
(* readable half of its peer.  The lock of e is held by the write at GIO or *)
(* by the tick of its callback.                                             *)
AnswerKinds == {"written", "writeFailed"}
Has(s, K) == \E i \in 1..Len(s) : s[i] \in K
One(s) == \A i, j \in 1..Len(s) : s[i] \in AnswerKinds /\ s[j] \in AnswerKinds
                                  => i = j
LockInv(e) ==
    /\ inflight[e] # <<>> => writing[e] /\ ~Has(ticks[e], AnswerKinds)
    /\ Has(ticks[e], AnswerKinds) => writing[e]
    /\ queue[e] # <<>> => writing[e]
    /\ One(ticks[e])

(* The half is shut when nothing is left to write, and nothing ever will be.*)
ShutInv(e) ==
    /\ endWaits[e] => writableEnded[e]
    /\ fin[Peer(e)] => writableEnded[e] /\ ~writing[e]

(* 'end' is due when the buffer is empty for good.                          *)
EndInv(p) ==
    /\ ended[p] => fin[p] /\ wire[p] = <<>>
    /\ endEmitted[p] => ended[p] /\ buffer[p] = <<>>
    /\ taken[p] # <<>> => endEmitted[p]
    /\ Has(ticks[p], {"end"}) => ended[p] /\ buffer[p] = <<>>

(* Until a write is refused or the connection breaks, the units on their    *)
(* way are those after the last that was taken out of the buffer: that the  *)
(* consumer got, or that its read() is about to return.                     *)
Out(p) == IF taken[p] = <<>> THEN got[p] ELSE Last(taken[p])
Clean(e) == ~broken /\ ~refused[e] /\ ~Has(ticks[e], {"writeFailed"})
Follow(s, k) == \A i \in 1..Len(s) : s[i] = k + i
OnTheWay(e) ==
    LET p == Peer(e)
        b == Out(p) + Len(buffer[p])
        w == b + Len(wire[p])
        f == w + Len(inflight[e])
    IN  /\ Follow(taken[p], got[p])
        /\ Follow(buffer[p], Out(p))
        /\ Follow(wire[p], b)
        /\ Follow(inflight[e], w)
        /\ \A i \in 1..Len(queue[e]) : queue[e][i][1] = f + i
        /\ sent[e] = f + Len(queue[e])
ChainInv(e) ==
    /\ Len(inflight[e]) <= 1
    /\ \A i \in 1..Len(queue[e]) : Len(queue[e][i]) = 1
    /\ Clean(e) => OnTheWay(e)
LastInv(e) ==
    LET p == Peer(e) IN
    ended[p] /\ ~refused[e] =>
        /\ Follow(buffer[p], Out(p))
        /\ sent[e] = Out(p) + Len(buffer[p])

Direction(e) ==
    LockInv(e) /\ ShutInv(e) /\ EndInv(Peer(e)) /\ ChainInv(e) /\ LastInv(e)
NetInv == \A e \in Ends : Direction(e)

-----------------------------------------------------------------------------
(* The ticks that a direction depends on: t has the answers of s, and no    *)
(* 'end' unless s has one.                                                  *)
SameAnswers(s, t) ==
    /\ Has(t, AnswerKinds) <=> Has(s, AnswerKinds)
    /\ Has(t, {"writeFailed"}) <=> Has(s, {"writeFailed"})
    /\ One(s) => One(t)
NoNewEnd(s, t) == Has(t, {"end"}) => Has(s, {"end"})

LEMMA HasCat ==
    ASSUME NEW s \in Seq(TickKinds), NEW t \in Seq(TickKinds), NEW K
    PROVE  Has(s \o t, K) <=> Has(s, K) \/ Has(t, K)
<1>1. /\ Len(s \o t) = Len(s) + Len(t) /\ Len(s) \in Nat /\ Len(t) \in Nat
      /\ \A i \in 1..Len(s) : (s \o t)[i] = s[i]
      /\ \A i \in 1..Len(t) : (s \o t)[Len(s) + i] = t[i]
    OBVIOUS
<1>2. ASSUME Has(s \o t, K) PROVE Has(s, K) \/ Has(t, K)
    <2>1. PICK i \in 1..Len(s \o t) : (s \o t)[i] \in K
        BY <1>2 DEF Has
    <2>2. CASE i \in 1..Len(s)
        BY <1>1, <2>1, <2>2 DEF Has
    <2>3. CASE i \notin 1..Len(s)
        <3>1. i - Len(s) \in 1..Len(t) /\ Len(s) + (i - Len(s)) = i
            BY <1>1, <2>3
        <3>2. t[i - Len(s)] = (s \o t)[i]
            BY <1>1, <3>1
        <3>. QED
            BY <2>1, <3>1, <3>2 DEF Has
    <2>. QED
        BY <2>2, <2>3
<1>3. Has(s, K) => Has(s \o t, K)
    BY <1>1 DEF Has
<1>4. ASSUME Has(t, K) PROVE Has(s \o t, K)
    <2>1. PICK i \in 1..Len(t) : t[i] \in K
        BY <1>4 DEF Has
    <2>2. Len(s) + i \in 1..Len(s \o t)
        BY <1>1
    <2>. QED
        BY <1>1, <2>1, <2>2 DEF Has
<1>. QED
    BY <1>2, <1>3, <1>4

LEMMA HasSingle ==
    ASSUME NEW k, NEW K
    PROVE  /\ Has(<<k>>, K) <=> k \in K
           /\ ~Has(<<>>, K)
BY DEF Has

LEMMA HasTail ==
    ASSUME NEW s \in Seq(TickKinds), s # <<>>, NEW K
    PROVE  Has(s, K) <=> Head(s) \in K \/ Has(Tail(s), K)
<1>1. s = <<Head(s)>> \o Tail(s) /\ Tail(s) \in Seq(TickKinds)
      /\ <<Head(s)>> \in Seq(TickKinds)
    BY DEF TickKinds
<1>2. Has(<<Head(s)>> \o Tail(s), K) <=> Has(<<Head(s)>>, K) \/ Has(Tail(s), K)
    BY <1>1, HasCat
<1>3. Has(<<Head(s)>>, K) <=> Head(s) \in K
    BY HasSingle
<1>. QED
    BY <1>1, <1>2, <1>3

LEMMA OneTail ==
    ASSUME NEW s \in Seq(TickKinds), s # <<>>, One(s)
    PROVE  /\ One(Tail(s))
           /\ Head(s) \in AnswerKinds => ~Has(Tail(s), AnswerKinds)
<1>1. /\ Len(Tail(s)) = Len(s) - 1 /\ Len(s) \in Nat /\ Len(s) > 0
      /\ \A i \in 1..Len(Tail(s)) : Tail(s)[i] = s[i + 1] /\ i + 1 \in 1..Len(s)
      /\ 1 \in 1..Len(s) /\ Head(s) = s[1]
    OBVIOUS
<1>2. One(Tail(s))
    BY <1>1 DEF One
<1>3. ASSUME Head(s) \in AnswerKinds, Has(Tail(s), AnswerKinds) PROVE FALSE
    <2>1. PICK i \in 1..Len(Tail(s)) : Tail(s)[i] \in AnswerKinds
        BY <1>3 DEF Has
    <2>2. s[i + 1] \in AnswerKinds /\ i + 1 \in 1..Len(s) /\ i + 1 # 1
        BY <1>1, <2>1
    <2>. QED
        BY <1>1, <1>3, <2>2 DEF One
<1>. QED
    BY <1>2, <1>3

LEMMA OneCat ==
    ASSUME NEW s \in Seq(TickKinds), NEW t \in Seq(TickKinds)
    PROVE  /\ One(s) /\ ~Has(t, AnswerKinds) => One(s \o t)
           /\ ~Has(s, AnswerKinds) /\ One(t) => One(s \o t)
<1>1. /\ Len(s \o t) = Len(s) + Len(t) /\ Len(s) \in Nat /\ Len(t) \in Nat
      /\ \A i \in 1..Len(s \o t) : \/ i \in 1..Len(s) /\ (s \o t)[i] = s[i]
                                   \/ /\ i - Len(s) \in 1..Len(t)
                                      /\ (s \o t)[i] = t[i - Len(s)]
    OBVIOUS
<1>2. ASSUME One(s), ~Has(t, AnswerKinds) PROVE One(s \o t)
    BY <1>1, <1>2 DEF One, Has
<1>3. ASSUME ~Has(s, AnswerKinds), One(t) PROVE One(s \o t)
    <2>. SUFFICES ASSUME NEW i \in 1..Len(s \o t), NEW j \in 1..Len(s \o t),
                         (s \o t)[i] \in AnswerKinds, (s \o t)[j] \in AnswerKinds
                  PROVE  i = j
        BY DEF One
    <2>1. i - Len(s) \in 1..Len(t) /\ t[i - Len(s)] \in AnswerKinds
        BY <1>1, <1>3 DEF Has
    <2>2. j - Len(s) \in 1..Len(t) /\ t[j - Len(s)] \in AnswerKinds
        BY <1>1, <1>3 DEF Has
    <2>3. i - Len(s) = j - Len(s)
        BY <1>3, <2>1, <2>2 DEF One
    <2>. QED
        BY <1>1, <2>3
<1>. QED
    BY <1>2, <1>3

(* Ticks that a step takes from the head, and puts at the end.              *)
LEMMA KeepSelf ==
    ASSUME NEW s
    PROVE  SameAnswers(s, s) /\ NoNewEnd(s, s)
BY DEF SameAnswers, NoNewEnd

LEMMA KeepTail ==
    ASSUME NEW s \in Seq(TickKinds), s # <<>>, Head(s) \notin AnswerKinds
    PROVE  SameAnswers(s, Tail(s)) /\ NoNewEnd(s, Tail(s))
<1>1. Head(s) \notin {"writeFailed"}
    BY DEF AnswerKinds
<1>. QED
    BY <1>1, HasTail, OneTail DEF SameAnswers, NoNewEnd

LEMMA KeepCat ==
    ASSUME NEW s \in Seq(TickKinds), NEW t \in Seq(TickKinds),
           NEW u \in Seq(TickKinds), SameAnswers(s, t), ~Has(u, AnswerKinds)
    PROVE  /\ SameAnswers(s, t \o u)
           /\ NoNewEnd(s, t) /\ ~Has(u, {"end"}) => NoNewEnd(s, t \o u)
<1>1. ~Has(u, {"writeFailed"})
    BY DEF Has, AnswerKinds
<1>. QED
    BY <1>1, HasCat, OneCat DEF SameAnswers, NoNewEnd

-----------------------------------------------------------------------------
(* What a step leaves alone of a direction.                                 *)
WriteSame(e) ==
    /\ writing'[e] = writing[e] /\ inflight'[e] = inflight[e]
    /\ queue'[e] = queue[e] /\ sent'[e] = sent[e] /\ refused'[e] = refused[e]
EndSame(e) ==
    /\ writableEnded'[e] = writableEnded[e] /\ endWaits'[e] = endWaits[e]
    /\ fin'[Peer(e)] = fin[Peer(e)]
ReadSame(p) ==
    /\ wire'[p] = wire[p] /\ buffer'[p] = buffer[p] /\ got'[p] = got[p]
    /\ taken'[p] = taken[p] /\ ended'[p] = ended[p] /\ endEmitted'[p] = endEmitted[p]

LEMMA OutType ==
    ASSUME TypeOK, NEW p \in Ends
    PROVE  Out(p) \in Nat
<1>1. got[p] \in Nat /\ taken[p] \in Seq(Nat)
    BY DEF TypeOK, ReadTypes
<1>. QED
    BY <1>1 DEF Out, Last

LEMMA OutKept ==
    ASSUME NEW p, taken'[p] = taken[p], got'[p] = got[p]
    PROVE  Out(p)' = Out(p)
BY DEF Out

(* The lock does not see more than the write half and the answers.          *)
LEMMA LockKept ==
    ASSUME NEW e \in Ends, LockInv(e), writing'[e] = writing[e],
           inflight'[e] = inflight[e], queue'[e] = queue[e],
           SameAnswers(ticks[e], ticks'[e])
    PROVE  LockInv(e)'
BY DEF LockInv, SameAnswers, Has, One

LEMMA CleanKept ==
    ASSUME NEW e \in Ends, broken' = broken, refused'[e] = refused[e],
           SameAnswers(ticks[e], ticks'[e])
    PROVE  Clean(e)' <=> Clean(e)
BY DEF Clean, SameAnswers, Has

(* What the consumer takes from the buffer: n units, the last is got.       *)
LEMMA FollowTake ==
    ASSUME NEW s \in Seq(Nat), NEW k \in Nat, NEW n \in 0..Len(s), Follow(s, k)
    PROVE  /\ n # 0 => s[n] = k + n
           /\ SubSeq(s, n + 1, Len(s)) \in Seq(Nat)
           /\ Len(SubSeq(s, n + 1, Len(s))) = Len(s) - n
           /\ Follow(SubSeq(s, n + 1, Len(s)), k + n)
<1>1. /\ SubSeq(s, n + 1, Len(s)) \in Seq(Nat)
      /\ Len(SubSeq(s, n + 1, Len(s))) = Len(s) - n
      /\ \A i \in 1..Len(SubSeq(s, n + 1, Len(s))) :
            SubSeq(s, n + 1, Len(s))[i] = s[n + i]
    OBVIOUS
<1>2. n # 0 => s[n] = k + n
    BY DEF Follow
<1>3. ASSUME NEW i \in 1..Len(SubSeq(s, n + 1, Len(s)))
      PROVE  SubSeq(s, n + 1, Len(s))[i] = k + n + i
    <2>1. n + i \in 1..Len(s) /\ i \in Nat
        BY <1>1
    <2>2. s[n + i] = k + (n + i)
        BY <2>1 DEF Follow
    <2>. QED
        BY <1>1, <2>1, <2>2
<1>. QED
    BY <1>1, <1>2, <1>3 DEF Follow

(* Whatever the reading side takes of its buffer, and however the writing   *)
(* side ends, a direction stays as it is.                                   *)
LEMMA ReaderMove ==
    ASSUME TypeOK, NEW e \in Ends, Direction(e), WriteSame(e), ShutInv(e)',
           fin[Peer(e)] => fin'[Peer(e)], broken' = broken,
           SameAnswers(ticks[e], ticks'[e]),
           wire'[Peer(e)] = wire[Peer(e)], ended'[Peer(e)] = ended[Peer(e)],
           NEW n \in 0..Len(buffer[Peer(e)]),
           buffer'[Peer(e)] = SubSeq(buffer[Peer(e)], n + 1, Len(buffer[Peer(e)])),
           Out(Peer(e))' = IF n = 0 THEN Out(Peer(e)) ELSE buffer[Peer(e)][n],
           Follow(taken[Peer(e)], got[Peer(e)])
               /\ Follow(buffer[Peer(e)], Out(Peer(e))) =>
                   Follow(taken'[Peer(e)], got'[Peer(e)]),
           taken'[Peer(e)] # <<>> => endEmitted'[Peer(e)],
           endEmitted'[Peer(e)] => \/ endEmitted[Peer(e)]
                                   \/ ended[Peer(e)] /\ buffer'[Peer(e)] = <<>>,
           Has(ticks'[Peer(e)], {"end"}) =>
               \/ Has(ticks[Peer(e)], {"end"})
               \/ ended[Peer(e)] /\ buffer'[Peer(e)] = <<>>
    PROVE  Direction(e)'
<1>. DEFINE p == Peer(e)
<1>0. /\ p \in Ends /\ buffer[p] \in Seq(Nat) /\ wire[p] \in Seq(Nat)
      /\ Out(p) \in Nat /\ sent[e] \in Nat
      /\ inflight[e] \in Seq(Nat) /\ queue[e] \in Seq(Seq(Nat))
    BY PeerFacts, OutType DEF TypeOK, ReadTypes, WriteTypes
<1>. HIDE DEF p
<1>1. LockInv(e)'
    BY LockKept DEF Direction, WriteSame
<1>2. EndInv(p)'
    <2>1. buffer[p] = <<>> => buffer'[p] = <<>>
        BY <1>0 DEF p
    <2>. QED
        BY <2>1 DEF p, Direction, EndInv, Has
<1>3. Follow(buffer[p], Out(p)) =>
          /\ Follow(buffer'[p], Out(p)')
          /\ Out(p)' + Len(buffer'[p]) = Out(p) + Len(buffer[p])
    <2>. SUFFICES ASSUME Follow(buffer[p], Out(p))
                  PROVE  /\ Follow(buffer'[p], Out(p)')
                         /\ Out(p)' + Len(buffer'[p]) = Out(p) + Len(buffer[p])
        OBVIOUS
    <2>1. n \in 0..Len(buffer[p]) /\ n \in Nat /\ Len(buffer[p]) \in Nat
        BY <1>0 DEF p
    <2>2. /\ buffer'[p] = SubSeq(buffer[p], n + 1, Len(buffer[p]))
          /\ Out(p)' = IF n = 0 THEN Out(p) ELSE buffer[p][n]
        BY DEF p
    <2>3. /\ n # 0 => buffer[p][n] = Out(p) + n
          /\ Len(SubSeq(buffer[p], n + 1, Len(buffer[p]))) = Len(buffer[p]) - n
          /\ Follow(SubSeq(buffer[p], n + 1, Len(buffer[p])), Out(p) + n)
        BY <1>0, <2>1, FollowTake, SMTT(30)
    <2>4. Out(p)' = Out(p) + n
        BY <1>0, <2>1, <2>2, <2>3
    <2>5. /\ Len(buffer'[p]) = Len(buffer[p]) - n
          /\ Follow(buffer'[p], Out(p)')
        BY <2>2, <2>3, <2>4
    <2>. QED
        BY <1>0, <2>1, <2>4, <2>5
<1>4. ChainInv(e)'
    <2>1. Clean(e)' => OnTheWay(e)
        BY CleanKept DEF Direction, ChainInv, WriteSame
    <2>2. OnTheWay(e) => OnTheWay(e)'
        BY <1>3 DEF p, OnTheWay, WriteSame, Follow
    <2>. QED
        BY <2>1, <2>2 DEF Direction, ChainInv, WriteSame
<1>5. LastInv(e)'
    BY <1>3 DEF p, Direction, LastInv, WriteSame, Follow
<1>. QED
    BY <1>1, <1>2, <1>4, <1>5 DEF p, Direction

(* A step that is not about a direction.                                    *)
LEMMA Untouched ==
    ASSUME TypeOK, NEW e \in Ends, Direction(e), WriteSame(e), ShutInv(e)',
           fin[Peer(e)] => fin'[Peer(e)], broken' = broken, ReadSame(Peer(e)),
           SameAnswers(ticks[e], ticks'[e]),
           NoNewEnd(ticks[Peer(e)], ticks'[Peer(e)])
    PROVE  Direction(e)'
<1>1. buffer[Peer(e)] \in Seq(Nat)
    BY PeerFacts DEF TypeOK, ReadTypes
<1>2. /\ 0 \in 0..Len(buffer[Peer(e)])
      /\ SubSeq(buffer[Peer(e)], 0 + 1, Len(buffer[Peer(e)])) = buffer[Peer(e)]
    BY <1>1
<1>3. Out(Peer(e))' = Out(Peer(e))
    BY OutKept DEF ReadSame
<1>4. taken'[Peer(e)] # <<>> => endEmitted'[Peer(e)]
    BY DEF ReadSame, Direction, EndInv
<1>. QED
    BY <1>2, <1>3, <1>4, ReaderMove DEF ReadSame, NoNewEnd

LEMMA ShutKept ==
    ASSUME NEW e \in Ends, ShutInv(e), EndSame(e), writing'[e] = writing[e]
    PROVE  ShutInv(e)'
BY DEF ShutInv, EndSame

-----------------------------------------------------------------------------
(* Steps that leave the writing side of a direction alone.                  *)
Calm(e) ==
    /\ WriteSame(e) /\ SameAnswers(ticks[e], ticks'[e])
    /\ broken' = broken
    /\ fin[Peer(e)] => fin'[Peer(e)]
    /\ ShutInv(e)'

Plain(s) == ~Has(s, AnswerKinds) /\ ~Has(s, {"end"})

LEMMA PlainTicks ==
    /\ Plain(<<>>) /\ Plain(<<"flow">>) /\ Plain(<<"endAgain">>)
    /\ Plain(<<"finish">>) /\ Plain(<<"close">>) /\ Plain(<<"error">>)
    /\ ~Has(<<"end">>, AnswerKinds)
    /\ \A s, t \in Seq(TickKinds) : Plain(s) /\ Plain(t) => Plain(s \o t)
<1>1. \A s, t \in Seq(TickKinds) : Plain(s) /\ Plain(t) => Plain(s \o t)
    BY HasCat DEF Plain
<1>. QED
    BY <1>1, HasSingle DEF Plain, AnswerKinds

LEMMA LaterKeeps ==
    ASSUME TypeOK, NEW a \in Ends, NEW rest \in Seq(TickKinds),
           NEW more \in Seq(TickKinds), Later(a, rest, more),
           SameAnswers(ticks[a], rest), NoNewEnd(ticks[a], rest),
           ~Has(more, AnswerKinds)
    PROVE  /\ \A e \in Ends : SameAnswers(ticks[e], ticks'[e])
           /\ ticks'[Peer(a)] = ticks[Peer(a)]
           /\ Plain(more) => \A e \in Ends : NoNewEnd(ticks[e], ticks'[e])
           /\ Has(ticks'[a], {"end"}) => \/ Has(ticks[a], {"end"})
                                         \/ Has(more, {"end"})
<1>1. /\ ticks'[a] = rest \o more /\ ticks[a] \in Seq(TickKinds)
      /\ \A e \in Ends : e # a => ticks'[e] = ticks[e]
    BY LaterType DEF TypeOK
<1>2. SameAnswers(ticks[a], rest \o more)
    BY <1>1, KeepCat
<1>3. Plain(more) => NoNewEnd(ticks[a], rest \o more)
    BY <1>1, KeepCat DEF Plain
<1>4. Has(rest \o more, {"end"}) => Has(ticks[a], {"end"}) \/ Has(more, {"end"})
    BY HasCat DEF NoNewEnd
<1>. QED
    BY <1>1, <1>2, <1>3, <1>4, KeepSelf, PeerFacts

LEMMA Both ==
    ASSUME NEW a \in Ends, Direction(a)', Direction(Peer(a))'
    PROVE  NetInv'
<1>1. \A e \in Ends : Direction(e)'
    BY PeerFacts
<1>. QED
    BY <1>1 DEF NetInv

LEMMA CalmKept ==
    ASSUME NEW e \in Ends, ShutInv(e), WriteSame(e), EndSame(e), broken' = broken,
           SameAnswers(ticks[e], ticks'[e])
    PROVE  Calm(e)
BY ShutKept DEF Calm, EndSame, WriteSame

LEMMA AllSame ==
    ASSUME UNCHANGED writeVars
    PROVE  /\ \A e : WriteSame(e)
           /\ fin' = fin => \A e : EndSame(e)
BY DEF writeVars, WriteSame, EndSame

(* A step that is about no direction.                                       *)
LEMMA QuietStep ==
    ASSUME TypeOK, NetInv, UNCHANGED <<netVars, writeVars>>,
           UNCHANGED <<buffer, taken, got, ended, endEmitted>>,
           \A e \in Ends : /\ SameAnswers(ticks[e], ticks'[e])
                           /\ NoNewEnd(ticks[e], ticks'[e])
    PROVE  NetInv'
<1>1. ASSUME NEW e \in Ends PROVE Direction(e)'
    <2>1. Direction(e) /\ ShutInv(e) /\ WriteSame(e) /\ EndSame(e)
        BY AllSame DEF NetInv, Direction, netVars
    <2>2. Calm(e)
        BY <2>1, CalmKept DEF netVars
    <2>3. ReadSame(Peer(e)) /\ NoNewEnd(ticks[Peer(e)], ticks'[Peer(e)])
        BY PeerFacts DEF ReadSame, netVars
    <2>. QED
        BY <2>1, <2>2, <2>3, Untouched DEF Calm
<1>. QED
    BY <1>1 DEF NetInv

(* end(), of the user or of a listener of 'end'.                            *)
LEMMA EndNowFacts ==
    ASSUME TypeOK, NetInv, NEW a \in Ends, NEW rest \in Seq(TickKinds),
           NEW more \in Seq(TickKinds), EndNow(a, rest, more), Plain(more),
           SameAnswers(ticks[a], rest), NoNewEnd(ticks[a], rest),
           UNCHANGED <<broken, writing, inflight, queue, sent, refused>>
    PROVE  \A e \in Ends : Calm(e) /\ NoNewEnd(ticks[e], ticks'[e])
<1>0. /\ writableEnded \in [Ends -> BOOLEAN] /\ endWaits \in [Ends -> BOOLEAN]
      /\ fin \in [Ends -> BOOLEAN] /\ Peer(a) \in Ends /\ Peer(a) # a
    BY PeerFacts DEF TypeOK, WriteTypes, FlagTypes
<1>1. \A e \in Ends : /\ SameAnswers(ticks[e], ticks'[e])
                      /\ NoNewEnd(ticks[e], ticks'[e])
    <2>1. Plain(<<"finish">> \o more) /\ <<"finish">> \o more \in Seq(TickKinds)
        BY PlainTicks, TickSeqs
    <2>2. Later(a, rest, more) \/ Later(a, rest, <<"finish">> \o more)
        BY DEF EndNow
    <2>. QED
        BY <2>1, <2>2, LaterKeeps DEF Plain
<1>2. \A e \in Ends : WriteSame(e) /\ ShutInv(e)
    BY DEF WriteSame, NetInv, Direction
<1>3. Calm(a)
    <2>1. writableEnded'[a] /\ writing'[a] = writing[a]
        BY <1>0 DEF EndNow
    <2>2. /\ fin[Peer(a)] => fin'[Peer(a)]
          /\ fin'[Peer(a)] => fin[Peer(a)] \/ ~writing[a]
        BY <1>0 DEF EndNow, DoFinal, EndWaits
    <2>3. ShutInv(a)'
        BY <1>2, <2>1, <2>2 DEF ShutInv
    <2>. QED
        BY <1>1, <1>2, <2>2, <2>3 DEF Calm
<1>4. Calm(Peer(a))
    <2>1. Peer(Peer(a)) = a
        BY PeerFacts
    <2>2. EndSame(Peer(a))
        BY <1>0, <2>1 DEF EndNow, DoFinal, EndSame
    <2>. QED
        BY <1>0, <1>1, <1>2, <2>2, CalmKept
<1>. QED
    BY <1>1, <1>3, <1>4, PeerFacts

LEMMA EmitEndFacts ==
    ASSUME TypeOK, NetInv, NEW a \in Ends, NEW rest \in Seq(TickKinds),
           EmitEnd(a, rest),
           SameAnswers(ticks[a], rest), NoNewEnd(ticks[a], rest)
    PROVE  /\ \A e \in Ends : Calm(e) /\ NoNewEnd(ticks[e], ticks'[e])
           /\ wire' = wire
           /\ endEmitted'[Peer(a)] = endEmitted[Peer(a)]
<1>. DEFINE hooked == IF DuplexHook(a) THEN Append(rest, "endAgain") ELSE rest
<1>1. /\ hooked \in Seq(TickKinds) /\ <<"close">> \in Seq(TickKinds)
      /\ Plain(<<"close">>)
    BY TickSeqs, PlainTicks
<1>2. SameAnswers(ticks[a], hooked) /\ NoNewEnd(ticks[a], hooked)
    <2>1. Append(rest, "endAgain") = rest \o <<"endAgain">>
        OBVIOUS
    <2>2. ticks[a] \in Seq(TickKinds) /\ <<"endAgain">> \in Seq(TickKinds)
        BY TickSeqs DEF TypeOK
    <2>3. Plain(<<"endAgain">>)
        BY PlainTicks
    <2>4. SameAnswers(ticks[a], rest \o <<"endAgain">>)
          /\ NoNewEnd(ticks[a], rest \o <<"endAgain">>)
        BY <2>2, <2>3, KeepCat DEF Plain
    <2>. QED
        BY <2>1, <2>4
<1>3. /\ UNCHANGED <<wire, broken, writing, inflight, queue, sent, refused>>
      /\ endEmitted' = [endEmitted EXCEPT ![a] = TRUE]
      /\ IF endHook[a]
         THEN EndNow(a, hooked, <<"close">>)
         ELSE /\ Later(a, hooked, <<"close">>)
              /\ UNCHANGED <<fin, writableEnded, finished, endWaits>>
    BY DEF EmitEnd
<1>. HIDE DEF hooked
<1>4. \A e \in Ends : Calm(e) /\ NoNewEnd(ticks[e], ticks'[e])
    <2>1. CASE endHook[a]
        BY <1>1, <1>2, <1>3, <2>1, EndNowFacts
    <2>2. CASE ~endHook[a]
        <3>1. \A e \in Ends : /\ SameAnswers(ticks[e], ticks'[e])
                              /\ NoNewEnd(ticks[e], ticks'[e])
            BY <1>1, <1>2, <1>3, <2>2, LaterKeeps DEF Plain
        <3>2. \A e \in Ends : WriteSame(e) /\ EndSame(e) /\ ShutInv(e)
            BY <1>3, <2>2 DEF WriteSame, EndSame, NetInv, Direction
        <3>. QED
            BY <1>3, <3>1, <3>2, CalmKept
    <2>. QED
        BY <2>1, <2>2
<1>5. endEmitted'[Peer(a)] = endEmitted[Peer(a)]
    BY <1>3, PeerFacts DEF TypeOK, ReadTypes
<1>. QED
    BY <1>3, <1>4, <1>5

(* Calm steps of a, in which a may take from its buffer.                    *)
LEMMA CalmStep ==
    ASSUME TypeOK, NetInv, NEW a \in Ends, \A e \in Ends : Calm(e),
           wire' = wire, ended' = ended,
           endEmitted'[Peer(a)] = endEmitted[Peer(a)],
           buffer'[Peer(a)] = buffer[Peer(a)], got'[Peer(a)] = got[Peer(a)],
           taken'[Peer(a)] = taken[Peer(a)],
           NoNewEnd(ticks[Peer(a)], ticks'[Peer(a)]),
           NEW n \in 0..Len(buffer[a]),
           buffer'[a] = SubSeq(buffer[a], n + 1, Len(buffer[a])),
           Out(a)' = IF n = 0 THEN Out(a) ELSE buffer[a][n],
           Follow(taken[a], got[a]) /\ Follow(buffer[a], Out(a)) =>
               Follow(taken'[a], got'[a]),
           taken'[a] # <<>> => endEmitted'[a],
           endEmitted'[a] => endEmitted[a] \/ (ended[a] /\ buffer'[a] = <<>>),
           Has(ticks'[a], {"end"}) => \/ Has(ticks[a], {"end"})
                                      \/ ended[a] /\ buffer'[a] = <<>>
    PROVE  NetInv'
<1>0. /\ Peer(a) \in Ends /\ Peer(Peer(a)) = a
      /\ Direction(a) /\ Direction(Peer(a))
    BY PeerFacts DEF NetInv
<1>1. Direction(a)'
    BY <1>0, Untouched DEF Calm, ReadSame
<1>2. Direction(Peer(a))'
    BY <1>0, ReaderMove DEF Calm
<1>. QED
    BY <1>1, <1>2, Both

LEMMA FlowsKeep ==
    ASSUME TypeOK, NetInv, NEW a \in Ends, NEW rest \in Seq(TickKinds),
           Flows(a, rest), SameAnswers(ticks[a], rest), NoNewEnd(ticks[a], rest),
           UNCHANGED <<netVars, taken, ended, endEmitted, writeVars>>
    PROVE  NetInv'
<1>0. /\ Peer(a) \in Ends /\ Peer(a) # a /\ Peer(Peer(a)) = a
      /\ buffer \in [Ends -> Seq(Nat)] /\ got \in [Ends -> Nat]
    BY PeerFacts DEF TypeOK, ReadTypes
(* While read() has not returned the data have ended, and nothing flows.    *)
<1>5. taken[a] # <<>> => endEmitted[a] /\ buffer[a] = <<>>
    <2>1. EndInv(Peer(Peer(a)))
        BY <1>0 DEF NetInv, Direction
    <2>. QED
        BY <1>0, <2>1 DEF EndInv
<1>1. CASE destroyed[a]
    <2>1. Later(a, rest, <<>>) /\ UNCHANGED <<got, buffer>>
        BY <1>1 DEF Flows
    <2>2. <<>> \in Seq(TickKinds) /\ Plain(<<>>)
        BY TickSeqs, PlainTicks
    <2>3. \A e \in Ends : /\ SameAnswers(ticks[e], ticks'[e])
                          /\ NoNewEnd(ticks[e], ticks'[e])
        BY <2>1, <2>2, LaterKeeps DEF Plain
    <2>. QED
        BY <2>1, <2>3, QuietStep
<1>2. ASSUME NEW n \in 0..Len(buffer[a]), Flow(a, rest, n) PROVE NetInv'
    <2>. DEFINE due == ended[a] /\ Left(a, n) = <<>> /\ ~endEmitted[a]
                more == IF due THEN <<"end">> ELSE <<>>
    <2>1. /\ got' = IF n = 0 THEN got ELSE [got EXCEPT ![a] = buffer[a][n]]
          /\ buffer' = [buffer EXCEPT ![a] = Left(a, n)]
          /\ Later(a, rest, more)
        BY <1>2 DEF Flow
    <2>2. /\ more \in Seq(TickKinds) /\ ~Has(more, AnswerKinds)
          /\ Has(more, {"end"}) => due
        BY TickSeqs, PlainTicks DEF Plain
    <2>. HIDE DEF more
    <2>3. /\ \A e \in Ends : SameAnswers(ticks[e], ticks'[e])
          /\ ticks'[Peer(a)] = ticks[Peer(a)]
          /\ Has(ticks'[a], {"end"}) => Has(ticks[a], {"end"}) \/ due
        BY <2>1, <2>2, LaterKeeps
    <2>4. \A e \in Ends : Calm(e)
        BY <2>3, AllSame, CalmKept DEF netVars, NetInv, Direction
    <2>5. /\ buffer'[a] = SubSeq(buffer[a], n + 1, Len(buffer[a]))
          /\ got'[a] = IF n = 0 THEN got[a] ELSE buffer[a][n]
          /\ buffer'[Peer(a)] = buffer[Peer(a)] /\ got'[Peer(a)] = got[Peer(a)]
        BY <1>0, <2>1 DEF Left
    <2>8. taken[a] # <<>> => n = 0
        BY <1>0, <1>5
    <2>9. Out(a)' = IF n = 0 THEN Out(a) ELSE buffer[a][n]
        BY <2>5, <2>8 DEF Out
    <2>10. /\ Follow(taken[a], got[a]) => Follow(taken'[a], got'[a])
           /\ taken'[a] # <<>> => endEmitted'[a]
        BY <1>5, <2>5, <2>8 DEF Follow
    <2>6. due => ended[a] /\ buffer'[a] = <<>>
        BY <1>0, <2>1
    <2>7. NoNewEnd(ticks[Peer(a)], ticks'[Peer(a)])
        BY <2>3 DEF NoNewEnd
    <2>. HIDE DEF due
    <2>. QED
        BY <2>3, <2>4, <2>5, <2>6, <2>7, <2>9, <2>10, CalmStep DEF netVars
<1>3. CASE ~destroyed[a] /\ Flow(a, rest, Len(buffer[a]))
    BY <1>0, <1>2, <1>3
<1>4. CASE \E n \in 1..Len(buffer[a]) : Flow(a, rest, n)
    <2>1. PICK n \in 1..Len(buffer[a]) : Flow(a, rest, n)
        BY <1>4
    <2>2. n \in 0..Len(buffer[a])
        BY <1>0
    <2>. QED
        BY <1>2, <2>1, <2>2
<1>. QED
    BY <1>1, <1>3, <1>4 DEF Flows, FlowAndPause

LEMMA TakeAllKeeps ==
    ASSUME TypeOK, NetInv, NEW a \in Ends, TakeAll(a)
    PROVE  NetInv'
<1>0. /\ Peer(a) \in Ends /\ Peer(a) # a
      /\ buffer \in [Ends -> Seq(Nat)] /\ got \in [Ends -> Nat]
      /\ taken \in [Ends -> Seq(Nat)] /\ Peer(Peer(a)) = a
      /\ endEmitted \in [Ends -> BOOLEAN] /\ ticks[a] \in Seq(TickKinds)
    BY PeerFacts DEF TypeOK, ReadTypes
<1>1. CASE buffer[a] = <<>>
    BY <1>1, KeepSelf, QuietStep DEF TakeAll
<1>2. CASE buffer[a] # <<>>
    <2>1. /\ IF ended[a] /\ ~endEmitted[a]
             THEN taken' = [taken EXCEPT ![a] = buffer[a]] /\ got' = got
             ELSE got' = [got EXCEPT ![a] = Last(buffer[a])] /\ taken' = taken
          /\ buffer' = [buffer EXCEPT ![a] = <<>>]
          /\ ended' = ended
          /\ IF ended[a] /\ ~endEmitted[a] THEN EmitEnd(a, ticks[a])
             ELSE UNCHANGED <<endEmitted, endHook, netVars, writeVars, ticks>>
        BY <1>2 DEF TakeAll
    <2>2. /\ \A e \in Ends : Calm(e) /\ NoNewEnd(ticks[e], ticks'[e])
          /\ wire' = wire /\ endEmitted'[Peer(a)] = endEmitted[Peer(a)]
          /\ endEmitted'[a] => endEmitted[a] \/ ended[a]
        <3>1. CASE ended[a] /\ ~endEmitted[a]
            BY <1>0, <2>1, <3>1, KeepSelf, EmitEndFacts
        <3>2. CASE ~(ended[a] /\ ~endEmitted[a])
            <4>1. UNCHANGED <<endEmitted, netVars, writeVars, ticks>>
                BY <2>1, <3>2
            <4>2. \A e \in Ends : Calm(e)
                BY <4>1, KeepSelf, AllSame, CalmKept DEF netVars, NetInv, Direction
            <4>. QED
                BY <4>1, <4>2, KeepSelf DEF netVars
        <3>. QED
            BY <3>1, <3>2
    <2>. DEFINE n == Len(buffer[a])
    <2>3. /\ n \in 0..Len(buffer[a]) /\ n # 0 /\ buffer'[a] = <<>>
          /\ SubSeq(buffer[a], n + 1, Len(buffer[a])) = <<>>
          /\ Last(buffer[a]) = buffer[a][n]
          /\ buffer'[Peer(a)] = buffer[Peer(a)] /\ got'[Peer(a)] = got[Peer(a)]
          /\ taken'[Peer(a)] = taken[Peer(a)]
        BY <1>0, <1>2, <2>1 DEF Last
    <2>5. ~endEmitted[a] /\ taken[a] = <<>>
        <3>1. EndInv(Peer(Peer(a)))
            BY <1>0 DEF NetInv, Direction
        <3>. QED
            BY <1>0, <1>2, <3>1 DEF EndInv
    <2>6. /\ Out(a)' = Last(buffer[a])
          /\ Follow(taken[a], got[a]) /\ Follow(buffer[a], Out(a)) =>
                 Follow(taken'[a], got'[a])
          /\ taken'[a] # <<>> => endEmitted'[a]
        <3>1. CASE ended[a]
            <4>1. taken'[a] = buffer[a] /\ got'[a] = got[a]
                BY <1>0, <2>1, <2>5, <3>1
            <4>2. endEmitted'[a]
                BY <1>0, <2>1, <2>5, <3>1 DEF EmitEnd
            <4>. QED
                BY <1>2, <2>5, <4>1, <4>2 DEF Out
        <3>2. CASE ~ended[a]
            <4>1. taken'[a] = <<>> /\ got'[a] = Last(buffer[a])
                BY <1>0, <2>1, <2>5, <3>2
            <4>. QED
                BY <4>1 DEF Out, Follow
        <3>. QED
            BY <3>1, <3>2
    <2>4. Has(ticks'[a], {"end"}) => Has(ticks[a], {"end"})
        BY <2>2 DEF NoNewEnd
    <2>. HIDE DEF n
    <2>. QED
        BY <1>0, <2>1, <2>2, <2>3, <2>4, <2>6, CalmStep
<1>. QED
    BY <1>1, <1>2

(* read() returns: the consumer gets what was out of the buffer already.    *)
LEMMA TakeReturnKeeps ==
    ASSUME TypeOK, NetInv, NEW a \in Ends, TakeReturn(a)
    PROVE  NetInv'
<1>0. /\ Peer(a) \in Ends /\ Peer(a) # a /\ buffer[a] \in Seq(Nat)
      /\ got \in [Ends -> Nat] /\ taken \in [Ends -> Seq(Nat)]
    BY PeerFacts DEF TypeOK, ReadTypes
<1>1. /\ taken[a] # <<>> /\ taken'[a] = <<>> /\ got'[a] = Last(taken[a])
      /\ taken'[Peer(a)] = taken[Peer(a)] /\ got'[Peer(a)] = got[Peer(a)]
    BY <1>0 DEF TakeReturn, Returned
<1>2. UNCHANGED <<netVars, buffer, ended, endEmitted, writeVars, ticks>>
    BY DEF TakeReturn
<1>3. Out(a)' = Out(a) /\ Follow(taken'[a], got'[a])
    BY <1>1 DEF Out, Follow
<1>4. \A e \in Ends : Calm(e) /\ NoNewEnd(ticks[e], ticks'[e])
    BY <1>2, KeepSelf, AllSame, CalmKept DEF netVars, NetInv, Direction
<1>. DEFINE n == 0
<1>5. /\ n \in 0..Len(buffer[a])
      /\ SubSeq(buffer[a], n + 1, Len(buffer[a])) = buffer[a]
    BY <1>0
<1>6. Has(ticks'[a], {"end"}) => Has(ticks[a], {"end"})
    BY <1>2
<1>. QED
    BY <1>0, <1>1, <1>2, <1>3, <1>4, <1>5, <1>6, CalmStep DEF netVars

(* A tick that is not the callback of a write.                              *)
LEMMA RestKeeps ==
    ASSUME TypeOK, NEW a \in Ends, ticks[a] # <<>>, Head(ticks[a]) \notin AnswerKinds
    PROVE  /\ Rest(a) \in Seq(TickKinds)
           /\ SameAnswers(ticks[a], Rest(a)) /\ NoNewEnd(ticks[a], Rest(a))
<1>1. ticks[a] \in Seq(TickKinds)
    BY DEF TypeOK
<1>. QED
    BY <1>1, TickSeqs, KeepTail DEF Rest

LEMMA QuietLater ==
    ASSUME TypeOK, NetInv, NEW a \in Ends, NEW rest \in Seq(TickKinds),
           NEW more \in Seq(TickKinds), Later(a, rest, more), Plain(more),
           SameAnswers(ticks[a], rest), NoNewEnd(ticks[a], rest),
           UNCHANGED <<netVars, writeVars>>,
           UNCHANGED <<buffer, taken, got, ended, endEmitted>>
    PROVE  NetInv'
<1>1. \A e \in Ends : SameAnswers(ticks[e], ticks'[e]) /\ NoNewEnd(ticks[e], ticks'[e])
    BY LaterKeeps DEF Plain
<1>. QED
    BY <1>1, QuietStep

LEMMA EndNowKeeps ==
    ASSUME TypeOK, NetInv, NEW a \in Ends, NEW rest \in Seq(TickKinds),
           EndNow(a, rest, <<>>),
           SameAnswers(ticks[a], rest), NoNewEnd(ticks[a], rest),
           UNCHANGED <<wire, broken, readVars, writing, inflight, queue, sent, refused>>
    PROVE  NetInv'
<1>1. \A e \in Ends : Calm(e) /\ NoNewEnd(ticks[e], ticks'[e])
    BY TickSeqs, PlainTicks, EndNowFacts
<1>2. ASSUME NEW e \in Ends PROVE Direction(e)'
    <2>1. Direction(e) /\ Peer(e) \in Ends
        BY PeerFacts DEF NetInv
    <2>2. ReadSame(Peer(e))
        BY DEF readVars, ReadSame
    <2>. QED
        BY <1>1, <2>1, <2>2, Untouched DEF Calm
<1>. QED
    BY <1>2 DEF NetInv

LEMMA DestroyKeeps ==
    ASSUME TypeOK, NetInv, NEW a \in Ends, NEW err \in Seq(TickKinds), Plain(err),
           DestroyNow(a, err), UNCHANGED <<netVars, writeVars>>,
           UNCHANGED <<buffer, taken, got, ended, endEmitted>>
    PROVE  NetInv'
<1>. DEFINE more == IF destroyed[a] THEN <<>> ELSE err \o <<"close">>
<1>1. Later(a, ticks[a], more)
    BY DEF DestroyNow
<1>2. /\ <<"close">> \in Seq(TickKinds) /\ err \o <<"close">> \in Seq(TickKinds)
      /\ Plain(err \o <<"close">>) /\ Plain(<<>>) /\ <<>> \in Seq(TickKinds)
    BY TickSeqs, PlainTicks
<1>3. more \in Seq(TickKinds) /\ Plain(more)
    BY <1>2
<1>4. ticks[a] \in Seq(TickKinds)
    BY DEF TypeOK
<1>. HIDE DEF more
<1>. QED
    BY <1>1, <1>3, <1>4, KeepSelf, QuietLater

LEMMA TickFlowKeeps ==
    ASSUME TypeOK, NetInv, NEW a \in Ends, TickFlow(a)
    PROVE  NetInv'
<1>1. /\ Rest(a) \in Seq(TickKinds)
      /\ SameAnswers(ticks[a], Rest(a)) /\ NoNewEnd(ticks[a], Rest(a))
    BY RestKeeps DEF TickFlow, Runs, AnswerKinds
<1>2. UNCHANGED <<netVars, taken, ended, endEmitted, writeVars>>
    BY DEF TickFlow
<1>3. CASE flowing[a]
    BY <1>1, <1>2, <1>3, FlowsKeep DEF TickFlow
<1>4. CASE ~flowing[a]
    BY <1>1, <1>2, <1>4, TickSeqs, PlainTicks, QuietLater DEF TickFlow
<1>. QED
    BY <1>3, <1>4

LEMMA TickEndKeeps ==
    ASSUME TypeOK, NetInv, NEW a \in Ends, TickEnd(a)
    PROVE  NetInv'
<1>0. /\ Peer(a) \in Ends /\ buffer[a] \in Seq(Nat) /\ ticks[a] \in Seq(TickKinds)
    BY PeerFacts DEF TypeOK, ReadTypes
<1>1. /\ Rest(a) \in Seq(TickKinds)
      /\ SameAnswers(ticks[a], Rest(a)) /\ NoNewEnd(ticks[a], Rest(a))
    BY RestKeeps DEF TickEnd, Runs, AnswerKinds
<1>2. UNCHANGED <<buffer, taken, got, ended>>
    BY DEF TickEnd
<1>5. Out(a)' = Out(a) /\ taken[a] = <<>>
    BY <1>2, OutKept DEF TickEnd, Runs, Returned
<1>3. CASE endEmitted[a]
    BY <1>1, <1>2, <1>3, TickSeqs, PlainTicks, QuietLater DEF TickEnd
<1>4. CASE ~endEmitted[a]
    <2>1. ended[a] /\ buffer[a] = <<>>
        <3>1. Has(ticks[a], {"end"})
            BY <1>0, HasTail DEF TickEnd, Runs
        <3>2. Direction(Peer(a)) /\ Peer(Peer(a)) = a
            BY <1>0, PeerFacts DEF NetInv
        <3>. QED
            BY <3>1, <3>2 DEF Direction, EndInv
    <2>2. /\ \A e \in Ends : Calm(e) /\ NoNewEnd(ticks[e], ticks'[e])
          /\ wire' = wire /\ endEmitted'[Peer(a)] = endEmitted[Peer(a)]
        BY <1>1, <1>4, EmitEndFacts DEF TickEnd
    <2>. DEFINE n == 0
    <2>3. /\ n \in 0..Len(buffer[a])
          /\ SubSeq(buffer[a], n + 1, Len(buffer[a])) = buffer[a]
        BY <1>0
    <2>4. Has(ticks'[a], {"end"}) => Has(ticks[a], {"end"})
        BY <2>2 DEF NoNewEnd
    <2>. QED
        BY <1>0, <1>2, <1>5, <2>1, <2>2, <2>3, <2>4, CalmStep
<1>. QED
    BY <1>3, <1>4

LEMMA QuietUser ==
    ASSUME TypeOK, NetInv, NEW a \in Ends,
           \/ SetUp(a) \/ End(a) \/ Resume(a) \/ Destroy(a) \/ ReadFails(a)
           \/ TickEndAgain(a) \/ TickEvent(a)
    PROVE  NetInv'
<1>0. ticks[a] \in Seq(TickKinds)
    BY DEF TypeOK
<1>1. CASE SetUp(a)
    BY <1>1, KeepSelf, QuietStep DEF SetUp
<1>2. CASE End(a)
    BY <1>0, <1>2, KeepSelf, EndNowKeeps DEF End
<1>3. CASE Resume(a)
    BY <1>0, <1>3, KeepSelf, FlowsKeep DEF Resume
<1>4. CASE Destroy(a)
    BY <1>4, TickSeqs, PlainTicks, DestroyKeeps DEF Destroy, readVars
<1>5. CASE ReadFails(a)
    BY <1>5, TickSeqs, PlainTicks, DestroyKeeps DEF ReadFails
<1>6. CASE TickEndAgain(a)
    <2>1. /\ Rest(a) \in Seq(TickKinds)
          /\ SameAnswers(ticks[a], Rest(a)) /\ NoNewEnd(ticks[a], Rest(a))
        BY <1>6, RestKeeps DEF TickEndAgain, Runs, AnswerKinds
    <2>. QED
        BY <1>6, <2>1, EndNowKeeps DEF TickEndAgain
<1>7. CASE TickEvent(a)
    <2>1. /\ Rest(a) \in Seq(TickKinds)
          /\ SameAnswers(ticks[a], Rest(a)) /\ NoNewEnd(ticks[a], Rest(a))
        BY <1>7, RestKeeps DEF TickEvent, Runs, AnswerKinds
    <2>2. Later(a, Rest(a), <<>>) \/ Later(a, Rest(a), <<"close">>)
        BY <1>7 DEF TickEvent
    <2>3. /\ UNCHANGED <<netVars, writeVars>>
          /\ UNCHANGED <<buffer, taken, got, ended, endEmitted>>
        BY <1>7 DEF TickEvent, readVars
    <2>. QED
        BY <2>1, <2>2, <2>3, TickSeqs, PlainTicks, QuietLater
<1>. QED
    BY <1>1, <1>2, <1>3, <1>4, <1>5, <1>6, <1>7

LEMMA CloseKeeps == TypeOK /\ NetInv /\ Close => NetInv'
<1>. SUFFICES ASSUME TypeOK, NetInv, Close PROVE NetInv'
    OBVIOUS
<1>1. /\ UNCHANGED <<netVars, writeVars>>
      /\ UNCHANGED <<buffer, taken, got, ended, endEmitted>>
    BY DEF Close, readVars
<1>2. CASE tracked
    BY <1>1, <1>2, TickSeqs, PlainTicks, DestroyKeeps DEF Close, Ends
<1>3. CASE ~tracked
    BY <1>1, <1>3, KeepSelf, QuietStep DEF Close
<1>. QED
    BY <1>2, <1>3

-----------------------------------------------------------------------------
(* The steps that move units.                                               *)

(* The direction in which the actor of a write reads.                       *)
LEMMA OtherWay ==
    ASSUME TypeOK, NetInv, NEW a \in Ends, WriteSame(Peer(a)), EndSame(Peer(a)),
           ReadSame(a), broken' = broken, NEW rest \in Seq(TickKinds),
           NEW more \in Seq(TickKinds), Later(a, rest, more),
           NoNewEnd(ticks[a], rest), ~Has(more, {"end"})
    PROVE  /\ Direction(Peer(a))'
           /\ ticks'[a] = rest \o more /\ ticks'[Peer(a)] = ticks[Peer(a)]
<1>1. /\ Peer(a) \in Ends /\ Peer(a) # a /\ Peer(Peer(a)) = a
      /\ Direction(Peer(a)) /\ ShutInv(Peer(a))
    BY PeerFacts DEF NetInv, Direction
<1>2. ticks'[a] = rest \o more /\ ticks'[Peer(a)] = ticks[Peer(a)]
    BY <1>1, LaterType DEF TypeOK
<1>3. NoNewEnd(ticks[a], ticks'[a])
    BY <1>2, HasCat DEF NoNewEnd
<1>4. Calm(Peer(a))
    BY <1>1, <1>2, KeepSelf, CalmKept
<1>. QED
    BY <1>1, <1>2, <1>3, <1>4, Untouched DEF Calm

(* What the lock of a implies, when a tick of its callback is due.          *)
LEMMA Locked ==
    ASSUME TypeOK, NetInv, NEW a \in Ends, writing[a]
    PROVE  ~fin[Peer(a)] /\ ~ended[Peer(a)]
BY DEF NetInv, Direction, ShutInv, EndInv

(* Refusing a write that finds no connection, or letting it through.        *)
LEMMA RefusalFacts ==
    ASSUME TypeOK, NEW a \in Ends, NEW rest \in Seq(TickKinds),
           ~Has(rest, AnswerKinds)
    PROVE  /\ Refusal(a) \in Seq(TickKinds) /\ ~Has(Refusal(a), {"end"})
           /\ One(rest \o Refusal(a))
           /\ up[a] => ~Has(rest \o Refusal(a), AnswerKinds)
           /\ ~up[a] => /\ Has(rest \o Refusal(a), AnswerKinds)
                        /\ Has(rest \o Refusal(a), {"writeFailed"})
<1>1. Refusal(a) \in Seq(TickKinds)
    BY TickSeqs DEF Refusal
<1>2. ~Has(Refusal(a), {"end"}) /\ One(Refusal(a))
      /\ (up[a] => ~Has(Refusal(a), AnswerKinds))
      /\ (~up[a] => Has(Refusal(a), AnswerKinds) /\ Has(Refusal(a), {"writeFailed"}))
    BY HasSingle DEF Refusal, One, AnswerKinds
<1>. QED
    BY <1>1, <1>2, HasCat, OneCat

(* Each write is of one unit, so that GIO takes it whole.                   *)
Whole == WriteSizes \subseteq {1}

LEMMA Numbers ==
    ASSUME TypeOK, NEW a \in Ends
    PROVE  /\ Out(Peer(a)) \in Nat /\ sent[a] \in Nat
           /\ Len(buffer[Peer(a)]) \in Nat /\ Len(wire[Peer(a)]) \in Nat
           /\ Len(inflight[a]) \in Nat /\ Len(queue[a]) \in Nat
<1>1. /\ buffer[Peer(a)] \in Seq(Nat) /\ wire[Peer(a)] \in Seq(Nat)
      /\ inflight[a] \in Seq(Nat) /\ queue[a] \in Seq(Seq(Nat))
      /\ Out(Peer(a)) \in Nat /\ sent[a] \in Nat
    BY PeerFacts, OutType DEF TypeOK, ReadTypes, WriteTypes
<1>2. /\ \A s \in Seq(Nat) : Len(s) \in Nat
      /\ \A s \in Seq(Seq(Nat)) : Len(s) \in Nat
    OBVIOUS
<1>. QED
    BY <1>1, <1>2, Zenon

LEMMA WriteKeeps ==
    ASSUME Whole, TypeOK, NetInv, NEW a \in Ends, NEW size \in WriteSizes,
           Write(a, size)
    PROVE  NetInv'
<1>. DEFINE p == Peer(a)
            u == [i \in 1..size |-> sent[a] + i]
<1>00. p = Peer(a) /\ Peer(p) = a
    BY PeerFacts DEF p
<1>0. /\ p \in Ends /\ p # a /\ sent \in [Ends -> Nat]
      /\ queue \in [Ends -> Seq(Seq(Nat))] /\ inflight \in [Ends -> Seq(Nat)]
      /\ writing \in [Ends -> BOOLEAN] /\ ticks[a] \in Seq(TickKinds)
      /\ Out(p) \in Nat /\ buffer[p] \in Seq(Nat) /\ wire[p] \in Seq(Nat)
    BY PeerFacts, OutType DEF TypeOK, WriteTypes, ReadTypes, p
<1>1. u \in Seq(Nat) /\ Len(u) = 1 /\ u[1] = sent[a] + 1 /\ u # <<>>
    <2>1. size = 1 /\ sent[a] \in Nat
        BY <1>0 DEF Whole
    <2>2. \A k \in Nat : LET v == [i \in 1..1 |-> k + i]
                         IN  /\ v \in Seq(Nat) /\ Len(v) = 1 /\ v[1] = k + 1
                             /\ v # <<>>
        OBVIOUS
    <2>. QED
        BY <2>1, <2>2
<1>2. /\ sent'[a] = sent[a] + 1 /\ sent'[p] = sent[p]
      /\ UNCHANGED <<netVars, readVars, writableEnded, endWaits, refused>>
      /\ ~writableEnded[a]
    <2>1. size = 1
        BY DEF Whole
    <2>. QED
        BY <1>0, <2>1 DEF Write
<1>3. /\ Direction(a) /\ LockInv(a) /\ ~fin[p] /\ ~ended[p]
    BY <1>2 DEF NetInv, Direction, ShutInv, EndInv, p
<1>. HIDE DEF u
<1>4. CASE writing[a]
    <2>1. /\ queue' = [queue EXCEPT ![a] = Append(queue[a], u)]
          /\ UNCHANGED <<writing, inflight, ticks>>
        BY <1>4 DEF Write, u
    <2>2. Direction(p)'
        <3>1. \A e \in Ends : SameAnswers(ticks[e], ticks'[e])
                              /\ NoNewEnd(ticks[e], ticks'[e])
            BY <2>1, KeepSelf
        <3>2. WriteSame(p) /\ EndSame(p) /\ ReadSame(Peer(p)) /\ broken' = broken
            BY <1>0, <1>2, <2>1 DEF WriteSame, EndSame, ReadSame, netVars, readVars
        <3>3. Calm(p)
            BY <1>0, <3>1, <3>2, CalmKept DEF NetInv, Direction
        <3>. QED
            BY <1>0, <3>1, <3>2, <3>3, Untouched, PeerFacts DEF Calm, NetInv
    <2>3. /\ queue'[a] = Append(queue[a], u) /\ inflight'[a] = inflight[a]
          /\ writing'[a] /\ ticks'[a] = ticks[a] /\ ticks'[p] = ticks[p]
        BY <1>0, <1>4, <2>1
    <2>4. LockInv(a)'
        BY <1>3, <2>3 DEF LockInv, Has, One
    <2>5. ShutInv(a)' /\ EndInv(p)' /\ LastInv(a)'
        <3>1. UNCHANGED <<fin, endWaits, writableEnded, ended, endEmitted>>
              /\ UNCHANGED <<wire, buffer, taken, writing, ticks>>
            BY <1>2, <2>1 DEF netVars, readVars
        <3>2. ShutInv(a)'
            BY <1>3, <3>1 DEF Direction, ShutInv
        <3>3. EndInv(p)'
            BY <1>3, <3>1 DEF Direction, EndInv, Has
        <3>4. LastInv(a)'
            BY <1>3, <3>1 DEF LastInv
        <3>. QED
            BY <3>2, <3>3, <3>4
    <2>6. ChainInv(a)'
        <3>1. /\ Len(queue'[a]) = Len(queue[a]) + 1 /\ Len(queue[a]) \in Nat
              /\ \A i \in 1..Len(queue[a]) : queue'[a][i] = queue[a][i]
              /\ queue'[a][Len(queue[a]) + 1] = u
            <4>1. /\ queue[a] \in Seq(Seq(Nat)) /\ u \in Seq(Nat)
                  /\ queue'[a] = Append(queue[a], u)
                BY <1>0, <1>1, <2>3
            <4>2. Len(queue[a]) \in Nat
                BY <4>1
            <4>. QED
                BY <4>1, <4>2, AppendProperties
        <3>2. Clean(a)' <=> Clean(a)
            BY <1>2, <2>3, KeepSelf, CleanKept DEF netVars
        <3>3. OnTheWay(a) => OnTheWay(a)'
            <4>. SUFFICES ASSUME OnTheWay(a) PROVE OnTheWay(a)'
                OBVIOUS
            <4>. DEFINE f == Out(p) + Len(buffer[p]) + Len(wire[p]) + Len(inflight[a])
            <4>1. /\ UNCHANGED <<taken, got, buffer, wire>>
                  /\ inflight'[a] = inflight[a]
                BY <1>2, <2>3 DEF netVars, readVars
            <4>5. Out(p)' = Out(p)
                BY <4>1 DEF Out
            <4>0. f \in Nat
                <5>1. /\ Out(p) \in Nat /\ Len(buffer[p]) \in Nat
                      /\ Len(wire[p]) \in Nat /\ Len(inflight[a]) \in Nat
                    BY Numbers DEF p
                <5>2. \A i, j, k, m \in Nat : i + j + k + m \in Nat
                    OBVIOUS
                <5>. QED
                    BY <5>1, <5>2, Zenon
            <4>2. /\ sent[a] = f + Len(queue[a])
                  /\ \A i \in 1..Len(queue[a]) : queue[a][i][1] = f + i
                BY DEF OnTheWay
            <4>. HIDE DEF f
            <4>3. ASSUME NEW i \in 1..Len(queue'[a]) PROVE queue'[a][i][1] = f + i
                <5>1. CASE i \in 1..Len(queue[a])
                    BY <3>1, <4>2, <5>1
                <5>2. CASE i = Len(queue[a]) + 1
                    BY <1>1, <3>1, <4>0, <4>2, <5>2
                <5>. QED
                    BY <3>1, <5>1, <5>2
            <4>4. sent'[a] = f + Len(queue'[a])
                BY <1>2, <3>1, <4>0, <4>2
            <4>. QED
                BY <4>1, <4>3, <4>4, <4>5 DEF OnTheWay, p, f, Follow
        <3>. QED
            BY <1>1, <1>3, <2>3, <3>1, <3>2, <3>3 DEF Direction, ChainInv
    <2>. QED
        BY <2>2, <2>4, <2>5, <2>6, Both DEF Direction, p
<1>5. CASE ~writing[a]
    <2>1. /\ writing' = [writing EXCEPT ![a] = TRUE]
          /\ inflight' = [inflight EXCEPT ![a] = IF up[a] THEN u ELSE <<>>]
          /\ Later(a, ticks[a], Refusal(a))
          /\ queue' = queue
        BY <1>5 DEF Write, StartWrite, u
    <2>2. inflight[a] = <<>> /\ queue[a] = <<>> /\ ~Has(ticks[a], AnswerKinds)
        BY <1>3, <1>5 DEF LockInv
    <2>3. /\ Refusal(a) \in Seq(TickKinds) /\ ~Has(Refusal(a), {"end"})
          /\ One(ticks[a] \o Refusal(a))
          /\ up[a] => ~Has(ticks[a] \o Refusal(a), AnswerKinds)
          /\ ~up[a] => /\ Has(ticks[a] \o Refusal(a), AnswerKinds)
                       /\ Has(ticks[a] \o Refusal(a), {"writeFailed"})
        BY <1>0, <2>2, RefusalFacts
    <2>4. /\ Direction(p)' /\ ticks'[a] = ticks[a] \o Refusal(a)
          /\ ticks'[p] = ticks[p]
        <3>1. WriteSame(p) /\ EndSame(p) /\ ReadSame(a) /\ broken' = broken
            BY <1>0, <1>2, <2>1 DEF WriteSame, EndSame, ReadSame, netVars, readVars
        <3>2. NoNewEnd(ticks[a], ticks[a]) /\ ticks[a] \in Seq(TickKinds)
            BY <1>0, KeepSelf
        <3>3. Refusal(a) \in Seq(TickKinds) /\ ~Has(Refusal(a), {"end"})
            BY <2>3
        <3>4. Later(a, ticks[a], Refusal(a))
            BY <2>1
        <3>. QED
            BY <3>1, <3>2, <3>3, <3>4, OtherWay
    <2>5. /\ writing'[a] /\ queue'[a] = <<>>
          /\ inflight'[a] = IF up[a] THEN u ELSE <<>>
        BY <1>0, <2>1, <2>2
    <2>6. LockInv(a)'
        BY <2>3, <2>4, <2>5 DEF LockInv, Has, One
    <2>7. ShutInv(a)' /\ EndInv(p)' /\ LastInv(a)'
        <3>1. UNCHANGED <<fin, endWaits, writableEnded, ended, endEmitted>>
              /\ UNCHANGED <<wire, buffer, taken>>
            BY <1>2 DEF netVars, readVars
        <3>2. ShutInv(a)'
            BY <1>3, <3>1 DEF Direction, ShutInv
        <3>3. EndInv(p)'
            BY <1>3, <2>4, <3>1 DEF Direction, EndInv, Has
        <3>4. LastInv(a)'
            BY <1>3, <3>1 DEF LastInv
        <3>. QED
            BY <3>2, <3>3, <3>4
    <2>8. ChainInv(a)'
        <3>1. Len(inflight'[a]) <= 1
            <4>1. CASE up[a]
                <5>1. inflight'[a] = u
                    BY <2>5, <4>1
                <5>2. Len(inflight'[a]) = 1
                    BY <1>1, <5>1
                <5>. QED
                    BY <5>2
            <4>2. CASE ~up[a]
                BY <2>5, <4>2
            <4>. QED
                BY <4>1, <4>2
        <3>2. ASSUME Clean(a)' PROVE OnTheWay(a)'
            <4>1. up[a] /\ inflight'[a] = u
                BY <2>3, <2>4, <2>5, <3>2 DEF Clean, Has
            <4>2. ~Has(ticks[a], {"writeFailed"})
                BY <2>2 DEF Has, AnswerKinds
            <4>3. Clean(a)
                BY <1>2, <3>2, <4>2 DEF Clean, netVars
            <4>4. OnTheWay(a)
                BY <1>3, <4>3 DEF Direction, ChainInv
            <4>5. sent[a] = Out(p) + Len(buffer[p]) + Len(wire[p])
                <5>1. sent[a] = Out(p) + Len(buffer[p]) + Len(wire[p]) + Len(inflight[a])
                                + Len(queue[a])
                    BY <4>4 DEF OnTheWay
                <5>2. Len(inflight[a]) = 0 /\ Len(queue[a]) = 0
                    BY <2>2
                <5>. QED
                    BY <5>1, <5>2, Numbers DEF p
            <4>6. Follow(inflight'[a], sent[a]) /\ Len(inflight'[a]) = 1
                <5>1. Follow(u, sent[a])
                    BY <1>1 DEF Follow
                <5>. QED
                    BY <1>1, <4>1, <5>1
            <4>7. UNCHANGED <<taken, got, buffer, wire>> /\ Out(p)' = Out(p)
                BY <1>2, OutKept DEF netVars, readVars
            <4>. DEFINE w == Out(p) + Len(buffer[p]) + Len(wire[p])
            <4>8. /\ w = w' /\ w \in Nat /\ sent'[a] = w + 1
                  /\ Follow(inflight'[a], w)
                BY <1>0, <1>2, <4>5, <4>6, <4>7
            <4>9. /\ Follow(buffer'[p], Out(p)') /\ Follow(taken'[p], got'[p])
                  /\ Follow(wire'[p], Out(p)' + Len(buffer'[p]))
                BY <4>4, <4>7 DEF OnTheWay, Follow
            <4>10. Len(queue'[a]) = 0
                BY <2>5
            <4>11. /\ Out(p)' + Len(buffer'[p]) + Len(wire'[p]) = w
                   /\ w + Len(inflight'[a]) + Len(queue'[a]) = sent'[a]
                BY <4>6, <4>7, <4>8, <4>10
            <4>. HIDE DEF w
            <4>. QED
                BY <4>6, <4>8, <4>9, <4>10, <4>11 DEF OnTheWay, Follow
        <3>. QED
            BY <2>5, <3>1, <3>2 DEF ChainInv
    <2>. QED
        BY <2>4, <2>6, <2>7, <2>8, Both DEF Direction, p
<1>. QED
    BY <1>4, <1>5

(* A write at GIO is called back, its lock still held.                      *)
LEMMA AnswerDue ==
    ASSUME TypeOK, NetInv, NEW a \in Ends, NEW k \in AnswerKinds,
           inflight[a] # <<>>, inflight' = [inflight EXCEPT ![a] = <<>>],
           Later(a, ticks[a], <<k>>), broken' = broken,
           UNCHANGED <<writing, queue, sent, refused>>,
           UNCHANGED <<fin, writableEnded, endWaits>>,
           UNCHANGED <<buffer, taken, got, ended, endEmitted>>,
           wire'[a] = wire[a]
    PROVE  /\ Direction(Peer(a))' /\ LockInv(a)' /\ ShutInv(a)' /\ EndInv(Peer(a))'
           /\ LastInv(a)'
           /\ inflight'[a] = <<>> /\ Len(inflight[a]) = 1
           /\ Clean(a)' => k = "written" /\ Clean(a)
<1>0. /\ Peer(a) \in Ends /\ Peer(a) # a
      /\ inflight \in [Ends -> Seq(Nat)] /\ ticks[a] \in Seq(TickKinds)
      /\ Direction(a)
    BY PeerFacts DEF TypeOK, WriteTypes, NetInv
<1>1. /\ <<k>> \in Seq(TickKinds) /\ ~Has(<<k>>, {"end"})
      /\ Has(<<k>>, AnswerKinds) /\ One(<<k>>)
      /\ k = "writeFailed" => Has(<<k>>, {"writeFailed"})
    <2>1. k \in TickKinds /\ k \notin {"end"}
        BY DEF AnswerKinds, TickKinds
    <2>2. <<k>> \in Seq(TickKinds)
        BY <2>1, TickSeqs
    <2>. QED
        BY <2>1, <2>2, HasSingle DEF One
<1>2. writing[a] /\ ~Has(ticks[a], AnswerKinds)
    BY <1>0 DEF Direction, LockInv
<1>3. /\ Direction(Peer(a))'
      /\ ticks'[a] = ticks[a] \o <<k>> /\ ticks'[Peer(a)] = ticks[Peer(a)]
    <2>1. /\ WriteSame(Peer(a)) /\ EndSame(Peer(a)) /\ ReadSame(a)
        BY <1>0 DEF WriteSame, EndSame, ReadSame
    <2>2. NoNewEnd(ticks[a], ticks[a])
        BY KeepSelf
    <2>. QED
        BY <1>0, <1>1, <2>1, <2>2, OtherWay
<1>4. /\ Has(ticks'[a], AnswerKinds) /\ One(ticks'[a])
      /\ Has(ticks'[a], {"writeFailed"}) <=>
            Has(ticks[a], {"writeFailed"}) \/ Has(<<k>>, {"writeFailed"})
    <2>. DEFINE s == ticks[a]  t == <<k>>
    <2>1. s \in Seq(TickKinds) /\ t \in Seq(TickKinds)
        BY <1>0, <1>1
    <2>2. One(t) /\ Has(t, AnswerKinds) /\ ~Has(s, AnswerKinds)
        BY <1>1, <1>2
    <2>. HIDE DEF s, t
    <2>3. One(s \o t) /\ Has(s \o t, AnswerKinds)
        BY <2>1, <2>2, HasCat, OneCat
    <2>4. Has(s \o t, {"writeFailed"}) <=>
             Has(s, {"writeFailed"}) \/ Has(t, {"writeFailed"})
        BY <2>1, HasCat
    <2>. QED
        BY <1>3, <2>3, <2>4 DEF s, t
<1>5. inflight'[a] = <<>> /\ writing'[a] = writing[a]
    BY <1>0
<1>6. LockInv(a)'
    BY <1>2, <1>4, <1>5 DEF LockInv, Has, One
<1>7. ~fin[Peer(a)] /\ ~ended[Peer(a)] /\ ~endEmitted[Peer(a)]
    BY <1>0, <1>2 DEF Direction, ShutInv, EndInv
<1>8. ShutInv(a)'
    BY <1>0 DEF Direction, ShutInv
<1>9. EndInv(Peer(a))'
    BY <1>0, <1>3, <1>7 DEF Direction, EndInv, Has
<1>10. LastInv(a)'
    BY <1>7 DEF LastInv
<1>11. Len(inflight[a]) = 1
    <2>1. Len(inflight[a]) <= 1 /\ inflight[a] \in Seq(Nat) /\ inflight[a] # <<>>
        BY <1>0 DEF Direction, ChainInv
    <2>. QED
        BY <2>1
<1>12. ASSUME Clean(a)' PROVE k = "written" /\ Clean(a)
    <2>1. ~Has(ticks'[a], {"writeFailed"}) /\ ~broken /\ ~refused[a]
        BY <1>12 DEF Clean, Has
    <2>2. k # "writeFailed" /\ ~Has(ticks[a], {"writeFailed"})
        BY <1>1, <1>4, <2>1
    <2>. QED
        BY <2>1, <2>2 DEF Clean, AnswerKinds
<1>. QED
    BY <1>3, <1>5, <1>6, <1>8, <1>9, <1>10, <1>11, <1>12

LEMMA WriteFailsKeeps ==
    ASSUME TypeOK, NetInv, NEW a \in Ends, WriteFails(a)
    PROVE  NetInv'
<1>1. /\ inflight[a] # <<>> /\ inflight' = [inflight EXCEPT ![a] = <<>>]
      /\ Later(a, ticks[a], <<"writeFailed">>) /\ broken' = broken
      /\ UNCHANGED <<writing, queue, sent, refused>>
      /\ UNCHANGED <<fin, writableEnded, endWaits>>
      /\ UNCHANGED <<buffer, taken, got, ended, endEmitted>>
      /\ wire' = wire
    BY DEF WriteFails, netVars, readVars
<1>2. "writeFailed" \in AnswerKinds
    BY DEF AnswerKinds
<1>3. /\ Direction(Peer(a))' /\ LockInv(a)' /\ ShutInv(a)' /\ EndInv(Peer(a))'
      /\ LastInv(a)' /\ inflight'[a] = <<>> /\ ~Clean(a)'
    BY <1>1, <1>2, AnswerDue
<1>4. ChainInv(a)'
    <2>1. \A i \in 1..Len(queue'[a]) : Len(queue'[a][i]) = 1
        BY <1>1 DEF NetInv, Direction, ChainInv
    <2>2. Len(inflight'[a]) <= 1
        BY <1>3
    <2>. QED
        BY <1>3, <2>1, <2>2 DEF ChainInv
<1>. QED
    BY <1>3, <1>4, Both DEF Direction

LEMMA FollowCat ==
    ASSUME NEW s \in Seq(Nat), NEW t \in Seq(Nat), NEW k \in Nat,
           Follow(s, k), Follow(t, k + Len(s))
    PROVE  Follow(s \o t, k)
<1>1. /\ Len(s \o t) = Len(s) + Len(t) /\ Len(s) \in Nat /\ Len(t) \in Nat
      /\ \A i \in 1..Len(s \o t) : \/ i \in 1..Len(s) /\ (s \o t)[i] = s[i]
                                   \/ /\ i - Len(s) \in 1..Len(t)
                                      /\ (s \o t)[i] = t[i - Len(s)]
    OBVIOUS
<1>2. ASSUME NEW i \in 1..Len(s \o t) PROVE (s \o t)[i] = k + i
    <2>1. CASE i \in 1..Len(s) /\ (s \o t)[i] = s[i]
        BY <2>1 DEF Follow
    <2>2. CASE i - Len(s) \in 1..Len(t) /\ (s \o t)[i] = t[i - Len(s)]
        <3>1. t[i - Len(s)] = k + Len(s) + (i - Len(s))
            BY <2>2 DEF Follow
        <3>. QED
            BY <1>1, <2>2, <3>1
    <2>. QED
        BY <1>1, <2>1, <2>2
<1>. QED
    BY <1>2 DEF Follow

LEMMA WrittenKeeps ==
    ASSUME TypeOK, NetInv, NEW a \in Ends, Written(a)
    PROVE  NetInv'
<1>. DEFINE p == Peer(a)
<1>0. /\ p \in Ends /\ p # a /\ wire \in [Ends -> Seq(Nat)]
      /\ inflight[a] \in Seq(Nat) /\ Room \in Nat
    BY PeerFacts, BoundAssumption DEF TypeOK, ReadTypes, WriteTypes
<1>1. /\ inflight[a] # <<>> /\ inflight' = [inflight EXCEPT ![a] = <<>>]
      /\ Later(a, ticks[a], <<"written">>) /\ broken' = broken
      /\ UNCHANGED <<writing, queue, sent, refused>>
      /\ UNCHANGED <<fin, writableEnded, endWaits>>
      /\ UNCHANGED <<buffer, taken, got, ended, endEmitted>>
    BY DEF Written, readVars
<1>2. "written" \in AnswerKinds
    BY DEF AnswerKinds
<1>3. Len(inflight[a]) = 1
    <2>1. Len(inflight[a]) <= 1 /\ inflight[a] \in Seq(Nat) /\ inflight[a] # <<>>
        BY <1>0, <1>1 DEF NetInv, Direction, ChainInv
    <2>2. Len(inflight[a]) \in Nat /\ Len(inflight[a]) # 0
        BY <2>1
    <2>3. \A m \in Nat : m <= 1 /\ m # 0 => m = 1
        OBVIOUS
    <2>. QED
        BY <2>1, <2>2, <2>3, Zenon
<1>4. wire' = [wire EXCEPT ![p] = wire[p] \o inflight[a]]
    <2>1. Room - Len(wire[p]) > 0
        BY DEF Written
    <2>2. Len(wire[p]) \in Nat
        BY <1>0
    <2>3. 1 <= Room - Len(wire[p])
        BY <1>0, <2>1, <2>2
    <2>4. wire' = [wire EXCEPT ![p] = wire[p] \o SubSeq(inflight[a], 1, 1)]
        BY <1>3, <2>3 DEF Written
    <2>5. SubSeq(inflight[a], 1, 1) = inflight[a]
        BY <1>0, <1>3
    <2>. QED
        BY <2>4, <2>5
<1>5. wire'[p] = wire[p] \o inflight[a] /\ wire'[a] = wire[a]
    BY <1>0, <1>4
<1>6. /\ Direction(p)' /\ LockInv(a)' /\ ShutInv(a)' /\ EndInv(p)'
      /\ LastInv(a)' /\ inflight'[a] = <<>>
      /\ Clean(a)' => Clean(a)
    BY <1>1, <1>2, <1>5, AnswerDue
<1>7. ChainInv(a)'
    <2>1. \A i \in 1..Len(queue'[a]) : Len(queue'[a][i]) = 1
        BY <1>1 DEF NetInv, Direction, ChainInv
    <2>2. Len(inflight'[a]) = 0
        BY <1>6
    <2>3. ASSUME Clean(a)' PROVE OnTheWay(a)'
        <3>. DEFINE b == Out(p) + Len(buffer[p])
        <3>1. OnTheWay(a)
            BY <1>6, <2>3 DEF NetInv, Direction, ChainInv
        <3>2. /\ b \in Nat /\ Len(wire[p]) \in Nat
            BY Numbers
        <3>3. Follow(wire[p], b) /\ Follow(inflight[a], b + Len(wire[p]))
            BY <3>1 DEF OnTheWay
        <3>4. Follow(buffer[p], Out(p))
              /\ (\A i \in 1..Len(queue[a]) :
                     queue[a][i][1] = b + Len(wire[p]) + Len(inflight[a]) + i)
              /\ sent[a] = b + Len(wire[p]) + Len(inflight[a]) + Len(queue[a])
            BY <3>1 DEF OnTheWay
        <3>. HIDE DEF b
        <3>5. Follow(wire'[p], b)
            BY <1>0, <1>5, <3>2, <3>3, FollowCat
        <3>6. Len(wire'[p]) = Len(wire[p]) + Len(inflight[a])
            BY <1>0, <1>5
        <3>7. b + Len(wire'[p]) + Len(inflight'[a])
                 = b + Len(wire[p]) + Len(inflight[a])
            BY <1>3, <2>2, <3>2, <3>6
        <3>8. Follow(inflight'[a], b + Len(wire'[p]))
            BY <2>2 DEF Follow
        <3>10. Out(p)' = Out(p) /\ Follow(taken'[p], got'[p])
            BY <1>1, <3>1, OutKept DEF OnTheWay, Follow
        <3>9. /\ Follow(buffer'[p], Out(p)')
              /\ b = Out(p)' + Len(buffer'[p])
              /\ \A i \in 1..Len(queue'[a]) :
                     queue'[a][i][1] = b + Len(wire'[p]) + Len(inflight'[a]) + i
              /\ sent'[a] = b + Len(wire'[p]) + Len(inflight'[a]) + Len(queue'[a])
            BY <1>1, <3>4, <3>7, <3>10 DEF b, Follow
        <3>. QED
            BY <3>5, <3>8, <3>9, <3>10 DEF OnTheWay, Follow
    <2>. QED
        BY <2>1, <2>2, <2>3 DEF ChainInv
<1>. QED
    BY <1>6, <1>7, Both DEF Direction

LEMMA TickWrittenKeeps ==
    ASSUME TypeOK, NetInv, NEW a \in Ends, TickWritten(a)
    PROVE  NetInv'
<1>. DEFINE p == Peer(a)
<1>0. /\ p \in Ends /\ p # a /\ ticks[a] \in Seq(TickKinds)
      /\ queue \in [Ends -> Seq(Seq(Nat))] /\ inflight \in [Ends -> Seq(Nat)]
      /\ writing \in [Ends -> BOOLEAN] /\ refused \in [Ends -> BOOLEAN]
      /\ endWaits \in [Ends -> BOOLEAN] /\ fin \in [Ends -> BOOLEAN]
      /\ Direction(a)
    BY PeerFacts DEF TypeOK, WriteTypes, FlagTypes, NetInv
<1>1. /\ ticks[a] # <<>> /\ Head(ticks[a]) \in AnswerKinds
      /\ UNCHANGED <<wire, broken, readVars, writableEnded, sent>>
      /\ refused'[a] <=> (refused[a] \/ Head(ticks[a]) = "writeFailed")
      /\ refused'[p] = refused[p]
    <2>1. refused' = [refused EXCEPT ![a] = @ \/ Head(ticks[a]) = "writeFailed"]
        BY DEF TickWritten
    <2>2. refused'[p] = refused[p]
        BY <1>0, <2>1
    <2>3. refused'[a] <=> (refused[a] \/ Head(ticks[a]) = "writeFailed")
        BY <1>0, <2>1
    <2>. QED
        BY <2>2, <2>3 DEF TickWritten, Runs, AnswerKinds
<1>2. /\ Has(ticks[a], AnswerKinds) /\ ~Has(Rest(a), AnswerKinds)
      /\ Rest(a) \in Seq(TickKinds) /\ NoNewEnd(ticks[a], Rest(a))
    <2>1. One(ticks[a])
        BY <1>0 DEF Direction, LockInv
    <2>. QED
        BY <1>0, <1>1, <2>1, TickSeqs, HasTail, OneTail DEF Rest, NoNewEnd
<1>3. writing[a] /\ inflight[a] = <<>> /\ ~fin[p] /\ ~ended[p] /\ ~endEmitted[p]
    BY <1>0, <1>2 DEF Direction, LockInv, ShutInv, EndInv
(* Until the write is refused, the tick is a success.                       *)
<1>4. ASSUME Clean(a)' PROVE Clean(a) /\ OnTheWay(a)
    <2>1. ~broken /\ ~refused[a] /\ Head(ticks[a]) # "writeFailed"
        BY <1>1, <1>4 DEF Clean
    <2>2. ~Has(Rest(a), {"writeFailed"})
        BY <1>2 DEF Has, AnswerKinds
    <2>3. ~Has(ticks[a], {"writeFailed"})
        BY <1>0, <1>1, <2>1, <2>2, HasTail DEF Rest
    <2>. QED
        BY <1>0, <2>1, <2>3 DEF Clean, Direction, ChainInv
<1>5. CASE queue[a] # <<>>
    <2>1. /\ queue' = [queue EXCEPT ![a] = Tail(queue[a])]
          /\ inflight' = [inflight EXCEPT ![a] = IF up[a] THEN Head(queue[a]) ELSE <<>>]
          /\ Later(a, Rest(a), Refusal(a))
          /\ UNCHANGED <<writing, endWaits, fin>>
        BY <1>5 DEF TickWritten, StartWrite
    <2>2. /\ Refusal(a) \in Seq(TickKinds) /\ ~Has(Refusal(a), {"end"})
          /\ One(Rest(a) \o Refusal(a))
          /\ up[a] => ~Has(Rest(a) \o Refusal(a), AnswerKinds)
          /\ ~up[a] => /\ Has(Rest(a) \o Refusal(a), AnswerKinds)
                       /\ Has(Rest(a) \o Refusal(a), {"writeFailed"})
        BY <1>2, RefusalFacts
    <2>3. /\ Direction(p)' /\ ticks'[a] = Rest(a) \o Refusal(a)
          /\ ticks'[p] = ticks[p]
        <3>1. WriteSame(p) /\ EndSame(p) /\ ReadSame(a) /\ broken' = broken
            BY <1>0, <1>1, <2>1 DEF WriteSame, EndSame, ReadSame, readVars
        <3>2. Later(a, Rest(a), Refusal(a))
            BY <2>1
        <3>3. Refusal(a) \in Seq(TickKinds) /\ ~Has(Refusal(a), {"end"})
            BY <2>2
        <3>. QED
            BY <1>2, <3>1, <3>2, <3>3, OtherWay
    <2>4. /\ writing'[a] /\ queue'[a] = Tail(queue[a])
          /\ up[a] => inflight'[a] = Head(queue[a])
          /\ ~up[a] => inflight'[a] = <<>>
        BY <1>0, <1>3, <2>1
    <2>5. LockInv(a)'
        <3>1. /\ up[a] => ~Has(ticks'[a], AnswerKinds)
              /\ ~up[a] => inflight'[a] = <<>>
              /\ One(ticks'[a]) /\ writing'[a]
            BY <2>2, <2>3, <2>4
        <3>. QED
            BY <3>1 DEF LockInv, Has, One
    <2>6. ShutInv(a)' /\ EndInv(p)' /\ LastInv(a)'
        <3>1. ShutInv(a)'
            BY <1>0, <1>1, <2>1 DEF Direction, ShutInv
        <3>2. EndInv(p)'
            BY <1>0, <1>1, <2>1, <2>3 DEF Direction, EndInv, readVars, Has
        <3>3. LastInv(a)'
            BY <1>1, <1>3 DEF LastInv, readVars
        <3>. QED
            BY <3>1, <3>2, <3>3
    <2>7. /\ queue[a] \in Seq(Seq(Nat)) /\ Len(queue[a]) \in Nat
          /\ Len(queue[a]) # 0
          /\ Len(Tail(queue[a])) = Len(queue[a]) - 1
          /\ \A i \in 1..Len(Tail(queue[a])) : /\ i + 1 \in 1..Len(queue[a])
                                               /\ Tail(queue[a])[i] = queue[a][i + 1]
          /\ Head(queue[a]) = queue[a][1] /\ 1 \in 1..Len(queue[a])
        BY <1>0, <1>5
    <2>8. ChainInv(a)'
        <3>1. Len(Head(queue[a])) = 1
            BY <1>0, <2>7 DEF Direction, ChainInv
        <3>2. Len(inflight'[a]) <= 1
            <4>1. CASE up[a]
                <5>1. Len(inflight'[a]) = 1
                    BY <2>4, <3>1, <4>1
                <5>. QED
                    BY <5>1
            <4>2. CASE ~up[a]
                <5>1. Len(inflight'[a]) = 0
                    BY <2>4, <4>2
                <5>. QED
                    BY <5>1
            <4>. QED
                BY <4>1, <4>2
        <3>3. \A i \in 1..Len(queue'[a]) : Len(queue'[a][i]) = 1
            BY <1>0, <2>4, <2>7 DEF Direction, ChainInv
        <3>4. ASSUME Clean(a)' PROVE OnTheWay(a)'
            <4>. DEFINE b == Out(p) + Len(buffer[p])
                        w == b + Len(wire[p])
            <4>1. Clean(a) /\ OnTheWay(a)
                BY <1>4, <3>4
            <4>2. up[a] /\ inflight'[a] = Head(queue[a])
                BY <2>2, <2>3, <2>4, <3>4 DEF Clean, Has
            <4>3. w \in Nat
                <5>1. Out(p) \in Nat /\ Len(buffer[p]) \in Nat /\ Len(wire[p]) \in Nat
                    BY Numbers
                <5>2. \A i, j, k \in Nat : i + j + k \in Nat
                    OBVIOUS
                <5>. QED
                    BY <5>1, <5>2, Zenon
            <4>4. /\ \A i \in 1..Len(queue[a]) :
                         queue[a][i][1] = w + Len(inflight[a]) + i
                  /\ sent[a] = w + Len(inflight[a]) + Len(queue[a])
                  /\ Follow(buffer[p], Out(p)) /\ Follow(wire[p], b)
                BY <4>1 DEF OnTheWay
            <4>5. Len(inflight[a]) = 0
                BY <1>3
            <4>6. /\ UNCHANGED <<taken, got, buffer, wire, sent>>
                  /\ Out(p)' = Out(p) /\ Follow(taken'[p], got'[p])
                BY <1>1, <4>1, OutKept DEF readVars, OnTheWay, Follow
            <4>. HIDE DEF w
            <4>7. /\ \A i \in 1..Len(queue[a]) : queue[a][i][1] = w + i
                  /\ sent[a] = w + Len(queue[a])
                BY <4>3, <4>4, <4>5
            <4>8. /\ \A i \in 1..Len(queue'[a]) : queue'[a][i][1] = w + 1 + i
                  /\ sent'[a] = w + 1 + Len(queue'[a])
                <5>1. ASSUME NEW i \in 1..Len(queue'[a])
                      PROVE  queue'[a][i][1] = w + 1 + i
                    <6>1. i \in Nat /\ i + 1 \in 1..Len(queue[a])
                          /\ queue'[a][i] = queue[a][i + 1]
                        <7>1. queue'[a] = Tail(queue[a]) /\ i \in 1..Len(Tail(queue[a]))
                            BY <2>4
                        <7>. QED
                            BY <2>7, <7>1, SMTT(20)
                    <6>2. queue[a][i + 1][1] = w + (i + 1)
                        BY <4>7, <6>1
                    <6>. QED
                        BY <4>3, <6>1, <6>2
                <5>2. sent'[a] = w + 1 + Len(queue'[a])
                    <6>1. /\ sent'[a] = sent[a] /\ Len(queue[a]) \in Nat
                          /\ Len(queue'[a]) = Len(queue[a]) - 1
                        BY <2>4, <2>7, <4>6
                    <6>2. sent[a] = w + Len(queue[a])
                        BY <4>7
                    <6>3. \A x, y \in Nat : x + y = x + 1 + (y - 1)
                        OBVIOUS
                    <6>. QED
                        BY <4>3, <6>1, <6>2, <6>3
                <5>. QED
                    BY <5>1, <5>2
            <4>9. Len(inflight'[a]) = 1 /\ Follow(inflight'[a], w)
                <5>1. Head(queue[a])[1] = w + 1
                    BY <2>7, <4>7
                <5>2. Follow(Head(queue[a]), w)
                    BY <3>1, <5>1 DEF Follow
                <5>. QED
                    BY <3>1, <4>2, <5>2
            <4>10. /\ Follow(buffer'[p], Out(p)')
                   /\ b = Out(p)' + Len(buffer'[p]) /\ w = b + Len(wire'[p])
                   /\ Follow(wire'[p], b)
                BY <4>4, <4>6 DEF w, Follow
            <4>11. /\ \A i \in 1..Len(queue'[a]) :
                          queue'[a][i][1] = w + Len(inflight'[a]) + i
                   /\ sent'[a] = w + Len(inflight'[a]) + Len(queue'[a])
                BY <4>8, <4>9
            <4>. HIDE DEF b
            <4>. QED
                BY <4>6, <4>9, <4>10, <4>11 DEF OnTheWay, Follow
        <3>. QED
            BY <3>2, <3>3, <3>4 DEF ChainInv
    <2>. QED
        BY <2>3, <2>5, <2>6, <2>8, Both DEF Direction
<1>6. CASE queue[a] = <<>>
    <2>. DEFINE ends == endWaits[a] /\ Head(ticks[a]) # "writeFailed"
                more == IF ends THEN <<"finish">> ELSE <<>>
    <2>1. /\ writing' = [writing EXCEPT ![a] = FALSE]
          /\ UNCHANGED <<queue, inflight>>
          /\ Later(a, Rest(a), more)
          /\ fin' = IF ends THEN [fin EXCEPT ![p] = @ \/ up[a]] ELSE fin
          /\ endWaits' = IF ends THEN [endWaits EXCEPT ![a] = FALSE] ELSE endWaits
        BY <1>6 DEF TickWritten, DoFinal
    <2>2. more \in Seq(TickKinds) /\ Plain(more)
        BY TickSeqs, PlainTicks
    <2>. HIDE DEF more
    <2>3. /\ Direction(p)' /\ ticks'[a] = Rest(a) \o more
          /\ ticks'[p] = ticks[p]
        <3>1. WriteSame(p) /\ ReadSame(a) /\ broken' = broken
            BY <1>0, <1>1, <2>1 DEF WriteSame, ReadSame, readVars
        <3>2. EndSame(p)
            <4>1. endWaits'[p] = endWaits[p]
                BY <1>0, <2>1
            <4>2. fin'[a] = fin[a]
                BY <1>0, <2>1
            <4>3. Peer(p) = a
                BY PeerFacts
            <4>. QED
                BY <1>1, <4>1, <4>2, <4>3 DEF EndSame
        <3>3. ~Has(more, {"end"})
            BY <2>2 DEF Plain
        <3>4. Later(a, Rest(a), more) /\ more \in Seq(TickKinds)
            BY <2>1, <2>2
        <3>. QED
            BY <1>2, <3>1, <3>2, <3>3, <3>4, OtherWay
    <2>4. ~Has(ticks'[a], AnswerKinds) /\ One(ticks'[a])
        <3>1. ~Has(Rest(a) \o more, AnswerKinds)
            BY <1>2, <2>2, HasCat DEF Plain
        <3>. QED
            BY <2>3, <3>1 DEF One, Has
    <2>5. /\ ~writing'[a] /\ inflight'[a] = <<>> /\ queue'[a] = <<>>
        BY <1>0, <1>3, <1>6, <2>1
    <2>6. LockInv(a)'
        BY <2>4, <2>5 DEF LockInv, Has, One
    <2>7. ShutInv(a)'
        <3>1. endWaits'[a] => endWaits[a]
            BY <1>0, <2>1
        <3>2. fin'[p] => endWaits[a]
            BY <1>0, <1>3, <2>1
        <3>3. endWaits[a] => writableEnded'[a]
            BY <1>0, <1>1 DEF Direction, ShutInv
        <3>. QED
            BY <2>5, <3>1, <3>2, <3>3 DEF ShutInv
    <2>8. EndInv(p)' /\ LastInv(a)'
        <3>1. ~ended'[p] /\ ~endEmitted'[p] /\ taken'[p] = <<>>
            BY <1>0, <1>1, <1>3 DEF readVars, Direction, EndInv
        <3>2. ~Has(ticks'[p], {"end"})
            BY <1>0, <1>3, <2>3 DEF Direction, EndInv
        <3>3. EndInv(p)'
            BY <3>1, <3>2 DEF EndInv, Has
        <3>. QED
            BY <3>1, <3>3 DEF LastInv
    <2>9. ChainInv(a)'
        <3>1. ASSUME Clean(a)' PROVE OnTheWay(a)'
            <4>1. OnTheWay(a)
                BY <1>4, <3>1
            <4>2. UNCHANGED <<taken, got, buffer, wire, sent, queue, inflight>>
                  /\ Out(p)' = Out(p)
                BY <1>1, <2>1, OutKept DEF readVars
            <4>. QED
                BY <4>1, <4>2 DEF OnTheWay, Follow
        <3>2. UNCHANGED <<queue, inflight>>
            BY <2>1
        <3>. QED
            BY <1>0, <3>1, <3>2 DEF ChainInv, Direction
    <2>. QED
        BY <2>3, <2>6, <2>7, <2>8, <2>9, Both DEF Direction
<1>. QED
    BY <1>5, <1>6

LEMMA ReadDataKeeps ==
    ASSUME TypeOK, NetInv, NEW a \in Ends, NEW n \in 1..Room, ReadData(a, n)
    PROVE  NetInv'
<1>. DEFINE p == Peer(a)
            more == IF flowing[a] THEN <<"flow">> ELSE <<>>
            units == SubSeq(wire[a], 1, n)
            left == SubSeq(wire[a], n + 1, Len(wire[a]))
<1>0. /\ p \in Ends /\ p # a /\ Peer(p) = a /\ ticks[a] \in Seq(TickKinds)
      /\ wire \in [Ends -> Seq(Nat)] /\ buffer \in [Ends -> Seq(Nat)]
      /\ Direction(p)
    BY PeerFacts DEF TypeOK, ReadTypes, NetInv
<1>1. /\ ~broken /\ n \in 1..Len(wire[a]) /\ Later(a, ticks[a], more)
      /\ wire' = [wire EXCEPT ![a] = left]
      /\ buffer' = [buffer EXCEPT ![a] = buffer[a] \o units]
      /\ UNCHANGED <<fin, broken, ended, endEmitted, taken, got, writeVars>>
    BY DEF ReadData
<1>2. more \in Seq(TickKinds) /\ Plain(more)
    BY TickSeqs, PlainTicks
<1>. HIDE DEF more
<1>3. \A e \in Ends : Calm(e) /\ NoNewEnd(ticks[e], ticks'[e])
    <2>1. \A e \in Ends : /\ SameAnswers(ticks[e], ticks'[e])
                          /\ NoNewEnd(ticks[e], ticks'[e])
        BY <1>0, <1>1, <1>2, KeepSelf, LaterKeeps DEF Plain
    <2>. QED
        BY <1>1, <2>1, AllSame, CalmKept DEF NetInv, Direction
<1>4. Direction(a)'
    <2>1. ReadSame(p)
        BY <1>0, <1>1 DEF ReadSame
    <2>. QED
        BY <1>0, <1>1, <1>3, <2>1, Untouched DEF Calm, NetInv
<1>5. /\ wire'[a] = left /\ buffer'[a] = buffer[a] \o units
      /\ wire[a] # <<>>
    BY <1>0, <1>1, SMTT(60)
<1>6. ~ended[a] /\ ~endEmitted[a] /\ taken[a] = <<>> /\ ~Has(ticks[a], {"end"})
    BY <1>0, <1>5 DEF Direction, EndInv
<1>7. LockInv(p)'
    BY <1>0, <1>3, LockKept DEF Calm, WriteSame, Direction
<1>8. EndInv(a)' /\ LastInv(p)'
    <2>1. ~ended'[a] /\ ~endEmitted'[a] /\ taken'[a] = <<>>
          /\ ~Has(ticks'[a], {"end"})
        BY <1>1, <1>3, <1>6 DEF NoNewEnd
    <2>2. EndInv(a)'
        BY <2>1 DEF EndInv, Has
    <2>. QED
        BY <1>0, <2>1, <2>2 DEF LastInv
<1>9. ChainInv(p)'
    <2>1. UNCHANGED <<inflight, queue, sent, got, taken>> /\ (Clean(p)' => Clean(p))
          /\ Out(a)' = Out(a)
        BY <1>0, <1>1, <1>3, CleanKept, OutKept DEF Calm, WriteSame, writeVars
    <2>2. ASSUME OnTheWay(p) PROVE OnTheWay(p)'
        <3>. DEFINE b == Out(a) + Len(buffer[a])
        <3>0. /\ Out(a) \in Nat /\ Len(buffer[a]) \in Nat /\ Len(wire[a]) \in Nat
              /\ buffer[a] \in Seq(Nat) /\ wire[a] \in Seq(Nat)
            BY <1>0, Numbers
        <3>1. /\ Follow(taken[a], got[a])
              /\ Follow(buffer[a], Out(a)) /\ Follow(wire[a], b)
              /\ Follow(inflight[p], b + Len(wire[a]))
              /\ \A i \in 1..Len(queue[p]) :
                     queue[p][i][1] = b + Len(wire[a]) + Len(inflight[p]) + i
              /\ sent[p] = b + Len(wire[a]) + Len(inflight[p]) + Len(queue[p])
            BY <1>0, <2>2 DEF OnTheWay
        <3>2. n \in 0..Len(wire[a]) /\ n \in Nat /\ n \in 1..Len(wire[a])
            BY <1>1, <3>0
        <3>3. /\ left \in Seq(Nat) /\ Len(left) = Len(wire[a]) - n
              /\ Follow(left, b + n)
            <4>1. b \in Nat /\ wire[a] \in Seq(Nat) /\ Follow(wire[a], b)
                BY <3>0, <3>1
            <4>. HIDE DEF b
            <4>. QED
                BY <3>2, <4>1, FollowTake
        <3>4. /\ units \in Seq(Nat) /\ Len(units) = n
              /\ \A i \in 1..n : units[i] = wire[a][i]
            <4>1. wire[a] \in Seq(Nat) /\ n \in Nat /\ n <= Len(wire[a])
                BY <3>0, <3>2
            <4>. QED
                BY <4>1, Parts
        <3>5. Follow(units, b)
            BY <3>1, <3>2, <3>4 DEF Follow
        <3>. HIDE DEF left, units
        <3>6. /\ Follow(buffer[a] \o units, Out(a))
              /\ Len(buffer[a] \o units) = Len(buffer[a]) + n
            <4>1. Follow(units, Out(a) + Len(buffer[a])) /\ Follow(buffer[a], Out(a))
                BY <3>1, <3>5
            <4>2. Len(buffer[a] \o units) = Len(buffer[a]) + Len(units)
                <5>1. \A s, t \in Seq(Nat) : Len(s \o t) = Len(s) + Len(t)
                    OBVIOUS
                <5>2. buffer[a] \in Seq(Nat) /\ units \in Seq(Nat)
                    BY <3>0, <3>4
                <5>. QED
                    BY <5>1, <5>2, Zenon
            <4>3. Follow(buffer[a] \o units, Out(a))
                BY <3>0, <3>4, <4>1, FollowCat
            <4>. QED
                BY <3>4, <4>2, <4>3
        <3>7. /\ Follow(buffer'[a], Out(a)')
              /\ Out(a)' + Len(buffer'[a]) = b + n
            BY <1>5, <2>1, <3>0, <3>6
        <3>8. /\ Follow(wire'[a], b + n)
              /\ b + n + Len(wire'[a]) = b + Len(wire[a])
            BY <1>5, <3>0, <3>2, <3>3, SMTT(30)
        <3>9. /\ Follow(taken'[a], got'[a])
              /\ Follow(inflight'[p], b + Len(wire[a]))
              /\ \A i \in 1..Len(queue'[p]) :
                     queue'[p][i][1] = b + Len(wire[a]) + Len(inflight'[p]) + i
              /\ sent'[p] = b + Len(wire[a]) + Len(inflight'[p]) + Len(queue'[p])
            BY <2>1, <3>1
        <3>. HIDE DEF b
        <3>10. /\ Follow(wire'[a], Out(a)' + Len(buffer'[a]))
               /\ Out(a)' + Len(buffer'[a]) + Len(wire'[a]) = b + Len(wire[a])
            BY <3>7, <3>8
        <3>. QED
            BY <1>0, <3>7, <3>9, <3>10 DEF OnTheWay, Follow
    <2>. QED
        BY <1>0, <2>1, <2>2 DEF Direction, ChainInv
<1>10. Direction(p)'
    BY <1>0, <1>3, <1>7, <1>8, <1>9 DEF Direction, Calm
<1>. QED
    BY <1>4, <1>10, Both

LEMMA ReadEofKeeps ==
    ASSUME TypeOK, NetInv, NEW a \in Ends, ReadEof(a)
    PROVE  NetInv'
<1>. DEFINE p == Peer(a)
            more == IF buffer[a] = <<>> THEN <<"end">> ELSE <<>>
<1>0. /\ p \in Ends /\ p # a /\ Peer(p) = a /\ ticks[a] \in Seq(TickKinds)
      /\ ended \in [Ends -> BOOLEAN] /\ Direction(p)
    BY PeerFacts DEF TypeOK, ReadTypes, NetInv
<1>1. /\ ~broken /\ fin[a] /\ wire[a] = <<>> /\ Later(a, ticks[a], more)
      /\ ended' = [ended EXCEPT ![a] = TRUE]
      /\ UNCHANGED <<wire, fin, broken, buffer, endEmitted, taken, got, writeVars>>
    BY DEF ReadEof, AtEof, netVars
<1>2. /\ more \in Seq(TickKinds) /\ ~Has(more, AnswerKinds)
      /\ Has(more, {"end"}) => buffer[a] = <<>>
    BY TickSeqs, PlainTicks DEF Plain
<1>. HIDE DEF more
<1>3. /\ \A e \in Ends : SameAnswers(ticks[e], ticks'[e])
      /\ ticks'[p] = ticks[p]
      /\ Has(ticks'[a], {"end"}) => Has(ticks[a], {"end"}) \/ buffer[a] = <<>>
    BY <1>0, <1>1, <1>2, KeepSelf, LaterKeeps
<1>4. \A e \in Ends : Calm(e)
    BY <1>1, <1>3, AllSame, CalmKept DEF NetInv, Direction
<1>5. Direction(a)'
    <2>1. ReadSame(p)
        BY <1>0, <1>1 DEF ReadSame
    <2>2. NoNewEnd(ticks[p], ticks'[p])
        BY <1>3 DEF NoNewEnd
    <2>. QED
        BY <1>1, <1>4, <2>1, <2>2, Untouched DEF Calm, NetInv
<1>6. /\ ended'[a] /\ Out(a)' = Out(a)
      /\ UNCHANGED <<inflight, queue, sent, taken, got, buffer, wire, refused>>
    BY <1>0, <1>1, OutKept DEF writeVars
<1>7. LockInv(p)'
    BY <1>0, <1>4, LockKept DEF Calm, WriteSame, Direction
<1>8. EndInv(a)'
    <2>1. Has(ticks'[a], {"end"}) => buffer'[a] = <<>>
        BY <1>0, <1>3, <1>6 DEF Direction, EndInv
    <2>. QED
        BY <1>0, <1>1, <1>6, <2>1 DEF Direction, EndInv, Has
<1>9. ChainInv(p)'
    <2>1. Clean(p)' => Clean(p)
        BY <1>0, <1>1, <1>3, <1>6, CleanKept
    <2>2. OnTheWay(p) => OnTheWay(p)'
        BY <1>0, <1>6 DEF OnTheWay, Follow
    <2>. QED
        BY <1>0, <1>6, <2>1, <2>2 DEF Direction, ChainInv
(* The peer has nothing left to write, or its half would not be shut.       *)
<1>10. LastInv(p)'
    <2>. SUFFICES ASSUME ~refused[p]
                  PROVE  /\ Follow(buffer[a], Out(a))
                         /\ sent[p] = Out(a) + Len(buffer[a])
        BY <1>0, <1>6 DEF LastInv, Follow
    <2>1. ~writing[p]
        BY <1>0, <1>1 DEF Direction, ShutInv
    <2>2. /\ inflight[p] = <<>> /\ queue[p] = <<>> /\ ~Has(ticks[p], AnswerKinds)
        BY <1>0, <2>1 DEF Direction, LockInv
    <2>3. Clean(p)
        BY <1>1, <2>2 DEF Clean, Has, AnswerKinds
    <2>4. OnTheWay(p)
        BY <1>0, <2>3 DEF Direction, ChainInv
    <2>5. /\ Follow(buffer[a], Out(a))
          /\ sent[p] = Out(a) + Len(buffer[a]) + Len(wire[a]) + Len(inflight[p])
                       + Len(queue[p])
        BY <1>0, <2>4 DEF OnTheWay
    <2>6. Len(wire[a]) = 0 /\ Len(inflight[p]) = 0 /\ Len(queue[p]) = 0
        BY <1>1, <2>2
    <2>7. Out(a) \in Nat /\ Len(buffer[a]) \in Nat
        BY <1>0, Numbers
    <2>. QED
        BY <2>5, <2>6, <2>7
<1>11. Direction(p)'
    BY <1>0, <1>4, <1>7, <1>8, <1>9, <1>10 DEF Direction, Calm
<1>. QED
    BY <1>5, <1>11, Both

LEMMA ResetKeeps == TypeOK /\ NetInv /\ Reset => NetInv'
<1>. SUFFICES ASSUME TypeOK, NetInv, Reset, NEW e \in Ends PROVE Direction(e)'
    BY DEF NetInv
<1>1. /\ broken' /\ wire' = [d \in Ends |-> <<>>] /\ UNCHANGED ticks
      /\ UNCHANGED <<fin, ended, endEmitted, buffer, taken, got>>
      /\ Out(Peer(e))' = Out(Peer(e))
      /\ UNCHANGED <<writing, inflight, queue, sent, refused>>
      /\ UNCHANGED <<writableEnded, endWaits>>
      /\ Peer(e) \in Ends /\ Direction(e)
    BY PeerFacts, OutKept DEF Reset, readVars, writeVars, NetInv
<1>2. LockInv(e)' /\ ShutInv(e)'
    BY <1>1 DEF Direction, LockInv, ShutInv, Has, One
<1>3. EndInv(Peer(e))'
    BY <1>1 DEF Direction, EndInv, Has
<1>4. ChainInv(e)' /\ LastInv(e)'
    BY <1>1 DEF Direction, ChainInv, LastInv, Clean, Follow
<1>. QED
    BY <1>2, <1>3, <1>4 DEF Direction

LEMMA NetInit == Init => NetInv
<1>. SUFFICES ASSUME Init, NEW e \in Ends PROVE Direction(e)
    BY DEF NetInv
<1>1. /\ Peer(e) \in Ends /\ inflight[e] = <<>> /\ queue[e] = <<>>
      /\ ticks[e] = <<>> /\ ticks[Peer(e)] = <<>> /\ buffer[Peer(e)] = <<>>
      /\ wire[Peer(e)] = <<>> /\ taken[Peer(e)] = <<>> /\ got[Peer(e)] = 0
      /\ sent[e] = 0
      /\ ~fin[Peer(e)] /\ ~endWaits[e] /\ ~ended[Peer(e)] /\ ~endEmitted[Peer(e)]
    BY PeerFacts DEF Init
<1>2. LockInv(e) /\ ShutInv(e) /\ EndInv(Peer(e)) /\ LastInv(e)
    BY <1>1 DEF LockInv, ShutInv, EndInv, LastInv, Has, One
<1>3. ChainInv(e)
    BY <1>1 DEF ChainInv, OnTheWay, Out, Follow
<1>. QED
    BY <1>2, <1>3 DEF Direction

LEMMA NetStep == Whole /\ TypeOK /\ NetInv /\ [Next]_vars => NetInv'
<1>. SUFFICES ASSUME Whole, TypeOK, NetInv, [Next]_vars PROVE NetInv'
    OBVIOUS
<1>1. CASE Connected \/ Accept
    BY <1>1, QuietUser DEF Connected, Accept, Ends
<1>2. CASE Close \/ Reset
    BY <1>2, CloseKeeps, ResetKeeps
<1>3. CASE UNCHANGED vars
    BY <1>3, KeepSelf, QuietStep DEF vars, readVars
<1>4. ASSUME NEW a \in Ends, User(a) PROVE NetInv'
    BY <1>4, WriteKeeps, QuietUser, TakeAllKeeps DEF User
<1>7. ASSUME NEW a \in Ends, TakeReturn(a) PROVE NetInv'
    BY <1>7, TakeReturnKeeps
<1>5. ASSUME NEW a \in Ends, Gio(a) PROVE NetInv'
    BY <1>5, WrittenKeeps, WriteFailsKeeps, ReadDataKeeps, ReadEofKeeps, QuietUser
       DEF Gio
<1>6. ASSUME NEW a \in Ends, Tick(a) PROVE NetInv'
    BY <1>6, TickFlowKeeps, TickEndKeeps, TickWrittenKeeps, QuietUser DEF Tick
<1>. QED
    BY <1>1, <1>2, <1>3, <1>4, <1>5, <1>6, <1>7 DEF Next

(* A half is shut only when its lock is free and its queue empty; and when  *)
(* GIO takes each write whole, a consumer that got 'end' has the last unit  *)
(* that the peer wrote, unless a write was refused, or unless it runs in    *)
(* the 'end' that read() emits before it returns: what is under way when    *)
(* the half is shut is read, and taken out of the buffer, before 'end'.     *)
THEOREM LastUnit == ASSUME Whole PROVE Spec => []EndIsLast
<1>1. TypeOK /\ NetInv => EndIsLast
    <2>. SUFFICES ASSUME TypeOK, NetInv, NEW e \in Ends
                  PROVE  /\ fin[e] => inflight[Peer(e)] = <<>> /\ queue[Peer(e)] = <<>>
                         /\ endEmitted[e] /\ ~refused[Peer(e)] /\ Returned(e) =>
                               got[e] = sent[Peer(e)]
        BY DEF EndIsLast
    <2>1. Peer(e) \in Ends /\ Peer(Peer(e)) = e /\ Direction(Peer(e))
        BY PeerFacts DEF NetInv
    <2>2. fin[e] => inflight[Peer(e)] = <<>> /\ queue[Peer(e)] = <<>>
        BY <2>1 DEF Direction, ShutInv, LockInv
    <2>3. ASSUME endEmitted[e], ~refused[Peer(e)], Returned(e)
          PROVE  got[e] = sent[Peer(e)]
        <3>1. ended[e] /\ buffer[e] = <<>>
            BY <2>1, <2>3 DEF Direction, EndInv
        <3>2. sent[Peer(e)] = Out(e) + Len(buffer[e]) /\ Out(e) \in Nat
            BY <2>1, <2>3, <3>1, Numbers DEF Direction, LastInv
        <3>3. Out(e) = got[e]
            BY <2>3 DEF Returned, Out
        <3>. QED
            BY <3>1, <3>2, <3>3
    <2>. QED
        BY <2>2, <2>3
<1>2. TypeOK /\ NetInv /\ [Next]_vars => NetInv'
    BY NetStep
<1>. QED
    BY <1>1, <1>2, TypeInit, TypeStep, NetInit, PTL DEF Spec

LEMMA FollowOn ==
    ASSUME NEW s \in Seq(Nat), NEW t \in Seq(Nat), NEW k \in Nat,
           Follow(s, k), Follow(t, k + Len(s))
    PROVE  /\ s \o t \in Seq(Nat) /\ Len(s \o t) = Len(s) + Len(t)
           /\ Follow(s \o t, k)
<1>1. s \o t \in Seq(Nat) /\ Len(s \o t) = Len(s) + Len(t)
    OBVIOUS
<1>. QED
    BY <1>1, FollowCat

(* When GIO takes each write whole, the units that the user wrote are, in   *)
(* order, those that the peer's consumer got, those that its read() is about*)
(* to return, those in its buffer, on the wire, in the pending write and in *)
(* the queue of Duplex, until a write is refused or the connection is reset:*)
(* the chain of NetInv, with the queue as the sequence of its units.        *)
THEOREM InOrder == ASSUME Whole PROVE Spec => []Transfer
<1>1. TypeOK /\ NetInv => Transfer
    <2>. SUFFICES ASSUME TypeOK, NetInv, NEW e \in Ends, ~broken, ~refused[e],
                         ~Contains(ticks[e], "writeFailed")
                  PROVE  taken[Peer(e)] \o buffer[Peer(e)] \o wire[Peer(e)]
                             \o inflight[e] \o FlattenSeq(queue[e])
                         = [i \in 1..(sent[e] - got[Peer(e)]) |-> got[Peer(e)] + i]
        BY Zenon DEF Transfer
    <2>. DEFINE p == Peer(e)
                t == taken[p]  b == buffer[p]  w == wire[p]  f == inflight[e]
                q == FlattenSeq(queue[e])
                k == got[p]  n == sent[e]
    <2>1. /\ t \in Seq(Nat) /\ b \in Seq(Nat) /\ w \in Seq(Nat) /\ f \in Seq(Nat)
          /\ queue[e] \in Seq(Seq(Nat)) /\ k \in Nat /\ n \in Nat
        BY PeerFacts DEF TypeOK, ReadTypes, WriteTypes
    <2>2. ChainInv(e) /\ Clean(e)
        <3>1. ~Has(ticks[e], {"writeFailed"})
            BY DEF Has, Contains
        <3>. QED
            BY <3>1 DEF NetInv, Direction, Clean
    <2>3. /\ \A i \in 1..Len(queue[e]) : Len(queue[e][i]) = 1
          /\ OnTheWay(e)
        BY <2>2 DEF ChainInv
    <2>4. /\ q \in Seq(Nat) /\ Len(q) = Len(queue[e])
          /\ \A i \in 1..Len(queue[e]) : q[i] = queue[e][i][1]
        BY <2>1, <2>3, FlattenType, FlattenOnes
    <2>5. /\ Len(t) \in Nat /\ Len(b) \in Nat /\ Len(w) \in Nat /\ Len(f) \in Nat
          /\ Len(q) \in Nat
        BY <2>1, <2>4
    <2>6. Follow(t, k) /\ Out(p) = k + Len(t)
        <3>1. Follow(t, k)
            BY <2>3 DEF OnTheWay
        <3>2. CASE t = <<>>
            BY <2>1, <3>1, <3>2 DEF Out
        <3>3. CASE t # <<>>
            <4>1. Len(t) \in 1..Len(t) /\ Out(p) = t[Len(t)]
                BY <2>1, <3>3 DEF Out, Last
            <4>. QED
                BY <3>1, <4>1 DEF Follow
        <3>. QED
            BY <3>2, <3>3
    <2>7. /\ Follow(b, k + Len(t)) /\ Follow(w, k + Len(t) + Len(b))
          /\ Follow(f, k + Len(t) + Len(b) + Len(w))
          /\ Follow(q, k + Len(t) + Len(b) + Len(w) + Len(f))
          /\ n = k + Len(t) + Len(b) + Len(w) + Len(f) + Len(q)
        <3>1. /\ Follow(b, Out(p)) /\ Follow(w, Out(p) + Len(b))
              /\ Follow(f, Out(p) + Len(b) + Len(w))
              /\ n = Out(p) + Len(b) + Len(w) + Len(f) + Len(q)
            BY <2>3, <2>4 DEF OnTheWay
        <3>2. \A i \in 1..Len(queue[e]) :
                  queue[e][i][1] = Out(p) + Len(b) + Len(w) + Len(f) + i
            BY <2>3 DEF OnTheWay
        <3>3. Follow(q, Out(p) + Len(b) + Len(w) + Len(f))
            BY <2>4, <3>2 DEF Follow
        <3>. HIDE DEF p, t, b, w, f, q, k, n
        <3>. QED
            BY <2>6, <3>1, <3>3
    <2>. HIDE DEF p, t, b, w, f, q, k, n
    <2>. DEFINE tb == t \o b  tbw == tb \o w  tbwf == tbw \o f  r == tbwf \o q
    <2>8. /\ tb \in Seq(Nat) /\ Len(tb) = Len(t) + Len(b) /\ Follow(tb, k)
        BY <2>1, <2>6, <2>7, FollowOn
    <2>. HIDE DEF tb
    <2>9. /\ tbw \in Seq(Nat) /\ Len(tbw) = Len(t) + Len(b) + Len(w)
          /\ Follow(tbw, k)
        <3>1. k + Len(tb) = k + Len(t) + Len(b)
            BY <2>1, <2>5, <2>8
        <3>2. Follow(w, k + Len(tb))
            BY <2>7, <3>1
        <3>3. /\ tb \o w \in Seq(Nat) /\ Len(tb \o w) = Len(tb) + Len(w)
              /\ Follow(tb \o w, k)
            <4>1. tb \in Seq(Nat) /\ w \in Seq(Nat) /\ k \in Nat /\ Follow(tb, k)
                BY <2>1, <2>8
            <4>. QED
                BY <3>2, <4>1, FollowOn
        <3>. QED
            BY <2>5, <2>8, <3>3
    <2>. HIDE DEF tbw
    <2>10. /\ tbwf \in Seq(Nat) /\ Len(tbwf) = Len(t) + Len(b) + Len(w) + Len(f)
           /\ Follow(tbwf, k)
        <3>1. k + Len(tbw) = k + Len(t) + Len(b) + Len(w)
            BY <2>1, <2>5, <2>9
        <3>2. Follow(f, k + Len(tbw))
            BY <2>7, <3>1
        <3>3. /\ tbw \o f \in Seq(Nat) /\ Len(tbw \o f) = Len(tbw) + Len(f)
              /\ Follow(tbw \o f, k)
            <4>1. tbw \in Seq(Nat) /\ f \in Seq(Nat) /\ k \in Nat /\ Follow(tbw, k)
                BY <2>1, <2>9
            <4>. QED
                BY <3>2, <4>1, FollowOn
        <3>. QED
            BY <2>5, <2>9, <3>3
    <2>. HIDE DEF tbwf
    <2>11. /\ r \in Seq(Nat) /\ Len(r) = Len(t) + Len(b) + Len(w) + Len(f) + Len(q)
           /\ Follow(r, k)
        <3>1. k + Len(tbwf) = k + Len(t) + Len(b) + Len(w) + Len(f)
            BY <2>1, <2>5, <2>10
        <3>2. Follow(q, k + Len(tbwf))
            BY <2>7, <3>1
        <3>3. /\ tbwf \o q \in Seq(Nat) /\ Len(tbwf \o q) = Len(tbwf) + Len(q)
              /\ Follow(tbwf \o q, k)
            <4>1. tbwf \in Seq(Nat) /\ q \in Seq(Nat) /\ k \in Nat /\ Follow(tbwf, k)
                BY <2>1, <2>4, <2>10
            <4>. QED
                BY <3>2, <4>1, FollowOn
        <3>. QED
            BY <2>5, <2>10, <3>3
    <2>. HIDE DEF r
    <2>12. r = [i \in 1..(n - k) |-> k + i]
        <3>1. Len(r) = n - k
            BY <2>1, <2>5, <2>7, <2>11
        <3>2. r = [i \in 1..Len(r) |-> r[i]]
            BY <2>11
        <3>3. \A i \in 1..Len(r) : r[i] = k + i
            BY <2>11 DEF Follow
        <3>. QED
            BY <3>1, <3>2, <3>3
    <2>. QED
        BY <2>12 DEF r, tbwf, tbw, tb, t, b, w, f, q, k, n, p
<1>2. TypeOK /\ NetInv /\ [Next]_vars => NetInv'
    BY NetStep
<1>. QED
    BY <1>1, <1>2, TypeInit, TypeStep, NetInit, PTL DEF Spec

-----------------------------------------------------------------------------
(* Nothing is left behind: what each side of an end still has ahead of it   *)
(* while the connection holds, whatever the sizes of the writes.            *)

(* The reading side of an end: a loop that runs has its read at GIO, what   *)
(* flows has a read, a tick or the connection ahead, and the end of the data*)
(* its tick.                                                                *)
ReaderInv(e) ==
    /\ reading[e] => reads[e] = 1
    /\ reading[e] \/ ended[e] => up[e]
    /\ flowing[e] /\ ~destroyed[e] /\ ~Has(ticks[e], {"flow"}) =>
          buffer[e] = <<>> /\ (ended[e] \/ reading[e] \/ ~up[e])
    /\ Has(ticks[e], {"end"}) \/ endEmitted[e] => ended[e]
    /\ ended[e] /\ ~endEmitted[e] =>
          /\ buffer[e] # <<>> \/ Has(ticks[e], {"end"})
          /\ endHook[e] \/ e \in HalfOpen

(* The writing side: the lock is held by a write at GIO or by its callback, *)
(* and an end() that waits, waits for it.                                   *)
WriterInv(e) ==
    /\ inflight[e] # <<>> \/ Has(ticks[e], AnswerKinds) <=> writing[e]
    /\ ~(inflight[e] # <<>> /\ Has(ticks[e], AnswerKinds))
    /\ queue[e] # <<>> => writing[e]
    /\ \A i \in 1..Len(queue[e]) : queue[e][i] # <<>>
    /\ One(ticks[e])
    /\ endWaits[e] => writableEnded[e] /\ (writing[e] \/ refused[e])
    /\ fin[Peer(e)] => writableEnded[e] /\ ~writing[e]

(* What the end of the data left on the wire, and what 'end' started.       *)
LinkInv(e) ==
    /\ ended[e] => fin[e] /\ wire[e] = <<>>
    /\ endEmitted[e] /\ e \notin HalfOpen => fin[Peer(e)] \/ endWaits[e]

Awake == \A e \in Ends : ReaderInv(e) /\ WriterInv(e) /\ LinkInv(e)

(* The ticks of an end, after a step that takes the first or none and adds. *)
Signals(s, t) ==
    /\ Has(t, {"flow"}) <=> Has(s, {"flow"})
    /\ Has(t, {"end"}) <=> Has(s, {"end"})

LEMMA LaterHas ==
    ASSUME TypeOK, NEW a \in Ends, NEW rest \in Seq(TickKinds),
           NEW more \in Seq(TickKinds), Later(a, rest, more), NEW K
    PROVE  Has(ticks'[a], K) <=> Has(rest, K) \/ Has(more, K)
<1>1. ticks'[a] = rest \o more
    BY LaterType DEF TypeOK
<1>. QED
    BY <1>1, HasCat

LEMMA RunsHas ==
    ASSUME TypeOK, NEW a \in Ends, NEW k \in TickKinds, Runs(a, k), NEW K
    PROVE  /\ Rest(a) \in Seq(TickKinds)
           /\ Has(ticks[a], K) <=> k \in K \/ Has(Rest(a), K)
<1>1. ticks[a] \in Seq(TickKinds) /\ ticks[a] # <<>> /\ Head(ticks[a]) = k
    BY DEF TypeOK, Runs
<1>2. Tail(ticks[a]) \in Seq(TickKinds)
    BY <1>1
<1>. QED
    BY <1>1, <1>2, HasTail DEF Rest

LEMMA SignalTicks ==
    ASSUME TypeOK, NEW a \in Ends, NEW rest \in Seq(TickKinds),
           NEW more \in Seq(TickKinds), Later(a, rest, more),
           Signals(ticks[a], rest), ~Has(more, {"flow"}), ~Has(more, {"end"})
    PROVE  \A d \in Ends : Signals(ticks[d], ticks'[d])
<1>1. Signals(ticks[a], ticks'[a])
    BY LaterHas DEF Signals
<1>2. \A d \in Ends : d # a => ticks'[d] = ticks[d]
    BY LaterType DEF TypeOK
<1>. QED
    BY <1>1, <1>2 DEF Signals

LEMMA SignalRest ==
    ASSUME TypeOK, NEW a \in Ends, NEW k \in TickKinds \ {"flow", "end"}, Runs(a, k)
    PROVE  Rest(a) \in Seq(TickKinds) /\ Signals(ticks[a], Rest(a))
BY RunsHas DEF Signals

-----------------------------------------------------------------------------
(* The reading side.                                                        *)
ReaderSame(e) ==
    /\ up'[e] = up[e] /\ reading'[e] = reading[e] /\ reads'[e] = reads[e]
    /\ buffer'[e] = buffer[e] /\ flowing'[e] = flowing[e]
    /\ ended'[e] = ended[e] /\ endEmitted'[e] = endEmitted[e]
    /\ endHook'[e] = endHook[e]

LEMMA ReaderKept ==
    ASSUME NEW e \in Ends, ReaderInv(e), ReaderSame(e),
           destroyed[e] => destroyed'[e], Signals(ticks[e], ticks'[e])
    PROVE  ReaderInv(e)'
BY DEF ReaderInv, ReaderSame, Signals, Has

(* A step that does not read.                                               *)
LEMMA ReaderQuiet ==
    ASSUME \A d \in Ends : ReaderInv(d), UNCHANGED <<up, readVars>>,
           \A d \in Ends : destroyed[d] => destroyed'[d],
           \A d \in Ends : Signals(ticks[d], ticks'[d])
    PROVE  \A d \in Ends : ReaderInv(d)'
<1>. SUFFICES ASSUME NEW d \in Ends PROVE ReaderInv(d)'
    OBVIOUS
<1>1. ReaderSame(d)
    BY DEF ReaderSame, readVars
<1>. QED
    BY <1>1, ReaderKept

(* What a step adds that the reading side does not see.                     *)
LEMMA Unseen ==
    /\ \A K \in {{"flow"}, {"end"}} :
           /\ ~Has(<<>>, K) /\ ~Has(<<"written">>, K) /\ ~Has(<<"finish">>, K)
           /\ ~Has(<<"close">>, K) /\ ~Has(<<"error">> \o <<"close">>, K)
           /\ ~Has(<<"finish">> \o <<"close">>, K) /\ ~Has(<<"finish">> \o <<>>, K)
           /\ ~Has(<<>> \o <<"close">>, K)
           /\ \A e \in Ends : ~Has(Refusal(e), K)
<1>. SUFFICES ASSUME NEW K \in {{"flow"}, {"end"}}
              PROVE  /\ ~Has(<<>>, K) /\ ~Has(<<"written">>, K) /\ ~Has(<<"finish">>, K)
                     /\ ~Has(<<"close">>, K) /\ ~Has(<<"error">> \o <<"close">>, K)
                     /\ ~Has(<<"finish">> \o <<"close">>, K)
                     /\ ~Has(<<"finish">> \o <<>>, K)
                     /\ ~Has(<<>> \o <<"close">>, K)
                     /\ \A e \in Ends : ~Has(Refusal(e), K)
    OBVIOUS
<1>1. /\ ~Has(<<>>, K) /\ ~Has(<<"written">>, K) /\ ~Has(<<"finish">>, K)
      /\ ~Has(<<"close">>, K) /\ ~Has(<<"error">>, K) /\ ~Has(<<"writeFailed">>, K)
    BY HasSingle
<1>2. /\ <<"error">> \in Seq(TickKinds) /\ <<"close">> \in Seq(TickKinds)
      /\ <<"finish">> \in Seq(TickKinds) /\ <<>> \in Seq(TickKinds)
    BY TickSeqs
<1>3. /\ ~Has(<<"error">> \o <<"close">>, K) /\ ~Has(<<"finish">> \o <<"close">>, K)
      /\ ~Has(<<"finish">> \o <<>>, K) /\ ~Has(<<>> \o <<"close">>, K)
    BY <1>1, <1>2, HasCat
<1>4. \A e \in Ends : ~Has(Refusal(e), K)
    BY <1>1 DEF Refusal
<1>. QED
    BY <1>1, <1>3, <1>4

LEMMA EndNowSignals ==
    ASSUME TypeOK, NEW a \in Ends, NEW rest \in Seq(TickKinds),
           NEW more \in {<<>>, <<"close">>}, EndNow(a, rest, more),
           Signals(ticks[a], rest)
    PROVE  \A d \in Ends : Signals(ticks[d], ticks'[d])
<1>1. /\ more \in Seq(TickKinds) /\ <<"finish">> \o more \in Seq(TickKinds)
      /\ ~Has(more, {"flow"}) /\ ~Has(more, {"end"})
      /\ ~Has(<<"finish">> \o more, {"flow"}) /\ ~Has(<<"finish">> \o more, {"end"})
    BY TickSeqs, Unseen
<1>2. Later(a, rest, more) \/ Later(a, rest, <<"finish">> \o more)
    BY DEF EndNow
<1>. QED
    BY <1>1, <1>2, SignalTicks

LEMMA DestroySignals ==
    ASSUME TypeOK, NEW a \in Ends, NEW err \in {<<>>, <<"error">>}, DestroyNow(a, err)
    PROVE  /\ \A d \in Ends : Signals(ticks[d], ticks'[d])
           /\ \A d \in Ends : destroyed[d] => destroyed'[d]
<1>1. /\ err \o <<"close">> \in Seq(TickKinds) /\ <<>> \in Seq(TickKinds)
      /\ ticks[a] \in Seq(TickKinds) /\ Signals(ticks[a], ticks[a])
    BY TickSeqs DEF TypeOK, Signals
<1>2. \A d \in Ends : Signals(ticks[d], ticks'[d])
    BY <1>1, Unseen, SignalTicks DEF DestroyNow
<1>3. \A d \in Ends : destroyed[d] => destroyed'[d]
    BY DEF DestroyNow, TypeOK, FlagTypes
<1>. QED
    BY <1>2, <1>3

LEMMA ReaderOther ==
    ASSUME TypeOK, \A d \in Ends : ReaderInv(d), NEW a \in Ends,
           \/ \E size \in WriteSizes : Write(a, size)
           \/ End(a) \/ Destroy(a) \/ Written(a)
           \/ TickEndAgain(a) \/ TickWritten(a) \/ TickEvent(a)
    PROVE  \A d \in Ends : ReaderInv(d)'
<1>0. /\ ticks[a] \in Seq(TickKinds) /\ Signals(ticks[a], ticks[a])
      /\ \A d \in Ends : Signals(ticks[d], ticks[d])
      /\ Refusal(a) \in Seq(TickKinds) /\ <<>> \in Seq(TickKinds)
      /\ {<<"written">>, <<"finish">>, <<"close">>} \subseteq Seq(TickKinds)
      /\ ~Has(Refusal(a), {"flow"}) /\ ~Has(Refusal(a), {"end"})
    BY TickSeqs, Unseen DEF TypeOK, Signals, Refusal
<1>1. UNCHANGED <<up, readVars>>
    BY DEF Write, End, Destroy, Written, TickEndAgain, TickWritten, TickEvent
<1>2. ASSUME NEW rest \in Seq(TickKinds), Signals(ticks[a], rest),
             NEW more \in Seq(TickKinds), ~Has(more, {"flow"}), ~Has(more, {"end"}),
             Later(a, rest, more), destroyed' = destroyed
      PROVE  \A d \in Ends : ReaderInv(d)'
    BY <1>1, <1>2, SignalTicks, ReaderQuiet
<1>3. ASSUME NEW size \in WriteSizes, Write(a, size)
      PROVE  \A d \in Ends : ReaderInv(d)'
    <2>1. CASE ticks' = ticks
        <3>1. \A d \in Ends : Signals(ticks[d], ticks'[d])
            BY <1>0, <2>1
        <3>2. \A d \in Ends : destroyed[d] => destroyed'[d]
            BY <1>3 DEF Write
        <3>. QED
            BY <1>1, <3>1, <3>2, ReaderQuiet
    <2>2. CASE Later(a, ticks[a], Refusal(a))
        BY <1>0, <1>2, <1>3, <2>2 DEF Write
    <2>. QED
        BY <1>3, <2>1, <2>2 DEF Write
<1>4. ASSUME NEW rest \in Seq(TickKinds), Signals(ticks[a], rest),
             EndNow(a, rest, <<>>), destroyed' = destroyed
      PROVE  \A d \in Ends : ReaderInv(d)'
    BY <1>1, <1>4, EndNowSignals, ReaderQuiet
<1>5. CASE End(a)
    BY <1>0, <1>4, <1>5 DEF End
<1>6. CASE Destroy(a)
    BY <1>1, <1>6, DestroySignals, ReaderQuiet DEF Destroy
<1>7. CASE Written(a)
    BY <1>0, <1>2, <1>7, Unseen DEF Written
<1>8. ASSUME NEW k \in TickKinds \ {"flow", "end"}, Runs(a, k)
      PROVE  Rest(a) \in Seq(TickKinds) /\ Signals(ticks[a], Rest(a))
    BY <1>8, SignalRest
<1>9. CASE TickEndAgain(a)
    BY <1>4, <1>8, <1>9 DEF TickEndAgain, TickKinds
<1>10. CASE TickWritten(a)
    <2>1. Rest(a) \in Seq(TickKinds) /\ Signals(ticks[a], Rest(a))
        BY <1>8, <1>10 DEF TickWritten, TickKinds
    <2>2. /\ \/ Later(a, Rest(a), Refusal(a)) \/ Later(a, Rest(a), <<>>)
             \/ Later(a, Rest(a), <<"finish">>)
          /\ destroyed' = destroyed
        BY <1>10 DEF TickWritten
    <2>. QED
        BY <1>0, <1>2, <2>1, <2>2, Unseen
<1>11. CASE TickEvent(a)
    <2>1. Rest(a) \in Seq(TickKinds) /\ Signals(ticks[a], Rest(a))
        BY <1>8, <1>11 DEF TickEvent, TickKinds
    <2>2. /\ \/ Later(a, Rest(a), <<"close">>) \/ Later(a, Rest(a), <<>>)
          /\ destroyed' = destroyed
        BY <1>11 DEF TickEvent
    <2>. QED
        BY <1>0, <1>2, <2>1, <2>2, Unseen
<1>. QED
    BY <1>3, <1>5, <1>6, <1>7, <1>9, <1>10, <1>11

(* The loop of a starts, or runs already.                                   *)
LEMMA ReaderStarts ==
    ASSUME TypeOK, ReadInv, NEW a \in Ends, ReaderInv(a), StartReading(a)
    PROVE  /\ reading'[a] /\ reads'[a] = 1
           /\ \A d \in Ends : d # a => reading'[d] = reading[d] /\ reads'[d] = reads[d]
<1>1. /\ reading \in [Ends -> BOOLEAN] /\ reads \in [Ends -> Nat]
      /\ reads[a] <= IF reading[a] THEN 1 ELSE 0
    BY DEF TypeOK, ReadTypes, ReadInv
<1>2. CASE reading[a]
    BY <1>1, <1>2 DEF StartReading, MayStart, ReaderInv
<1>3. CASE ~reading[a]
    BY <1>1, <1>3 DEF StartReading, MayStart
<1>. QED
    BY <1>2, <1>3

(* The other end has nothing to do with it.                                 *)
LEMMA ReaderAlone ==
    ASSUME \A d \in Ends : ReaderInv(d), NEW a \in Ends,
           \A d \in Ends : d # a => /\ ReaderSame(d) /\ ticks'[d] = ticks[d]
                                    /\ destroyed[d] => destroyed'[d],
           ReaderInv(a)'
    PROVE  \A d \in Ends : ReaderInv(d)'
<1>. SUFFICES ASSUME NEW d \in Ends, d # a PROVE ReaderInv(d)'
    OBVIOUS
<1>1. Signals(ticks[d], ticks'[d])
    BY DEF Signals
<1>. QED
    BY <1>1, ReaderKept

(* What is left is none, or a pause has stopped the flow; and 'end' is due. *)
LEMMA FlowReads ==
    ASSUME TypeOK, ReadInv, NEW a \in Ends, ReaderInv(a),
           NEW rest \in Seq(TickKinds), NEW n \in 0..Len(buffer[a]), Flow(a, rest, n),
           UNCHANGED <<up, ended, endEmitted, endHook, destroyed>>,
           Has(rest, {"end"}) <=> Has(ticks[a], {"end"}),
           flowing'[a] => n = Len(buffer[a])
    PROVE  ReaderInv(a)'
<1>1. /\ buffer \in [Ends -> Seq(Nat)] /\ flowing \in [Ends -> BOOLEAN]
      /\ buffer'[a] = Left(a, n)
    BY DEF TypeOK, ReadTypes, Flow
<1>2. flowing'[a] => buffer'[a] = <<>>
    BY <1>1 DEF Left
<1>3. Has(ticks'[a], {"end"}) <=>
          \/ Has(ticks[a], {"end"})
          \/ ended[a] /\ buffer'[a] = <<>> /\ ~endEmitted[a]
    <2>. DEFINE more == IF ended[a] /\ Left(a, n) = <<>> /\ ~endEmitted[a]
                        THEN <<"end">> ELSE <<>>
    <2>1. Later(a, rest, more) /\ more \in Seq(TickKinds)
        BY TickSeqs DEF Flow
    <2>2. Has(more, {"end"}) <=> ended[a] /\ buffer'[a] = <<>> /\ ~endEmitted[a]
        BY <1>1, HasSingle
    <2>. HIDE DEF more
    <2>3. Has(ticks'[a], {"end"}) <=> Has(rest, {"end"}) \/ Has(more, {"end"})
        BY <2>1, LaterHas
    <2>. QED
        BY <2>2, <2>3
<1>4. /\ reading'[a] => reads'[a] = 1 /\ up[a]
      /\ ended[a] \/ reading'[a] \/ ~up[a]
    <2>1. CASE ended[a] \/ ~up[a]
        BY <2>1 DEF Flow, ReadsOn, ReaderInv
    <2>2. CASE ~ended[a] /\ up[a]
        BY <2>2, ReaderStarts DEF Flow, ReadsOn
    <2>. QED
        BY <2>1, <2>2
<1>5. Has(ticks'[a], {"end"}) \/ endEmitted[a] => ended[a]
    BY <1>3 DEF ReaderInv
<1>6. ended[a] /\ ~endEmitted[a] =>
          /\ buffer'[a] # <<>> \/ Has(ticks'[a], {"end"})
          /\ endHook[a] \/ a \in HalfOpen
    BY <1>3 DEF ReaderInv
<1>. QED
    BY <1>2, <1>4, <1>5, <1>6 DEF ReaderInv, Has

LEMMA FlowOthers ==
    ASSUME TypeOK, ReadInv, NEW a \in Ends, ReaderInv(a), NEW rest \in Seq(TickKinds),
           Flows(a, rest), UNCHANGED <<up, ended, endEmitted, endHook, destroyed>>
    PROVE  \A d \in Ends : d # a => /\ ReaderSame(d) /\ ticks'[d] = ticks[d]
                                    /\ destroyed[d] => destroyed'[d]
<1>. SUFFICES ASSUME NEW d \in Ends, d # a
              PROVE  ReaderSame(d) /\ ticks'[d] = ticks[d]
    OBVIOUS
<1>1. /\ buffer \in [Ends -> Seq(Nat)] /\ flowing \in [Ends -> BOOLEAN]
      /\ reading \in [Ends -> BOOLEAN] /\ reads \in [Ends -> Nat]
    BY DEF TypeOK, ReadTypes
<1>2. /\ buffer'[d] = buffer[d] /\ flowing'[d] = flowing[d]
    BY <1>1 DEF Flows, Flow, FlowAndPause
<1>3. reading'[d] = reading[d] /\ reads'[d] = reads[d]
    <2>1. StartReading(a) \/ UNCHANGED <<reading, reads>>
        BY FlowsStarts
    <2>. QED
        BY <2>1, ReaderStarts
<1>4. ticks'[d] = ticks[d]
    <2>1. Later(a, rest, <<>>) \/ Later(a, rest, <<"end">>)
        <3>1. ASSUME NEW n, Flow(a, rest, n)
              PROVE  Later(a, rest, <<>>) \/ Later(a, rest, <<"end">>)
            BY <3>1 DEF Flow
        <3>. QED
            BY <3>1 DEF Flows, FlowAndPause
    <2>. QED
        BY <2>1, TickSeqs, LaterType DEF TypeOK
<1>. QED
    BY <1>2, <1>3, <1>4 DEF ReaderSame

LEMMA FlowsReads ==
    ASSUME TypeOK, ReadInv, \A d \in Ends : ReaderInv(d), NEW a \in Ends,
           NEW rest \in Seq(TickKinds), Flows(a, rest),
           UNCHANGED <<up, ended, endEmitted, endHook, destroyed>>,
           Has(rest, {"end"}) <=> Has(ticks[a], {"end"})
    PROVE  \A d \in Ends : ReaderInv(d)'
<1>1. /\ ReaderInv(a) /\ Len(buffer[a]) \in 0..Len(buffer[a])
      /\ flowing \in [Ends -> BOOLEAN]
    BY DEF TypeOK, ReadTypes
<1>2. CASE destroyed[a]
    <2>1. /\ Later(a, rest, <<>>) /\ UNCHANGED <<buffer, reading, reads>>
        BY <1>2 DEF Flows
    <2>2. Has(ticks'[a], {"end"}) <=> Has(ticks[a], {"end"})
        BY <2>1, TickSeqs, LaterHas, HasSingle
    <2>. QED
        BY <1>1, <1>2, <2>1, <2>2, FlowOthers, ReaderAlone DEF ReaderInv, Has
<1>3. CASE /\ ~destroyed[a] /\ Flow(a, rest, Len(buffer[a]))
    <2>1. ReaderInv(a)'
        BY <1>1, <1>3, FlowReads
    <2>. QED
        BY <1>1, <2>1, FlowOthers, ReaderAlone
<1>4. ASSUME NEW n \in 1..Len(buffer[a]), FlowAndPause(a, rest, n)
      PROVE  \A d \in Ends : ReaderInv(d)'
    <2>1. /\ Flow(a, rest, n) /\ ~flowing'[a] /\ n \in 0..Len(buffer[a])
        BY <1>1, <1>4 DEF FlowAndPause
    <2>2. ReaderInv(a)'
        BY <1>1, <2>1, FlowReads
    <2>. QED
        BY <1>1, <2>2, FlowOthers, ReaderAlone
<1>. QED
    BY <1>2, <1>3, <1>4 DEF Flows

LEMMA SetUpReads ==
    ASSUME TypeOK, ReadInv, \A d \in Ends : ReaderInv(d), NEW a \in Ends, SetUp(a)
    PROVE  \A d \in Ends : ReaderInv(d)'
<1>0. up \in [Ends -> BOOLEAN] /\ ReaderInv(a)
    BY DEF TypeOK, FlagTypes
<1>1. /\ StartReading(a) /\ up' = [up EXCEPT ![a] = TRUE]
      /\ UNCHANGED <<buffer, flowing, ended, endEmitted, endHook, destroyed, ticks>>
    BY DEF SetUp
<1>2. /\ reading'[a] /\ reads'[a] = 1
      /\ \A d \in Ends : d # a => reading'[d] = reading[d] /\ reads'[d] = reads[d]
    BY <1>0, <1>1, ReaderStarts
<1>3. ReaderInv(a)'
    BY <1>0, <1>1, <1>2 DEF ReaderInv, Has
<1>. QED
    BY <1>0, <1>1, <1>2, <1>3, ReaderAlone DEF ReaderSame

LEMMA ReadDataReads ==
    ASSUME TypeOK, ReadInv, \A d \in Ends : ReaderInv(d), NEW a \in Ends,
           NEW n \in 1..Room, ReadData(a, n)
    PROVE  \A d \in Ends : ReaderInv(d)'
<1>. DEFINE units == SubSeq(wire[a], 1, n)
            more == IF flowing[a] THEN <<"flow">> ELSE <<>>
<1>0. /\ wire[a] \in Seq(Nat) /\ buffer \in [Ends -> Seq(Nat)]
      /\ reading \in [Ends -> BOOLEAN] /\ reads \in [Ends -> Nat]
      /\ ticks[a] \in Seq(TickKinds) /\ ReaderInv(a)
    BY DEF TypeOK, ReadTypes
<1>1. /\ n \in 1..Len(wire[a]) /\ buffer' = [buffer EXCEPT ![a] = @ \o units]
      /\ Later(a, ticks[a], more)
      /\ UNCHANGED <<up, flowing, ended, endEmitted, endHook, destroyed>>
    BY DEF ReadData
<1>2. /\ reads[a] > 0
      /\ \/ UNCHANGED <<reading, reads>>
         \/ /\ reading' = [reading EXCEPT ![a] = FALSE]
            /\ reads' = [reads EXCEPT ![a] = @ - 1]
    BY DEF ReadData
<1>3. more \in Seq(TickKinds) /\ ~Has(more, {"end"})
      /\ (flowing[a] => Has(more, {"flow"}))
    BY TickSeqs, HasSingle
<1>4. units \in Seq(Nat) /\ units # <<>>
    <2>1. wire[a] \in Seq(Nat) /\ n \in 1..Len(wire[a])
        BY <1>0, <1>1
    <2>2. \A s \in Seq(Nat) : \A m \in 1..Len(s) :
              SubSeq(s, 1, m) \in Seq(Nat) /\ SubSeq(s, 1, m) # <<>>
        OBVIOUS
    <2>. QED
        BY <2>1, <2>2, Zenon
<1>. HIDE DEF more, units
<1>5. buffer'[a] # <<>>
    BY <1>0, <1>1, <1>4
<1>6. /\ Has(ticks'[a], {"end"}) <=> Has(ticks[a], {"end"})
      /\ flowing[a] => Has(ticks'[a], {"flow"})
      /\ \A d \in Ends : d # a => ticks'[d] = ticks[d]
    BY <1>0, <1>1, <1>3, LaterHas, LaterType DEF TypeOK
<1>7. up[a] /\ (reading'[a] => reads'[a] = 1)
    <2>1. reading[a]
        BY <1>0, <1>2 DEF ReadInv
    <2>. QED
        BY <1>0, <1>2, <2>1 DEF ReaderInv
<1>8. ReaderInv(a)'
    BY <1>0, <1>1, <1>5, <1>6, <1>7 DEF ReaderInv, Has
<1>9. \A d \in Ends : d # a => ReaderSame(d)
    BY <1>0, <1>1, <1>2 DEF ReaderSame
<1>. QED
    BY <1>1, <1>6, <1>8, <1>9, ReaderAlone

LEMMA ReadEofReads ==
    ASSUME TypeOK, ReadInv, \A d \in Ends : ReaderInv(d), NEW a \in Ends, ReadEof(a)
    PROVE  \A d \in Ends : ReaderInv(d)'
<1>. DEFINE more == IF buffer[a] = <<>> THEN <<"end">> ELSE <<>>
<1>0. /\ reading \in [Ends -> BOOLEAN] /\ reads \in [Ends -> Nat]
      /\ ended \in [Ends -> BOOLEAN] /\ endHook \in [Ends -> BOOLEAN]
      /\ ticks[a] \in Seq(TickKinds) /\ ReaderInv(a)
    BY DEF TypeOK, ReadTypes
<1>1. /\ reads[a] > 0 /\ Later(a, ticks[a], more)
      /\ reads' = [reads EXCEPT ![a] = @ - 1]
      /\ reading' = [reading EXCEPT ![a] = FALSE]
      /\ endHook' = [endHook EXCEPT ![a] = a \notin HalfOpen]
      /\ ended' = [ended EXCEPT ![a] = TRUE]
      /\ UNCHANGED <<up, buffer, flowing, endEmitted, destroyed>>
    BY DEF ReadEof
<1>2. /\ more \in Seq(TickKinds) /\ ~Has(more, {"flow"})
      /\ Has(more, {"end"}) <=> buffer[a] = <<>>
    BY TickSeqs, HasSingle
<1>. HIDE DEF more
<1>3. /\ Has(ticks'[a], {"flow"}) <=> Has(ticks[a], {"flow"})
      /\ buffer[a] = <<>> => Has(ticks'[a], {"end"})
      /\ \A d \in Ends : d # a => ticks'[d] = ticks[d]
    BY <1>0, <1>1, <1>2, LaterHas, LaterType DEF TypeOK
<1>4. up[a] /\ ~reading'[a] /\ ended'[a] /\ (endHook'[a] \/ a \in HalfOpen)
    <2>1. reading[a]
        BY <1>0, <1>1 DEF ReadInv
    <2>. QED
        BY <1>0, <1>1, <2>1 DEF ReaderInv
<1>5. ReaderInv(a)'
    BY <1>0, <1>1, <1>3, <1>4 DEF ReaderInv, Has
<1>6. \A d \in Ends : d # a => ReaderSame(d)
    BY <1>0, <1>1 DEF ReaderSame
<1>. QED
    BY <1>1, <1>3, <1>5, <1>6, ReaderAlone

(* 'end', which is emitted when the data have ended.                        *)
LEMMA EmitEndReads ==
    ASSUME TypeOK, \A d \in Ends : ReaderInv(d), NEW a \in Ends, ended[a],
           NEW rest \in Seq(TickKinds), EmitEnd(a, rest),
           Has(rest, {"flow"}) <=> Has(ticks[a], {"flow"}),
           UNCHANGED <<up, reading, reads, flowing, ended, destroyed>>,
           \/ buffer' = buffer
           \/ buffer' = [buffer EXCEPT ![a] = <<>>]
    PROVE  \A d \in Ends : ReaderInv(d)'
<1>. DEFINE hooked == IF DuplexHook(a) THEN Append(rest, "endAgain") ELSE rest
<1>0. /\ endEmitted \in [Ends -> BOOLEAN] /\ endHook \in [Ends -> BOOLEAN]
      /\ buffer \in [Ends -> Seq(Nat)] /\ ReaderInv(a)
    BY DEF TypeOK, ReadTypes
<1>1. /\ endEmitted' = [endEmitted EXCEPT ![a] = TRUE]
      /\ endHook' = [endHook EXCEPT ![a] = FALSE]
      /\ \/ EndNow(a, hooked, <<"close">>)
         \/ Later(a, hooked, <<"close">>)
    BY DEF EmitEnd
<1>2. /\ hooked \in Seq(TickKinds)
      /\ Has(hooked, {"flow"}) <=> Has(ticks[a], {"flow"})
    <2>1. Append(rest, "endAgain") = rest \o <<"endAgain">>
          /\ <<"endAgain">> \in Seq(TickKinds) /\ ~Has(<<"endAgain">>, {"flow"})
        BY TickSeqs, HasSingle DEF TickKinds
    <2>2. /\ Append(rest, "endAgain") \in Seq(TickKinds)
          /\ Has(Append(rest, "endAgain"), {"flow"}) <=> Has(rest, {"flow"})
        BY <2>1, HasCat, TickSeqs
    <2>. QED
        BY <2>2
<1>. HIDE DEF hooked
<1>3. /\ Has(ticks'[a], {"flow"}) <=> Has(ticks[a], {"flow"})
      /\ \A d \in Ends : d # a => ticks'[d] = ticks[d]
    <2>1. /\ <<"close">> \in Seq(TickKinds) /\ ~Has(<<"close">>, {"flow"})
          /\ <<"finish">> \o <<"close">> \in Seq(TickKinds)
          /\ ~Has(<<"finish">> \o <<"close">>, {"flow"})
        BY TickSeqs, Unseen
    <2>2. \/ Later(a, hooked, <<"close">>)
          \/ Later(a, hooked, <<"finish">> \o <<"close">>)
        BY <1>1 DEF EndNow
    <2>3. ASSUME NEW more \in Seq(TickKinds), ~Has(more, {"flow"}),
                 Later(a, hooked, more)
          PROVE  /\ Has(ticks'[a], {"flow"}) <=> Has(ticks[a], {"flow"})
                 /\ \A d \in Ends : d # a => ticks'[d] = ticks[d]
        <3>1. Has(ticks'[a], {"flow"}) <=> Has(hooked, {"flow"})
            BY <1>2, <2>3, LaterHas
        <3>. QED
            BY <1>2, <2>3, <3>1, LaterType DEF TypeOK
    <2>. QED
        BY <2>1, <2>2, <2>3
<1>4. buffer[a] = <<>> => buffer'[a] = <<>>
    BY <1>0
<1>5. ReaderInv(a)'
    BY <1>0, <1>1, <1>3, <1>4 DEF ReaderInv, Has
<1>6. \A d \in Ends : d # a => ReaderSame(d)
    BY <1>0, <1>1 DEF ReaderSame
<1>. QED
    BY <1>3, <1>5, <1>6, ReaderAlone

LEMMA TakeAllReads ==
    ASSUME TypeOK, ReadInv, \A d \in Ends : ReaderInv(d), NEW a \in Ends, TakeAll(a)
    PROVE  \A d \in Ends : ReaderInv(d)'
<1>0. /\ buffer \in [Ends -> Seq(Nat)] /\ ReaderInv(a)
      /\ ticks[a] \in Seq(TickKinds)
    BY DEF TypeOK, ReadTypes
<1>1. up[a] /\ ~flowing[a] /\ UNCHANGED <<up, flowing, ended, destroyed>>
    BY DEF TakeAll
<1>2. CASE buffer[a] = <<>>
    <2>1. /\ StartReading(a) /\ UNCHANGED <<buffer, endEmitted, endHook, ticks>>
        BY <1>2 DEF TakeAll
    <2>2. /\ reading'[a] /\ reads'[a] = 1
          /\ \A d \in Ends : d # a => reading'[d] = reading[d] /\ reads'[d] = reads[d]
        BY <1>0, <2>1, ReaderStarts
    <2>3. ReaderInv(a)'
        BY <1>0, <1>1, <2>1, <2>2 DEF ReaderInv, Has
    <2>. QED
        BY <1>1, <2>1, <2>2, <2>3, ReaderAlone DEF ReaderSame
<1>3. CASE buffer[a] # <<>> /\ ended[a] /\ ~endEmitted[a]
    <2>1. /\ buffer' = [buffer EXCEPT ![a] = <<>>] /\ EmitEnd(a, ticks[a])
          /\ UNCHANGED <<reading, reads>>
        BY <1>3 DEF TakeAll
    <2>. QED
        BY <1>0, <1>1, <1>3, <2>1, EmitEndReads
<1>4. CASE buffer[a] # <<>> /\ ~(ended[a] /\ ~endEmitted[a])
    <2>1. /\ buffer' = [buffer EXCEPT ![a] = <<>>]
          /\ UNCHANGED <<reading, reads, endEmitted, endHook, ticks>>
        BY <1>4 DEF TakeAll
    <2>2. ReaderInv(a)'
        BY <1>0, <1>1, <1>4, <2>1 DEF ReaderInv, Has
    <2>3. \A d \in Ends : d # a => ReaderSame(d)
        BY <1>0, <1>1, <2>1 DEF ReaderSame
    <2>. QED
        BY <1>1, <2>1, <2>2, <2>3, ReaderAlone
<1>. QED
    BY <1>2, <1>3, <1>4

LEMMA TickFlowReads ==
    ASSUME TypeOK, ReadInv, \A d \in Ends : ReaderInv(d), NEW a \in Ends, TickFlow(a)
    PROVE  \A d \in Ends : ReaderInv(d)'
<1>1. /\ Rest(a) \in Seq(TickKinds)
      /\ Has(Rest(a), {"end"}) <=> Has(ticks[a], {"end"})
    <2>1. "flow" \in TickKinds /\ Runs(a, "flow")
        BY DEF TickKinds, TickFlow
    <2>. QED
        BY <2>1, RunsHas
<1>2. UNCHANGED <<up, ended, endEmitted, endHook, destroyed>>
    BY DEF TickFlow
<1>3. CASE flowing[a]
    BY <1>1, <1>2, <1>3, FlowsReads DEF TickFlow
<1>4. CASE ~flowing[a]
    <2>1. /\ Later(a, Rest(a), <<>>) /\ UNCHANGED <<buffer, reading, reads, flowing>>
        BY <1>4 DEF TickFlow
    <2>2. /\ Has(ticks'[a], {"end"}) <=> Has(ticks[a], {"end"})
          /\ \A d \in Ends : d # a => ticks'[d] = ticks[d]
        BY <1>1, <2>1, TickSeqs, HasSingle, LaterHas, LaterType DEF TypeOK
    <2>3. ReaderInv(a)'
        BY <1>2, <1>4, <2>1, <2>2 DEF ReaderInv, Has
    <2>. QED
        BY <1>2, <2>1, <2>2, <2>3, ReaderAlone DEF ReaderSame
<1>. QED
    BY <1>3, <1>4

LEMMA TickEndReads ==
    ASSUME TypeOK, ReadInv, \A d \in Ends : ReaderInv(d), NEW a \in Ends, TickEnd(a)
    PROVE  \A d \in Ends : ReaderInv(d)'
<1>1. /\ Rest(a) \in Seq(TickKinds)
      /\ Has(Rest(a), {"flow"}) <=> Has(ticks[a], {"flow"})
      /\ Has(ticks[a], {"end"})
    <2>1. "end" \in TickKinds /\ Runs(a, "end")
        BY DEF TickKinds, TickEnd
    <2>. QED
        BY <2>1, RunsHas
<1>2. /\ ended[a]
      /\ UNCHANGED <<up, reading, reads, buffer, flowing, ended, destroyed>>
    BY <1>1 DEF TickEnd, ReaderInv
<1>3. CASE endEmitted[a]
    <2>1. Later(a, Rest(a), <<>>) /\ UNCHANGED <<endEmitted, endHook>>
        BY <1>3 DEF TickEnd
    <2>2. /\ Has(ticks'[a], {"flow"}) <=> Has(ticks[a], {"flow"})
          /\ \A d \in Ends : d # a => ticks'[d] = ticks[d]
        BY <1>1, <2>1, TickSeqs, HasSingle, LaterHas, LaterType DEF TypeOK
    <2>3. ReaderInv(a)'
        BY <1>2, <1>3, <2>1, <2>2 DEF ReaderInv, Has
    <2>. QED
        BY <1>2, <2>1, <2>2, <2>3, ReaderAlone DEF ReaderSame
<1>4. CASE ~endEmitted[a]
    BY <1>1, <1>2, <1>4, EmitEndReads DEF TickEnd
<1>. QED
    BY <1>3, <1>4

LEMMA CloseReads ==
    ASSUME TypeOK, \A d \in Ends : ReaderInv(d), Close
    PROVE  \A d \in Ends : ReaderInv(d)'
<1>1. UNCHANGED <<up, readVars>>
    BY DEF Close
<1>2. CASE DestroyNow("server", <<>>)
    BY <1>1, <1>2, DestroySignals, ReaderQuiet DEF Ends
<1>3. CASE UNCHANGED <<destroyed, ticks>>
    BY <1>1, <1>3, ReaderQuiet DEF Signals
<1>. QED
    BY <1>2, <1>3 DEF Close

LEMMA ReaderStep ==
    ASSUME TypeOK, ReadInv, \A d \in Ends : ReaderInv(d), ~broken, [Next]_vars,
           ~broken'
    PROVE  \A d \in Ends : ReaderInv(d)'
<1>1. CASE Connected \/ Accept
    BY <1>1, SetUpReads DEF Connected, Accept, Ends
<1>2. CASE Close \/ Reset
    BY <1>2, CloseReads DEF Reset
<1>3. CASE UNCHANGED vars
    BY <1>3, ReaderQuiet DEF vars, Signals
<1>4. ASSUME NEW a \in Ends, User(a) PROVE \A d \in Ends : ReaderInv(d)'
    <2>1. CASE Resume(a)
        <3>1. ticks[a] \in Seq(TickKinds)
            BY DEF TypeOK
        <3>. QED
            BY <2>1, <3>1, FlowsReads DEF Resume
    <2>. QED
        BY <1>4, <2>1, ReaderOther, TakeAllReads DEF User
<1>5. ASSUME NEW a \in Ends, Gio(a) PROVE \A d \in Ends : ReaderInv(d)'
    BY <1>5, ReaderOther, ReadDataReads, ReadEofReads DEF Gio, WriteFails, ReadFails
<1>6. ASSUME NEW a \in Ends, Tick(a) PROVE \A d \in Ends : ReaderInv(d)'
    BY <1>6, ReaderOther, TickFlowReads, TickEndReads DEF Tick
<1>7. ASSUME NEW a \in Ends, TakeReturn(a) PROVE \A d \in Ends : ReaderInv(d)'
    BY <1>7 DEF TakeReturn, ReaderInv, Has
<1>. QED
    BY <1>1, <1>2, <1>3, <1>4, <1>5, <1>6, <1>7 DEF Next

-----------------------------------------------------------------------------
(* The writing side.                                                        *)
WriterSame(e) ==
    /\ writing'[e] = writing[e] /\ inflight'[e] = inflight[e]
    /\ queue'[e] = queue[e] /\ writableEnded'[e] = writableEnded[e]
    /\ endWaits'[e] = endWaits[e] /\ refused'[e] = refused[e]
    /\ fin'[Peer(e)] = fin[Peer(e)]

LEMMA WriterKept ==
    ASSUME NEW e \in Ends, WriterInv(e), WriterSame(e),
           SameAnswers(ticks[e], ticks'[e])
    PROVE  WriterInv(e)'
BY DEF WriterInv, WriterSame, SameAnswers, Has, One

(* A step that does not write.                                              *)
LEMMA WriterQuiet ==
    ASSUME \A d \in Ends : WriterInv(d), UNCHANGED <<fin, writeVars>>,
           \A d \in Ends : SameAnswers(ticks[d], ticks'[d])
    PROVE  \A d \in Ends : WriterInv(d)'
<1>. SUFFICES ASSUME NEW d \in Ends PROVE WriterInv(d)'
    OBVIOUS
<1>1. WriterSame(d)
    BY DEF WriterSame, writeVars
<1>. QED
    BY <1>1, WriterKept

(* The half that a writes, and shuts, is its own.                           *)
LEMMA WriterAlone ==
    ASSUME \A d \in Ends : WriterInv(d), NEW a \in Ends,
           \A d \in Ends : d # a => WriterSame(d) /\ ticks'[d] = ticks[d],
           WriterInv(a)'
    PROVE  \A d \in Ends : WriterInv(d)'
<1>. SUFFICES ASSUME NEW d \in Ends, d # a PROVE WriterInv(d)'
    OBVIOUS
<1>1. SameAnswers(ticks[d], ticks'[d])
    BY KeepSelf
<1>. QED
    BY <1>1, WriterKept

(* The ticks of a after a step, as the writing side sees them.              *)
LEMMA AnswerTicks ==
    ASSUME TypeOK, NEW a \in Ends, NEW rest \in Seq(TickKinds),
           NEW more \in Seq(TickKinds), Later(a, rest, more),
           SameAnswers(ticks[a], rest), ~Has(more, AnswerKinds)
    PROVE  \A d \in Ends : SameAnswers(ticks[d], ticks'[d])
<1>1. ticks'[a] = rest \o more /\ ticks[a] \in Seq(TickKinds)
    BY LaterType DEF TypeOK
<1>2. SameAnswers(ticks[a], rest \o more)
    BY <1>1, KeepCat
<1>3. \A d \in Ends : d # a => ticks'[d] = ticks[d]
    BY LaterType DEF TypeOK
<1>. QED
    BY <1>1, <1>2, <1>3, KeepSelf

LEMMA AnswerRest ==
    ASSUME TypeOK, NEW a \in Ends, NEW k \in TickKinds \ AnswerKinds, Runs(a, k)
    PROVE  Rest(a) \in Seq(TickKinds) /\ SameAnswers(ticks[a], Rest(a))
<1>1. ticks[a] \in Seq(TickKinds) /\ ticks[a] # <<>> /\ Head(ticks[a]) = k
    BY DEF TypeOK, Runs
<1>2. Tail(ticks[a]) \in Seq(TickKinds)
    BY <1>1
<1>. QED
    BY <1>1, <1>2, KeepTail DEF Rest

LEMMA NoAnswers ==
    /\ ~Has(<<>>, AnswerKinds) /\ ~Has(<<"flow">>, AnswerKinds)
    /\ ~Has(<<"end">>, AnswerKinds) /\ ~Has(<<"finish">>, AnswerKinds)
    /\ ~Has(<<"close">>, AnswerKinds)
    /\ ~Has(<<"finish">> \o <<>>, AnswerKinds)
    /\ ~Has(<<"finish">> \o <<"close">>, AnswerKinds)
    /\ ~Has(<<"error">> \o <<"close">>, AnswerKinds)
    /\ ~Has(<<>> \o <<"close">>, AnswerKinds)
<1>1. /\ ~Has(<<>>, AnswerKinds) /\ ~Has(<<"flow">>, AnswerKinds)
      /\ ~Has(<<"end">>, AnswerKinds) /\ ~Has(<<"finish">>, AnswerKinds)
      /\ ~Has(<<"close">>, AnswerKinds) /\ ~Has(<<"error">>, AnswerKinds)
    BY HasSingle DEF AnswerKinds
<1>2. {<<>>, <<"close">>, <<"finish">>, <<"error">>} \subseteq Seq(TickKinds)
    BY TickSeqs
<1>. QED
    BY <1>1, <1>2, HasCat

(* end(), of the user or of a listener of 'end'.                            *)
LEMMA EndNowWrites ==
    ASSUME TypeOK, \A d \in Ends : WriterInv(d), NEW a \in Ends,
           NEW rest \in Seq(TickKinds), SameAnswers(ticks[a], rest),
           NEW more \in {<<>>, <<"close">>}, EndNow(a, rest, more),
           UNCHANGED <<writing, inflight, queue, refused>>
    PROVE  \A d \in Ends : WriterInv(d)'
<1>0. /\ writableEnded \in [Ends -> BOOLEAN] /\ endWaits \in [Ends -> BOOLEAN]
      /\ fin \in [Ends -> BOOLEAN]
      /\ Peer(a) \in Ends
      /\ \A d \in Ends : d # a => Peer(d) \in Ends /\ Peer(d) # Peer(a)
    BY PeerFacts DEF TypeOK, FlagTypes, WriteTypes
<1>1. \A d \in Ends : SameAnswers(ticks[d], ticks'[d])
    <2>1. /\ more \in Seq(TickKinds) /\ <<"finish">> \o more \in Seq(TickKinds)
          /\ ~Has(more, AnswerKinds) /\ ~Has(<<"finish">> \o more, AnswerKinds)
        BY TickSeqs, NoAnswers
    <2>2. Later(a, rest, more) \/ Later(a, rest, <<"finish">> \o more)
        BY DEF EndNow
    <2>. QED
        BY <2>1, <2>2, AnswerTicks
<1>2. /\ writableEnded'[a]
      /\ endWaits'[a] => endWaits[a] \/ writing[a]
      /\ fin'[Peer(a)] => fin[Peer(a)] \/ ~writing[a]
    <2>1. EndWaits(a) <=> writing[a]
        BY DEF EndWaits, WriterInv
    <2>. QED
        BY <1>0, <2>1 DEF EndNow, DoFinal
<1>3. WriterInv(a)'
    <2>1. SameAnswers(ticks[a], ticks'[a]) /\ WriterInv(a)
        BY <1>1
    <2>. QED
        BY <1>2, <2>1 DEF WriterInv, SameAnswers, Has, One
<1>4. \A d \in Ends : d # a => WriterSame(d)
    BY <1>0 DEF EndNow, DoFinal, WriterSame
<1>. QED
    BY <1>1, <1>3, <1>4, WriterKept

LEMMA WriteWrites ==
    ASSUME TypeOK, \A d \in Ends : WriterInv(d), NEW a \in Ends,
           NEW size \in WriteSizes, Write(a, size)
    PROVE  \A d \in Ends : WriterInv(d)'
<1>. DEFINE units == [i \in 1..size |-> sent[a] + i]
<1>0. /\ writing \in [Ends -> BOOLEAN] /\ inflight \in [Ends -> Seq(Nat)]
      /\ queue \in [Ends -> Seq(Seq(Nat))] /\ ticks[a] \in Seq(TickKinds)
      /\ WriterInv(a)
    BY DEF TypeOK, WriteTypes
<1>1. units # <<>> /\ units \in Seq(Nat)
    <2>1. size \in Nat \ {0} /\ sent[a] \in Nat
        BY SizeAssumption DEF TypeOK, WriteTypes
    <2>2. units \in Seq(Nat) /\ Len(units) = size
        BY <2>1
    <2>. HIDE DEF units
    <2>. QED
        BY <2>1, <2>2
<1>2. /\ ~writableEnded[a]
      /\ UNCHANGED <<fin, writableEnded, endWaits, refused>>
      /\ IF writing[a]
         THEN /\ queue' = [queue EXCEPT ![a] = Append(@, units)]
              /\ UNCHANGED <<writing, inflight, ticks>>
         ELSE /\ writing' = [writing EXCEPT ![a] = TRUE]
              /\ inflight' = [inflight EXCEPT ![a] = IF up[a] THEN units ELSE <<>>]
              /\ Later(a, ticks[a], Refusal(a))
              /\ UNCHANGED queue
    BY DEF Write, StartWrite, netVars
<1>. HIDE DEF units
<1>3. ~endWaits[a] /\ ~fin[Peer(a)]
    BY <1>0, <1>2 DEF WriterInv
<1>4. CASE writing[a]
    <2>1. \A i \in 1..Len(queue'[a]) : queue'[a][i] # <<>>
        <3>1. /\ queue[a] \in Seq(Seq(Nat))
              /\ queue'[a] = Append(queue[a], units)
              /\ \A i \in 1..Len(queue[a]) : queue[a][i] # <<>>
            BY <1>0, <1>2, <1>4 DEF WriterInv
        <3>2. /\ Len(queue'[a]) = Len(queue[a]) + 1
              /\ \A i \in 1..Len(queue[a]) : queue'[a][i] = queue[a][i]
              /\ queue'[a][Len(queue[a]) + 1] = units
            BY <1>1, <3>1, AppendProperties
        <3>3. \A i \in 1..Len(queue'[a]) : \/ i \in 1..Len(queue[a])
                                           \/ i = Len(queue[a]) + 1
            <4>1. Len(queue[a]) \in Nat
                BY <3>1
            <4>. QED
                BY <3>2, <4>1
        <3>. QED
            BY <1>1, <3>1, <3>2, <3>3, Zenon
    <2>2. WriterInv(a)'
        BY <1>0, <1>2, <1>3, <1>4, <2>1 DEF WriterInv, Has, One
    <2>3. \A d \in Ends : d # a => WriterSame(d) /\ ticks'[d] = ticks[d]
        BY <1>0, <1>2, <1>4 DEF WriterSame
    <2>. QED
        BY <2>2, <2>3, WriterAlone
<1>5. CASE ~writing[a]
    <2>1. /\ ~Has(ticks[a], AnswerKinds) /\ inflight[a] = <<>> /\ queue[a] = <<>>
        BY <1>0, <1>5 DEF WriterInv
    <2>2. /\ Refusal(a) \in Seq(TickKinds)
          /\ One(ticks[a] \o Refusal(a))
          /\ Has(ticks[a] \o Refusal(a), AnswerKinds) <=> ~up[a]
        BY <1>0, <2>1, RefusalFacts
    <2>3. /\ ticks'[a] = ticks[a] \o Refusal(a)
          /\ \A d \in Ends : d # a => ticks'[d] = ticks[d]
        BY <1>0, <1>2, <1>5, <2>2, LaterType DEF TypeOK
    <2>4. /\ writing'[a] /\ queue'[a] = <<>>
          /\ inflight'[a] # <<>> <=> up[a]
        BY <1>0, <1>1, <1>2, <1>5, <2>1
    <2>5. Has(ticks'[a], AnswerKinds) <=> ~up[a]
        BY <2>2, <2>3
    <2>6. One(ticks'[a])
        BY <2>2, <2>3
    <2>7. WriterInv(a)'
        BY <1>2, <1>3, <2>4, <2>5, <2>6 DEF WriterInv, Has, One
    <2>8. \A d \in Ends : d # a => WriterSame(d)
        BY <1>0, <1>2, <1>5 DEF WriterSame
    <2>. QED
        BY <2>3, <2>7, <2>8, WriterAlone
<1>. QED
    BY <1>4, <1>5

LEMMA WrittenWrites ==
    ASSUME TypeOK, \A d \in Ends : WriterInv(d), NEW a \in Ends, Written(a)
    PROVE  \A d \in Ends : WriterInv(d)'
<1>0. /\ inflight \in [Ends -> Seq(Nat)] /\ ticks[a] \in Seq(TickKinds)
      /\ WriterInv(a)
    BY DEF TypeOK, WriteTypes
<1>1. /\ inflight[a] # <<>> /\ inflight' = [inflight EXCEPT ![a] = <<>>]
      /\ Later(a, ticks[a], <<"written">>)
      /\ UNCHANGED <<fin, writing, queue, writableEnded, endWaits, refused>>
    BY DEF Written
<1>2. ~Has(ticks[a], AnswerKinds) /\ writing[a]
    BY <1>0, <1>1 DEF WriterInv
<1>3. /\ <<"written">> \in Seq(TickKinds) /\ Has(<<"written">>, AnswerKinds)
      /\ One(<<"written">>)
    BY TickSeqs, HasSingle DEF One, AnswerKinds
<1>4. /\ ticks'[a] = ticks[a] \o <<"written">>
      /\ \A d \in Ends : d # a => ticks'[d] = ticks[d]
    BY <1>0, <1>1, <1>3, LaterType DEF TypeOK
<1>5. Has(ticks'[a], AnswerKinds) /\ One(ticks'[a])
    <2>. DEFINE s == ticks[a]  t == <<"written">>
    <2>1. /\ s \in Seq(TickKinds) /\ t \in Seq(TickKinds) /\ ticks'[a] = s \o t
          /\ ~Has(s, AnswerKinds) /\ Has(t, AnswerKinds) /\ One(t)
        BY <1>0, <1>2, <1>3, <1>4
    <2>. HIDE DEF s, t
    <2>2. Has(s \o t, AnswerKinds) /\ One(s \o t)
        BY <2>1, HasCat, OneCat
    <2>. QED
        BY <2>1, <2>2
<1>6. WriterInv(a)'
    BY <1>0, <1>1, <1>2, <1>5 DEF WriterInv, Has, One
<1>7. \A d \in Ends : d # a => WriterSame(d)
    BY <1>0, <1>1 DEF WriterSame
<1>. QED
    BY <1>4, <1>6, <1>7, WriterAlone

(* The callback of a write: the next one takes the lock, or it is free.     *)
LEMMA TickWrittenWrites ==
    ASSUME TypeOK, \A d \in Ends : WriterInv(d), NEW a \in Ends, TickWritten(a)
    PROVE  \A d \in Ends : WriterInv(d)'
<1>. DEFINE failed == Head(ticks[a]) = "writeFailed"
<1>0. /\ writing \in [Ends -> BOOLEAN] /\ inflight \in [Ends -> Seq(Nat)]
      /\ queue \in [Ends -> Seq(Seq(Nat))] /\ queue[a] \in Seq(Seq(Nat))
      /\ endWaits \in [Ends -> BOOLEAN] /\ refused \in [Ends -> BOOLEAN]
      /\ fin \in [Ends -> BOOLEAN] /\ WriterInv(a)
      /\ Peer(a) \in Ends /\ \A d \in Ends : d # a => Peer(d) # Peer(a)
    BY PeerFacts DEF TypeOK, FlagTypes, WriteTypes
<1>1. /\ ticks[a] \in Seq(TickKinds) /\ ticks[a] # <<>> /\ Head(ticks[a]) \in AnswerKinds
      /\ Rest(a) \in Seq(TickKinds) /\ Rest(a) = Tail(ticks[a])
    <2>1. /\ ticks[a] # <<>> /\ Head(ticks[a]) \in AnswerKinds
        BY DEF TickWritten, Runs, AnswerKinds
    <2>2. ticks[a] \in Seq(TickKinds)
        BY DEF TypeOK
    <2>. QED
        BY <2>1, <2>2, TickSeqs DEF Rest
<1>2. /\ Has(ticks[a], AnswerKinds) /\ ~Has(Rest(a), AnswerKinds) /\ One(Rest(a))
    <2>1. One(ticks[a])
        BY <1>0 DEF WriterInv
    <2>. QED
        BY <1>1, <2>1, HasTail, OneTail
<1>3. writing[a] /\ inflight[a] = <<>>
    BY <1>0, <1>2 DEF WriterInv
<1>4. /\ refused' = [refused EXCEPT ![a] = @ \/ failed]
      /\ UNCHANGED writableEnded
      /\ IF queue[a] # <<>>
         THEN /\ queue' = [queue EXCEPT ![a] = Tail(@)]
              /\ inflight' = [inflight EXCEPT ![a] =
                                 IF up[a] THEN Head(queue[a]) ELSE <<>>]
              /\ Later(a, Rest(a), Refusal(a))
              /\ UNCHANGED <<writing, endWaits, fin>>
         ELSE /\ writing' = [writing EXCEPT ![a] = FALSE]
              /\ IF endWaits[a] /\ ~failed
                 THEN /\ fin' = [fin EXCEPT ![Peer(a)] = @ \/ up[a]]
                      /\ endWaits' = [endWaits EXCEPT ![a] = FALSE]
                      /\ Later(a, Rest(a), <<"finish">>)
                 ELSE /\ Later(a, Rest(a), <<>>)
                      /\ UNCHANGED <<endWaits, fin>>
              /\ UNCHANGED <<queue, inflight>>
    BY DEF TickWritten, StartWrite, DoFinal
<1>. HIDE DEF failed
<1>5. CASE queue[a] # <<>>
    <2>1. /\ Head(queue[a]) # <<>>
          /\ \A i \in 1..Len(Tail(queue[a])) : Tail(queue[a])[i] # <<>>
        <3>1. \A i \in 1..Len(queue[a]) : queue[a][i] # <<>>
            BY <1>0 DEF WriterInv
        <3>2. /\ Head(queue[a]) = queue[a][1] /\ 1 \in 1..Len(queue[a])
              /\ \A i \in 1..Len(Tail(queue[a])) :
                    i + 1 \in 1..Len(queue[a]) /\ Tail(queue[a])[i] = queue[a][i + 1]
            BY <1>0, <1>5
        <3>. QED
            BY <3>1, <3>2
    <2>2. /\ Refusal(a) \in Seq(TickKinds)
          /\ One(Rest(a) \o Refusal(a))
          /\ Has(Rest(a) \o Refusal(a), AnswerKinds) <=> ~up[a]
        BY <1>1, <1>2, RefusalFacts
    <2>3. /\ ticks'[a] = Rest(a) \o Refusal(a)
          /\ \A d \in Ends : d # a => ticks'[d] = ticks[d]
        BY <1>1, <1>4, <1>5, <2>2, LaterType DEF TypeOK
    <2>4. /\ writing'[a] /\ queue'[a] = Tail(queue[a])
          /\ inflight'[a] # <<>> <=> up[a]
        BY <1>0, <1>3, <1>4, <1>5, <2>1
    <2>5. Has(ticks'[a], AnswerKinds) <=> ~up[a]
        BY <2>2, <2>3
    <2>6. One(ticks'[a])
        BY <2>2, <2>3
    <2>7. /\ endWaits'[a] = endWaits[a] /\ fin'[Peer(a)] = fin[Peer(a)]
          /\ writableEnded'[a] = writableEnded[a]
        BY <1>4, <1>5
    <2>8. \A i \in 1..Len(queue'[a]) : queue'[a][i] # <<>>
        BY <2>1, <2>4
    <2>9. WriterInv(a)'
        BY <1>0, <1>3, <2>4, <2>5, <2>6, <2>7, <2>8 DEF WriterInv, Has, One
    <2>10. \A d \in Ends : d # a => WriterSame(d)
        BY <1>0, <1>4, <1>5 DEF WriterSame
    <2>. QED
        BY <2>3, <2>9, <2>10, WriterAlone
<1>6. CASE queue[a] = <<>>
    <2>1. /\ ~Has(ticks'[a], AnswerKinds) /\ One(ticks'[a])
          /\ \A d \in Ends : d # a => ticks'[d] = ticks[d]
        <3>1. \/ Later(a, Rest(a), <<"finish">>) \/ Later(a, Rest(a), <<>>)
            BY <1>4, <1>6
        <3>2. <<"finish">> \in Seq(TickKinds) /\ <<>> \in Seq(TickKinds)
            BY TickSeqs
        <3>3. \/ ticks'[a] = Rest(a) \o <<"finish">> \/ ticks'[a] = Rest(a) \o <<>>
            BY <1>1, <3>1, <3>2, LaterType DEF TypeOK
        <3>4. \A d \in Ends : d # a => ticks'[d] = ticks[d]
            BY <1>1, <3>1, <3>2, LaterType DEF TypeOK
        <3>5. ASSUME NEW t \in Seq(TickKinds), ~Has(t, AnswerKinds)
              PROVE  ~Has(Rest(a) \o t, AnswerKinds) /\ One(Rest(a) \o t)
            <4>. DEFINE r == Rest(a)
            <4>1. r \in Seq(TickKinds) /\ ~Has(r, AnswerKinds) /\ One(r)
                BY <1>1, <1>2
            <4>. HIDE DEF r
            <4>2. ~Has(r \o t, AnswerKinds) /\ One(r \o t)
                BY <3>5, <4>1, HasCat, OneCat
            <4>. QED
                BY <4>2 DEF r
        <3>6. /\ ~Has(Rest(a) \o <<"finish">>, AnswerKinds)
              /\ One(Rest(a) \o <<"finish">>)
            BY <3>2, <3>5, NoAnswers
        <3>7. ~Has(Rest(a) \o <<>>, AnswerKinds) /\ One(Rest(a) \o <<>>)
            BY <3>2, <3>5, NoAnswers
        <3>. QED
            BY <3>3, <3>4, <3>6, <3>7
    <2>2. /\ ~writing'[a] /\ inflight'[a] = <<>> /\ queue'[a] = <<>>
        BY <1>0, <1>3, <1>4, <1>6
    <2>3. /\ endWaits'[a] => endWaits[a] /\ refused'[a]
          /\ fin'[Peer(a)] => fin[Peer(a)] \/ endWaits[a]
          /\ writableEnded'[a] = writableEnded[a]
        BY <1>0, <1>4, <1>6
    <2>4. WriterInv(a)'
        BY <1>0, <2>1, <2>2, <2>3 DEF WriterInv, Has, One
    <2>5. \A d \in Ends : d # a => WriterSame(d)
        <3>. SUFFICES ASSUME NEW d \in Ends, d # a PROVE WriterSame(d)
            OBVIOUS
        <3>1. /\ UNCHANGED <<queue, inflight>> /\ writing'[d] = writing[d]
              /\ refused'[d] = refused[d] /\ writableEnded'[d] = writableEnded[d]
            BY <1>0, <1>4, <1>6
        <3>2. Peer(d) \in Ends /\ Peer(d) # Peer(a)
            BY <1>0, PeerFacts
        <3>3. \/ UNCHANGED <<endWaits, fin>>
              \/ /\ fin' = [fin EXCEPT ![Peer(a)] = @ \/ up[a]]
                 /\ endWaits' = [endWaits EXCEPT ![a] = FALSE]
            BY <1>4, <1>6
        <3>4. endWaits'[d] = endWaits[d] /\ fin'[Peer(d)] = fin[Peer(d)]
            BY <1>0, <3>2, <3>3
        <3>. QED
            BY <3>1, <3>4 DEF WriterSame
    <2>. QED
        BY <2>1, <2>4, <2>5, WriterAlone
<1>. QED
    BY <1>5, <1>6

(* A step that reads, or does not transfer.                                 *)
LEMMA WriterOther ==
    ASSUME TypeOK, \A d \in Ends : WriterInv(d), NEW a \in Ends,
           \/ SetUp(a) \/ Resume(a) \/ Destroy(a)
           \/ \E n \in 1..Room : ReadData(a, n)
           \/ ReadEof(a) \/ TickFlow(a) \/ TickEvent(a)
    PROVE  \A d \in Ends : WriterInv(d)'
<1>0. /\ ticks[a] \in Seq(TickKinds) /\ SameAnswers(ticks[a], ticks[a])
      /\ {<<>>, <<"flow">>, <<"end">>, <<"close">>, <<>> \o <<"close">>}
             \subseteq Seq(TickKinds)
    BY TickSeqs, KeepSelf DEF TypeOK
<1>1. UNCHANGED <<fin, writeVars>>
    BY DEF SetUp, Resume, Destroy, ReadData, ReadEof, TickFlow, TickEvent, netVars
<1>2. ASSUME NEW rest \in Seq(TickKinds), SameAnswers(ticks[a], rest),
             NEW more \in {<<>>, <<"flow">>, <<"end">>, <<"close">>, <<>> \o <<"close">>},
             Later(a, rest, more)
      PROVE  \A d \in Ends : WriterInv(d)'
    BY <1>0, <1>1, <1>2, NoAnswers, AnswerTicks, WriterQuiet
<1>3. ASSUME NEW rest \in Seq(TickKinds), SameAnswers(ticks[a], rest), Flows(a, rest)
      PROVE  \A d \in Ends : WriterInv(d)'
    <2>1. Later(a, rest, <<>>) \/ Later(a, rest, <<"end">>)
        <3>1. ASSUME NEW n, Flow(a, rest, n)
              PROVE  Later(a, rest, <<>>) \/ Later(a, rest, <<"end">>)
            BY <3>1 DEF Flow
        <3>. QED
            BY <1>3, <3>1 DEF Flows, FlowAndPause
    <2>. QED
        BY <1>2, <1>3, <2>1
<1>4. CASE SetUp(a)
    <2>1. \A d \in Ends : SameAnswers(ticks[d], ticks'[d])
        BY <1>4, KeepSelf DEF SetUp
    <2>. QED
        BY <1>1, <2>1, WriterQuiet
<1>5. CASE Resume(a)
    BY <1>0, <1>3, <1>5 DEF Resume
<1>6. CASE Destroy(a)
    <2>1. Later(a, ticks[a], <<>>) \/ Later(a, ticks[a], <<>> \o <<"close">>)
        BY <1>6 DEF Destroy, DestroyNow
    <2>. QED
        BY <1>0, <1>2, <2>1
<1>7. ASSUME NEW n \in 1..Room, ReadData(a, n)
      PROVE  \A d \in Ends : WriterInv(d)'
    <2>1. Later(a, ticks[a], <<>>) \/ Later(a, ticks[a], <<"flow">>)
        BY <1>7 DEF ReadData
    <2>. QED
        BY <1>0, <1>2, <2>1
<1>8. CASE ReadEof(a)
    <2>1. Later(a, ticks[a], <<>>) \/ Later(a, ticks[a], <<"end">>)
        BY <1>8 DEF ReadEof
    <2>. QED
        BY <1>0, <1>2, <2>1
<1>9. CASE TickFlow(a)
    <2>1. "flow" \in TickKinds \ AnswerKinds /\ Runs(a, "flow")
        BY <1>9 DEF TickKinds, AnswerKinds, TickFlow
    <2>2. Rest(a) \in Seq(TickKinds) /\ SameAnswers(ticks[a], Rest(a))
        BY <2>1, AnswerRest
    <2>3. Flows(a, Rest(a)) \/ Later(a, Rest(a), <<>>)
        BY <1>9 DEF TickFlow
    <2>. QED
        BY <1>2, <1>3, <2>2, <2>3
<1>10. CASE TickEvent(a)
    <2>1. \E k \in TickKinds \ AnswerKinds : Runs(a, k)
        BY <1>10 DEF TickKinds, AnswerKinds, TickEvent
    <2>2. Rest(a) \in Seq(TickKinds) /\ SameAnswers(ticks[a], Rest(a))
        BY <2>1, AnswerRest
    <2>3. Later(a, Rest(a), <<>>) \/ Later(a, Rest(a), <<"close">>)
        BY <1>10 DEF TickEvent
    <2>. QED
        BY <1>2, <2>2, <2>3
<1>. QED
    BY <1>4, <1>5, <1>6, <1>7, <1>8, <1>9, <1>10

LEMMA EmitEndWrites ==
    ASSUME TypeOK, \A d \in Ends : WriterInv(d), NEW a \in Ends,
           NEW rest \in Seq(TickKinds), SameAnswers(ticks[a], rest), EmitEnd(a, rest)
    PROVE  \A d \in Ends : WriterInv(d)'
<1>. DEFINE hooked == IF DuplexHook(a) THEN Append(rest, "endAgain") ELSE rest
<1>1. /\ hooked \in Seq(TickKinds) /\ SameAnswers(ticks[a], hooked)
    <2>1. /\ Append(rest, "endAgain") = rest \o <<"endAgain">>
          /\ <<"endAgain">> \in Seq(TickKinds) /\ ~Has(<<"endAgain">>, AnswerKinds)
        BY TickSeqs, HasSingle DEF TickKinds, AnswerKinds
    <2>2. ticks[a] \in Seq(TickKinds)
        BY DEF TypeOK
    <2>3. /\ rest \o <<"endAgain">> \in Seq(TickKinds)
          /\ SameAnswers(ticks[a], rest \o <<"endAgain">>)
        BY <2>1, <2>2, KeepCat, TickSeqs
    <2>. QED
        BY <2>1, <2>3
<1>2. /\ UNCHANGED <<writing, inflight, queue, sent, refused>>
      /\ \/ EndNow(a, hooked, <<"close">>)
         \/ /\ Later(a, hooked, <<"close">>)
            /\ UNCHANGED <<fin, writableEnded, finished, endWaits>>
    BY DEF EmitEnd
<1>. HIDE DEF hooked
<1>3. CASE EndNow(a, hooked, <<"close">>)
    BY <1>1, <1>2, <1>3, EndNowWrites
<1>4. CASE Later(a, hooked, <<"close">>)
           /\ UNCHANGED <<fin, writableEnded, finished, endWaits>>
    <2>1. <<"close">> \in Seq(TickKinds)
        BY TickSeqs
    <2>2. \A d \in Ends : SameAnswers(ticks[d], ticks'[d])
        BY <1>1, <1>4, <2>1, NoAnswers, AnswerTicks
    <2>. QED
        BY <1>2, <1>4, <2>2, WriterQuiet DEF writeVars
<1>. QED
    BY <1>2, <1>3, <1>4

LEMMA EndsWrite ==
    ASSUME TypeOK, \A d \in Ends : WriterInv(d), NEW a \in Ends,
           End(a) \/ TakeAll(a) \/ TickEnd(a) \/ TickEndAgain(a)
    PROVE  \A d \in Ends : WriterInv(d)'
<1>0. /\ ticks[a] \in Seq(TickKinds) /\ <<>> \in Seq(TickKinds)
      /\ \A d \in Ends : SameAnswers(ticks[d], ticks[d])
    BY TickSeqs, KeepSelf DEF TypeOK
<1>1. CASE End(a)
    BY <1>0, <1>1, EndNowWrites DEF End
<1>2. CASE TakeAll(a)
    <2>1. CASE EmitEnd(a, ticks[a])
        BY <1>0, <2>1, EmitEndWrites
    <2>2. CASE UNCHANGED <<netVars, writeVars, ticks>>
        BY <1>0, <2>2, WriterQuiet DEF netVars
    <2>. QED
        BY <1>2, <2>1, <2>2 DEF TakeAll
<1>3. CASE TickEnd(a)
    <2>1. "end" \in TickKinds \ AnswerKinds /\ Runs(a, "end")
        BY <1>3 DEF TickKinds, AnswerKinds, TickEnd
    <2>2. Rest(a) \in Seq(TickKinds) /\ SameAnswers(ticks[a], Rest(a))
        BY <2>1, AnswerRest
    <2>3. CASE Later(a, Rest(a), <<>>) /\ UNCHANGED <<netVars, writeVars>>
        <3>1. \A d \in Ends : SameAnswers(ticks[d], ticks'[d])
            BY <1>0, <2>2, <2>3, NoAnswers, AnswerTicks
        <3>. QED
            BY <2>3, <3>1, WriterQuiet DEF netVars
    <2>. QED
        BY <1>3, <2>2, <2>3, EmitEndWrites DEF TickEnd
<1>4. CASE TickEndAgain(a)
    <2>1. "endAgain" \in TickKinds \ AnswerKinds /\ Runs(a, "endAgain")
        BY <1>4 DEF TickKinds, AnswerKinds, TickEndAgain
    <2>2. Rest(a) \in Seq(TickKinds) /\ SameAnswers(ticks[a], Rest(a))
        BY <2>1, AnswerRest
    <2>. QED
        BY <1>4, <2>2, EndNowWrites DEF TickEndAgain
<1>. QED
    BY <1>1, <1>2, <1>3, <1>4

LEMMA WriterStep ==
    ASSUME TypeOK, \A d \in Ends : WriterInv(d), ~broken, [Next]_vars, ~broken'
    PROVE  \A d \in Ends : WriterInv(d)'
<1>1. CASE Connected \/ Accept
    BY <1>1, WriterOther DEF Connected, Accept, Ends
<1>2. CASE Close \/ Reset
    <2>1. Close /\ UNCHANGED <<fin, writeVars>>
        BY <1>2 DEF Close, Reset, netVars
    <2>2. \A d \in Ends : SameAnswers(ticks[d], ticks'[d])
        <3>1. CASE ticks' = ticks
            BY <3>1, KeepSelf
        <3>2. CASE DestroyNow("server", <<>>)
            <4>1. /\ <<>> \in Seq(TickKinds) /\ <<>> \o <<"close">> \in Seq(TickKinds)
                  /\ "server" \in Ends /\ ticks["server"] \in Seq(TickKinds)
                BY TickSeqs DEF TypeOK, Ends
            <4>2. \/ Later("server", ticks["server"], <<>>)
                  \/ Later("server", ticks["server"], <<>> \o <<"close">>)
                BY <3>2 DEF DestroyNow
            <4>. QED
                BY <4>1, <4>2, KeepSelf, NoAnswers, AnswerTicks
        <3>. QED
            BY <2>1, <3>1, <3>2 DEF Close
    <2>. QED
        BY <2>1, <2>2, WriterQuiet
<1>3. CASE UNCHANGED vars
    <2>1. \A d \in Ends : SameAnswers(ticks[d], ticks'[d])
        BY <1>3, KeepSelf DEF vars
    <2>. QED
        BY <1>3, <2>1, WriterQuiet DEF vars, netVars
<1>4. ASSUME NEW a \in Ends, User(a) PROVE \A d \in Ends : WriterInv(d)'
    BY <1>4, WriteWrites, WriterOther, EndsWrite DEF User
<1>5. ASSUME NEW a \in Ends, Gio(a) PROVE \A d \in Ends : WriterInv(d)'
    BY <1>5, WrittenWrites, WriterOther DEF Gio, WriteFails, ReadFails
<1>6. ASSUME NEW a \in Ends, Tick(a) PROVE \A d \in Ends : WriterInv(d)'
    BY <1>6, TickWrittenWrites, WriterOther, EndsWrite DEF Tick
<1>7. ASSUME NEW a \in Ends, TakeReturn(a) PROVE \A d \in Ends : WriterInv(d)'
    <2>1. \A d \in Ends : SameAnswers(ticks[d], ticks'[d])
        BY <1>7, KeepSelf DEF TakeReturn
    <2>. QED
        BY <1>7, <2>1, WriterQuiet DEF TakeReturn, netVars
<1>. QED
    BY <1>1, <1>2, <1>3, <1>4, <1>5, <1>6, <1>7 DEF Next

-----------------------------------------------------------------------------
(* The link: what was shut stays shut, and an end() that waits shuts.       *)
LEMMA LinkKept ==
    ASSUME \A e \in Ends : LinkInv(e),
           \A e \in Ends : /\ fin[e] => fin'[e]
                           /\ ended'[e] => ended[e]
                           /\ ended[e] => wire'[e] = <<>>
                           /\ endEmitted'[e] /\ e \notin HalfOpen =>
                                 \/ fin'[Peer(e)] \/ endWaits'[e]
                                 \/ endEmitted[e] /\ (endWaits[e] => endWaits'[e])
    PROVE  \A e \in Ends : LinkInv(e)'
<1>. SUFFICES ASSUME NEW e \in Ends PROVE LinkInv(e)'
    OBVIOUS
<1>1. Peer(e) \in Ends /\ LinkInv(e)
    BY PeerFacts
<1>. QED
    BY <1>1 DEF LinkInv

LEMMA LinkQuiet ==
    ASSUME TypeOK, \A e \in Ends : LinkInv(e), NEW a \in Ends,
           \/ SetUp(a) \/ Resume(a) \/ Destroy(a) \/ TickFlow(a) \/ TickEvent(a)
           \/ \E size \in WriteSizes : Write(a, size)
    PROVE  \A e \in Ends : LinkInv(e)'
<1>1. UNCHANGED <<wire, fin, ended, endEmitted, endWaits>>
    BY DEF SetUp, Resume, Destroy, TickFlow, TickEvent, Write, netVars, readVars,
           writeVars
<1>. QED
    BY <1>1, LinkKept DEF LinkInv

(* The peer of a socket whose data have ended writes nothing more.          *)
LEMMA LinkWritten ==
    ASSUME TypeOK, \A e \in Ends : WriterInv(e) /\ LinkInv(e), NEW a \in Ends,
           Written(a)
    PROVE  \A e \in Ends : LinkInv(e)'
<1>1. /\ inflight[a] # <<>> /\ UNCHANGED <<fin, ended, endEmitted, endWaits>>
      /\ Peer(a) \in Ends /\ wire \in [Ends -> Seq(Nat)]
      /\ \A e \in Ends : e # Peer(a) => wire'[e] = wire[e]
    BY PeerFacts DEF Written, readVars, TypeOK, ReadTypes
<1>2. ~ended[Peer(a)]
    BY <1>1 DEF WriterInv, LinkInv
<1>3. \A e \in Ends : ended[e] => wire'[e] = <<>>
    BY <1>1, <1>2 DEF LinkInv
<1>. QED
    BY <1>1, <1>3, LinkKept

LEMMA LinkEndNow ==
    ASSUME TypeOK, NEW a \in Ends, NEW rest, NEW more, EndNow(a, rest, more)
    PROVE  /\ \A e \in Ends : fin[e] => fin'[e]
           /\ \A e \in Ends : endWaits[e] => endWaits'[e]
           /\ up[a] => fin'[Peer(a)] \/ endWaits'[a]
<1>1. /\ endWaits \in [Ends -> BOOLEAN] /\ fin \in [Ends -> BOOLEAN]
      /\ Peer(a) \in Ends
    BY PeerFacts DEF TypeOK, FlagTypes, WriteTypes
<1>. QED
    BY <1>1 DEF EndNow, DoFinal

LEMMA LinkEnds ==
    ASSUME TypeOK, \A e \in Ends : LinkInv(e), NEW a \in Ends,
           End(a) \/ TickEndAgain(a)
    PROVE  \A e \in Ends : LinkInv(e)'
<1>1. UNCHANGED <<wire, ended, endEmitted>>
    BY DEF End, TickEndAgain, readVars
<1>2. \E rest : EndNow(a, rest, <<>>)
    BY DEF End, TickEndAgain
<1>3. /\ \A e \in Ends : fin[e] => fin'[e]
      /\ \A e \in Ends : endWaits[e] => endWaits'[e]
    BY <1>2, LinkEndNow
<1>. QED
    BY <1>1, <1>3, LinkKept DEF LinkInv

(* 'end' ends the other half, unless it is half-open.                       *)
LEMMA LinkEmitEnd ==
    ASSUME TypeOK, \A e \in Ends : ReaderInv(e) /\ LinkInv(e), NEW a \in Ends,
           ended[a], ~endEmitted[a], NEW rest, EmitEnd(a, rest), UNCHANGED ended
    PROVE  \A e \in Ends : LinkInv(e)'
<1>1. /\ endEmitted \in [Ends -> BOOLEAN] /\ up[a] /\ (endHook[a] \/ a \in HalfOpen)
    BY DEF TypeOK, ReadTypes, ReaderInv
<1>2. /\ endEmitted' = [endEmitted EXCEPT ![a] = TRUE] /\ wire' = wire
      /\ IF endHook[a] THEN \E hooked : EndNow(a, hooked, <<"close">>)
         ELSE UNCHANGED <<fin, endWaits>>
    BY DEF EmitEnd
<1>3. /\ \A e \in Ends : fin[e] => fin'[e]
      /\ \A e \in Ends : endWaits[e] => endWaits'[e]
      /\ a \notin HalfOpen => fin'[Peer(a)] \/ endWaits'[a]
    BY <1>1, <1>2, LinkEndNow
<1>. QED
    BY <1>1, <1>2, <1>3, LinkKept DEF LinkInv

LEMMA LinkTakeAll ==
    ASSUME TypeOK, \A e \in Ends : ReaderInv(e) /\ LinkInv(e), NEW a \in Ends,
           TakeAll(a) \/ TickEnd(a)
    PROVE  \A e \in Ends : LinkInv(e)'
<1>1. UNCHANGED ended
    BY DEF TakeAll, TickEnd
<1>2. CASE UNCHANGED <<endEmitted, netVars, writeVars>>
    BY <1>1, <1>2, LinkKept DEF netVars, writeVars, LinkInv
<1>3. ASSUME NEW rest, EmitEnd(a, rest), ended[a], ~endEmitted[a]
      PROVE  \A e \in Ends : LinkInv(e)'
    BY <1>1, <1>3, LinkEmitEnd
<1>4. CASE TakeAll(a)
    BY <1>2, <1>3, <1>4 DEF TakeAll
<1>5. CASE TickEnd(a)
    <2>1. "end" \in TickKinds /\ Runs(a, "end")
        BY <1>5 DEF TickKinds, TickEnd
    <2>2. Has(ticks[a], {"end"})
        BY <2>1, RunsHas
    <2>3. ended[a]
        BY <2>2 DEF ReaderInv
    <2>. QED
        BY <1>2, <1>3, <1>5, <2>3 DEF TickEnd
<1>. QED
    BY <1>4, <1>5

LEMMA LinkReads ==
    ASSUME TypeOK, \A e \in Ends : LinkInv(e), NEW a \in Ends,
           (\E n \in 1..Room : ReadData(a, n)) \/ ReadEof(a)
    PROVE  \A e \in Ends : LinkInv(e)'
<1>0. /\ wire \in [Ends -> Seq(Nat)] /\ ended \in [Ends -> BOOLEAN]
      /\ wire[a] \in Seq(Nat) /\ LinkInv(a)
    BY DEF TypeOK, ReadTypes
<1>1. ASSUME NEW n \in 1..Room, ReadData(a, n)
      PROVE  \A e \in Ends : LinkInv(e)'
    <2>1. /\ n \in 1..Len(wire[a]) /\ UNCHANGED <<fin, ended, endEmitted, endWaits>>
          /\ \A e \in Ends : e # a => wire'[e] = wire[e]
        BY <1>0, <1>1 DEF ReadData, writeVars
    <2>2. wire[a] # <<>>
        BY <1>0, <2>1
    <2>. QED
        BY <1>0, <2>1, <2>2, LinkKept DEF LinkInv
<1>2. CASE ReadEof(a)
    <2>1. /\ fin[a] /\ wire[a] = <<>> /\ UNCHANGED <<fin, wire, endEmitted, endWaits>>
          /\ \A e \in Ends : e # a => ended'[e] = ended[e]
        BY <1>0, <1>2 DEF ReadEof, AtEof, netVars, writeVars
    <2>. QED
        BY <2>1 DEF LinkInv
<1>. QED
    BY <1>1, <1>2

LEMMA LinkTickWritten ==
    ASSUME TypeOK, \A e \in Ends : ReaderInv(e) /\ LinkInv(e), NEW a \in Ends,
           TickWritten(a)
    PROVE  \A e \in Ends : LinkInv(e)'
<1>1. /\ endWaits \in [Ends -> BOOLEAN] /\ fin \in [Ends -> BOOLEAN]
      /\ Peer(a) \in Ends /\ UNCHANGED <<wire, ended, endEmitted>>
    BY PeerFacts DEF TypeOK, FlagTypes, WriteTypes, TickWritten, readVars
<1>2. \/ UNCHANGED <<endWaits, fin>>
      \/ /\ endWaits' = [endWaits EXCEPT ![a] = FALSE]
         /\ fin' = [fin EXCEPT ![Peer(a)] = @ \/ up[a]]
    BY DEF TickWritten, DoFinal
<1>3. /\ \A e \in Ends : fin[e] => fin'[e]
      /\ \A e \in Ends : e # a => endWaits'[e] = endWaits[e]
      /\ up[a] /\ endWaits[a] => endWaits'[a] \/ fin'[Peer(a)]
    BY <1>1, <1>2
<1>4. endEmitted[a] => up[a]
    BY DEF ReaderInv
<1>. QED
    BY <1>1, <1>3, <1>4, LinkKept DEF LinkInv

LEMMA LinkStep ==
    ASSUME TypeOK, Awake, ~broken, [Next]_vars, ~broken'
    PROVE  \A e \in Ends : LinkInv(e)'
<1>. USE DEF Awake
<1>1. CASE Connected \/ Accept
    BY <1>1, LinkQuiet DEF Connected, Accept, Ends
<1>2. CASE Close \/ Reset \/ (\E a \in Ends : TakeReturn(a)) \/ UNCHANGED vars
    <2>1. UNCHANGED <<wire, fin, ended, endEmitted, endWaits>>
        BY <1>2 DEF Close, Reset, TakeReturn, vars, netVars, readVars, writeVars
    <2>. QED
        BY <2>1, LinkKept DEF LinkInv
<1>3. ASSUME NEW a \in Ends, User(a) PROVE \A e \in Ends : LinkInv(e)'
    BY <1>3, LinkQuiet, LinkEnds, LinkTakeAll DEF User
<1>4. ASSUME NEW a \in Ends, Gio(a) PROVE \A e \in Ends : LinkInv(e)'
    BY <1>4, LinkWritten, LinkReads DEF Gio, WriteFails, ReadFails
<1>5. ASSUME NEW a \in Ends, Tick(a) PROVE \A e \in Ends : LinkInv(e)'
    BY <1>5, LinkQuiet, LinkEnds, LinkTakeAll, LinkTickWritten DEF Tick
<1>. QED
    BY <1>1, <1>2, <1>3, <1>4, <1>5 DEF Next

-----------------------------------------------------------------------------
AwakeInv == ~broken => Awake

LEMMA BrokenStays == [Next]_vars /\ broken => broken'
<1>. SUFFICES ASSUME [Next]_vars, broken PROVE broken'
    OBVIOUS
<1>1. CASE Reset
    BY <1>1 DEF Reset
<1>2. CASE Connected \/ Accept \/ Close \/ UNCHANGED vars
    BY <1>2 DEF Connected, Accept, SetUp, Close, vars, netVars
<1>3. ASSUME NEW a \in Ends, User(a) \/ TakeReturn(a) PROVE broken'
    BY <1>3 DEF User, Write, End, Resume, TakeAll, EmitEnd, Destroy, TakeReturn,
                netVars
<1>4. ASSUME NEW a \in Ends, Gio(a) PROVE broken'
    BY <1>4 DEF Gio, Written, WriteFails, ReadData, ReadEof, ReadFails, netVars
<1>5. ASSUME NEW a \in Ends, Tick(a) PROVE broken'
    BY <1>5 DEF Tick, TickFlow, TickEnd, EmitEnd, TickEndAgain, TickWritten,
                TickEvent, netVars
<1>. QED
    BY <1>1, <1>2, <1>3, <1>4, <1>5 DEF Next

LEMMA AwakeInit == Init => AwakeInv
<1>. SUFFICES ASSUME Init, NEW e \in Ends
              PROVE  ReaderInv(e) /\ WriterInv(e) /\ LinkInv(e)
    BY DEF AwakeInv, Awake
<1>1. Peer(e) \in Ends
    BY PeerFacts
<1>2. /\ ~reading[e] /\ ~flowing[e] /\ ~ended[e] /\ ~endEmitted[e]
      /\ ticks[e] = <<>> /\ inflight[e] = <<>> /\ queue[e] = <<>>
      /\ ~writing[e] /\ ~endWaits[e] /\ ~fin[Peer(e)]
    BY <1>1 DEF Init
<1>3. ~Has(<<>>, {"flow"}) /\ ~Has(<<>>, {"end"}) /\ ~Has(<<>>, AnswerKinds)
      /\ One(<<>>)
    BY DEF Has, One
<1>. QED
    BY <1>2, <1>3 DEF ReaderInv, WriterInv, LinkInv

LEMMA AwakeStep == TypeOK /\ ReadInv /\ AwakeInv /\ [Next]_vars => AwakeInv'
<1>. SUFFICES ASSUME TypeOK, ReadInv, AwakeInv, [Next]_vars, ~broken' PROVE Awake'
    BY DEF AwakeInv
<1>1. ~broken /\ Awake
    BY BrokenStays DEF AwakeInv
<1>2. \A e \in Ends : ReaderInv(e)'
    BY <1>1, ReaderStep DEF Awake
<1>3. \A e \in Ends : WriterInv(e)'
    BY <1>1, WriterStep DEF Awake
<1>4. \A e \in Ends : LinkInv(e)'
    BY <1>1, LinkStep
<1>. QED
    BY <1>2, <1>3, <1>4 DEF Awake

(* When neither process has a tick to run, a read() to return from or an    *)
(* operation that GIO can finish, nothing is left behind: a connected socket*)
(* that flows has consumed what its peer had out, and got 'end' if the peer *)
(* ended; and one that got 'end' has closed its half unless half-open, or   *)
(* its last write waits for room.                                           *)
THEOREM NothingLeft == Spec => []EndReaches
<1>1. TypeOK /\ AwakeInv => EndReaches
    <2>. SUFFICES ASSUME TypeOK, AwakeInv, Idle, ~broken, NEW e \in Ends
                  PROVE  /\ up[e] /\ flowing[e] /\ ~destroyed[e] =>
                              /\ wire[e] = <<>> /\ buffer[e] = <<>>
                              /\ inflight[Peer(e)] = <<>>
                              /\ endWaits[Peer(e)] => refused[Peer(e)]
                              /\ fin[e] => endEmitted[e]
                         /\ endEmitted[e] /\ e \notin HalfOpen =>
                              fin[Peer(e)] \/ endWaits[e]
        BY Zenon DEF EndReaches
    <2>0. /\ Peer(e) \in Ends /\ Peer(Peer(e)) = e
          /\ ReaderInv(e) /\ LinkInv(e) /\ WriterInv(Peer(e))
        BY PeerFacts DEF AwakeInv, Awake
    <2>1. /\ ticks[e] = <<>> /\ ticks[Peer(e)] = <<>>
          /\ inflight[Peer(e)] # <<>> => Len(wire[e]) = Room
          /\ reads[e] > 0 => wire[e] = <<>> /\ ~fin[e]
        BY <2>0 DEF Idle
    <2>2. ~Has(<<>>, {"flow"}) /\ ~Has(<<>>, {"end"}) /\ ~Has(<<>>, AnswerKinds)
        BY HasSingle
    <2>3. CASE up[e] /\ flowing[e] /\ ~destroyed[e]
        <3>1. buffer[e] = <<>> /\ (ended[e] \/ reads[e] = 1)
            BY <2>0, <2>1, <2>2, <2>3 DEF ReaderInv
        <3>2. wire[e] = <<>> /\ (~ended[e] => ~fin[e])
            BY <2>0, <2>1, <3>1 DEF LinkInv
        <3>3. inflight[Peer(e)] = <<>>
            <4>1. Room # 0
                BY BoundAssumption
            <4>. QED
                BY <2>1, <3>2, <4>1
        <3>4. endWaits[Peer(e)] => refused[Peer(e)]
            BY <2>0, <2>1, <2>2, <3>3 DEF WriterInv
        <3>5. ended[e] => endEmitted[e]
            BY <2>0, <2>1, <2>2, <3>1 DEF ReaderInv
        <3>. QED
            BY <2>0, <3>1, <3>2, <3>3, <3>4, <3>5 DEF LinkInv
    <2>. QED
        BY <2>0, <2>3 DEF LinkInv
<1>2. Init => ReadInv
    BY DEF Init, ReadInv
<1>. QED
    BY <1>1, <1>2, TypeInit, TypeStep, ReadStep, AwakeInit, AwakeStep, PTL
       DEF Spec
=============================================================================
