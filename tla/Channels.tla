------------------------------ MODULE Channels ------------------------------
(***************************************************************************)
(* What the ports of message channels promise: an end of a channel gets    *)
(* the messages posted to it in their order, each at most once, and one is *)
(* only lost when the port that has the end is closed or gives it away.    *)
(***************************************************************************)
EXTENDS Naturals, Sequences

CONSTANTS Ends, MaxPorts

VARIABLES
    sent,     \* number of messages posted to each end
    transit,  \* the messages on their way to it
    got,      \* those its owners were told of
    owner     \* the port that has the end, 0 after its close()

absVars == <<sent, transit, got, owner>>

AbsInit == /\ sent = [e \in Ends |-> 0] /\ owner = [e \in Ends |-> e]
           /\ transit = [e \in Ends |-> <<>>] /\ got = [e \in Ends |-> <<>>]

SendTo(e) == /\ owner[e] # 0
             /\ sent' = [sent EXCEPT ![e] = @ + 1]
             /\ transit' = [transit EXCEPT ![e] = Append(@, sent'[e])]
             /\ UNCHANGED <<got, owner>>

DeliverTo(e) == /\ transit[e] # <<>>
                /\ got' = [got EXCEPT ![e] = Append(@, Head(transit[e]))]
                /\ transit' = [transit EXCEPT ![e] = Tail(@)]
                /\ UNCHANGED <<sent, owner>>

CloseOf(e) == /\ owner[e] # 0
              /\ owner' = [owner EXCEPT ![e] = 0]
              /\ transit' = [transit EXCEPT ![e] = <<>>]
              /\ UNCHANGED <<sent, got>>

(* A message to e moves the end f to another port.                         *)
MoveBy(e, f) ==
    /\ owner[e] # 0 /\ owner[f] # 0
    /\ \E p \in 1..MaxPorts : p # owner[f] /\ owner' = [owner EXCEPT ![f] = p]
    /\ sent' = [sent EXCEPT ![e] = @ + 1]
    /\ transit' = [[transit EXCEPT ![e] = Append(@, sent'[e])]
                     EXCEPT ![f] = <<>>]
    /\ UNCHANGED got

AbsNext == \E e \in Ends : \/ SendTo(e) \/ DeliverTo(e) \/ CloseOf(e)
                           \/ \E f \in Ends : MoveBy(e, f)

AbsSpec == AbsInit /\ [][AbsNext]_absVars
=============================================================================
