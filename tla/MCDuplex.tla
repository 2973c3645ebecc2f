------------------------------ MODULE MCDuplex ------------------------------
(* The streams that TLC checks: the second chunk is as large as the mark.   *)
EXTENDS Duplex

MCSize == [w \in Writes |-> IF w = 2 THEN 2 ELSE 1]

Plain == [transform |-> FALSE, ownFinal |-> FALSE, halfOpen |-> TRUE,
          corks |-> FALSE, fails |-> FALSE, reenters |-> FALSE]
Transforming == [Plain EXCEPT !.transform = TRUE]
Failing(u) == [u EXCEPT !.fails = TRUE]

AllUses == {
    [Plain EXCEPT !.reenters = TRUE],
    Failing([Transforming EXCEPT !.halfOpen = FALSE]),
    Failing([Transforming EXCEPT !.ownFinal = TRUE]),
    Failing([Plain EXCEPT !.corks = TRUE, !.ownFinal = TRUE])}
=============================================================================
