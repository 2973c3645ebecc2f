--------------------------------- MODULE MCNet ---------------------------------
EXTENDS Net

MCUnits == [client |-> 2, server |-> 1]
MCOneEach == [client |-> 1, server |-> 1]
=============================================================================
