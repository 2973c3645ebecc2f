------------------------------- MODULE MCPipe -------------------------------
(* The sources that TLC pipes: one that answers each _read, within it or    *)
(* later, and may be destroyed, and one that pushes when it likes.          *)
EXTENDS Pipe

Source(s, c) == [source |-> s, consumer |-> {"data"}, objects |-> TRUE,
                 sizes |-> {1}, pauses |-> FALSE, unshifts |-> FALSE,
                 constructs |-> c, destroys |-> c]
Sources == {Source("pull", TRUE), Source("eager", FALSE)}
=============================================================================
