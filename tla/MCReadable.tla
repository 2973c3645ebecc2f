----------------------------- MODULE MCReadable -----------------------------
(* The uses of Readable that TLC checks.                                    *)
EXTENDS Readable

Use == [source |-> "eager", consumer |-> {"data"}, objects |-> FALSE,
        sizes |-> {1}, pauses |-> FALSE, unshifts |-> FALSE,
        constructs |-> FALSE, destroys |-> FALSE]
With(u) == [u EXCEPT !.constructs = TRUE, !.destroys = TRUE]
Paused(u) == [u EXCEPT !.pauses = TRUE]

(* Chunks that are empty, or longer than a read(n); objects; listeners of a *)
(* stream that may be destroyed; and Readable.from.                         *)
SafeUses == {
    [Paused(Use) EXCEPT !.consumer = {"data", "read", "sized"},
                        !.sizes = {0, 1, 3}, !.unshifts = TRUE],
    [Paused(Use) EXCEPT !.consumer = {"data", "readable", "read", "sized"},
                        !.objects = TRUE, !.unshifts = TRUE],
    [Paused(With(Use)) EXCEPT !.consumer = {"data", "readable"}],
    [Paused(Use) EXCEPT !.source = "from", !.objects = TRUE,
                        !.consumer = {"data", "readable"}]}

(* A source that answers _read, one that reads a Gio stream, paused or not, *)
(* and a consumer that waits for 'readable'.                                *)
LiveUses == {
    [Paused(With(Use)) EXCEPT !.source = "pull"],
    [Paused(With(Use)) EXCEPT !.source = "gio"],
    [With(Use) EXCEPT !.source = "gio"],
    [With(Use) EXCEPT !.consumer = {"readable", "sized"}]}
=============================================================================
