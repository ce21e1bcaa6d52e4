------------------------------ MODULE MCMplex ------------------------------
(* Instances of Mplex for TLC: the calls that the applications may make. *)
EXTENDS Mplex

Req(e, kind, n) == [end |-> e, kind |-> kind, n |-> n]

\* A stream of each end, both with the number 0; only the one of A is
\* accepted, and a second stream of B finds no id left.
BothOpen == {Req("A", "open", 1), Req("B", "accept", 1),
             Req("B", "open", 1), Req("B", "open", 2)}
\* Two streams of A and the end of the connection by either side.
OpenAndClose == {Req("A", "open", 1), Req("A", "open", 2),
                 Req("B", "accept", 1), Req("B", "accept", 2),
                 Req("A", "close", 1), Req("B", "close", 1)}

OneByA == [A |-> 1, B |-> 0]
OneByB == [A |-> 0, B |-> 1]
=============================================================================
