--------------------------- MODULE MCDisplayControl ---------------------------
(* Monitors on a small grid; the odd width and the tall monitor are unsupported. *)
EXTENDS DisplayControl

Wire ==
  [left : {-2, 0, 2, 4}, top : {0, 2}, width : {2, 4}, height : {2}, primary : {FALSE}] \cup
  [left : {0, 2}, top : {0}, width : {2, 4}, height : {2, 3}, primary : {TRUE}] \cup
  [left : {2}, top : {-3, -1}, width : {2, 3}, height : {3, 4}, primary : {FALSE}]

Monitor(x, w, p) == [left |-> x, top |-> 0, width |-> w, height |-> 2, primary |-> p]
One == <<Monitor(0, 2, TRUE)>>
Two == <<Monitor(0, 2, TRUE), Monitor(2, 2, FALSE)>>
Apart == <<Monitor(0, 2, TRUE), Monitor(4, 2, FALSE)>>
Four == Two \o <<Monitor(4, 2, FALSE), Monitor(-2, 2, FALSE)>>

\* All lists of up to three records, and one more than is supported.
MCLists == UNION {[1..n -> Wire] : n \in 0..3} \cup {Four}
MCPdus == {One, Two, Apart, <<>>}
=============================================================================
