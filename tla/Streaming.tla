------------------------------ MODULE Streaming ------------------------------
(***************************************************************************)
(* What AbstractSession promises of its encoder: it runs exactly while the *)
(* session has been started and somebody asks for the stream.              *)
(***************************************************************************)
CONSTANT Requesters

VARIABLES
  asked,    \* who asks for the stream
  started,  \* the compositor delivers
  active    \* the encoder runs

vars == <<asked, started, active>>

Init == asked = {} /\ started = FALSE /\ active = FALSE

Ask(r) == asked' = asked \cup {r} /\ active' = started /\ UNCHANGED started

Withdraw(r) ==
  /\ asked' = asked \ {r}
  /\ active' = (started /\ asked' # {})
  /\ UNCHANGED started

Start == started' = TRUE /\ active' = (asked # {}) /\ UNCHANGED asked

End == asked' = {} /\ started' = FALSE /\ active' = FALSE

Next == (\E r \in Requesters : Ask(r) \/ Withdraw(r)) \/ Start \/ End

Spec == Init /\ [][Next]_vars
=============================================================================
