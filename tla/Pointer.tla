------------------------------- MODULE Pointer -------------------------------
(***************************************************************************)
(* What a user sees of KRdp::Cursor: with every cursor update the client's *)
(* pointer becomes the one asked for, which is the client's own default    *)
(* when the image is too big.                                              *)
(***************************************************************************)
CONSTANTS Images, Default

VARIABLES requested, shown

Init == requested = Default /\ shown = Default
Show(p) == requested' = p /\ shown' = p
Next == \E p \in Images \cup {Default} : Show(p)
Spec == Init /\ [][Next]_<<requested, shown>>
=============================================================================
