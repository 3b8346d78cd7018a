------------------------------- MODULE GfxCaps -------------------------------
(***************************************************************************)
(* The capability selection of VideoStream::onCapsAdvertise                *)
(* (src/VideoStream.cpp).  A capability set is a protocol version and      *)
(* whether its flags leave AVC on: AVC_DISABLED is clear (10 and later) or *)
(* AVC420_ENABLED is set (8.1).                                            *)
(***************************************************************************)
EXTENDS Integers

\* 8, 8.1 and 10 .. 10.7, in the order of their version numbers.
Versions == {80, 81, 100, 101, 102, 103, 104, 105, 106, 107}
Caps == [version : Versions, avc : BOOLEAN]

AvcSupported(c) == c.version # 80 /\ c.avc

\* 10.4 and later always; 8.1 together with AVC.
Yuv420Supported(c) ==
  \/ c.version >= 104
  \/ c.version = 81 /\ c.avc

Supported(adv) == \E c \in adv : AvcSupported(c) /\ Yuv420Supported(c)

\* The set confirmed: the highest version, whether or not it is the one that
\* made the advertisement supported.
Selected(adv) == CHOOSE c \in adv : \A o \in adv : o.version <= c.version
=============================================================================
