---------------------------- MODULE MCVideoStream ----------------------------
(***************************************************************************)
(* Small instances of VideoStream.  Left and Right are two arrangements of *)
(* the same two monitors, so their frames have the same sizes; Lone is one *)
(* monitor, as large as one of the two.                                    *)
(***************************************************************************)
EXTENDS VideoStream

CONSTANTS wide, narrow, left, right, lone

MCSizes == {wide, narrow}
MCTopologies == {left, right, lone}
Left  == [topology |-> left,  extent |-> wide, outputs |-> <<narrow, narrow>>]
Right == [topology |-> right, extent |-> wide, outputs |-> <<narrow, narrow>>]
Lone  == [topology |-> lone,  extent |-> narrow, outputs |-> <<narrow>>]

AllLayouts  == {Left, Right, Lone}
TwoLayouts  == {Left, Lone}
SwapLayouts == {Left, Right}

\* AVC on an old version only; AVC off everywhere.
Old == [version |-> 81, avc |-> TRUE]
New == [version |-> 107, avc |-> TRUE]
NewDisabled == [version |-> 107, avc |-> FALSE]
MCAdvertisements == {{Old, New}, {NewDisabled}}
GoodAdvertisements == {{Old, New}}
=============================================================================
