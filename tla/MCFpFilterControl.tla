------------------------- MODULE MCFpFilterControl -------------------------
(***************************************************************************)
(* FpFilterControl on a short stream.  The counts make one frame in two    *)
(* worth saving: 1 true positive against 2 false ones, none against 1.     *)
(***************************************************************************)
EXTENDS FpFilterControl, TLC

CONSTANTS b0, b1, b2

\* Four frames with a sticky event among them.
MixedStream == <<"frame", "event", "frame", "frame", "frame">>
MixedTp == <<1, 0, 1, 0, 3>>
MixedFp == <<2, 0, 1, 1, 1>>

\* Two frames with a sticky event between them.
ShortStream == <<"frame", "event", "frame">>
ShortTp == <<1, 0, 0>>
ShortFp == <<2, 0, 1>>

\* The bins that requests create are alike.
AddedBins == Permutations({b1, b2})
=============================================================================
