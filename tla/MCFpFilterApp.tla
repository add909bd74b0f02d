--------------------------- MODULE MCFpFilterApp ---------------------------
(***************************************************************************)
(* FpFilterApp on a short stream whose frames are all worth saving.        *)
(***************************************************************************)
EXTENDS FpFilterApp

CONSTANTS b0, b1

ShortStream == <<"frame", "frame">>
Tp == <<1, 0>>
Fp == <<2, 2>>
=============================================================================
