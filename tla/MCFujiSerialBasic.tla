-------------------------- MODULE MCFujiSerialBasic --------------------------
(***************************************************************************)
(* Constant values for model checking FujiSerialBasic.                     *)
(***************************************************************************)
EXTENDS FujiSerialBasic

\* .AOut, .BIn, and .IPP in a unit table that has grown from 64 entries to 68.
MCRefNums == {-7, -8, -68}
=============================================================================
