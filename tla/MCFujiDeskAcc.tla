---------------------------- MODULE MCFujiDeskAcc ----------------------------
(***************************************************************************)
(* Constant values for model checking FujiDeskAcc.                         *)
(***************************************************************************)
EXTENDS FujiDeskAcc, TLC

\* The serial ports' drivers in ROM, and one entry free for a RAM driver.
MCRom == <<".AIn", ".AOut", ".BIn", ".BOut", "">>

HandleSymmetry == Permutations(Handle)
=============================================================================
