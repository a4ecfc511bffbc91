-------------------------- MODULE MCFujiSerialAsync --------------------------
(***************************************************************************)
(* Constant values for model checking FujiSerialAsync.                     *)
(***************************************************************************)
EXTENDS FujiSerialAsync, TLC

CONSTANTS AOut, AIn

MCNoCalls == {}

\* Writes on .Fuji (the .AOut of a build without a driver of its own), reads
\* on .AIn.
MCModem == {<<Fuji, "aWrCmd">>, <<AIn, "aRdCmd">>}

\* Writes on .AOut, reads on .AIn: both claim a slot of the wake-up table.
MCTwoPorts == {<<AOut, "aWrCmd">>, <<AIn, "aRdCmd">>}

\* SerGetBuf behind reads, and control calls.
MCStatus == {<<Fuji, "ctl">>, <<AIn, "aRdCmd">>, <<AIn, "sts">>}

\* Everything a client does.
MCBusy == MCModem \cup MCStatus

Symmetry == Permutations(Pbs)
=============================================================================
