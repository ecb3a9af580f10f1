---------------------------- MODULE MCFixSession ----------------------------
(***************************************************************************)
(* Instances of FixSession for TLC                                         *)
(***************************************************************************)
EXTENDS FixSession

Config(initiator, acceptor) ==
    [s \in Sides |-> IF s = "initiator" THEN initiator ELSE acceptor]

\* Numbers kept for ever.
KeepNumbers == {Config({}, {})}
\* Reset at every logon, as the gateway and the two configurations of the demo
\* counterparty do, and reset whenever a connection ends.
ResetNumbers ==
    {Config({"logon"}, {"logon"}), Config({"logon"}, {}),
     Config({"disconnect"}, {"logout", "disconnect"})}
EveryConfig == KeepNumbers \cup ResetNumbers
=============================================================================
