------------------------ MODULE MCFanOutCommunicator ------------------------
(* TLC instances of FanOutCommunicator: model values for calls and recipients. *)
EXTENDS FanOutCommunicator, TLC

CONSTANTS c1, c2, c3, c4, r1, r2, none

MCCalls == {c1, c2, c3, c4}
MCRecipients == {r1, r2}

=============================================================================
