--------------------------- MODULE PushProtocolMC ---------------------------
(* Values for model checking PushProtocol: a batch of two entries and one  *)
(* of one.                                                                 *)
EXTENDS PushProtocol

CONSTANTS h1, h2, h3, u1

Three      == {h1, h2, h3}
TwoBatches == <<{h1, h2}, {h3}>>
Bogus      == {u1}
=============================================================================
