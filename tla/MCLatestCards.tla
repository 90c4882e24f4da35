--------------------------- MODULE MCLatestCards ---------------------------
(* Small instances of LatestCards for TLC.                                 *)
EXTENDS LatestCards

Total == [model |-> "", window |-> "weekly"]
Session == [model |-> "m", window |-> "session"]
Weekly == [model |-> "m", window |-> "weekly"]
ModelSlots == {Session, Weekly}
TotalAndModel == {Total, Session}
OnlyTotal == {Total}
=============================================================================
