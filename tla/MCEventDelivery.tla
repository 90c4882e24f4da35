--------------------------- MODULE MCEventDelivery ---------------------------
(* Small instances of EventDelivery.  Every source files its events under  *)
(* itself, except the sources named here.                                  *)
EXTENDS EventDelivery

CONSTANTS log, ledger, ledger2, meter

Own == [s \in Sources |-> s]
MeterBillsLog == [s \in Sources |-> IF s = meter THEN log ELSE s]
=============================================================================
