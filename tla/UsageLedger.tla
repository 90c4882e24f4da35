----------------------------- MODULE UsageLedger -----------------------------
(***************************************************************************)
(* What the delivery of usage promises, with no sidecar, queue or network: *)
(* sources use up units one after the other, and the ledger counts every   *)
(* unit once, in any order and in groups of any size.                      *)
(***************************************************************************)
EXTENDS Naturals

CONSTANTS
    Sources,      \* the places usage is recorded at
    MaxRecords    \* bound: units of one source

Units == 1..MaxRecords

VARIABLES
    used,         \* how many units each source has used
    counts        \* how many times each unit has been counted

ledgerVars == <<used, counts>>

LedgerTypeOK ==
    /\ used \in [Sources -> 0..MaxRecords]
    /\ counts \in [Sources -> [Units -> Nat]]

LedgerInit ==
    /\ used = [s \in Sources |-> 0]
    /\ counts = [s \in Sources |-> [u \in Units |-> 0]]

Use(s) ==
    /\ used[s] < MaxRecords
    /\ used' = [used EXCEPT ![s] = @ + 1]
    /\ UNCHANGED counts

(* A group of used units that nobody has counted yet is counted.           *)
Uncounted(s) == {u \in 1..used[s] : counts[s][u] = 0}

Count ==
    /\ \E group \in [Sources -> SUBSET Units] :
         /\ \A s \in Sources : group[s] \subseteq Uncounted(s)
         /\ counts' = [s \in Sources |-> [u \in Units |->
                         IF u \in group[s] THEN 1 ELSE counts[s][u]]]
    /\ UNCHANGED used

LedgerNext == Count \/ \E s \in Sources : Use(s)

LedgerSafety == LedgerInit /\ [][LedgerNext]_ledgerVars

(* Every unit that was used is counted in the end.                         *)
AllCounted == \A s \in Sources, u \in Units :
                u <= used[s] ~> counts[s][u] = 1

LedgerSpec == LedgerSafety /\ AllCounted
=============================================================================
