--------------------------- MODULE DeviceRegister ---------------------------
(***************************************************************************)
(* What enrolment and request authentication promise, with no clock,       *)
(* window, receipt, retry or lost answer: a code makes one device, the key *)
(* of a device is handed out when it is made or never, a signed request    *)
(* takes effect once until it is too old, each time it does may leave one  *)
(* contribution, and a revoked device has none.                            *)
(***************************************************************************)
EXTENDS Naturals

CONSTANTS Machines, Codes

VARIABLES
    used,     \* codes that enrol nobody any more
    enrolled, \* how many devices there are; they are numbered
    keys,     \* the devices whose key a machine has or is being handed
    revoked,  \* devices whose key the server refuses
    kept,     \* devices that something contributed is kept of
    sent,     \* requests signed with the key of a device
    taken,    \* requests that took effect
    open,     \* those of them that may still contribute
    expired   \* requests too old to be let in

registerVars == <<used, enrolled, keys, revoked, kept, sent, taken, open, expired>>
pairings == <<used, enrolled, keys>>
requests == <<sent, taken, open, expired>>

RegisterInit ==
    /\ used = {} /\ enrolled = 0 /\ keys = [m \in Machines |-> {}]
    /\ revoked = {} /\ kept = {} /\ sent = {} /\ taken = {} /\ open = {}
    /\ expired = {}

(* Unused codes run out.                                                   *)
RunOut(c) ==
    /\ c \notin used /\ used' = used \cup {c}
    /\ UNCHANGED <<enrolled, keys, revoked, kept, requests>>

(* An unused code makes the next device, whose key goes to the machine     *)
(* that asked; what was being handed to it before is forgotten.            *)
Enrol(c, m) ==
    /\ c \notin used /\ used' = used \cup {c}
    /\ enrolled' = enrolled + 1
    /\ \E rest \in SUBSET keys[m] :
         keys' = [keys EXCEPT ![m] = rest \cup {enrolled + 1}]
    /\ UNCHANGED <<revoked, kept, requests>>

(* The same, and nobody ever has the key: the answer was not waited for.   *)
EnrolNobody(c) ==
    /\ c \notin used /\ used' = used \cup {c}
    /\ enrolled' = enrolled + 1
    /\ UNCHANGED <<keys, revoked, kept, requests>>

(* Keys are forgotten, and never handed on.                                *)
Forget(m) ==
    /\ \E rest \in SUBSET keys[m] : keys' = [keys EXCEPT ![m] = rest]
    /\ UNCHANGED <<used, enrolled, revoked, kept, requests>>

(* An operator deletes the sidecar of a device.                            *)
Revoke(d) ==
    /\ revoked' = revoked \cup {d} /\ kept' = kept \ {d}
    /\ UNCHANGED <<pairings, requests>>

(* A machine signs with a key it has; its clock may be so far behind that  *)
(* the request is too old from the start.                                  *)
Sign(m) ==
    /\ UNCHANGED <<pairings, revoked, kept, taken, open>>
    /\ sent \subseteq sent' /\ \A e \in sent' \ sent : e.device \in keys[m]
    /\ expired \subseteq expired' /\ expired' \subseteq expired \cup (sent' \ sent)

Age ==
    /\ expired \subseteq expired' /\ expired' \subseteq sent
    /\ UNCHANGED <<pairings, revoked, kept, sent, taken, open>>

(* A request takes effect: for the first time, or when it is so old that   *)
(* it may have been forgotten.                                             *)
Take(e) ==
    /\ e \in (sent \ taken) \cup expired
    /\ taken' = taken \cup {e} /\ open' = open \cup {e}
    /\ UNCHANGED <<pairings, revoked, kept, sent, expired>>

(* It is done with, unless it takes effect a second time at the moment.    *)
Done(e) ==
    /\ e \in open
    /\ open' = open \ {e} \/ (e \in expired /\ open' = open)
    /\ UNCHANGED <<pairings, revoked, sent, taken, expired>>

(* Its last effect is a contribution of a device that is not revoked.      *)
Contribute(e) == Done(e) /\ e.device \notin revoked /\ kept' = kept \cup {e.device}

Close(e) == Done(e) /\ UNCHANGED kept

RegisterNext ==
    \/ \E m \in Machines : Sign(m)
    \/ Age
    \/ \E e \in sent : Take(e) \/ Contribute(e) \/ Close(e)
    \/ \E d \in 1..enrolled : Revoke(d)
    \/ \E c \in Codes : RunOut(c) \/ EnrolNobody(c)
    \/ \E c \in Codes, m \in Machines : Enrol(c, m)
    \/ \E m \in Machines : Forget(m)

RegisterSpec == RegisterInit /\ [][RegisterNext]_registerVars
=============================================================================
