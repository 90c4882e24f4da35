----------------------------- MODULE Enrolment -----------------------------
(***************************************************************************)
(* How a machine becomes a device of the server and how the server tells   *)
(* its requests from repeated ones: pairing codes, device keys and their   *)
(* revocation, the timestamp window, and the receipts of signed requests.  *)
(*                                                                         *)
(* Code: app/services/pairing.py, app/api/endpoints/fleet_pairing.py,      *)
(* app/services/sidecar_devices.py, validate_ingest_auth of                *)
(* app/core/security.py, app/core/replay.py, the handler of                *)
(* app/api/endpoints/fleet_ingest.py as far as a stored credential goes,   *)
(* delete_sidecar, and scripts/sidecar_pkg/pairing.py.                     *)
(*                                                                         *)
(* Time is counted in units of a window, not in seconds.  A signature is   *)
(* an envelope: the device, the timestamp in those units, and a number     *)
(* that stands for the microseconds which keep two timestamps apart.       *)
(***************************************************************************)
EXTENDS Integers, Sequences, FiniteSets

CONSTANTS
    Machines,
    Codes,
    Past,       \* how old a timestamp may be
    Future,     \* how far ahead of the server's clock it may be
    ReceiptTTL, \* how long a receipt is kept
    MaxAhead,   \* how far the clock of a machine may be ahead of the server's
    MaxBehind,  \* how far it may be behind
    Workers,    \* bound: what works on the requests, each on one at a time
    MaxTime,    \* bound: the server's clock
    MaxSigned   \* bound: signatures

ASSUME TimeAssumption ==
    /\ {Past, Future, ReceiptTTL, MaxAhead, MaxBehind} \subseteq Nat
    /\ {MaxTime, MaxSigned} \subseteq Nat

(* RECEIPT_TTL is the width of the window: 360 s, of 300 and 60.           *)
ASSUME ReceiptAssumption == Past + Future <= ReceiptTTL

VARIABLES
    now,      \* the server's clock
    offset,   \* how far each machine's clock is ahead of it
    codes,    \* the pairing codes
    devices,  \* the enrolled devices, a device id being an index
    pairing,  \* the pairing request a machine waits for
    late,     \* codes of requests given up that the server has not seen yet
    config,   \* the device a machine signs as, 0 for none
    signed,   \* envelopes sent; the network delivers each any number of times
    active,   \* requests the server is working on
    receipts, \* receipts of claimed envelopes
    handled   \* history: envelopes claimed

enrolment == <<codes, devices, pairing, late, config>>
requests == <<signed, active, receipts, handled>>
vars == <<now, offset, enrolment, requests>>

Ids == 1..Len(devices)
NewDevice(c) == [code |-> c, revoked |-> FALSE, row |-> FALSE, stored |-> FALSE]
NoPairing == [at |-> "none", device |-> 0]
Envelopes == [device: Nat, ts: Int, nth: 0..MaxSigned]
Receipts == [envelope: Envelopes, expires: Int]

-----------------------------------------------------------------------------
(* Pairing.                                                                *)

Mint(c) ==
    /\ codes[c] = "new" /\ codes' = [codes EXCEPT ![c] = "open"]
    /\ UNCHANGED <<now, offset, devices, pairing, late, config, requests>>

(* A code runs out at any moment: what matters is the order of that moment *)
(* and a redemption.  One that ran out is refused like one that was used.  *)
Expire(c) ==
    /\ codes[c] = "open" /\ codes' = [codes EXCEPT ![c] = "spent"]
    /\ UNCHANGED <<now, offset, devices, pairing, late, config, requests>>

AskToPair(m, c) ==
    /\ codes[c] # "new" /\ pairing[m].at = "none"
    /\ pairing' = [pairing EXCEPT ![m] = [at |-> c, device |-> 0]]
    /\ UNCHANGED <<now, offset, codes, devices, late, config, requests>>

(* Mutant: the update of the code does not ask whether it was used.        *)
RedeemedAgain(c) ==
    IF codes[c] # "new"
    THEN /\ codes' = [codes EXCEPT ![c] = "spent"]
         /\ devices' = Append(devices, NewDevice(c))
    ELSE UNCHANGED <<codes, devices>>

(* The code is used up and the device enrolled in one transaction, or the  *)
(* code is refused, whatever the reason.                                   *)
Redeemed(c) ==
    IF codes[c] = "open"
    THEN /\ codes' = [codes EXCEPT ![c] = "spent"]
         /\ devices' = Append(devices, NewDevice(c))
    ELSE UNCHANGED <<codes, devices>>

(* Mutant: a code that was used before is answered with the device it made.*)
EnrolledBefore(c) ==
    IF Len(devices') > Len(devices) THEN Len(devices')
    ELSE IF \E d \in Ids : devices[d].code = c THEN CHOOSE d \in Ids : devices[d].code = c
    ELSE 0

(* What the answer names: the new device, or 0 when the code was refused.  *)
Enrolled(c) == IF Len(devices') > Len(devices) THEN Len(devices') ELSE 0

Redeem(m) ==
    /\ pairing[m].at \in Codes
    /\ Redeemed(pairing[m].at)
    /\ pairing' = [pairing EXCEPT ![m] = [at |-> "answered", device |-> Enrolled(pairing[m].at)]]
    /\ UNCHANGED <<now, offset, late, config, requests>>

(* The machine gives the request up, or its answer is lost; the server may *)
(* redeem the code later, for a device that nobody will hold.              *)
GiveUp(m) ==
    /\ pairing[m].at # "none"
    /\ pairing' = [pairing EXCEPT ![m] = NoPairing]
    /\ late' \in {late, late \cup ({pairing[m].at} \cap Codes)}
    /\ UNCHANGED <<now, offset, codes, devices, config, requests>>

RedeemLate(c) ==
    /\ c \in late /\ late' = late \ {c}
    /\ Redeemed(c)
    /\ UNCHANGED <<now, offset, pairing, config, requests>>

(* The paired device replaces the one of an earlier pairing; a save that   *)
(* fails leaves that one in force.                                         *)
SaveConfig(m, saved) ==
    /\ pairing[m].at = "answered" /\ pairing' = [pairing EXCEPT ![m] = NoPairing]
    /\ saved => pairing[m].device # 0
    /\ config' = IF saved THEN [config EXCEPT ![m] = pairing[m].device] ELSE config
    /\ UNCHANGED <<now, offset, codes, devices, late, requests>>

(* Deleting the sidecar revokes its device and empties what it contributed.*)
Delete(d) ==
    /\ devices[d].row
    /\ devices' = [devices EXCEPT ![d] =
           [code |-> devices[d].code, revoked |-> TRUE, row |-> FALSE, stored |-> FALSE]]
    /\ UNCHANGED <<now, offset, codes, pairing, late, config, requests>>

-----------------------------------------------------------------------------
(* Signed requests.                                                        *)

(* Every attempt is signed anew: signing_timestamp never repeats itself.   *)
Sign(m) ==
    /\ config[m] # 0 /\ Cardinality(signed) < MaxSigned
    /\ signed' = signed \cup
           {[device |-> config[m], ts |-> now + offset[m], nth |-> Cardinality(signed)]}
    /\ UNCHANGED <<now, offset, enrolment, active, receipts, handled>>

InWindow(e) == now - e.ts \in (0 - Future)..Past

(* The timestamp is checked when the request arrives, before its body: the *)
(* body may take as long as it likes.                                      *)
Receive(e, k) ==
    /\ e \in signed /\ InWindow(e) /\ \A r \in active : r.worker # k
    /\ active' = active \cup {[envelope |-> e, step |-> "body", worker |-> k]}
    /\ UNCHANGED <<now, offset, enrolment, signed, receipts, handled>>

Advanced(r, step) == active' = (active \ {r}) \cup {[r EXCEPT !.step = step]}

(* The body is complete; the key is read in a transaction of its own.      *)
Authenticate(r) ==
    /\ r.step = "body" /\ ~devices[r.envelope.device].revoked
    /\ Advanced(r, "claim")
    /\ UNCHANGED <<now, offset, enrolment, signed, receipts, handled>>

(* Mutant: a receipt is kept for the age a timestamp may have.             *)
KeptForItsAge == {x \in receipts : x.expires - Future >= now}

(* The claim first removes the receipts that have expired.                 *)
Kept == {x \in receipts : x.expires >= now}

Claim(r) ==
    /\ r.step = "claim"
    /\ \A x \in Kept : x.envelope # r.envelope
    /\ receipts' = Kept \cup {[envelope |-> r.envelope, expires |-> now + ReceiptTTL]}
    /\ handled' = handled \cup {r.envelope}
    /\ Advanced(r, "register")
    /\ UNCHANGED <<now, offset, enrolment, signed>>

(* The registry row is written and committed, whatever became of the       *)
(* device since its key was read.                                          *)
Register(r) ==
    /\ r.step = "register" /\ Advanced(r, "store")
    /\ devices' = [devices EXCEPT ![r.envelope.device].row = TRUE]
    /\ UNCHANGED <<now, offset, codes, pairing, late, config, signed, receipts, handled>>

(* Mutant: the device is not looked at again when its credential is stored.*)
MayStoreAnyway(d) == TRUE

MayStore(d) == ~devices[d].revoked

(* A credential is stored under the writer reservation, for a device that  *)
(* is not revoked by then.                                                 *)
Store(r) ==
    /\ r.step = "store" /\ MayStore(r.envelope.device)
    /\ devices' = [devices EXCEPT ![r.envelope.device].stored = TRUE]
    /\ active' = active \ {r}
    /\ UNCHANGED <<now, offset, codes, pairing, late, config, signed, receipts, handled>>

(* The work on a request ends: it is refused, it fails, it carries no      *)
(* credential or the server stops.                                         *)
End(r) ==
    /\ active' = active \ {r}
    /\ UNCHANGED <<now, offset, enrolment, signed, receipts, handled>>

Tick ==
    /\ now < MaxTime /\ now' = now + 1
    /\ UNCHANGED <<offset, enrolment, requests>>

-----------------------------------------------------------------------------

Init ==
    /\ now = 0 /\ offset \in [Machines -> (0 - MaxBehind)..MaxAhead]
    /\ codes = [c \in Codes |-> "new"] /\ devices = <<>>
    /\ pairing = [m \in Machines |-> NoPairing] /\ late = {}
    /\ config = [m \in Machines |-> 0]
    /\ signed = {} /\ active = {} /\ receipts = {} /\ handled = {}

Pair ==
    \/ \E c \in Codes : Mint(c) \/ Expire(c) \/ RedeemLate(c)
    \/ \E m \in Machines, c \in Codes : AskToPair(m, c)
    \/ \E m \in Machines : Redeem(m) \/ GiveUp(m)
    \/ \E m \in Machines, saved \in BOOLEAN : SaveConfig(m, saved)
Request ==
    \/ \E m \in Machines : Sign(m)
    \/ \E e \in signed, k \in Workers : Receive(e, k)
    \/ \E r \in active : Authenticate(r) \/ Claim(r) \/ Register(r) \/ Store(r) \/ End(r)

Next ==
    \/ Pair \/ Request \/ Tick
    \/ \E d \in Ids : Delete(d)

Spec == Init /\ [][Next]_vars

-----------------------------------------------------------------------------
(* The variables hold values of these types, and nothing names a device    *)
(* that was not enrolled.                                                  *)
TypeOK ==
    /\ now \in 0..MaxTime /\ offset \in [Machines -> (0 - MaxBehind)..MaxAhead]
    /\ codes \in [Codes -> {"new", "open", "spent"}]
    /\ devices \in Seq([code: Codes, revoked: BOOLEAN, row: BOOLEAN, stored: BOOLEAN])
    /\ pairing \in [Machines -> [at: {"none", "answered"} \cup Codes, device: {0} \cup Ids]]
    /\ late \subseteq Codes /\ config \in [Machines -> {0} \cup Ids]
    /\ signed \subseteq Envelopes /\ \A e \in signed : e.device \in Ids
    /\ active \subseteq [envelope: signed, step: {"body", "claim", "register", "store"},
                         worker: Workers]
    /\ receipts \subseteq Receipts
    /\ handled \subseteq signed

(* The requests a step starts to carry out.                                *)
Begun == {r \in active' \ active : r.step = "register"}

(* As long as its timestamp is accepted a signed request takes effect at   *)
(* most once, however often the network repeats it, however slow a body is *)
(* and although receipts are thrown away.                                  *)
OnceWhileAccepted ==
    [][\A r \in Begun : InWindow(r.envelope) => r.envelope \notin handled]_vars

(* What docs/SECURITY.md and docs/api-reference.md say without the proviso.*)
(* A copy let in at the end of the window, with a body that arrives when   *)
(* the receipt of the first is gone, takes effect again.                   *)
OnceAtAll == [][\A r \in Begun : r.envelope \notin handled]_vars

(* One code enrols one device, however many machines present it, at once   *)
(* or after an answer was lost.                                            *)
CodeEnrolsOnce ==
    \A d, e \in Ids : devices[d].code = devices[e].code => d = e

(* No two machines hold the key of one device, and no machine is handed a  *)
(* key that another one holds or is being handed.                          *)
OneHolder ==
    \A m, n \in Machines : m # n =>
        {config[m], pairing[m].device} \cap {config[n], pairing[n].device} \subseteq {0}

(* Nothing that a revoked device contributed is kept, also when its        *)
(* request was let in before the revocation and is finished after it.      *)
RevokedHoldsNothing == \A d \in Ids : devices[d].revoked => ~devices[d].stored

(* The requests that were claimed and are not done with.                   *)
Underway == {r.envelope : r \in {w \in active : w.step \in {"register", "store"}}}

(* The requests that are too old to be let in.                             *)
TooOld == {e \in signed : now > e.ts + Past}

(* Codes, clocks, windows, receipts and transactions together keep the     *)
(* promise of DeviceRegister.                                              *)
Devices == INSTANCE DeviceRegister WITH
    used <- {c \in Codes : codes[c] = "spent"},
    enrolled <- Len(devices),
    keys <- [m \in Machines |-> {config[m], pairing[m].device} \ {0}],
    revoked <- {d \in Ids : devices[d].revoked},
    kept <- {d \in Ids : devices[d].stored},
    sent <- signed,
    taken <- handled,
    open <- Underway,
    expired <- TooOld

(* Whatever the network, the clocks and the operators do, a code makes one *)
(* device, its key goes to the machine that asked for it or to nobody, a   *)
(* request takes effect once until it is too old and contributes only when *)
(* it took effect, and nothing is contributed by a device that was revoked *)
(* before.                                                                 *)
ImplementsRegister == Devices!RegisterSpec

(* fleet_registry.delete_sidecar removes a sidecar "from registry"; a      *)
(* request that was let in before puts its row back.                       *)
DeletedStaysDeleted == \A d \in Ids : devices[d].revoked => ~devices[d].row
=============================================================================
