-------------------------- MODULE EnrolmentProofs --------------------------
(***************************************************************************)
(* Proofs about Enrolment for every number of machines, codes and          *)
(* requests, and every length of the windows: its types, what a receipt, a *)
(* code and a revocation are worth, and its refinement of DeviceRegister.  *)
(***************************************************************************)
EXTENDS Enrolment, TLAPS, SequenceTheorems, FiniteSetTheorems

(* A request was let in when its timestamp was not too far ahead.          *)
Opened == \A r \in active : now >= r.envelope.ts - Future

(* Until when the receipt of an envelope is kept at least.                 *)
Deadline(e) == e.ts - Future + ReceiptTTL

(* A receipt is kept that long, and a claimed envelope without a receipt   *)
(* is past that.                                                           *)
ReceiptsLast ==
    /\ \A x \in receipts : x.expires >= Deadline(x.envelope)
    /\ \A e \in handled : now > Deadline(e) \/ \E x \in receipts : x.envelope = e

RequestInv == IsFiniteSet(signed) /\ Opened /\ ReceiptsLast

(* A code that enrolled a device is spent.                                 *)
CodesSpent == \A d \in Ids : codes[devices[d].code] = "spent"

EnrolmentInv ==
    /\ TypeOK /\ RequestInv
    /\ CodesSpent /\ CodeEnrolsOnce /\ OneHolder /\ RevokedHoldsNothing

Device == [code: Codes, revoked: BOOLEAN, row: BOOLEAN, stored: BOOLEAN]

-----------------------------------------------------------------------------
(* Constants.                                                              *)
LEMMA Constants ==
  /\ Past \in Nat /\ Future \in Nat /\ ReceiptTTL \in Nat /\ MaxAhead \in Nat
  /\ MaxBehind \in Nat /\ MaxTime \in Nat /\ MaxSigned \in Nat
BY TimeAssumption

(* Types of the parts of a request.                                        *)
LEMMA RequestFacts ==
  ASSUME TypeOK
  PROVE  /\ now \in Nat
         /\ \A e \in signed : e \in Envelopes /\ e.ts \in Int /\ e.device \in Ids
         /\ \A r \in active : r.envelope \in signed /\ r.envelope.ts \in Int
         /\ \A x \in receipts : x.envelope \in Envelopes /\ x.expires \in Int
         /\ handled \subseteq signed
BY Constants DEF TypeOK, Envelopes, Receipts

-----------------------------------------------------------------------------
(* The types.                                                              *)

LEMMA InitInv == Init => EnrolmentInv
<1> SUFFICES ASSUME Init PROVE EnrolmentInv
  OBVIOUS
<1>1. Len(devices) = 0 /\ Ids = {} /\ devices \in Seq(Device)
  BY EmptySeq DEF Init, Ids
<1>2. now \in 0..MaxTime
  BY Constants DEF Init
<1>3. TypeOK
  BY <1>1, <1>2 DEF Init, TypeOK, Device, NoPairing
<1>4. RequestInv
  BY FS_EmptySet DEF Init, RequestInv, Opened, ReceiptsLast
<1>5. CodesSpent /\ CodeEnrolsOnce /\ RevokedHoldsNothing
  BY <1>1 DEF CodesSpent, CodeEnrolsOnce, RevokedHoldsNothing
<1>6. OneHolder
  BY DEF Init, OneHolder, NoPairing
<1> QED BY <1>3, <1>4, <1>5, <1>6 DEF EnrolmentInv

(* Pairing leaves the requests alone.                                      *)
LEMMA RequestsKept ==
  ASSUME RequestInv, UNCHANGED <<now, requests>> PROVE RequestInv'
BY DEF RequestInv, requests, Opened, ReceiptsLast, Deadline

(* Enrolment adds a device and leaves the others alone.                    *)
LEMMA Appended ==
  ASSUME NEW c \in Codes, devices \in Seq(Device), devices' = Append(devices, NewDevice(c))
  PROVE  /\ devices' \in Seq(Device) /\ Len(devices') = Len(devices) + 1
         /\ Ids' = Ids \cup {Len(devices) + 1} /\ Len(devices) + 1 \notin Ids
         /\ \A d \in Ids : devices'[d] = devices[d]
         /\ devices'[Len(devices) + 1] = NewDevice(c)
<1>1. NewDevice(c) \in Device
  BY DEF NewDevice, Device
<1>2. Len(devices) \in Nat
  BY LenProperties
<1> QED BY <1>1, <1>2, AppendProperties DEF Ids

(* The two halves of TypeOK.                                               *)
PairingTypes ==
    /\ codes \in [Codes -> {"new", "open", "spent"}] /\ devices \in Seq(Device)
    /\ pairing \in [Machines -> [at: {"none", "answered"} \cup Codes, device: {0} \cup Ids]]
    /\ late \subseteq Codes /\ config \in [Machines -> {0} \cup Ids]
RequestTypes ==
    /\ signed \subseteq Envelopes /\ \A e \in signed : e.device \in Ids
    /\ active \subseteq [envelope: signed, step: {"body", "claim", "register", "store"},
                         worker: Workers]
    /\ receipts \subseteq Receipts
    /\ handled \subseteq signed
ClockTypes == now \in 0..MaxTime /\ offset \in [Machines -> (0 - MaxBehind)..MaxAhead]

LEMMA TypeParts == TypeOK <=> ClockTypes /\ PairingTypes /\ RequestTypes
BY DEF TypeOK, ClockTypes, PairingTypes, RequestTypes, Device

LEMMA RequestTypesKept ==
  ASSUME RequestTypes, Ids \subseteq Ids', UNCHANGED <<now, requests>> PROVE RequestTypes'
BY DEF RequestTypes, requests

DevicesInv == CodesSpent /\ CodeEnrolsOnce /\ RevokedHoldsNothing

(* A device has the code that enrolled it.                                 *)
LEMMA CodesOfDevices ==
  ASSUME devices \in Seq(Device) PROVE \A d \in Ids : devices[d].code \in Codes
<1> SUFFICES ASSUME NEW d \in Ids PROVE devices[d].code \in Codes
  OBVIOUS
<1>1. devices[d] \in Device
  BY ElementOfSeq DEF Ids
<1> QED BY <1>1 DEF Device

(* A redemption enrols at most one device, and none for a spent code.      *)
LEMMA RedeemedInv ==
  ASSUME TypeOK, DevicesInv, NEW c \in Codes, Redeemed(c)
  PROVE  /\ codes' \in [Codes -> {"new", "open", "spent"}] /\ devices' \in Seq(Device)
         /\ Len(devices) \in Nat /\ Len(devices') \in {Len(devices), Len(devices) + 1}
         /\ Ids \subseteq Ids' /\ DevicesInv'
<1>0. devices \in Seq(Device) /\ Len(devices) \in Nat
  BY LenProperties DEF TypeOK, Device
<1>1. CASE codes[c] = "open"
  <2>1. codes' = [codes EXCEPT ![c] = "spent"] /\ devices' = Append(devices, NewDevice(c))
    BY <1>1 DEF Redeemed
  <2>2. /\ devices' \in Seq(Device) /\ Len(devices') = Len(devices) + 1
        /\ Ids' = Ids \cup {Len(devices) + 1} /\ Len(devices) + 1 \notin Ids
        /\ \A d \in Ids : devices'[d] = devices[d]
        /\ devices'[Len(devices) + 1] = NewDevice(c)
    BY <1>0, <2>1, Appended
  <2>3. /\ codes' \in [Codes -> {"new", "open", "spent"}]
        /\ \A b \in Codes : codes[b] = "spent" => codes'[b] = "spent"
        /\ codes'[c] = "spent"
    BY <2>1 DEF TypeOK
  <2>4. \A d \in Ids : devices[d].code \in Codes
    BY <1>0, CodesOfDevices
  <2>5. CodesSpent'
    <3>1. \A d \in Ids : codes'[devices'[d].code] = "spent"
      BY <2>2, <2>3, <2>4 DEF CodesSpent, DevicesInv
    <3>2. NewDevice(c).code = c
      BY DEF NewDevice
    <3>3. codes'[devices'[Len(devices) + 1].code] = "spent"
      BY <2>2, <2>3, <3>2
    <3> QED BY <2>2, <3>1, <3>3 DEF CodesSpent
  <2>6. \A d \in Ids : devices[d].code # c
    BY <1>1 DEF DevicesInv, CodesSpent
  <2>7. CodeEnrolsOnce'
    BY <2>2, <2>6 DEF DevicesInv, CodeEnrolsOnce, NewDevice
  <2>8. RevokedHoldsNothing'
    <3>1. ~NewDevice(c).revoked
      BY Zenon DEF NewDevice
    <3> QED BY <2>2, <3>1 DEF DevicesInv, RevokedHoldsNothing
  <2> QED BY <1>0, <2>2, <2>3, <2>5, <2>7, <2>8 DEF DevicesInv
<1>2. CASE codes[c] # "open"
  <2>1. UNCHANGED <<codes, devices>>
    BY <1>2 DEF Redeemed
  <2> QED BY <1>0, <2>1 DEF TypeOK, DevicesInv, CodesSpent, CodeEnrolsOnce,
             RevokedHoldsNothing, Ids
<1> QED BY <1>1, <1>2

(* No device changes hands when nothing that names one changes.            *)
LEMMA HoldersKept == OneHolder /\ UNCHANGED <<pairing, config>> => OneHolder'
BY DEF OneHolder

LEMMA DevicesKept == DevicesInv /\ UNCHANGED <<codes, devices>> => DevicesInv'
BY DEF DevicesInv, CodesSpent, CodeEnrolsOnce, RevokedHoldsNothing, Ids

LEMMA InvParts ==
  EnrolmentInv <=> /\ ClockTypes /\ PairingTypes /\ RequestTypes /\ TypeOK
                   /\ RequestInv /\ DevicesInv /\ OneHolder
BY TypeParts DEF EnrolmentInv, DevicesInv

LEMMA InvPartsNext ==
  ASSUME ClockTypes', PairingTypes', RequestTypes', RequestInv', DevicesInv', OneHolder'
  PROVE  EnrolmentInv'
BY DEF EnrolmentInv, DevicesInv, TypeOK, ClockTypes, PairingTypes, RequestTypes, Device

-----------------------------------------------------------------------------
(* Pairing.                                                                *)

(* What pairing leaves alone.                                              *)
LEMMA PairingKeeps ==
  ASSUME EnrolmentInv, Ids \subseteq Ids', UNCHANGED <<now, offset, requests>>
  PROVE  ClockTypes' /\ RequestTypes' /\ RequestInv'
BY InvParts, RequestTypesKept, RequestsKept DEF ClockTypes

(* A code is minted, or runs out.                                         *)
LEMMA CodeInv ==
  ASSUME EnrolmentInv, NEW c \in Codes, Mint(c) \/ Expire(c)
  PROVE  EnrolmentInv'
<1>1. UNCHANGED <<devices, pairing, config, late>> /\ UNCHANGED <<now, offset, requests>>
  BY DEF Mint, Expire
<1>2. PairingTypes'
  BY InvParts, <1>1 DEF PairingTypes, Mint, Expire, Ids
<1>3. DevicesInv'
  <2>1. \A b \in Codes : codes[b] = "spent" => codes'[b] = "spent"
    BY InvParts DEF PairingTypes, Mint, Expire
  <2>2. \A d \in Ids : devices[d].code \in Codes
    BY InvParts, CodesOfDevices DEF PairingTypes
  <2>3. CodesSpent'
    BY InvParts, <1>1, <2>1, <2>2 DEF DevicesInv, CodesSpent, Ids
  <2> QED BY InvParts, <1>1, <2>3 DEF DevicesInv, CodeEnrolsOnce, RevokedHoldsNothing, Ids
<1>4. Ids \subseteq Ids'
  BY <1>1 DEF Ids
<1> QED BY <1>1, <1>2, <1>3, <1>4, PairingKeeps, HoldersKept, InvParts, InvPartsNext

(* A machine asks to be paired.                                           *)
LEMMA AskToPairInv ==
  ASSUME EnrolmentInv, NEW m \in Machines, NEW c \in Codes, AskToPair(m, c)
  PROVE  EnrolmentInv'
<1>1. /\ UNCHANGED <<codes, devices, config, late>> /\ UNCHANGED <<now, offset, requests>>
      /\ pairing' = [pairing EXCEPT ![m] = [at |-> c, device |-> 0]] /\ Ids' = Ids
  BY DEF AskToPair, Ids
<1>2. PairingTypes'
  BY InvParts, <1>1 DEF PairingTypes
<1>3. OneHolder'
  BY InvParts, <1>1 DEF OneHolder, PairingTypes
<1> QED BY <1>1, <1>2, <1>3, PairingKeeps, DevicesKept, InvParts, InvPartsNext

(* The server redeems a code: the new device is nobody else's.            *)
LEMMA RedeemInv ==
  ASSUME EnrolmentInv, NEW m \in Machines, Redeem(m)
  PROVE  EnrolmentInv'
<1> DEFINE c == pairing[m].at
           d == Enrolled(c)
<1>1. c \in Codes /\ Redeemed(c) /\ UNCHANGED <<late, config>>
      /\ UNCHANGED <<now, offset, requests>>
      /\ pairing' = [pairing EXCEPT ![m] = [at |-> "answered", device |-> d]]
  BY DEF Redeem
<1>2. /\ codes' \in [Codes -> {"new", "open", "spent"}] /\ devices' \in Seq(Device)
      /\ Len(devices) \in Nat /\ Len(devices') \in {Len(devices), Len(devices) + 1}
      /\ Ids \subseteq Ids' /\ DevicesInv'
  BY <1>1, RedeemedInv, InvParts
<1>3. d \in {0} \cup (Ids' \ Ids)
  BY <1>2 DEF Enrolled, Ids
<1>4. PairingTypes'
  BY InvParts, <1>1, <1>2, <1>3 DEF PairingTypes
<1>5. OneHolder'
  <2>1. \A n \in Machines : {config[n], pairing[n].device} \subseteq {0} \cup Ids
    BY InvParts DEF PairingTypes
  <2>2. \A n \in Machines : config'[n] = config[n]
        /\ pairing'[n].device = IF n = m THEN d ELSE pairing[n].device
    BY <1>1, InvParts DEF PairingTypes
  <2> QED BY <1>3, <2>1, <2>2, InvParts DEF OneHolder
<1> QED BY <1>1, <1>2, <1>4, <1>5, PairingKeeps, InvParts, InvPartsNext

(* A request is given up.                                                 *)
LEMMA GiveUpInv ==
  ASSUME EnrolmentInv, NEW m \in Machines, GiveUp(m)
  PROVE  EnrolmentInv'
<1>1. /\ UNCHANGED <<codes, devices, config>> /\ UNCHANGED <<now, offset, requests>>
      /\ pairing' = [pairing EXCEPT ![m] = NoPairing] /\ Ids' = Ids
      /\ late' \in {late, late \cup ({pairing[m].at} \cap Codes)}
  BY DEF GiveUp, Ids
<1>2. PairingTypes'
  BY InvParts, <1>1 DEF PairingTypes, NoPairing
<1>3. OneHolder'
  BY InvParts, <1>1 DEF OneHolder, PairingTypes, NoPairing
<1> QED BY <1>1, <1>2, <1>3, PairingKeeps, DevicesKept, InvParts, InvPartsNext

(* A request that was given up enrols a device nobody is told of.         *)
LEMMA RedeemLateInv ==
  ASSUME EnrolmentInv, NEW c \in Codes, RedeemLate(c)
  PROVE  EnrolmentInv'
<1>1. Redeemed(c) /\ UNCHANGED <<pairing, config>> /\ UNCHANGED <<now, offset, requests>>
      /\ late' = late \ {c}
  BY DEF RedeemLate
<1>2. /\ codes' \in [Codes -> {"new", "open", "spent"}] /\ devices' \in Seq(Device)
      /\ Ids \subseteq Ids' /\ DevicesInv'
  BY <1>1, RedeemedInv, InvParts
<1>3. PairingTypes'
  BY InvParts, <1>1, <1>2 DEF PairingTypes
<1> QED BY <1>1, <1>2, <1>3, PairingKeeps, HoldersKept, InvParts, InvPartsNext

(* The machine saves the pairing: its own device takes the place.         *)
LEMMA SaveConfigInv ==
  ASSUME EnrolmentInv, NEW m \in Machines, NEW saved \in BOOLEAN, SaveConfig(m, saved)
  PROVE  EnrolmentInv'
<1>1. /\ UNCHANGED <<codes, devices, late>> /\ UNCHANGED <<now, offset, requests>>
      /\ pairing' = [pairing EXCEPT ![m] = NoPairing] /\ Ids' = Ids
      /\ config' \in {config, [config EXCEPT ![m] = pairing[m].device]}
  BY DEF SaveConfig, Ids
<1>2. PairingTypes'
  BY InvParts, <1>1 DEF PairingTypes, NoPairing
<1>3. OneHolder'
  <2>1. \A n \in Machines : n # m =>
          config'[n] = config[n] /\ pairing'[n].device = pairing[n].device
    BY InvParts, <1>1 DEF PairingTypes
  <2>2. {config'[m], pairing'[m].device} \subseteq {0, config[m], pairing[m].device}
    BY InvParts, <1>1 DEF PairingTypes, NoPairing
  <2> QED BY <2>1, <2>2, InvParts DEF OneHolder
<1> QED BY <1>1, <1>2, <1>3, PairingKeeps, DevicesKept, InvParts, InvPartsNext

(* A device of the list changes and keeps its code.                        *)
LEMMA OneChanged ==
  ASSUME PairingTypes, NEW d \in Ids, NEW x \in Device,
         devices' = [devices EXCEPT ![d] = x]
  PROVE  /\ devices' \in Seq(Device) /\ Ids' = Ids
         /\ devices'[d] = x /\ \A e \in Ids : e # d => devices'[e] = devices[e]
<1>1. devices \in Seq(Device)
  BY DEF PairingTypes
<1>2. devices' \in Seq(Device) /\ Len(devices') = Len(devices)
  BY <1>1, ExceptSeq DEF Ids
<1> QED BY <1>1, <1>2, ExceptSeq DEF Ids

(* A deletion revokes the device and empties it.                          *)
LEMMA DeleteInv ==
  ASSUME EnrolmentInv, NEW d \in Ids, Delete(d)
  PROVE  EnrolmentInv'
<1> DEFINE x == [code |-> devices[d].code, revoked |-> TRUE, row |-> FALSE, stored |-> FALSE]
<1>0. devices' = [devices EXCEPT ![d] = x] /\ UNCHANGED <<codes, pairing, config, late>>
      /\ UNCHANGED <<now, offset, requests>>
  BY DEF Delete
<1>1. devices[d] \in Device
  BY InvParts, ElementOfSeq DEF PairingTypes, Ids
<1>2. x \in Device /\ x.code = devices[d].code
  BY <1>1 DEF Device
<1>3. ~x.stored
  BY Zenon
<1> HIDE DEF x
<1>4. /\ devices' \in Seq(Device) /\ Ids' = Ids
      /\ devices'[d] = x /\ \A e \in Ids : e # d => devices'[e] = devices[e]
  BY <1>0, <1>2, InvParts, OneChanged
<1>5. PairingTypes'
  BY <1>0, <1>4, InvParts DEF PairingTypes
<1>6. \A e \in Ids : devices'[e].code = devices[e].code
  BY <1>2, <1>4
<1>7. DevicesInv'
  BY <1>0, <1>3, <1>4, <1>6, InvParts DEF DevicesInv, CodesSpent, CodeEnrolsOnce,
     RevokedHoldsNothing
<1> QED BY <1>0, <1>4, <1>5, <1>7, PairingKeeps, HoldersKept, InvParts, InvPartsNext

-----------------------------------------------------------------------------
(* Requests.                                                               *)

(* What the way of a request leaves alone.                                 *)
LEMMA RequestKeeps ==
  ASSUME EnrolmentInv, UNCHANGED <<now, offset, enrolment>>
  PROVE  ClockTypes' /\ PairingTypes' /\ DevicesInv' /\ OneHolder' /\ Ids' = Ids
<1>1. UNCHANGED <<now, offset, codes, devices, pairing, late, config>>
  BY DEF enrolment
<1>2. ClockTypes' /\ PairingTypes' /\ Ids' = Ids
  BY <1>1, InvParts DEF ClockTypes, PairingTypes, Ids
<1> QED BY <1>1, <1>2, InvParts, HoldersKept, DevicesKept

(* A request is signed with the clock of its machine.                     *)
LEMMA SignInv ==
  ASSUME EnrolmentInv, NEW m \in Machines, Sign(m)
  PROVE  EnrolmentInv'
<1> DEFINE e == [device |-> config[m], ts |-> now + offset[m], nth |-> Cardinality(signed)]
<1>1. /\ signed' = signed \cup {e} /\ config[m] # 0 /\ Cardinality(signed) < MaxSigned
      /\ UNCHANGED <<now, offset, enrolment, active, receipts, handled>>
  BY DEF Sign
<1>2. config[m] \in Ids /\ offset[m] \in (0 - MaxBehind)..MaxAhead /\ now \in Nat
  BY <1>1, InvParts, Constants DEF PairingTypes, ClockTypes
<1>3. e.device \in Ids /\ e.ts \in Int
  BY <1>2, Constants
<1>0. IsFiniteSet(signed)
  BY InvParts DEF RequestInv
<1>4. Cardinality(signed) \in 0..MaxSigned /\ IsFiniteSet(signed')
  <2>1. Cardinality(signed) \in Nat
    BY <1>0, FS_CardinalityType
  <2>2. IsFiniteSet(signed \cup {e})
    BY <1>0, FS_AddElement
  <2>3. IsFiniteSet(signed')
    BY <1>1, <2>2
  <2> QED BY <1>1, <2>1, <2>3, Constants
<1>5. e \in Envelopes
  BY <1>2, <1>3, <1>4 DEF Envelopes, Ids
<1> HIDE DEF e
<1>6. ClockTypes' /\ PairingTypes' /\ DevicesInv' /\ OneHolder' /\ Ids' = Ids
  BY <1>1, RequestKeeps
<1>7. RequestTypes'
  BY <1>1, <1>3, <1>5, <1>6, InvParts DEF RequestTypes
<1>8. RequestInv'
  BY <1>1, <1>4, InvParts DEF RequestInv, Opened, ReceiptsLast, Deadline
<1> QED BY <1>6, <1>7, <1>8, InvPartsNext

(* A request arrives in its window.                                       *)
LEMMA ReceiveInv ==
  ASSUME EnrolmentInv, NEW e \in signed, NEW k \in Workers, Receive(e, k)
  PROVE  EnrolmentInv'
<1> DEFINE w == [envelope |-> e, step |-> "body", worker |-> k]
<1>1. /\ active' = active \cup {w} /\ InWindow(e)
      /\ UNCHANGED <<now, offset, enrolment, signed, receipts, handled>>
  BY DEF Receive
<1>2. ClockTypes' /\ PairingTypes' /\ DevicesInv' /\ OneHolder' /\ Ids' = Ids
  BY <1>1, RequestKeeps
<1>3. now \in Nat /\ e.ts \in Int
  BY InvParts, RequestFacts
<1>4. RequestTypes'
  <2>1. w \in [envelope: signed, step: {"body", "claim", "register", "store"}, worker: Workers]
    OBVIOUS
  <2> QED BY <1>1, <1>2, <2>1, InvParts DEF RequestTypes
<1>5. now >= w.envelope.ts - Future
  BY <1>1, <1>3, Constants DEF InWindow
<1> HIDE DEF w
<1>6. Opened'
  BY <1>1, <1>5, InvParts DEF RequestInv, Opened
<1>7. RequestInv'
  BY <1>1, <1>6, InvParts DEF RequestInv, ReceiptsLast, Deadline
<1> QED BY <1>2, <1>4, <1>7, InvPartsNext

(* A request that goes a step further is the same request.                 *)
LEMMA AdvancedWork ==
  ASSUME RequestTypes, NEW r \in active, NEW step \in {"body", "claim", "register", "store"},
         Advanced(r, step), UNCHANGED <<now, signed>>
  PROVE  /\ active' \subseteq [envelope: signed', step: {"body", "claim", "register", "store"},
                              worker: Workers]
         /\ \A w \in active' : w \in active \/ (w.envelope = r.envelope /\ w.step = step)
<1>1. r \in [envelope: signed, step: {"body", "claim", "register", "store"}, worker: Workers]
  BY DEF RequestTypes
<1>2. [r EXCEPT !.step = step]
        \in [envelope: signed, step: {"body", "claim", "register", "store"}, worker: Workers]
      /\ [r EXCEPT !.step = step].envelope = r.envelope /\ [r EXCEPT !.step = step].step = step
  BY <1>1
<1> QED BY <1>2 DEF Advanced, RequestTypes

(* It was let in when it was.                                              *)
LEMMA AdvancedInv ==
  ASSUME EnrolmentInv, NEW r \in active, NEW step \in {"claim", "register", "store"},
         Advanced(r, step), UNCHANGED <<now, signed>>
  PROVE  Opened'
<1>1. \A w \in active' : w \in active \/ (w.envelope = r.envelope /\ w.step = step)
  BY InvParts, AdvancedWork
<1>2. Opened
  BY InvParts DEF RequestInv
<1> QED BY <1>1, <1>2 DEF Opened

(* The key of the device is read.                                         *)
LEMMA AuthenticateInv ==
  ASSUME EnrolmentInv, NEW r \in active, Authenticate(r)
  PROVE  EnrolmentInv'
<1>1. /\ Advanced(r, "claim") /\ r.step = "body"
      /\ UNCHANGED <<now, offset, enrolment, signed, receipts, handled>>
  BY DEF Authenticate
<1>2. ClockTypes' /\ PairingTypes' /\ DevicesInv' /\ OneHolder' /\ Ids' = Ids
  BY <1>1, RequestKeeps
<1>3. RequestTypes'
  BY <1>1, <1>2, InvParts, AdvancedWork DEF RequestTypes
<1>4. Opened'
  BY <1>1, AdvancedInv
<1>5. RequestInv'
  BY <1>1, <1>4, InvParts DEF RequestInv, ReceiptsLast, Deadline
<1> QED BY <1>2, <1>3, <1>5, InvPartsNext

(* A claim: the envelope was not claimed before.                          *)
LEMMA ClaimInv ==
  ASSUME EnrolmentInv, NEW r \in active, Claim(r)
  PROVE  EnrolmentInv'
<1> DEFINE e == r.envelope
           x == [envelope |-> e, expires |-> now + ReceiptTTL]
<1>1. /\ Advanced(r, "register") /\ r.step = "claim"
      /\ UNCHANGED <<now, offset, enrolment, signed>>
      /\ handled' = handled \cup {e} /\ receipts' = Kept \cup {x}
  BY DEF Claim
<1>2. ClockTypes' /\ PairingTypes' /\ DevicesInv' /\ OneHolder' /\ Ids' = Ids
  BY <1>1, RequestKeeps
<1>3. /\ now \in Nat /\ e \in signed /\ e.ts \in Int /\ e \in Envelopes
      /\ \A y \in receipts : y.envelope \in Envelopes /\ y.envelope.ts \in Int /\ y.expires \in Int
      /\ \A f \in handled : f.ts \in Int
  BY InvParts, RequestFacts DEF Envelopes
<1>4. x \in Receipts /\ x.envelope = e /\ x.expires = now + ReceiptTTL
  BY <1>3, Constants DEF Receipts
<1>5. now >= e.ts - Future
  BY InvParts DEF RequestInv, Opened
<1> HIDE DEF x, e
<1>6. RequestTypes'
  <2>1. handled' \subseteq signed' /\ receipts' \subseteq Receipts
    BY <1>1, <1>3, <1>4, InvParts DEF RequestTypes, Kept
  <2> QED BY <1>1, <1>2, <2>1, InvParts, AdvancedWork DEF RequestTypes
<1>7. ReceiptsLast'
  <2>1. ASSUME NEW y \in receipts' PROVE y.expires >= Deadline(y.envelope)
    <3>1. CASE y = x
      BY <1>3, <1>4, <1>5, <3>1, Constants DEF Deadline
    <3>2. CASE y \in receipts
      BY <3>2, InvParts DEF RequestInv, ReceiptsLast
    <3> QED BY <1>1, <2>1, <3>1, <3>2 DEF Kept
  <2>2. ASSUME NEW f \in handled'
        PROVE  now > Deadline(f) \/ \E y \in receipts' : y.envelope = f
    <3>1. CASE f = e
      BY <1>1, <1>4, <3>1
    <3>2. CASE f \in handled
      <4>1. CASE now > Deadline(f)
        BY <4>1
      <4>2. ASSUME NEW y \in receipts, y.envelope = f
            PROVE  now > Deadline(f) \/ \E z \in receipts' : z.envelope = f
        <5>1. y.expires >= Deadline(f) /\ Deadline(f) \in Int
          BY <1>3, <3>2, <4>2, InvParts, Constants DEF RequestInv, ReceiptsLast, Deadline
        <5>2. CASE y.expires >= now
          BY <1>1, <4>2, <5>2 DEF Kept
        <5>3. CASE ~(y.expires >= now)
          BY <1>3, <5>1, <5>3
        <5> QED BY <5>2, <5>3
      <4> QED BY <3>2, <4>1, <4>2, InvParts DEF RequestInv, ReceiptsLast
    <3> QED BY <1>1, <2>2, <3>1, <3>2
  <2>3. now' = now
    BY <1>1
  <2> QED BY <2>1, <2>2, <2>3 DEF ReceiptsLast, Deadline
<1>8. Opened'
  BY <1>1, AdvancedInv
<1>9. RequestInv'
  BY <1>1, <1>8, <1>7, InvParts DEF RequestInv
<1> QED BY <1>2, <1>6, <1>9, InvPartsNext

(* As long as its timestamp is accepted, the receipt of an envelope that   *)
(* was claimed is there and kept: nobody claims it again.                  *)
LEMMA ClaimedOnceInTime ==
  ASSUME EnrolmentInv, NEW r \in active, Claim(r), ~(now > r.envelope.ts + Past)
  PROVE  r.envelope \notin handled
<1> DEFINE e == r.envelope
<1> SUFFICES ASSUME e \in handled PROVE FALSE
  OBVIOUS
<1>1. /\ now \in Nat /\ e.ts \in Int /\ \A y \in receipts : y.expires \in Int
  BY InvParts, RequestFacts
<1>2. now <= Deadline(e) /\ Deadline(e) \in Int
  BY <1>1, Constants, ReceiptAssumption DEF Deadline
<1>3. PICK y \in receipts : y.envelope = e
  BY <1>1, <1>2, InvParts DEF RequestInv, ReceiptsLast
<1>4. y.expires >= Deadline(e)
  BY <1>3, InvParts DEF RequestInv, ReceiptsLast
<1>5. y \in Kept
  BY <1>1, <1>2, <1>4 DEF Kept
<1> QED BY <1>3, <1>5 DEF Claim

(* A flag of a device is set.                                              *)
LEMMA FlagSet ==
  ASSUME PairingTypes, NEW d \in Ids, NEW b \in BOOLEAN
  PROVE  /\ [devices[d] EXCEPT !.row = b] \in Device
         /\ [devices[d] EXCEPT !.row = b].code = devices[d].code
         /\ [devices[d] EXCEPT !.row = b].revoked = devices[d].revoked
         /\ [devices[d] EXCEPT !.row = b].stored = devices[d].stored
         /\ [devices[d] EXCEPT !.stored = b] \in Device
         /\ [devices[d] EXCEPT !.stored = b].code = devices[d].code
         /\ [devices[d] EXCEPT !.stored = b].revoked = devices[d].revoked
<1>1. devices[d] \in Device
  BY ElementOfSeq DEF PairingTypes, Ids
<1> QED BY <1>1 DEF Device

(* A device of a request is enrolled.                                      *)
LEMMA DeviceOfWork ==
  ASSUME RequestTypes, NEW r \in active PROVE r.envelope.device \in Ids
BY DEF RequestTypes

(* A device keeps its code: what the codes say stays true.                 *)
LEMMA DeviceChanged ==
  ASSUME EnrolmentInv, NEW d \in Ids, NEW x \in Device, x.code = devices[d].code,
         ~(x.revoked /\ x.stored), devices' = [devices EXCEPT ![d] = x],
         UNCHANGED <<now, offset, codes, pairing, late, config>>
  PROVE  ClockTypes' /\ PairingTypes' /\ DevicesInv' /\ OneHolder' /\ Ids' = Ids
<1>1. /\ devices' \in Seq(Device) /\ Ids' = Ids
      /\ devices'[d] = x /\ \A e \in Ids : e # d => devices'[e] = devices[e]
  BY InvParts, OneChanged
<1>2. PairingTypes' /\ ClockTypes'
  BY <1>1, InvParts DEF PairingTypes, ClockTypes
<1>3. \A e \in Ids : devices'[e].code = devices[e].code
  BY <1>1
<1>4. CodesSpent' /\ CodeEnrolsOnce'
  BY <1>1, <1>3, InvParts DEF DevicesInv, CodesSpent, CodeEnrolsOnce
<1>5. RevokedHoldsNothing'
  <2> SUFFICES ASSUME NEW e \in Ids PROVE ~(devices'[e].revoked /\ devices'[e].stored)
    BY <1>1 DEF RevokedHoldsNothing
  <2>1. CASE e = d
    BY <1>1, <2>1
  <2>2. CASE e # d
    BY <1>1, <2>2, InvParts DEF DevicesInv, RevokedHoldsNothing
  <2> QED BY <2>1, <2>2
<1> QED BY <1>1, <1>2, <1>4, <1>5, InvParts, HoldersKept DEF DevicesInv

(* The registry row is written.                                           *)
LEMMA RegisterInv ==
  ASSUME EnrolmentInv, NEW r \in active, Register(r)
  PROVE  EnrolmentInv'
<1> DEFINE d == r.envelope.device
           x == [devices[d] EXCEPT !.row = TRUE]
<1>1. /\ Advanced(r, "store") /\ devices' = [devices EXCEPT ![d] = x]
      /\ UNCHANGED <<now, offset, codes, pairing, late, config>>
      /\ UNCHANGED <<signed, receipts, handled>>
  BY DEF Register
<1>2. d \in Ids
  BY InvParts, DeviceOfWork
<1>3. x \in Device /\ x.code = devices[d].code /\ x.revoked = devices[d].revoked
      /\ x.stored = devices[d].stored
  BY <1>2, InvParts, FlagSet
<1> HIDE DEF x, d
<1>4. ~(x.revoked /\ x.stored)
  BY <1>2, <1>3, InvParts DEF DevicesInv, RevokedHoldsNothing
<1>5. ClockTypes' /\ PairingTypes' /\ DevicesInv' /\ OneHolder' /\ Ids' = Ids
  BY <1>1, <1>2, <1>3, <1>4, DeviceChanged
<1>6. RequestTypes'
  BY <1>1, <1>5, InvParts, AdvancedWork DEF RequestTypes
<1>7. Opened'
  BY <1>1, AdvancedInv
<1>8. RequestInv'
  BY <1>1, <1>7, InvParts DEF RequestInv, ReceiptsLast, Deadline
<1> QED BY <1>5, <1>6, <1>8, InvPartsNext

(* The work on a request ends.                                             *)
LEMMA Ended ==
  ASSUME EnrolmentInv, NEW r, active' = active \ {r}, Ids' = Ids,
         UNCHANGED <<now, signed, receipts, handled>>
  PROVE  RequestTypes' /\ RequestInv'
BY InvParts DEF RequestTypes, RequestInv, Opened, ReceiptsLast, Deadline

(* A credential is stored, unless the device was revoked meanwhile.       *)
LEMMA StoreInv ==
  ASSUME EnrolmentInv, NEW r \in active, Store(r)
  PROVE  EnrolmentInv'
<1> DEFINE d == r.envelope.device
           x == [devices[d] EXCEPT !.stored = TRUE]
<1>1. /\ active' = active \ {r} /\ devices' = [devices EXCEPT ![d] = x] /\ ~devices[d].revoked
      /\ UNCHANGED <<now, offset, codes, pairing, late, config>>
      /\ UNCHANGED <<signed, receipts, handled>>
  BY DEF Store, MayStore
<1>2. d \in Ids
  BY InvParts, DeviceOfWork
<1>3. x \in Device /\ x.code = devices[d].code /\ x.revoked = devices[d].revoked
  BY <1>2, InvParts, FlagSet
<1> HIDE DEF x, d
<1>4. ClockTypes' /\ PairingTypes' /\ DevicesInv' /\ OneHolder' /\ Ids' = Ids
  BY <1>1, <1>2, <1>3, DeviceChanged
<1>5. RequestTypes' /\ RequestInv'
  BY <1>1, <1>4, Ended
<1> QED BY <1>4, <1>5, InvPartsNext

(* A request is given up by the server.                                   *)
LEMMA EndInv ==
  ASSUME EnrolmentInv, NEW r \in active, End(r)
  PROVE  EnrolmentInv'
<1>1. active' = active \ {r} /\ UNCHANGED <<now, offset, enrolment>>
      /\ UNCHANGED <<signed, receipts, handled>>
  BY DEF End
<1>2. ClockTypes' /\ PairingTypes' /\ DevicesInv' /\ OneHolder' /\ Ids' = Ids
  BY <1>1, RequestKeeps
<1>3. RequestTypes' /\ RequestInv'
  BY <1>1, <1>2, Ended
<1> QED BY <1>2, <1>3, InvPartsNext

(* Time passes.                                                           *)
LEMMA TickInv ==
  ASSUME EnrolmentInv, Tick
  PROVE  EnrolmentInv'
<1>1. /\ now < MaxTime /\ now' = now + 1 /\ UNCHANGED <<offset, enrolment, requests>>
  BY DEF Tick
<1>2. UNCHANGED <<codes, devices, pairing, late, config>> /\ Ids' = Ids
      /\ UNCHANGED <<signed, active, receipts, handled>>
  BY <1>1 DEF enrolment, requests, Ids
<1>3. now \in 0..MaxTime /\ now' \in 0..MaxTime
  BY <1>1, InvParts, Constants DEF ClockTypes
<1>4. ClockTypes' /\ PairingTypes'
  BY <1>1, <1>2, <1>3, InvParts DEF ClockTypes, PairingTypes
<1>5. RequestTypes'
  BY <1>2, InvParts DEF RequestTypes
<1>6. /\ \A e \in signed : e.ts \in Int
      /\ \A r \in active : r.envelope.ts \in Int
      /\ handled \subseteq signed
  BY InvParts, RequestFacts
<1>7. Opened'
  BY <1>1, <1>2, <1>3, <1>6, InvParts, Constants DEF RequestInv, Opened
<1>8. ReceiptsLast'
  <2>1. \A e \in handled : Deadline(e) \in Int
    BY <1>6, Constants DEF Deadline
  <2>2. \A e \in handled : now > Deadline(e) => now' > Deadline(e)
    BY <1>1, <1>3, <2>1
  <2> QED BY <1>2, <2>2, InvParts DEF RequestInv, ReceiptsLast, Deadline
<1>9. RequestInv'
  BY <1>2, <1>7, <1>8, InvParts DEF RequestInv
<1> QED BY <1>2, <1>4, <1>5, <1>9, InvParts, HoldersKept, DevicesKept, InvPartsNext

-----------------------------------------------------------------------------
LEMMA StepInv == EnrolmentInv /\ [Next]_vars => EnrolmentInv'
<1> SUFFICES ASSUME EnrolmentInv, [Next]_vars PROVE EnrolmentInv'
  OBVIOUS
<1>1. CASE Pair
  BY <1>1, CodeInv, RedeemLateInv, AskToPairInv, RedeemInv, GiveUpInv, SaveConfigInv DEF Pair
<1>2. CASE Request
  BY <1>2, SignInv, ReceiveInv, AuthenticateInv, ClaimInv, RegisterInv, StoreInv, EndInv
     DEF Request
<1>3. CASE Tick
  BY <1>3, TickInv
<1>4. CASE \E d \in Ids : Delete(d)
  BY <1>4, DeleteInv
<1>5. CASE UNCHANGED vars
  <2>1. UNCHANGED <<now, offset, enrolment>> /\ UNCHANGED requests
    BY <1>5 DEF vars
  <2>2. ClockTypes' /\ PairingTypes' /\ DevicesInv' /\ OneHolder' /\ Ids' = Ids
    BY <2>1, RequestKeeps
  <2>3. RequestTypes' /\ RequestInv'
    BY <2>1, <2>2, InvParts, RequestTypesKept, RequestsKept
  <2> QED BY <2>2, <2>3, InvPartsNext
<1> QED BY <1>1, <1>2, <1>3, <1>4, <1>5 DEF Next

(* The invariant holds of every behaviour.                                 *)
THEOREM EnrolmentInvariant == Spec => []EnrolmentInv
BY InitInv, StepInv, PTL DEF Spec

(* The variables keep their types, and no request, answer or configuration *)
(* names a device that was not enrolled.                                   *)
THEOREM EnrolmentTypes == Spec => []TypeOK
<1>1. EnrolmentInv => TypeOK
  BY DEF EnrolmentInv
<1> QED BY <1>1, EnrolmentInvariant, PTL

(* A step of the server's work replaces a request by itself.               *)
LEMMA AdvancedIs ==
  ASSUME EnrolmentInv, NEW r \in active, NEW step, Advanced(r, step)
  PROVE  \E n : /\ active' = (active \ {r}) \cup {n}
               /\ n.envelope = r.envelope /\ n.step = step
<1>1. r \in [envelope: signed, step: {"body", "claim", "register", "store"}, worker: Workers]
  BY InvParts DEF RequestTypes
<1>2. /\ [r EXCEPT !.step = step].envelope = r.envelope
      /\ [r EXCEPT !.step = step].step = step
  BY <1>1
<1> QED BY <1>2 DEF Advanced

(* Only a claim begins to carry a request out.                             *)
LEMMA BegunIsClaimed ==
  ASSUME EnrolmentInv, Next, NEW r \in Begun
  PROVE  \E w \in active : Claim(w) /\ w.envelope = r.envelope
<1>0. r \in active' /\ r \notin active /\ r.step = "register"
  BY DEF Begun
<1>1. active' # active
  BY <1>0
<1>2. Request
  BY <1>1 DEF Next, Pair, Tick, Delete, Mint, Expire, RedeemLate, AskToPair, Redeem, GiveUp,
     SaveConfig, requests
<1>3. ASSUME NEW e \in signed, NEW k \in Workers, Receive(e, k) PROVE FALSE
  BY <1>0, <1>3 DEF Receive
<1>4. ASSUME NEW w \in active, NEW step, Advanced(w, step)
      PROVE  r.envelope = w.envelope /\ r.step = step
  <2>1. PICK n : /\ active' = (active \ {w}) \cup {n}
                /\ n.envelope = w.envelope /\ n.step = step
    BY <1>4, AdvancedIs
  <2> QED BY <1>0, <2>1
<1>5. ASSUME NEW w \in active, Authenticate(w) \/ Register(w) \/ Store(w) \/ End(w) PROVE FALSE
  BY <1>0, <1>4, <1>5 DEF Authenticate, Register, Store, End
<1>6. ASSUME NEW w \in active, Claim(w) PROVE r.envelope = w.envelope
  BY <1>4, <1>6 DEF Claim
<1> QED BY <1>1, <1>2, <1>3, <1>5, <1>6 DEF Request, Sign

(* replay.py: while the window of security.py accepts a timestamp, the     *)
(* receipt of a request that was carried out is there, so that no copy of  *)
(* it takes effect again, however long the body of the copy took.          *)
THEOREM OnceInTheWindow == Spec => OnceWhileAccepted
<1>1. EnrolmentInv /\ [Next]_vars
        => [\A r \in Begun : InWindow(r.envelope) => r.envelope \notin handled]_vars
  <2> SUFFICES ASSUME EnrolmentInv, Next, NEW r \in Begun, InWindow(r.envelope)
               PROVE  r.envelope \notin handled
    OBVIOUS
  <2>1. PICK w \in active : Claim(w) /\ w.envelope = r.envelope
    BY BegunIsClaimed
  <2>2. now \in Nat /\ w.envelope.ts \in Int
    BY InvParts, RequestFacts
  <2>3. ~(now > w.envelope.ts + Past)
    BY <2>1, <2>2, Constants DEF InWindow
  <2> QED BY <2>1, <2>3, ClaimedOnceInTime
<1> QED BY <1>1, EnrolmentInvariant, PTL DEF Spec, OnceWhileAccepted

(* services/pairing.py: whoever presents a code, how often and when, one   *)
(* device comes of it.                                                     *)
THEOREM OneCodeOneDevice == Spec => []CodeEnrolsOnce
<1>1. EnrolmentInv => CodeEnrolsOnce
  BY DEF EnrolmentInv
<1> QED BY <1>1, EnrolmentInvariant, PTL

(* fleet_pairing.py: the key in an answer is one nobody else has or gets.  *)
THEOREM OneMachineOneKey == Spec => []OneHolder
<1>1. EnrolmentInv => OneHolder
  BY DEF EnrolmentInv
<1> QED BY <1>1, EnrolmentInvariant, PTL

(* source_controls.py: a request that was let in before a revocation       *)
(* leaves no credential behind it.                                         *)
THEOREM RevocationEmpties == Spec => []RevokedHoldsNothing
<1>1. EnrolmentInv => RevokedHoldsNothing
  BY DEF EnrolmentInv
<1> QED BY <1>1, EnrolmentInvariant, PTL

-----------------------------------------------------------------------------
(* The refinement of DeviceRegister.                                       *)

(* What the variables of DeviceRegister stand for.                         *)
UsedCodes == {c \in Codes : codes[c] = "spent"}
KeysHeld == [m \in Machines |-> {config[m], pairing[m].device} \ {0}]
RevokedDevices == {d \in Ids : devices[d].revoked}
KeptDevices == {d \in Ids : devices[d].stored}

IsUnderway(r) == r.step \in {"register", "store"}

(* A request is underway once it was claimed, and twice only when it is    *)
(* too old to be let in.                                                   *)
UnderwayOnce ==
    /\ \A r \in active : IsUnderway(r) => r.envelope \in handled
    /\ \A r, w \in active : IsUnderway(r) /\ IsUnderway(w) /\ r.envelope = w.envelope
                           => r = w \/ r.envelope \in TooOld

RegisterStep == Devices!RegisterNext \/ UNCHANGED Devices!registerVars

LEMMA UnderwayIs ==
  \A e : e \in Underway <=> \E r \in active : IsUnderway(r) /\ r.envelope = e
BY DEF Underway, IsUnderway

LEMMA UnderwayIsNext ==
  \A e : e \in Underway' <=> \E r \in active' : IsUnderway(r) /\ r.envelope = e
BY DEF Underway, IsUnderway

(* An envelope is claimed that was claimed before only when it is too old. *)
LEMMA ClaimsAreNew ==
  ASSUME EnrolmentInv, NEW r \in active, Claim(r), r.envelope \in handled
  PROVE  r.envelope \in TooOld
<1>1. now > r.envelope.ts + Past
  BY ClaimedOnceInTime
<1> QED BY <1>1, InvParts DEF RequestTypes, TooOld

(* What becomes of the requests underway when one is replaced.             *)
LEMMA ReplacedWork ==
  ASSUME UnderwayOnce, NEW r \in active, NEW n, n.envelope = r.envelope,
         active' = (active \ {r}) \cup {n}, handled \subseteq handled', TooOld' = TooOld,
         IsUnderway(n) => r.envelope \in handled'
                          /\ (IsUnderway(r) \/ r.envelope \notin handled \/ r.envelope \in TooOld)
  PROVE  /\ UnderwayOnce'
         /\ IsUnderway(n) => Underway' = Underway \cup {r.envelope}
         /\ ~IsUnderway(n) /\ ~IsUnderway(r) => Underway' = Underway
<1>1. \A w \in active : IsUnderway(w) => w.envelope \in handled
  BY DEF UnderwayOnce
<1>2. \A w \in active : IsUnderway(n) /\ IsUnderway(w) /\ w.envelope = r.envelope
                         => w = r \/ r.envelope \in TooOld
  BY <1>1 DEF UnderwayOnce
<1>3. \A w \in active' : (w \in active /\ w # r) \/ w = n
  OBVIOUS
<1>4. \A v, w \in active' : IsUnderway(v) /\ IsUnderway(w) /\ v.envelope = w.envelope
                            => v = w \/ v.envelope \in TooOld
  BY <1>2, <1>3 DEF UnderwayOnce
<1>5. \A w \in active' : IsUnderway(w) => w.envelope \in handled'
  BY <1>1, <1>3
<1>6. UnderwayOnce'
  BY <1>4, <1>5 DEF UnderwayOnce, IsUnderway
<1>7. ASSUME IsUnderway(n) PROVE Underway' = Underway \cup {r.envelope}
  <2>1. \A e : e \in Underway' <=> e \in Underway \/ e = r.envelope
    BY <1>3, <1>7, UnderwayIs, UnderwayIsNext
  <2> QED BY <2>1
<1>8. ASSUME ~IsUnderway(n), ~IsUnderway(r) PROVE Underway' = Underway
  <2>1. \A e : e \in Underway' <=> e \in Underway
    BY <1>3, <1>8, UnderwayIs, UnderwayIsNext
  <2> QED BY <2>1
<1> QED BY <1>6, <1>7, <1>8

(* What becomes of them when one is done with.                             *)
LEMMA EndedWork ==
  ASSUME UnderwayOnce, NEW r \in active, active' = active \ {r}, handled' = handled,
         TooOld' = TooOld
  PROVE  /\ UnderwayOnce'
         /\ IF IsUnderway(r)
            THEN Underway' = Underway \ {r.envelope}
                 \/ (r.envelope \in TooOld /\ Underway' = Underway)
            ELSE Underway' = Underway
<1>1. UnderwayOnce'
  BY DEF UnderwayOnce, IsUnderway
<1>2. CASE IsUnderway(r) /\ \A w \in active : IsUnderway(w) /\ w.envelope = r.envelope => w = r
  <2>1. \A e : e \in Underway' <=> e \in Underway /\ e # r.envelope
    BY <1>2, UnderwayIs, UnderwayIsNext
  <2>2. Underway' = Underway \ {r.envelope}
    BY <2>1
  <2> QED BY <1>1, <1>2, <2>2
<1>3. ASSUME NEW w \in active, IsUnderway(r), IsUnderway(w), w.envelope = r.envelope, w # r
      PROVE  r.envelope \in TooOld /\ Underway' = Underway
  <2>1. r.envelope \in TooOld
    BY <1>3 DEF UnderwayOnce
  <2>2. \A e : e \in Underway' <=> e \in Underway
    BY <1>3, UnderwayIs, UnderwayIsNext
  <2> QED BY <2>1, <2>2
<1>4. CASE ~IsUnderway(r)
  <2>1. \A e : e \in Underway' <=> e \in Underway
    BY <1>4, UnderwayIs, UnderwayIsNext
  <2>2. Underway' = Underway
    BY <2>1
  <2> QED BY <1>1, <1>4, <2>2
<1> QED BY <1>1, <1>2, <1>3, <1>4

(* Pairing and its codes leave the requests alone.                         *)
LEMMA RequestsStay ==
  ASSUME UNCHANGED <<now, requests>>
  PROVE  /\ signed' = signed /\ handled' = handled /\ Underway' = Underway /\ TooOld' = TooOld
         /\ UnderwayOnce => UnderwayOnce'
<1>1. now' = now /\ signed' = signed /\ handled' = handled /\ active' = active
  BY DEF requests
<1>2. TooOld' = TooOld
  BY <1>1 DEF TooOld
<1> QED BY <1>1, <1>2 DEF Underway, UnderwayOnce, IsUnderway

(* Requests leave the codes and keys alone, and most of them the devices.  *)
LEMMA PairingsStay ==
  /\ UNCHANGED codes => UsedCodes' = UsedCodes
  /\ UNCHANGED <<pairing, config>> => KeysHeld' = KeysHeld
  /\ UNCHANGED devices => /\ Len(devices') = Len(devices)
                          /\ RevokedDevices' = RevokedDevices /\ KeptDevices' = KeptDevices
BY DEF UsedCodes, KeysHeld, RevokedDevices, KeptDevices, Ids

(* A machine whose keys change.                                            *)
LEMMA KeysChange ==
  ASSUME NEW m \in Machines, NEW set, {config'[m], pairing'[m].device} \ {0} = set,
         \A n \in Machines : n # m =>
            config'[n] = config[n] /\ pairing'[n].device = pairing[n].device
  PROVE  KeysHeld' = [KeysHeld EXCEPT ![m] = set]
BY DEF KeysHeld

(* Keys of a machine are forgotten.                                        *)
LEMMA ForgetStep ==
  ASSUME NEW m \in Machines, UNCHANGED <<now, codes, devices, requests>>,
         {config'[m], pairing'[m].device} \subseteq {0, config[m], pairing[m].device},
         \A n \in Machines : n # m =>
            config'[n] = config[n] /\ pairing'[n].device = pairing[n].device
  PROVE  Devices!Forget(m)
<1> DEFINE rest == {config'[m], pairing'[m].device} \ {0}
<1>1. rest \in SUBSET KeysHeld[m]
  BY DEF KeysHeld
<1>2. KeysHeld' = [KeysHeld EXCEPT ![m] = rest]
  BY KeysChange
<1>3. /\ UsedCodes' = UsedCodes /\ Len(devices') = Len(devices)
      /\ RevokedDevices' = RevokedDevices /\ KeptDevices' = KeptDevices
  BY PairingsStay
<1>4. signed' = signed /\ handled' = handled /\ Underway' = Underway /\ TooOld' = TooOld
  BY RequestsStay
<1> HIDE DEF rest
<1> QED BY <1>1, <1>2, <1>3, <1>4 DEF Devices!Forget, Devices!requests, UsedCodes, KeysHeld,
           RevokedDevices, KeptDevices

(* A code that is redeemed makes the next device.                          *)
LEMMA RedeemedIs ==
  ASSUME EnrolmentInv, NEW c \in Codes, Redeemed(c), codes[c] = "open"
  PROVE  /\ c \notin UsedCodes /\ UsedCodes' = UsedCodes \cup {c}
         /\ Len(devices) \in Nat /\ Len(devices') = Len(devices) + 1
         /\ RevokedDevices' = RevokedDevices /\ KeptDevices' = KeptDevices
<1>1. devices \in Seq(Device) /\ codes \in [Codes -> {"new", "open", "spent"}]
  BY InvParts DEF PairingTypes
<1>2. codes' = [codes EXCEPT ![c] = "spent"] /\ devices' = Append(devices, NewDevice(c))
  BY DEF Redeemed
<1>3. /\ Len(devices') = Len(devices) + 1
      /\ Ids' = Ids \cup {Len(devices) + 1} /\ Len(devices) + 1 \notin Ids
      /\ \A d \in Ids : devices'[d] = devices[d]
      /\ devices'[Len(devices) + 1] = NewDevice(c)
  BY <1>1, <1>2, Appended
<1>4. ~NewDevice(c).revoked /\ ~NewDevice(c).stored
  BY Zenon DEF NewDevice
<1>5. RevokedDevices' = RevokedDevices /\ KeptDevices' = KeptDevices
  BY <1>3, <1>4 DEF RevokedDevices, KeptDevices
<1>6. c \notin UsedCodes /\ UsedCodes' = UsedCodes \cup {c}
  BY <1>1, <1>2 DEF UsedCodes
<1>7. Len(devices) \in Nat
  BY <1>1, LenProperties
<1> QED BY <1>3, <1>5, <1>6, <1>7

(* A code is minted, or runs out.                                          *)
LEMMA CodeStep ==
  ASSUME EnrolmentInv, NEW c \in Codes, Mint(c) \/ Expire(c) PROVE RegisterStep
<1>1. codes \in [Codes -> {"new", "open", "spent"}]
  BY InvParts DEF PairingTypes
<1>2. /\ UNCHANGED <<devices, pairing, config>> /\ UNCHANGED <<now, requests>>
      /\ \/ codes[c] = "new" /\ codes' = [codes EXCEPT ![c] = "open"]
         \/ codes[c] = "open" /\ codes' = [codes EXCEPT ![c] = "spent"]
  BY DEF Mint, Expire
<1>3. /\ KeysHeld' = KeysHeld /\ Len(devices') = Len(devices)
      /\ RevokedDevices' = RevokedDevices /\ KeptDevices' = KeptDevices
      /\ signed' = signed /\ handled' = handled /\ Underway' = Underway /\ TooOld' = TooOld
  BY <1>2, PairingsStay, RequestsStay
<1>4. UsedCodes' = UsedCodes \/ (c \notin UsedCodes /\ UsedCodes' = UsedCodes \cup {c})
  BY <1>1, <1>2 DEF UsedCodes
<1>5. UNCHANGED Devices!registerVars \/ Devices!RunOut(c)
  BY <1>3, <1>4 DEF Devices!registerVars, Devices!RunOut, Devices!requests, UsedCodes, KeysHeld,
     RevokedDevices, KeptDevices
<1> QED BY <1>5 DEF RegisterStep, Devices!RegisterNext

(* The steps of a machine that pairs.                                      *)
LEMMA AskToPairStep ==
  ASSUME EnrolmentInv, NEW m \in Machines, NEW c \in Codes, AskToPair(m, c)
  PROVE  RegisterStep
<1>1. /\ UNCHANGED <<now, codes, devices, requests>> /\ config' = config
      /\ pairing' = [pairing EXCEPT ![m] = [at |-> c, device |-> 0]]
  BY DEF AskToPair
<1>2. Devices!Forget(m)
  BY <1>1, InvParts, ForgetStep DEF PairingTypes
<1> QED BY <1>2 DEF RegisterStep, Devices!RegisterNext

LEMMA GiveUpStep ==
  ASSUME EnrolmentInv, NEW m \in Machines, GiveUp(m) PROVE RegisterStep
<1>1. /\ UNCHANGED <<now, codes, devices, requests>> /\ config' = config
      /\ pairing' = [pairing EXCEPT ![m] = NoPairing]
  BY DEF GiveUp
<1>2. Devices!Forget(m)
  BY <1>1, InvParts, ForgetStep DEF PairingTypes, NoPairing
<1> QED BY <1>2 DEF RegisterStep, Devices!RegisterNext

LEMMA SaveConfigStep ==
  ASSUME EnrolmentInv, NEW m \in Machines, NEW saved \in BOOLEAN, SaveConfig(m, saved)
  PROVE  RegisterStep
<1>1. /\ UNCHANGED <<now, codes, devices, requests>>
      /\ config' \in {config, [config EXCEPT ![m] = pairing[m].device]}
      /\ pairing' = [pairing EXCEPT ![m] = NoPairing]
  BY DEF SaveConfig
<1>2. /\ {config'[m], pairing'[m].device} \subseteq {0, config[m], pairing[m].device}
      /\ \A n \in Machines : n # m =>
            config'[n] = config[n] /\ pairing'[n].device = pairing[n].device
  BY <1>1, InvParts DEF PairingTypes, NoPairing
<1>3. Devices!Forget(m)
  BY <1>1, <1>2, ForgetStep
<1> QED BY <1>3 DEF RegisterStep, Devices!RegisterNext

(* The server redeems a code for a machine that waits, or for nobody.      *)
LEMMA RedeemStep ==
  ASSUME EnrolmentInv, NEW m \in Machines, Redeem(m) PROVE RegisterStep
<1> DEFINE c == pairing[m].at
           d == Enrolled(c)
<1>1. /\ c \in Codes /\ Redeemed(c) /\ config' = config /\ UNCHANGED <<now, requests>>
      /\ pairing' = [pairing EXCEPT ![m] = [at |-> "answered", device |-> d]]
  BY DEF Redeem
<1>2. /\ pairing'[m].device = d
      /\ \A n \in Machines : n # m =>
            config'[n] = config[n] /\ pairing'[n].device = pairing[n].device
  BY <1>1, InvParts DEF PairingTypes
<1>3. CASE codes[c] = "open"
  <2>1. /\ c \notin UsedCodes /\ UsedCodes' = UsedCodes \cup {c}
        /\ Len(devices) \in Nat /\ Len(devices') = Len(devices) + 1
        /\ RevokedDevices' = RevokedDevices /\ KeptDevices' = KeptDevices
    BY <1>1, <1>3, RedeemedIs
  <2>2. d = Len(devices) + 1 /\ d # 0
    BY <2>1 DEF Enrolled
  <2> DEFINE rest == {config[m]} \ {0}
  <2>3. rest \in SUBSET KeysHeld[m] /\ {config'[m], pairing'[m].device} \ {0} = rest \cup {d}
    BY <1>1, <1>2, <2>2 DEF KeysHeld
  <2> HIDE DEF rest, c, d
  <2>4. KeysHeld' = [KeysHeld EXCEPT ![m] = rest \cup {d}]
    BY <1>2, <2>3, KeysChange
  <2>5. signed' = signed /\ handled' = handled /\ Underway' = Underway /\ TooOld' = TooOld
    BY <1>1, RequestsStay
  <2>6. Devices!Enrol(c, m)
    BY <2>1, <2>2, <2>3, <2>4, <2>5 DEF Devices!Enrol, Devices!requests, UsedCodes, KeysHeld,
       RevokedDevices, KeptDevices
  <2> QED BY <1>1, <2>6 DEF RegisterStep, Devices!RegisterNext
<1>4. CASE codes[c] # "open"
  <2>1. UNCHANGED <<codes, devices>>
    BY <1>1, <1>4 DEF Redeemed
  <2>2. d = 0
    BY <2>1, InvParts, LenProperties DEF Enrolled, PairingTypes
  <2>3. Devices!Forget(m)
    BY <1>1, <1>2, <2>1, <2>2, ForgetStep
  <2> QED BY <2>3 DEF RegisterStep, Devices!RegisterNext
<1> QED BY <1>3, <1>4

LEMMA RedeemLateStep ==
  ASSUME EnrolmentInv, NEW c \in Codes, RedeemLate(c) PROVE RegisterStep
<1>1. Redeemed(c) /\ UNCHANGED <<pairing, config>> /\ UNCHANGED <<now, requests>>
  BY DEF RedeemLate
<1>2. /\ KeysHeld' = KeysHeld /\ signed' = signed /\ handled' = handled
      /\ Underway' = Underway /\ TooOld' = TooOld
  BY <1>1, PairingsStay, RequestsStay
<1>3. CASE codes[c] = "open"
  <2>1. /\ c \notin UsedCodes /\ UsedCodes' = UsedCodes \cup {c}
        /\ Len(devices') = Len(devices) + 1
        /\ RevokedDevices' = RevokedDevices /\ KeptDevices' = KeptDevices
    BY <1>1, <1>3, RedeemedIs
  <2>2. Devices!EnrolNobody(c)
    BY <1>2, <2>1 DEF Devices!EnrolNobody, Devices!requests, UsedCodes, KeysHeld,
       RevokedDevices, KeptDevices
  <2> QED BY <2>2 DEF RegisterStep, Devices!RegisterNext
<1>4. CASE codes[c] # "open"
  <2>1. UNCHANGED <<codes, devices>>
    BY <1>1, <1>4 DEF Redeemed
  <2>2. /\ UsedCodes' = UsedCodes /\ Len(devices') = Len(devices)
        /\ RevokedDevices' = RevokedDevices /\ KeptDevices' = KeptDevices
    BY <2>1, PairingsStay
  <2> QED BY <1>2, <2>2 DEF RegisterStep, Devices!registerVars, UsedCodes, KeysHeld,
             RevokedDevices, KeptDevices
<1> QED BY <1>3, <1>4

(* A deletion revokes the device and empties it.                           *)
LEMMA DeleteStep ==
  ASSUME EnrolmentInv, NEW d \in Ids, Delete(d) PROVE RegisterStep
<1> DEFINE x == [code |-> devices[d].code, revoked |-> TRUE, row |-> FALSE, stored |-> FALSE]
<1>1. devices' = [devices EXCEPT ![d] = x] /\ UNCHANGED <<codes, pairing, config>>
      /\ UNCHANGED <<now, requests>>
  BY DEF Delete
<1>2. devices[d] \in Device
  BY InvParts, ElementOfSeq DEF PairingTypes, Ids
<1>3. x \in Device /\ x.revoked = TRUE /\ x.stored = FALSE
  BY <1>2 DEF Device
<1> HIDE DEF x
<1>4. /\ Ids' = Ids /\ devices'[d] = x /\ \A e \in Ids : e # d => devices'[e] = devices[e]
      /\ Len(devices') = Len(devices)
  BY <1>1, <1>3, InvParts, OneChanged, ExceptSeq DEF PairingTypes, Ids
<1>5. RevokedDevices' = RevokedDevices \cup {d} /\ KeptDevices' = KeptDevices \ {d}
  BY <1>3, <1>4 DEF RevokedDevices, KeptDevices
<1>6. /\ UsedCodes' = UsedCodes /\ KeysHeld' = KeysHeld
      /\ signed' = signed /\ handled' = handled /\ Underway' = Underway /\ TooOld' = TooOld
  BY <1>1, PairingsStay, RequestsStay
<1>7. Devices!Revoke(d)
  BY <1>4, <1>5, <1>6 DEF Devices!Revoke, Devices!pairings, Devices!requests, UsedCodes,
     KeysHeld, RevokedDevices, KeptDevices
<1> QED BY <1>7 DEF RegisterStep, Devices!RegisterNext, Ids

(* What most steps of a request leave alone.                               *)
LEMMA EnrolmentStays ==
  ASSUME UNCHANGED enrolment
  PROVE  /\ UsedCodes' = UsedCodes /\ KeysHeld' = KeysHeld /\ Len(devices') = Len(devices)
         /\ RevokedDevices' = RevokedDevices /\ KeptDevices' = KeptDevices
BY PairingsStay DEF enrolment

(* A machine signs with the key it holds.                                  *)
LEMMA SignStep ==
  ASSUME EnrolmentInv, UnderwayOnce, NEW m \in Machines, Sign(m)
  PROVE  RegisterStep /\ UnderwayOnce'
<1> DEFINE e == [device |-> config[m], ts |-> now + offset[m], nth |-> Cardinality(signed)]
<1>1. /\ signed' = signed \cup {e} /\ config[m] # 0 /\ UNCHANGED enrolment
      /\ active' = active /\ handled' = handled /\ now' = now
  BY DEF Sign
<1>2. e.device \in KeysHeld[m]
  BY <1>1 DEF KeysHeld
<1> HIDE DEF e
<1>3. /\ UsedCodes' = UsedCodes /\ KeysHeld' = KeysHeld /\ Len(devices') = Len(devices)
      /\ RevokedDevices' = RevokedDevices /\ KeptDevices' = KeptDevices
  BY <1>1, EnrolmentStays
<1>4. TooOld \subseteq TooOld' /\ TooOld' \subseteq TooOld \cup (signed' \ signed)
  BY <1>1 DEF TooOld
<1>5. Underway' = Underway /\ UnderwayOnce'
  BY <1>1, <1>4 DEF Underway, UnderwayOnce, IsUnderway
<1>6. Devices!Sign(m)
  BY <1>1, <1>2, <1>3, <1>5, <1>4 DEF Devices!Sign, Devices!pairings, UsedCodes, KeysHeld,
     RevokedDevices, KeptDevices
<1> QED BY <1>5, <1>6 DEF RegisterStep, Devices!RegisterNext

(* A request that arrives or is let in has no effect yet.                  *)
LEMMA NoEffect ==
  ASSUME UNCHANGED enrolment, signed' = signed, handled' = handled, Underway' = Underway,
         TooOld' = TooOld
  PROVE  RegisterStep
BY EnrolmentStays DEF RegisterStep, Devices!registerVars, UsedCodes, KeysHeld,
   RevokedDevices, KeptDevices

LEMMA ReceiveStep ==
  ASSUME EnrolmentInv, UnderwayOnce, NEW e \in signed, NEW k \in Workers, Receive(e, k)
  PROVE  RegisterStep /\ UnderwayOnce'
<1> DEFINE w == [envelope |-> e, step |-> "body", worker |-> k]
<1>1. /\ active' = active \cup {w} /\ UNCHANGED enrolment
      /\ signed' = signed /\ handled' = handled /\ TooOld' = TooOld
  BY DEF TooOld, Receive
<1>2. ~IsUnderway(w)
  BY DEF IsUnderway
<1> HIDE DEF w
<1>3. UnderwayOnce'
  BY <1>1, <1>2 DEF UnderwayOnce, IsUnderway
<1>4. \A f : f \in Underway' <=> f \in Underway
  BY <1>1, <1>2, UnderwayIs, UnderwayIsNext
<1>5. Underway' = Underway
  BY <1>4
<1> QED BY <1>1, <1>3, <1>5, NoEffect

LEMMA AuthenticateStep ==
  ASSUME EnrolmentInv, UnderwayOnce, NEW r \in active, Authenticate(r)
  PROVE  RegisterStep /\ UnderwayOnce'
<1>1. /\ r.step = "body" /\ Advanced(r, "claim") /\ UNCHANGED enrolment
      /\ signed' = signed /\ handled' = handled /\ TooOld' = TooOld
  BY DEF TooOld, Authenticate
<1>2. PICK n : /\ active' = (active \ {r}) \cup {n}
              /\ n.envelope = r.envelope /\ n.step = "claim"
  BY <1>1, AdvancedIs
<1>3. ~IsUnderway(r) /\ ~IsUnderway(n)
  BY <1>1, <1>2 DEF IsUnderway
<1>4. UnderwayOnce' /\ Underway' = Underway
  BY <1>1, <1>2, <1>3, ReplacedWork
<1> QED BY <1>1, <1>4, NoEffect

(* A claim is the one moment a request takes effect.                       *)
LEMMA ClaimStep ==
  ASSUME EnrolmentInv, UnderwayOnce, NEW r \in active, Claim(r)
  PROVE  RegisterStep /\ UnderwayOnce'
<1> DEFINE e == r.envelope
<1>1. /\ r.step = "claim" /\ Advanced(r, "register") /\ UNCHANGED enrolment
      /\ signed' = signed /\ handled' = handled \cup {e} /\ TooOld' = TooOld
  BY DEF TooOld, Claim
<1>2. (e \notin handled \/ e \in TooOld) /\ e \in signed
  BY ClaimsAreNew, InvParts DEF RequestTypes
<1>3. PICK n : /\ active' = (active \ {r}) \cup {n}
              /\ n.envelope = r.envelope /\ n.step = "register"
  BY <1>1, AdvancedIs
<1>4. IsUnderway(n)
  BY <1>3 DEF IsUnderway
<1>5. UnderwayOnce' /\ Underway' = Underway \cup {e}
  BY <1>1, <1>2, <1>3, <1>4, ReplacedWork
<1>6. /\ UsedCodes' = UsedCodes /\ KeysHeld' = KeysHeld /\ Len(devices') = Len(devices)
      /\ RevokedDevices' = RevokedDevices /\ KeptDevices' = KeptDevices
  BY <1>1, EnrolmentStays
<1> HIDE DEF e
<1>7. Devices!Take(e)
  BY <1>1, <1>2, <1>5, <1>6 DEF Devices!Take, Devices!pairings, UsedCodes, KeysHeld,
     RevokedDevices, KeptDevices
<1> QED BY <1>2, <1>5, <1>7 DEF RegisterStep, Devices!RegisterNext

(* The registry row of a device is no promise of DeviceRegister.           *)
LEMMA RegisterRowStep ==
  ASSUME EnrolmentInv, UnderwayOnce, NEW r \in active, Register(r)
  PROVE  RegisterStep /\ UnderwayOnce'
<1> DEFINE d == r.envelope.device
           x == [devices[d] EXCEPT !.row = TRUE]
<1>1. /\ r.step = "register" /\ Advanced(r, "store") /\ devices' = [devices EXCEPT ![d] = x]
      /\ UNCHANGED codes /\ UNCHANGED <<pairing, config>>
      /\ signed' = signed /\ handled' = handled /\ TooOld' = TooOld
  BY DEF TooOld, Register
<1>2. d \in Ids
  BY InvParts, DeviceOfWork
<1>3. x \in Device /\ x.revoked = devices[d].revoked /\ x.stored = devices[d].stored
  BY <1>2, InvParts, FlagSet
<1> HIDE DEF x, d
<1>4. /\ Ids' = Ids /\ devices'[d] = x /\ \A e \in Ids : e # d => devices'[e] = devices[e]
      /\ Len(devices') = Len(devices)
  BY <1>1, <1>2, <1>3, InvParts, OneChanged, ExceptSeq DEF PairingTypes, Ids
<1>5. RevokedDevices' = RevokedDevices /\ KeptDevices' = KeptDevices
  BY <1>3, <1>4 DEF RevokedDevices, KeptDevices
<1>6. UsedCodes' = UsedCodes /\ KeysHeld' = KeysHeld
  BY <1>1, PairingsStay
<1>7. PICK n : /\ active' = (active \ {r}) \cup {n}
              /\ n.envelope = r.envelope /\ n.step = "store"
  BY <1>1, AdvancedIs
<1>8. IsUnderway(r) /\ IsUnderway(n) /\ r.envelope \in handled
  BY <1>1, <1>7 DEF IsUnderway, UnderwayOnce
<1>9. UnderwayOnce' /\ Underway' = Underway \cup {r.envelope}
  BY <1>1, <1>7, <1>8, ReplacedWork
<1>10. r.envelope \in Underway
  BY <1>8, UnderwayIs
<1>11. Underway' = Underway
  BY <1>9, <1>10
<1> QED BY <1>1, <1>4, <1>5, <1>6, <1>9, <1>11 DEF RegisterStep, Devices!registerVars,
    UsedCodes, KeysHeld, RevokedDevices, KeptDevices

(* A contribution ends the request, of a device that is not revoked.       *)
LEMMA StoreStep ==
  ASSUME EnrolmentInv, UnderwayOnce, NEW r \in active, Store(r)
  PROVE  RegisterStep /\ UnderwayOnce'
<1> DEFINE e == r.envelope
           d == e.device
           x == [devices[d] EXCEPT !.stored = TRUE]
<1>1. /\ r.step = "store" /\ active' = active \ {r} /\ devices' = [devices EXCEPT ![d] = x]
      /\ ~devices[d].revoked /\ UNCHANGED codes /\ UNCHANGED <<pairing, config>>
      /\ signed' = signed /\ handled' = handled /\ TooOld' = TooOld
  BY DEF TooOld, Store, MayStore
<1>2. d \in Ids /\ e \in signed
  BY InvParts, DeviceOfWork DEF RequestTypes
<1>3. x \in Device /\ x.revoked = devices[d].revoked
  BY <1>2, InvParts, FlagSet
<1>4. x.stored = TRUE
  <2>1. devices[d] \in Device
    BY <1>2, InvParts, ElementOfSeq DEF PairingTypes, Ids
  <2> QED BY <2>1 DEF Device
<1>5. d \notin RevokedDevices
  BY <1>1 DEF RevokedDevices
<1> HIDE DEF x
<1>6. /\ Ids' = Ids /\ devices'[d] = x /\ \A f \in Ids : f # d => devices'[f] = devices[f]
      /\ Len(devices') = Len(devices)
  BY <1>1, <1>2, <1>3, InvParts, OneChanged, ExceptSeq DEF PairingTypes, Ids
<1>7. RevokedDevices' = RevokedDevices /\ KeptDevices' = KeptDevices \cup {d}
  BY <1>2, <1>3, <1>4, <1>6 DEF RevokedDevices, KeptDevices
<1>8. UsedCodes' = UsedCodes /\ KeysHeld' = KeysHeld
  BY <1>1, PairingsStay
<1>9. IsUnderway(r) /\ e \in Underway
  BY <1>1, UnderwayIs DEF IsUnderway
<1>10. /\ UnderwayOnce'
       /\ Underway' = Underway \ {e} \/ (e \in TooOld /\ Underway' = Underway)
  BY <1>1, <1>9, EndedWork
<1> HIDE DEF e
<1>11. Devices!Contribute(e)
  BY <1>1, <1>5, <1>6, <1>7, <1>8, <1>9, <1>10 DEF Devices!Contribute, Devices!Done,
     Devices!pairings, UsedCodes, KeysHeld, RevokedDevices, KeptDevices
<1> QED BY <1>2, <1>10, <1>11 DEF RegisterStep, Devices!RegisterNext

LEMMA EndStep ==
  ASSUME EnrolmentInv, UnderwayOnce, NEW r \in active, End(r)
  PROVE  RegisterStep /\ UnderwayOnce'
<1> DEFINE e == r.envelope
<1>1. /\ active' = active \ {r} /\ UNCHANGED enrolment
      /\ signed' = signed /\ handled' = handled /\ TooOld' = TooOld
  BY DEF TooOld, End
<1>2. e \in signed
  BY InvParts DEF RequestTypes
<1>3. /\ UnderwayOnce'
      /\ IF IsUnderway(r)
         THEN Underway' = Underway \ {e} \/ (e \in TooOld /\ Underway' = Underway)
         ELSE Underway' = Underway
  BY <1>1, EndedWork
<1>4. CASE IsUnderway(r)
  <2>1. e \in Underway
    BY <1>4, UnderwayIs
  <2>2. /\ UsedCodes' = UsedCodes /\ KeysHeld' = KeysHeld /\ Len(devices') = Len(devices)
        /\ RevokedDevices' = RevokedDevices /\ KeptDevices' = KeptDevices
    BY <1>1, EnrolmentStays
  <2> HIDE DEF e
  <2>3. Devices!Close(e)
    BY <1>1, <1>3, <1>4, <2>1, <2>2 DEF Devices!Close, Devices!Done, Devices!pairings,
       UsedCodes, KeysHeld,
       RevokedDevices, KeptDevices
  <2> QED BY <1>2, <1>3, <2>3 DEF RegisterStep, Devices!RegisterNext
<1>5. CASE ~IsUnderway(r)
  BY <1>1, <1>3, <1>5, NoEffect
<1> QED BY <1>4, <1>5

(* As time passes, requests become too old.                                *)
LEMMA TickStep ==
  ASSUME EnrolmentInv, UnderwayOnce, Tick PROVE RegisterStep /\ UnderwayOnce'
<1>1. /\ now' = now + 1 /\ UNCHANGED enrolment
      /\ signed' = signed /\ handled' = handled /\ active' = active
  BY DEF Tick, requests
<1>2. now \in Nat /\ \A e \in signed : e.ts \in Int
  BY InvParts, RequestFacts
<1>3. TooOld \subseteq TooOld' /\ TooOld' \subseteq signed
  BY <1>1, <1>2, Constants DEF TooOld
<1>4. Underway' = Underway /\ UnderwayOnce'
  BY <1>1, <1>3 DEF Underway, UnderwayOnce, IsUnderway
<1>5. /\ UsedCodes' = UsedCodes /\ KeysHeld' = KeysHeld /\ Len(devices') = Len(devices)
      /\ RevokedDevices' = RevokedDevices /\ KeptDevices' = KeptDevices
  BY <1>1, EnrolmentStays
<1>6. Devices!Age
  BY <1>1, <1>3, <1>4, <1>5 DEF Devices!Age, Devices!pairings, UsedCodes, KeysHeld,
     RevokedDevices, KeptDevices
<1> QED BY <1>4, <1>6 DEF RegisterStep, Devices!RegisterNext

(* Every step of Enrolment is one of DeviceRegister, or none.              *)
LEMMA RegisterSteps ==
  EnrolmentInv /\ UnderwayOnce /\ [Next]_vars => RegisterStep /\ UnderwayOnce'
<1> SUFFICES ASSUME EnrolmentInv, UnderwayOnce, [Next]_vars PROVE RegisterStep /\ UnderwayOnce'
  OBVIOUS
<1>1. ASSUME NEW c \in Codes, Mint(c) \/ Expire(c) PROVE RegisterStep /\ UnderwayOnce'
  BY <1>1, CodeStep, RequestsStay DEF Mint, Expire
<1>2. ASSUME NEW c \in Codes, RedeemLate(c) PROVE RegisterStep /\ UnderwayOnce'
  BY <1>2, RedeemLateStep, RequestsStay DEF RedeemLate
<1>3. ASSUME NEW m \in Machines, NEW c \in Codes, AskToPair(m, c)
      PROVE  RegisterStep /\ UnderwayOnce'
  BY <1>3, AskToPairStep, RequestsStay DEF AskToPair
<1>4. ASSUME NEW m \in Machines, Redeem(m) PROVE RegisterStep /\ UnderwayOnce'
  BY <1>4, RedeemStep, RequestsStay DEF Redeem
<1>5. ASSUME NEW m \in Machines, GiveUp(m) PROVE RegisterStep /\ UnderwayOnce'
  BY <1>5, GiveUpStep, RequestsStay DEF GiveUp
<1>6. ASSUME NEW m \in Machines, NEW saved \in BOOLEAN, SaveConfig(m, saved)
      PROVE  RegisterStep /\ UnderwayOnce'
  BY <1>6, SaveConfigStep, RequestsStay DEF SaveConfig
<1>7. ASSUME NEW d \in Ids, Delete(d) PROVE RegisterStep /\ UnderwayOnce'
  BY <1>7, DeleteStep, RequestsStay DEF Delete
<1>8. CASE Pair
  BY <1>1, <1>2, <1>3, <1>4, <1>5, <1>6, <1>8 DEF Pair
<1>9. CASE Request
  BY <1>9, SignStep, ReceiveStep, AuthenticateStep, ClaimStep, RegisterRowStep, StoreStep,
     EndStep DEF Request
<1>10. CASE UNCHANGED vars
  <2>1. UNCHANGED enrolment /\ UNCHANGED <<now, requests>>
    BY <1>10 DEF vars, enrolment, requests
  <2> QED BY <2>1, RequestsStay, NoEffect
<1> QED BY <1>7, <1>8, <1>9, <1>10, TickStep DEF Next

LEMMA RegisterStarts == Init => UnderwayOnce /\ Devices!RegisterInit
<1> SUFFICES ASSUME Init PROVE UnderwayOnce /\ Devices!RegisterInit
  OBVIOUS
<1>1. /\ codes = [c \in Codes |-> "new"] /\ active = {} /\ signed = {} /\ handled = {}
      /\ config = [m \in Machines |-> 0] /\ pairing = [m \in Machines |-> NoPairing]
  BY DEF Init
<1>2. Len(devices) = 0 /\ Ids = {}
  BY EmptySeq DEF Init, Ids
<1>3. /\ UsedCodes = {} /\ RevokedDevices = {} /\ KeptDevices = {} /\ Underway = {}
      /\ TooOld = {}
  BY <1>1, <1>2 DEF TooOld, UsedCodes, RevokedDevices, KeptDevices, Underway
<1>4. KeysHeld = [m \in Machines |-> {}]
  BY <1>1 DEF KeysHeld, NoPairing
<1>5. UnderwayOnce
  BY <1>1 DEF UnderwayOnce
<1> QED BY <1>1, <1>2, <1>3, <1>4, <1>5 DEF Devices!RegisterInit, UsedCodes, KeysHeld,
    RevokedDevices, KeptDevices

(* pairing.redeem_code, validate_ingest_auth, replay.claim_signed_request, *)
(* delete_sidecar and the re-check in the ingest handler together keep the *)
(* promise of DeviceRegister: whatever the clocks, the retries and the     *)
(* order of operators and requests, one code makes one device whose key    *)
(* one machine gets or nobody, a signed request takes effect once until it *)
(* is too old to be let in, and a revoked device contributes nothing.      *)
THEOREM EnrolmentIsARegister == Spec => ImplementsRegister
<1>1. Init => UnderwayOnce /\ Devices!RegisterInit
  BY RegisterStarts
<1>2. EnrolmentInv /\ UnderwayOnce /\ [Next]_vars
        => UnderwayOnce' /\ [Devices!RegisterNext]_(Devices!registerVars)
  BY RegisterSteps DEF RegisterStep
<1>3. Spec => []EnrolmentInv
  BY EnrolmentInvariant
<1> QED BY <1>1, <1>2, <1>3, PTL DEF Spec, ImplementsRegister, Devices!RegisterSpec
=============================================================================
