-------------------------- MODULE EventStoreProofs --------------------------
(***************************************************************************)
(* For every set of events, hosts, accounts and models, every batch size   *)
(* and every number of operator changes: EventStore keeps its types, its   *)
(* rollups agree with its events, nothing is copied to a redirect target   *)
(* or stamped on an archived account, and no held-back event is lost;      *)
(* ingestion is idempotent and its order does not matter, and a stored     *)
(* event moves only to the account its host's pushes have, or an assigned  *)
(* one.  What is answered is stored or held, and stays so.                 *)
(***************************************************************************)
EXTENDS EventStore, FiniteSetTheorems, TLAPS

USE DEF Transaction, Job

-----------------------------------------------------------------------------
(* Types of the pure operators. *)

(* Adding or subtracting an event leaves an integer in every bucket. *)
LEMMA RollupType ==
    ASSUME NEW rollup \in [Bucket -> Int], NEW p \in Providers, NEW row \in Row
    PROVE  /\ Add(rollup, p, row) \in [Bucket -> Int]
           /\ Subtract(rollup, p, row) \in [Bucket -> Int]
BY DEF Add, Subtract

(* Saving a push that has an account gives a store. *)
LEMMA SaveType ==
    ASSUME NEW st \in Store, NEW s \in Sidecars, NEW push \in OwnedPush
    PROVE  Save(st, s, push) \in Store
<1> DEFINE k == <<push.provider, push.event>>
           new == [account |-> push.account, sidecar |-> s,
                   kind |-> push.kind, model |-> push.model]
           put(r) == [st EXCEPT !.stored[k] = new,
                                !.rollup = Add(r, push.provider, new)]
<1>1. k \in Keys /\ new \in Row /\ push.provider \in Providers
  BY DEF OwnedPush, Keys, Row
<1>2. ASSUME NEW r \in [Bucket -> Int] PROVE put(r) \in Store
  <2>1. Add(r, push.provider, new) \in [Bucket -> Int]
    BY <1>1, <1>2, RollupType
  <2> HIDE DEF k, new
  <2> QED BY <1>1, <2>1 DEF Store
<1>3. st.rollup \in [Bucket -> Int] /\ st.stored[k] \in Row \cup {NoRow}
  BY <1>1 DEF Store
<1>4. CASE st.stored[k] = NoRow
  <2>1. Save(st, s, push) = put(st.rollup) BY <1>4 DEF Save
  <2> QED BY <1>2, <1>3, <2>1
<1>5. CASE /\ st.stored[k] # NoRow
           /\ st.stored[k].account # new.account /\ st.stored[k].sidecar = s
  <2>1. Save(st, s, push) = put(Subtract(st.rollup, push.provider, st.stored[k]))
    BY <1>5 DEF Save
  <2>2. Subtract(st.rollup, push.provider, st.stored[k]) \in [Bucket -> Int]
    BY <1>1, <1>3, <1>5, RollupType
  <2> QED BY <1>2, <2>1, <2>2
<1>6. CASE /\ st.stored[k] # NoRow
           /\ ~(st.stored[k].account # new.account /\ st.stored[k].sidecar = s)
  BY <1>6 DEF Save
<1> QED BY <1>4, <1>5, <1>6

(* Holding an event back gives a store. *)
LEMMA HoldType ==
    ASSUME NEW st \in Store, NEW s \in Sidecars, NEW push \in UnownedPush
    PROVE  Hold(st, s, push) \in Store
BY DEF Hold, Store, UnownedPush, Content

(* Dropping the pending copies of an event gives a store. *)
LEMMA DropType ==
    ASSUME NEW st \in Store, NEW e \in Events
    PROVE  /\ DropPendingCopies(st, e) \in Store
           /\ DropPendingCopies(st, e).stored = st.stored
           /\ DropPendingCopies(st, e).rollup = st.rollup
BY DEF DropPendingCopies, Store

(* The tag that applies to a host is a tag or none. *)
LEMMA EffectiveTagType ==
    ASSUME NEW st \in Store, NEW s \in Sidecars
    PROVE  EffectiveTag(st, s) \in Tag \cup {NoTag}
BY DEF EffectiveTag, Store, Scopes

(* Re-homing a push gives a push that has an account. *)
LEMMA RedirectPushType ==
    ASSUME NEW push \in Push, NEW account \in Accounts
    PROVE  RedirectPush(push, account) \in OwnedPush
<1>1. NormalModel[push.model] \in Models /\ push.event \in Events /\ push.kind \in Kinds
  BY ConstantsAssumption DEF Push, OwnedPush, UnownedPush
<1> QED BY <1>1 DEF OwnedPush, RedirectPush, Providers

(* Every way an ingested push can end: nothing changes, it is held back, or *)
(* it is saved with an account in a store that differs in its pending queue *)
(* at most.                                                                 *)
LEMMA IngestedCases ==
    ASSUME NEW st \in Store, NEW s \in Sidecars, NEW push \in Push,
           native \in [Sidecars -> Accounts \cup {Default}]
    PROVE  \/ Ingested(st, s, push) = st
           \/ push \in UnownedPush /\ Ingested(st, s, push) = Hold(st, s, push)
           \/ \E base \in Store, owned \in OwnedPush :
                 /\ base.stored = st.stored
                 /\ base.rollup = st.rollup
                 /\ Ingested(st, s, push) = Save(base, s, owned)
<1> DEFINE tag == EffectiveTag(st, s)
<1>1. CASE Redirects(st, s, push)
  <2>1. tag \in Tag /\ tag.account \in Accounts
    BY <1>1, EffectiveTagType DEF Redirects, Tag
  <2>2. RedirectPush(push, tag.account) \in OwnedPush
    BY <2>1, RedirectPushType
  <2> HIDE DEF tag
  <2> QED BY <1>1, <2>2 DEF Ingested, tag
<1>2. CASE ~Redirects(st, s, push) /\ push.source # "default"
  <2>1. push \in OwnedPush BY <1>2 DEF Push, UnownedPush
  <2> QED BY <1>2, <2>1 DEF Ingested
<1>3. CASE ~Redirects(st, s, push) /\ push.source = "default"
  <2>1. push \in UnownedPush BY <1>3 DEF Push, OwnedPush
  <2> DEFINE account == ResolveIdentityless(st, s)
             owned == Owned(push, account)
  <2>2. account \in Accounts \cup {Default}
    <3>1. EffectiveTag(st, s) # NoTag => EffectiveTag(st, s).account \in Accounts
      BY EffectiveTagType DEF Tag
    <3> QED BY <3>1 DEF ResolveIdentityless
  <2>3. CASE account = Default
    BY <1>3, <2>1, <2>3 DEF Ingested
  <2>4. CASE account # Default
    <3>1. owned \in OwnedPush
      <4>1. account \in Accounts BY <2>2, <2>4
      <4> HIDE DEF account
      <4> QED BY <2>1, <4>1 DEF UnownedPush, OwnedPush, Owned, Providers
    <3>2. push.event \in Events BY <2>1 DEF UnownedPush
    <3>3. Ingested(st, s, push) = Save(DropPendingCopies(st, push.event), s, owned)
      BY <1>3, <2>4 DEF Ingested
    <3> HIDE DEF owned
    <3> QED BY <3>1, <3>2, <3>3, DropType
  <2> QED BY <2>3, <2>4
<1> QED BY <1>1, <1>2, <1>3

(* Ingesting a push gives a store. *)
LEMMA IngestedType ==
    ASSUME NEW st \in Store, NEW s \in Sidecars, NEW push \in Push,
           native \in [Sidecars -> Accounts \cup {Default}]
    PROVE  Ingested(st, s, push) \in Store
BY IngestedCases, HoldType, SaveType

-----------------------------------------------------------------------------
(* Rollups. *)

LEMMA KeysFinite == IsFiniteSet(Keys)
<1>1. IsFiniteSet({Source}) BY FS_Singleton
<1>2. Providers = {Source} \cup {Target} BY DEF Providers
<1>3. IsFiniteSet(Providers) BY <1>1, <1>2, FS_AddElement
<1>4. IsFiniteSet(Events) BY ConstantsAssumption
<1> QED BY <1>3, <1>4, FS_Product DEF Keys

(* Counted sets are finite, so their cardinality is a number. *)
LEMMA CountedFinite ==
    ASSUME NEW st, NEW b
    PROVE  /\ IsFiniteSet(Counted(st, b))
           /\ Cardinality(Counted(st, b)) \in Nat
<1>1. Counted(st, b) \subseteq Keys BY DEF Counted
<1> QED BY <1>1, KeysFinite, FS_Subset, FS_CardinalityType

(* Writing one row takes its key out of the buckets the old row counted in  *)
(* and puts it into those of the new one.                                   *)
LEMMA CountedAfterWrite ==
    ASSUME NEW st \in Store, NEW st2 \in Store, NEW k \in Keys, NEW new \in Row,
           NEW b \in Bucket,
           st2.stored = [st.stored EXCEPT ![k] = new]
    PROVE  Counted(st2, b) =
             IF new.kind = "message" /\ b \in Grains(k[1], new)
             THEN Counted(st, b) \cup {k} ELSE Counted(st, b) \ {k}
<1>1. new # NoRow BY ConstantsAssumption DEF Row
<1>2. st2.stored[k] = new BY DEF Store
<1>3. \A x \in Keys : x # k => st2.stored[x] = st.stored[x] BY DEF Store
<1> QED BY <1>1, <1>2, <1>3, Zenon DEF Counted

(* Adding an event raises the buckets of its grains by one.                *)
LEMMA AddAt ==
    ASSUME NEW rollup \in [Bucket -> Int], NEW p, NEW row, NEW b \in Bucket
    PROVE  Add(rollup, p, row)[b] =
             IF row.kind = "message" /\ b \in Grains(p, row) THEN rollup[b] + 1 ELSE rollup[b]
BY DEF Add

(* Subtracting one lowers them by one, where there is something to lower.  *)
LEMMA SubtractAt ==
    ASSUME NEW rollup \in [Bucket -> Int], NEW p, NEW row, NEW b \in Bucket
    PROVE  Subtract(rollup, p, row)[b] =
             IF row.kind = "message" /\ b \in Grains(p, row) /\ rollup[b] # 0
             THEN rollup[b] - 1 ELSE rollup[b]
BY DEF Subtract

(* Saving a push keeps the rollups in step with the events, whether it     *)
(* inserts, moves or ignores the row.                                      *)
LEMMA SaveAgrees ==
    ASSUME NEW st \in Store, RollupsAgree(st), NEW s \in Sidecars, NEW push \in OwnedPush
    PROVE  RollupsAgree(Save(st, s, push))
<1> DEFINE p == push.provider
           k == <<push.provider, push.event>>
           old == st.stored[k]
           new == [account |-> push.account, sidecar |-> s,
                   kind |-> push.kind, model |-> push.model]
           st2 == Save(st, s, push)
<1>1. k \in Keys /\ new \in Row /\ p \in Providers /\ k[1] = p
  BY DEF OwnedPush, Keys, Row
<1>2. st2 \in Store BY SaveType
<1>3. st.rollup \in [Bucket -> Int] /\ old \in Row \cup {NoRow}
  BY <1>1 DEF Store
<1>4. \A b \in Bucket : st.rollup[b] = Cardinality(Counted(st, b))
  BY DEF RollupsAgree
<1>5. CASE old = NoRow
  <2>1. st2.stored = [st.stored EXCEPT ![k] = new] /\ st2.rollup = Add(st.rollup, p, new)
    BY <1>5 DEF Save, Store
  <2> HIDE DEF k, new, p, st2, old
  <2>2. ASSUME NEW b \in Bucket PROVE st2.rollup[b] = Cardinality(Counted(st2, b))
    <3> DEFINE C == Counted(st, b)
    <3>1. k \notin C BY <1>5 DEF Counted, old
    <3>2. Counted(st2, b) = IF new.kind = "message" /\ b \in Grains(p, new)
                            THEN C \cup {k} ELSE C \ {k}
      BY <1>1, <1>2, <2>1, CountedAfterWrite
    <3>3. C \ {k} = C BY <3>1
    <3>4. Cardinality(C \cup {k}) = Cardinality(C) + 1
      BY <3>1, CountedFinite, FS_AddElement
    <3>5. st2.rollup[b] = IF new.kind = "message" /\ b \in Grains(p, new)
                          THEN st.rollup[b] + 1 ELSE st.rollup[b]
      BY <1>3, <2>1, AddAt
    <3>6. st.rollup[b] = Cardinality(C) BY <1>4
    <3> HIDE DEF C
    <3> QED BY <3>2, <3>3, <3>4, <3>5, <3>6
  <2> QED BY <2>2 DEF RollupsAgree, st2
<1>6. CASE old # NoRow /\ old.account # new.account /\ old.sidecar = s
  <2>1. /\ st2.stored = [st.stored EXCEPT ![k] = new]
        /\ st2.rollup = Add(Subtract(st.rollup, p, old), p, new)
    BY <1>6 DEF Save, Store
  <2>2. old \in Row BY <1>3, <1>6
  <2>3. Subtract(st.rollup, p, old) \in [Bucket -> Int]
    BY <1>1, <1>3, <2>2, RollupType
  <2> HIDE DEF k, new, p, st2, old
  <2>4. ASSUME NEW b \in Bucket PROVE st2.rollup[b] = Cardinality(Counted(st2, b))
    <3> DEFINE C == Counted(st, b)
               D == C \ {k}
               less == Subtract(st.rollup, p, old)[b]
    <3>1. k \in C <=> old.kind = "message" /\ b \in Grains(p, old)
      BY <1>1, <1>6 DEF Counted, old
    <3>2. /\ IsFiniteSet(C) /\ Cardinality(C) \in Nat
          /\ IsFiniteSet(D)
          /\ Cardinality(D) = IF k \in C THEN Cardinality(C) - 1 ELSE Cardinality(C)
      BY CountedFinite, FS_RemoveElement
    <3>3. k \in C => Cardinality(C) # 0
      BY <3>2, FS_EmptySet
    <3>4. less = Cardinality(D)
      BY <1>3, <1>4, <3>1, <3>2, <3>3, SubtractAt
    <3>5. Counted(st2, b) = IF new.kind = "message" /\ b \in Grains(p, new)
                            THEN C \cup {k} ELSE D
      BY <1>1, <1>2, <2>1, CountedAfterWrite
    <3>6. C \cup {k} = D \cup {k} OBVIOUS
    <3>7. Cardinality(D \cup {k}) = Cardinality(D) + 1
      BY <3>2, FS_AddElement
    <3>8. st2.rollup[b] = IF new.kind = "message" /\ b \in Grains(p, new)
                          THEN less + 1 ELSE less
      BY <2>1, <2>3, AddAt
    <3> HIDE DEF C, D, less
    <3> QED BY <3>4, <3>5, <3>6, <3>7, <3>8
  <2> QED BY <2>4 DEF RollupsAgree, st2
<1>7. CASE old # NoRow /\ ~(old.account # new.account /\ old.sidecar = s)
  <2>1. st2 = st BY <1>7 DEF Save
  <2> QED BY <2>1
<1> QED BY <1>5, <1>6, <1>7

(* Two stores with the same rows and the same rollups agree alike.         *)
LEMMA AgreementCarries ==
    ASSUME NEW st, NEW st2, RollupsAgree(st),
           st2.stored = st.stored, st2.rollup = st.rollup
    PROVE  RollupsAgree(st2)
BY DEF RollupsAgree, Counted

(* Ingesting a push keeps the rollups in step with the events.             *)
LEMMA IngestedAgrees ==
    ASSUME NEW st \in Store, RollupsAgree(st), NEW s \in Sidecars, NEW push \in Push,
           native \in [Sidecars -> Accounts \cup {Default}]
    PROVE  RollupsAgree(Ingested(st, s, push))
<1>1. CASE Ingested(st, s, push) = st BY <1>1
<1>2. CASE push \in UnownedPush /\ Ingested(st, s, push) = Hold(st, s, push)
  <2>1. /\ Hold(st, s, push).stored = st.stored
        /\ Hold(st, s, push).rollup = st.rollup
    BY DEF Hold, Store
  <2> QED BY <1>2, <2>1, AgreementCarries
<1>3. ASSUME NEW base \in Store, NEW owned \in OwnedPush,
             base.stored = st.stored, base.rollup = st.rollup,
             Ingested(st, s, push) = Save(base, s, owned)
      PROVE  RollupsAgree(Ingested(st, s, push))
  BY <1>3, AgreementCarries, SaveAgrees
<1> QED BY <1>1, <1>2, <1>3, IngestedCases

-----------------------------------------------------------------------------
(* The inductive invariant. *)

(* A pushed event that has an account leaves the pending queue alone.      *)
LEMMA OwnedKeepsPending ==
    ASSUME NEW st \in Store, NEW s \in Sidecars, NEW push \in OwnedPush,
           push.source # "default"
    PROVE  Ingested(st, s, push).pending = st.pending
<1>1. ASSUME NEW p PROVE Save(st, s, p).pending = st.pending
  BY DEF Save, Store
<1> QED BY <1>1 DEF Ingested

LEMMA InitIInv == Init => IInv
<1> SUFFICES ASSUME Init PROVE IInv OBVIOUS
<1>1. db \in Store
  BY DEF Init, Store
<1>2. TypeOK
  BY <1>1, ConstantsAssumption DEF Init, TypeOK
<1>3. RollupsMatchEvents
  <2>1. ASSUME NEW b \in Bucket PROVE Counted(db, b) = {}
    BY DEF Counted, Init
  <2>2. \A b \in Bucket : db.rollup[b] = 0 BY DEF Init
  <2> QED BY <2>1, <2>2, FS_EmptySet DEF RollupsMatchEvents, RollupsAgree
<1>4. TransactionAgrees /\ AssignmentHolds
  BY DEF Init, TransactionAgrees, AssignmentHolds
<1> QED BY <1>2, <1>3, <1>4 DEF IInv

(* A host reports an event under its identity or none.                     *)
LEMMA HostPushType ==
    ASSUME identity \in [Sidecars -> Identity], NEW s \in Sidecars, NEW e \in Events,
           NEW c \in Contents
    PROVE  HostPush(s, e, c) \in Push
<1>1. c.kind \in Kinds /\ c.model \in Models BY ConstantsAssumption
<1>2. identity[s] \in Identity OBVIOUS
<1>3. CASE identity[s] \in [account: {Default}, source: {"default"}]
  BY <1>1, <1>3 DEF HostPush, Push, UnownedPush
<1>4. CASE identity[s] \in [account: Accounts, source: {"tag", "local"}]
  BY <1>1, <1>4 DEF HostPush, Push, OwnedPush, Providers
<1> QED BY <1>2, <1>3, <1>4 DEF Identity

LEMMA ReceiveIInv == ASSUME IInv, NEW s \in Sidecars, Receive(s) PROVE IInv'
<1>0. PICK E \in SUBSET Events :
         \E c \in [E -> Contents] : Open(s, {HostPush(s, e, c[e]) : e \in E}, db)
  BY DEF Receive
<1>1. PICK c \in [E -> Contents] : Open(s, {HostPush(s, e, c[e]) : e \in E}, db)
  BY <1>0
<1>2. {HostPush(s, e, c[e]) : e \in E} \subseteq Push
  BY <1>1, HostPushType DEF IInv, TypeOK
<1>3. TypeOK'
  BY <1>1, <1>2 DEF Receive, Open, IInv, TypeOK
<1>4. TransactionAgrees' /\ RollupsMatchEvents'
  BY <1>1 DEF Receive, Open, IInv, TransactionAgrees, RollupsMatchEvents, RollupsAgree, Counted
<1>5. AssignmentHolds'
  BY DEF Receive, AssignmentHolds
<1> QED BY <1>3, <1>4, <1>5 DEF IInv

LEMMA IngestPushIInv == ASSUME IInv, IngestPush PROVE IInv'
<1>1. txn \in Transaction
  BY DEF IngestPush, IInv, TypeOK
<1>2. PICK push \in txn.todo :
         txn' = [txn EXCEPT !.todo = @ \ {push}, !.work = Ingested(txn.work, txn.sidecar, push)]
  BY DEF IngestPush
<1>3. push \in Push /\ native \in [Sidecars -> Accounts \cup {Default}]
  BY <1>1 DEF IInv, TypeOK
<1> DEFINE new == Ingested(txn.work, txn.sidecar, push)
<1>4. new \in Store BY <1>1, <1>3, IngestedType
<1>5. txn' = [sidecar |-> txn.sidecar, todo |-> txn.todo \ {push}, work |-> new]
  BY <1>1, <1>2
<1>6. RollupsAgree(new)
  BY <1>1, <1>3, IngestedAgrees DEF IngestPush, IInv, TransactionAgrees
<1>7. TypeOK'
  <2> HIDE DEF new
  <2> QED BY <1>1, <1>4, <1>5 DEF IngestPush, IInv, TypeOK
<1>8. TransactionAgrees' /\ RollupsMatchEvents'
  <2>1. txn'.work = new BY <1>5
  <2> HIDE DEF new
  <2> QED BY <1>6, <2>1 DEF IngestPush, IInv, TransactionAgrees, RollupsMatchEvents, RollupsAgree, Counted
<1>9. AssignmentHolds'
  <2>1. SUFFICES ASSUME job # Idle PROVE AssignmentHolds'
    BY DEF IngestPush, AssignmentHolds
  <2>2. txn.todo \subseteq OwnedPush /\ txn.work.pending = db.pending
    BY <2>1 DEF IngestPush, IInv, AssignmentHolds
  <2>3. push \in OwnedPush /\ push.source # "default"
    BY <2>2 DEF OwnedPush
  <2>4. new.pending = txn.work.pending
    BY <1>1, <2>3, OwnedKeepsPending
  <2> HIDE DEF new
  <2> QED BY <1>5, <2>1, <2>2, <2>4 DEF IngestPush, IInv, AssignmentHolds, Held
<1> QED BY <1>7, <1>8, <1>9 DEF IInv

LEMMA CommitIInv == ASSUME IInv, Commit PROVE IInv'
<1>1. txn.work \in Store /\ RollupsAgree(txn.work)
  BY DEF Commit, IInv, TypeOK, TransactionAgrees
<1>2. TypeOK'
  BY <1>1 DEF Commit, IInv, TypeOK
<1>3. RollupsMatchEvents' /\ TransactionAgrees'
  BY <1>1 DEF Commit, RollupsMatchEvents, TransactionAgrees, RollupsAgree, Counted
<1>4. AssignmentHolds'
  BY DEF Commit, IInv, AssignmentHolds, Held
<1> QED BY <1>2, <1>3, <1>4 DEF IInv

LEMMA AbortIInv == ASSUME IInv, Abort PROVE IInv'
<1>1. TypeOK'
  BY DEF Abort, IInv, TypeOK
<1>2. RollupsMatchEvents' /\ TransactionAgrees'
  BY DEF Abort, IInv, RollupsMatchEvents, TransactionAgrees, RollupsAgree, Counted
<1>3. AssignmentHolds'
  BY DEF Abort, AssignmentHolds
<1> QED BY <1>1, <1>2, <1>3 DEF IInv

LEMMA AssignIInv ==
    ASSUME IInv, NEW rows \in SUBSET (Events \X Sidecars), NEW target \in Providers,
           NEW account \in Accounts, Assign(rows, target, account)
    PROVE  IInv'
<1>1. db.tags \in [Scopes -> Tag \cup {NoTag}]
  BY DEF IInv, TypeOK, Store
<1>2. changes' \in 0..MaxChanges
  BY ConstantsAssumption DEF Assign, IInv, TypeOK
<1>3. TypeOK'
  BY <1>1, <1>2 DEF Assign, IInv, TypeOK
<1>4. RollupsMatchEvents' /\ TransactionAgrees'
  BY DEF Assign, IInv, RollupsMatchEvents, TransactionAgrees, RollupsAgree, Counted
<1>5. AssignmentHolds'
  BY DEF Assign, AssignmentHolds, Held
<1> QED BY <1>3, <1>4, <1>5 DEF IInv

(* A held row is promoted as a push that has the assigned account.         *)
LEMMA PayloadType ==
    ASSUME IInv, job # Idle, NEW h \in job.left
    PROVE  /\ h \in Events \X Sidecars
           /\ Payload(h) \in OwnedPush
           /\ PromotionSidecar(h) \in Sidecars
<1>1. /\ job.left \subseteq Events \X Sidecars
      /\ job.account \in Accounts /\ job.target \in Providers
      /\ db \in Store
  BY DEF IInv, TypeOK
<1>2. h \in Events \X Sidecars /\ h[1] \in Events /\ h[2] \in Sidecars
  BY <1>1
<1>3. db.pending[h] \in Content
  BY <1>1, <1>2 DEF IInv, AssignmentHolds, Held, Store
<1> DEFINE push == [provider |-> Source, event |-> h[1], account |-> job.account,
                    source |-> "tag", kind |-> db.pending[h].kind,
                    model |-> db.pending[h].model]
<1>4. push \in OwnedPush
  BY <1>1, <1>2, <1>3 DEF OwnedPush, Content, Providers
<1>5. RedirectPush(push, job.account) \in OwnedPush
  BY <1>1, <1>4, RedirectPushType DEF Push
<1>6. Payload(h) \in OwnedPush
  BY <1>4, <1>5 DEF Payload
<1>7. PromotionSidecar(h) \in Sidecars
  BY <1>1, <1>2 DEF PromotionSidecar, Store, Keys, Row
<1> QED BY <1>2, <1>6, <1>7

(* A transaction opened on the database, the staged tags apart, agrees and *)
(* holds what the database holds.                                          *)
LEMMA OpenForJob ==
    ASSUME IInv, NEW tags \in [Scopes -> Tag \cup {NoTag}]
    PROVE  /\ [db EXCEPT !.tags = tags] \in Store
           /\ RollupsAgree([db EXCEPT !.tags = tags])
           /\ [db EXCEPT !.tags = tags].pending = db.pending
<1>1. db \in Store BY DEF IInv, TypeOK
<1>2. /\ [db EXCEPT !.tags = tags] \in Store
      /\ [db EXCEPT !.tags = tags].pending = db.pending
      /\ [db EXCEPT !.tags = tags].stored = db.stored
      /\ [db EXCEPT !.tags = tags].rollup = db.rollup
  BY <1>1 DEF Store
<1> QED BY <1>2, AgreementCarries DEF IInv, RollupsMatchEvents

LEMMA VisitRowIInv == ASSUME IInv, NEW h \in Events \X Sidecars, VisitRow(h) PROVE IInv'
<1> DEFINE tags == [job.tags EXCEPT ![h[2]] = [account |-> job.account, target |-> job.target]]
           visited == [job EXCEPT !.left = @ \ {h}, !.tags = tags]
           s == PromotionSidecar(h)
           work == [db EXCEPT !.tags = tags]
<1>1. job # Idle /\ txn = Idle /\ h \in job.left /\ job \in Job
  BY DEF VisitRow, IInv, TypeOK
<1>2. Payload(h) \in OwnedPush /\ s \in Sidecars
  BY <1>1, PayloadType
<1>3. tags \in [Scopes -> Tag \cup {NoTag}]
  BY <1>1 DEF Tag
<1>4. visited \in Job /\ visited.rows = job.rows /\ visited.left = job.left \ {h}
  BY <1>1, <1>3
<1>5. work \in Store /\ RollupsAgree(work) /\ work.pending = db.pending
  BY <1>3, OpenForJob
<1>6. \/ job' = visited /\ txn' = txn
      \/ job' = visited /\ txn' = [sidecar |-> s, todo |-> {Payload(h)}, work |-> work]
      \/ job' = [visited EXCEPT !.groups = @ \cup {<<s, Payload(h)>>}] /\ txn' = txn
  BY DEF VisitRow, Open
<1>7. UNCHANGED <<db, archived, native, identity, changes>>
  BY DEF VisitRow
<1>8. /\ job' \in Job /\ job'.rows = job.rows /\ job'.left \subseteq job.left
  <2> HIDE DEF tags, s, visited
  <2>1. CASE job' = visited BY <1>4, <2>1
  <2>2. CASE job' = [visited EXCEPT !.groups = @ \cup {<<s, Payload(h)>>}]
    <3>1. visited.groups \cup {<<s, Payload(h)>>} \in SUBSET (Sidecars \X OwnedPush)
      BY <1>2, <1>4
    <3> QED BY <1>4, <2>2, <3>1
  <2> QED BY <1>6, <2>1, <2>2
<1>9. \/ txn' = Idle
      \/ /\ txn' = [sidecar |-> s, todo |-> {Payload(h)}, work |-> work]
         /\ txn'.work = work /\ txn'.todo = {Payload(h)}
  BY <1>1, <1>6
<1> HIDE DEF s, work, visited, tags
<1>10. TypeOK'
  BY <1>2, <1>5, <1>7, <1>8, <1>9 DEF IInv, TypeOK, Push
<1>11. RollupsMatchEvents' /\ TransactionAgrees'
  BY <1>5, <1>7, <1>9
  DEF IInv, RollupsMatchEvents, TransactionAgrees, RollupsAgree, Counted
<1>12. AssignmentHolds'
  <2>1. job.left \subseteq job.rows /\ job.rows \subseteq Held(db)
    BY <1>1 DEF IInv, AssignmentHolds
  <2>2. Held(db)' = Held(db) BY <1>7 DEF Held
  <2> QED BY <1>2, <1>5, <1>7, <1>8, <1>9, <2>1, <2>2 DEF AssignmentHolds
<1> QED BY <1>10, <1>11, <1>12 DEF IInv

LEMMA PromoteGroupIInv == ASSUME IInv, NEW s \in Sidecars, PromoteGroup(s) PROVE IInv'
<1> DEFINE todo == {g[2] : g \in {x \in job.groups : x[1] = s}}
           work == [db EXCEPT !.tags = job.tags]
<1>1. /\ job # Idle
      /\ job.groups \subseteq Sidecars \X OwnedPush
      /\ job.tags \in [Scopes -> Tag \cup {NoTag}]
  BY DEF PromoteGroup, IInv, TypeOK
<1>2. todo \subseteq OwnedPush BY <1>1
<1>3. work \in Store /\ RollupsAgree(work) /\ work.pending = db.pending
  BY <1>1, OpenForJob
<1>4. /\ txn' = [sidecar |-> s, todo |-> todo, work |-> work]
      /\ txn'.todo = todo /\ txn'.work = work
  BY DEF PromoteGroup, Open
<1>5. /\ job' = [job EXCEPT !.groups = {x \in @ : x[1] # s}]
      /\ UNCHANGED <<db, archived, native, identity, changes>>
  BY DEF PromoteGroup
<1> HIDE DEF todo, work
<1>6. TypeOK'
  BY <1>1, <1>2, <1>3, <1>4, <1>5 DEF IInv, TypeOK, Push
<1>7. RollupsMatchEvents' /\ TransactionAgrees'
  BY <1>3, <1>4, <1>5
  DEF IInv, RollupsMatchEvents, TransactionAgrees, RollupsAgree, Counted
<1>8. AssignmentHolds'
  <2>1. job'.rows = job.rows /\ job'.left = job.left
    BY <1>1, <1>5 DEF IInv, TypeOK
  <2>2. Held(db)' = Held(db) BY <1>5 DEF Held
  <2> QED BY <1>1, <1>2, <1>3, <1>4, <1>5, <2>1, <2>2 DEF IInv, AssignmentHolds
<1> QED BY <1>6, <1>7, <1>8 DEF IInv

LEMMA FinishAssignIInv == ASSUME IInv, FinishAssign PROVE IInv'
<1>1. job.tags \in [Scopes -> Tag \cup {NoTag}] /\ db \in Store
  BY DEF FinishAssign, IInv, TypeOK
<1>2. db' \in Store /\ db'.stored = db.stored /\ db'.rollup = db.rollup
  BY <1>1 DEF FinishAssign, Store
<1>3. txn' = Idle /\ job' = Idle /\ UNCHANGED <<archived, native, identity, changes>>
  BY DEF FinishAssign
<1>4. TypeOK' BY <1>2, <1>3 DEF IInv, TypeOK
<1>5. RollupsMatchEvents' /\ TransactionAgrees'
  BY <1>2, <1>3 DEF IInv, RollupsMatchEvents, TransactionAgrees, RollupsAgree, Counted
<1>6. AssignmentHolds' BY <1>3 DEF AssignmentHolds
<1> QED BY <1>4, <1>5, <1>6 DEF IInv

(* Operators and hosts change nothing the rollups depend on.               *)
LEMMA AdministrationIInv == ASSUME IInv, Administration PROVE IInv'
<1>1. Change BY DEF Administration, SetTag, ClearTag, Archive, Restore, ReportNative, ReportIdentity
<1>2. changes' \in 0..MaxChanges
  BY <1>1, ConstantsAssumption DEF Change, IInv, TypeOK
<1>3. db' \in Store /\ db'.stored = db.stored /\ db'.rollup = db.rollup
  <2>1. db \in Store BY DEF IInv, TypeOK
  <2>2. ASSUME NEW scope \in Scopes, NEW account \in Accounts, SetTag(scope, account)
        PROVE  db' \in Store /\ db'.stored = db.stored /\ db'.rollup = db.rollup
    BY <2>1, <2>2 DEF SetTag, Store, Tag, Providers
  <2>3. ASSUME NEW scope \in Scopes, ClearTag(scope)
        PROVE  db' \in Store /\ db'.stored = db.stored /\ db'.rollup = db.rollup
    BY <2>1, <2>3 DEF ClearTag, Store
  <2> QED BY <2>1, <2>2, <2>3 DEF Administration, Archive, Restore, ReportNative, ReportIdentity
<1>4. /\ archived' \subseteq Providers \X Accounts
      /\ native' \in [Sidecars -> Accounts \cup {Default}]
      /\ identity' \in [Sidecars -> Identity]
  <2>1. /\ archived \subseteq Providers \X Accounts
        /\ native \in [Sidecars -> Accounts \cup {Default}]
        /\ identity \in [Sidecars -> Identity]
    BY DEF IInv, TypeOK
  <2>2. CASE UNCHANGED <<archived, native, identity>> BY <2>1, <2>2
  <2>3. CASE \E p \in Providers, account \in Accounts : Archive(p, account) \/ Restore(p, account)
    BY <2>1, <2>3 DEF Archive, Restore
  <2>4. CASE \E s \in Sidecars, account \in Accounts \cup {Default} : ReportNative(s, account)
    BY <2>1, <2>4 DEF ReportNative
  <2>5. CASE \E s \in Sidecars, id \in Identity : ReportIdentity(s, id)
    BY <2>1, <2>5 DEF ReportIdentity
  <2> QED BY <2>2, <2>3, <2>4, <2>5 DEF Administration, SetTag, ClearTag
<1>5. txn' = Idle /\ job' = Idle BY <1>1 DEF Change
<1>6. TypeOK' BY <1>2, <1>3, <1>4, <1>5 DEF TypeOK
<1>7. RollupsMatchEvents' /\ TransactionAgrees'
  BY <1>3, <1>5 DEF IInv, RollupsMatchEvents, TransactionAgrees, RollupsAgree, Counted
<1>8. AssignmentHolds' BY <1>5 DEF AssignmentHolds
<1> QED BY <1>6, <1>7, <1>8 DEF IInv

(* Every step keeps the inductive invariant. *)
LEMMA NextIInv == ASSUME IInv, [Next]_vars PROVE IInv'
<1>1. CASE Request
  BY <1>1, ReceiveIInv, IngestPushIInv, CommitIInv, AbortIInv DEF Request
<1>2. CASE Assignment
  BY <1>2, AssignIInv, VisitRowIInv, PromoteGroupIInv, FinishAssignIInv DEF Assignment
<1>3. CASE Administration
  BY <1>3, AdministrationIInv
<1>4. CASE UNCHANGED vars
  BY <1>4 DEF vars, IInv, TypeOK, RollupsMatchEvents, TransactionAgrees, AssignmentHolds,
              RollupsAgree, Counted, Held
<1> QED BY <1>1, <1>2, <1>3, <1>4 DEF Next

-----------------------------------------------------------------------------
(* What a commit may do to events that are stored or held back.            *)

Exists(st, e) == \E p \in Providers : st.stored[<<p, e>>] # NoRow

(* No row disappears.                                                      *)
RowsStay ==
    txn # Idle => \A k \in Keys : db.stored[k] # NoRow => txn.work.stored[k] # NoRow

(* An event under its own provider gets no copy under the target, because  *)
(* a push under the target is only made while there is none.               *)
CopiesApart ==
    txn # Idle =>
        /\ \A e \in Events :
              db.stored[<<Source, e>>] # NoRow /\ db.stored[<<Target, e>>] = NoRow
                => txn.work.stored[<<Target, e>>] = NoRow
        /\ \A push \in txn.todo :
              push.provider = Target => db.stored[<<Source, push.event>>] = NoRow

(* An assignment to the target finds no copy when it groups its events,    *)
(* and makes none before it is done with them.                             *)
PromotedApart ==
    job # Idle =>
        /\ \A g \in job.groups : g[2].provider = job.target
        /\ job.target = Target =>
              /\ \A g \in job.groups : db.stored[<<Source, g[2].event>>] = NoRow
              /\ txn # Idle =>
                    /\ \A push \in txn.todo : push.provider = Target
                    /\ \A e \in Events :
                          txn.work.stored[<<Source, e>>] = db.stored[<<Source, e>>]

(* The pushes of a host name its own account or none, and what they have   *)
(* put on an archived account named that account.                          *)
StampsAllowed ==
    txn # Idle /\ job = Idle =>
        /\ \A push \in txn.todo :
              /\ push.provider = Source
              /\ push.source # "default" => push.account = identity[txn.sidecar].account
        /\ \A k \in Keys :
              LET row == txn.work.stored[k]
              IN  row # db.stored[k] /\ <<k[1], row.account>> \in archived
                    => identity[row.sidecar].account = row.account

HeldOrStored ==
    txn # Idle => \A h \in Held(db) : h \in Held(txn.work) \/ Exists(txn.work, h[1])

(* A row an assignment has visited is stored, or grouped, or about to be.  *)
VisitedAreCarried ==
    job # Idle => \A h \in job.rows \ job.left :
        \/ Exists(db, h[1])
        \/ \E g \in job.groups : g[2].event = h[1]
        \/ txn # Idle /\ (Exists(txn.work, h[1]) \/ \E push \in txn.todo : push.event = h[1])

CommitInv ==
    RowsStay /\ CopiesApart /\ PromotedApart /\ StampsAllowed /\ HeldOrStored /\ VisitedAreCarried

(* Saving writes the row of its push or leaves the rows alone.             *)
LEMMA SaveEffect ==
    ASSUME NEW st \in Store, NEW s \in Sidecars, NEW push \in OwnedPush,
           NEW k, k = <<push.provider, push.event>>
    PROVE  /\ k \in Keys
           /\ \A x \in Keys : x # k => Save(st, s, push).stored[x] = st.stored[x]
           /\ Save(st, s, push).stored[k] # NoRow
           /\ \/ Save(st, s, push).stored[k] = st.stored[k]
              \/ /\ Save(st, s, push).stored[k] \in Row
                 /\ Save(st, s, push).stored[k].sidecar = s
                 /\ Save(st, s, push).stored[k].account = push.account
           /\ Save(st, s, push).pending = st.pending
<1> DEFINE new == [account |-> push.account, sidecar |-> s,
                   kind |-> push.kind, model |-> push.model]
           after == Save(st, s, push)
<1>1. k \in Keys /\ new \in Row /\ new.sidecar = s /\ new.account = push.account
  BY DEF OwnedPush, Keys, Row
<1>2. new # NoRow
  BY <1>1, ConstantsAssumption DEF Row
<1>3. \/ after = st /\ st.stored[k] # NoRow
      \/ after.stored = [st.stored EXCEPT ![k] = new] /\ after.pending = st.pending
  BY DEF Save, Store
<1>4. st.stored \in [Keys -> Row \cup {NoRow}]
  BY DEF Store
<1> HIDE DEF new, after
<1>5. CASE after = st /\ st.stored[k] # NoRow
  BY <1>1, <1>5 DEF after
<1>6. CASE after.stored = [st.stored EXCEPT ![k] = new] /\ after.pending = st.pending
  <2>1. after.stored[k] = new /\ \A x \in Keys : x # k => after.stored[x] = st.stored[x]
    BY <1>1, <1>4, <1>6
  <2> QED BY <1>1, <1>2, <1>6, <2>1 DEF after
<1> QED BY <1>3, <1>5, <1>6

(* What becomes of the rows and the held events when a push is ingested.   *)
Effect(st, s, push, after, k) ==
    /\ k[2] = push.event
    /\ push.provider = Target => k[1] = Target
    /\ \A x \in Keys : x # k => after.stored[x] = st.stored[x]
    /\ st.stored[k] # NoRow => after.stored[k] # NoRow
    /\ after.stored[k] # st.stored[k] =>
          /\ after.stored[k].sidecar = s
          /\ \/ <<k[1], after.stored[k].account>> \notin archived
             \/ push.source # "default" /\ push.account = after.stored[k].account
          /\ k[1] = Target => push.provider = Target \/ st.stored[<<Source, push.event>>] = NoRow
    /\ push.source # "default" => Exists(after, push.event)
    /\ \A h \in Held(st) : h \in Held(after) \/ Exists(after, h[1])

(* Every way an ingested push can end has such an effect.                  *)
LEMMA IngestedEffect ==
    ASSUME NEW st \in Store, NEW s \in Sidecars, NEW push \in Push,
           native \in [Sidecars -> Accounts \cup {Default}]
    PROVE  \E k \in Keys : Effect(st, s, push, Ingested(st, s, push), k)
<1> DEFINE after == Ingested(st, s, push)
           own == <<push.provider, push.event>>
<1>1. /\ push.provider \in Providers /\ push.event \in Events /\ own \in Keys
      /\ <<Source, push.event>> \in Keys /\ <<Target, push.event>> \in Keys
  BY DEF Push, OwnedPush, UnownedPush, Keys, Providers
<1>2. ASSUME NEW p \in OwnedPush, p.event = push.event, NEW base \in Store,
             base.stored = st.stored, after = Save(base, s, p),
             \A h \in Held(st) : h[1] # push.event => h \in Held(base),
             p.provider = Target \/ push.provider # Target,
             \/ <<p.provider, p.account>> \notin archived
             \/ push.source # "default" /\ push.account = p.account,
             p.provider = Target => push.provider = Target \/ st.stored[<<Source, push.event>>] = NoRow
      PROVE  \E k \in Keys : Effect(st, s, push, after, k)
  <2> DEFINE k == <<p.provider, p.event>>
  <2>1. /\ k \in Keys /\ k[1] = p.provider /\ k[2] = push.event /\ p.provider \in Providers
    BY <1>2 DEF OwnedPush, Keys
  <2>2. /\ \A x \in Keys : x # k => after.stored[x] = st.stored[x]
        /\ after.stored[k] # NoRow
        /\ \/ after.stored[k] = st.stored[k]
           \/ after.stored[k].sidecar = s /\ after.stored[k].account = p.account
        /\ after.pending = base.pending
    BY <1>2, SaveEffect
  <2>3. Exists(after, push.event)
    BY <1>2, <2>1, <2>2 DEF Exists
  <2>4. \A h \in Held(st) : h \in Held(after) \/ Exists(after, h[1])
    BY <1>2, <2>2, <2>3 DEF Held
  <2> HIDE DEF k, after
  <2>5. ASSUME after.stored[k] # st.stored[k]
        PROVE  /\ after.stored[k].sidecar = s /\ after.stored[k].account = p.account
               /\ \/ <<k[1], after.stored[k].account>> \notin archived
                  \/ push.source # "default" /\ push.account = after.stored[k].account
    BY <1>2, <2>1, <2>2, <2>5
  <2>6. Effect(st, s, push, after, k)
    BY <1>2, <2>1, <2>2, <2>3, <2>4, <2>5 DEF Effect
  <2> QED BY <2>1, <2>6
<1>3. ASSUME after.stored = st.stored, after.pending = st.pending,
             push.source # "default" => Exists(st, push.event)
      PROVE  Effect(st, s, push, after, own)
  <2> HIDE DEF after
  <2> QED BY <1>1, <1>3 DEF Effect, Exists, Held
<1>4. CASE Redirects(st, s, push)
  <2> DEFINE tag == EffectiveTag(st, s)
  <2>1. tag \in Tag /\ tag.account \in Accounts /\ tag.target = Target
    BY <1>4, EffectiveTagType DEF Redirects, Tag, Providers
  <2>2. push.provider = Source /\ <<Target, tag.account>> \notin archived
    BY <1>4, <2>1 DEF Redirects, Parked
  <2>3. CASE st.stored[<<Source, push.event>>] # NoRow
    <3>1. after = st BY <1>4, <2>3 DEF Ingested
    <3>2. Exists(st, push.event) BY <2>3 DEF Exists, Providers
    <3> QED BY <1>1, <1>3, <3>1, <3>2
  <2>4. CASE st.stored[<<Source, push.event>>] = NoRow
    <3> DEFINE p == RedirectPush(push, tag.account)
    <3>1. p \in OwnedPush BY <2>1, RedirectPushType
    <3>2. p.event = push.event /\ p.provider = Target /\ p.account = tag.account
      BY DEF RedirectPush
    <3>3. after = Save(st, s, p) BY <1>4, <2>4 DEF Ingested
    <3> HIDE DEF p, tag, after
    <3> QED BY <1>2, <2>2, <2>4, <3>1, <3>2, <3>3 DEF after
  <2> QED BY <2>3, <2>4
<1>5. CASE ~Redirects(st, s, push) /\ push.source # "default"
  <2>1. push \in OwnedPush BY <1>5 DEF Push, UnownedPush
  <2>2. after = Save(st, s, push) BY <1>5 DEF Ingested
  <2> HIDE DEF after
  <2> QED BY <1>1, <1>2, <1>5, <2>1, <2>2 DEF after
<1>6. CASE ~Redirects(st, s, push) /\ push.source = "default"
  <2>1. push \in UnownedPush /\ push.provider = Source
    BY <1>6 DEF Push, OwnedPush, UnownedPush
  <2> DEFINE account == ResolveIdentityless(st, s)
  <2>2. account \in Accounts \cup {Default} /\ (account # Default => <<Source, account>> \notin archived)
    <3> DEFINE tag == EffectiveTag(st, s)
    <3>1. tag \in Tag \cup {NoTag} BY EffectiveTagType
    <3>2. CASE tag # NoTag /\ ~Parked(tag)
      <4>1. tag.target = Source
        BY <1>6, <2>1, <3>2 DEF Redirects
      <4>2. account = tag.account BY <3>2 DEF ResolveIdentityless
      <4> HIDE DEF tag, account
      <4> QED BY <3>1, <3>2, <4>1, <4>2 DEF Parked, Tag
    <3>3. CASE ~(tag # NoTag /\ ~Parked(tag))
      BY <3>3 DEF ResolveIdentityless
    <3> QED BY <3>2, <3>3
  <2>3. CASE account = Default
    <3>1. after = Hold(st, s, push) BY <1>6, <2>3 DEF Ingested
    <3>2. after.stored = st.stored BY <3>1 DEF Hold, Store
    <3>3. \A h \in Held(st) : h \in Held(after)
      <4>1. [kind |-> push.kind, model |-> push.model] # NotHeld
        BY <2>1, ConstantsAssumption DEF UnownedPush
      <4>2. st.pending \in [Events \X Sidecars -> Content \cup {NotHeld}] BY DEF Store
      <4>3. \/ after.pending = st.pending
            \/ after.pending = [st.pending EXCEPT ![<<push.event, s>>] = [kind |-> push.kind, model |-> push.model]]
        BY <3>1 DEF Hold, Store
      <4> HIDE DEF after
      <4> QED BY <4>1, <4>2, <4>3 DEF Held
    <3> HIDE DEF after
    <3>4. Effect(st, s, push, after, own)
      BY <1>1, <1>6, <3>2, <3>3 DEF Effect
    <3> QED BY <1>1, <3>4 DEF after
  <2>4. CASE account # Default
    <3> DEFINE p == Owned(push, account)
               base == DropPendingCopies(st, push.event)
    <3>1. p \in OwnedPush
      <4>1. account \in Accounts BY <2>2, <2>4
      <4> HIDE DEF account
      <4> QED BY <2>1, <4>1 DEF UnownedPush, OwnedPush, Owned, Providers
    <3>2. p.event = push.event /\ p.provider = Source /\ p.account = account
      BY <2>1 DEF Owned
    <3>3. base \in Store /\ base.stored = st.stored BY <1>1, DropType
    <3>4. after = Save(base, s, p) BY <1>6, <2>4 DEF Ingested
    <3>5. \A h \in Held(st) : h[1] # push.event => h \in Held(base)
      BY DEF Held, DropPendingCopies, Store
    <3> HIDE DEF p, base, after, account
    <3> QED BY <1>2, <2>1, <2>2, <2>4, <3>1, <3>2, <3>3, <3>4, <3>5, ConstantsAssumption DEF after
  <2> QED BY <2>3, <2>4
<1> QED BY <1>4, <1>5, <1>6, <1>1, <1>3

(* Nothing is said while neither a transaction nor an assignment is open.  *)
LEMMA NothingOpen == txn = Idle /\ job = Idle => CommitInv
BY DEF CommitInv, RowsStay, CopiesApart, PromotedApart, StampsAllowed, HeldOrStored,
       VisitedAreCarried

LEMMA ReceiveCommitInv == ASSUME IInv, NEW s \in Sidecars, Receive(s) PROVE CommitInv'
<1>0. PICK E \in SUBSET Events :
         \E c \in [E -> Contents] : Open(s, {HostPush(s, e, c[e]) : e \in E}, db)
  BY DEF Receive
<1>1. PICK c \in [E -> Contents] : Open(s, {HostPush(s, e, c[e]) : e \in E}, db)
  BY <1>0
<1> DEFINE todo == {HostPush(s, e, c[e]) : e \in E}
<1>2. /\ txn' = [sidecar |-> s, todo |-> todo, work |-> db]
      /\ txn'.todo = todo /\ txn'.work = db /\ txn'.sidecar = s
  BY <1>1 DEF Open
<1>3. /\ job = Idle /\ job' = Idle
      /\ UNCHANGED <<db, archived, native, identity>>
  BY DEF Receive
<1>4. \A push \in todo : push.provider = Source /\ push.account = identity[s].account
  BY DEF HostPush
<1> HIDE DEF todo
<1>5. RowsStay' /\ HeldOrStored' /\ PromotedApart' /\ VisitedAreCarried'
  BY <1>2, <1>3 DEF RowsStay, HeldOrStored, Held, PromotedApart, VisitedAreCarried
<1>6. CopiesApart'
  BY <1>2, <1>3, <1>4, ConstantsAssumption DEF CopiesApart
<1>7. StampsAllowed'
  BY <1>2, <1>3, <1>4 DEF StampsAllowed
<1> QED BY <1>5, <1>6, <1>7 DEF CommitInv

LEMMA IngestPushCommitInv == ASSUME IInv, CommitInv, IngestPush PROVE CommitInv'
<1>1. txn # Idle /\ txn \in Transaction
  BY DEF IngestPush, IInv, TypeOK
<1>2. PICK push \in txn.todo :
         txn' = [txn EXCEPT !.todo = @ \ {push}, !.work = Ingested(txn.work, txn.sidecar, push)]
  BY DEF IngestPush
<1>3. push \in Push /\ native \in [Sidecars -> Accounts \cup {Default}]
  BY <1>1 DEF IInv, TypeOK
<1> DEFINE new == Ingested(txn.work, txn.sidecar, push)
<1>4. PICK k \in Keys : Effect(txn.work, txn.sidecar, push, new, k)
  BY <1>1, <1>3, IngestedEffect
<1>5. /\ txn' = [sidecar |-> txn.sidecar, todo |-> txn.todo \ {push}, work |-> new]
      /\ txn'.todo = txn.todo \ {push} /\ txn'.work = new /\ txn'.sidecar = txn.sidecar
  BY <1>1, <1>2
<1>6. UNCHANGED <<db, job, archived, native, identity>>
  BY DEF IngestPush
<1> HIDE DEF new
<1>7. /\ k[2] = push.event /\ push.event \in Events
      /\ k = <<Source, push.event>> \/ k = <<Target, push.event>>
      /\ \A e \in Events : <<Source, e>> \in Keys /\ <<Target, e>> \in Keys
      /\ Source # Target
  BY <1>3, <1>4, ConstantsAssumption DEF Effect, Keys, Providers, Push, OwnedPush, UnownedPush
<1>8. /\ \A x \in Keys : x # k => new.stored[x] = txn.work.stored[x]
      /\ \A x \in Keys : txn.work.stored[x] # NoRow => new.stored[x] # NoRow
  BY <1>4 DEF Effect
<1>9. RowsStay'
  BY <1>1, <1>5, <1>6, <1>8 DEF CommitInv, RowsStay
<1>10. \A e : Exists(txn.work, e) /\ e \in Events => Exists(new, e)
  BY <1>8 DEF Exists, Keys
<1>11. HeldOrStored'
  <2>1. Held(db) \subseteq Events \X Sidecars BY DEF Held
  <2> QED BY <1>1, <1>4, <1>5, <1>6, <1>10, <2>1 DEF CommitInv, HeldOrStored, Effect, Held
<1>12. CopiesApart'
  <2>1. ASSUME NEW e \in Events, db.stored[<<Source, e>>] # NoRow, db.stored[<<Target, e>>] = NoRow
        PROVE  new.stored[<<Target, e>>] = NoRow
    <3>1. txn.work.stored[<<Target, e>>] = NoRow /\ txn.work.stored[<<Source, e>>] # NoRow
      BY <1>1, <1>7, <2>1 DEF CommitInv, CopiesApart, RowsStay
    <3>2. CASE new.stored[<<Target, e>>] # txn.work.stored[<<Target, e>>]
      <4>0. k = <<Target, e>>
        BY <1>7, <1>8, <2>1, <3>2
      <4>1. k = <<Target, e>> /\ k[1] = Target /\ push.event = e
        BY <1>7, <4>0
      <4>2. push.provider # Target
        BY <1>1, <2>1, <4>1 DEF CommitInv, CopiesApart
      <4> QED BY <1>4, <3>1, <3>2, <4>1, <4>2 DEF Effect
    <3> QED BY <3>1, <3>2
  <2> QED BY <1>1, <1>5, <1>6, <2>1 DEF CommitInv, CopiesApart
<1>13. PromotedApart'
  <2>1. ASSUME job # Idle, job.target = Target, NEW e \in Events
        PROVE  new.stored[<<Source, e>>] = db.stored[<<Source, e>>]
    <3>1. push.provider = Target /\ txn.work.stored[<<Source, e>>] = db.stored[<<Source, e>>]
      BY <1>1, <2>1 DEF CommitInv, PromotedApart
    <3>2. k # <<Source, e>>
      BY <1>4, <1>7, <3>1 DEF Effect
    <3> QED BY <1>7, <1>8, <3>1, <3>2
  <2> QED BY <1>1, <1>5, <1>6, <2>1 DEF CommitInv, PromotedApart
<1>14. StampsAllowed'
  <2> SUFFICES ASSUME job = Idle PROVE StampsAllowed'
    BY <1>6 DEF StampsAllowed
  <2>1. /\ \A p \in txn.todo :
              p.provider = Source /\ (p.source # "default" => p.account = identity[txn.sidecar].account)
        /\ \A x \in Keys :
              /\ txn.work.stored[x] # db.stored[x]
              /\ <<x[1], txn.work.stored[x].account>> \in archived
              => identity[txn.work.stored[x].sidecar].account = txn.work.stored[x].account
    BY <1>1 DEF CommitInv, StampsAllowed
  <2>2. ASSUME NEW x \in Keys, new.stored[x] # db.stored[x], <<x[1], new.stored[x].account>> \in archived
        PROVE  identity[new.stored[x].sidecar].account = new.stored[x].account
    <3>1. CASE new.stored[x] = txn.work.stored[x]
      BY <2>1, <2>2, <3>1
    <3>2. CASE new.stored[x] # txn.work.stored[x]
      <4>1. x = k BY <1>8, <3>2
      <4>2. new.stored[k].sidecar = txn.sidecar /\ push.source # "default" /\ push.account = new.stored[k].account
        BY <1>4, <2>2, <3>2, <4>1 DEF Effect
      <4> QED BY <2>1, <4>1, <4>2
    <3> QED BY <3>1, <3>2
  <2> QED BY <1>5, <1>6, <2>1, <2>2 DEF StampsAllowed
<1>15. VisitedAreCarried'
  <2> SUFFICES ASSUME job # Idle PROVE VisitedAreCarried'
    BY <1>6 DEF VisitedAreCarried
  <2>1. push.source # "default"
    BY <1>1 DEF IInv, AssignmentHolds, OwnedPush
  <2>2. Exists(new, push.event)
    BY <1>4, <2>1 DEF Effect
  <2>3. \A h \in job.rows \ job.left : h[1] \in Events
    BY DEF IInv, TypeOK
  <2>4. ASSUME NEW h \in job.rows \ job.left
        PROVE  \/ Exists(db, h[1])
               \/ \E g \in job.groups : g[2].event = h[1]
               \/ Exists(new, h[1]) \/ \E p \in txn.todo \ {push} : p.event = h[1]
    BY <1>1, <1>10, <2>2, <2>3 DEF CommitInv, VisitedAreCarried
  <2>5. /\ txn' # Idle
        /\ \A e : Exists(db, e)' <=> Exists(db, e)
        /\ \A e : Exists(txn.work, e)' <=> Exists(new, e)
    <3>1. new \in Store BY <1>1, <1>3, IngestedType DEF new
    <3>2. txn' \in Transaction
      BY <1>1, <1>5, <3>1
    <3> QED BY <1>5, <1>6, <3>2, IdleAssumption DEF Exists
  <2> QED BY <1>5, <1>6, <2>4, <2>5 DEF VisitedAreCarried
<1> QED BY <1>9, <1>11, <1>12, <1>13, <1>14, <1>15 DEF CommitInv

LEMMA CommitCommitInv == ASSUME IInv, CommitInv, Commit PROVE CommitInv'
<1>1. /\ txn # Idle /\ txn.todo = {} /\ db' = txn.work /\ txn' = Idle
      /\ UNCHANGED <<job, archived, identity>>
  BY DEF Commit
<1>2. RowsStay' /\ CopiesApart' /\ StampsAllowed' /\ HeldOrStored'
  BY <1>1 DEF RowsStay, CopiesApart, StampsAllowed, HeldOrStored
<1>3. PromotedApart'
  <2>1. job # Idle => \A g \in job.groups : g[2].event \in Events
    BY DEF IInv, TypeOK, OwnedPush
  <2> QED BY <1>1, <2>1 DEF CommitInv, PromotedApart
<1>4. VisitedAreCarried'
  <2>1. job # Idle => \A h \in job.rows \ job.left : h[1] \in Events
    BY DEF IInv, TypeOK
  <2>2. \A e \in Events : Exists(db, e) => Exists(txn.work, e)
    BY <1>1 DEF CommitInv, RowsStay, Exists, Keys
  <2>3. \A e : Exists(db, e)' <=> Exists(txn.work, e)
    BY <1>1 DEF Exists
  <2> QED BY <1>1, <2>1, <2>2, <2>3 DEF CommitInv, VisitedAreCarried
<1> QED BY <1>2, <1>3, <1>4 DEF CommitInv

LEMMA AssignCommitInv ==
    ASSUME NEW rows \in SUBSET (Events \X Sidecars), NEW target \in Providers,
           NEW account \in Accounts, Assign(rows, target, account)
    PROVE  CommitInv'
<1>1. txn' = Idle /\ job'.groups = {} /\ job'.left = job'.rows
  BY DEF Assign
<1> QED BY <1>1 DEF CommitInv, RowsStay, CopiesApart, PromotedApart, StampsAllowed,
                    HeldOrStored, VisitedAreCarried

(* A promotion names its event and the provider of the assignment.         *)
LEMMA PayloadNames ==
    ASSUME IInv, job # Idle, NEW h
    PROVE  Payload(h).event = h[1] /\ Payload(h).provider = job.target
BY DEF IInv, TypeOK, Payload, RedirectPush, Providers

(* A transaction an assignment opens has changed no row yet.               *)
LEMMA OpenedForJob ==
    ASSUME txn' # Idle, job' # Idle, txn'.work.stored = db.stored, txn'.work.pending = db.pending,
           UNCHANGED db,
           job'.target = Target =>
             \A push \in txn'.todo : push.provider = Target /\ db.stored[<<Source, push.event>>] = NoRow,
           job'.target = Source => \A push \in txn'.todo : push.provider = Source,
           job'.target \in Providers
    PROVE  RowsStay' /\ CopiesApart' /\ StampsAllowed' /\ HeldOrStored'
           /\ (job'.target = Target =>
                 /\ \A push \in txn'.todo : push.provider = Target
                 /\ \A e \in Events : txn'.work.stored[<<Source, e>>] = db'.stored[<<Source, e>>])
BY ConstantsAssumption
   DEF RowsStay, CopiesApart, StampsAllowed, HeldOrStored, Held, Providers

LEMMA VisitRowCommitInv ==
    ASSUME IInv, CommitInv, NEW h \in Events \X Sidecars, VisitRow(h) PROVE CommitInv'
<1> DEFINE tags == [job.tags EXCEPT ![h[2]] = [account |-> job.account, target |-> job.target]]
           visited == [job EXCEPT !.left = @ \ {h}, !.tags = tags]
           s == PromotionSidecar(h)
           grouped == [visited EXCEPT !.groups = @ \cup {<<s, Payload(h)>>}]
           work == [db EXCEPT !.tags = tags]
<1>1. job # Idle /\ txn = Idle /\ h \in job.left /\ job \in Job /\ UNCHANGED db
  BY DEF VisitRow, IInv, TypeOK
<1>2. /\ visited.rows = job.rows /\ visited.left = job.left \ {h}
      /\ visited.groups = job.groups /\ visited.target = job.target
      /\ grouped.rows = job.rows /\ grouped.left = job.left \ {h}
      /\ grouped.groups = job.groups \cup {<<s, Payload(h)>>} /\ grouped.target = job.target
  BY <1>1
<1>3. work.stored = db.stored /\ work.pending = db.pending
  BY DEF IInv, TypeOK, Store
<1>4. \/ job' = visited /\ txn' = Idle /\ db.stored[<<Source, h[1]>>] # NoRow
      \/ /\ job' = visited /\ txn' = [sidecar |-> s, todo |-> {Payload(h)}, work |-> work]
         /\ job.target = Source \/ db.stored[<<Source, h[1]>>] = NoRow
      \/ /\ job' = grouped /\ txn' = Idle
         /\ job.target = Source \/ db.stored[<<Source, h[1]>>] = NoRow
  BY <1>1 DEF VisitRow, Open
<1>5. Payload(h).event = h[1] /\ Payload(h).provider = job.target /\ job.target \in Providers
  BY <1>1, PayloadNames
<1>6. /\ \A g \in job.groups : g[2].provider = job.target
      /\ job.target = Target => \A g \in job.groups : db.stored[<<Source, g[2].event>>] = NoRow
  BY <1>1 DEF CommitInv, PromotedApart
<1>7. \A x \in job.rows \ (job.left \ {h}) :
         x = h \/ Exists(db, x[1]) \/ \E g \in job.groups : g[2].event = x[1]
  BY <1>1 DEF CommitInv, VisitedAreCarried
<1>8. \A e : Exists(db, e)' <=> Exists(db, e)
  BY <1>1 DEF Exists
<1> HIDE DEF tags, visited, grouped, work, s
<1>9. CASE job' = visited /\ txn' = Idle /\ db.stored[<<Source, h[1]>>] # NoRow
  <2>1. Exists(db, h[1]) BY <1>9 DEF Exists, Providers
  <2>2. PromotedApart' BY <1>1, <1>2, <1>6, <1>9 DEF PromotedApart
  <2>3. VisitedAreCarried' BY <1>2, <1>7, <1>8, <1>9, <2>1 DEF VisitedAreCarried
  <2> QED BY <1>9, <2>2, <2>3
          DEF CommitInv, RowsStay, CopiesApart, StampsAllowed, HeldOrStored
<1>10. CASE /\ job' = visited /\ txn' = [sidecar |-> s, todo |-> {Payload(h)}, work |-> work]
            /\ job.target = Source \/ db.stored[<<Source, h[1]>>] = NoRow
  <2>0. txn' \in Transaction
    <3>1. Payload(h) \in Push /\ s \in Sidecars
      BY <1>1, PayloadType DEF s, Push
    <3>2. tags \in [Scopes -> Tag \cup {NoTag}]
      BY <1>1 DEF tags, Tag
    <3>3. work \in Store BY <3>2, OpenForJob DEF work
    <3> QED BY <1>10, <3>1, <3>3
  <2>1. txn' # Idle /\ txn'.todo = {Payload(h)} /\ txn'.work = work
    BY <1>10, <2>0, IdleAssumption
  <2>2. job' # Idle
    <3>1. tags \in [Scopes -> Tag \cup {NoTag}]
      BY <1>1 DEF tags, Tag
    <3>2. visited \in Job
      BY <1>1, <3>1 DEF visited
    <3> QED BY <1>10, <3>2, IdleAssumption
  <2>3. RowsStay' /\ CopiesApart' /\ StampsAllowed' /\ HeldOrStored'
        /\ (job'.target = Target =>
               /\ \A push \in txn'.todo : push.provider = Target
               /\ \A e \in Events : txn'.work.stored[<<Source, e>>] = db'.stored[<<Source, e>>])
    BY <1>1, <1>2, <1>3, <1>5, <1>10, <2>1, <2>2, ConstantsAssumption, OpenedForJob
  <2>4. PromotedApart' BY <1>1, <1>2, <1>6, <1>10, <2>3 DEF PromotedApart
  <2>5. VisitedAreCarried' BY <1>2, <1>5, <1>7, <1>8, <1>10, <2>1 DEF VisitedAreCarried
  <2> QED BY <2>3, <2>4, <2>5 DEF CommitInv
<1>11. CASE /\ job' = grouped /\ txn' = Idle
            /\ job.target = Source \/ db.stored[<<Source, h[1]>>] = NoRow
  <2>1. <<s, Payload(h)>>[2] = Payload(h) OBVIOUS
  <2>2. PromotedApart'
    BY <1>1, <1>2, <1>5, <1>6, <1>11, <2>1, ConstantsAssumption DEF PromotedApart
  <2>3. VisitedAreCarried'
    BY <1>2, <1>5, <1>7, <1>8, <1>11, <2>1 DEF VisitedAreCarried
  <2> QED BY <1>11, <2>2, <2>3
          DEF CommitInv, RowsStay, CopiesApart, StampsAllowed, HeldOrStored
<1> QED BY <1>4, <1>9, <1>10, <1>11

LEMMA PromoteGroupCommitInv ==
    ASSUME IInv, CommitInv, NEW s \in Sidecars, PromoteGroup(s) PROVE CommitInv'
<1> DEFINE todo == {g[2] : g \in {x \in job.groups : x[1] = s}}
           rest == {x \in job.groups : x[1] # s}
           work == [db EXCEPT !.tags = job.tags]
<1>1. /\ job # Idle /\ job \in Job /\ job.left = {} /\ UNCHANGED db
      /\ job.groups \subseteq Sidecars \X OwnedPush /\ job.tags \in [Scopes -> Tag \cup {NoTag}]
      /\ txn = Idle
  BY DEF PromoteGroup, IInv, TypeOK
<1>2. work \in Store /\ work.stored = db.stored /\ work.pending = db.pending
  <2>1. work \in Store BY <1>1, OpenForJob
  <2> QED BY <2>1 DEF IInv, TypeOK, Store
<1>3. todo \in SUBSET Push
  BY <1>1 DEF Push
<1>4. /\ txn' = [sidecar |-> s, todo |-> todo, work |-> work]
      /\ job' = [job EXCEPT !.groups = rest]
  BY DEF PromoteGroup, Open
<1>5. /\ \A g \in job.groups : g[2].provider = job.target
      /\ job.target = Target => \A g \in job.groups : db.stored[<<Source, g[2].event>>] = NoRow
      /\ \A h \in job.rows : Exists(db, h[1]) \/ \E g \in job.groups : g[2].event = h[1]
  BY <1>1 DEF CommitInv, PromotedApart, VisitedAreCarried
<1>6. \A g \in job.groups : g \in rest \/ g[2] \in todo
  OBVIOUS
<1>7. \A push \in todo : \E g \in job.groups : g[2] = push
  OBVIOUS
<1>8. rest \subseteq job.groups
  OBVIOUS
<1>9. /\ job' \in Job /\ job'.rows = job.rows /\ job'.left = {} /\ job'.groups = rest
      /\ job'.target = job.target /\ job'.target \in Providers
  BY <1>1, <1>4, <1>8
<1>10. job' # Idle /\ txn' # Idle /\ txn'.todo = todo /\ txn'.work = work
  <2> HIDE DEF todo, work
  <2>1. txn' \in Transaction BY <1>2, <1>3, <1>4
  <2> QED BY <1>4, <1>9, <2>1, IdleAssumption
<1> HIDE DEF todo, work, rest
<1>11. RowsStay' /\ CopiesApart' /\ StampsAllowed' /\ HeldOrStored'
       /\ (job'.target = Target =>
              /\ \A push \in txn'.todo : push.provider = Target
              /\ \A e \in Events : txn'.work.stored[<<Source, e>>] = db'.stored[<<Source, e>>])
  BY <1>1, <1>2, <1>5, <1>7, <1>9, <1>10, ConstantsAssumption, OpenedForJob
<1>12. PromotedApart'
  BY <1>1, <1>5, <1>8, <1>9, <1>11 DEF PromotedApart
<1>13. VisitedAreCarried'
  <2>1. \A e : Exists(db, e)' <=> Exists(db, e) BY <1>1 DEF Exists
  <2> QED BY <1>5, <1>6, <1>9, <1>10, <2>1 DEF VisitedAreCarried
<1> QED BY <1>11, <1>12, <1>13 DEF CommitInv

(* Every step keeps both invariants.                                       *)
LEMMA NextCommitInv == ASSUME IInv, CommitInv, [Next]_vars PROVE CommitInv'
<1>1. CASE \E s \in Sidecars : Receive(s) BY <1>1, ReceiveCommitInv
<1>2. CASE IngestPush BY <1>2, IngestPushCommitInv
<1>3. CASE Commit BY <1>3, CommitCommitInv
<1>4. CASE txn' = Idle /\ job' = Idle
  BY <1>4 DEF CommitInv, RowsStay, CopiesApart, PromotedApart, StampsAllowed, HeldOrStored,
              VisitedAreCarried
<1>5. CASE Abort BY <1>4, <1>5 DEF Abort
<1>6. CASE Assignment
  <2>1. FinishAssign => txn' = Idle /\ job' = Idle BY DEF FinishAssign
  <2> QED BY <1>4, <1>6, <2>1, AssignCommitInv, VisitRowCommitInv, PromoteGroupCommitInv DEF Assignment
<1>7. CASE Administration
  <2>1. Change
    BY <1>7 DEF Administration, SetTag, ClearTag, Archive, Restore, ReportNative, ReportIdentity
  <2> QED BY <1>4, <2>1 DEF Change
<1>8. CASE UNCHANGED vars
  BY <1>8 DEF vars, CommitInv, RowsStay, CopiesApart, PromotedApart, StampsAllowed, HeldOrStored,
              VisitedAreCarried, Exists, Held
<1> QED BY <1>1, <1>2, <1>3, <1>5, <1>6, <1>7, <1>8 DEF Next, Request

(* Only a commit changes rows, and only a commit and the end of an         *)
(* assignment change what is held.                                         *)
LEMMA OnlyCommits ==
    ASSUME IInv, [Next]_vars
    PROVE  /\ Commit \/ db'.stored = db.stored
           /\ Commit \/ FinishAssign \/ db'.pending = db.pending
<1>1. CASE Request
  BY <1>1 DEF Request, Receive, IngestPush, Abort
<1>2. CASE Assignment
  <2>1. FinishAssign => db'.stored = db.stored
    BY DEF FinishAssign, IInv, TypeOK, Store
  <2> QED BY <1>2, <2>1 DEF Assignment, Assign, VisitRow, PromoteGroup
<1>3. CASE Administration
  BY <1>3 DEF Administration, SetTag, ClearTag, Archive, Restore, ReportNative, ReportIdentity,
              IInv, TypeOK, Store
<1>4. CASE UNCHANGED vars
  BY <1>4 DEF vars
<1> QED BY <1>1, <1>2, <1>3, <1>4 DEF Next

-----------------------------------------------------------------------------
(* The inductive invariant holds in every reachable state. *)
THEOREM Invariance == Spec => []IInv
BY InitIInv, NextIInv, PTL DEF Spec

(* Database, open transaction and assignment keep their types, whatever    *)
(* is pushed, assigned, aborted or changed.                                *)
THEOREM TypeCorrectness == Spec => []TypeOK
<1>1. IInv => TypeOK BY DEF IInv
<1> QED BY <1>1, Invariance, PTL

(* In every committed state every rollup bucket counts exactly the message *)
(* events stored in it.                                                    *)
THEOREM RollupCorrectness == Spec => []RollupsMatchEvents
<1>1. IInv => RollupsMatchEvents BY DEF IInv
<1> QED BY <1>1, Invariance, PTL

(* What a commit does is safe at every moment of a behaviour.              *)
THEOREM CommitsAreSafe == Spec => [](IInv /\ CommitInv)
<1>1. Init => IInv /\ CommitInv
  <2>1. Init => txn = Idle /\ job = Idle BY DEF Init
  <2> QED BY <2>1, InitIInv, NothingOpen
<1>2. IInv /\ CommitInv /\ [Next]_vars => (IInv /\ CommitInv)'
  BY NextIInv, NextCommitInv
<1> QED BY <1>1, <1>2, PTL DEF Spec

(* event_ingestor.py:229: whatever tags appear later, an event counted     *)
(* under its own provider gets no second copy under the redirect target.   *)
THEOREM OneCopyUnderTarget == Spec => NoSecondCopyUnderTarget
<1> DEFINE Once ==
      \A e \in Events :
         /\ db.stored[<<Source, e>>] # NoRow
         /\ db.stored[<<Target, e>>] = NoRow
         => db'.stored[<<Target, e>>] = NoRow
<1>1. ASSUME IInv, CommitInv, [Next]_vars PROVE Once
  <2>1. CASE Commit
    BY <1>1, <2>1 DEF Commit, CommitInv, CopiesApart
  <2>2. CASE db'.stored = db.stored
    BY <2>2
  <2> QED BY <1>1, <2>1, <2>2, OnlyCommits
<1>2. IInv /\ CommitInv /\ [Next]_vars => [Once]_vars
  BY <1>1
<1> HIDE DEF Once
<1>3. Spec => [][Once]_vars
  BY <1>2, CommitsAreSafe, PTL DEF Spec
<1> QED BY <1>3 DEF NoSecondCopyUnderTarget, Once

(* _resolve_batch_tags and the redirect: a tag, a redirect or a native     *)
(* identity never puts a host's usage on an archived account.              *)
THEOREM ArchivedStayUnstamped == Spec => NothingStampedOnArchived
<1> DEFINE Allowed ==
      \A k \in Keys :
         LET row == db'.stored[k]
         IN  /\ job = Idle
             /\ row # db.stored[k]
             /\ <<k[1], row.account>> \in archived
             => identity[row.sidecar].account = row.account
<1>1. ASSUME IInv, CommitInv, [Next]_vars PROVE Allowed
  <2>1. CASE Commit
    BY <1>1, <2>1 DEF Commit, CommitInv, StampsAllowed
  <2>2. CASE db'.stored = db.stored
    BY <2>2
  <2> QED BY <1>1, <2>1, <2>2, OnlyCommits
<1>2. IInv /\ CommitInv /\ [Next]_vars => [Allowed]_vars
  BY <1>1
<1> HIDE DEF Allowed
<1>3. Spec => [][Allowed]_vars
  BY <1>2, CommitsAreSafe, PTL DEF Spec
<1> QED BY <1>3 DEF NothingStampedOnArchived, Allowed

(* A held-back event leaves the queue only once it is stored: by the drop  *)
(* of its copies when a push resolves it, or at the end of an assignment.  *)
THEOREM HeldEventsAreKept == Spec => HeldEventsAreNotLost
<1> DEFINE Kept ==
      \A h \in Held(db) :
         h \notin Held(db') => \E p \in Providers : db'.stored[<<p, h[1]>>] # NoRow
<1>1. ASSUME IInv, CommitInv, [Next]_vars PROVE Kept
  <2>1. CASE Commit
    BY <1>1, <2>1 DEF Commit, CommitInv, HeldOrStored, Exists, Held
  <2>2. CASE FinishAssign
    <3>1. /\ db'.stored = db.stored
          /\ db'.pending = [h \in Events \X Sidecars |-> IF h \in job.rows THEN NotHeld ELSE db.pending[h]]
      BY <1>1, <2>2 DEF FinishAssign, IInv, TypeOK, Store
    <3>2. \A h \in job.rows : Exists(db, h[1])
      BY <1>1, <2>2 DEF FinishAssign, CommitInv, VisitedAreCarried
    <3> QED BY <3>1, <3>2 DEF Held, Exists
  <2>3. CASE db'.pending = db.pending
    BY <2>3 DEF Held
  <2> QED BY <1>1, <2>1, <2>2, <2>3, OnlyCommits
<1>2. IInv /\ CommitInv /\ [Next]_vars => [Kept]_vars
  BY <1>1
<1> HIDE DEF Kept
<1>3. Spec => [][Kept]_vars
  BY <1>2, CommitsAreSafe, PTL DEF Spec
<1> QED BY <1>3 DEF HeldEventsAreNotLost, Kept

-----------------------------------------------------------------------------
(* Replays and the order of a batch                                        *)

(* Saving writes one row or nothing, and no held event or tag.             *)
LEMMA SaveParts ==
    ASSUME NEW st \in Store, NEW s \in Sidecars, NEW push \in OwnedPush,
           NEW k, k = <<push.provider, push.event>>,
           NEW new, new = [account |-> push.account, sidecar |-> s,
                           kind |-> push.kind, model |-> push.model]
    PROVE  /\ k \in Keys /\ new \in Row /\ new # NoRow
           /\ Save(st, s, push).pending = st.pending
           /\ Save(st, s, push).tags = st.tags
           /\ Save(st, s, push).stored =
                IF \/ st.stored[k] = NoRow
                   \/ st.stored[k].account # new.account /\ st.stored[k].sidecar = s
                THEN [st.stored EXCEPT ![k] = new] ELSE st.stored
<1>1. k \in Keys /\ new \in Row /\ new # NoRow
  BY ConstantsAssumption DEF OwnedPush, Keys, Row
<1> QED BY <1>1 DEF Save, Store

(* Saving leaves the held events and the tags alone.                       *)
LEMMA SaveKeeps ==
    ASSUME NEW st \in Store, NEW s \in Sidecars, NEW push \in OwnedPush
    PROVE  Save(st, s, push).pending = st.pending /\ Save(st, s, push).tags = st.tags
BY DEF Save, Store

(* Two stores that hold the same of an event, and the same tags.           *)
AgreeOn(st, st2, e) ==
    /\ st.tags = st2.tags
    /\ \A p \in Providers : st.stored[<<p, e>>] = st2.stored[<<p, e>>]
    /\ \A s \in Sidecars : st.pending[<<e, s>>] = st2.pending[<<e, s>>]

(* The way a push takes is decided by the tags and its own event's row.    *)
LEMMA IngestedWays ==
    ASSUME NEW st \in Store, NEW s \in Sidecars, NEW push \in Push,
           native \in [Sidecars -> Accounts \cup {Default}],
           NEW after, after = Ingested(st, s, push)
    PROVE  \/ /\ Redirects(st, s, push)
              /\ EffectiveTag(st, s) \in Tag
              /\ RedirectPush(push, EffectiveTag(st, s).account) \in OwnedPush
              /\ after = IF st.stored[<<Source, push.event>>] # NoRow THEN st
                         ELSE Save(st, s, RedirectPush(push, EffectiveTag(st, s).account))
           \/ /\ ~Redirects(st, s, push) /\ push.source # "default" /\ push \in OwnedPush
              /\ after = Save(st, s, push)
           \/ /\ ~Redirects(st, s, push) /\ push.source = "default" /\ push \in UnownedPush
              /\ ResolveIdentityless(st, s) = Default /\ after = Hold(st, s, push)
           \/ /\ ~Redirects(st, s, push) /\ push.source = "default" /\ push \in UnownedPush
              /\ ResolveIdentityless(st, s) \in Accounts
              /\ Owned(push, ResolveIdentityless(st, s)) \in OwnedPush
              /\ after = Save(DropPendingCopies(st, push.event), s,
                              Owned(push, ResolveIdentityless(st, s)))
<1>1. EffectiveTag(st, s) \in Tag \cup {NoTag} BY EffectiveTagType
<1>2. CASE Redirects(st, s, push)
  <2>1. EffectiveTag(st, s) \in Tag /\ EffectiveTag(st, s).account \in Accounts
    BY <1>1, <1>2 DEF Redirects, Tag
  <2> QED BY <1>2, <2>1, RedirectPushType DEF Ingested
<1>3. CASE ~Redirects(st, s, push) /\ push.source # "default"
  BY <1>3 DEF Ingested, Push, UnownedPush
<1>4. CASE ~Redirects(st, s, push) /\ push.source = "default"
  <2>1. push \in UnownedPush BY <1>4 DEF Push, OwnedPush
  <2>2. ResolveIdentityless(st, s) \in Accounts \cup {Default}
    BY <1>1 DEF ResolveIdentityless, Tag
  <2>3. CASE ResolveIdentityless(st, s) = Default BY <1>4, <2>1, <2>3 DEF Ingested
  <2>4. CASE ResolveIdentityless(st, s) # Default
    <3>1. Owned(push, ResolveIdentityless(st, s)) \in OwnedPush
      BY <2>1, <2>2, <2>4 DEF Owned, OwnedPush, UnownedPush, Providers
    <3> QED BY <1>4, <2>1, <2>2, <2>4, <3>1 DEF Ingested
  <2> QED BY <2>3, <2>4
<1> QED BY <1>2, <1>3, <1>4

(* Tags alone decide whether a push is redirected and how one without an   *)
(* identity is resolved.                                                   *)
LEMMA TagsDecide ==
    ASSUME NEW st, NEW st2, st.tags = st2.tags, NEW s, NEW push
    PROVE  /\ EffectiveTag(st, s) = EffectiveTag(st2, s)
           /\ Redirects(st, s, push) <=> Redirects(st2, s, push)
           /\ ResolveIdentityless(st, s) = ResolveIdentityless(st2, s)
BY DEF EffectiveTag, Redirects, ResolveIdentityless

(* Ingesting a push changes no tag.                                        *)
LEMMA IngestedTags ==
    ASSUME NEW st \in Store, NEW s \in Sidecars, NEW push \in Push,
           native \in [Sidecars -> Accounts \cup {Default}]
    PROVE  Ingested(st, s, push).tags = st.tags
<1>1. \A p \in OwnedPush, base \in Store : Save(base, s, p).tags = base.tags BY SaveKeeps
<1>2. push.event \in Events BY DEF Push, OwnedPush, UnownedPush
<1>3. /\ DropPendingCopies(st, push.event) \in Store
      /\ DropPendingCopies(st, push.event).tags = st.tags
      /\ Hold(st, s, push).tags = st.tags
  BY <1>2, DropType DEF DropPendingCopies, Hold, Store
<1>4. \A p \in OwnedPush : /\ Save(st, s, p).tags = st.tags
                           /\ Save(DropPendingCopies(st, push.event), s, p).tags = st.tags
  BY <1>1, <1>3
<1>5. ASSUME NEW after, after = Ingested(st, s, push) PROVE after.tags = st.tags
  <2>1. \/ after = st \/ after = Hold(st, s, push)
        \/ \E p \in OwnedPush : \/ after = Save(st, s, p)
                               \/ after = Save(DropPendingCopies(st, push.event), s, p)
    BY <1>5, IngestedWays
  <2> QED BY <1>3, <1>4, <2>1
<1> QED BY <1>5

(* Nor does it change anything of other events.                            *)
LEMMA IngestedTouches ==
    ASSUME NEW st \in Store, NEW s \in Sidecars, NEW push \in Push,
           native \in [Sidecars -> Accounts \cup {Default}],
           NEW e \in Events, e # push.event
    PROVE  AgreeOn(Ingested(st, s, push), st, e)
<1> DEFINE after == Ingested(st, s, push)
<1>1. ASSUME NEW base \in Store, AgreeOn(base, st, e), NEW p \in OwnedPush,
             p.event = push.event
      PROVE  AgreeOn(Save(base, s, p), st, e)
  <2> DEFINE k == <<p.provider, p.event>>
             new == [account |-> p.account, sidecar |-> s, kind |-> p.kind, model |-> p.model]
  <2>1. /\ Save(base, s, p).pending = base.pending /\ Save(base, s, p).tags = base.tags
        /\ \/ Save(base, s, p).stored = base.stored
           \/ Save(base, s, p).stored = [base.stored EXCEPT ![k] = new]
    BY <1>1, SaveParts
  <2>2. \A q \in Providers : <<q, e>> \in Keys /\ <<q, e>> # k BY <1>1 DEF Keys
  <2>3. base.stored \in [Keys -> Row \cup {NoRow}] BY <1>1 DEF Store
  <2>4. \A q \in Providers : Save(base, s, p).stored[<<q, e>>] = base.stored[<<q, e>>]
    BY <2>1, <2>2, <2>3
  <2> QED BY <1>1, <2>1, <2>4 DEF AgreeOn
<1>2. AgreeOn(st, st, e) BY DEF AgreeOn
<1>3. AgreeOn(DropPendingCopies(st, push.event), st, e)
  BY DEF AgreeOn, DropPendingCopies, Store
<1>4. ASSUME push \in UnownedPush PROVE AgreeOn(Hold(st, s, push), st, e)
  BY <1>4 DEF AgreeOn, Hold, Store, UnownedPush
<1>5. /\ push.event \in Events
      /\ \A a : RedirectPush(push, a).event = push.event /\ Owned(push, a).event = push.event
  BY DEF Push, OwnedPush, UnownedPush, RedirectPush, Owned
<1>6. DropPendingCopies(st, push.event) \in Store BY <1>5, DropType
<1>7. CASE after = st BY <1>2, <1>7
<1> HIDE DEF after
<1>8. QED
  <2>1. \/ after = st
        \/ after = Save(st, s, RedirectPush(push, EffectiveTag(st, s).account))
           /\ RedirectPush(push, EffectiveTag(st, s).account) \in OwnedPush
        \/ after = Save(st, s, push) /\ push \in OwnedPush
        \/ after = Hold(st, s, push) /\ push \in UnownedPush
        \/ after = Save(DropPendingCopies(st, push.event), s, Owned(push, ResolveIdentityless(st, s)))
           /\ Owned(push, ResolveIdentityless(st, s)) \in OwnedPush
    BY IngestedWays DEF after
  <2>2. AgreeOn(after, st, e) BY <1>1, <1>2, <1>3, <1>4, <1>5, <1>6, <2>1
  <2> QED BY <2>2 DEF after

(* What a push does to its event depends on what is held of that event.    *)
LEMMA IngestedLocal ==
    ASSUME NEW st \in Store, NEW st2 \in Store, NEW s \in Sidecars, NEW push \in Push,
           native \in [Sidecars -> Accounts \cup {Default}],
           AgreeOn(st, st2, push.event)
    PROVE  AgreeOn(Ingested(st, s, push), Ingested(st2, s, push), push.event)
<1> DEFINE e == push.event
<1>1. /\ e \in Events
      /\ \A a : RedirectPush(push, a).event = e /\ Owned(push, a).event = e
  BY DEF Push, OwnedPush, UnownedPush, RedirectPush, Owned
<1>2. \A p \in Providers : <<p, e>> \in Keys BY <1>1 DEF Keys
<1>3. ASSUME NEW base \in Store, NEW base2 \in Store, AgreeOn(base, base2, e),
             NEW p \in OwnedPush, p.event = e
      PROVE  AgreeOn(Save(base, s, p), Save(base2, s, p), e)
  <2> DEFINE k == <<p.provider, p.event>>
             new == [account |-> p.account, sidecar |-> s, kind |-> p.kind, model |-> p.model]
             writes == \/ base.stored[k] = NoRow
                       \/ base.stored[k].account # new.account /\ base.stored[k].sidecar = s
  <2>1. p.provider \in Providers /\ base.stored[k] = base2.stored[k]
    BY <1>3 DEF AgreeOn, OwnedPush
  <2>2. /\ Save(base, s, p).pending = base.pending /\ Save(base, s, p).tags = base.tags
        /\ Save(base, s, p).stored =
             IF writes THEN [base.stored EXCEPT ![k] = new] ELSE base.stored
    BY <1>3, SaveParts
  <2>3. /\ Save(base2, s, p).pending = base2.pending /\ Save(base2, s, p).tags = base2.tags
        /\ Save(base2, s, p).stored =
             IF writes THEN [base2.stored EXCEPT ![k] = new] ELSE base2.stored
    BY <1>3, <2>1, SaveParts
  <2>4. base.stored \in [Keys -> Row \cup {NoRow}] /\ base2.stored \in [Keys -> Row \cup {NoRow}]
    BY <1>3 DEF Store
  <2> HIDE DEF k, new, writes
  <2>5. \A q \in Providers : Save(base, s, p).stored[<<q, e>>] = Save(base2, s, p).stored[<<q, e>>]
    BY <1>2, <1>3, <2>2, <2>3, <2>4 DEF AgreeOn
  <2> QED BY <1>3, <2>2, <2>3, <2>5 DEF AgreeOn
<1>4. st.tags = st2.tags BY DEF AgreeOn
<1>5. /\ EffectiveTag(st, s) = EffectiveTag(st2, s)
      /\ Redirects(st, s, push) <=> Redirects(st2, s, push)
      /\ ResolveIdentityless(st, s) = ResolveIdentityless(st2, s)
  BY <1>4, TagsDecide
<1>6. Source \in Providers /\ st.stored[<<Source, e>>] = st2.stored[<<Source, e>>]
  BY DEF AgreeOn, Providers
<1>7. /\ DropPendingCopies(st, e) \in Store /\ DropPendingCopies(st2, e) \in Store
      /\ AgreeOn(DropPendingCopies(st, e), DropPendingCopies(st2, e), e)
  BY <1>1, DropType DEF AgreeOn, DropPendingCopies, Store
<1>8. ASSUME push \in UnownedPush PROVE AgreeOn(Hold(st, s, push), Hold(st2, s, push), e)
  <2>1. push.provider = Source BY <1>8 DEF UnownedPush
  <2> QED BY <1>1, <1>6, <2>1 DEF AgreeOn, Hold, Store
<1>9. CASE Redirects(st, s, push)
  <2>1. RedirectPush(push, EffectiveTag(st, s).account) \in OwnedPush BY <1>9, IngestedWays
  <2> QED BY <1>1, <1>3, <1>5, <1>6, <1>9, <2>1 DEF Ingested
<1>10. CASE ~Redirects(st, s, push) /\ push.source # "default"
  <2>1. push \in OwnedPush BY <1>10, IngestedWays
  <2> QED BY <1>1, <1>3, <1>5, <1>10, <2>1 DEF Ingested
<1>11. CASE ~Redirects(st, s, push) /\ push.source = "default"
                                   /\ ResolveIdentityless(st, s) = Default
  <2>1. push \in UnownedPush BY <1>11, IngestedWays
  <2> QED BY <1>5, <1>8, <1>11, <2>1 DEF Ingested
<1>12. CASE ~Redirects(st, s, push) /\ push.source = "default"
                                   /\ ResolveIdentityless(st, s) # Default
  <2>1. Owned(push, ResolveIdentityless(st, s)) \in OwnedPush BY <1>12, IngestedWays
  <2> QED BY <1>1, <1>3, <1>5, <1>7, <1>12, <2>1 DEF Ingested
<1> QED BY <1>9, <1>10, <1>11, <1>12

(* The rows determine the rollups of a store that agrees.                  *)
LEMMA SameStore ==
    ASSUME NEW st \in Store, NEW st2 \in Store, RollupsAgree(st), RollupsAgree(st2),
           \A e \in Events : AgreeOn(st, st2, e), Events # {}
    PROVE  st = st2
<1>1. st.stored = st2.stored BY DEF AgreeOn, Store, Keys
<1>2. st.pending = st2.pending BY DEF AgreeOn, Store
<1>3. st.tags = st2.tags BY DEF AgreeOn
<1>4. st.rollup = st2.rollup
  <2>1. \A b \in Bucket : Counted(st, b) = Counted(st2, b) BY <1>1 DEF Counted
  <2> QED BY <2>1 DEF RollupsAgree, Store
<1> QED BY <1>1, <1>2, <1>3, <1>4 DEF Store

(* A push that is ingested again - a retry, a replay of the offline queue, *)
(* the same event twice in a batch - changes nothing, if no tag, archive or*)
(* identity changed in between (the conflict handler of _try_insert_event, *)
(* the host check of _reattribute).                                        *)
THEOREM ReplayIsIdempotent ==
    ASSUME NEW st \in Store, NEW s \in Sidecars, NEW push \in Push,
           native \in [Sidecars -> Accounts \cup {Default}]
    PROVE  Ingested(Ingested(st, s, push), s, push) = Ingested(st, s, push)
<1> DEFINE after == Ingested(st, s, push)
<1>1. ASSUME NEW base \in Store, NEW p \in OwnedPush
      PROVE  Save(Save(base, s, p), s, p) = Save(base, s, p)
  <2> DEFINE k == <<p.provider, p.event>>
             new == [account |-> p.account, sidecar |-> s, kind |-> p.kind, model |-> p.model]
             again == Save(base, s, p)
  <2>1. again \in Store BY <1>1, SaveType
  <2>2. k \in Keys /\ new # NoRow
        /\ again.stored = IF \/ base.stored[k] = NoRow
                             \/ base.stored[k].account # new.account /\ base.stored[k].sidecar = s
                          THEN [base.stored EXCEPT ![k] = new] ELSE base.stored
    BY <1>1, SaveParts
  <2>3. base.stored \in [Keys -> Row \cup {NoRow}] BY <1>1 DEF Store
  <2> HIDE DEF again
  <2>4. /\ again.stored[k] # NoRow
        /\ ~(again.stored[k].account # p.account /\ again.stored[k].sidecar = s)
    BY <2>2, <2>3
  <2>5. Save(again, s, p) = again BY <2>4 DEF Save
  <2> QED BY <2>5 DEF again
<1>2. after \in Store BY IngestedType
<1>3. push.event \in Events BY DEF Push, OwnedPush, UnownedPush
<1>4. after.tags = st.tags BY IngestedTags
<1> HIDE DEF after
<1>5. /\ EffectiveTag(after, s) = EffectiveTag(st, s)
      /\ Redirects(after, s, push) <=> Redirects(st, s, push)
      /\ ResolveIdentityless(after, s) = ResolveIdentityless(st, s)
  BY <1>4, TagsDecide
<1>6. CASE Redirects(st, s, push)
  <2> DEFINE p == RedirectPush(push, EffectiveTag(st, s).account)
  <2>1. /\ p \in OwnedPush
        /\ after = IF st.stored[<<Source, push.event>>] # NoRow THEN st ELSE Save(st, s, p)
    BY <1>6, IngestedWays DEF after
  <2>2. Ingested(after, s, push) =
          IF after.stored[<<Source, push.event>>] # NoRow THEN after ELSE Save(after, s, p)
    BY <1>5, <1>6 DEF Ingested
  <2> HIDE DEF p
  <2> QED BY <1>1, <2>1, <2>2 DEF after
<1>7. CASE ~Redirects(st, s, push) /\ push.source # "default"
  <2>1. push \in OwnedPush /\ after = Save(st, s, push) BY <1>7, IngestedWays DEF after
  <2>2. Ingested(after, s, push) = Save(after, s, push) BY <1>5, <1>7 DEF Ingested
  <2> QED BY <1>1, <2>1, <2>2 DEF after
<1>8. CASE /\ ~Redirects(st, s, push) /\ push.source = "default"
           /\ ResolveIdentityless(st, s) = Default
  <2>1. push \in UnownedPush /\ after = Hold(st, s, push)
    BY <1>8, IngestedWays, ConstantsAssumption DEF after
  <2>2. Ingested(after, s, push) = Hold(after, s, push) BY <1>5, <1>8 DEF Ingested
  <2>3. Hold(Hold(st, s, push), s, push) = Hold(st, s, push)
    BY <2>1 DEF Hold, Store, UnownedPush
  <2> QED BY <2>1, <2>2, <2>3 DEF after
<1>9. CASE /\ ~Redirects(st, s, push) /\ push.source = "default"
           /\ ResolveIdentityless(st, s) # Default
  <2> DEFINE p == Owned(push, ResolveIdentityless(st, s))
             base == DropPendingCopies(st, push.event)
  <2>1. p \in OwnedPush /\ after = Save(base, s, p) BY <1>9, IngestedWays DEF after
  <2>2. Ingested(after, s, push) = Save(DropPendingCopies(after, push.event), s, p)
    BY <1>5, <1>9 DEF Ingested
  <2>3. base \in Store /\ base.pending = [h \in Events \X Sidecars |->
                              IF h[1] = push.event THEN NotHeld ELSE st.pending[h]]
    BY <1>3, DropType DEF DropPendingCopies, Store
  <2> HIDE DEF p, base
  <2>4. after.pending = base.pending BY <2>1, <2>3, SaveKeeps
  <2>5. DropPendingCopies(after, push.event) = after
    <3>1. [h \in Events \X Sidecars |-> IF h[1] = push.event THEN NotHeld ELSE after.pending[h]]
            = after.pending
      BY <2>3, <2>4
    <3> QED BY <1>2, <3>1 DEF DropPendingCopies, Store
  <2> QED BY <1>1, <2>1, <2>2, <2>3, <2>5 DEF after
<1> QED BY <1>6, <1>7, <1>8, <1>9 DEF after

(* Pushes about different events, of one host or of two, can be ingested in*)
(* either order: rows, held events and rollups come out the same.          *)
THEOREM OrderDoesNotMatter ==
    ASSUME NEW st \in Store, RollupsAgree(st), NEW s \in Sidecars, NEW t \in Sidecars,
           NEW p \in Push, NEW q \in Push, p.event # q.event,
           native \in [Sidecars -> Accounts \cup {Default}]
    PROVE  Ingested(Ingested(st, s, p), t, q) = Ingested(Ingested(st, t, q), s, p)
<1> DEFINE sp == Ingested(st, s, p)
           tq == Ingested(st, t, q)
           a == Ingested(sp, t, q)
           b == Ingested(tq, s, p)
<1>1. p.event \in Events /\ q.event \in Events BY DEF Push, OwnedPush, UnownedPush
<1>2. sp \in Store /\ RollupsAgree(sp) /\ tq \in Store /\ RollupsAgree(tq)
  BY IngestedType, IngestedAgrees
<1>3. /\ \A e \in Events : e # p.event => AgreeOn(sp, st, e)
      /\ \A e \in Events : e # q.event => AgreeOn(tq, st, e)
  BY IngestedTouches
<1> HIDE DEF sp, tq
<1>4. a \in Store /\ RollupsAgree(a) /\ b \in Store /\ RollupsAgree(b)
  BY <1>2, IngestedType, IngestedAgrees
<1>5. /\ \A e \in Events : e # q.event => AgreeOn(a, sp, e)
      /\ \A e \in Events : e # p.event => AgreeOn(b, tq, e)
  BY <1>2, IngestedTouches
<1>6. AgreeOn(b, sp, p.event)
  BY <1>1, <1>2, <1>3, IngestedLocal DEF sp
<1>7. AgreeOn(a, tq, q.event)
  BY <1>1, <1>2, <1>3, IngestedLocal DEF tq
<1>8. \A e \in Events : AgreeOn(a, b, e)
  <2> SUFFICES ASSUME NEW e \in Events PROVE AgreeOn(a, b, e) OBVIOUS
  <2> HIDE DEF a, b
  <2>1. CASE e = p.event BY <1>5, <1>6, <2>1 DEF AgreeOn
  <2>2. CASE e = q.event BY <1>5, <1>7, <2>2 DEF AgreeOn
  <2>3. CASE e # p.event /\ e # q.event BY <1>3, <1>5, <2>3 DEF AgreeOn
  <2> QED BY <2>1, <2>2, <2>3
<1> HIDE DEF a, b
<1>9. a = b BY <1>1, <1>4, <1>8, SameStore
<1> QED BY <1>9 DEF a, b, sp, tq

-----------------------------------------------------------------------------
(* Which account a row moves to                                            *)

(* The row a push writes, if it writes one.                                *)
LEMMA IngestedRow ==
    ASSUME NEW st \in Store, NEW s \in Sidecars, NEW push \in Push,
           native \in [Sidecars -> Accounts \cup {Default}],
           NEW k \in Keys, NEW after, after = Ingested(st, s, push),
           after.stored[k] # st.stored[k]
    PROVE  /\ st.stored[k] = NoRow \/ st.stored[k].sidecar = s
           /\ after.stored[k] # NoRow
           /\ after.stored[k].sidecar = s
           /\ after.stored[k].account =
                IF push.source # "default" THEN push.account
                ELSE IF k[1] = Target THEN EffectiveTag(st, s).account
                ELSE ResolveIdentityless(st, s)
           /\ push.source # "default" /\ k[1] = Target /\ push.provider = Source =>
                push.account = EffectiveTag(st, s).account
<1>1. ASSUME NEW base \in Store, base.stored = st.stored, NEW p \in OwnedPush,
             after = Save(base, s, p)
      PROVE  /\ k[1] = p.provider
             /\ st.stored[k] = NoRow \/ st.stored[k].sidecar = s
             /\ after.stored[k] # NoRow
             /\ after.stored[k].sidecar = s
             /\ after.stored[k].account = p.account
  <2> DEFINE x == <<p.provider, p.event>>
             new == [account |-> p.account, sidecar |-> s, kind |-> p.kind, model |-> p.model]
  <2>1. /\ x \in Keys /\ new \in Row /\ new # NoRow
        /\ after.stored = IF \/ st.stored[x] = NoRow
                             \/ st.stored[x].account # new.account /\ st.stored[x].sidecar = s
                          THEN [st.stored EXCEPT ![x] = new] ELSE st.stored
    BY <1>1, SaveParts
  <2>2. st.stored \in [Keys -> Row \cup {NoRow}] BY DEF Store
  <2>3. k = x /\ after.stored[k] = new BY <2>1, <2>2
  <2>4. st.stored[k] = NoRow \/ st.stored[k].sidecar = s BY <2>1, <2>3
  <2> QED BY <2>1, <2>3, <2>4
<1>2. push.event \in Events BY DEF Push, OwnedPush, UnownedPush
<1>3. CASE Redirects(st, s, push)
  <2> DEFINE p == RedirectPush(push, EffectiveTag(st, s).account)
  <2>1. /\ p \in OwnedPush
        /\ after = IF st.stored[<<Source, push.event>>] # NoRow THEN st ELSE Save(st, s, p)
    BY <1>3, IngestedWays
  <2>2. p \in OwnedPush /\ after = Save(st, s, p)
    <3> HIDE DEF p
    <3> QED BY <2>1
  <2>3. p.provider = Target /\ p.account = EffectiveTag(st, s).account BY DEF RedirectPush
  <2>4. push.source # "default" => push.account = EffectiveTag(st, s).account
    BY <1>3 DEF Redirects
  <2> HIDE DEF p
  <2> QED BY <1>1, <2>2, <2>3, <2>4
<1>4. CASE ~Redirects(st, s, push) /\ push.source # "default"
  <2>1. push \in OwnedPush /\ after = Save(st, s, push) BY <1>4, IngestedWays
  <2> QED BY <1>1, <1>4, <2>1, ConstantsAssumption
<1>5. CASE ~Redirects(st, s, push) /\ push.source = "default"
  <2> DEFINE p == Owned(push, ResolveIdentityless(st, s))
             base == DropPendingCopies(st, push.event)
  <2>1. Hold(st, s, push).stored = st.stored BY DEF Hold, Store
  <2>2. push \in UnownedPush /\ p \in OwnedPush /\ after = Save(base, s, p)
    BY <1>5, <2>1, IngestedWays
  <2>3. base \in Store /\ base.stored = st.stored BY <1>2, DropType
  <2>4. p.provider = Source /\ p.account = ResolveIdentityless(st, s)
    BY <2>2 DEF Owned, UnownedPush
  <2> HIDE DEF p, base
  <2> QED BY <1>1, <1>5, <2>2, <2>3, <2>4, ConstantsAssumption
<1> QED BY <1>3, <1>4, <1>5

(* What the open transaction still has to ingest names the host's account, *)
(* or the assigned one.                                                    *)
TodoNames ==
    txn # Idle =>
        IF job = Idle
        THEN /\ txn.work.tags = db.tags
             /\ \A push \in txn.todo :
                   /\ push.provider = Source
                   /\ push.source = identity[txn.sidecar].source
                   /\ push.account = identity[txn.sidecar].account
        ELSE \A push \in txn.todo : push.source = "tag" /\ push.account = job.account

GroupsName ==
    job # Idle => \A g \in job.groups : g[2].source = "tag" /\ g[2].account = job.account

(* The rows it has written are its host's own, with the account they are   *)
(* to have.                                                                *)
RowsWritten ==
    txn # Idle =>
        \A k \in Keys : txn.work.stored[k] # db.stored[k] =>
            /\ db.stored[k] = NoRow \/ db.stored[k].sidecar = txn.sidecar
            /\ txn.work.stored[k] # NoRow
            /\ txn.work.stored[k].sidecar = txn.sidecar
            /\ txn.work.stored[k].account =
                 IF job = Idle THEN Wanted(txn.sidecar, k[1]) ELSE job.account

HostInv == TodoNames /\ GroupsName /\ RowsWritten

LEMMA ReceiveHostInv == ASSUME IInv, NEW s \in Sidecars, Receive(s) PROVE HostInv'
<1>1. PICK E \in SUBSET Events : \E c \in [E -> Contents] :
         Open(s, {HostPush(s, e, c[e]) : e \in E}, db)
  BY DEF Receive
<1>2. PICK c \in [E -> Contents] : Open(s, {HostPush(s, e, c[e]) : e \in E}, db)
  BY <1>1
<1>3. /\ txn'.todo = {HostPush(s, e, c[e]) : e \in E} /\ txn'.work = db /\ txn'.sidecar = s
      /\ job' = Idle /\ UNCHANGED <<db, archived, native, identity>>
  BY <1>2 DEF Open, Receive
<1>4. TodoNames' BY <1>3 DEF TodoNames, HostPush
<1> QED BY <1>3, <1>4 DEF HostInv, GroupsName, RowsWritten

LEMMA IngestPushHostInv == ASSUME IInv, HostInv, IngestPush PROVE HostInv'
<1>1. txn \in Transaction /\ native \in [Sidecars -> Accounts \cup {Default}]
      /\ identity \in [Sidecars -> Identity]
  BY DEF IngestPush, IInv, TypeOK
<1>2. PICK push \in txn.todo :
         txn' = [txn EXCEPT !.todo = @ \ {push}, !.work = Ingested(txn.work, txn.sidecar, push)]
  BY DEF IngestPush
<1> DEFINE work == txn.work
           s == txn.sidecar
           after == Ingested(work, s, push)
<1>3. work \in Store /\ s \in Sidecars /\ push \in Push BY <1>1
<1>4. /\ txn'.sidecar = s /\ txn'.todo = txn.todo \ {push} /\ txn'.work = after
      /\ UNCHANGED <<db, job, archived, native, identity>> /\ txn # Idle
  BY <1>1, <1>2 DEF IngestPush
<1>5. after.tags = work.tags BY <1>1, <1>3, IngestedTags
<1> HIDE DEF work, s, after
<1>6. TodoNames' BY <1>4, <1>5 DEF HostInv, TodoNames, work, s
<1>7. GroupsName' BY <1>4 DEF HostInv, GroupsName
<1>8. \A h, p : Wanted(h, p)' = Wanted(h, p)
  BY <1>4 DEF Wanted, EffectiveTag, ResolveIdentityless, Parked
<1>9. ASSUME NEW k \in Keys, after.stored[k] # db.stored[k]
      PROVE  /\ db.stored[k] = NoRow \/ db.stored[k].sidecar = s
             /\ after.stored[k] # NoRow
             /\ after.stored[k].sidecar = s
             /\ after.stored[k].account = IF job = Idle THEN Wanted(s, k[1]) ELSE job.account
  <2>1. work.stored[k] # db.stored[k] =>
          /\ db.stored[k] = NoRow \/ db.stored[k].sidecar = s
          /\ work.stored[k] # NoRow
          /\ work.stored[k].sidecar = s
          /\ work.stored[k].account = IF job = Idle THEN Wanted(s, k[1]) ELSE job.account
    BY <1>4 DEF HostInv, RowsWritten, work, s
  <2>2. CASE after.stored[k] = work.stored[k] BY <1>9, <2>1, <2>2
  <2>3. CASE after.stored[k] # work.stored[k]
    <3>1. /\ work.stored[k] = NoRow \/ work.stored[k].sidecar = s
          /\ after.stored[k] # NoRow
          /\ after.stored[k].sidecar = s
          /\ after.stored[k].account =
               IF push.source # "default" THEN push.account
               ELSE IF k[1] = Target THEN EffectiveTag(work, s).account
               ELSE ResolveIdentityless(work, s)
          /\ push.source # "default" /\ k[1] = Target /\ push.provider = Source =>
               push.account = EffectiveTag(work, s).account
      BY <1>1, <1>3, <2>3, IngestedRow DEF after
    <3>2. db.stored[k] = NoRow \/ db.stored[k].sidecar = s BY <2>1, <3>1
    <3>3. CASE job # Idle
      <4>1. push.source = "tag" /\ push.account = job.account
        BY <1>4, <3>3 DEF HostInv, TodoNames
      <4> QED BY <3>1, <3>2, <3>3, <4>1
    <3>4. CASE job = Idle
      <4>1. /\ work.tags = db.tags /\ push.provider = Source
            /\ push.source = identity[s].source /\ push.account = identity[s].account
        BY <1>4, <3>4 DEF HostInv, TodoNames, work, s
      <4>2. /\ EffectiveTag(work, s) = EffectiveTag(db, s)
            /\ ResolveIdentityless(work, s) = ResolveIdentityless(db, s)
        BY <4>1, TagsDecide
      <4>3. after.stored[k].account = Wanted(s, k[1])
        BY <3>1, <4>1, <4>2 DEF Wanted
      <4> QED BY <3>1, <3>2, <3>4, <4>3
    <3> QED BY <3>3, <3>4
  <2> QED BY <2>2, <2>3
<1>10. RowsWritten' BY <1>4, <1>8, <1>9 DEF RowsWritten
<1> QED BY <1>6, <1>7, <1>10 DEF HostInv

(* A transaction of an assignment starts with the rows as they are.        *)
LEMMA VisitRowHostInv ==
    ASSUME IInv, HostInv, NEW h \in Events \X Sidecars, VisitRow(h) PROVE HostInv'
<1> DEFINE tags == [job.tags EXCEPT ![h[2]] = [account |-> job.account, target |-> job.target]]
           visited == [job EXCEPT !.left = @ \ {h}, !.tags = tags]
           s == PromotionSidecar(h)
           grouped == [visited EXCEPT !.groups = @ \cup {<<s, Payload(h)>>}]
           work == [db EXCEPT !.tags = tags]
<1>1. job \in Job /\ db \in Store /\ job # Idle BY DEF VisitRow, IInv, TypeOK
<1>2. Payload(h).source = "tag" /\ Payload(h).account = job.account
  BY DEF Payload, RedirectPush
<1>3. /\ visited.groups = job.groups /\ visited.account = job.account
      /\ grouped.groups = job.groups \cup {<<s, Payload(h)>>} /\ grouped.account = job.account
      /\ visited # Idle
  <2>1. tags \in [Scopes -> Tag \cup {NoTag}] BY <1>1 DEF Tag
  <2>2. visited \in Job BY <1>1, <2>1
  <2> QED BY <1>1, <2>2, IdleAssumption
<1>4. work.stored = db.stored BY <1>1 DEF Store
<1>5. \/ job' = visited /\ txn' = txn
      \/ job' = visited /\ txn' = [sidecar |-> s, todo |-> {Payload(h)}, work |-> work]
      \/ job' = grouped /\ txn' = txn
  BY DEF VisitRow, Open
<1>6. txn = Idle /\ UNCHANGED <<db, archived, native, identity>> BY DEF VisitRow
<1> HIDE DEF visited, grouped, work, s
<1>7. job'.account = job.account BY <1>3, <1>5
<1>8. GroupsName' BY <1>1, <1>2, <1>3, <1>5, <1>7 DEF HostInv, GroupsName
<1>9. TodoNames' BY <1>2, <1>3, <1>5, <1>6, <1>7 DEF TodoNames
<1>10. RowsWritten' BY <1>4, <1>5, <1>6 DEF RowsWritten
<1> QED BY <1>8, <1>9, <1>10 DEF HostInv

LEMMA PromoteGroupHostInv ==
    ASSUME IInv, HostInv, NEW s \in Sidecars, PromoteGroup(s) PROVE HostInv'
<1> DEFINE todo == {g[2] : g \in {x \in job.groups : x[1] = s}}
           work == [db EXCEPT !.tags = job.tags]
<1>1. job \in Job /\ db \in Store /\ job # Idle BY DEF PromoteGroup, IInv, TypeOK
<1>2. /\ job'.groups = {x \in job.groups : x[1] # s} /\ job'.account = job.account
      /\ job' \in Job
  BY <1>1 DEF PromoteGroup, Job
<1>3. job' # Idle BY <1>2, IdleAssumption
<1>4. txn'.todo = todo /\ txn'.work = work /\ txn'.sidecar = s
      /\ UNCHANGED <<db, archived, native, identity>>
  BY DEF PromoteGroup, Open
<1>5. work.stored = db.stored BY <1>1 DEF Store
<1>6. \A g \in job.groups : g[2].source = "tag" /\ g[2].account = job.account
  BY <1>1 DEF HostInv, GroupsName
<1>7. GroupsName' BY <1>2, <1>6 DEF GroupsName
<1>8. TodoNames' BY <1>2, <1>3, <1>4, <1>6 DEF TodoNames
<1>9. RowsWritten' BY <1>4, <1>5 DEF RowsWritten
<1> QED BY <1>7, <1>8, <1>9 DEF HostInv

LEMMA NextHostInv == ASSUME IInv, HostInv, [Next]_vars PROVE HostInv'
<1>1. CASE \E s \in Sidecars : Receive(s) BY <1>1, ReceiveHostInv
<1>2. CASE IngestPush BY <1>2, IngestPushHostInv
<1>3. CASE txn' = Idle /\ (job' = Idle \/ job' = job)
  BY <1>3 DEF HostInv, TodoNames, GroupsName, RowsWritten
<1>4. CASE Commit \/ Abort BY <1>3, <1>4 DEF Commit, Abort
<1>5. CASE Assignment
  <2>1. ASSUME NEW rows \in SUBSET (Events \X Sidecars), NEW target \in Providers,
               NEW account \in Accounts, Assign(rows, target, account)
        PROVE  HostInv'
    <3>1. txn' = Idle /\ job'.groups = {} BY <2>1 DEF Assign
    <3> QED BY <3>1 DEF HostInv, TodoNames, GroupsName, RowsWritten
  <2>2. FinishAssign => txn' = Idle /\ job' = Idle BY DEF FinishAssign
  <2> QED BY <1>3, <1>5, <2>1, <2>2, VisitRowHostInv, PromoteGroupHostInv DEF Assignment
<1>6. CASE Administration
  <2>1. Change
    BY <1>6 DEF Administration, SetTag, ClearTag, Archive, Restore, ReportNative, ReportIdentity
  <2> QED BY <1>3, <2>1 DEF Change
<1>7. CASE UNCHANGED vars
  <2>1. \A h, p : Wanted(h, p)' = Wanted(h, p)
    BY <1>7 DEF vars, Wanted, EffectiveTag, ResolveIdentityless, Parked
  <2> QED BY <1>7, <2>1 DEF vars, HostInv, TodoNames, GroupsName, RowsWritten
<1> QED BY <1>1, <1>2, <1>4, <1>5, <1>6, <1>7 DEF Next, Request

(* HostDecides holds of every step: a stored event stays with the host that*)
(* pushed it first, and moves only to the account that host's pushes have  *)
(* now, or to an assigned one.  Between two changes that is one account, so*)
(* replays by any number of hosts move a row at most once.                 *)
THEOREM AttributionIsTheHosts == Spec => HostDecides
<1> DEFINE Decides ==
      \A k \in Keys :
         LET old == db.stored[k]
             new == db'.stored[k]
         IN  old # NoRow =>
                /\ new # NoRow
                /\ new.sidecar = old.sidecar
                /\ new # old =>
                      new.account = IF job = Idle THEN Wanted(old.sidecar, k[1])
                                    ELSE job.account
<1>1. Init => HostInv
  BY DEF Init, HostInv, TodoNames, GroupsName, RowsWritten
<1>2. IInv /\ HostInv /\ [Next]_vars => HostInv' BY NextHostInv
<1>3. IInv /\ HostInv /\ [Next]_vars => [Decides]_vars
  <2> SUFFICES ASSUME IInv, HostInv, [Next]_vars PROVE Decides OBVIOUS
  <2>1. CASE Commit
    <3>1. txn # Idle /\ db' = txn.work BY <2>1 DEF Commit
    <3> QED BY <3>1 DEF HostInv, RowsWritten
  <2>2. CASE db'.stored = db.stored BY <2>2
  <2> QED BY <2>1, <2>2, OnlyCommits
<1> HIDE DEF Decides
<1>4. Spec => [][Decides]_vars BY <1>1, <1>2, <1>3, Invariance, PTL DEF Spec
<1> QED BY <1>4 DEF HostDecides, Decides

-----------------------------------------------------------------------------
(* What an answer promises                                                 *)

(* Ingesting a push makes its event known and forgets none.                *)
LEMMA IngestedKnows ==
    ASSUME NEW st \in Store, NEW s \in Sidecars, NEW push \in Push,
           native \in [Sidecars -> Accounts \cup {Default}]
    PROVE  /\ Knows(Ingested(st, s, push), push.event)
           /\ \A e \in Events : Knows(st, e) => Knows(Ingested(st, s, push), e)
<1> DEFINE after == Ingested(st, s, push)
<1>1. push.event \in Events /\ push.provider \in Providers
  BY DEF Push, OwnedPush, UnownedPush, Providers
<1>2. PICK k \in Keys : Effect(st, s, push, after, k) BY IngestedEffect
<1>3. \A x \in Keys : st.stored[x] # NoRow => after.stored[x] # NoRow
  BY <1>2 DEF Effect
<1>4. ASSUME NEW e \in Events, Knows(st, e) PROVE Knows(after, e)
  <2>1. CASE Exists(st, e) BY <1>3, <2>1 DEF Exists, Knows, Keys
  <2>2. CASE \E h \in Sidecars : st.pending[<<e, h>>] # NotHeld
    <3>1. PICK h \in Sidecars : <<e, h>> \in Held(st) BY <2>2 DEF Held
    <3>2. <<e, h>> \in Held(after) \/ Exists(after, e) BY <1>2, <3>1 DEF Effect
    <3> HIDE DEF after
    <3> QED BY <3>2 DEF Held, Exists, Knows
  <2> QED BY <1>4, <2>1, <2>2 DEF Knows, Exists
<1>5. Knows(after, push.event)
  <2>1. CASE push.source # "default" BY <1>2, <2>1 DEF Effect, Exists, Knows
  <2>2. CASE push.source = "default"
    <3>1. CASE after = Hold(st, s, push)
      <4>1. CASE st.stored[<<push.provider, push.event>>] # NoRow
        BY <1>1, <3>1, <4>1 DEF Hold, Knows
      <4>2. CASE st.stored[<<push.provider, push.event>>] = NoRow
        <5>1. [kind |-> push.kind, model |-> push.model] # NotHeld
          <6>1. push \in UnownedPush BY <2>2 DEF Push, OwnedPush
          <6> QED BY <6>1, ConstantsAssumption DEF UnownedPush
        <5>2. after.pending[<<push.event, s>>] = [kind |-> push.kind, model |-> push.model]
          BY <1>1, <3>1, <4>2 DEF Hold, Store
        <5> HIDE DEF after
        <5> QED BY <5>1, <5>2 DEF Knows
      <4> QED BY <4>1, <4>2
    <3>2. CASE \E p \in OwnedPush, base \in Store :
                 p.event = push.event /\ after = Save(base, s, p)
      <4>1. PICK p \in OwnedPush, base \in Store :
              p.event = push.event /\ after = Save(base, s, p)
        BY <3>2
      <4>2. after.stored[<<p.provider, p.event>>] # NoRow /\ p.provider \in Providers
        BY <4>1, SaveEffect DEF OwnedPush
      <4> HIDE DEF after
      <4> QED BY <4>1, <4>2 DEF Knows
    <3>3. CASE st.stored[<<Source, push.event>>] # NoRow /\ after = st
      BY <3>3 DEF Knows, Providers
    <3>4. \/ after = Hold(st, s, push)
          \/ \E p \in OwnedPush, base \in Store :
                p.event = push.event /\ after = Save(base, s, p)
          \/ st.stored[<<Source, push.event>>] # NoRow /\ after = st
      <4>1. RedirectPush(push, EffectiveTag(st, s).account).event = push.event
        BY DEF RedirectPush
      <4>2. /\ Owned(push, ResolveIdentityless(st, s)).event = push.event
            /\ DropPendingCopies(st, push.event) \in Store
        BY <1>1, DropType DEF Owned
      <4> HIDE DEF after
      <4> QED BY <2>2, <4>1, <4>2, IngestedWays DEF after
    <3> QED BY <3>1, <3>2, <3>3, <3>4
  <2> QED BY <2>1, <2>2
<1> QED BY <1>4, <1>5

(* What an answered request took in is stored or held back, and stays so:  *)
(* the server keeps what the sidecar then strikes off its queue            *)
(* (EventIngestor.ingest, _promote_pending_event_rows).                    *)
THEOREM AnswersAreKept == Spec => AnsweredIsKept
<1> DEFINE Kept(e) ==
      /\ Taken(e) /\ txn' # Idle => Taken(e)'
      /\ Taken(e) /\ Commit => Knows(db', e)
      /\ Knows(db, e) => Knows(db', e)
<1>1. ASSUME IInv, CommitInv, [Next]_vars, NEW e \in Events PROVE Kept(e)
  <2>1. ASSUME Taken(e), txn' # Idle PROVE Taken(e)'
    <3>1. CASE IngestPush
      <4>1. PICK push \in txn.todo :
              txn' = [txn EXCEPT !.todo = @ \ {push},
                                 !.work = Ingested(txn.work, txn.sidecar, push)]
        BY <3>1 DEF IngestPush
      <4>2. /\ txn \in Transaction /\ txn.work \in Store /\ txn.sidecar \in Sidecars
            /\ push \in Push /\ native \in [Sidecars -> Accounts \cup {Default}]
        BY <1>1, <3>1 DEF IngestPush, IInv, TypeOK
      <4> DEFINE after == Ingested(txn.work, txn.sidecar, push)
      <4>3. Knows(after, push.event) /\ (Knows(txn.work, e) => Knows(after, e))
        BY <4>2, IngestedKnows
      <4>4. txn'.todo = txn.todo \ {push} /\ txn'.work = after BY <4>1, <4>2
      <4> HIDE DEF after
      <4> QED BY <2>1, <4>3, <4>4 DEF Taken, Knows
    <3>2. CASE txn' = txn BY <2>1, <3>2 DEF Taken, Knows
    <3>3. IngestPush \/ txn' = txn
      BY <1>1, <2>1 DEF Next, Request, Assignment, Administration, Receive, Commit, Abort,
         Assign, VisitRow, PromoteGroup, FinishAssign, Change, SetTag, ClearTag, Archive,
         Restore, ReportNative, ReportIdentity, Taken, vars
    <3> QED BY <3>1, <3>2, <3>3
  <2>2. ASSUME Taken(e), Commit PROVE Knows(db', e)
    BY <2>2 DEF Commit, Taken
  <2>3. ASSUME Knows(db, e) PROVE Knows(db', e)
    <3>1. CASE Commit
      <4>1. /\ \A k \in Keys : db.stored[k] # NoRow => db'.stored[k] # NoRow
            /\ \A h \in Held(db) : h \in Held(db') \/ Exists(db', h[1])
        BY <1>1, <3>1 DEF Commit, CommitInv, RowsStay, HeldOrStored, Exists, Held
      <4>2. CASE Exists(db, e) BY <4>1, <4>2 DEF Exists, Keys, Knows
      <4>3. CASE \E s \in Sidecars : db.pending[<<e, s>>] # NotHeld
        <5>1. PICK s \in Sidecars : <<e, s>> \in Held(db) BY <4>3 DEF Held
        <5>2. <<e, s>> \in Held(db') \/ Exists(db', e) BY <4>1, <5>1
        <5> QED BY <5>2 DEF Held, Exists, Knows
      <4> QED BY <2>3, <4>2, <4>3 DEF Knows, Exists
    <3>2. CASE FinishAssign
      <4>1. /\ db'.stored = db.stored
            /\ db'.pending = [h \in Events \X Sidecars |-> IF h \in job.rows THEN NotHeld ELSE db.pending[h]]
        BY <1>1, <3>2 DEF FinishAssign, IInv, TypeOK, Store
      <4>2. \A h \in job.rows : Exists(db, h[1])
        BY <1>1, <3>2 DEF FinishAssign, CommitInv, VisitedAreCarried
      <4>3. ASSUME NEW s \in Sidecars, db.pending[<<e, s>>] # NotHeld
            PROVE  db'.pending[<<e, s>>] # NotHeld \/ Exists(db, e)
        BY <4>1, <4>2, <4>3
      <4> QED BY <2>3, <4>1, <4>3 DEF Knows, Exists
    <3>3. CASE db'.stored = db.stored /\ db'.pending = db.pending
      BY <2>3, <3>3 DEF Knows
    <3> QED BY <1>1, <3>1, <3>2, <3>3, OnlyCommits
  <2> QED BY <2>1, <2>2, <2>3
<1>2. IInv /\ CommitInv /\ [Next]_vars => [\A e \in Events : Kept(e)]_vars
  BY <1>1
<1> HIDE DEF Kept
<1>3. Spec => [][\A e \in Events : Kept(e)]_vars
  BY <1>2, CommitsAreSafe, PTL DEF Spec
<1> QED BY <1>3 DEF AnsweredIsKept, Kept
=============================================================================
