----------------------------- MODULE EventStore -----------------------------
(***************************************************************************)
(* The server's usage-event store: idempotent ingestion of the events the  *)
(* sidecars push, the events held back for want of an account, their       *)
(* assignment by the operator, and the period rollups kept beside them.    *)
(*                                                                         *)
(* Code: app/services/event_ingestor.py, app/services/period_rollups.py,   *)
(* app/services/credentials/tags.py (the lookups) and the promotion half   *)
(* of app/api/endpoints/fleet_pending_events.py.                           *)
(*                                                                         *)
(* Events are pushed under the provider Source; Target is the related      *)
(* provider whose accounts may own them (gemini -> antigravity).  With no  *)
(* assignment to Target the module is the store of an ordinary provider.   *)
(***************************************************************************)
EXTENDS Integers, FiniteSets

CONSTANTS
    Events,       \* event ids
    Sidecars,     \* hosts that push events
    Accounts,     \* account ids; one id may name an account of both providers
    Source,       \* the provider hosts report
    Target,       \* the provider events of Source can be redirected to
    Models,       \* model ids
    NormalModel,  \* Models -> Models: the target provider's normaliser
    Contents,     \* what an event says: a set of [kind, model] records
    Default,      \* the account id of an event nobody has identified
    AllHosts,     \* deployment-wide scope of a tag; "any sidecar" rollup grain
    AnyModel,     \* "any model" rollup grain
    NoTag, NoRow, NotHeld, Idle,
    MaxBatch,     \* bound: events in one pushed batch
    MaxChanges    \* bound: operator and host changes in one behaviour

Providers == {Source, Target}
Kinds == {"message", "error"}

ASSUME ConstantsAssumption ==
    /\ IsFiniteSet(Events)
    /\ Source # Target
    /\ Default \notin Accounts
    /\ AllHosts \notin Sidecars
    /\ Contents \subseteq [kind: Kinds, model: Models]
    /\ NormalModel \in [Models -> Models]
    /\ NoRow \notin [account: Accounts, sidecar: Sidecars, kind: Kinds, model: Models]
    /\ NotHeld \notin [kind: Kinds, model: Models]
    /\ NoTag \notin [account: Accounts, target: Providers]
    /\ MaxBatch \in Nat
    /\ MaxChanges \in Nat

(* Identity of a stored event: the unique index (provider_id, event_id).   *)
Keys == Providers \X Events
Scopes == Sidecars \cup {AllHosts}
Tag == [account: Accounts, target: Providers]
Row == [account: Accounts, sidecar: Sidecars, kind: Kinds, model: Models]
Bucket == Providers \X Accounts \X (Models \cup {AnyModel}) \X Scopes
Identity == [account: {Default}, source: {"default"}]
              \cup [account: Accounts, source: {"tag", "local"}]
Content == [kind: Kinds, model: Models]
UnownedPush == [provider: {Source}, event: Events, account: {Default},
                source: {"default"}, kind: Kinds, model: Models]
OwnedPush == [provider: Providers, event: Events, account: Accounts,
              source: {"tag", "local"}, kind: Kinds, model: Models]
Push == UnownedPush \cup OwnedPush

Store == [stored:  [Keys -> Row \cup {NoRow}],
          rollup:  [Bucket -> Int],
          pending: [Events \X Sidecars -> Content \cup {NotHeld}],
          tags:    [Scopes -> Tag \cup {NoTag}]]
Transaction == [sidecar: Sidecars, todo: SUBSET Push, work: Store]
Job == [rows: SUBSET (Events \X Sidecars), left: SUBSET (Events \X Sidecars),
        groups: SUBSET (Sidecars \X OwnedPush), tags: [Scopes -> Tag \cup {NoTag}],
        target: Providers, account: Accounts]

ASSUME IdleAssumption == Idle \notin Transaction /\ Idle \notin Job

VARIABLES
    db,        \* the committed database: a Store
    txn,       \* the open ingest transaction: Idle or [sidecar, todo, work]
    job,       \* the operator's assignment under way, or Idle
    archived,  \* (provider, account) pairs whose configuration is archived
    native,    \* the one account a host's own credential resolves to, or Default
    identity,  \* how each host reports the account of its events
    changes    \* operator and host changes so far

vars == <<db, txn, job, archived, native, identity, changes>>

-----------------------------------------------------------------------------
(* Rollups. *)

Grains(p, row) ==
    {<<p, row.account, m, h>> : m \in {row.model, AnyModel}, h \in {row.sidecar, AllHosts}}

Add(rollup, p, row) ==
    IF row.kind # "message" THEN rollup
    ELSE [b \in Bucket |-> IF b \in Grains(p, row) THEN rollup[b] + 1 ELSE rollup[b]]

(* A bucket nothing was ever added to has no row: there is nothing to      *)
(* subtract from.                                                          *)
Subtract(rollup, p, row) ==
    IF row.kind # "message" THEN rollup
    ELSE [b \in Bucket |->
            IF b \in Grains(p, row) /\ rollup[b] # 0 THEN rollup[b] - 1 ELSE rollup[b]]

-----------------------------------------------------------------------------
(* One pushed event. *)

EffectiveTag(st, s) == IF st.tags[s] # NoTag THEN st.tags[s] ELSE st.tags[AllHosts]

Parked(tag) == <<tag.target, tag.account>> \in archived

(* Mutant: the archived account of the redirect is not looked up. *)
RedirectsOntoArchived(st, s, push) ==
    LET tag == EffectiveTag(st, s)
    IN  push.provider = Source /\ tag # NoTag /\ tag.target # Source /\ push.source = "default"

(* The tag re-homes the push: identity-less events, and events the sidecar *)
(* already stamped with the tagged account.                                *)
Redirects(st, s, push) ==
    LET tag == EffectiveTag(st, s)
    IN  /\ push.provider = Source
        /\ tag # NoTag
        /\ tag.target # Source
        /\ ~Parked(tag)
        /\ \/ push.source = "default"
           \/ push.source = "tag" /\ push.account = tag.account

RedirectPush(push, account) ==
    [provider |-> Target, event |-> push.event, account |-> account, source |-> "tag",
     kind |-> push.kind, model |-> NormalModel[push.model]]

ResolveIdentityless(st, s) ==
    LET tag == EffectiveTag(st, s)
    IN  IF tag # NoTag /\ ~Parked(tag) THEN tag.account
        ELSE IF <<Source, native[s]>> \notin archived THEN native[s]
        ELSE Default

(* Mutant: any host may move the row. *)
SaveFromAnyHost(st, s, push) ==
    LET k == <<push.provider, push.event>>
        old == st.stored[k]
        new == [account |-> push.account, sidecar |-> IF old = NoRow THEN s ELSE old.sidecar,
                kind |-> push.kind, model |-> push.model]
        base == IF old = NoRow THEN st.rollup ELSE Subtract(st.rollup, push.provider, old)
    IN  [st EXCEPT !.stored[k] = new, !.rollup = Add(base, push.provider, new)]

(* Mutant: a moved row is not subtracted from the account it leaves. *)
SaveWithoutSubtract(st, s, push) ==
    LET k == <<push.provider, push.event>>
        new == [account |-> push.account, sidecar |-> s,
                kind |-> push.kind, model |-> push.model]
    IN  IF \/ st.stored[k] = NoRow
           \/ st.stored[k].account # new.account /\ st.stored[k].sidecar = s
        THEN [st EXCEPT !.stored[k] = new, !.rollup = Add(st.rollup, push.provider, new)]
        ELSE st

(* Insert, or on a unique-index conflict move the row when the same host   *)
(* now reports it under another account.                                   *)
Save(st, s, push) ==
    LET k == <<push.provider, push.event>>
        old == st.stored[k]
        new == [account |-> push.account, sidecar |-> s,
                kind |-> push.kind, model |-> push.model]
        Put(rollup) == [st EXCEPT !.stored[k] = new,
                                  !.rollup = Add(rollup, push.provider, new)]
    IN  IF old = NoRow THEN Put(st.rollup)
        ELSE IF old.account # new.account /\ old.sidecar = s
             THEN Put(Subtract(st.rollup, push.provider, old))
        ELSE st

(* From here on the source of the account makes no difference.             *)
Owned(push, account) ==
    [provider |-> push.provider, event |-> push.event, account |-> account,
     source |-> "local", kind |-> push.kind, model |-> push.model]

DropPendingCopies(st, e) ==
    [st EXCEPT !.pending = [h \in Events \X Sidecars |->
                              IF h[1] = e THEN NotHeld ELSE st.pending[h]]]

Hold(st, s, push) ==
    IF st.stored[<<push.provider, push.event>>] # NoRow THEN st
    ELSE [st EXCEPT !.pending[<<push.event, s>>] = [kind |-> push.kind, model |-> push.model]]

(* Mutant: a redirected push is not looked up under its own provider. *)
IngestedWithoutSourceCheck(st, s, push) ==
    IF Redirects(st, s, push)
    THEN Save(st, s, RedirectPush(push, EffectiveTag(st, s).account))
    ELSE IF push.source # "default" THEN Save(st, s, push)
    ELSE Hold(st, s, push)

Ingested(st, s, push) ==
    IF Redirects(st, s, push)
    THEN IF st.stored[<<Source, push.event>>] # NoRow THEN st
         ELSE Save(st, s, RedirectPush(push, EffectiveTag(st, s).account))
    ELSE IF push.source # "default" THEN Save(st, s, push)
    ELSE LET account == ResolveIdentityless(st, s)
         IN  IF account = Default THEN Hold(st, s, push)
             ELSE Save(DropPendingCopies(st, push.event), s, Owned(push, account))

-----------------------------------------------------------------------------
(* The ingest transaction. *)

HostPush(s, e, c) ==
    [provider |-> Source, event |-> e, account |-> identity[s].account,
     source |-> identity[s].source, kind |-> c.kind, model |-> c.model]

Open(s, batch, st) == txn' = [sidecar |-> s, todo |-> batch, work |-> st]

(* POST /fleet/ingest reaches the ingestor: any batch, replays included.   *)
Receive(s) ==
    /\ txn = Idle
    /\ job = Idle
    /\ \E E \in SUBSET Events :
         /\ E # {}
         /\ Cardinality(E) <= MaxBatch
         /\ \E c \in [E -> Contents] : Open(s, {HostPush(s, e, c[e]) : e \in E}, db)
    /\ UNCHANGED <<db, job, archived, native, identity, changes>>

IngestPush ==
    /\ txn # Idle
    /\ \E push \in txn.todo :
         txn' = [txn EXCEPT !.todo = @ \ {push},
                            !.work = Ingested(txn.work, txn.sidecar, push)]
    /\ UNCHANGED <<db, job, archived, native, identity, changes>>

Commit ==
    /\ txn # Idle
    /\ txn.todo = {}
    /\ db' = txn.work
    /\ txn' = Idle
    /\ UNCHANGED <<job, archived, native, identity, changes>>

(* An exception rolls the transaction back; it, or the death of the        *)
(* process, also ends an assignment between two of its commits.            *)
Abort ==
    /\ txn # Idle \/ job # Idle
    /\ txn' = Idle
    /\ job' = Idle
    /\ UNCHANGED <<db, archived, native, identity, changes>>

-----------------------------------------------------------------------------
(* Assignment of held-back events to an account of provider target. *)

Held(st) == {h \in Events \X Sidecars : st.pending[h] # NotHeld}

Assign(rows, target, account) ==
    /\ txn = Idle
    /\ job = Idle
    /\ changes < MaxChanges
    /\ rows # {}
    /\ rows \subseteq Held(db)
    /\ job' = [rows |-> rows, left |-> rows, groups |-> {}, tags |-> db.tags,
               target |-> target, account |-> account]
    /\ changes' = changes + 1
    /\ UNCHANGED <<db, txn, archived, native, identity>>

Payload(h) ==
    LET push == [provider |-> Source, event |-> h[1], account |-> job.account,
                 source |-> "tag", kind |-> db.pending[h].kind,
                 model |-> db.pending[h].model]
    IN  IF job.target = Source THEN push ELSE RedirectPush(push, job.account)

(* An event that is already stored keeps the host it is stored under, so   *)
(* that the assignment is allowed to move it.                              *)
PromotionSidecar(h) ==
    LET old == db.stored[<<job.target, h[1]>>]
    IN  IF old # NoRow THEN old.sidecar ELSE h[2]

VisitRow(h) ==
    /\ job # Idle
    /\ txn = Idle
    /\ h \in job.left
    /\ LET tags == [job.tags EXCEPT ![h[2]] = [account |-> job.account, target |-> job.target]]
           visited == [job EXCEPT !.left = @ \ {h}, !.tags = tags]
           s == PromotionSidecar(h)
           twin == \E g \in job.rows : g # h /\ g[1] = h[1]
       IN  \/ /\ job.target # Source
              /\ db.stored[<<Source, h[1]>>] # NoRow
              /\ job' = visited
              /\ UNCHANGED txn
           \/ /\ job.target = Source \/ db.stored[<<Source, h[1]>>] = NoRow
              /\ twin
              /\ job' = visited
              /\ Open(s, {Payload(h)}, [db EXCEPT !.tags = tags])
           \/ /\ job.target = Source \/ db.stored[<<Source, h[1]>>] = NoRow
              /\ ~twin
              /\ job' = [visited EXCEPT !.groups = @ \cup {<<s, Payload(h)>>}]
              /\ UNCHANGED txn
    /\ UNCHANGED <<db, archived, native, identity, changes>>

PromoteGroup(s) ==
    /\ job # Idle
    /\ txn = Idle
    /\ job.left = {}
    /\ \E g \in job.groups : g[1] = s
    /\ Open(s, {g[2] : g \in {x \in job.groups : x[1] = s}}, [db EXCEPT !.tags = job.tags])
    /\ job' = [job EXCEPT !.groups = {x \in @ : x[1] # s}]
    /\ UNCHANGED <<db, archived, native, identity, changes>>

(* Mutant: the pending rows are dropped before their promotion commits. *)
FinishAssignEarly ==
    /\ job # Idle
    /\ txn = Idle
    /\ job.left = {}
    /\ db' = [db EXCEPT !.pending = [h \in Events \X Sidecars |->
                                       IF h \in job.rows THEN NotHeld ELSE db.pending[h]]]
    /\ UNCHANGED <<job, txn, archived, native, identity, changes>>

FinishAssign ==
    /\ job # Idle
    /\ txn = Idle
    /\ job.left = {}
    /\ job.groups = {}
    /\ db' = [db EXCEPT !.tags = job.tags,
                        !.pending = [h \in Events \X Sidecars |->
                                       IF h \in job.rows THEN NotHeld ELSE db.pending[h]]]
    /\ job' = Idle
    /\ UNCHANGED <<txn, archived, native, identity, changes>>

-----------------------------------------------------------------------------
(* What the operator and the hosts may change between two requests. *)

Change ==
    /\ txn = Idle
    /\ job = Idle
    /\ changes < MaxChanges
    /\ changes' = changes + 1
    /\ UNCHANGED <<txn, job>>

(* "All machines" drops the machine-scoped overrides, so that it wins.     *)
SetTag(scope, account) ==
    /\ Change
    /\ LET tag == [account |-> account, target |-> Source]
       IN  db' = [db EXCEPT !.tags = [x \in Scopes |->
                                        IF x = scope THEN tag
                                        ELSE IF scope = AllHosts THEN NoTag ELSE db.tags[x]]]
    /\ UNCHANGED <<archived, native, identity>>

ClearTag(scope) ==
    /\ Change
    /\ db.tags[scope] # NoTag
    /\ db' = [db EXCEPT !.tags[scope] = NoTag]
    /\ UNCHANGED <<archived, native, identity>>

Archive(p, account) ==
    /\ Change
    /\ archived' = archived \cup {<<p, account>>}
    /\ UNCHANGED <<db, native, identity>>

Restore(p, account) ==
    /\ Change
    /\ <<p, account>> \in archived
    /\ archived' = archived \ {<<p, account>>}
    /\ UNCHANGED <<db, native, identity>>

ReportNative(s, account) ==
    /\ Change
    /\ native' = [native EXCEPT ![s] = account]
    /\ UNCHANGED <<db, archived, identity>>

ReportIdentity(s, id) ==
    /\ Change
    /\ identity' = [identity EXCEPT ![s] = id]
    /\ UNCHANGED <<db, archived, native>>

-----------------------------------------------------------------------------
Init ==
    /\ db = [stored  |-> [k \in Keys |-> NoRow],
             rollup  |-> [b \in Bucket |-> 0],
             pending |-> [h \in Events \X Sidecars |-> NotHeld],
             tags    |-> [s \in Scopes |-> NoTag]]
    /\ txn = Idle
    /\ job = Idle
    /\ archived = {}
    /\ native = [s \in Sidecars |-> Default]
    /\ identity \in [Sidecars -> Identity]
    /\ changes = 0

Request ==
    \/ \E s \in Sidecars : Receive(s)
    \/ IngestPush
    \/ Commit
    \/ Abort

Assignment ==
    \/ \E rows \in SUBSET (Events \X Sidecars), target \in Providers, account \in Accounts :
         Assign(rows, target, account)
    \/ \E h \in Events \X Sidecars : VisitRow(h)
    \/ \E s \in Sidecars : PromoteGroup(s)
    \/ FinishAssign

Administration ==
    \/ \E scope \in Scopes, account \in Accounts : SetTag(scope, account)
    \/ \E scope \in Scopes : ClearTag(scope)
    \/ \E p \in Providers, account \in Accounts : Archive(p, account) \/ Restore(p, account)
    \/ \E s \in Sidecars, account \in Accounts \cup {Default} : ReportNative(s, account)
    \/ \E s \in Sidecars, id \in Identity : ReportIdentity(s, id)

Next == Request \/ Assignment \/ Administration

Spec == Init /\ [][Next]_vars

-----------------------------------------------------------------------------
(* Every variable has its type, in the database and in the open transaction. *)
TypeOK ==
    /\ db \in Store
    /\ txn \in Transaction \cup {Idle}
    /\ job \in Job \cup {Idle}
    /\ archived \subseteq Providers \X Accounts
    /\ native \in [Sidecars -> Accounts \cup {Default}]
    /\ identity \in [Sidecars -> Identity]
    /\ changes \in 0..MaxChanges

Counted(st, b) ==
    {k \in Keys : /\ st.stored[k] # NoRow
                  /\ st.stored[k].kind = "message"
                  /\ b \in Grains(k[1], st.stored[k])}

AttributedTo(k) == IF db.stored[k] = NoRow THEN NoRow ELSE db.stored[k].account

RollupsAgree(st) == \A b \in Bucket : st.rollup[b] = Cardinality(Counted(st, b))

(* What makes RollupsMatchEvents inductive: the open transaction agrees    *)
(* too, and an assignment under way promotes rows that are still held.     *)
TransactionAgrees == txn # Idle => RollupsAgree(txn.work)

AssignmentHolds ==
    job # Idle =>
        /\ job.left \subseteq job.rows
        /\ job.rows \subseteq Held(db)
        /\ txn # Idle => txn.todo \subseteq OwnedPush /\ txn.work.pending = db.pending

(* Each committed rollup bucket counts exactly the message events stored   *)
(* in it: no replay, re-attribution, change of kind or model, rollback or  *)
(* half-finished assignment leaves a message counted twice, under an       *)
(* account it left, or not at all (update_rollups_for_event, _reattribute).*)
RollupsMatchEvents == RollupsAgree(db)

IInv == TypeOK /\ RollupsMatchEvents /\ TransactionAgrees /\ AssignmentHolds

(* A held-back event leaves the pending queue only once it is stored, under *)
(* its own provider or the redirect target; the drop, the insert and the    *)
(* operator's multi-commit assignment never lose one.                       *)
HeldEventsAreNotLost ==
    [][\A h \in Held(db) :
         h \notin Held(db') => \E p \in Providers : db'.stored[<<p, h[1]>>] # NoRow]_vars

(* A store knows an event: it is counted, or held for the operator.        *)
Knows(st, e) ==
    \/ \E p \in Providers : st.stored[<<p, e>>] # NoRow
    \/ \E s \in Sidecars : st.pending[<<e, s>>] # NotHeld

(* The open transaction knows it, or is still to ingest it.                *)
Taken(e) == txn # Idle /\ (Knows(txn.work, e) \/ \E push \in txn.todo : push.event = e)

(* What an answered request took in is kept: no push of a batch is dropped *)
(* on any of its ways, nor by the pushes ingested after it, and what a     *)
(* commit has made known no later one forgets.  The delivery of events     *)
(* relies on it when it strikes what was answered off its queue.           *)
AnsweredIsKept ==
    [][\A e \in Events :
         /\ Taken(e) /\ txn' # Idle => Taken(e)'
         /\ Taken(e) /\ Commit => Knows(db', e)
         /\ Knows(db, e) => Knows(db', e)]_vars

(* An event counted under its own provider is never inserted a second time *)
(* under the redirect target, whatever tags appear later ("don't           *)
(* double-count", event_ingestor.py:229).                                  *)
NoSecondCopyUnderTarget ==
    [][\A e \in Events :
         /\ db.stored[<<Source, e>>] # NoRow
         /\ db.stored[<<Target, e>>] = NoRow
         => db'.stored[<<Target, e>>] = NoRow]_vars

(* A push never puts usage on an archived account by way of a tag, a       *)
(* redirect or the host's native identity: a row that a host's batch adds  *)
(* to, or moves onto, an archived account named that account itself.       *)
NothingStampedOnArchived ==
    [][\A k \in Keys :
         LET row == db'.stored[k]
         IN  /\ job = Idle
             /\ row # db.stored[k]
             /\ <<k[1], row.account>> \in archived
             => identity[row.sidecar].account = row.account]_vars

(* The account a host's own pushes put its events on, now, under provider p.*)
Wanted(s, p) ==
    IF p = Target THEN EffectiveTag(db, s).account
    ELSE IF identity[s].source = "default" THEN ResolveIdentityless(db, s)
    ELSE identity[s].account

(* What AttributionSettles rests on: a stored event stays stored, under the*)
(* host that pushed it first, whichever hosts push it later; it moves only *)
(* to the one account that host's own pushes have now, or that an operator *)
(* assigns (the host check of _reattribute).                               *)
HostDecides ==
    [][\A k \in Keys :
         LET old == db.stored[k]
             new == db'.stored[k]
         IN  old # NoRow =>
                /\ new # NoRow
                /\ new.sidecar = old.sidecar
                /\ new # old =>
                      new.account = IF job = Idle THEN Wanted(old.sidecar, k[1])
                                    ELSE job.account]_vars

(* Two hosts that share an event do not flip its account back and forth:   *)
(* once operators and hosts stop changing things, replays leave every      *)
(* attribution alone.                                                      *)
AttributionSettles ==
    \A k \in Keys : \E a \in Accounts \cup {NoRow} : <>[](AttributedTo(k) = a)

(* What docs/collectors/hermes.md:67 says of stable event ids: no event is *)
(* counted twice, here under both providers at once.                       *)
NoDoubleCounting ==
    \A e \in Events : db.stored[<<Source, e>>] = NoRow \/ db.stored[<<Target, e>>] = NoRow

(* What the comment at fleet_pending_events.py:476-479 says: an assignment *)
(* moves an event that was stored meanwhile instead of being mistaken for  *)
(* a competing replay.  (An event counted under its own provider is        *)
(* deliberately left there by an assignment to the redirect target.)       *)
AssignmentTakesEffect ==
    [][FinishAssign =>
         \A h \in job.rows :
            LET row == db.stored[<<job.target, h[1]>>]
            IN  \/ row # NoRow /\ row.account = job.account
                \/ job.target = Target /\ db.stored[<<Source, h[1]>>] # NoRow]_vars
=============================================================================
