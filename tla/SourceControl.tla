---------------------------- MODULE SourceControl ----------------------------
(***************************************************************************)
(* Consent and remote control of the credential sources of one enrolled    *)
(* sidecar.  The user turns reading of a source on or off locally, every   *)
(* change with a new generation; the sidecar reports that to the server    *)
(* and pushes the credentials it may read; an administrator pauses,        *)
(* resumes and revokes sources at the server with numbered commands that   *)
(* the sidecar picks up and acknowledges when it synchronises.  Requests   *)
(* and answers are lost, and a request the sidecar gave up is processed    *)
(* later.                                                                  *)
(*                                                                         *)
(* Server: app/services/source_controls.py, source_commands.py,            *)
(* app/api/endpoints/fleet_sources.py, app/services/token_cache_store.py.  *)
(* Sidecar: scripts/sidecar_pkg/source_protocol.py, source_consent.py,     *)
(* source_settings.py, scripts/sidecar.py, sidecar_app/daemon.py.          *)
(***************************************************************************)
EXTENDS Integers, FiniteSets

CONSTANTS
  Sources,        \* the sources of the device
  Ordinary,       \* those read without a local consent (Linux, Windows)
  MaxGeneration,  \* bound: changes of the local consent of a source
  MaxCommands,    \* bound: number of the last command
  MaxLate,        \* bound: requests given up and still to be processed
  MaxPushes       \* bound: credentials on their way at a time

ASSUME ConstantsAssumption ==
  /\ IsFiniteSet(Sources) /\ Ordinary \subseteq Sources
  /\ MaxGeneration \in Nat /\ MaxCommands \in Nat
  /\ MaxLate \in Nat /\ MaxPushes \in Nat

VARIABLES
  \* the server
  row,       \* SidecarSourceState of each source
  commands,  \* SidecarSourceCommand rows
  held,      \* generation of the stored credential, None without one
  moved,     \* the source revision moved since the token cache was loaded
  cached,    \* what the token cache offers the collectors
  \* the sidecar, on disk
  consent,   \* keychain_sources of the configuration
  stored,    \* "commands" and "withdrawals" of source-control.json
  acks,      \* its "acknowledgments"
  \* the sidecar, in memory
  policy,    \* the configuration SourcePolicy decides by
  blocked,   \* the sources SourcePolicy pauses
  faulted,   \* an answer could not be applied
  accepted,  \* sources the last synchronisation negotiated
  stage,     \* where the collection cycle stands
  snap,      \* the configuration the cycle was started with
  \* the network
  reply,     \* answer to the synchronisation under way
  late,      \* synchronisations the sidecar gave up
  pushes     \* credentials on their way

server  == <<row, commands, held, moved, cached>>
disk    == <<consent, stored, acks>>
memory  == <<policy, blocked, faulted, accepted, stage, snap>>
network == <<reply, late, pushes>>
vars    == <<server, disk, memory, network>>

-----------------------------------------------------------------------------
None == -1
Generations == 0 .. MaxGeneration
Consented == Sources \ Ordinary
Actions == {"pause", "resume", "revoke", "notice"}
Answers == {"applied", "denied"}
Stages == {"idle", "asked", "answered", "synced", "collecting"}

Row     == [known: BOOLEAN, read: BOOLEAN, paused: BOOLEAN,
            generation: Generations, revoked: Generations \cup {None}]
Command == [id: 1 .. MaxCommands, source: Sources, action: Actions,
            generation: Generations, answer: Answers \cup {"pending"}]
Consent == [read: BOOLEAN, generation: Generations]
Stored  == [id: 0 .. MaxCommands, answer: Answers, paused: BOOLEAN,
            revoked: Generations \cup {None}, withdrawn: Generations \cup {None}]
Ack     == [id: 1 .. MaxCommands, answer: Answers]
Request == [reports: [Consented -> Consent], acks: SUBSET Ack]
Reply   == [row: [Sources -> Row], commands: SUBSET Command]
Push    == [source: Sources, generation: Generations]

NoRow  == [known |-> FALSE, read |-> FALSE, paused |-> FALSE,
           generation |-> 0, revoked |-> None]
NewRow == [NoRow EXCEPT !.known = TRUE, !.read = TRUE]
Off    == [read |-> FALSE, generation |-> 0]
Fresh  == [id |-> 0, answer |-> "applied", paused |-> FALSE,
           revoked |-> None, withdrawn |-> None]
NoReply == [row |-> [s \in Sources |-> NoRow], commands |-> {}]

Larger(a, b) == IF a > b THEN a ELSE b

\* A change of anything the token cache depends on: the revision is bumped.
Bump(condition) == moved' = (moved \/ condition)

-----------------------------------------------------------------------------
(* The server *)

\* Mutant: the tombstone is not looked at.
AllowedAfterRevoke(r, g) ==
  r.known /\ r.read /\ ~ r.paused /\ g = r.generation

\* allowed(): may a credential of this generation be kept and used?
Allowed(r, g) ==
  r.known /\ r.read /\ ~ r.paused /\ g = r.generation /\ g > r.revoked

\* What the next load of the token cache would find.
Usable == [s \in Sources |->
             IF held[s] # None /\ Allowed(row[s], held[s]) THEN held[s] ELSE None]

\* apply_report(): a report of an older generation changes nothing; one that
\* says "off" leaves a tombstone.
Older(r, c) == r.known /\ c.generation < r.generation
\* Mutant: a report that says "off" leaves no tombstone.
ReportedWithoutTombstone(r, c) ==
  IF Older(r, c) THEN r
  ELSE [r EXCEPT !.known = TRUE, !.read = c.read, !.generation = c.generation]
\* Mutant: the tombstone is that of the generation the row had before.
ReportedAtOldGeneration(r, c) ==
  IF Older(r, c) THEN r
  ELSE [r EXCEPT !.known = TRUE, !.read = c.read, !.generation = c.generation,
                 !.revoked = IF c.read THEN @ ELSE Larger(@, r.generation)]
\* Mutant: only a source that was on gets a tombstone.
ReportedOffOnce(r, c) ==
  IF Older(r, c) THEN r
  ELSE [r EXCEPT !.known = TRUE, !.read = c.read, !.generation = c.generation,
                 !.revoked = IF c.read \/ ~ r.read THEN @
                             ELSE Larger(@, c.generation)]
Reported(r, c) ==
  IF Older(r, c) THEN r
  ELSE [r EXCEPT !.known = TRUE, !.read = c.read, !.generation = c.generation,
                 !.revoked = IF c.read THEN @ ELSE Larger(@, c.generation)]
\* Mutant: a new generation of a source that stays on is no change.
ChangesOfRead(r, c) == ~ Older(r, c) /\ r.read # c.read
Changes(r, c) ==
  LET new == Reported(r, c)
  IN <<r.read, r.generation, r.revoked>> # <<new.read, new.generation, new.revoked>>

Latest(c, all) == \A d \in all : d.source = c.source => d.id <= c.id

\* acknowledge(): the commands an acknowledgment closes, and the sources a
\* resume takes effect for.
\* Mutant: later commands are not looked at.
NewestAlways(c) == TRUE
Newest(c) == Latest(c, commands)
Acknowledges(a, c) == a.id = c.id /\ c.answer = "pending"
\* Mutant: a denial leaves the command pending.
ClosedWhenApplied(c, given) ==
  IF [id |-> c.id, answer |-> "applied"] \in given /\ c.answer = "pending"
  THEN [c EXCEPT !.answer = "applied"] ELSE c
Closed(c, given) ==
  IF \E a \in given : Acknowledges(a, c)
  THEN [c EXCEPT !.answer = (CHOOSE a \in given : Acknowledges(a, c)).answer]
  ELSE c
Resumed(rows, given) ==
  {s \in Sources : \E c \in commands :
     /\ c.source = s /\ c.action = "resume" /\ Newest(c)
     /\ \E a \in given : Acknowledges(a, c) /\ a.answer = "applied"
     /\ rows[s].known /\ rows[s].read
     /\ rows[s].generation = c.generation /\ c.generation > rows[s].revoked}

\* prune_commands(): acknowledged commands may go once they are old, never the
\* last one of a source.
\* Mutant: the last command of a source is not kept.
PrunableAll(c, all) == c.answer # "pending"
Prunable(c, all) ==
  /\ c.answer # "pending"
  /\ \E d \in all : /\ d.source = c.source /\ d.id > c.id
                   /\ Latest(d, all)

\* sync_sources(): reports, acknowledgments and pruning in one transaction.
Synchronised(r) ==
  LET rows  == [s \in Sources |-> IF s \in Consented
                                    THEN Reported(row[s], r.reports[s]) ELSE row[s]]
      moves == {s \in Consented : Changes(row[s], r.reports[s])}
      back  == Resumed(rows, r.acks)
      all   == {Closed(c, r.acks) : c \in commands}
  IN /\ row' = [s \in Sources |->
                  IF s \in back THEN [rows[s] EXCEPT !.paused = FALSE] ELSE rows[s]]
     /\ held' = [s \in Sources |->
                  IF s \in moves /\ ~ r.reports[s].read THEN None ELSE held[s]]
     /\ Bump(moves # {} \/ back # {})
     /\ \E old \in SUBSET {c \in all : Prunable(c, all)} : commands' = all \ old
     /\ UNCHANGED cached

\* queue_command(): a pause or a revocation takes effect at the server at
\* once, a resume only when the sidecar acknowledges it.
Effect(r, action) ==
  CASE action = "pause"  -> [r EXCEPT !.paused = TRUE]
    [] action = "revoke" -> [r EXCEPT !.revoked = Larger(@, r.generation)]
    [] OTHER             -> r

IsNextId(n) ==
  /\ \A c \in commands : c.id < n
  /\ n = 1 \/ \E c \in commands : c.id = n - 1

Administer(s, action) ==
  /\ row[s].known
  /\ action = "resume" => row[s].read /\ row[s].generation > row[s].revoked
  /\ \E n \in 1 .. MaxCommands :
       /\ IsNextId(n)
       /\ commands' = commands \cup
            {[id |-> n, source |-> s, action |-> action,
              generation |-> row[s].generation, answer |-> "pending"]}
  /\ row' = [row EXCEPT ![s] = Effect(@, action)]
  /\ held' = IF action = "revoke" THEN [held EXCEPT ![s] = None] ELSE held
  /\ Bump(action \in {"pause", "revoke"})
  /\ UNCHANGED <<cached, disk, memory, network>>

\* contribution_proof() and save_contribution(): the first credential of an
\* ordinary source brings its row along, and a bundle that is staler than the
\* stored one of the same generation is dropped.
Target(p) == IF p.source \in Ordinary /\ ~ row[p.source].known
             THEN NewRow ELSE row[p.source]

Store(p) ==
  /\ p \in pushes
  /\ pushes' = pushes \ {p}
  /\ row' = [row EXCEPT ![p.source] = Target(p)]
  /\ IF Allowed(Target(p), p.generation)
     THEN /\ held' = [held EXCEPT ![p.source] = p.generation]
          /\ \/ Bump(TRUE)
             \/ held[p.source] = p.generation /\ UNCHANGED moved
     ELSE /\ UNCHANGED held
          /\ Bump(row'[p.source] # row[p.source])
  /\ UNCHANGED <<commands, cached, disk, memory, reply, late>>

\* An archived account or a removed origin takes the stored credential along.
Retire(s) ==
  /\ held[s] # None
  /\ held' = [held EXCEPT ![s] = None]
  /\ Bump(TRUE)
  /\ UNCHANGED <<row, commands, cached, disk, memory, network>>

\* The token cache is read: it loads what is usable when the revision moved.
Load ==
  /\ moved
  /\ cached' = Usable /\ moved' = FALSE
  /\ UNCHANGED <<row, commands, held, disk, memory, network>>

\* A synchronisation the sidecar gave up is processed; nobody reads the answer.
SynchroniseLate(r) ==
  /\ r \in late
  /\ Synchronised(r)
  /\ late' = late \ {r}
  /\ UNCHANGED <<disk, memory, reply, pushes>>

-----------------------------------------------------------------------------
(* The sidecar *)

\* SourcePolicy.change() and DaemonController.configure().
SetRead(s, read) ==
  /\ consent[s].generation < MaxGeneration
  /\ consent' = [consent EXCEPT
       ![s] = [read |-> read, generation |-> @.generation + 1]]
  /\ policy' = consent'
  /\ UNCHANGED <<server, stored, acks, blocked, faulted, accepted, stage, snap,
                 network>>

\* apply_runtime(): what a configuration, the stored commands and a fault block.
\* Mutant: the revoked generation itself still passes.
BlocksOlder(config, state, fault) ==
  {s \in Consented : \/ fault \/ state[s].paused
                     \/ config[s].generation < state[s].revoked}
Blocks(config, state, fault) ==
  {s \in Consented : \/ fault \/ state[s].paused
                     \/ config[s].generation <= state[s].revoked}

CurrentRequest == [reports |-> [s \in Consented |-> snap[s]], acks |-> acks]

\* A cycle begins: it works with a copy of the configuration.
Ask ==
  /\ stage = "idle"
  /\ stage' = "asked" /\ snap' = consent
  /\ accepted' = {} /\ blocked' = Blocks(consent, stored, faulted)
  /\ UNCHANGED <<server, disk, policy, faulted, network>>

\* The server processes the request and answers.
Answer ==
  /\ stage = "asked"
  /\ Synchronised(CurrentRequest)
  /\ stage' = "answered"
  /\ reply' = [row |-> row', commands |-> {c \in commands' : c.answer = "pending"}]
  /\ UNCHANGED <<disk, policy, blocked, faulted, accepted, snap, late, pushes>>

\* The answer does not arrive: the request was lost, or the answer, or the
\* request is still to be processed.
GiveUp ==
  /\ stage \in {"asked", "answered"}
  /\ stage' = "synced" /\ reply' = NoReply
  /\ \/ UNCHANGED late
     \/ /\ stage = "asked" /\ Cardinality(late) < MaxLate
        /\ late' = late \cup {CurrentRequest}
  /\ UNCHANGED <<server, disk, policy, blocked, faulted, accepted, snap, pushes>>

\* _receive(): a resume needs the local consent it was issued under; a command
\* already carried out repeats its answer.
Permits(c) ==
  /\ c.source \in Consented =>
       snap[c.source] = [read |-> TRUE, generation |-> c.generation]
  /\ c.generation > stored[c.source].revoked
  /\ \A d \in reply.commands :
       (d.source = c.source /\ d.action = "revoke" /\ d.id < c.id)
          => c.generation > d.generation
AnswerTo(c) ==
  IF c.id <= stored[c.source].id THEN stored[c.source].answer
  ELSE IF c.action = "resume" /\ ~ Permits(c) THEN "denied" ELSE "applied"

\* The controls the server sends along override what the commands say.
Controlled(s) ==
  LET r     == reply.row[s]
      old   == stored[s]
      fresh == {c \in reply.commands : c.source = s /\ c.id > old.id}
      last  == CHOOSE c \in fresh : \A d \in fresh : d.id <= c.id
      state == IF fresh = {} THEN old
               ELSE [old EXCEPT !.id = last.id, !.answer = AnswerTo(last)]
  IN IF r.known
     THEN [state EXCEPT
             !.paused = r.paused, !.revoked = Larger(@, r.revoked),
             !.withdrawn = IF s \in Consented /\ ~ r.read
                           THEN Larger(@, r.generation) ELSE @]
     ELSE state

Receive ==
  /\ stage = "answered"
  /\ stored' = [s \in Sources |-> Controlled(s)]
  /\ acks' = {[id |-> c.id, answer |-> AnswerTo(c)] : c \in reply.commands}
  /\ faulted' = FALSE /\ accepted' = Consented
  /\ blocked' = Blocks(snap, stored', FALSE)
  /\ stage' = "synced" /\ reply' = NoReply
  /\ UNCHANGED <<server, consent, policy, snap, late, pushes>>

\* The answer cannot be saved: the old state stays and everything is blocked.
SaveFails ==
  /\ stage = "answered"
  /\ faulted' = TRUE /\ accepted' = {}
  /\ blocked' = Blocks(snap, stored, TRUE)
  /\ stage' = "synced" /\ reply' = NoReply
  /\ UNCHANGED <<server, disk, policy, snap, late, pushes>>

\* run_collection() configures the policy with the cycle's configuration.
Collect ==
  /\ stage = "synced"
  /\ policy' = snap /\ stage' = "collecting"
  /\ UNCHANGED <<server, disk, blocked, faulted, accepted, snap, network>>

\* filter_egress(): a credential leaves with the ticket of its source, and
\* only when this cycle's synchronisation negotiated the source.
Ticket(s) == policy[s].read /\ s \notin blocked

Send(s) ==
  /\ stage = "collecting"
  /\ s \in Consented => Ticket(s) /\ s \in accepted
  /\ pushes' = pushes \cup
       {[source |-> s,
         generation |-> IF s \in Consented THEN policy[s].generation ELSE 0]}
  /\ Cardinality(pushes') <= MaxPushes
  /\ UNCHANGED <<server, disk, memory, reply, late>>

EndCycle ==
  /\ stage = "collecting"
  /\ stage' = "idle" /\ snap' = [s \in Sources |-> Off]
  /\ UNCHANGED <<server, disk, policy, blocked, faulted, accepted, network>>

\* The process dies and starts again from what is on disk.
Restart ==
  /\ policy' = consent /\ blocked' = Blocks(consent, stored, FALSE)
  /\ faulted' = FALSE /\ accepted' = {}
  /\ stage' = "idle" /\ snap' = [s \in Sources |-> Off] /\ reply' = NoReply
  /\ UNCHANGED <<server, disk, late, pushes>>

-----------------------------------------------------------------------------
Init ==
  /\ row = [s \in Sources |-> NoRow] /\ commands = {}
  /\ held = [s \in Sources |-> None] /\ moved = TRUE
  /\ cached = [s \in Sources |-> None]
  /\ consent = [s \in Sources |-> Off]
  /\ stored = [s \in Sources |-> Fresh] /\ acks = {}
  /\ policy = consent /\ blocked = {} /\ faulted = FALSE /\ accepted = {}
  /\ stage = "idle" /\ snap = [s \in Sources |-> Off]
  /\ reply = NoReply /\ late = {} /\ pushes = {}

CycleStep == Ask \/ Collect \/ EndCycle

Next ==
  \/ CycleStep \/ Answer \/ GiveUp \/ Receive \/ SaveFails \/ Restart \/ Load
  \/ \E s \in Sources, action \in Actions : Administer(s, action)
  \/ \E s \in Consented, read \in BOOLEAN : SetRead(s, read)
  \/ \E s \in Sources : Send(s) \/ Retire(s)
  \/ \E p \in pushes : Store(p)
  \/ \E r \in late : SynchroniseLate(r)

Spec == Init /\ [][Next]_vars

\* The cycle goes on, and not every synchronisation fails.
FairSpec == Spec /\ WF_vars(CycleStep) /\ SF_vars(Answer) /\ SF_vars(Receive)

-----------------------------------------------------------------------------
(* Properties *)

\* Every variable keeps its type (SidecarSourceState, SidecarSourceCommand,
\* source-control.json, SourcePolicy).
TypeOK ==
  /\ row \in [Sources -> Row] /\ commands \subseteq Command
  /\ held \in [Sources -> Generations \cup {None}] /\ moved \in BOOLEAN
  /\ cached \in [Sources -> Generations \cup {None}]
  /\ consent \in [Sources -> Consent]
  /\ stored \in [Sources -> Stored] /\ acks \subseteq Ack
  /\ policy \in [Sources -> Consent] /\ snap \in [Sources -> Consent]
  /\ blocked \subseteq Sources /\ accepted \subseteq Sources
  /\ faulted \in BOOLEAN /\ stage \in Stages
  /\ reply \in Reply /\ late \subseteq Request /\ pushes \subseteq Push

\* A token cache that sees no new revision holds exactly what may be used:
\* each of the many writes that change allowed() bumps the revision
\* (source_controls.py: bump() and read_snapshot()).
CacheIsCurrent == ~ moved => cached = Usable

\* A withdrawal is final for its generation: whatever arrives afterwards, and
\* however late, the server holds no credential at or below the tombstone, or
\* of a source that is off (docs/api-reference.md: "late ingest cannot
\* recreate them").
TombstonesHold ==
  \A s \in Sources : held[s] # None =>
    /\ row[s].known /\ row[s].read
    /\ row[s].revoked < held[s] /\ held[s] <= row[s].generation

\* When the settings page no longer says "Withdrawal pending" for a source
\* that is off, the server has its tombstone and no credential
\* (source_settings.py report(), _receive()).
OffMeansWithdrawn ==
  \A s \in Consented :
    ~ consent[s].read /\ consent[s].generation <= stored[s].withdrawn
      => row[s].revoked >= consent[s].generation /\ held[s] = None

\* A pause ends only by a resume the sidecar has processed and that no later
\* pause or revocation of the source overtook (source_commands.py: "a later
\* administrative action always wins over a delayed older resume").
PauseStands ==
  [][\A s \in Sources : row[s].paused /\ ~ row'[s].paused =>
       \E c \in commands :
         /\ c.source = s /\ c.action = "resume" /\ c.id <= stored[s].id
         /\ \A d \in commands :
              d.source = s /\ d.action \in {"pause", "revoke"} => d.id < c.id]_vars

\* What the server told the sidecar holds on the sidecar: nothing of a source
\* leaves that is paused or revoked by the saved state, after a restart and
\* after an answer that could not be saved (source_protocol.py apply_runtime()).
SidecarObeys ==
  [][\A p \in pushes' \ pushes : p.source \in Consented =>
       /\ ~ faulted /\ ~ stored[p.source].paused
       /\ p.generation > stored[p.source].revoked]_vars

\* A command's number is new to the sidecar and to every acknowledgment that
\* may still arrive (prune_commands(): "keeping the highest ID also prevents
\* SQLite from reusing a command ID after cleanup").
NumbersAreNew ==
  [][\A c \in commands' : (\A d \in commands : d.id # c.id) =>
       /\ \A s \in Sources : stored[s].id < c.id
       /\ \A a \in acks \cup UNION {r.acks : r \in late} : a.id < c.id]_vars

\* A command stays pending until the sidecar has carried it out, or a later
\* one of its source, and saved that: no lost answer, failed save, pruning or
\* late acknowledgment takes it out before.  Whatever CommandsAnswered needs
\* besides is that the sidecar goes on synchronising.
PendingUntilProcessed ==
  [][\A c \in commands : c.answer = "pending" =>
       c \in commands' \/ c.id <= stored[c.source].id]_vars

\* A report, however late, moves nothing back: neither the generation, nor
\* the tombstone, nor the decision of a generation the server knows; nor does
\* an answer move the sidecar's own copy back (apply_report(), _receive()).
NothingGoesBack ==
  [][\A s \in Sources :
       /\ row[s].known => row'[s].known
       /\ row[s].generation <= row'[s].generation
       /\ row[s].revoked <= row'[s].revoked
       /\ row[s].known /\ row[s].generation = row'[s].generation
            => row'[s].read = row[s].read
       /\ stored[s].id <= stored'[s].id
       /\ stored[s].revoked <= stored'[s].revoked
       /\ stored[s].withdrawn <= stored'[s].withdrawn]_vars

\* How far OptOutTakesEffect is missed: a credential leaves under the consent
\* that stands, or under the one its own cycle began with.  The next cycle
\* begins with the consent that stands then.
LeavesUnderConsent ==
  [][\A p \in pushes' \ pushes : p.source \in Consented =>
       [read |-> TRUE, generation |-> p.generation]
         \in {consent[p.source], snap[p.source]}]_vars

\* The first report of an opt-out that the server processes withdraws the
\* source, whatever reports, credentials and commands it has seen before: what
\* OptOutArrives needs besides is one synchronisation that gets through.
OneReportWithdraws ==
  [][\A s \in Consented :
       /\ ~ consent[s].read
       /\ \/ Answer /\ snap[s] = consent[s]
          \/ \E r \in late : SynchroniseLate(r) /\ r.reports[s] = consent[s]
       => row'[s].revoked >= consent[s].generation /\ held'[s] = None]_vars

\* Every command is acknowledged in the end, through lost answers, failed
\* saves and restarts.
CommandsAnswered ==
  \A n \in 1 .. MaxCommands :
    LET Waiting == \E c \in commands : c.id = n /\ c.answer = "pending"
    IN Waiting ~> ~ Waiting

\* A source that is turned off is withdrawn at the server in the end, unless
\* the user changes it again.
OptOutArrives ==
  \A s \in Consented, g \in Generations :
    (consent[s] = [read |-> FALSE, generation |-> g])
      ~> (row[s].revoked >= g \/ consent[s].generation > g)

\* A credential leaves only under the consent that stands (filter_egress():
\* "Recheck local consent and negotiated withdrawal support immediately at
\* egress").  The code does not keep it: a cycle configures the policy with
\* the configuration it was started with.
OptOutTakesEffect ==
  [][\A p \in pushes' \ pushes : p.source \in Consented =>
       consent[p.source] = [read |-> TRUE, generation |-> p.generation]]_vars

\* A request for setup is a notice and nothing else (docs/api-reference.md:
\* "Setup requests create a local notice only"), so a resume the sidecar
\* applied ends the pause when only notices followed it.  The code does not
\* keep it: any newer command of the source cancels a resume.
NoticesAreInert ==
  [][\A c \in commands, d \in commands' :
       (/\ c.action = "resume" /\ c.answer = "pending"
        /\ d.id = c.id /\ d.answer = "applied"
        /\ row'[c.source].read /\ row'[c.source].generation = c.generation
        /\ c.generation > row'[c.source].revoked
        /\ \A e \in commands :
             e.source = c.source /\ e.id > c.id => e.action = "notice")
       => ~ row'[c.source].paused]_vars

=============================================================================
