------------------------------ MODULE Heartbeat ------------------------------
(***************************************************************************)
(* What the server tells one sidecar and what becomes of it: the providers *)
(* due for collection, "collect now" triggers, the one-shot update push,   *)
(* and the settings, all carried by the answers to the sidecar's POSTs.    *)
(*                                                                         *)
(* Code: app/services/fleet_registry.py, the end of                        *)
(* app/api/endpoints/fleet_ingest.py, app/api/endpoints/fleet_sidecars.py, *)
(* and scripts/sidecar.py (DaemonRunner, http_post_signed_with_retry,      *)
(* queue_flush).                                                           *)
(*                                                                         *)
(* Time is not counted: a provider becomes due when its interval has       *)
(* passed, whenever that is.  Providers are those the server schedules; a  *)
(* full collection is one of all of them.  The settings of a sidecar (log  *)
(* level, login directories, keep-alive, update channel) are one numbered  *)
(* snapshot, 0 being the defaults.                                         *)
(***************************************************************************)
EXTENDS Naturals, FiniteSets

CONSTANTS
    Providers,    \* providers with an interval
    MaxAttempts,  \* POSTs of one payload before the sidecar gives up
    MaxBatches,   \* payloads one collection may need
    QueueLimit,   \* payloads the offline queue has room for
    MaxOrders,    \* bound: what operators do
    MaxFaults     \* bound: failed attempts, batches not stored, restarts

ASSUME HeartbeatAssumption ==
    /\ MaxAttempts \in Nat \ {0} /\ MaxBatches \in Nat \ {0}
    /\ QueueLimit \in Nat /\ MaxOrders \in Nat /\ MaxFaults \in Nat

VARIABLES
    row,        \* the sidecar's row in the registry
    trigger,    \* _pending_triggers holds the sidecar; in memory
    due,        \* providers whose interval has passed; in memory
    call,       \* the POST the sidecar waits for
    late,       \* POSTs it gave up that the server will still process
    phase,      \* whether a cycle runs
    plan,       \* _next_poll_providers, full collection being Providers
    collecting, \* the providers collected in this cycle
    toFlush,    \* queue entries still to be tried in this cycle
    toPush,     \* payloads of this cycle still to be sent; 0 after a failure
    failed,     \* one of them was given up
    heard,      \* instructions merged from the answers to this cycle's payloads
    attempts,   \* attempts left for the current POST
    queue,      \* the offline queue, on disk: how many payloads
    applied,    \* the settings in force, in memory
    pushes,     \* history: updates pushed by an operator
    installs,   \* history: updates the sidecar set out to install
    missed,     \* history: update pushes taken by an exchange nobody acts on
    owed,       \* history: providers asked for, or collected and not handed over
    budget      \* orders and faults left

server == <<row, trigger, due>>
wire == <<call, late>>
cycle == <<phase, plan, collecting, toFlush, toPush, failed, heard, attempts>>
updates == <<pushes, installs, missed>>
vars == <<server, wire, cycle, queue, applied, updates, owed, budget>>

Settings == 0..MaxOrders
NewRow == [known |-> FALSE, enabled |-> TRUE, update |-> FALSE, settings |-> 0]
Answers == [polls: SUBSET Providers, trigger: BOOLEAN, update: BOOLEAN, settings: Settings]
Silence == [polls |-> {}, trigger |-> FALSE, update |-> FALSE, settings |-> 0]
NoCall == [at |-> "none", answer |-> Silence]
NothingHeard == [some |-> FALSE, answer |-> Silence]

One(b) == IF b THEN 1 ELSE 0
CanFail == budget.faults > 0
Spend(what) == budget' = [budget EXCEPT ![what] = @ - 1]

-----------------------------------------------------------------------------
(* The server: orders of the operators.  A click needs the sidecar's row.  *)

Order(change) == row.known /\ budget.orders > 0 /\ Spend("orders") /\ change
KeepSidecar == UNCHANGED <<wire, cycle, queue, applied, installs, owed>>

(* POST /system/force-collect, for a sidecar that is not paused.           *)
ForceCollect ==
    /\ Order(row.enabled)
    /\ trigger' = TRUE
    /\ UNCHANGED <<row, due, pushes, missed>> /\ KeepSidecar

(* POST /fleet/sidecars/{id}/update.                                       *)
PushUpdate ==
    /\ Order(row' = [row EXCEPT !.update = TRUE])
    /\ pushes' = pushes + One(~row.update)
    /\ UNCHANGED <<trigger, due, missed>> /\ KeepSidecar

(* POST /fleet/sidecars/{id}/pause and /resume.                            *)
SetEnabled(enabled) ==
    /\ Order(row' = [row EXCEPT !.enabled = enabled])
    /\ UNCHANGED <<trigger, due, pushes, missed>> /\ KeepSidecar

(* PUT /fleet/sidecars/{id}/settings and /keep-alive.  New login           *)
(* directories ask for a collection, of a paused sidecar too.              *)
ChangeSettings(s, directories) ==
    /\ s # row.settings
    /\ Order(row' = [row EXCEPT !.settings = s])
    /\ trigger' = (trigger \/ directories)
    /\ UNCHANGED <<due, pushes, missed>> /\ KeepSidecar

(* DELETE /fleet/sidecars/{id}.  The trigger outlives the row.             *)
DeleteSidecar ==
    /\ Order(row' = NewRow)
    /\ missed' = missed + One(row.update)
    /\ UNCHANGED <<trigger, due, pushes>> /\ KeepSidecar

-----------------------------------------------------------------------------
(* The server: building an answer.                                         *)

(* An interval passes.                                                     *)
BecomeDue(p) ==
    /\ p \notin due
    /\ due' = due \cup {p}
    /\ UNCHANGED <<row, trigger, wire, cycle, queue, applied, updates, owed, budget>>

(* Mutant: the due providers are marked as polled before they are listed.  *)
AnswerAfterMarking ==
    [polls |-> IF row.enabled /\ trigger THEN Providers ELSE {},
     trigger |-> row.enabled /\ trigger,
     update |-> row.update,
     settings |-> row.settings]

(* _poll_instructions and consume_pending_update for a sidecar whose row   *)
(* exists by then: a paused one is told to poll nothing.                   *)
Answer ==
    [polls |-> IF ~row.enabled THEN {} ELSE IF trigger THEN Providers ELSE due,
     trigger |-> row.enabled /\ trigger,
     update |-> row.update,
     settings |-> row.settings]

(* Mutant: the push stays on the row until the sidecar reports in again.   *)
TakenAndKept ==
    /\ row' = [row EXCEPT !.known = TRUE]
    /\ trigger' = (trigger /\ ~row.enabled)
    /\ due' = IF row.enabled THEN {} ELSE due

(* What building the answer consumes: everything it carries, before anyone *)
(* knows whether the answer arrives.  A first POST registers the sidecar.  *)
Taken ==
    /\ row' = [row EXCEPT !.known = TRUE, !.update = FALSE]
    /\ trigger' = (trigger /\ ~row.enabled)
    /\ due' = IF row.enabled THEN {} ELSE due

Handle ==
    /\ call.at = "sent"
    /\ call' = [at |-> "answered", answer |-> Answer]
    /\ Taken
    /\ UNCHANGED <<late, cycle, queue, applied, updates, owed, budget>>

(* The server gets to a POST the sidecar gave up: the answer goes nowhere. *)
HandleLate ==
    /\ late > 0 /\ late' = late - 1
    /\ Taken
    /\ missed' = missed + One(row.update)
    /\ UNCHANGED <<call, cycle, queue, applied, pushes, installs, owed, budget>>

(* A restart of the server empties its memory: no trigger, all are due.    *)
RestartServer ==
    /\ CanFail /\ Spend("faults")
    /\ trigger' = FALSE /\ due' = Providers
    /\ UNCHANGED <<row, wire, cycle, queue, applied, updates, owed>>

-----------------------------------------------------------------------------
(* The sidecar: a cycle collects what it planned, replays the offline      *)
(* queue, and sends what it collected.                                     *)

StartCycle ==
    /\ phase = "idle" /\ phase' = "cycle"
    /\ collecting' = plan
    /\ owed' = owed \cup plan
    /\ toFlush' = queue
    /\ \E n \in 1..MaxBatches : (plan = {} => n = 1) /\ toPush' = n
    /\ UNCHANGED <<server, wire, plan, failed, heard, attempts, queue, applied, updates, budget>>

Post ==
    /\ phase = "cycle" /\ call = NoCall /\ toFlush + toPush > 0
    /\ call' = [NoCall EXCEPT !.at = "sent"]
    /\ UNCHANGED <<server, late, cycle, queue, applied, updates, owed, budget>>

(* The answer to a queued payload.  Its entry stays when the server could  *)
(* not store its events; nothing else of the answer is looked at.          *)
ReceiveFlushed(stored) ==
    /\ call.at = "answered" /\ call' = NoCall
    /\ toFlush > 0 /\ toFlush' = toFlush - 1
    /\ queue' = queue - One(stored)
    /\ IF stored THEN UNCHANGED budget ELSE CanFail /\ Spend("faults")
    /\ attempts' = MaxAttempts
    /\ missed' = missed + One(call.answer.update)
    /\ UNCHANGED <<server, late, phase, plan, collecting, toPush, failed, heard, applied,
                   pushes, installs, owed>>

(* Mutant: the last answer replaces what the earlier ones asked for.       *)
HeardLast(a, b) == b

(* What two answers to payloads of one cycle ask for together; settings    *)
(* are those of the later one.                                             *)
Merged(a, b) ==
    [polls |-> a.polls \cup b.polls, trigger |-> a.trigger \/ b.trigger,
     update |-> a.update \/ b.update, settings |-> b.settings]

(* The answer to a payload of this cycle.  The first payload carries the   *)
(* collected metrics.                                                      *)
ReceivePushed ==
    /\ call.at = "answered" /\ call' = NoCall
    /\ toFlush = 0 /\ toPush' = toPush - 1
    /\ attempts' = MaxAttempts
    /\ heard' = [some |-> TRUE, answer |-> Merged(heard.answer, call.answer)]
    /\ owed' = (IF heard.some THEN owed ELSE owed \ collecting) \cup call.answer.polls
    /\ missed' = missed + One(heard.answer.update /\ call.answer.update)
    /\ UNCHANGED <<server, late, phase, plan, collecting, toFlush, failed, queue, applied,
                   pushes, installs, budget>>

-----------------------------------------------------------------------------
(* Failures of an attempt.                                                 *)

(* Another attempt follows, or the payload is given up: a queue entry      *)
(* stays where it is, and a payload of this cycle ends the cycle.          *)
AfterFailure ==
    /\ CanFail /\ Spend("faults")
    /\ \/ /\ attempts > 1 /\ attempts' = attempts - 1
          /\ UNCHANGED <<toFlush, toPush, failed>>
       \/ /\ attempts' = MaxAttempts
          /\ IF toFlush > 0
             THEN toFlush' = toFlush - 1 /\ UNCHANGED <<toPush, failed>>
             ELSE toPush' = 0 /\ failed' = TRUE /\ UNCHANGED toFlush
    /\ call' = NoCall
    /\ UNCHANGED <<server, phase, plan, collecting, heard, queue, applied, pushes, installs, owed>>

(* The request does not arrive, or is refused before it has any effect.    *)
LoseRequest ==
    /\ call.at = "sent"
    /\ AfterFailure
    /\ UNCHANGED <<late, missed>>

(* The sidecar's timeout is shorter than the server's work.                *)
TimeOut ==
    /\ call.at = "sent"
    /\ AfterFailure
    /\ late' = late + 1
    /\ UNCHANGED missed

LoseAnswer ==
    /\ call.at = "answered"
    /\ AfterFailure
    /\ missed' = missed + One(call.answer.update)
    /\ UNCHANGED late

-----------------------------------------------------------------------------
(* The sidecar: the end of a cycle.                                        *)

(* Mutant: instructions are followed only when every payload arrived.      *)
FollowedOnSuccess(installed) ==
    LET obeyed == heard.some /\ ~failed IN
    /\ installs' = installs + One(obeyed /\ heard.answer.update)
    /\ applied' = IF installed THEN 0 ELSE IF obeyed THEN heard.answer.settings ELSE applied
    /\ plan' = IF installed \/ heard.answer.trigger THEN Providers
               ELSE IF obeyed THEN heard.answer.polls ELSE plan

(* Mutant: a cycle that failed leaves nothing to poll behind.              *)
FollowedOrIdle(installed) ==
    /\ installs' = installs + One(heard.answer.update)
    /\ applied' = IF installed THEN 0 ELSE IF heard.some THEN heard.answer.settings ELSE applied
    /\ plan' = IF installed \/ heard.answer.trigger THEN Providers ELSE heard.answer.polls

(* Mutant: settings are left alone while there is something to poll.       *)
FollowedPollsOnly(installed) ==
    /\ installs' = installs + One(heard.answer.update)
    /\ applied' = IF installed THEN 0
                  ELSE IF heard.some /\ heard.answer.polls = {} THEN heard.answer.settings
                  ELSE applied
    /\ plan' = IF installed \/ heard.answer.trigger THEN Providers
               ELSE IF heard.some THEN heard.answer.polls ELSE plan

(* _apply_ingest_instructions.  An installed update restarts the process,  *)
(* which begins with the default settings and a full collection.           *)
Followed(installed) ==
    /\ installs' = installs + One(heard.answer.update)
    /\ applied' = IF installed THEN 0 ELSE IF heard.some THEN heard.answer.settings ELSE applied
    /\ plan' = IF installed \/ heard.answer.trigger THEN Providers
               ELSE IF heard.some THEN heard.answer.polls ELSE plan

(* A failed payload with usage in it is queued if there is room, before    *)
(* the instructions are followed.                                          *)
FinishCycle(queued, installed) ==
    /\ phase = "cycle" /\ phase' = "idle"
    /\ call = NoCall /\ toFlush + toPush = 0
    /\ queued => failed /\ collecting # {} /\ queue < QueueLimit
    /\ installed => heard.answer.update
    /\ queue' = queue + One(queued)
    /\ owed' = IF queued /\ ~heard.some THEN owed \ collecting ELSE owed
    /\ Followed(installed)
    /\ collecting' = {} /\ failed' = FALSE /\ heard' = NothingHeard
    /\ UNCHANGED <<server, wire, toFlush, toPush, attempts, pushes, missed, budget>>

(* The sidecar stops at any point and is started again.  Instructions it   *)
(* had heard are gone with it; a request on its way may still arrive.      *)
RestartSidecar ==
    /\ CanFail /\ Spend("faults")
    /\ phase' = "idle" /\ plan' = Providers /\ collecting' = {} /\ applied' = 0
    /\ toFlush' = 0 /\ toPush' = 0 /\ failed' = FALSE
    /\ heard' = NothingHeard /\ attempts' = MaxAttempts
    /\ call' = NoCall
    /\ late' \in IF call.at = "sent" THEN {late, late + 1} ELSE {late}
    /\ missed' = missed + One(heard.answer.update) + One(call.answer.update)
    /\ UNCHANGED <<server, queue, pushes, installs, owed>>

-----------------------------------------------------------------------------

Init ==
    /\ row = NewRow /\ trigger = FALSE /\ due = Providers
    /\ call = NoCall /\ late = 0
    /\ phase = "idle" /\ plan = Providers /\ collecting = {}
    /\ toFlush = 0 /\ toPush = 0 /\ failed = FALSE
    /\ heard = NothingHeard /\ attempts = MaxAttempts
    /\ queue = 0 /\ applied = 0
    /\ pushes = 0 /\ installs = 0 /\ missed = 0 /\ owed = {}
    /\ budget = [orders |-> MaxOrders, faults |-> MaxFaults]

Operate ==
    \/ ForceCollect \/ PushUpdate \/ DeleteSidecar
    \/ \E enabled \in BOOLEAN : SetEnabled(enabled)
    \/ \E s \in Settings, directories \in BOOLEAN : ChangeSettings(s, directories)
Fail ==
    \/ LoseRequest \/ TimeOut \/ LoseAnswer \/ ReceiveFlushed(FALSE)
    \/ RestartSidecar \/ RestartServer
Finish == \E queued, installed \in BOOLEAN : FinishCycle(queued, installed)

Next ==
    \/ Operate \/ Fail
    \/ \E p \in Providers : BecomeDue(p)
    \/ Handle \/ HandleLate
    \/ StartCycle \/ Post \/ ReceiveFlushed(TRUE) \/ ReceivePushed \/ Finish

Spec == Init /\ [][Next]_vars

(* The daemon's loop does not stop, the server answers what reaches it,    *)
(* and intervals pass.                                                     *)
Fairness ==
    /\ WF_vars(StartCycle) /\ WF_vars(Post) /\ WF_vars(Handle)
    /\ WF_vars(ReceiveFlushed(TRUE)) /\ WF_vars(ReceivePushed) /\ WF_vars(Finish)
    /\ \A p \in Providers : WF_vars(BecomeDue(p))

FairSpec == Spec /\ Fairness

-----------------------------------------------------------------------------
(* The variables hold values of these types.                               *)
TypeOK ==
    /\ row \in [known: BOOLEAN, enabled: BOOLEAN, update: BOOLEAN, settings: Settings]
    /\ trigger \in BOOLEAN /\ due \subseteq Providers
    /\ call \in [at: {"none", "sent", "answered"}, answer: Answers] /\ late \in Nat
    /\ phase \in {"idle", "cycle"} /\ plan \subseteq Providers /\ collecting \subseteq Providers
    /\ toFlush \in Nat /\ toPush \in 0..MaxBatches /\ failed \in BOOLEAN
    /\ heard \in [some: BOOLEAN, answer: Answers] /\ attempts \in 1..MaxAttempts
    /\ queue \in 0..QueueLimit /\ applied \in Settings
    /\ pushes \in Nat /\ installs \in Nat /\ missed \in Nat /\ owed \subseteq Providers
    /\ budget \in [orders: Nat, faults: Nat]

(* A pushed update is on the row, on its way, about to be installed, was   *)
(* set out on, or was missed because its answer was lost, given up, merged *)
(* with another or read by the replay of the queue.  It is neither         *)
(* installed twice nor dropped by a cycle that fails after hearing of it.  *)
UpdatesAccounted ==
    pushes = One(row.update) + One(call.answer.update) + One(heard.answer.update)
             + installs + missed

(* What an answer asked for, and what was collected without reaching the   *)
(* server or the queue, is collected by the next cycle: no failure in      *)
(* between and no other payload's answer takes it off the plan.            *)
OwedIsPlanned ==
    owed \subseteq IF heard.some THEN heard.answer.polls ELSE plan

(* Every provider is collected again and again unless the sidecar is       *)
(* paused, although its turn is used up when the answer is built.          *)
ProvidersCollected ==
    \A p \in Providers : []<>(p \in collecting \/ ~row.enabled)

(* The settings last chosen come into force and stay in force, through     *)
(* restarts of the sidecar, which keeps none of them, and for a paused or  *)
(* deleted sidecar too.                                                    *)
SettingsArrive == <>[](applied = row.settings)

(* The settings on the row are in force, and nothing that is on its way to *)
(* the sidecar, or was heard by it, carries others.                        *)
InForce ==
    /\ applied = row.settings
    /\ heard.some => heard.answer.settings = row.settings
    /\ call.at = "answered" => call.answer.settings = row.settings

(* Once in force, settings stay so until an operator chooses others or the *)
(* sidecar starts anew: no late, lost, repeated or queued exchange, no     *)
(* merge of answers and no cycle that fails brings older ones back.        *)
SettingsStayInForce ==
    [][InForce /\ row'.settings = row.settings =>
         \/ InForce'
         \/ RestartSidecar \/ \E queued \in BOOLEAN : FinishCycle(queued, TRUE)]_vars

(* models/db_sidecar.py: the update push "is reliably delivered on the     *)
(* sidecar's next successful ingest": an answer that arrives with it is    *)
(* acted on.                                                               *)
PushIsHeard ==
    [][call.at = "answered" /\ call' = NoCall /\ budget' = budget /\ call.answer.update
         => heard'.answer.update]_vars
=============================================================================
