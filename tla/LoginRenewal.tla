---------------------------- MODULE LoginRenewal ----------------------------
(***************************************************************************)
(* How the sidecar keeps the logins of command line tools alive.  A login  *)
(* is a refresh token in the tool's own store; an exchange at the          *)
(* provider's endpoint spends it and issues its successor, which has to    *)
(* reach the store before the login is usable again.                       *)
(*                                                                         *)
(* Code: scripts/sidecar_pkg/anthropic_renewer.py (Files; codex_renewer.py *)
(* is the same program), claude_keychain_renewer.py (Keychains), the store *)
(* of its recovery records in macos_keychain_store.py, and the thread and  *)
(* its controller in keep_alive.py.                                        *)
(*                                                                         *)
(* A file's renewer keeps an answer it could not save in memory; the       *)
(* Keychain's writes an intent before it asks, and its answer before it    *)
(* replaces the login, so that it can go on after a restart.               *)
(***************************************************************************)
EXTENDS Integers

CONSTANTS
    Files,        \* logins kept in a credentials file
    Keychains,    \* logins kept in the Keychain
    NoTask,
    MaxTokens,    \* bound: refresh tokens issued
    MaxFaults     \* bound: lost requests, failed writes, deaths, revocations

Logins == Files \cup Keychains

ASSUME RenewalAssumption ==
    /\ Files \cap Keychains = {}
    /\ MaxTokens \in Nat \ {0}
    /\ MaxFaults \in Nat

None == 0
Tokens == 1..MaxTokens
NoRecord == [phase |-> "none", token |-> None]
Record == {NoRecord} \cup [phase: {"intent", "pending", "rejected"}, token: Tokens]
FileSteps == {"ask", "write", "replace"}
KeychainSteps == {"recheck", "ask", "refused", "journal", "compare", "update", "verify", "clear"}
Task == [login: Logins, step: FileSteps \cup KeychainSteps, token: Tokens, owner: {"this", "old"}]

ASSUME NoTaskAssumption == NoTask \notin Task

VARIABLES
    store,      \* the refresh token in each tool's store
    lapsed,     \* logins whose access token is about to lapse
    recent,     \* files written a moment ago
    issued,     \* the endpoints: tokens issued so far, numbered in this order
    successor,  \* the endpoints: what each token was exchanged for, or None
    revoked,    \* the endpoints: tokens they refuse though nobody exchanged them
    tool,       \* the token the tool itself has exchanged and not yet replaced, or None
    rejected,   \* _rejected: the token whose refusal is remembered, or None
    memory,     \* _unsaved and _pending: the token whose answer is not saved yet, or None
    journal,    \* the recovery record of a Keychain login, on disk
    access,     \* "open", or "blocked" since the Keychain was denied
    task,       \* the renewal under way; its owner is this thread or one that was stopped
    raced,      \* the store changed since that renewal compared it
    lost,       \* exchanged tokens whose answer nobody holds any more
    used,       \* tokens the renewer has no reason to send again
    faults      \* how often something failed or ended

endpoint == <<issued, successor, revoked>>
disk == <<store, lapsed, recent>>
renewer == <<rejected, memory, journal, access, task, raced>>
vars == <<disk, endpoint, tool, renewer, lost, used, faults>>

Fault == faults < MaxFaults /\ faults' = faults + 1

-----------------------------------------------------------------------------
(* The endpoint                                                            *)

Usable(l, t) == successor[l][t] = None /\ t \notin revoked[l]
CanIssue == issued < MaxTokens
Exchanged(l, t) == [successor EXCEPT ![l][t] = issued + 1]

(* The provider ends a login.                                              *)
Revoke(l) ==
    /\ Usable(l, store[l])
    /\ revoked' = [revoked EXCEPT ![l] = @ \cup {store[l]}]
    /\ Fault
    /\ UNCHANGED <<disk, issued, successor, tool, renewer, lost, used>>

-----------------------------------------------------------------------------
(* The stores, the tools that own them and the user                        *)

(* What a write of token t leaves in a store.                              *)
Saved(l, t) ==
    /\ store' = [store EXCEPT ![l] = t]
    /\ lapsed' = lapsed \ {l}
    /\ recent' = recent \cup ({l} \cap Files)

(* Somebody else than the renewer writes a store.                          *)
Overtakes(l) ==
    raced' = IF task # NoTask /\ task.login = l /\ task.step \in {"replace", "update"}
             THEN "raced" ELSE raced

Lapse(l) ==
    /\ l \notin lapsed
    /\ lapsed' = lapsed \cup {l}
    /\ UNCHANGED <<store, recent, endpoint, tool, renewer, lost, used, faults>>

(* RECENT_WRITE_SECONDS pass.                                              *)
Age(l) ==
    /\ l \in recent
    /\ recent' = recent \ {l}
    /\ UNCHANGED <<store, lapsed, endpoint, tool, renewer, lost, used, faults>>

(* The user logs in again.                                                 *)
LogIn(l) ==
    /\ CanIssue
    /\ issued' = issued + 1
    /\ Saved(l, issued + 1)
    /\ Overtakes(l)
    /\ UNCHANGED <<successor, revoked, tool, rejected, memory, journal, access, task, lost, used,
                   faults>>

(* The tool renews its login, as Claude Code does when it runs: exchange,  *)
(* then a write that does not clobber a login it did not read.             *)
ToolExchanges(l) ==
    /\ tool[l] = None
    /\ Usable(l, store[l])
    /\ CanIssue
    /\ successor' = Exchanged(l, store[l])
    /\ issued' = issued + 1
    /\ tool' = [tool EXCEPT ![l] = store[l]]
    /\ UNCHANGED <<disk, revoked, renewer, lost, used, faults>>

ToolWrites(l) ==
    /\ tool[l] # None
    /\ \/ store[l] = tool[l] /\ Saved(l, successor[l][tool[l]]) /\ Overtakes(l)
       \/ store[l] # tool[l] /\ UNCHANGED <<disk, raced>>
    /\ tool' = [tool EXCEPT ![l] = None]
    /\ UNCHANGED <<endpoint, rejected, memory, journal, access, task, lost, used, faults>>

(* The tool dies between the two.                                          *)
ToolDies(l) ==
    /\ tool[l] # None
    /\ tool' = [tool EXCEPT ![l] = None]
    /\ lost' = lost \cup {<<l, tool[l]>>}
    /\ Fault
    /\ UNCHANGED <<disk, endpoint, renewer, used>>

-----------------------------------------------------------------------------
(* A renewal: what is common to both kinds of store                        *)

At(step) == task # NoTask /\ task.step = step
Current == task.owner = "this"
Begin(l, step, t) == task' = [login |-> l, step |-> step, token |-> t, owner |-> "this"]
GoTo(step) == task' = [task EXCEPT !.step = step]

(* What the renewer notes in its memory, unless it was replaced meanwhile. *)
Note(notes, l, t) == IF Current THEN [notes EXCEPT ![l] = t] ELSE notes

(* request_refresh.  The request is answered, or its answer is lost, or it *)
(* comes to nothing (as all do when MaxTokens are issued), or it is        *)
(* refused.  After a refusal a file is read again: a login that has        *)
(* changed was renewed by the tool.                                        *)
Answered ==
    /\ At("ask")
    /\ LET l == task.login
           t == task.token
       IN  /\ Usable(l, t)
           /\ CanIssue
           /\ successor' = Exchanged(l, t)
           /\ issued' = issued + 1
           /\ GoTo(IF l \in Files THEN "write" ELSE "journal")
           /\ memory' = IF l \in Keychains THEN Note(memory, l, t) ELSE memory
           /\ used' = IF l \in Keychains \/ Current
                      THEN [used EXCEPT ![l] = @ \cup {t}] ELSE used
    /\ UNCHANGED <<disk, revoked, tool, rejected, journal, access, raced, lost, faults>>

AnswerLost ==
    /\ At("ask")
    /\ LET l == task.login
           t == task.token
       IN  /\ Usable(l, t)
           /\ CanIssue
           /\ successor' = Exchanged(l, t)
           /\ issued' = issued + 1
           /\ lost' = lost \cup {<<l, t>>}
           /\ used' = IF l \in Keychains THEN [used EXCEPT ![l] = @ \cup {t}] ELSE used
    /\ task' = NoTask
    /\ Fault
    /\ UNCHANGED <<disk, revoked, tool, rejected, memory, journal, access, raced>>

Unreached ==
    /\ At("ask")
    /\ used' = IF task.login \in Keychains
               THEN [used EXCEPT ![task.login] = @ \cup {task.token}] ELSE used
    /\ task' = NoTask
    /\ \/ CanIssue /\ Fault
       \/ ~CanIssue /\ UNCHANGED faults
    /\ UNCHANGED <<disk, endpoint, tool, rejected, memory, journal, access, raced, lost>>

Refused ==
    /\ At("ask")
    /\ LET l == task.login
           t == task.token
       IN  /\ ~Usable(l, t)
           /\ \/ /\ l \in Files
                 /\ rejected' = IF store[l] = t THEN Note(rejected, l, t) ELSE rejected
                 /\ task' = NoTask
              \/ /\ l \in Keychains
                 /\ GoTo("refused")
                 /\ UNCHANGED rejected
           /\ used' = IF l \in Keychains \/ Current
                      THEN [used EXCEPT ![l] = @ \cup {t}] ELSE used
    /\ UNCHANGED <<disk, endpoint, tool, memory, journal, access, raced, lost, faults>>

-----------------------------------------------------------------------------
(* A login in a file                                                       *)

(* Mutant: any refusal stops the renewal of a login, a new login or not.   *)
DueOncePerRefusal(l) ==
    l \in lapsed /\ l \notin recent /\ rejected[l] = None

(* _due_logins                                                             *)
Due(l) == l \in lapsed /\ l \notin recent /\ rejected[l] # store[l]

(* A due login whose answer is still to be saved is saved; any other is    *)
(* asked for, and an answer to an older token is dropped.                  *)
RenewFile(l) ==
    /\ task = NoTask
    /\ Due(l)
    /\ IF memory[l] = store[l]
       THEN /\ Begin(l, "write", store[l])
            /\ UNCHANGED memory
       ELSE /\ Begin(l, "ask", store[l])
            /\ memory' = [memory EXCEPT ![l] = None]
    /\ UNCHANGED <<disk, endpoint, tool, rejected, journal, access, raced, lost, used, faults>>

(* Mutant: write_back does not look at what it replaces.                   *)
WriteOverAnything ==
    /\ At("write")
    /\ GoTo("replace")
    /\ raced' = "clear"
    /\ UNCHANGED <<disk, endpoint, tool, rejected, memory, journal, access, lost, used, faults>>

(* write_back: the file is read again ...                                  *)
WriteBack ==
    /\ At("write")
    /\ \/ /\ store[task.login] = task.token
          /\ GoTo("replace")
          /\ raced' = "clear"
          /\ UNCHANGED memory
       \/ /\ store[task.login] # task.token
          /\ memory' = Note(memory, task.login, None)
          /\ task' = NoTask
          /\ UNCHANGED raced
    /\ UNCHANGED <<disk, endpoint, tool, rejected, journal, access, lost, used, faults>>

(* ... and replaced.                                                       *)
Replace ==
    /\ At("replace")
    /\ Saved(task.login, successor[task.login][task.token])
    /\ memory' = Note(memory, task.login, None)
    /\ task' = NoTask
    /\ UNCHANGED <<endpoint, tool, rejected, journal, access, raced, lost, used, faults>>

(* Mutant: an answer that could not be saved is not kept.                  *)
SaveFailsForgets ==
    /\ At("write") \/ At("replace")
    /\ task' = NoTask
    /\ Fault
    /\ UNCHANGED <<disk, endpoint, tool, rejected, memory, journal, access, raced, lost, used>>

(* The file cannot be read or replaced: "failed".  A renewer whose thread  *)
(* was stopped takes the answer with it.                                   *)
SaveFails ==
    /\ At("write") \/ At("replace")
    /\ memory' = Note(memory, task.login, task.token)
    /\ lost' = IF Current THEN lost ELSE lost \cup {<<task.login, task.token>>}
    /\ task' = NoTask
    /\ Fault
    /\ UNCHANGED <<disk, endpoint, tool, rejected, journal, access, raced, used>>

-----------------------------------------------------------------------------
(* A login in the Keychain                                                 *)

Write(phase, l, t) == journal' = [journal EXCEPT ![l] = [phase |-> phase, token |-> t]]
Erase(l) == journal' = [journal EXCEPT ![l] = NoRecord]

(* The record _renew_item starts from.                                     *)
Recorded(l) ==
    IF memory[l] # None THEN [phase |-> "pending", token |-> memory[l]] ELSE journal[l]

(* due() and find(): one renewal at a time, and none once access was       *)
(* denied.                                                                 *)
Free == task = NoTask /\ access = "open"

(* Mutant: a login that is not due is not looked at.                       *)
RecoverWhenDue(l) ==
    /\ Free
    /\ l \in lapsed
    /\ Recorded(l).phase = "pending"
    /\ Begin(l, "journal", Recorded(l).token)
    /\ UNCHANGED <<disk, endpoint, tool, rejected, memory, journal, access, raced, lost, used,
                   faults>>

(* An answer that is not in the Keychain yet is saved, due or not.         *)
Recover(l) ==
    /\ Free
    /\ Recorded(l).phase = "pending"
    /\ Begin(l, "journal", Recorded(l).token)
    /\ UNCHANGED <<disk, endpoint, tool, rejected, memory, journal, access, raced, lost, used,
                   faults>>

(* An intent or a refusal holds until the login changes.                   *)
Supersede(l) ==
    /\ Free
    /\ Recorded(l).phase \in {"intent", "rejected"}
    /\ Recorded(l).token # store[l]
    /\ Erase(l)
    /\ UNCHANGED <<disk, endpoint, tool, rejected, memory, access, task, raced, lost, used,
                   faults>>

(* Mutant: an intent left by an exchange cut short does not stand in the way. *)
IntendOverIntent(l) ==
    /\ Free
    /\ Recorded(l).phase \in {"none", "intent"}
    /\ l \in lapsed
    /\ Write("intent", l, store[l])
    /\ Begin(l, "recheck", store[l])
    /\ UNCHANGED <<disk, endpoint, tool, rejected, memory, access, raced, lost, used, faults>>

(* A due login: the intent is written before the token is spent.           *)
Intend(l) ==
    /\ Free
    /\ Recorded(l).phase = "none"
    /\ l \in lapsed
    /\ Write("intent", l, store[l])
    /\ Begin(l, "recheck", store[l])
    /\ UNCHANGED <<disk, endpoint, tool, rejected, memory, access, raced, lost, used, faults>>

(* The login is read again; an intent that will not be spent is erased,    *)
(* because the login changed or may not be updated.                        *)
Recheck ==
    /\ At("recheck")
    /\ \/ /\ store[task.login] = task.token
          /\ GoTo("ask")
          /\ UNCHANGED <<journal, faults>>
       \/ /\ store[task.login] # task.token
          /\ Erase(task.login)
          /\ task' = NoTask
          /\ UNCHANGED faults
       \/ /\ Erase(task.login)
          /\ task' = NoTask
          /\ Fault
    /\ UNCHANGED <<disk, endpoint, tool, rejected, memory, access, raced, lost, used>>

SaveRefusal ==
    /\ At("refused")
    /\ Write("rejected", task.login, task.token)
    /\ task' = NoTask
    /\ UNCHANGED <<disk, endpoint, tool, rejected, memory, access, raced, lost, used, faults>>

(* _finish: the answer is saved first, whatever became of the login ...    *)
SaveAnswer ==
    /\ At("journal")
    /\ Write("pending", task.login, task.token)
    /\ GoTo("compare")
    /\ UNCHANGED <<disk, endpoint, tool, rejected, memory, access, raced, lost, used, faults>>

(* Mutant: the login is replaced whatever it is by now.                    *)
CompareNothing ==
    /\ At("compare")
    /\ GoTo("update")
    /\ raced' = "clear"
    /\ UNCHANGED <<disk, endpoint, tool, rejected, memory, journal, access, lost, used, faults>>

(* ... the login is read again, and left alone if it is not the one spent, *)
(* be it because the answer is in place already or because another is ...  *)
Compare ==
    /\ At("compare")
    /\ \/ /\ store[task.login] = task.token
          /\ GoTo("update")
          /\ raced' = "clear"
       \/ /\ store[task.login] # task.token
          /\ GoTo("clear")
          /\ UNCHANGED raced
    /\ UNCHANGED <<disk, endpoint, tool, rejected, memory, journal, access, lost, used, faults>>

(* ... replaced ...                                                        *)
Update ==
    /\ At("update")
    /\ Saved(task.login, successor[task.login][task.token])
    /\ GoTo("verify")
    /\ UNCHANGED <<endpoint, tool, rejected, memory, journal, access, raced, lost, used, faults>>

(* ... and read once more; only then is the answer forgotten.              *)
Verify ==
    /\ At("verify")
    /\ \/ store[task.login] = successor[task.login][task.token] /\ GoTo("clear")
       \/ store[task.login] # successor[task.login][task.token] /\ task' = NoTask
    /\ UNCHANGED <<disk, endpoint, tool, rejected, memory, journal, access, raced, lost, used,
                   faults>>

(* _clear                                                                  *)
Clear ==
    /\ At("clear")
    /\ Erase(task.login)
    /\ memory' = Note(memory, task.login, None)
    /\ task' = NoTask
    /\ UNCHANGED <<disk, endpoint, tool, rejected, access, raced, lost, used, faults>>

(* The record may be gone while its deletion is reported failed; the       *)
(* memory then keeps its copy.                                             *)
ClearFails ==
    /\ At("clear")
    /\ Erase(task.login)
    /\ task' = NoTask
    /\ Fault
    /\ UNCHANGED <<disk, endpoint, tool, rejected, memory, access, raced, lost, used>>

(* A Keychain operation raises, at worst for want of permission.           *)
Abandon ==
    /\ task # NoTask
    /\ task.login \in Keychains
    /\ task.step # "ask"
    /\ access' \in {access, "blocked"}
    /\ task' = NoTask
    /\ lost' = IF task.step = "journal" /\ ~Current
                    /\ journal[task.login] # [phase |-> "pending", token |-> task.token]
               THEN lost \cup {<<task.login, task.token>>} ELSE lost
    /\ Fault
    /\ UNCHANGED <<disk, endpoint, tool, rejected, memory, journal, raced, used>>

-----------------------------------------------------------------------------
(* Restarts                                                                *)

NoNotes == [l \in Logins |-> None]

(* The answers that are in memory only.                                    *)
Unsaved ==
    {<<l, memory[l]>> : l \in {x \in Logins :
        /\ memory[x] # None
        /\ journal[x] # [phase |-> "pending", token |-> memory[x]]}}

(* Those the renewal under way holds besides.                              *)
InHand ==
    IF /\ task # NoTask
       /\ task.step \in {"write", "replace", "journal"}
       /\ journal[task.login] # [phase |-> "pending", token |-> task.token]
    THEN {<<task.login, task.token>>} ELSE {}

(* What a renewer that begins anew has forgotten: of files, everything.    *)
Remembered == [l \in Logins |-> IF l \in Files THEN {} ELSE used[l]]

(* The sidecar's process ends and starts again.                            *)
Restart ==
    /\ Fault
    /\ lost' = lost \cup Unsaved \cup InHand
    /\ memory' = NoNotes
    /\ rejected' = NoNotes
    /\ used' = Remembered
    /\ access' = "open"
    /\ task' = NoTask
    /\ UNCHANGED <<disk, endpoint, tool, journal, raced>>

(* KeepAliveController._reconcile: keep-alive is switched off and on again *)
(* (from the dashboard).  The thread that is stopped finishes its renewal, *)
(* the new one waits for it and starts with nothing in memory.             *)
SwitchOffAndOn ==
    /\ Fault
    /\ lost' = lost \cup (Unsaved \ InHand)
    /\ memory' = NoNotes
    /\ rejected' = NoNotes
    /\ used' = Remembered
    /\ task' = IF task = NoTask THEN NoTask ELSE [task EXCEPT !.owner = "old"]
    /\ UNCHANGED <<disk, endpoint, tool, journal, access, raced>>

-----------------------------------------------------------------------------

Init ==
    /\ store = [l \in Logins |-> 1]
    /\ lapsed = {} /\ recent = {}
    /\ issued = 1
    /\ successor = [l \in Logins |-> [t \in Tokens |-> None]]
    /\ revoked = [l \in Logins |-> {}]
    /\ tool = [l \in Logins |-> None]
    /\ rejected = NoNotes /\ memory = NoNotes
    /\ journal = [l \in Logins |-> NoRecord]
    /\ access = "open" /\ task = NoTask /\ raced = "clear"
    /\ lost = {} /\ used = [l \in Logins |-> {}] /\ faults = 0

Outside(l) ==
    \/ Revoke(l) \/ Lapse(l) \/ Age(l) \/ LogIn(l)
    \/ ToolExchanges(l) \/ ToolWrites(l) \/ ToolDies(l)

Exchange == Answered \/ AnswerLost \/ Unreached \/ Refused

FileStep == (\E l \in Files : RenewFile(l)) \/ WriteBack \/ Replace \/ SaveFails

KeychainStep ==
    \/ \E l \in Keychains : Recover(l) \/ Supersede(l) \/ Intend(l)
    \/ Recheck \/ SaveRefusal \/ SaveAnswer \/ Compare \/ Update \/ Verify \/ Clear \/ ClearFails \/ Abandon

Next ==
    \/ \E l \in Logins : Outside(l)
    \/ Exchange \/ FileStep \/ KeychainStep
    \/ Restart \/ SwitchOffAndOn

Spec == Init /\ [][Next]_vars

(* The daemon's thread ticks: a renewal under way ends, a file that is due *)
(* is renewed, a Keychain login is looked at.  That is all that is fair:   *)
(* requests that are never answered and writes that always fail are ruled  *)
(* out by MaxFaults, and no tool has to run.                               *)
TaskStep ==
    \/ Exchange
    \/ WriteBack \/ Replace \/ SaveFails
    \/ Recheck \/ SaveRefusal \/ SaveAnswer \/ Compare \/ Update \/ Verify \/ Clear
    \/ ClearFails \/ Abandon

Fairness ==
    /\ WF_vars(TaskStep)
    /\ \A l \in Files : WF_vars(Age(l)) /\ SF_vars(RenewFile(l))
    /\ \A l \in Keychains : SF_vars(Recover(l) \/ Supersede(l) \/ Intend(l))

FairSpec == Spec /\ Fairness

-----------------------------------------------------------------------------
(* Properties                                                              *)

(* Every variable has its type.                                            *)
TypeOK ==
    /\ store \in [Logins -> Tokens]
    /\ lapsed \subseteq Logins /\ recent \subseteq Files
    /\ issued \in Tokens
    /\ successor \in [Logins -> [Tokens -> Tokens \cup {None}]]
    /\ revoked \in [Logins -> SUBSET Tokens]
    /\ tool \in [Logins -> Tokens \cup {None}]
    /\ rejected \in [Logins -> Tokens \cup {None}]
    /\ memory \in [Logins -> Tokens \cup {None}]
    /\ journal \in [Logins -> Record]
    /\ access \in {"open", "blocked"}
    /\ task \in Task \cup {NoTask}
    /\ raced \in {"clear", "raced"}
    /\ lost \subseteq Logins \X Tokens
    /\ used \in [Logins -> SUBSET Tokens]
    /\ faults \in 0..MaxFaults

(* Who can still bring the successor of token t into the store of l.       *)
Carried(l, t) ==
    \/ tool[l] = t \/ memory[l] = t
    \/ journal[l] = [phase |-> "pending", token |-> t]
    \/ task # NoTask /\ task.login = l /\ task.token = t /\ task.step \in {"write", "replace"}
    \/ <<l, t>> \in InHand

(* A login whose token was spent while it is still in the store is not     *)
(* lost: the tool, the renewer or the recovery record has the answer, save *)
(* for the answers that got lost on the way or with a process (_unsaved,   *)
(* anthropic_renewer.py:218: "the response is the only valid login left"). *)
LoginsAreCarried ==
    \A l \in Logins :
        successor[l][store[l]] # None => Carried(l, store[l]) \/ <<l, store[l]>> \in lost

(* No token is sent again once there is no reason to: of the Keychain,     *)
(* once it was sent, whatever ended the attempt, restarts included; of a   *)
(* file, once it was answered, as long as the renewer lives.  Tokens are   *)
(* single-use, and a second use may cost the login.                        *)
NothingSpentTwice ==
    [][\A l \in Logins, t \in Tokens :
         Exchange /\ task.login = l /\ task.token = t => t \notin used[l]]_vars

(* No store goes back to a token that was exchanged already: a recovery    *)
(* record whose answer is in place, and renewed by the tool since, is not  *)
(* replayed.                                                               *)
NeverGoesBack ==
    [][\A l \in Logins : store'[l] # store[l] => successor'[l][store'[l]] = None]_vars

(* The renewer replaces the token it spent and no other, except for a      *)
(* login written between its last look at the store and its write.         *)
OthersLoginsStand ==
    [][\A l \in Logins :
         (Replace \/ Update) /\ store'[l] # store[l] => store[l] = task.token \/ raced = "raced"]_vars

Waiting(l) ==
    IF l \in Files THEN memory[l] = store[l]
    ELSE memory[l] # None \/ journal[l].phase = "pending"

(* An answer that could not be saved is saved at last, unless another      *)
(* login took its place, or the Keychain is denied until the process       *)
(* restarts.                                                               *)
AnswersAreSettled ==
    \A l \in Logins : Waiting(l) ~> ~Waiting(l) \/ (l \in Keychains /\ access = "blocked")

(* What the renewer no longer does without a new login.                    *)
GaveUp(l) ==
    IF l \in Files THEN rejected[l] = store[l]
    ELSE journal[l].phase \in {"intent", "rejected"} \/ access = "blocked"

(* A login that is about to lapse is renewed or given up, but not left.    *)
LapsedIsRenewed ==
    \A l \in Logins : l \in lapsed ~> l \notin lapsed \/ GaveUp(l) \/ ~CanIssue
=============================================================================
