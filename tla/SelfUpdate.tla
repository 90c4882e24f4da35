----------------------------- MODULE SelfUpdate -----------------------------
(***************************************************************************)
(* How a sidecar on Windows replaces its own executable by a newer build,  *)
(* or by the one it replaced last: a running program cannot do it, so a    *)
(* detached helper moves the files once the program has exited, and a      *)
(* record on disk lets a later start finish what was interrupted.          *)
(*                                                                         *)
(* Code: scripts/sidecar_pkg/self_update.py, self_update_windows.py (the   *)
(* helper's script); the callers in scripts/sidecar.py.                    *)
(*                                                                         *)
(* A build is its bytes, and its number the version it reports; digests    *)
(* are compared as builds.  The download, its checksum and signature have  *)
(* happened when an update is staged.                                      *)
(***************************************************************************)
EXTENDS Naturals

CONSTANTS
    MaxBuild,    \* bound: builds released
    MaxFaults    \* bound: failed operations, deaths of processes and of the machine

ASSUME UpdateAssumption == MaxBuild \in Nat \ {0} /\ MaxFaults \in Nat

None == 0
Builds == 1..MaxBuild
Held == Builds \cup {None}

VARIABLES
    file,      \* the executables: install, previous, saved (previous_old), new, rollback
    label,     \* the version files: of previous, of saved, and the pending one
    record,    \* the transaction record, on disk (and, as history, what it found astray)
    lock,      \* the single-flight lock file
    old,       \* whether record and rollback are older than _ROLLBACK_MAX_AGE_S
    daemon,    \* the build the daemon runs, or None
    op,        \* the update or rollback under way, in the daemon or the command line
    helper,    \* the detached helper
    recovery,  \* what a start of the daemon has still to do to recover
    mistaken,  \* history: a build was recorded under the version of another
    faults     \* how often something failed or died

disk == <<file, label, record, old>>
vars == <<disk, lock, daemon, op, helper, recovery, mistaken, faults>>

Places == {"install", "previous", "saved", "new", "rollback"}
Labels == {"previous", "saved", "pending"}
NoRecord == [original |-> None, incoming |-> None, previous |-> None,
             originalName |-> None, previousName |-> None, owner |-> "none", stray |-> FALSE]
NoOp == [step |-> "none", who |-> "none", kind |-> "none", version |-> None, build |-> None]
NoHelper == [step |-> "none", slot |-> "none", parent |-> "none", saved |-> FALSE, labelled |-> FALSE]
NoRecovery == [step |-> "none", name |-> None]

Swap == [original: Builds, incoming: Builds, previous: Held, originalName: Builds,
         previousName: Held, owner: {"unknown", "helper"}, stray: BOOLEAN]
Operation(kind, builds) ==
    [step: {"stage", "record", "pending", "spawn", "own", "exit"}, who: {"daemon", "cli"},
     kind: {kind}, version: Builds, build: builds]
Moves == {"wait", "begin", "label", "original", "incoming", "commit", "clean", "drop",
          "uninstall", "restore", "unsave", "unlabel", "giveup"}
Process == [step: Moves, slot: {"new", "rollback"}, parent: {"daemon", "cli"},
            saved: BOOLEAN, labelled: BOOLEAN]

Fault == faults < MaxFaults /\ faults' = faults + 1
Kept == UNCHANGED <<lock, daemon, op, recovery, mistaken>>

(* A move takes the place of whatever is at its end.                       *)
Moved(from, to) == [file EXCEPT ![to] = file[from], ![from] = None]

-----------------------------------------------------------------------------
(* The program: self_update and rollback up to the start of the helper.    *)

(* The command line runs what is installed, the daemon perhaps an older    *)
(* build; check_once offers what is newer than the running one.            *)
Begin(who, kind, b) ==
    /\ op = NoOp /\ lock = "free" /\ recovery = NoRecovery
    /\ LET version == IF who = "daemon" THEN daemon ELSE file["install"]
       IN  /\ version # None
           /\ kind = "update" => b > version
           /\ kind = "rollback" => b = None
           /\ op' = [step |-> "stage", who |-> who, kind |-> kind, version |-> version, build |-> b]
    /\ lock' = "held"
    /\ UNCHANGED <<disk, daemon, helper, recovery, mistaken, faults>>

(* The helper waits for the process that started it.                       *)
Released(who) ==
    IF helper.step = "wait" /\ helper.parent = who THEN [helper EXCEPT !.step = "begin"] ELSE helper

(* The command line exits with its result, the daemon lives on.            *)
Returns ==
    /\ op' = NoOp /\ lock' = "free"
    /\ helper' = IF op.who = "cli" THEN Released("cli") ELSE helper

(* The record of another swap, no backup, or nothing that was downloaded   *)
(* and verified.                                                           *)
Refuse ==
    /\ op.step = "stage"
    /\ record # NoRecord \/ op.kind = "update" \/ file["previous"] = None
    /\ Returns
    /\ UNCHANGED <<disk, daemon, recovery, mistaken, faults>>

Slot == IF op.kind = "update" THEN "new" ELSE "rollback"

Stage ==
    /\ op.step = "stage" /\ record = NoRecord
    /\ \/ op.kind = "update" /\ file' = [file EXCEPT !["new"] = op.build] /\ UNCHANGED old
       \/ op.kind = "rollback" /\ file["previous"] # None
          /\ file' = Moved("previous", "rollback") /\ old' = FALSE
    /\ op' = [op EXCEPT !.step = "record"]
    /\ UNCHANGED <<label, record, lock, daemon, helper, recovery, mistaken, faults>>

RecordPrevious == file[IF op.kind = "update" THEN "previous" ELSE "rollback"]

WriteRecord ==
    /\ op.step = "record"
    /\ record' = [original |-> file["install"], incoming |-> file[Slot], previous |-> RecordPrevious,
                  originalName |-> op.version, previousName |-> label["previous"],
                  owner |-> "unknown",
                  stray |-> file["saved"] # None \/ (file["new"] # None /\ file["rollback"] # None)]
    /\ old' = FALSE
    /\ mistaken' = (mistaken \/ op.version # file["install"])
    /\ op' = [op EXCEPT !.step = "pending"]
    /\ UNCHANGED <<file, label, lock, daemon, helper, recovery, faults>>

WritePending ==
    /\ op.step = "pending"
    /\ label' = [label EXCEPT !["pending"] = op.version]
    /\ op' = [op EXCEPT !.step = "spawn"]
    /\ UNCHANGED <<file, record, old, lock, daemon, helper, recovery, mistaken, faults>>

Spawn ==
    /\ op.step = "spawn"
    /\ helper' = [step |-> "wait", slot |-> Slot, parent |-> op.who, saved |-> FALSE, labelled |-> FALSE]
    /\ op' = [op EXCEPT !.step = "own"]
    /\ UNCHANGED <<disk, lock, daemon, recovery, mistaken, faults>>

Own ==
    /\ op.step = "own"
    /\ record' = IF record = NoRecord THEN record ELSE [record EXCEPT !.owner = "helper"]
    /\ old' = FALSE
    /\ op' = [op EXCEPT !.step = "exit"]
    /\ UNCHANGED <<file, label, lock, daemon, helper, recovery, mistaken, faults>>

(* The daemon exits for the helper; the command line was to end anyway.    *)
Exit ==
    /\ op.step = "exit"
    /\ op' = NoOp /\ lock' = "free"
    /\ helper' = Released(op.who)
    /\ daemon' = IF op.who = "daemon" THEN None ELSE daemon
    /\ UNCHANGED <<disk, recovery, mistaken, faults>>

(* A rollback that fails leaves the backup where it found it.              *)
BackupReturned(f) ==
    IF op.kind = "rollback" /\ f["previous"] = None
    THEN [f EXCEPT !["previous"] = f["rollback"], !["rollback"] = None] ELSE f

(* What was in the way may be gone when the staging fails.                 *)
StagingFails ==
    /\ op.step = "stage" /\ record = NoRecord
    /\ op.kind = "rollback" => file["previous"] # None
    /\ Fault
    /\ file' \in {file, [file EXCEPT ![Slot] = None]}
    /\ Returns
    /\ UNCHANGED <<label, record, old, daemon, recovery, mistaken>>

(* An OSError before the helper runs: what was written is removed, unless  *)
(* that fails as well.                                                     *)
Unstaged ==
    /\ op.step \in {"record", "pending", "spawn"}
    /\ Fault
    /\ record' \in {NoRecord, record}
    /\ label' = [label EXCEPT !["pending"] = None]
    /\ LET f == IF op.step = "spawn" /\ op.kind = "update"
                THEN [file EXCEPT !["new"] = None] ELSE file
       IN  file' \in {f, BackupReturned(f)}
    /\ Returns
    /\ UNCHANGED <<old, daemon, recovery, mistaken>>

(* The helper runs but cannot be recorded: it is stopped, if it can be.    *)
Disowned ==
    /\ op.step = "own"
    /\ Fault
    /\ file' \in {file, BackupReturned(file)}
    /\ op' = NoOp /\ lock' = "free"
    /\ \/ helper' = NoHelper
       \/ helper' = IF op.who = "cli" THEN Released("cli") ELSE helper
    /\ UNCHANGED <<label, record, old, daemon, recovery, mistaken>>

-----------------------------------------------------------------------------
(* The helper: a script of moves, each of which may fail.                  *)

At(s) == helper.step = s
To(s) == helper' = [helper EXCEPT !.step = s]

(* The first move and its checks; nothing is overwritten that an           *)
(* interrupted swap has left.                                              *)
SaveBackup ==
    /\ At("begin")
    /\ IF file["saved"] # None \/ label["saved"] # None \/ label["pending"] = None
       THEN To("giveup") /\ UNCHANGED file
       ELSE /\ helper' = [helper EXCEPT !.step = "label", !.saved = file["previous"] # None]
            /\ file' = IF file["previous"] # None THEN Moved("previous", "saved") ELSE file
    /\ UNCHANGED <<label, record, old, faults>> /\ Kept

SaveLabel ==
    /\ At("label")
    /\ label' = [label EXCEPT !["saved"] = label["previous"]]
    /\ helper' = [helper EXCEPT !.step = "original", !.labelled = label["previous"] # None]
    /\ UNCHANGED <<file, record, old, faults>> /\ Kept

MoveOriginal ==
    /\ At("original") /\ file["install"] # None
    /\ file' = Moved("install", "previous")
    /\ To("incoming")
    /\ UNCHANGED <<label, record, old, faults>> /\ Kept

MoveIncoming ==
    /\ At("incoming") /\ file[helper.slot] # None
    /\ file' = Moved(helper.slot, "install")
    /\ To("commit")
    /\ UNCHANGED <<label, record, old, faults>> /\ Kept

CommitLabel ==
    /\ At("commit")
    /\ label' = [label EXCEPT !["previous"] = label["pending"], !["pending"] = None]
    /\ To("clean")
    /\ UNCHANGED <<file, record, old, faults>> /\ Kept

(* A deletion that fails is not noticed.                                   *)
Clean ==
    /\ At("clean")
    /\ LET f == [file EXCEPT !["saved"] = None]
           l == [label EXCEPT !["saved"] = None]
       IN  \/ file' = f /\ label' = l /\ UNCHANGED faults
           \/ file' \in {f, file} /\ label' \in {l, label} /\ Fault
    /\ To("drop")
    /\ UNCHANGED <<record, old>> /\ Kept

(* The end, after which the installed program is started again.            *)
Drop ==
    /\ At("drop")
    /\ \/ record' = NoRecord /\ UNCHANGED faults
       \/ Fault /\ UNCHANGED record
    /\ helper' = NoHelper
    /\ UNCHANGED <<file, label, old>> /\ Kept

(* Mutant: a failed move of the new build is not undone.                   *)
WayBackForward ==
    [begin |-> "giveup", label |-> "unsave", original |-> "unsave", incoming |-> "unsave",
     commit |-> "uninstall", uninstall |-> "stop", restore |-> "stop", unsave |-> "stop",
     unlabel |-> "stop"]

(* A move fails: each has its way back.                                    *)
WayBack ==
    [begin |-> "giveup", label |-> "unsave", original |-> "unsave", incoming |-> "restore",
     commit |-> "uninstall", uninstall |-> "stop", restore |-> "stop", unsave |-> "stop",
     unlabel |-> "stop"]

MoveFails ==
    /\ helper.step \in DOMAIN WayBack
    /\ \/ Fault
       \/ At("incoming") /\ file[helper.slot] = None /\ UNCHANGED faults
    /\ helper' = IF WayBack[helper.step] = "stop" THEN NoHelper
                 ELSE [helper EXCEPT !.step = WayBack[helper.step]]
    /\ UNCHANGED disk /\ Kept

Uninstall ==
    /\ At("uninstall")
    /\ file' = Moved("install", helper.slot)
    /\ To("restore")
    /\ UNCHANGED <<label, record, old, faults>> /\ Kept

RestoreOriginal ==
    /\ At("restore")
    /\ file' = Moved("previous", "install")
    /\ To("unsave")
    /\ UNCHANGED <<label, record, old, faults>> /\ Kept

RestoreBackup ==
    /\ At("unsave")
    /\ file' = IF helper.saved THEN Moved("saved", "previous") ELSE file
    /\ To("unlabel")
    /\ UNCHANGED <<label, record, old, faults>> /\ Kept

RestoreLabel ==
    /\ At("unlabel")
    /\ label' = IF helper.labelled
                THEN [label EXCEPT !["previous"] = label["saved"], !["saved"] = None] ELSE label
    /\ To("giveup")
    /\ UNCHANGED <<file, record, old, faults>> /\ Kept

GiveUp ==
    /\ At("giveup")
    /\ \/ label' = [label EXCEPT !["pending"] = None] /\ UNCHANGED faults
       \/ Fault /\ UNCHANGED label
    /\ To("drop")
    /\ UNCHANGED <<file, record, old>> /\ Kept

-----------------------------------------------------------------------------
(* The start of a daemon: _recover_windows_transaction, or, without a      *)
(* record, the end of a rollback that died before it wrote one.            *)

Incoming == IF file["rollback"] # None THEN "rollback" ELSE "new"

Swapped ==
    /\ file["install"] = record.incoming /\ file["previous"] = record.original
    /\ file[Incoming] = None

(* Mutant: the place the helper kept the backup in is forgotten.           *)
BackupSourceStaged == Incoming

(* The place the backup comes from, if it is not in its own.               *)
BackupSource == IF file["saved"] # None THEN "saved" ELSE Incoming

Undoable ==
    /\ file["install"] = record.original
       \/ (file["install"] = None /\ file["previous"] = record.original)
    /\ LET p == IF file["install"] = None THEN None ELSE file["previous"]
       IN  p = record.previous \/ (p = None /\ file[BackupSource] = record.previous)

Recoverable ==
    /\ file["saved"] \in {None, record.previous}
    /\ Swapped \/ Undoable

Due == record # NoRecord /\ old /\ record.owner = "helper" /\ helper = NoHelper

(* What a rollback left behind that died before the record.                *)
Unstranded ==
    IF record # NoRecord \/ file["rollback"] = None \/ ~old THEN file
    ELSE IF file["previous"] = None THEN Moved("rollback", "previous")
    ELSE [file EXCEPT !["rollback"] = None]

Start ==
    /\ daemon = None /\ file["install"] # None
    /\ daemon' = file["install"]
    /\ file' = Unstranded
    /\ recovery' = IF ~Due \/ ~Recoverable THEN NoRecovery
                   ELSE IF Swapped THEN [step |-> "label", name |-> record.originalName]
                   ELSE [step |-> "undo", name |-> record.previousName]
    /\ UNCHANGED <<label, record, old, lock, op, helper, mistaken, faults>>

Undo ==
    /\ recovery.step = "undo"
    /\ file' = LET f == IF file["install"] = None THEN Moved("previous", "install") ELSE file
               IN  IF f["previous"] # None \/ record.previous = None THEN f
                   ELSE [f EXCEPT !["previous"] = f[BackupSource], ![BackupSource] = None]
    /\ recovery' = [recovery EXCEPT !.step = "label"]
    /\ UNCHANGED <<label, record, old, lock, daemon, op, helper, mistaken, faults>>

Relabel ==
    /\ recovery.step = "label"
    /\ label' = IF file["previous"] # None
                THEN [label EXCEPT !["previous"] = recovery.name, !["pending"] = None]
                ELSE [label EXCEPT !["previous"] = None]
    /\ recovery' = [recovery EXCEPT !.step = "sweep"]
    /\ UNCHANGED <<file, record, old, lock, daemon, op, helper, mistaken, faults>>

Sweep ==
    /\ recovery.step = "sweep"
    /\ file' = [file EXCEPT !["saved"] = None]
    /\ label' = [label EXCEPT !["saved"] = None, !["pending"] = None]
    /\ recovery' = [recovery EXCEPT !.step = "forget"]
    /\ UNCHANGED <<record, old, lock, daemon, op, helper, mistaken, faults>>

Forget ==
    /\ recovery.step = "forget"
    /\ record' = NoRecord
    /\ recovery' = NoRecovery
    /\ UNCHANGED <<file, label, old, lock, daemon, op, helper, mistaken, faults>>

RecoveryFails ==
    /\ recovery # NoRecovery
    /\ Fault
    /\ recovery' = NoRecovery
    /\ UNCHANGED <<disk, lock, daemon, op, helper, mistaken>>

-----------------------------------------------------------------------------
(* Processes and time                                                      *)

(* The daemon is stopped, or dies with what it was doing.                  *)
DaemonEnds ==
    /\ daemon # None
    /\ IF op.who = "daemon" \/ recovery # NoRecovery THEN Fault ELSE UNCHANGED faults
    /\ daemon' = None /\ recovery' = NoRecovery
    /\ helper' = Released("daemon")
    /\ IF op.who = "daemon" THEN op' = NoOp /\ lock' = "orphaned" ELSE UNCHANGED <<op, lock>>
    /\ UNCHANGED <<disk, mistaken>>

CommandDies ==
    /\ op.who = "cli"
    /\ Fault
    /\ op' = NoOp /\ lock' = "orphaned"
    /\ helper' = Released("cli")
    /\ UNCHANGED <<disk, daemon, recovery, mistaken>>

(* Everything ends with the machine.                                       *)
Reboot ==
    /\ Fault
    /\ op' = NoOp /\ helper' = NoHelper /\ recovery' = NoRecovery /\ daemon' = None
    /\ lock' = IF lock = "held" THEN "orphaned" ELSE lock
    /\ UNCHANGED <<disk, mistaken>>

(* The files grow old enough to be touched, which none does while the      *)
(* program is between two of its writes.                                   *)
Age ==
    /\ op = NoOp /\ ~old
    /\ old' = TRUE
    /\ UNCHANGED <<file, label, record, lock, daemon, op, helper, recovery, mistaken, faults>>

(* _LOCK_STALE_SECONDS have passed since the process died.                 *)
Reclaim ==
    /\ lock = "orphaned"
    /\ lock' = "free"
    /\ UNCHANGED <<disk, daemon, op, helper, recovery, mistaken, faults>>

-----------------------------------------------------------------------------
(* rollback_available: the version that the tray offers to return to; the  *)
(* label belongs to the backup only when no swap is under way.             *)

(* Mutant: the label is believed.                                          *)
OfferedByLabel == label["previous"]

Offered ==
    IF record = NoRecord THEN label["previous"]
    ELSE IF file["previous"] = record.original THEN record.originalName
    ELSE IF file["previous"] = record.previous THEN record.previousName
    ELSE None

-----------------------------------------------------------------------------
Init ==
    /\ file = [p \in Places |-> IF p = "install" THEN 1 ELSE None]
    /\ label = [n \in Labels |-> None]
    /\ record = NoRecord /\ lock = "free" /\ old = FALSE /\ daemon = 1
    /\ op = NoOp /\ helper = NoHelper /\ recovery = NoRecovery
    /\ mistaken = FALSE /\ faults = 0

Program ==
    \/ \E who \in {"daemon", "cli"}, kind \in {"update", "rollback"}, b \in Held : Begin(who, kind, b)
    \/ Refuse \/ Stage \/ WriteRecord \/ WritePending \/ Spawn \/ Own \/ Exit
    \/ StagingFails \/ Unstaged \/ Disowned

Helper ==
    \/ SaveBackup \/ SaveLabel \/ MoveOriginal \/ MoveIncoming \/ CommitLabel \/ Clean \/ Drop
    \/ MoveFails \/ Uninstall \/ RestoreOriginal \/ RestoreBackup \/ RestoreLabel \/ GiveUp

Recovery == Undo \/ Relabel \/ Sweep \/ Forget \/ RecoveryFails

Next == Program \/ Helper \/ Start \/ Recovery
        \/ DaemonEnds \/ CommandDies \/ Reboot \/ Age \/ Reclaim

Spec == Init /\ [][Next]_vars

-----------------------------------------------------------------------------
(* Properties                                                              *)

TypeOK ==
    /\ file \in [Places -> Held] /\ label \in [Labels -> Held]
    /\ record \in {NoRecord} \cup Swap
    /\ lock \in {"free", "held", "orphaned"} /\ old \in BOOLEAN
    /\ daemon \in Held
    /\ op \in {NoOp} \cup Operation("update", Builds) \cup Operation("rollback", {None})
    /\ helper \in {NoHelper} \cup Process
    /\ recovery \in {NoRecovery} \cup [step: {"undo", "label", "sweep", "forget"}, name: Held]
    /\ mistaken \in BOOLEAN /\ faults \in 0..MaxFaults

(* The builds the files hold, wherever they are while a swap is under way: *)
(* those it began with, until the label of the new backup is in place.     *)
Committed ==
    /\ file["install"] = record.incoming /\ file["previous"] = record.original
    /\ label["pending"] = None

Somewhere(b, places) == IF \E p \in places : file[p] = b THEN b ELSE None

Installed ==
    IF record = NoRecord \/ Committed THEN file["install"]
    ELSE Somewhere(record.original, {"install", "previous"})

Backup ==
    IF record # NoRecord /\ ~Committed /\ record.previous # None
    THEN Somewhere(record.previous, {"previous", "saved", "rollback", "install"})
    ELSE IF file["previous"] # None /\ (record = NoRecord \/ Committed) THEN file["previous"]
    ELSE file["rollback"]

Slots == INSTANCE UpdateSlots WITH installed <- Installed, backup <- Backup

(* However updates and rollbacks are interrupted, refused, undone by the   *)
(* helper or recovered by a later start, the installed build and the one a *)
(* rollback returns to change together or not at all, and neither is lost  *)
(* (self_update.py, _apply_windows and _recover_windows_transaction).      *)
ImplementsSlots == Slots!SlotsSpec

(* The version offered for a rollback is that of the build it would        *)
(* install, in the midst of a swap too, unless a process recorded the      *)
(* installed build under its own, older version (rollback_available).      *)
BackupIsNamed ==
    file["previous"] # None /\ ~mistaken => Offered \in {None, file["previous"]}

(* Once the helper of a swap has died, wherever it was, the state of the   *)
(* files is one that the next start can finish or undo, unless an earlier  *)
(* swap left something astray.  Only then can there be another update.     *)
RecoverySucceeds ==
    record # NoRecord /\ record.owner = "helper" /\ helper = NoHelper /\ recovery = NoRecovery
    /\ op = NoOp /\ file["install"] # None /\ ~record.stray
        => Recoverable
=============================================================================
