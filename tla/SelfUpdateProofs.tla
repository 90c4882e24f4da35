-------------------------- MODULE SelfUpdateProofs --------------------------
(***************************************************************************)
(* For every number of builds and faults: the installed build and its      *)
(* backup change together or not at all (SelfUpdate implements             *)
(* UpdateSlots), the version offered for a rollback is that of the backup, *)
(* and what a dead helper leaves can be finished or undone.                *)
(***************************************************************************)
EXTENDS SelfUpdate, TLAPS

(* Where the builds of a swap may be, while it is under way or when it was *)
(* cut off: untouched; the backup set aside; the installed build moved to  *)
(* the backup's place; the new one installed; and the swap committed.      *)
BackupIn(places) == record.previous = None \/ \E q \in places : file[q] = record.previous

Untouched ==
    /\ file["install"] = record.original
    /\ \/ file["previous"] = record.previous
       \/ file["previous"] = None /\ file["rollback"] = record.previous

Opened ==
    /\ file["install"] = record.original /\ file["previous"] = None
    /\ BackupIn({"saved", "rollback"})

Emptied ==
    /\ file["install"] = None /\ file["previous"] = record.original
    /\ BackupIn({"saved", "rollback"})

Filled ==
    /\ file["install"] = record.incoming /\ file["previous"] = record.original
    /\ label["pending"] # None
    /\ BackupIn({"saved", "rollback", "install"})

(* Once the new build has left its place, nothing is staged any more.      *)
Tidy == ~record.stray => file["new"] = None /\ file["rollback"] = None

AtRest == Untouched \/ Opened \/ Emptied \/ (Filled /\ Tidy) \/ (Committed /\ Tidy)

RestKept == record # NoRecord /\ helper = NoHelper => AtRest
SavedOwn == record # NoRecord /\ ~record.stray => file["saved"] \in {None, record.previous}

(* Program, helper and recovery take turns.                                *)
Turns ==
    /\ record = NoRecord =>
          /\ file["install"] # None /\ helper = NoHelper /\ recovery = NoRecovery
          /\ op.step \in {"none", "stage", "record"}
    /\ op.step = "record" => record = NoRecord
    /\ op.step \in {"pending", "spawn"} => helper = NoHelper /\ recovery = NoRecovery
    /\ op.step \in {"own", "exit"} =>
          helper.step = "wait" /\ helper.slot = Slot /\ helper.parent = op.who
    /\ op.step \in {"pending", "spawn"} \/ (op.step = "record" /\ op.kind = "rollback") => ~old
    /\ recovery # NoRecovery => helper = NoHelper /\ op.step \in {"none", "stage"}

(* What the program has prepared in a slot.                                *)
Other(slot) == IF slot = "new" THEN "rollback" ELSE "new"

Ready(slot) ==
    /\ file["install"] = record.original
    /\ file[slot] \in {record.incoming, None}
    /\ slot = "new" => file["previous"] = record.previous
    /\ slot = "rollback" =>
          /\ record.incoming = record.previous
          /\ \/ file["previous"] = record.previous
             \/ file["previous"] = None /\ file["rollback"] = record.previous
    /\ ~record.stray => file[Other(slot)] = None

Prepared ==
    /\ op.step = "record" =>
          file[Slot] # None /\ (op.kind = "rollback" => file["previous"] = None)
    /\ op.step \in {"pending", "spawn"} => Ready(Slot)

(* Where the helper has put the backup.                                    *)
Aside(place) ==
    IF helper.saved THEN record.previous # None /\ file["saved"] = record.previous
    ELSE record.previous = None \/ (helper.slot = "rollback" /\ file[place] = record.previous)

(* What the files hold before each move of the helper.                     *)
HelperAt ==
    helper # NoHelper =>
        /\ helper.slot = "rollback" => record.incoming = record.previous
        /\ ~record.stray => file[Other(helper.slot)] = None
        /\ helper.step \in {"label", "original", "incoming", "commit", "uninstall"} =>
              label["pending"] # None
        /\ helper.step \in {"wait", "begin"} => Ready(helper.slot)
        /\ helper.step \in {"label", "original", "unsave"} =>
              /\ file["install"] = record.original /\ file["previous"] = None
              /\ Aside("rollback") /\ file[helper.slot] \in {record.incoming, None}
        /\ helper.step \in {"incoming", "restore"} =>
              /\ file["install"] = None /\ file["previous"] = record.original
              /\ Aside("rollback") /\ file[helper.slot] \in {record.incoming, None}
        /\ helper.step \in {"commit", "uninstall"} =>
              /\ file["install"] = record.incoming /\ file["previous"] = record.original
              /\ Aside("install") /\ file[helper.slot] = None
        /\ helper.step \in {"unlabel", "giveup"} => Untouched
        /\ helper.step = "clean" => Committed /\ Tidy
        /\ helper.step = "drop" => Untouched \/ (Committed /\ Tidy)

(* What the recovery has found, and made of it.                            *)
RecoveryAt ==
    /\ recovery.step = "undo" => Undoable /\ recovery.name = record.previousName
    /\ recovery.step = "label" =>
          \/ /\ file["install"] = record.original /\ file["previous"] = record.previous
             /\ recovery.name = record.previousName
          \/ /\ file["install"] = record.incoming /\ file["previous"] = record.original
             /\ recovery.name = record.originalName /\ Tidy
    /\ recovery.step \in {"sweep", "forget"} =>
          \/ /\ file["install"] = record.original /\ file["previous"] = record.previous
             /\ label["previous"] = IF record.previous # None THEN record.previousName ELSE None
          \/ Committed /\ Tidy /\ label["previous"] = record.originalName

(* The build a rollback returns to: before a swap, and with none under way. *)
BackupBefore == IF record.previous # None THEN record.previous ELSE file["rollback"]
BackupIdle == IF file["previous"] # None THEN file["previous"] ELSE file["rollback"]
Names(name, b) == b # None => name \in {None, b}

(* Whom the labels name.                                                   *)
LabelsFollow ==
    /\ record = NoRecord /\ ~mistaken => Names(label["previous"], BackupIdle)
    /\ record # NoRecord /\ ~mistaken =>
          record.originalName = record.original /\ Names(record.previousName, BackupBefore)
    /\ op.step \in {"pending", "spawn"} =>
          label["previous"] = record.previousName /\ record.originalName = op.version
    /\ op.step = "spawn" => label["pending"] = op.version

HelperLabels ==
    helper # NoHelper =>
        /\ label["pending"] \in {None, record.originalName}
        /\ helper.step \notin {"clean", "drop"} => label["previous"] = record.previousName
        /\ helper.step = "clean" => label["previous"] = record.originalName
        /\ helper.step = "drop" =>
              \/ Untouched /\ label["previous"] = record.previousName
              \/ Committed /\ Tidy /\ label["previous"] = record.originalName
        /\ helper.step \in {"wait", "begin", "label"} => ~helper.labelled
        /\ helper.labelled /\ helper.step \notin {"clean", "drop", "giveup"} =>
              label["saved"] = record.previousName

UpdateInv ==
    /\ TypeOK /\ Turns /\ Prepared /\ HelperAt /\ RestKept /\ SavedOwn /\ RecoveryAt
    /\ LabelsFollow /\ HelperLabels

-----------------------------------------------------------------------------
USE UpdateAssumption
    DEF None, Builds, Held, Places, Labels, Swap, Operation, Moves, Process,
        NoRecord, NoOp, NoHelper, NoRecovery

LEMMA RecordFields ==
    ASSUME TypeOK, record # NoRecord
    PROVE  /\ record.original \in Builds /\ record.incoming \in Builds
           /\ record.previous \in Held /\ record.originalName \in Builds
           /\ record.previousName \in Held
  BY DEF TypeOK

LEMMA OpFields ==
    ASSUME TypeOK, op.step # "none"
    PROVE  /\ op.who \in {"daemon", "cli"} /\ op.kind \in {"update", "rollback"}
           /\ op.version \in Builds /\ (op.kind = "update" => op.build \in Builds)
           /\ Slot \in {"new", "rollback"}
  BY DEF TypeOK, Slot

(* The next step of an operation, of the helper; a record with its owner.  *)
OpGoes(s) ==
    /\ op' \in Operation("update", Builds) \cup Operation("rollback", {None})
    /\ op'.step = s /\ op'.who = op.who /\ op'.kind = op.kind /\ op'.version = op.version

LEMMA OpStep ==
    ASSUME TypeOK, op.step # "none",
           NEW s \in {"stage", "record", "pending", "spawn", "own", "exit"},
           op' = [op EXCEPT !.step = s]
    PROVE  OpGoes(s)
<1>1. CASE op \in Operation("update", Builds)
  BY <1>1 DEF OpGoes
<1>2. CASE op \in Operation("rollback", {None})
  BY <1>2 DEF OpGoes
<1> QED BY <1>1, <1>2 DEF TypeOK

HelperGoes(s) ==
    /\ helper' \in Process /\ helper' # NoHelper
    /\ helper'.step = s /\ helper'.slot = helper.slot /\ helper'.parent = helper.parent

LEMMA HelperStep ==
    ASSUME TypeOK, helper # NoHelper, NEW s \in Moves
    PROVE  /\ helper' = [helper EXCEPT !.step = s] =>
                /\ HelperGoes(s)
                /\ helper'.labelled = helper.labelled /\ helper'.saved = helper.saved
           /\ \A b \in BOOLEAN : helper' = [helper EXCEPT !.step = s, !.saved = b] =>
                HelperGoes(s) /\ helper'.saved = b /\ helper'.labelled = helper.labelled
           /\ \A b \in BOOLEAN : helper' = [helper EXCEPT !.step = s, !.labelled = b] =>
                HelperGoes(s) /\ helper'.labelled = b /\ helper'.saved = helper.saved
<1>1. helper \in Process
  BY DEF TypeOK
<1>2. ASSUME helper' = [helper EXCEPT !.step = s]
      PROVE  /\ HelperGoes(s)
             /\ helper'.labelled = helper.labelled /\ helper'.saved = helper.saved
  BY <1>1, <1>2 DEF HelperGoes
<1>3. ASSUME NEW b \in BOOLEAN, helper' = [helper EXCEPT !.step = s, !.saved = b]
      PROVE  HelperGoes(s) /\ helper'.saved = b /\ helper'.labelled = helper.labelled
  BY <1>1, <1>3 DEF HelperGoes
<1>4. ASSUME NEW b \in BOOLEAN, helper' = [helper EXCEPT !.step = s, !.labelled = b]
      PROVE  HelperGoes(s) /\ helper'.labelled = b /\ helper'.saved = helper.saved
  BY <1>1, <1>4 DEF HelperGoes
<1> QED BY <1>2, <1>3, <1>4

LEMMA RecordOwned ==
    ASSUME TypeOK, record # NoRecord, record' = [record EXCEPT !.owner = "helper"]
    PROVE  /\ record' \in Swap /\ record' # NoRecord
           /\ record'.original = record.original /\ record'.incoming = record.incoming
           /\ record'.previous = record.previous /\ record'.stray = record.stray
           /\ record'.originalName = record.originalName
           /\ record'.previousName = record.previousName
<1>1. record \in Swap
  BY DEF TypeOK
<1> QED BY <1>1

(* A helper that waits for a process goes on when it ends, and does not    *)
(* change otherwise.                                                       *)
GoesOn ==
    /\ helper' \in {NoHelper} \cup Process
    /\ helper' = NoHelper <=> helper = NoHelper
    /\ helper'.slot = helper.slot /\ helper'.parent = helper.parent
    /\ helper'.saved = helper.saved /\ helper'.labelled = helper.labelled
    /\ helper'.step = helper.step \/ (helper.step = "wait" /\ helper'.step = "begin")

LEMMA ReleasedGoesOn ==
    ASSUME TypeOK, NEW who, helper' \in {helper, Released(who)}
    PROVE  /\ GoesOn
           /\ helper'.step = helper.step \/ helper.parent = who
<1>1. CASE helper = NoHelper
  BY <1>1 DEF GoesOn, Released
<1>2. CASE helper # NoHelper
  <2>1. helper \in Process
    BY <1>2 DEF TypeOK
  <2> QED BY <2>1 DEF GoesOn, Released
<1> QED BY <1>1, <1>2

LEMMA BeginInv ==
    ASSUME UpdateInv, NEW who \in {"daemon", "cli"}, NEW kind \in {"update", "rollback"},
           NEW b \in Held, Begin(who, kind, b)
    PROVE  UpdateInv'
<1>1. TypeOK'
  BY DEF UpdateInv, Begin, disk, TypeOK
<1>2. Turns'
  BY DEF UpdateInv, Begin, disk, TypeOK, Turns, Slot
<1>3. Prepared'
  BY DEF UpdateInv, Begin, disk, TypeOK, Prepared, Turns, Slot, Ready, Other
<1>4. HelperAt'
  BY DEF UpdateInv, Begin, disk, TypeOK, HelperAt, Turns, Ready, Other, Aside,
     Untouched, Committed, Tidy, Slot
<1>5. RestKept'
  BY DEF UpdateInv, Begin, disk, TypeOK, RestKept, AtRest, Untouched, Opened,
     Emptied, Filled, Committed, Tidy, BackupIn, HelperAt, Aside, Ready, Other,
     Turns
<1>6. SavedOwn'
  BY DEF UpdateInv, Begin, disk, TypeOK, SavedOwn, HelperAt, Turns, Aside
<1>7. RecoveryAt'
  BY DEF UpdateInv, Begin, disk, TypeOK, RecoveryAt, Turns, Undoable,
     Committed, Tidy, BackupSource, Incoming
<1>8. LabelsFollow'
  BY DEF UpdateInv, Begin, disk, TypeOK, LabelsFollow, Turns, Names,
     BackupIdle, BackupBefore
<1>9. HelperLabels'
  BY DEF UpdateInv, Begin, disk, TypeOK, HelperLabels, HelperAt, Turns,
     Untouched, Committed, Tidy
<1> QED BY <1>1, <1>2, <1>3, <1>4, <1>5, <1>6, <1>7, <1>8, <1>9 DEF UpdateInv

LEMMA RefuseInv == ASSUME UpdateInv, Refuse PROVE UpdateInv'
<1>0. /\ GoesOn
      /\ helper'.step = helper.step \/ helper.parent = "cli"
  BY ReleasedGoesOn DEF UpdateInv, Refuse, Returns, TypeOK, disk, Turns
<1>1. TypeOK'
  BY <1>0 DEF UpdateInv, Refuse, disk, TypeOK, Returns, GoesOn
<1>2. Turns'
  BY <1>0 DEF UpdateInv, Refuse, disk, TypeOK, Returns, Turns, Slot, GoesOn
<1>3. Prepared'
  BY <1>0 DEF UpdateInv, Refuse, disk, TypeOK, Returns, Prepared, Turns, Slot,
     Ready, Other
<1>4. HelperAt'
  BY <1>0 DEF UpdateInv, Refuse, disk, TypeOK, Returns, HelperAt, Turns, Ready,
     Other, Aside, Untouched, Committed, Tidy, Slot, GoesOn
<1>5. RestKept'
  BY <1>0 DEF UpdateInv, Refuse, disk, TypeOK, Returns, RestKept, AtRest,
     Untouched, Opened, Emptied, Filled, Committed, Tidy, BackupIn, HelperAt,
     Aside, Ready, Other, Turns
<1>6. SavedOwn'
  BY <1>0 DEF UpdateInv, Refuse, disk, TypeOK, Returns, SavedOwn, HelperAt,
     Turns, Aside
<1>7. RecoveryAt'
  BY <1>0 DEF UpdateInv, Refuse, disk, TypeOK, Returns, RecoveryAt, Turns,
     Undoable, Committed, Tidy, BackupSource, Incoming
<1>8. LabelsFollow'
  BY <1>0 DEF UpdateInv, Refuse, disk, TypeOK, Returns, LabelsFollow, Turns,
     Names, BackupIdle, BackupBefore
<1>9. HelperLabels'
  BY <1>0 DEF UpdateInv, Refuse, disk, TypeOK, Returns, HelperLabels, HelperAt,
     Turns, Untouched, Committed, Tidy, GoesOn
<1> QED BY <1>1, <1>2, <1>3, <1>4, <1>5, <1>6, <1>7, <1>8, <1>9 DEF UpdateInv

LEMMA StageInv == ASSUME UpdateInv, Stage PROVE UpdateInv'
<1>1. OpGoes("record")
  BY OpStep DEF UpdateInv, Stage
<1>2. /\ file' \in [Places -> Held] /\ old' \in BOOLEAN
      /\ UNCHANGED <<label, record, lock, daemon, helper, recovery, mistaken, faults>>
  <2>1. op.kind = "update" => op.build \in Builds
    BY OpFields DEF UpdateInv, Stage
  <2>2. /\ old' \in BOOLEAN
        /\ UNCHANGED <<label, record, lock, daemon, helper, recovery, mistaken, faults>>
    BY DEF UpdateInv, TypeOK, Stage
  <2>3. \/ op.kind = "update" /\ file' = [file EXCEPT !["new"] = op.build]
        \/ file' = Moved("previous", "rollback")
    BY DEF Stage
  <2>4. file' \in [Places -> Held]
    BY <2>1, <2>3 DEF UpdateInv, TypeOK, Moved
  <2> QED BY <2>2, <2>4
<1>3. TypeOK'
  BY <1>1, <1>2 DEF UpdateInv, TypeOK, OpGoes
<1>4. Turns'
  BY <1>1 DEF UpdateInv, Stage, disk, TypeOK, Slot, Moved, Turns, OpGoes
<1>5. Prepared'
  BY <1>1 DEF UpdateInv, Stage, disk, TypeOK, Slot, Moved, Prepared, Turns,
     Ready, Other, OpGoes
<1>6. HelperAt'
  BY <1>1 DEF UpdateInv, Stage, disk, TypeOK, Slot, Moved, HelperAt, Turns,
     Ready, Other, Aside, Untouched, Committed, Tidy
<1>7. RestKept'
  BY <1>1 DEF UpdateInv, Stage, disk, TypeOK, Slot, Moved, RestKept, AtRest,
     Untouched, Opened, Emptied, Filled, Committed, Tidy, BackupIn, HelperAt,
     Aside, Ready, Other, Turns
<1>8. SavedOwn'
  BY <1>1 DEF UpdateInv, Stage, disk, TypeOK, Slot, Moved, SavedOwn, HelperAt,
     Turns, Aside
<1>9. RecoveryAt'
  BY <1>1 DEF UpdateInv, Stage, disk, TypeOK, Slot, Moved, RecoveryAt, Turns,
     Undoable, Committed, Tidy, BackupSource, Incoming
<1>10. LabelsFollow'
  BY <1>1 DEF UpdateInv, Stage, disk, TypeOK, Slot, Moved, LabelsFollow, Turns,
     Names, BackupIdle, BackupBefore
<1>11. HelperLabels'
  BY <1>1 DEF UpdateInv, Stage, disk, TypeOK, Slot, Moved, HelperLabels,
     HelperAt, Turns, Untouched, Committed, Tidy
<1> QED BY <1>3, <1>4, <1>5, <1>6, <1>7, <1>8, <1>9, <1>10, <1>11 DEF UpdateInv

LEMMA WriteRecordInv == ASSUME UpdateInv, WriteRecord PROVE UpdateInv'
<1>1. OpGoes("pending") /\ op.step = "record" /\ op.kind \in {"update", "rollback"}
  BY OpStep, OpFields DEF UpdateInv, WriteRecord
<1>2. /\ helper = NoHelper /\ recovery = NoRecovery /\ record = NoRecord
      /\ file["install"] \in Builds /\ file[Slot] \in Builds /\ op.version \in Builds
      /\ RecordPrevious \in Held /\ label["previous"] \in Held
  BY <1>1, OpFields DEF UpdateInv, TypeOK, Turns, Prepared, RecordPrevious
<1>3. /\ record' \in Swap /\ record' # NoRecord
      /\ record'.original = file["install"] /\ record'.incoming = file[Slot]
      /\ record'.previous = RecordPrevious
      /\ record'.originalName = op.version /\ record'.previousName = label["previous"]
      /\ record'.stray = (file["saved"] # None \/ (file["new"] # None /\ file["rollback"] # None))
  BY <1>2 DEF WriteRecord
<1>4. /\ Slot' = Slot /\ UNCHANGED <<file, label, helper, recovery>> /\ old' = FALSE
      /\ mistaken' = (mistaken \/ op.version # file["install"])
  BY <1>1 DEF WriteRecord, OpGoes, Slot
<1>5. Ready(Slot)'
  BY <1>1, <1>2, <1>3, <1>4 DEF UpdateInv, Prepared, Ready, Other, RecordPrevious, Slot
<1>6. TypeOK'
  BY <1>1, <1>2, <1>3, <1>4 DEF UpdateInv, TypeOK, WriteRecord, OpGoes
<1>7. Turns'
  BY <1>1, <1>2, <1>3, <1>4 DEF OpGoes, Turns
<1>8. Prepared'
  BY <1>1, <1>4, <1>5 DEF OpGoes, Prepared
<1>9. HelperAt'
  BY <1>2, <1>4 DEF HelperAt
<1>10. RestKept'
  BY <1>1, <1>4, <1>5 DEF RestKept, AtRest, Untouched, Ready, Slot
<1>11. SavedOwn'
  BY <1>1, <1>2, <1>3, <1>4 DEF SavedOwn
<1>12. RecoveryAt'
  BY <1>2, <1>4 DEF RecoveryAt
<1>13. LabelsFollow'
  <2>1. ~mistaken' => ~mistaken /\ record'.originalName = record'.original
    BY <1>3, <1>4
  <2>2. ~mistaken => Names(label["previous"], BackupIdle)
    BY <1>2 DEF UpdateInv, LabelsFollow
  <2>3. op.kind = "rollback" => file["previous"] = None
    BY <1>1 DEF UpdateInv, Prepared
  <2>4. BackupBefore' = BackupIdle
    BY <1>1, <1>3, <1>4, <2>3 DEF BackupBefore, BackupIdle, RecordPrevious, Slot
  <2>5. record' # NoRecord /\ record'.previousName = label'["previous"]
        /\ op'.step = "pending" /\ record'.originalName = op'.version
    BY <1>1, <1>3, <1>4 DEF OpGoes
  <2> QED  BY <1>3, <2>1, <2>2, <2>4, <2>5 DEF LabelsFollow, Names
<1>14. HelperLabels'
  BY <1>2, <1>4 DEF HelperLabels
<1> QED BY <1>6, <1>7, <1>8, <1>9, <1>10, <1>11, <1>12, <1>13, <1>14 DEF UpdateInv

LEMMA WritePendingInv == ASSUME UpdateInv, WritePending PROVE UpdateInv'
<1>1. OpGoes("spawn") /\ Slot' = Slot /\ UNCHANGED <<file, record, helper, recovery, old>>
  BY OpStep DEF UpdateInv, WritePending, OpGoes, Slot
<1>2. op.step = "pending" /\ record # NoRecord /\ helper = NoHelper /\ Ready(Slot)
  BY DEF UpdateInv, WritePending, Turns, Prepared
<1>3. op.kind \in {"update", "rollback"}
  BY <1>2, OpFields DEF UpdateInv
<1>4. TypeOK'
  BY <1>1 DEF UpdateInv, WritePending, disk, TypeOK, OpGoes
<1>5. Turns'
  BY <1>1 DEF UpdateInv, WritePending, disk, TypeOK, Turns, Slot, OpGoes
<1>6. Prepared'
  BY <1>1 DEF UpdateInv, WritePending, disk, TypeOK, Prepared, Turns, Slot,
     Ready, Other, OpGoes
<1>7. HelperAt'
  BY <1>1 DEF UpdateInv, WritePending, disk, TypeOK, HelperAt, Turns, Ready,
     Other, Aside, Untouched, Committed, Tidy, Slot
<1>8. RestKept'
  BY <1>1, <1>2, <1>3 DEF RestKept, AtRest, Untouched, Ready, Slot
<1>9. SavedOwn'
  BY <1>1 DEF UpdateInv, WritePending, disk, TypeOK, SavedOwn, HelperAt, Turns,
     Aside
<1>10. RecoveryAt'
  BY <1>1 DEF UpdateInv, WritePending, disk, TypeOK, RecoveryAt, Turns,
     Undoable, Committed, Tidy, BackupSource, Incoming
<1>11. LabelsFollow'
  BY <1>1 DEF UpdateInv, WritePending, disk, TypeOK, LabelsFollow, Turns,
     Names, BackupIdle, BackupBefore, OpGoes
<1>12. HelperLabels'
  BY <1>1 DEF UpdateInv, WritePending, disk, TypeOK, HelperLabels, HelperAt,
     Turns, Untouched, Committed, Tidy
<1> QED BY <1>4, <1>5, <1>6, <1>7, <1>8, <1>9, <1>10, <1>11, <1>12 DEF UpdateInv

LEMMA SpawnInv == ASSUME UpdateInv, Spawn PROVE UpdateInv'
<1>1. OpGoes("own") /\ Slot' = Slot /\ UNCHANGED <<file, label, record, recovery, old>>
  BY OpStep DEF UpdateInv, Spawn, OpGoes, Slot, disk
<1>2. op.step = "spawn" /\ record # NoRecord /\ Ready(Slot)
  BY DEF UpdateInv, Spawn, Turns, Prepared
<1>3. Slot \in {"new", "rollback"} /\ op.who \in {"daemon", "cli"}
  BY <1>2, OpFields DEF UpdateInv
<1>4. /\ helper' \in Process /\ helper' # NoHelper /\ helper'.step = "wait"
      /\ helper'.slot = Slot /\ helper'.parent = op.who
      /\ helper'.saved = FALSE /\ helper'.labelled = FALSE
  BY <1>3 DEF Spawn
<1>5. TypeOK'
  BY <1>1, <1>4 DEF UpdateInv, Spawn, disk, TypeOK, Slot, OpGoes
<1>6. Turns'
  BY <1>1, <1>4 DEF UpdateInv, Spawn, disk, TypeOK, Slot, Turns, OpGoes
<1>7. Prepared'
  BY <1>1, <1>4 DEF UpdateInv, Spawn, disk, TypeOK, Slot, Prepared, Turns,
     Ready, Other, OpGoes
<1>8. HelperAt'
  BY <1>1, <1>2, <1>3, <1>4 DEF HelperAt, Ready, Other
<1>9. RestKept'
  BY <1>1, <1>4 DEF UpdateInv, Spawn, disk, TypeOK, Slot, RestKept, AtRest,
     Untouched, Opened, Emptied, Filled, Committed, Tidy, BackupIn, HelperAt,
     Aside, Ready, Other, Turns
<1>10. SavedOwn'
  BY <1>1, <1>4 DEF UpdateInv, Spawn, disk, TypeOK, Slot, SavedOwn, HelperAt,
     Turns, Aside
<1>11. RecoveryAt'
  BY <1>1, <1>4 DEF UpdateInv, Spawn, disk, TypeOK, Slot, RecoveryAt, Turns,
     Undoable, Committed, Tidy, BackupSource, Incoming
<1>12. LabelsFollow'
  BY <1>1, <1>4 DEF UpdateInv, Spawn, disk, TypeOK, Slot, LabelsFollow, Turns,
     Names, BackupIdle, BackupBefore, OpGoes
<1>13. HelperLabels'
  BY <1>1, <1>2, <1>4 DEF UpdateInv, HelperLabels, LabelsFollow
<1> QED BY <1>5, <1>6, <1>7, <1>8, <1>9, <1>10, <1>11, <1>12, <1>13 DEF UpdateInv

LEMMA OwnInv == ASSUME UpdateInv, Own PROVE UpdateInv'
<1>1. OpGoes("exit") /\ Slot' = Slot /\ UNCHANGED <<file, label, helper, recovery, mistaken>>
  BY OpStep DEF UpdateInv, Own, OpGoes, Slot
<1>2. op.step = "own" /\ record # NoRecord
  BY DEF UpdateInv, Own, Turns
<1>3. /\ record' \in Swap /\ record' # NoRecord
      /\ record'.original = record.original /\ record'.incoming = record.incoming
      /\ record'.previous = record.previous /\ record'.stray = record.stray
      /\ record'.originalName = record.originalName
      /\ record'.previousName = record.previousName
  BY <1>2, RecordOwned DEF UpdateInv, Own
<1>4. TypeOK'
  <2>1. op' \in Operation("update", Builds) \cup Operation("rollback", {None})
    BY <1>1 DEF OpGoes
  <2>2. old' \in BOOLEAN /\ UNCHANGED <<lock, daemon, faults>>
    BY DEF Own
  <2> QED  BY <1>1, <1>3, <2>1, <2>2 DEF UpdateInv, TypeOK
<1>5. Turns'
  BY <1>1, <1>2, <1>3 DEF UpdateInv, Own, disk, TypeOK, Turns, Slot, OpGoes
<1>6. Prepared'
  BY <1>1, <1>2, <1>3 DEF UpdateInv, Own, disk, TypeOK, Prepared, Turns, Slot,
     Ready, Other, OpGoes
<1>7. HelperAt'
  BY <1>1, <1>2, <1>3 DEF UpdateInv, Own, disk, TypeOK, HelperAt, Turns, Ready,
     Other, Aside, Untouched, Committed, Tidy, Slot, OpGoes
<1>8. RestKept'
  BY <1>1, <1>2, <1>3 DEF UpdateInv, Own, disk, TypeOK, RestKept, AtRest,
     Untouched, Opened, Emptied, Filled, Committed, Tidy, BackupIn, HelperAt,
     Aside, Ready, Other, Turns, OpGoes
<1>9. SavedOwn'
  BY <1>1, <1>2, <1>3 DEF UpdateInv, Own, disk, TypeOK, SavedOwn, HelperAt,
     Turns, Aside, OpGoes
<1>10. RecoveryAt'
  BY <1>1, <1>2, <1>3 DEF UpdateInv, Own, disk, TypeOK, RecoveryAt, Turns,
     Undoable, Committed, Tidy, BackupSource, Incoming, OpGoes
<1>11. LabelsFollow'
  BY <1>1, <1>2, <1>3 DEF UpdateInv, Own, disk, TypeOK, LabelsFollow, Turns,
     Names, BackupIdle, BackupBefore, OpGoes
<1>12. HelperLabels'
  BY <1>1, <1>2, <1>3 DEF UpdateInv, Own, disk, TypeOK, HelperLabels, HelperAt,
     Turns, Untouched, Committed, Tidy, OpGoes
<1> QED BY <1>4, <1>5, <1>6, <1>7, <1>8, <1>9, <1>10, <1>11, <1>12 DEF UpdateInv

LEMMA ExitInv == ASSUME UpdateInv, Exit PROVE UpdateInv'
<1>0. /\ GoesOn
      /\ helper'.step = helper.step \/ helper.parent = op.who
  BY ReleasedGoesOn DEF UpdateInv, Exit, TypeOK, disk, Turns
<1>1. TypeOK'
  BY <1>0 DEF UpdateInv, Exit, disk, TypeOK, GoesOn
<1>2. Turns'
  BY <1>0 DEF UpdateInv, Exit, disk, TypeOK, Turns, Slot, GoesOn
<1>3. Prepared'
  BY <1>0 DEF UpdateInv, Exit, disk, TypeOK, Prepared, Turns, Slot, Ready,
     Other
<1>4. HelperAt'
  BY <1>0 DEF UpdateInv, Exit, disk, TypeOK, HelperAt, Turns, Ready, Other,
     Aside, Untouched, Committed, Tidy, Slot, GoesOn
<1>5. RestKept'
  BY <1>0 DEF UpdateInv, Exit, disk, TypeOK, RestKept, AtRest, Untouched,
     Opened, Emptied, Filled, Committed, Tidy, BackupIn, HelperAt, Aside,
     Ready, Other, Turns
<1>6. SavedOwn'
  BY <1>0 DEF UpdateInv, Exit, disk, TypeOK, SavedOwn, HelperAt, Turns, Aside
<1>7. RecoveryAt'
  BY <1>0 DEF UpdateInv, Exit, disk, TypeOK, RecoveryAt, Turns, Undoable,
     Committed, Tidy, BackupSource, Incoming
<1>8. LabelsFollow'
  BY <1>0 DEF UpdateInv, Exit, disk, TypeOK, LabelsFollow, Turns, Names,
     BackupIdle, BackupBefore
<1>9. HelperLabels'
  BY <1>0 DEF UpdateInv, Exit, disk, TypeOK, HelperLabels, HelperAt, Turns,
     Untouched, Committed, Tidy, GoesOn
<1> QED BY <1>1, <1>2, <1>3, <1>4, <1>5, <1>6, <1>7, <1>8, <1>9 DEF UpdateInv

LEMMA StagingFailsInv == ASSUME UpdateInv, StagingFails PROVE UpdateInv'
<1>0. /\ GoesOn
      /\ helper'.step = helper.step \/ helper.parent = "cli"
  BY ReleasedGoesOn DEF UpdateInv, StagingFails, Returns, TypeOK, disk, Turns
<1>1. TypeOK'
  BY <1>0 DEF UpdateInv, StagingFails, disk, TypeOK, Returns, Slot, Fault,
     GoesOn
<1>2. Turns'
  BY <1>0 DEF UpdateInv, StagingFails, disk, TypeOK, Returns, Slot, Fault,
     Turns, GoesOn
<1>3. Prepared'
  BY <1>0 DEF UpdateInv, StagingFails, disk, TypeOK, Returns, Slot, Fault,
     Prepared, Turns, Ready, Other
<1>4. HelperAt'
  BY <1>0 DEF UpdateInv, StagingFails, disk, TypeOK, Returns, Slot, Fault,
     HelperAt, Turns, Ready, Other, Aside, Untouched, Committed, Tidy, GoesOn
<1>5. RestKept'
  BY <1>0 DEF UpdateInv, StagingFails, disk, TypeOK, Returns, Slot, Fault,
     RestKept, AtRest, Untouched, Opened, Emptied, Filled, Committed, Tidy,
     BackupIn, HelperAt, Aside, Ready, Other, Turns
<1>6. SavedOwn'
  BY <1>0 DEF UpdateInv, StagingFails, disk, TypeOK, Returns, Slot, Fault,
     SavedOwn, HelperAt, Turns, Aside
<1>7. RecoveryAt'
  BY <1>0 DEF UpdateInv, StagingFails, disk, TypeOK, Returns, Slot, Fault,
     RecoveryAt, Turns, Undoable, Committed, Tidy, BackupSource, Incoming
<1>8. LabelsFollow'
  BY <1>0 DEF UpdateInv, StagingFails, disk, TypeOK, Returns, Slot, Fault,
     LabelsFollow, Turns, Names, BackupIdle, BackupBefore
<1>9. HelperLabels'
  BY <1>0 DEF UpdateInv, StagingFails, disk, TypeOK, Returns, Slot, Fault,
     HelperLabels, HelperAt, Turns, Untouched, Committed, Tidy, GoesOn
<1> QED BY <1>1, <1>2, <1>3, <1>4, <1>5, <1>6, <1>7, <1>8, <1>9 DEF UpdateInv

LEMMA UnstagedInv == ASSUME UpdateInv, Unstaged PROVE UpdateInv'
<1>1. op.step # "none" /\ op' = NoOp /\ helper = NoHelper /\ recovery = NoRecovery
  BY DEF UpdateInv, Unstaged, Returns, Turns
<1>2. helper' = NoHelper /\ recovery' = NoRecovery
  BY <1>1 DEF Unstaged, Returns, Released
<1> DEFINE f == IF op.step = "spawn" /\ op.kind = "update"
                THEN [file EXCEPT !["new"] = None] ELSE file
<1>3. /\ file' \in {f, BackupReturned(f)} /\ f \in [Places -> Held]
      /\ \A q \in Places \ {"new"} : f[q] = file[q]
  BY DEF UpdateInv, TypeOK, Unstaged
<1> HIDE DEF f
<1>4. /\ file' \in [Places -> Held]
      /\ file'["install"] = file["install"] /\ file'["saved"] = file["saved"]
      /\ \/ file'["previous"] = file["previous"] /\ file'["rollback"] = file["rollback"]
         \/ /\ op.kind = "rollback" /\ file["previous"] = None
            /\ file'["previous"] = file["rollback"] /\ file'["rollback"] = None
  BY <1>3 DEF BackupReturned
<1>5. /\ record' \in {NoRecord, record} /\ label' \in [Labels -> Held]
      /\ label'["previous"] = label["previous"] /\ UNCHANGED <<old, mistaken>>
  BY DEF UpdateInv, TypeOK, Unstaged
<1>6. /\ op.step = "record" => record = NoRecord
      /\ op.step # "record" => op.step \in {"pending", "spawn"} /\ record # NoRecord /\ Untouched
      /\ op.step # "record" /\ op.kind = "update" => file["previous"] = record.previous
      /\ op.step # "record" => record.original # None
      /\ op.step # "record" /\ op.kind = "rollback" => record.previous # None
  BY <1>1, RecordFields DEF UpdateInv, Unstaged, Turns, Prepared, Ready, Slot, Untouched
<1>7. op.kind \in {"update", "rollback"}
  BY <1>1, OpFields DEF UpdateInv
<1>8. TypeOK'
  BY <1>2, <1>4, <1>5 DEF UpdateInv, TypeOK, Unstaged, Returns, Fault
<1>9. Turns'
  BY <1>1, <1>2, <1>4, <1>5, <1>6 DEF UpdateInv, Turns, Untouched
<1>10. Prepared'
  BY <1>1, <1>2, <1>4, <1>5, <1>6, <1>7 DEF UpdateInv, TypeOK, Prepared, Turns,
     Slot, Ready, Other
<1>11. HelperAt'
  BY <1>2 DEF HelperAt
<1>12. RestKept'
  BY <1>4, <1>5, <1>6 DEF RestKept, AtRest, Untouched
<1>13. SavedOwn'
  BY <1>1, <1>2, <1>4, <1>5, <1>6, <1>7 DEF UpdateInv, TypeOK, SavedOwn,
     HelperAt, Turns, Aside
<1>14. RecoveryAt'
  BY <1>2 DEF RecoveryAt
<1>15. LabelsFollow'
  BY <1>1, <1>2, <1>4, <1>5, <1>6 DEF UpdateInv, LabelsFollow, Names,
     BackupIdle, BackupBefore, Untouched
<1>16. HelperLabels'
  BY <1>2 DEF HelperLabels
<1> QED BY <1>8, <1>9, <1>10, <1>11, <1>12, <1>13, <1>14, <1>15, <1>16 DEF UpdateInv

LEMMA DisownedInv == ASSUME UpdateInv, Disowned PROVE UpdateInv'
<1>1. /\ op.step = "own" /\ record # NoRecord /\ op.kind \in {"update", "rollback"}
      /\ helper # NoHelper /\ helper.step = "wait" /\ helper.slot = Slot /\ Ready(Slot)
      /\ recovery = NoRecovery
  BY OpFields DEF UpdateInv, Disowned, Turns, HelperAt
<1>2. helper' = NoHelper \/ (helper' # NoHelper /\ GoesOn)
  BY <1>1, ReleasedGoesOn DEF UpdateInv, Disowned, GoesOn
<1>3. /\ file' \in [Places -> Held] /\ file'["new"] = file["new"]
      /\ file'["install"] = file["install"] /\ file'["saved"] = file["saved"]
      /\ \/ file'["previous"] = file["previous"] /\ file'["rollback"] = file["rollback"]
         \/ /\ op.kind = "rollback" /\ file["previous"] = None
            /\ file'["previous"] = file["rollback"] /\ file'["rollback"] = None
  BY DEF UpdateInv, TypeOK, Disowned, BackupReturned
<1>4. op' = NoOp /\ UNCHANGED <<label, record, old, recovery, mistaken, daemon>>
  BY DEF Disowned
<1>5. /\ file'["install"] = record.original
      /\ file'[helper.slot] \in {record.incoming, None}
      /\ helper.slot = "new" => file'["previous"] = record.previous
      /\ helper.slot = "rollback" =>
            /\ record.incoming = record.previous /\ record.previous # None
            /\ \/ file'["previous"] = record.previous
               \/ file'["previous"] = None /\ file'["rollback"] = record.previous
      /\ ~record.stray => file'[Other(helper.slot)] = None
  BY <1>1, <1>3, RecordFields DEF UpdateInv, Ready, Slot, Other
<1>6. TypeOK'
  BY <1>2, <1>3, <1>4 DEF UpdateInv, TypeOK, GoesOn, Disowned, Fault
<1>7. Turns'
  BY <1>1, <1>4 DEF Turns
<1>8. Prepared'
  BY <1>4 DEF Prepared
<1>9. HelperAt'
  BY <1>1, <1>2, <1>4, <1>5 DEF HelperAt, GoesOn, Ready
<1>10. RestKept'
  BY <1>1, <1>4, <1>5 DEF RestKept, AtRest, Untouched, Slot
<1>11. SavedOwn'
  BY <1>3, <1>4 DEF UpdateInv, SavedOwn
<1>12. RecoveryAt'
  BY <1>1, <1>4 DEF RecoveryAt
<1>13. LabelsFollow'
  BY <1>1, <1>3, <1>4, <1>5 DEF UpdateInv, LabelsFollow, Names, BackupBefore,
     Slot
<1>14. HelperLabels'
  BY <1>1, <1>2, <1>4 DEF UpdateInv, HelperLabels, GoesOn
<1> QED BY <1>6, <1>7, <1>8, <1>9, <1>10, <1>11, <1>12, <1>13, <1>14 DEF UpdateInv

LEMMA SaveBackupInv == ASSUME UpdateInv, SaveBackup PROVE UpdateInv'
<1>1. /\ helper # NoHelper /\ helper.step = "begin" /\ record # NoRecord
      /\ helper.slot \in {"new", "rollback"} /\ Ready(helper.slot) /\ ~helper.labelled
  BY DEF UpdateInv, TypeOK, SaveBackup, At, Turns, HelperAt, HelperLabels
<1>2. /\ record.original # None /\ record.incoming # None
      /\ UNCHANGED <<label, record, old, recovery, op, mistaken>>
  BY <1>1, RecordFields DEF UpdateInv, SaveBackup, Kept
<1>3. \/ HelperGoes("giveup") /\ helper'.labelled = FALSE /\ UNCHANGED file
      \/ /\ label["pending"] # None /\ file["saved"] = None
         /\ HelperGoes("label") /\ helper'.labelled = FALSE
         /\ helper'.saved = (file["previous"] # None)
         /\ file' = IF file["previous"] # None THEN Moved("previous", "saved") ELSE file
  <2>1. CASE helper' = [helper EXCEPT !.step = "giveup"] /\ UNCHANGED file
    BY <1>1, <2>1, HelperStep DEF UpdateInv, TypeOK
  <2>2. CASE /\ helper' = [helper EXCEPT !.step = "label", !.saved = file["previous"] # None]
             /\ label["pending"] # None /\ file["saved"] = None
             /\ file' = IF file["previous"] # None THEN Moved("previous", "saved") ELSE file
    <3>1. (file["previous"] # None) \in BOOLEAN
      OBVIOUS
    <3>2. /\ HelperGoes("label") /\ helper'.labelled = helper.labelled
          /\ helper'.saved = (file["previous"] # None)
      BY <1>1, <2>2, <3>1, HelperStep DEF UpdateInv
    <3> QED BY <1>1, <2>2, <3>2 DEF UpdateInv, TypeOK
  <2> QED BY <2>1, <2>2 DEF SaveBackup, To
<1>4. /\ file' \in [Places -> Held] /\ file'["install"] = file["install"]
      /\ file'["new"] = file["new"] /\ file'["rollback"] = file["rollback"]
      /\ \/ file'["previous"] = file["previous"] /\ file'["saved"] = file["saved"]
         \/ /\ file["previous"] # None /\ file'["previous"] = None
            /\ file'["saved"] = file["previous"]
  BY <1>3 DEF UpdateInv, TypeOK, Moved
<1>5. TypeOK'
  BY <1>2, <1>3, <1>4 DEF UpdateInv, TypeOK, SaveBackup, HelperGoes, Kept
<1>6. Turns'
  BY <1>1, <1>2, <1>3, <1>4 DEF UpdateInv, TypeOK, Moved, HelperGoes, Turns,
     Slot
<1>7. Prepared'
  BY <1>1, <1>2, <1>3, <1>4 DEF UpdateInv, TypeOK, Moved, HelperGoes, Prepared,
     Turns, Slot, Ready, Other
<1>8. HelperAt'
  BY <1>1, <1>2, <1>3, <1>4 DEF UpdateInv, TypeOK, Moved, HelperGoes, HelperAt,
     Turns, Ready, Other, Aside, Untouched, Committed, Tidy, Slot
<1>9. RestKept'
  BY <1>1, <1>2, <1>3, <1>4 DEF UpdateInv, TypeOK, Moved, HelperGoes, RestKept,
     AtRest, Untouched, Opened, Emptied, Filled, Committed, Tidy, BackupIn,
     HelperAt, Aside, Ready, Other, Turns
<1>10. SavedOwn'
  BY <1>1, <1>2, <1>4 DEF UpdateInv, SavedOwn, Ready
<1>11. RecoveryAt'
  BY <1>1, <1>2, <1>3, <1>4 DEF UpdateInv, TypeOK, Moved, HelperGoes,
     RecoveryAt, Turns, Undoable, Committed, Tidy, BackupSource, Incoming
<1>12. LabelsFollow'
  BY <1>1, <1>2, <1>3, <1>4 DEF UpdateInv, TypeOK, Moved, HelperGoes,
     LabelsFollow, Turns, Names, BackupIdle, BackupBefore
<1>13. HelperLabels'
  BY <1>1, <1>2, <1>3, <1>4 DEF UpdateInv, TypeOK, Moved, HelperGoes,
     HelperLabels, HelperAt, Turns, Untouched, Committed, Tidy
<1> QED BY <1>5, <1>6, <1>7, <1>8, <1>9, <1>10, <1>11, <1>12, <1>13 DEF UpdateInv

LEMMA SaveLabelInv == ASSUME UpdateInv, SaveLabel PROVE UpdateInv'
<1>1. /\ HelperGoes("original") /\ helper'.saved = helper.saved
      /\ helper'.labelled = (label["previous"] # None)
  <2>1. helper # NoHelper /\ (label["previous"] # None) \in BOOLEAN
    BY DEF SaveLabel, At
  <2> QED BY <2>1, HelperStep DEF UpdateInv, SaveLabel
<1>2. /\ label' \in [Labels -> Held] /\ label'["saved"] = label["previous"]
      /\ label'["previous"] = label["previous"] /\ label'["pending"] = label["pending"]
  BY DEF UpdateInv, TypeOK, SaveLabel
<1>3. TypeOK'
  BY <1>1, <1>2 DEF UpdateInv, TypeOK, SaveLabel, HelperGoes, Kept
<1>4. Turns'
  BY <1>1, <1>2 DEF UpdateInv, SaveLabel, disk, TypeOK, At, Kept, Turns, Slot,
     HelperGoes
<1>5. Prepared'
  BY <1>1, <1>2 DEF UpdateInv, SaveLabel, disk, TypeOK, At, Kept, Prepared,
     Turns, Slot, Ready, Other, HelperGoes
<1>6. HelperAt'
  BY <1>1, <1>2 DEF UpdateInv, SaveLabel, disk, TypeOK, At, Kept, HelperAt,
     Turns, Ready, Other, Aside, Untouched, Committed, Tidy, Slot, HelperGoes
<1>7. RestKept'
  BY <1>1, <1>2 DEF UpdateInv, SaveLabel, disk, TypeOK, At, Kept, RestKept,
     AtRest, Untouched, Opened, Emptied, Filled, Committed, Tidy, BackupIn,
     HelperAt, Aside, Ready, Other, Turns, HelperGoes
<1>8. SavedOwn'
  BY <1>1, <1>2 DEF UpdateInv, SaveLabel, disk, TypeOK, At, Kept, SavedOwn,
     HelperAt, Turns, Aside, HelperGoes
<1>9. RecoveryAt'
  BY <1>1, <1>2 DEF UpdateInv, SaveLabel, disk, TypeOK, At, Kept, RecoveryAt,
     Turns, Undoable, Committed, Tidy, BackupSource, Incoming, HelperGoes
<1>10. LabelsFollow'
  BY <1>1, <1>2 DEF UpdateInv, SaveLabel, disk, TypeOK, At, Kept, LabelsFollow,
     Turns, Names, BackupIdle, BackupBefore, HelperGoes
<1>11. HelperLabels'
  BY <1>1, <1>2 DEF UpdateInv, SaveLabel, disk, TypeOK, At, Kept, HelperLabels,
     HelperAt, Turns, Untouched, Committed, Tidy, HelperGoes
<1> QED BY <1>3, <1>4, <1>5, <1>6, <1>7, <1>8, <1>9, <1>10, <1>11 DEF UpdateInv

LEMMA MoveOriginalInv == ASSUME UpdateInv, MoveOriginal PROVE UpdateInv'
<1>1. TypeOK'
  BY DEF UpdateInv, MoveOriginal, disk, TypeOK, Moved, At, To, Kept
<1>2. Turns'
  BY DEF UpdateInv, MoveOriginal, disk, TypeOK, Moved, At, To, Kept, Turns,
     Slot
<1>3. Prepared'
  BY DEF UpdateInv, MoveOriginal, disk, TypeOK, Moved, At, To, Kept, Prepared,
     Turns, Slot, Ready, Other
<1>4. HelperAt'
  BY DEF UpdateInv, MoveOriginal, disk, TypeOK, Moved, At, To, Kept, HelperAt,
     Turns, Ready, Other, Aside, Untouched, Committed, Tidy, Slot
<1>5. RestKept'
  BY DEF UpdateInv, MoveOriginal, disk, TypeOK, Moved, At, To, Kept, RestKept,
     AtRest, Untouched, Opened, Emptied, Filled, Committed, Tidy, BackupIn,
     HelperAt, Aside, Ready, Other, Turns
<1>6. SavedOwn'
  BY DEF UpdateInv, MoveOriginal, disk, TypeOK, Moved, At, To, Kept, SavedOwn,
     HelperAt, Turns, Aside
<1>7. RecoveryAt'
  BY DEF UpdateInv, MoveOriginal, disk, TypeOK, Moved, At, To, Kept,
     RecoveryAt, Turns, Undoable, Committed, Tidy, BackupSource, Incoming
<1>8. LabelsFollow'
  BY DEF UpdateInv, MoveOriginal, disk, TypeOK, Moved, At, To, Kept,
     LabelsFollow, Turns, Names, BackupIdle, BackupBefore
<1>9. HelperLabels'
  BY DEF UpdateInv, MoveOriginal, disk, TypeOK, Moved, At, To, Kept,
     HelperLabels, HelperAt, Turns, Untouched, Committed, Tidy
<1> QED BY <1>1, <1>2, <1>3, <1>4, <1>5, <1>6, <1>7, <1>8, <1>9 DEF UpdateInv

LEMMA MoveIncomingInv == ASSUME UpdateInv, MoveIncoming PROVE UpdateInv'
<1>1. TypeOK'
  BY DEF UpdateInv, MoveIncoming, disk, TypeOK, Moved, At, To, Kept
<1>2. Turns'
  BY DEF UpdateInv, MoveIncoming, disk, TypeOK, Moved, At, To, Kept, Turns,
     Slot
<1>3. Prepared'
  BY DEF UpdateInv, MoveIncoming, disk, TypeOK, Moved, At, To, Kept, Prepared,
     Turns, Slot, Ready, Other
<1>4. HelperAt'
  BY DEF UpdateInv, MoveIncoming, disk, TypeOK, Moved, At, To, Kept, HelperAt,
     Turns, Ready, Other, Aside, Untouched, Committed, Tidy, Slot
<1>5. RestKept'
  BY DEF UpdateInv, MoveIncoming, disk, TypeOK, Moved, At, To, Kept, RestKept,
     AtRest, Untouched, Opened, Emptied, Filled, Committed, Tidy, BackupIn,
     HelperAt, Aside, Ready, Other, Turns
<1>6. SavedOwn'
  BY DEF UpdateInv, MoveIncoming, disk, TypeOK, Moved, At, To, Kept, SavedOwn,
     HelperAt, Turns, Aside
<1>7. RecoveryAt'
  BY DEF UpdateInv, MoveIncoming, disk, TypeOK, Moved, At, To, Kept,
     RecoveryAt, Turns, Undoable, Committed, Tidy, BackupSource, Incoming
<1>8. LabelsFollow'
  BY DEF UpdateInv, MoveIncoming, disk, TypeOK, Moved, At, To, Kept,
     LabelsFollow, Turns, Names, BackupIdle, BackupBefore
<1>9. HelperLabels'
  BY DEF UpdateInv, MoveIncoming, disk, TypeOK, Moved, At, To, Kept,
     HelperLabels, HelperAt, Turns, Untouched, Committed, Tidy
<1> QED BY <1>1, <1>2, <1>3, <1>4, <1>5, <1>6, <1>7, <1>8, <1>9 DEF UpdateInv

LEMMA CommitLabelInv == ASSUME UpdateInv, CommitLabel PROVE UpdateInv'
<1>1. TypeOK'
  BY DEF UpdateInv, CommitLabel, disk, TypeOK, At, To, Kept
<1>2. Turns'
  BY DEF UpdateInv, CommitLabel, disk, TypeOK, At, To, Kept, Turns, Slot
<1>3. Prepared'
  BY DEF UpdateInv, CommitLabel, disk, TypeOK, At, To, Kept, Prepared, Turns,
     Slot, Ready, Other
<1>4. HelperAt'
  BY DEF UpdateInv, CommitLabel, disk, TypeOK, At, To, Kept, HelperAt, Turns,
     Ready, Other, Aside, Untouched, Committed, Tidy, Slot
<1>5. RestKept'
  BY DEF UpdateInv, CommitLabel, disk, TypeOK, At, To, Kept, RestKept, AtRest,
     Untouched, Opened, Emptied, Filled, Committed, Tidy, BackupIn, HelperAt,
     Aside, Ready, Other, Turns
<1>6. SavedOwn'
  BY DEF UpdateInv, CommitLabel, disk, TypeOK, At, To, Kept, SavedOwn,
     HelperAt, Turns, Aside
<1>7. RecoveryAt'
  BY DEF UpdateInv, CommitLabel, disk, TypeOK, At, To, Kept, RecoveryAt, Turns,
     Undoable, Committed, Tidy, BackupSource, Incoming
<1>8. LabelsFollow'
  BY DEF UpdateInv, CommitLabel, disk, TypeOK, At, To, Kept, LabelsFollow,
     Turns, Names, BackupIdle, BackupBefore
<1>9. HelperLabels'
  BY DEF UpdateInv, CommitLabel, disk, TypeOK, At, To, Kept, HelperLabels,
     HelperAt, Turns, Untouched, Committed, Tidy
<1> QED BY <1>1, <1>2, <1>3, <1>4, <1>5, <1>6, <1>7, <1>8, <1>9 DEF UpdateInv

LEMMA CleanInv == ASSUME UpdateInv, Clean PROVE UpdateInv'
<1>1. TypeOK'
  BY DEF UpdateInv, Clean, disk, TypeOK, At, To, Kept, Fault
<1>2. Turns'
  BY DEF UpdateInv, Clean, disk, TypeOK, At, To, Kept, Fault, Turns, Slot
<1>3. Prepared'
  BY DEF UpdateInv, Clean, disk, TypeOK, At, To, Kept, Fault, Prepared, Turns,
     Slot, Ready, Other
<1>4. HelperAt'
  BY DEF UpdateInv, Clean, disk, TypeOK, At, To, Kept, Fault, HelperAt, Turns,
     Ready, Other, Aside, Untouched, Committed, Tidy, Slot
<1>5. RestKept'
  BY DEF UpdateInv, Clean, disk, TypeOK, At, To, Kept, Fault, RestKept, AtRest,
     Untouched, Opened, Emptied, Filled, Committed, Tidy, BackupIn, HelperAt,
     Aside, Ready, Other, Turns
<1>6. SavedOwn'
  BY DEF UpdateInv, Clean, disk, TypeOK, At, To, Kept, Fault, SavedOwn,
     HelperAt, Turns, Aside
<1>7. RecoveryAt'
  BY DEF UpdateInv, Clean, disk, TypeOK, At, To, Kept, Fault, RecoveryAt,
     Turns, Undoable, Committed, Tidy, BackupSource, Incoming
<1>8. LabelsFollow'
  BY DEF UpdateInv, Clean, disk, TypeOK, At, To, Kept, Fault, LabelsFollow,
     Turns, Names, BackupIdle, BackupBefore
<1>9. HelperLabels'
  BY DEF UpdateInv, Clean, disk, TypeOK, At, To, Kept, Fault, HelperLabels,
     HelperAt, Turns, Untouched, Committed, Tidy
<1> QED BY <1>1, <1>2, <1>3, <1>4, <1>5, <1>6, <1>7, <1>8, <1>9 DEF UpdateInv

LEMMA DropInv == ASSUME UpdateInv, Drop PROVE UpdateInv'
<1>1. /\ helper.step = "drop" /\ record # NoRecord /\ helper # NoHelper /\ recovery = NoRecovery
      /\ helper' = NoHelper /\ record' \in {NoRecord, record}
      /\ UNCHANGED <<file, label, old, op, recovery, mistaken>>
  BY DEF UpdateInv, Turns, Drop, At, Kept
<1>2. /\ op.step \in {"none", "stage"}
      /\ record.original # None /\ record.incoming # None /\ record.previous \in Held
  BY <1>1, RecordFields DEF UpdateInv, TypeOK, Turns
<1>3. \/ Untouched /\ label["previous"] = record.previousName
      \/ Committed /\ Tidy /\ label["previous"] = record.originalName
  BY <1>1 DEF UpdateInv, HelperLabels
<1>4. TypeOK'
  BY DEF UpdateInv, Drop, disk, TypeOK, At, Kept, Fault
<1>5. Turns'
  BY <1>1, <1>2, <1>3 DEF UpdateInv, Turns, Untouched, Committed
<1>6. Prepared'
  BY DEF UpdateInv, Drop, disk, TypeOK, At, Kept, Fault, Prepared, Turns, Slot,
     Ready, Other
<1>7. HelperAt'
  BY DEF UpdateInv, Drop, disk, TypeOK, At, Kept, Fault, HelperAt, Turns,
     Ready, Other, Aside, Untouched, Committed, Tidy, Slot
<1>8. RestKept'
  BY DEF UpdateInv, Drop, disk, TypeOK, At, Kept, Fault, RestKept, AtRest,
     Untouched, Opened, Emptied, Filled, Committed, Tidy, BackupIn, HelperAt,
     Aside, Ready, Other, Turns
<1>9. SavedOwn'
  BY DEF UpdateInv, Drop, disk, TypeOK, At, Kept, Fault, SavedOwn, HelperAt,
     Turns, Aside
<1>10. RecoveryAt'
  BY DEF UpdateInv, Drop, disk, TypeOK, At, Kept, Fault, RecoveryAt, Turns,
     Undoable, Committed, Tidy, BackupSource, Incoming
<1>11. LabelsFollow'
  BY <1>1, <1>2, <1>3 DEF UpdateInv, LabelsFollow, Names, BackupIdle,
     BackupBefore, Untouched, Committed
<1>12. HelperLabels'
  BY DEF UpdateInv, Drop, disk, TypeOK, At, Kept, Fault, HelperLabels,
     HelperAt, Turns, Untouched, Committed, Tidy
<1> QED BY <1>4, <1>5, <1>6, <1>7, <1>8, <1>9, <1>10, <1>11, <1>12 DEF UpdateInv

LEMMA MoveFailsInv == ASSUME UpdateInv, MoveFails PROVE UpdateInv'
<1>1. TypeOK'
  BY DEF UpdateInv, MoveFails, disk, TypeOK, At, Kept, Fault, WayBack
<1>2. Turns'
  BY DEF UpdateInv, MoveFails, disk, TypeOK, At, Kept, Fault, WayBack, Turns,
     Slot
<1>3. Prepared'
  BY DEF UpdateInv, MoveFails, disk, TypeOK, At, Kept, Fault, WayBack,
     Prepared, Turns, Slot, Ready, Other
<1>4. HelperAt'
  BY DEF UpdateInv, MoveFails, disk, TypeOK, At, Kept, Fault, WayBack,
     HelperAt, Turns, Ready, Other, Aside, Untouched, Committed, Tidy, Slot
<1>5. RestKept'
  BY DEF UpdateInv, MoveFails, disk, TypeOK, At, Kept, Fault, WayBack,
     RestKept, AtRest, Untouched, Opened, Emptied, Filled, Committed, Tidy,
     BackupIn, HelperAt, Aside, Ready, Other, Turns
<1>6. SavedOwn'
  BY DEF UpdateInv, MoveFails, disk, TypeOK, At, Kept, Fault, WayBack,
     SavedOwn, HelperAt, Turns, Aside
<1>7. RecoveryAt'
  BY DEF UpdateInv, MoveFails, disk, TypeOK, At, Kept, Fault, WayBack,
     RecoveryAt, Turns, Undoable, Committed, Tidy, BackupSource, Incoming
<1>8. LabelsFollow'
  BY DEF UpdateInv, MoveFails, disk, TypeOK, At, Kept, Fault, WayBack,
     LabelsFollow, Turns, Names, BackupIdle, BackupBefore
<1>9. HelperLabels'
  BY DEF UpdateInv, MoveFails, disk, TypeOK, At, Kept, Fault, WayBack,
     HelperLabels, HelperAt, Turns, Untouched, Committed, Tidy
<1> QED BY <1>1, <1>2, <1>3, <1>4, <1>5, <1>6, <1>7, <1>8, <1>9 DEF UpdateInv

LEMMA UninstallInv == ASSUME UpdateInv, Uninstall PROVE UpdateInv'
<1>1. /\ helper.step = "uninstall" /\ helper # NoHelper /\ record # NoRecord
      /\ helper.slot \in {"new", "rollback"}
  BY DEF UpdateInv, TypeOK, Uninstall, At, Turns
<1>2. /\ op.step \in {"none", "stage"} /\ UNCHANGED <<label, record, op, mistaken>>
      /\ file'["rollback"] = IF helper.slot = "rollback" THEN file["install"] ELSE file["rollback"]
  BY <1>1 DEF UpdateInv, TypeOK, Turns, Uninstall, Moved, Kept
<1>3. helper.slot = "rollback" => record.previous # None
  BY <1>1, RecordFields DEF UpdateInv, HelperAt
<1>4. TypeOK'
  BY DEF UpdateInv, Uninstall, disk, TypeOK, Moved, At, To, Kept
<1>5. Turns'
  BY DEF UpdateInv, Uninstall, disk, TypeOK, Moved, At, To, Kept, Turns, Slot
<1>6. Prepared'
  BY DEF UpdateInv, Uninstall, disk, TypeOK, Moved, At, To, Kept, Prepared,
     Turns, Slot, Ready, Other
<1>7. HelperAt'
  BY DEF UpdateInv, Uninstall, disk, TypeOK, Moved, At, To, Kept, HelperAt,
     Turns, Ready, Other, Aside, Untouched, Committed, Tidy, Slot
<1>8. RestKept'
  BY DEF UpdateInv, Uninstall, disk, TypeOK, Moved, At, To, Kept, RestKept,
     AtRest, Untouched, Opened, Emptied, Filled, Committed, Tidy, BackupIn,
     HelperAt, Aside, Ready, Other, Turns
<1>9. SavedOwn'
  BY DEF UpdateInv, Uninstall, disk, TypeOK, Moved, At, To, Kept, SavedOwn,
     HelperAt, Turns, Aside
<1>10. RecoveryAt'
  BY DEF UpdateInv, Uninstall, disk, TypeOK, Moved, At, To, Kept, RecoveryAt,
     Turns, Undoable, Committed, Tidy, BackupSource, Incoming
<1>11. LabelsFollow'
  BY <1>1, <1>2, <1>3 DEF UpdateInv, LabelsFollow, Names, BackupBefore
<1>12. HelperLabels'
  BY DEF UpdateInv, Uninstall, disk, TypeOK, Moved, At, To, Kept, HelperLabels,
     HelperAt, Turns, Untouched, Committed, Tidy
<1> QED BY <1>4, <1>5, <1>6, <1>7, <1>8, <1>9, <1>10, <1>11, <1>12 DEF UpdateInv

LEMMA RestoreOriginalInv == ASSUME UpdateInv, RestoreOriginal PROVE UpdateInv'
<1>1. TypeOK'
  BY DEF UpdateInv, RestoreOriginal, disk, TypeOK, Moved, At, To, Kept
<1>2. Turns'
  BY DEF UpdateInv, RestoreOriginal, disk, TypeOK, Moved, At, To, Kept, Turns,
     Slot
<1>3. Prepared'
  BY DEF UpdateInv, RestoreOriginal, disk, TypeOK, Moved, At, To, Kept,
     Prepared, Turns, Slot, Ready, Other
<1>4. HelperAt'
  BY DEF UpdateInv, RestoreOriginal, disk, TypeOK, Moved, At, To, Kept,
     HelperAt, Turns, Ready, Other, Aside, Untouched, Committed, Tidy, Slot
<1>5. RestKept'
  BY DEF UpdateInv, RestoreOriginal, disk, TypeOK, Moved, At, To, Kept,
     RestKept, AtRest, Untouched, Opened, Emptied, Filled, Committed, Tidy,
     BackupIn, HelperAt, Aside, Ready, Other, Turns
<1>6. SavedOwn'
  BY DEF UpdateInv, RestoreOriginal, disk, TypeOK, Moved, At, To, Kept,
     SavedOwn, HelperAt, Turns, Aside
<1>7. RecoveryAt'
  BY DEF UpdateInv, RestoreOriginal, disk, TypeOK, Moved, At, To, Kept,
     RecoveryAt, Turns, Undoable, Committed, Tidy, BackupSource, Incoming
<1>8. LabelsFollow'
  BY DEF UpdateInv, RestoreOriginal, disk, TypeOK, Moved, At, To, Kept,
     LabelsFollow, Turns, Names, BackupIdle, BackupBefore
<1>9. HelperLabels'
  BY DEF UpdateInv, RestoreOriginal, disk, TypeOK, Moved, At, To, Kept,
     HelperLabels, HelperAt, Turns, Untouched, Committed, Tidy
<1> QED BY <1>1, <1>2, <1>3, <1>4, <1>5, <1>6, <1>7, <1>8, <1>9 DEF UpdateInv

LEMMA RestoreBackupInv == ASSUME UpdateInv, RestoreBackup PROVE UpdateInv'
<1>1. TypeOK'
  BY DEF UpdateInv, RestoreBackup, disk, TypeOK, Moved, At, To, Kept
<1>2. Turns'
  BY DEF UpdateInv, RestoreBackup, disk, TypeOK, Moved, At, To, Kept, Turns,
     Slot
<1>3. Prepared'
  BY DEF UpdateInv, RestoreBackup, disk, TypeOK, Moved, At, To, Kept, Prepared,
     Turns, Slot, Ready, Other
<1>4. HelperAt'
  BY DEF UpdateInv, RestoreBackup, disk, TypeOK, Moved, At, To, Kept, HelperAt,
     Turns, Ready, Other, Aside, Untouched, Committed, Tidy, Slot
<1>5. RestKept'
  BY DEF UpdateInv, RestoreBackup, disk, TypeOK, Moved, At, To, Kept, RestKept,
     AtRest, Untouched, Opened, Emptied, Filled, Committed, Tidy, BackupIn,
     HelperAt, Aside, Ready, Other, Turns
<1>6. SavedOwn'
  BY DEF UpdateInv, RestoreBackup, disk, TypeOK, Moved, At, To, Kept, SavedOwn,
     HelperAt, Turns, Aside
<1>7. RecoveryAt'
  BY DEF UpdateInv, RestoreBackup, disk, TypeOK, Moved, At, To, Kept,
     RecoveryAt, Turns, Undoable, Committed, Tidy, BackupSource, Incoming
<1>8. LabelsFollow'
  BY DEF UpdateInv, RestoreBackup, disk, TypeOK, Moved, At, To, Kept,
     LabelsFollow, Turns, Names, BackupIdle, BackupBefore
<1>9. HelperLabels'
  BY DEF UpdateInv, RestoreBackup, disk, TypeOK, Moved, At, To, Kept,
     HelperLabels, HelperAt, Turns, Untouched, Committed, Tidy
<1> QED BY <1>1, <1>2, <1>3, <1>4, <1>5, <1>6, <1>7, <1>8, <1>9 DEF UpdateInv

LEMMA RestoreLabelInv == ASSUME UpdateInv, RestoreLabel PROVE UpdateInv'
<1>1. TypeOK'
  BY DEF UpdateInv, RestoreLabel, disk, TypeOK, At, To, Kept
<1>2. Turns'
  BY DEF UpdateInv, RestoreLabel, disk, TypeOK, At, To, Kept, Turns, Slot
<1>3. Prepared'
  BY DEF UpdateInv, RestoreLabel, disk, TypeOK, At, To, Kept, Prepared, Turns,
     Slot, Ready, Other
<1>4. HelperAt'
  BY DEF UpdateInv, RestoreLabel, disk, TypeOK, At, To, Kept, HelperAt, Turns,
     Ready, Other, Aside, Untouched, Committed, Tidy, Slot
<1>5. RestKept'
  BY DEF UpdateInv, RestoreLabel, disk, TypeOK, At, To, Kept, RestKept, AtRest,
     Untouched, Opened, Emptied, Filled, Committed, Tidy, BackupIn, HelperAt,
     Aside, Ready, Other, Turns
<1>6. SavedOwn'
  BY DEF UpdateInv, RestoreLabel, disk, TypeOK, At, To, Kept, SavedOwn,
     HelperAt, Turns, Aside
<1>7. RecoveryAt'
  BY DEF UpdateInv, RestoreLabel, disk, TypeOK, At, To, Kept, RecoveryAt,
     Turns, Undoable, Committed, Tidy, BackupSource, Incoming
<1>8. LabelsFollow'
  BY DEF UpdateInv, RestoreLabel, disk, TypeOK, At, To, Kept, LabelsFollow,
     Turns, Names, BackupIdle, BackupBefore
<1>9. HelperLabels'
  BY DEF UpdateInv, RestoreLabel, disk, TypeOK, At, To, Kept, HelperLabels,
     HelperAt, Turns, Untouched, Committed, Tidy
<1> QED BY <1>1, <1>2, <1>3, <1>4, <1>5, <1>6, <1>7, <1>8, <1>9 DEF UpdateInv

LEMMA GiveUpInv == ASSUME UpdateInv, GiveUp PROVE UpdateInv'
<1>1. TypeOK'
  BY DEF UpdateInv, GiveUp, disk, TypeOK, At, To, Kept, Fault
<1>2. Turns'
  BY DEF UpdateInv, GiveUp, disk, TypeOK, At, To, Kept, Fault, Turns, Slot
<1>3. Prepared'
  BY DEF UpdateInv, GiveUp, disk, TypeOK, At, To, Kept, Fault, Prepared, Turns,
     Slot, Ready, Other
<1>4. HelperAt'
  BY DEF UpdateInv, GiveUp, disk, TypeOK, At, To, Kept, Fault, HelperAt, Turns,
     Ready, Other, Aside, Untouched, Committed, Tidy, Slot
<1>5. RestKept'
  BY DEF UpdateInv, GiveUp, disk, TypeOK, At, To, Kept, Fault, RestKept,
     AtRest, Untouched, Opened, Emptied, Filled, Committed, Tidy, BackupIn,
     HelperAt, Aside, Ready, Other, Turns
<1>6. SavedOwn'
  BY DEF UpdateInv, GiveUp, disk, TypeOK, At, To, Kept, Fault, SavedOwn,
     HelperAt, Turns, Aside
<1>7. RecoveryAt'
  BY DEF UpdateInv, GiveUp, disk, TypeOK, At, To, Kept, Fault, RecoveryAt,
     Turns, Undoable, Committed, Tidy, BackupSource, Incoming
<1>8. LabelsFollow'
  BY DEF UpdateInv, GiveUp, disk, TypeOK, At, To, Kept, Fault, LabelsFollow,
     Turns, Names, BackupIdle, BackupBefore
<1>9. HelperLabels'
  BY DEF UpdateInv, GiveUp, disk, TypeOK, At, To, Kept, Fault, HelperLabels,
     HelperAt, Turns, Untouched, Committed, Tidy
<1> QED BY <1>1, <1>2, <1>3, <1>4, <1>5, <1>6, <1>7, <1>8, <1>9 DEF UpdateInv

LEMMA StartInv == ASSUME UpdateInv, Start PROVE UpdateInv'
<1>1. file["install"] # None /\ UNCHANGED <<record, helper, op, old>>
      /\ file'["install"] = file["install"]
  BY DEF UpdateInv, TypeOK, Start, Unstranded, Moved
<1>2. recovery' = NoRecovery \/ Due
  BY DEF Start
<1>3. Due => record # NoRecord /\ helper = NoHelper /\ old
  BY DEF Due
<1>4. op \in {NoOp} \cup Operation("update", Builds) \cup Operation("rollback", {None})
  BY DEF UpdateInv, TypeOK
<1>5. TypeOK'
  BY DEF UpdateInv, Start, disk, TypeOK, Unstranded, Due, Recoverable, Swapped,
     Undoable, BackupSource, Incoming, Moved
<1>6. Turns'
  BY <1>1, <1>2, <1>3, <1>4 DEF UpdateInv, Turns, Slot
<1>7. Prepared'
  BY DEF UpdateInv, Start, disk, TypeOK, Unstranded, Due, Recoverable, Swapped,
     Undoable, BackupSource, Incoming, Moved, Prepared, Turns, Slot, Ready,
     Other
<1>8. HelperAt'
  BY DEF UpdateInv, Start, disk, TypeOK, Unstranded, Due, Recoverable, Swapped,
     Undoable, BackupSource, Incoming, Moved, HelperAt, Turns, Ready, Other,
     Aside, Untouched, Committed, Tidy, Slot
<1>9. RestKept'
  BY DEF UpdateInv, Start, disk, TypeOK, Unstranded, Due, Recoverable, Swapped,
     Undoable, BackupSource, Incoming, Moved, RestKept, AtRest, Untouched,
     Opened, Emptied, Filled, Committed, Tidy, BackupIn, HelperAt, Aside,
     Ready, Other, Turns
<1>10. SavedOwn'
  BY DEF UpdateInv, Start, disk, TypeOK, Unstranded, Due, Recoverable, Swapped,
     Undoable, BackupSource, Incoming, Moved, SavedOwn, HelperAt, Turns, Aside
<1>11. RecoveryAt'
  BY DEF UpdateInv, Start, disk, TypeOK, Unstranded, Due, Recoverable, Swapped,
     Undoable, BackupSource, Incoming, Moved, RecoveryAt, Turns, Committed,
     Tidy
<1>12. LabelsFollow'
  BY DEF UpdateInv, Start, disk, TypeOK, Unstranded, Due, Recoverable, Swapped,
     Undoable, BackupSource, Incoming, Moved, LabelsFollow, Turns, Names,
     BackupIdle, BackupBefore
<1>13. HelperLabels'
  BY DEF UpdateInv, Start, disk, TypeOK, Unstranded, Due, Recoverable, Swapped,
     Undoable, BackupSource, Incoming, Moved, HelperLabels, HelperAt, Turns,
     Untouched, Committed, Tidy
<1> QED BY <1>5, <1>6, <1>7, <1>8, <1>9, <1>10, <1>11, <1>12, <1>13 DEF UpdateInv

LEMMA UndoInv == ASSUME UpdateInv, Undo PROVE UpdateInv'
<1>1. /\ recovery.step = "undo" /\ recovery # NoRecovery /\ record # NoRecord
      /\ record.original # None /\ Undoable
      /\ UNCHANGED <<label, record, helper, op, old, mistaken>>
  BY RecordFields DEF UpdateInv, Turns, RecoveryAt, Undo
<1>2. file' \in [Places -> Held]
      /\ file'["install"] = record.original /\ file'["previous"] = record.previous
  BY <1>1 DEF UpdateInv, TypeOK, Undo, Undoable, Moved, BackupSource, Incoming
<1>3. TypeOK'
  BY DEF UpdateInv, Undo, disk, TypeOK, Moved, Undoable, BackupSource, Incoming
<1>4. Turns'
  BY DEF UpdateInv, Undo, disk, TypeOK, Moved, Undoable, BackupSource,
     Incoming, Turns, Slot
<1>5. Prepared'
  BY DEF UpdateInv, Undo, disk, TypeOK, Moved, Undoable, BackupSource,
     Incoming, Prepared, Turns, Slot, Ready, Other
<1>6. HelperAt'
  BY DEF UpdateInv, Undo, disk, TypeOK, Moved, Undoable, BackupSource,
     Incoming, HelperAt, Turns, Ready, Other, Aside, Untouched, Committed,
     Tidy, Slot
<1>7. RestKept'
  BY <1>1, <1>2 DEF RestKept, AtRest, Untouched
<1>8. SavedOwn'
  BY DEF UpdateInv, Undo, disk, TypeOK, Moved, Undoable, BackupSource,
     Incoming, SavedOwn, HelperAt, Turns, Aside
<1>9. RecoveryAt'
  BY DEF UpdateInv, Undo, disk, TypeOK, Moved, Undoable, BackupSource,
     Incoming, RecoveryAt, Turns, Committed, Tidy
<1>10. LabelsFollow'
  BY DEF UpdateInv, Undo, disk, TypeOK, Moved, Undoable, BackupSource,
     Incoming, LabelsFollow, Turns, Names, BackupIdle, BackupBefore
<1>11. HelperLabels'
  BY DEF UpdateInv, Undo, disk, TypeOK, Moved, Undoable, BackupSource,
     Incoming, HelperLabels, HelperAt, Turns, Untouched, Committed, Tidy
<1> QED BY <1>3, <1>4, <1>5, <1>6, <1>7, <1>8, <1>9, <1>10, <1>11 DEF UpdateInv

LEMMA RelabelInv == ASSUME UpdateInv, Relabel PROVE UpdateInv'
<1>1. TypeOK'
  BY DEF UpdateInv, Relabel, disk, TypeOK
<1>2. Turns'
  BY DEF UpdateInv, Relabel, disk, TypeOK, Turns, Slot
<1>3. Prepared'
  BY DEF UpdateInv, Relabel, disk, TypeOK, Prepared, Turns, Slot, Ready, Other
<1>4. HelperAt'
  BY DEF UpdateInv, Relabel, disk, TypeOK, HelperAt, Turns, Ready, Other,
     Aside, Untouched, Committed, Tidy, Slot
<1>5. RestKept'
  BY DEF UpdateInv, Relabel, disk, TypeOK, RestKept, AtRest, Untouched, Opened,
     Emptied, Filled, Committed, Tidy, BackupIn, HelperAt, Aside, Ready, Other,
     Turns
<1>6. SavedOwn'
  BY DEF UpdateInv, Relabel, disk, TypeOK, SavedOwn, HelperAt, Turns, Aside
<1>7. RecoveryAt'
  BY DEF UpdateInv, Relabel, disk, TypeOK, RecoveryAt, Turns, Undoable,
     Committed, Tidy, BackupSource, Incoming
<1>8. LabelsFollow'
  BY DEF UpdateInv, Relabel, disk, TypeOK, LabelsFollow, Turns, Names,
     BackupIdle, BackupBefore
<1>9. HelperLabels'
  BY DEF UpdateInv, Relabel, disk, TypeOK, HelperLabels, HelperAt, Turns,
     Untouched, Committed, Tidy
<1> QED BY <1>1, <1>2, <1>3, <1>4, <1>5, <1>6, <1>7, <1>8, <1>9 DEF UpdateInv

LEMMA SweepInv == ASSUME UpdateInv, Sweep PROVE UpdateInv'
<1>1. /\ recovery.step = "sweep" /\ recovery # NoRecovery /\ record # NoRecord
      /\ record.original # None
  BY RecordFields DEF UpdateInv, Turns, Sweep
<1>2. /\ file' \in [Places -> Held] /\ label' \in [Labels -> Held]
      /\ \A q \in Places \ {"saved"} : file'[q] = file[q]
      /\ label'["previous"] = label["previous"] /\ label'["pending"] = None
  BY DEF UpdateInv, TypeOK, Sweep
<1>3. \/ file["install"] = record.original /\ file["previous"] = record.previous
      \/ Committed /\ Tidy
  BY <1>1 DEF UpdateInv, RecoveryAt
<1>4. \/ file'["install"] = record.original /\ file'["previous"] = record.previous
      \/ /\ file'["install"] = record.incoming /\ file'["previous"] = record.original
         /\ label'["pending"] = None
         /\ ~record.stray => file'["new"] = None /\ file'["rollback"] = None
  BY <1>2, <1>3 DEF Committed, Tidy
<1>5. UNCHANGED record
  BY DEF Sweep
<1>6. TypeOK'
  BY DEF UpdateInv, Sweep, disk, TypeOK
<1>7. Turns'
  BY DEF UpdateInv, Sweep, disk, TypeOK, Turns, Slot
<1>8. Prepared'
  BY DEF UpdateInv, Sweep, disk, TypeOK, Prepared, Turns, Slot, Ready, Other
<1>9. HelperAt'
  BY DEF UpdateInv, Sweep, disk, TypeOK, HelperAt, Turns, Ready, Other, Aside,
     Untouched, Committed, Tidy, Slot
<1>10. RestKept'
  BY <1>4, <1>5 DEF RestKept, AtRest, Untouched, Committed, Tidy
<1>11. SavedOwn'
  BY DEF UpdateInv, Sweep, disk, TypeOK, SavedOwn, HelperAt, Turns, Aside
<1>12. RecoveryAt'
  BY DEF UpdateInv, Sweep, disk, TypeOK, RecoveryAt, Turns, Undoable,
     Committed, Tidy, BackupSource, Incoming
<1>13. LabelsFollow'
  BY DEF UpdateInv, Sweep, disk, TypeOK, LabelsFollow, Turns, Names,
     BackupIdle, BackupBefore
<1>14. HelperLabels'
  BY DEF UpdateInv, Sweep, disk, TypeOK, HelperLabels, HelperAt, Turns,
     Untouched, Committed, Tidy
<1> QED BY <1>6, <1>7, <1>8, <1>9, <1>10, <1>11, <1>12, <1>13, <1>14 DEF UpdateInv

LEMMA ForgetInv == ASSUME UpdateInv, Forget PROVE UpdateInv'
<1>1. /\ recovery.step = "forget" /\ recovery # NoRecovery /\ record # NoRecord
      /\ record' = NoRecord /\ recovery' = NoRecovery
      /\ UNCHANGED <<file, label, old, op, helper, mistaken>>
  BY DEF UpdateInv, Turns, Forget
<1>2. /\ op.step \in {"none", "stage"} /\ helper = NoHelper
      /\ record.original # None /\ record.incoming # None /\ record.previous \in Held
  BY <1>1, RecordFields DEF UpdateInv, Turns
<1>3. \/ /\ file["install"] = record.original /\ file["previous"] = record.previous
         /\ label["previous"] = IF record.previous # None THEN record.previousName ELSE None
      \/ Committed /\ label["previous"] = record.originalName
  BY <1>1 DEF UpdateInv, RecoveryAt
<1>4. TypeOK'
  BY DEF UpdateInv, Forget, disk, TypeOK
<1>5. Turns'
  BY <1>1, <1>2, <1>3 DEF UpdateInv, Turns, Committed
<1>6. Prepared'
  BY DEF UpdateInv, Forget, disk, TypeOK, Prepared, Turns, Slot, Ready, Other
<1>7. HelperAt'
  BY DEF UpdateInv, Forget, disk, TypeOK, HelperAt, Turns, Ready, Other, Aside,
     Untouched, Committed, Tidy, Slot
<1>8. RestKept'
  BY DEF UpdateInv, Forget, disk, TypeOK, RestKept, AtRest, Untouched, Opened,
     Emptied, Filled, Committed, Tidy, BackupIn, HelperAt, Aside, Ready, Other,
     Turns
<1>9. SavedOwn'
  BY DEF UpdateInv, Forget, disk, TypeOK, SavedOwn, HelperAt, Turns, Aside
<1>10. RecoveryAt'
  BY DEF UpdateInv, Forget, disk, TypeOK, RecoveryAt, Turns, Undoable,
     Committed, Tidy, BackupSource, Incoming
<1>11. LabelsFollow'
  BY <1>1, <1>2, <1>3 DEF UpdateInv, LabelsFollow, Names, BackupIdle,
     BackupBefore, Committed
<1>12. HelperLabels'
  BY DEF UpdateInv, Forget, disk, TypeOK, HelperLabels, HelperAt, Turns,
     Untouched, Committed, Tidy
<1> QED BY <1>4, <1>5, <1>6, <1>7, <1>8, <1>9, <1>10, <1>11, <1>12 DEF UpdateInv

LEMMA RecoveryFailsInv == ASSUME UpdateInv, RecoveryFails PROVE UpdateInv'
<1>1. TypeOK'
  BY DEF UpdateInv, RecoveryFails, disk, TypeOK, Fault
<1>2. Turns'
  BY DEF UpdateInv, RecoveryFails, disk, TypeOK, Fault, Turns, Slot
<1>3. Prepared'
  BY DEF UpdateInv, RecoveryFails, disk, TypeOK, Fault, Prepared, Turns, Slot,
     Ready, Other
<1>4. HelperAt'
  BY DEF UpdateInv, RecoveryFails, disk, TypeOK, Fault, HelperAt, Turns, Ready,
     Other, Aside, Untouched, Committed, Tidy, Slot
<1>5. RestKept'
  BY DEF UpdateInv, RecoveryFails, disk, TypeOK, Fault, RestKept, AtRest,
     Untouched, Opened, Emptied, Filled, Committed, Tidy, BackupIn, HelperAt,
     Aside, Ready, Other, Turns
<1>6. SavedOwn'
  BY DEF UpdateInv, RecoveryFails, disk, TypeOK, Fault, SavedOwn, HelperAt,
     Turns, Aside
<1>7. RecoveryAt'
  BY DEF UpdateInv, RecoveryFails, disk, TypeOK, Fault, RecoveryAt, Turns,
     Undoable, Committed, Tidy, BackupSource, Incoming
<1>8. LabelsFollow'
  BY DEF UpdateInv, RecoveryFails, disk, TypeOK, Fault, LabelsFollow, Turns,
     Names, BackupIdle, BackupBefore
<1>9. HelperLabels'
  BY DEF UpdateInv, RecoveryFails, disk, TypeOK, Fault, HelperLabels, HelperAt,
     Turns, Untouched, Committed, Tidy
<1> QED BY <1>1, <1>2, <1>3, <1>4, <1>5, <1>6, <1>7, <1>8, <1>9 DEF UpdateInv

LEMMA DaemonEndsInv == ASSUME UpdateInv, DaemonEnds PROVE UpdateInv'
<1>0. /\ GoesOn
      /\ helper'.step = helper.step \/ helper.parent = "daemon"
  BY ReleasedGoesOn DEF UpdateInv, DaemonEnds, TypeOK, disk, Turns
<1>1. TypeOK'
  BY <1>0 DEF UpdateInv, DaemonEnds, disk, TypeOK, Fault, GoesOn
<1>2. Turns'
  BY <1>0 DEF UpdateInv, DaemonEnds, disk, TypeOK, Fault, Turns, Slot, GoesOn
<1>3. Prepared'
  BY <1>0 DEF UpdateInv, DaemonEnds, disk, TypeOK, Fault, Prepared, Turns,
     Slot, Ready, Other
<1>4. HelperAt'
  BY <1>0 DEF UpdateInv, DaemonEnds, disk, TypeOK, Fault, HelperAt, Turns,
     Ready, Other, Aside, Untouched, Committed, Tidy, Slot, GoesOn
<1>5. RestKept'
  BY <1>0 DEF UpdateInv, DaemonEnds, disk, TypeOK, Fault, RestKept, AtRest,
     Untouched, Opened, Emptied, Filled, Committed, Tidy, BackupIn, HelperAt,
     Aside, Ready, Other, Turns
<1>6. SavedOwn'
  BY <1>0 DEF UpdateInv, DaemonEnds, disk, TypeOK, Fault, SavedOwn, HelperAt,
     Turns, Aside
<1>7. RecoveryAt'
  BY <1>0 DEF UpdateInv, DaemonEnds, disk, TypeOK, Fault, RecoveryAt, Turns,
     Undoable, Committed, Tidy, BackupSource, Incoming
<1>8. LabelsFollow'
  BY <1>0 DEF UpdateInv, DaemonEnds, disk, TypeOK, Fault, LabelsFollow, Turns,
     Names, BackupIdle, BackupBefore
<1>9. HelperLabels'
  BY <1>0 DEF UpdateInv, DaemonEnds, disk, TypeOK, Fault, HelperLabels,
     HelperAt, Turns, Untouched, Committed, Tidy, GoesOn
<1> QED BY <1>1, <1>2, <1>3, <1>4, <1>5, <1>6, <1>7, <1>8, <1>9 DEF UpdateInv

LEMMA CommandDiesInv == ASSUME UpdateInv, CommandDies PROVE UpdateInv'
<1>0. /\ GoesOn
      /\ helper'.step = helper.step \/ helper.parent = "cli"
  BY ReleasedGoesOn DEF UpdateInv, CommandDies, TypeOK, disk, Turns
<1>1. TypeOK'
  BY <1>0 DEF UpdateInv, CommandDies, disk, TypeOK, Fault, GoesOn
<1>2. Turns'
  BY <1>0 DEF UpdateInv, CommandDies, disk, TypeOK, Fault, Turns, Slot, GoesOn
<1>3. Prepared'
  BY <1>0 DEF UpdateInv, CommandDies, disk, TypeOK, Fault, Prepared, Turns,
     Slot, Ready, Other
<1>4. HelperAt'
  BY <1>0 DEF UpdateInv, CommandDies, disk, TypeOK, Fault, HelperAt, Turns,
     Ready, Other, Aside, Untouched, Committed, Tidy, Slot, GoesOn
<1>5. RestKept'
  BY <1>0 DEF UpdateInv, CommandDies, disk, TypeOK, Fault, RestKept, AtRest,
     Untouched, Opened, Emptied, Filled, Committed, Tidy, BackupIn, HelperAt,
     Aside, Ready, Other, Turns
<1>6. SavedOwn'
  BY <1>0 DEF UpdateInv, CommandDies, disk, TypeOK, Fault, SavedOwn, HelperAt,
     Turns, Aside
<1>7. RecoveryAt'
  BY <1>0 DEF UpdateInv, CommandDies, disk, TypeOK, Fault, RecoveryAt, Turns,
     Undoable, Committed, Tidy, BackupSource, Incoming
<1>8. LabelsFollow'
  BY <1>0 DEF UpdateInv, CommandDies, disk, TypeOK, Fault, LabelsFollow, Turns,
     Names, BackupIdle, BackupBefore
<1>9. HelperLabels'
  BY <1>0 DEF UpdateInv, CommandDies, disk, TypeOK, Fault, HelperLabels,
     HelperAt, Turns, Untouched, Committed, Tidy, GoesOn
<1> QED BY <1>1, <1>2, <1>3, <1>4, <1>5, <1>6, <1>7, <1>8, <1>9 DEF UpdateInv

LEMMA RebootInv == ASSUME UpdateInv, Reboot PROVE UpdateInv'
<1>1. TypeOK'
  BY DEF UpdateInv, Reboot, disk, TypeOK, Fault
<1>2. Turns'
  BY DEF UpdateInv, Reboot, disk, TypeOK, Fault, Turns, Slot
<1>3. Prepared'
  BY DEF UpdateInv, Reboot, disk, TypeOK, Fault, Prepared, Turns, Slot, Ready,
     Other
<1>4. HelperAt'
  BY DEF UpdateInv, Reboot, disk, TypeOK, Fault, HelperAt, Turns, Ready, Other,
     Aside, Untouched, Committed, Tidy, Slot
<1>5. RestKept'
  BY DEF UpdateInv, Reboot, disk, TypeOK, Fault, RestKept, AtRest, Untouched,
     Opened, Emptied, Filled, Committed, Tidy, BackupIn, HelperAt, Aside,
     Ready, Other, Turns
<1>6. SavedOwn'
  BY DEF UpdateInv, Reboot, disk, TypeOK, Fault, SavedOwn, HelperAt, Turns,
     Aside
<1>7. RecoveryAt'
  BY DEF UpdateInv, Reboot, disk, TypeOK, Fault, RecoveryAt, Turns, Undoable,
     Committed, Tidy, BackupSource, Incoming
<1>8. LabelsFollow'
  BY DEF UpdateInv, Reboot, disk, TypeOK, Fault, LabelsFollow, Turns, Names,
     BackupIdle, BackupBefore
<1>9. HelperLabels'
  BY DEF UpdateInv, Reboot, disk, TypeOK, Fault, HelperLabels, HelperAt, Turns,
     Untouched, Committed, Tidy
<1> QED BY <1>1, <1>2, <1>3, <1>4, <1>5, <1>6, <1>7, <1>8, <1>9 DEF UpdateInv

LEMMA AgeInv == ASSUME UpdateInv, Age PROVE UpdateInv'
<1>1. TypeOK'
  BY DEF UpdateInv, Age, disk, TypeOK
<1>2. Turns'
  BY DEF UpdateInv, Age, disk, TypeOK, Turns, Slot
<1>3. Prepared'
  BY DEF UpdateInv, Age, disk, TypeOK, Prepared, Turns, Slot, Ready, Other
<1>4. HelperAt'
  BY DEF UpdateInv, Age, disk, TypeOK, HelperAt, Turns, Ready, Other, Aside,
     Untouched, Committed, Tidy, Slot
<1>5. RestKept'
  BY DEF UpdateInv, Age, disk, TypeOK, RestKept, AtRest, Untouched, Opened,
     Emptied, Filled, Committed, Tidy, BackupIn, HelperAt, Aside, Ready, Other,
     Turns
<1>6. SavedOwn'
  BY DEF UpdateInv, Age, disk, TypeOK, SavedOwn, HelperAt, Turns, Aside
<1>7. RecoveryAt'
  BY DEF UpdateInv, Age, disk, TypeOK, RecoveryAt, Turns, Undoable, Committed,
     Tidy, BackupSource, Incoming
<1>8. LabelsFollow'
  BY DEF UpdateInv, Age, disk, TypeOK, LabelsFollow, Turns, Names, BackupIdle,
     BackupBefore
<1>9. HelperLabels'
  BY DEF UpdateInv, Age, disk, TypeOK, HelperLabels, HelperAt, Turns,
     Untouched, Committed, Tidy
<1> QED BY <1>1, <1>2, <1>3, <1>4, <1>5, <1>6, <1>7, <1>8, <1>9 DEF UpdateInv

LEMMA ReclaimInv == ASSUME UpdateInv, Reclaim PROVE UpdateInv'
<1>1. TypeOK'
  BY DEF UpdateInv, Reclaim, disk, TypeOK
<1>2. Turns'
  BY DEF UpdateInv, Reclaim, disk, TypeOK, Turns, Slot
<1>3. Prepared'
  BY DEF UpdateInv, Reclaim, disk, TypeOK, Prepared, Turns, Slot, Ready, Other
<1>4. HelperAt'
  BY DEF UpdateInv, Reclaim, disk, TypeOK, HelperAt, Turns, Ready, Other,
     Aside, Untouched, Committed, Tidy, Slot
<1>5. RestKept'
  BY DEF UpdateInv, Reclaim, disk, TypeOK, RestKept, AtRest, Untouched, Opened,
     Emptied, Filled, Committed, Tidy, BackupIn, HelperAt, Aside, Ready, Other,
     Turns
<1>6. SavedOwn'
  BY DEF UpdateInv, Reclaim, disk, TypeOK, SavedOwn, HelperAt, Turns, Aside
<1>7. RecoveryAt'
  BY DEF UpdateInv, Reclaim, disk, TypeOK, RecoveryAt, Turns, Undoable,
     Committed, Tidy, BackupSource, Incoming
<1>8. LabelsFollow'
  BY DEF UpdateInv, Reclaim, disk, TypeOK, LabelsFollow, Turns, Names,
     BackupIdle, BackupBefore
<1>9. HelperLabels'
  BY DEF UpdateInv, Reclaim, disk, TypeOK, HelperLabels, HelperAt, Turns,
     Untouched, Committed, Tidy
<1> QED BY <1>1, <1>2, <1>3, <1>4, <1>5, <1>6, <1>7, <1>8, <1>9 DEF UpdateInv

-----------------------------------------------------------------------------
LEMMA InitInv == Init => UpdateInv
<1> SUFFICES ASSUME Init PROVE UpdateInv
  OBVIOUS
<1>1. TypeOK
  <2>1. 1 \in Held /\ None \in Held
    BY UpdateAssumption DEF Held, Builds
  <2>2. file \in [Places -> Held] /\ label \in [Labels -> Held] /\ daemon \in Held
    BY <2>1 DEF Init
  <2>3. record \in {NoRecord} \cup Swap
    BY DEF Init
  <2>4. op \in {NoOp} \cup Operation("update", Builds) \cup Operation("rollback", {None})
    BY DEF Init
  <2>5. helper \in {NoHelper} \cup Process
    BY DEF Init
  <2>6. recovery \in {NoRecovery} \cup [step: {"undo", "label", "sweep", "forget"}, name: Held]
    BY DEF Init
  <2>7. lock \in {"free", "held", "orphaned"} /\ old \in BOOLEAN /\ mistaken \in BOOLEAN
    BY DEF Init
  <2>8. faults \in 0..MaxFaults
    BY DEF Init
  <2> QED BY <2>2, <2>3, <2>4, <2>5, <2>6, <2>7, <2>8 DEF TypeOK
<1>2. Turns /\ Prepared /\ HelperAt /\ RestKept /\ SavedOwn /\ RecoveryAt
  BY DEF Init, Turns, Prepared, HelperAt, RestKept, SavedOwn, RecoveryAt
<1>3. LabelsFollow /\ HelperLabels
  BY DEF Init, LabelsFollow, HelperLabels, Names
<1> QED BY <1>1, <1>2, <1>3 DEF UpdateInv

LEMMA StepInv == UpdateInv /\ [Next]_vars => UpdateInv'
<1> SUFFICES ASSUME UpdateInv, [Next]_vars PROVE UpdateInv'
  OBVIOUS
<1>1. CASE Program
  BY <1>1, BeginInv, RefuseInv, StageInv, WriteRecordInv, WritePendingInv, SpawnInv, OwnInv,
     ExitInv, StagingFailsInv, UnstagedInv, DisownedInv DEF Program
<1>2. CASE Helper
  BY <1>2, SaveBackupInv, SaveLabelInv, MoveOriginalInv, MoveIncomingInv, CommitLabelInv,
     CleanInv, DropInv, MoveFailsInv, UninstallInv, RestoreOriginalInv, RestoreBackupInv,
     RestoreLabelInv, GiveUpInv DEF Helper
<1>3. CASE Start \/ Recovery
  BY <1>3, StartInv, UndoInv, RelabelInv, SweepInv, ForgetInv, RecoveryFailsInv DEF Recovery
<1>4. CASE DaemonEnds \/ CommandDies \/ Reboot \/ Age \/ Reclaim
  BY <1>4, DaemonEndsInv, CommandDiesInv, RebootInv, AgeInv, ReclaimInv
<1>5. CASE UNCHANGED vars
  BY <1>5 DEF vars, disk, UpdateInv, TypeOK, Turns, Prepared, HelperAt, RestKept, SavedOwn,
     RecoveryAt, LabelsFollow, HelperLabels, Slot, Ready, Other, Aside, AtRest, Untouched,
     Opened, Emptied, Filled, Committed, Tidy, BackupIn, Undoable, BackupSource, Incoming,
     Names, BackupIdle, BackupBefore
<1> QED BY <1>1, <1>2, <1>3, <1>4, <1>5 DEF Next

(* What ties files, labels and record to the step of whoever is at work.   *)
THEOREM UpdateInvariant == Spec => []UpdateInv
BY InitInv, StepInv, PTL DEF Spec

(* Files, labels, record and processes hold values of their types.         *)
THEOREM UpdateTypes == Spec => []TypeOK
<1>1. UpdateInv => TypeOK
  BY DEF UpdateInv
<1> QED BY <1>1, UpdateInvariant, PTL

(* The version offered for a rollback is that of the build it would        *)
(* install, at every point of a swap and of its recovery, unless a process *)
(* recorded the installed build under its own version.                     *)
THEOREM BackupKeepsItsName == Spec => []BackupIsNamed
<1>1. UpdateInv => BackupIsNamed
  BY DEF UpdateInv, TypeOK, BackupIsNamed, Offered, LabelsFollow, Names, BackupIdle, BackupBefore
<1> QED BY <1>1, UpdateInvariant, PTL

(* A swap that began without leftovers of another one can be finished or   *)
(* undone by the next start, wherever its helper died.                     *)
THEOREM DeadSwapsAreRecovered == Spec => []RecoverySucceeds
<1>1. ASSUME UpdateInv, record # NoRecord, helper = NoHelper, file["install"] # None, ~record.stray
      PROVE  Recoverable
  <2>1. file["saved"] \in {None, record.previous}
    BY <1>1 DEF UpdateInv, SavedOwn
  <2>2. record.original # None /\ record.incoming # None
    BY <1>1, RecordFields DEF UpdateInv
  <2>3. CASE Untouched \/ Opened
    BY <1>1, <2>1, <2>2, <2>3 DEF Recoverable, Undoable, BackupSource, Incoming, Untouched,
       Opened, BackupIn
  <2>4. CASE Emptied
    BY <1>1, <2>4 DEF Emptied
  <2>5. CASE (Filled \/ Committed) /\ Tidy
    BY <1>1, <2>1, <2>5 DEF Recoverable, Swapped, Incoming, Filled, Committed, Tidy
  <2> QED BY <1>1, <2>3, <2>4, <2>5 DEF UpdateInv, RestKept, AtRest
<1>2. UpdateInv => RecoverySucceeds
  BY <1>1 DEF RecoverySucceeds
<1> QED BY <1>2, UpdateInvariant, PTL

-----------------------------------------------------------------------------
(* While a swap is under way the files still are what they were before it, *)
(* wherever the builds have been moved, or what it makes of them.          *)
OldShape == Untouched \/ Opened \/ Emptied \/ Filled

LEMMA Shapes ==
    UpdateInv =>
        /\ record # NoRecord => OldShape \/ Committed
        /\ helper # NoHelper => record # NoRecord
        /\ helper # NoHelper /\ helper.step \notin {"clean", "drop"} => OldShape
<1> SUFFICES ASSUME UpdateInv
             PROVE  /\ record # NoRecord => OldShape \/ Committed
                    /\ helper # NoHelper => record # NoRecord
                    /\ helper # NoHelper /\ helper.step \notin {"clean", "drop"} => OldShape
  OBVIOUS
<1>1. ASSUME record # NoRecord, helper = NoHelper PROVE OldShape \/ Committed
  BY <1>1 DEF UpdateInv, RestKept, AtRest, OldShape
<1>2. ASSUME helper # NoHelper PROVE record # NoRecord
  BY <1>2 DEF UpdateInv, Turns
<1>3. ASSUME helper # NoHelper, helper.step \in {"clean", "drop"} PROVE OldShape \/ Committed
  BY <1>3 DEF UpdateInv, HelperAt, OldShape
<1>4. ASSUME helper # NoHelper, helper.step \notin {"clean", "drop"} PROVE OldShape
  <2>1. /\ record.original \in Builds /\ record.incoming \in Builds
        /\ helper.step \in Moves /\ helper.slot \in {"new", "rollback"}
    BY <1>2, <1>4, RecordFields DEF UpdateInv, TypeOK
  <2>2. CASE helper.step \in {"wait", "begin"}
    BY <1>4, <2>1, <2>2 DEF UpdateInv, HelperAt, Ready, OldShape, Untouched
  <2>3. CASE helper.step \in {"label", "original", "unsave"}
    BY <1>4, <2>1, <2>3 DEF UpdateInv, HelperAt, Aside, OldShape, Opened, BackupIn
  <2>4. CASE helper.step \in {"incoming", "restore"}
    BY <1>4, <2>1, <2>4 DEF UpdateInv, HelperAt, Aside, OldShape, Emptied, BackupIn
  <2>5. CASE helper.step \in {"commit", "uninstall"}
    BY <1>4, <2>1, <2>5 DEF UpdateInv, HelperAt, Aside, OldShape, Filled, BackupIn
  <2>6. CASE helper.step \in {"unlabel", "giveup"}
    BY <1>4, <2>1, <2>6 DEF UpdateInv, HelperAt, OldShape
  <2> QED BY <1>4, <2>1, <2>2, <2>3, <2>4, <2>5, <2>6
<1> QED BY <1>1, <1>2, <1>3, <1>4

(* What the mapping makes of these shapes.                                 *)
LEMMA Values ==
    UpdateInv =>
        /\ record = NoRecord => Installed = file["install"] /\ Backup = BackupIdle
        /\ record # NoRecord /\ OldShape => Installed = record.original /\ Backup = BackupBefore
        /\ record # NoRecord /\ Committed => Installed = record.incoming /\ Backup = record.original
<1> SUFFICES ASSUME UpdateInv
             PROVE  /\ record = NoRecord => Installed = file["install"] /\ Backup = BackupIdle
                    /\ record # NoRecord /\ OldShape =>
                          Installed = record.original /\ Backup = BackupBefore
                    /\ record # NoRecord /\ Committed =>
                          Installed = record.incoming /\ Backup = record.original
  OBVIOUS
<1>1. ASSUME record = NoRecord PROVE Installed = file["install"] /\ Backup = BackupIdle
  BY <1>1 DEF Installed, Backup, BackupIdle
<1>2. ASSUME record # NoRecord
      PROVE  /\ record.original \in Builds /\ record.incoming \in Builds /\ record.previous \in Held
             /\ record.original # None /\ record.incoming # None
  BY <1>2, RecordFields DEF UpdateInv
<1>3. ASSUME record # NoRecord, Committed
      PROVE  Installed = record.incoming /\ Backup = record.original
  BY <1>2, <1>3 DEF Installed, Backup, Committed
<1>4. ASSUME record # NoRecord, OldShape, Committed
      PROVE  record.incoming = record.original /\ record.previous = record.original
  BY <1>2, <1>4 DEF OldShape, Untouched, Opened, Emptied, Filled, Committed
<1>5. ASSUME record # NoRecord, OldShape, ~Committed
      PROVE  Installed = record.original /\ Backup = BackupBefore
  <2>1. Installed = record.original
    BY <1>2, <1>5 DEF Installed, Somewhere, OldShape, Untouched, Opened, Emptied, Filled
  <2>2. CASE record.previous = None
    BY <1>5, <2>1, <2>2 DEF Backup, BackupBefore
  <2>3. CASE record.previous # None
    <3>1. \E q \in {"previous", "saved", "rollback", "install"} : file[q] = record.previous
      BY <1>5, <2>3 DEF OldShape, Untouched, Opened, Emptied, Filled, BackupIn
    <3> QED BY <1>5, <2>1, <2>3, <3>1 DEF Backup, BackupBefore, Somewhere
  <2> QED BY <2>2, <2>3
<1>6. ASSUME record # NoRecord, OldShape, Committed
      PROVE  Installed = record.original /\ Backup = BackupBefore
  BY <1>2, <1>3, <1>4, <1>6 DEF BackupBefore
<1> QED BY <1>1, <1>3, <1>5, <1>6

SlotsStay == Installed' = Installed /\ Backup' = Backup

(* The same swap goes on, and has still changed nothing.                   *)
GoesOnWith ==
    /\ record # NoRecord /\ record' # NoRecord
    /\ record'.original = record.original /\ record'.incoming = record.incoming
    /\ record'.previous = record.previous
    /\ record.previous = None => file'["rollback"] = file["rollback"]

LEMMA OldStays ==
    ASSUME UpdateInv, UpdateInv', GoesOnWith, OldShape, OldShape'
    PROVE  SlotsStay
<1>1. Installed = record.original /\ Backup = BackupBefore
  BY Values DEF GoesOnWith
<1>2. (UpdateInv /\ record # NoRecord /\ OldShape =>
            Installed = record.original /\ Backup = BackupBefore)'
  BY Values, PTL
<1>3. Installed' = record'.original /\ Backup' = BackupBefore'
  BY <1>2 DEF GoesOnWith
<1> QED BY <1>1, <1>3 DEF GoesOnWith, BackupBefore, SlotsStay

LEMMA HelperOldStays ==
    ASSUME UpdateInv, UpdateInv', record' = record,
           record.previous = None => file'["rollback"] = file["rollback"],
           helper # NoHelper, helper.step \notin {"clean", "drop"},
           helper' # NoHelper, helper'.step \notin {"clean", "drop"}
    PROVE  SlotsStay
<1>1. record # NoRecord /\ OldShape
  BY Shapes
<1>2. (UpdateInv /\ helper # NoHelper /\ helper.step \notin {"clean", "drop"} => OldShape)'
  BY Shapes, PTL
<1> QED BY <1>1, <1>2, OldStays DEF GoesOnWith

LEMMA CommittedStays ==
    ASSUME UpdateInv, UpdateInv', record # NoRecord, record' = record, Committed, Committed'
    PROVE  SlotsStay
<1>1. (UpdateInv /\ record # NoRecord /\ Committed =>
            Installed = record.incoming /\ Backup = record.original)'
  BY Values, PTL
<1> QED BY <1>1, Values DEF SlotsStay

LEMMA FrameStays == ASSUME UNCHANGED <<file, label, record>> PROVE SlotsStay
  BY DEF SlotsStay, Installed, Backup, Committed, Somewhere

LEMMA IdleStays ==
    ASSUME UpdateInv, UpdateInv', record = NoRecord, record' = NoRecord,
           file'["install"] = file["install"], BackupIdle' = BackupIdle
    PROVE  SlotsStay
<1>1. (UpdateInv /\ record = NoRecord => Installed = file["install"] /\ Backup = BackupIdle)'
  BY Values, PTL
<1> QED BY <1>1, Values DEF SlotsStay

(* The record of a swap goes when its files are back or all in place.      *)
LEMMA EndStays ==
    ASSUME UpdateInv, UpdateInv', record # NoRecord, record' = NoRecord,
           file'["install"] = file["install"], BackupIdle' = BackupIdle,
           Untouched \/ Committed
    PROVE  SlotsStay
<1>1. (UpdateInv /\ record = NoRecord => Installed = file["install"] /\ Backup = BackupIdle)'
  BY Values, PTL
<1>2. Installed' = file["install"] /\ Backup' = BackupIdle
  BY <1>1
<1>3. record.original # None /\ record.original \in Builds
  BY RecordFields DEF UpdateInv
<1>4. CASE Untouched
  BY <1>2, <1>3, <1>4, Values DEF Untouched, OldShape, BackupBefore, BackupIdle, SlotsStay
<1>5. CASE Committed
  BY <1>2, <1>3, <1>5, Values DEF Committed, BackupIdle, SlotsStay
<1> QED BY <1>4, <1>5

LEMMA MovesStay ==
    ASSUME UpdateInv, UpdateInv',
           \/ SaveBackup \/ SaveLabel \/ MoveOriginal \/ MoveIncoming
           \/ Uninstall \/ RestoreOriginal \/ RestoreBackup \/ RestoreLabel
    PROVE  SlotsStay
<1>1. /\ helper # NoHelper /\ helper \in Process /\ record' = record
      /\ helper.step \in {"begin", "label", "original", "incoming", "uninstall", "restore",
                          "unsave", "unlabel"}
  BY DEF UpdateInv, TypeOK, At, SaveBackup, SaveLabel, MoveOriginal, MoveIncoming,
     Uninstall, RestoreOriginal, RestoreBackup, RestoreLabel
<1>2. /\ helper' # NoHelper
      /\ helper'.step \in {"giveup", "label", "original", "incoming", "commit", "restore",
                           "unsave", "unlabel"}
  <2>1. \A s \in Moves :
          To(s) \/ helper' = [helper EXCEPT !.step = s, !.saved = file["previous"] # None]
                \/ helper' = [helper EXCEPT !.step = s, !.labelled = label["previous"] # None]
          => helper' # NoHelper /\ helper'.step = s
    <3> SUFFICES ASSUME NEW s \in Moves PROVE
            To(s) \/ helper' = [helper EXCEPT !.step = s, !.saved = file["previous"] # None]
                  \/ helper' = [helper EXCEPT !.step = s, !.labelled = label["previous"] # None]
            => helper' # NoHelper /\ helper'.step = s
      OBVIOUS
    <3>1. To(s) => HelperGoes(s)
      BY <1>1, HelperStep DEF UpdateInv, To
    <3>2. helper' = [helper EXCEPT !.step = s, !.saved = file["previous"] # None] => HelperGoes(s)
      BY <1>1, HelperStep DEF UpdateInv
    <3>3. helper' = [helper EXCEPT !.step = s, !.labelled = label["previous"] # None]
              => HelperGoes(s)
      BY <1>1, HelperStep DEF UpdateInv
    <3> QED BY <3>1, <3>2, <3>3 DEF HelperGoes
  <2>2. \E s \in {"giveup", "label", "original", "incoming", "commit", "restore", "unsave",
                  "unlabel"} :
          To(s) \/ helper' = [helper EXCEPT !.step = s, !.saved = file["previous"] # None]
                \/ helper' = [helper EXCEPT !.step = s, !.labelled = label["previous"] # None]
    BY DEF SaveBackup, SaveLabel, MoveOriginal, MoveIncoming,
       Uninstall, RestoreOriginal, RestoreBackup, RestoreLabel
  <2> QED BY <2>1, <2>2
<1>3. record.previous = None => file'["rollback"] = file["rollback"]
  <2>1. record # NoRecord /\ record.incoming # None
    BY <1>1, Shapes, RecordFields DEF UpdateInv
  <2>2. helper.slot = "rollback" => record.previous # None
    BY <1>1, <2>1 DEF UpdateInv, HelperAt
  <2> QED BY <1>1, <2>2 DEF UpdateInv, TypeOK, Moved, SaveBackup, SaveLabel, MoveOriginal,
     MoveIncoming, Uninstall, RestoreOriginal, RestoreBackup, RestoreLabel
<1> QED BY <1>1, <1>2, <1>3, HelperOldStays

LEMMA GiveUpStays == ASSUME UpdateInv, UpdateInv', GiveUp PROVE SlotsStay
<1>1. /\ helper # NoHelper /\ helper.step = "giveup" /\ record' = record /\ file' = file
  BY DEF GiveUp, At
<1>2. record # NoRecord /\ Untouched /\ Untouched'
  BY <1>1, Shapes DEF UpdateInv, HelperAt, Untouched
<1> QED BY <1>1, <1>2, OldStays DEF GoesOnWith, OldShape

LEMMA CleanStays == ASSUME UpdateInv, UpdateInv', Clean PROVE SlotsStay
<1>1. helper # NoHelper /\ helper.step = "clean" /\ record' = record
  BY DEF Clean, At
<1>2. record # NoRecord /\ Committed
  BY <1>1, Shapes DEF UpdateInv, HelperAt
<1>3. /\ file'["install"] = file["install"] /\ file'["previous"] = file["previous"]
      /\ label'["pending"] = label["pending"]
  BY DEF Clean, UpdateInv, TypeOK
<1>4. Committed'
  BY <1>1, <1>2, <1>3 DEF Committed
<1> QED BY <1>1, <1>2, <1>4, CommittedStays

LEMMA DropStays == ASSUME UpdateInv, UpdateInv', Drop PROVE SlotsStay
<1>1. helper # NoHelper /\ helper.step = "drop" /\ UNCHANGED <<file, label>>
  BY DEF Drop, At
<1>2. record # NoRecord /\ (Untouched \/ Committed)
  BY <1>1, Shapes DEF UpdateInv, HelperAt
<1>3. CASE record' = record
  BY <1>1, <1>3, FrameStays
<1>4. CASE record' = NoRecord
  BY <1>1, <1>2, <1>4, EndStays DEF BackupIdle
<1> QED BY <1>3, <1>4 DEF Drop

LEMMA ForgetStays == ASSUME UpdateInv, UpdateInv', Forget PROVE SlotsStay
<1>1. recovery # NoRecovery /\ record # NoRecord /\ record' = NoRecord /\ UNCHANGED <<file, label>>
  BY DEF UpdateInv, Turns, Forget
<1>2. Untouched \/ Committed
  BY DEF UpdateInv, RecoveryAt, Forget, Untouched
<1> QED BY <1>1, <1>2, EndStays DEF BackupIdle

LEMMA CommitLabelReplaces ==
    ASSUME UpdateInv, UpdateInv', CommitLabel
    PROVE  \E b \in Builds : Slots!Replace(b)
<1>1. helper # NoHelper /\ helper.step = "commit" /\ record' = record
  BY DEF CommitLabel, At
<1>2. record # NoRecord /\ OldShape
  BY <1>1, Shapes
<1>3. helper' # NoHelper /\ helper'.step = "clean"
  BY <1>1 DEF CommitLabel, To, UpdateInv, TypeOK
<1>4. Committed'
  BY <1>3 DEF UpdateInv, HelperAt
<1>5. (UpdateInv /\ record # NoRecord /\ Committed =>
            Installed = record.incoming /\ Backup = record.original)'
  BY Values, PTL
<1>6. Installed' = record.incoming /\ Backup' = Installed
  BY <1>1, <1>2, <1>4, <1>5, Values
<1>7. record.incoming \in Builds
  BY <1>2, RecordFields DEF UpdateInv
<1> QED BY <1>6, <1>7 DEF Slots!Replace

LEMMA RelabelReplaces ==
    ASSUME UpdateInv, UpdateInv', Relabel
    PROVE  SlotsStay \/ \E b \in Builds : Slots!Replace(b)
<1>1. recovery # NoRecovery /\ record # NoRecord /\ record' = record /\ file' = file
  BY DEF UpdateInv, Turns, Relabel
<1>2. record.incoming \in Builds /\ record.original \in Builds /\ record.original # None
  BY <1>1, RecordFields DEF UpdateInv
<1>3. CASE file["install"] = record.original /\ file["previous"] = record.previous
  BY <1>1, <1>3, OldStays DEF GoesOnWith, OldShape, Untouched
<1>4. CASE file["install"] = record.incoming /\ file["previous"] = record.original
  <2>1. label'["pending"] = None
    BY <1>2, <1>4 DEF Relabel, UpdateInv, TypeOK
  <2>2. Committed'
    BY <1>1, <1>4, <2>1 DEF Committed
  <2>3. (UpdateInv /\ record # NoRecord /\ Committed =>
              Installed = record.incoming /\ Backup = record.original)'
    BY Values, PTL
  <2>4. Installed' = record.incoming /\ Backup' = record.original
    BY <1>1, <2>2, <2>3
  <2>5. CASE Committed
    BY <1>1, <2>4, <2>5, Values DEF SlotsStay
  <2>6. CASE OldShape
    BY <1>1, <1>2, <2>4, <2>6, Values DEF Slots!Replace
  <2> QED BY <1>1, <2>5, <2>6, Shapes
<1> QED BY <1>3, <1>4 DEF UpdateInv, RecoveryAt, Relabel

LEMMA UndoStays == ASSUME UpdateInv, UpdateInv', Undo PROVE SlotsStay
<1>1. recovery # NoRecovery /\ record # NoRecord /\ UNCHANGED <<label, record>> /\ Undoable
  BY DEF UpdateInv, Turns, RecoveryAt, Undo
<1>2. /\ record.original \in Builds /\ record.original # None /\ record.incoming # None
      /\ record.previous \in Held /\ file \in [Places -> Held]
  BY <1>1, RecordFields DEF UpdateInv, TypeOK
<1>3. /\ file'["install"] = record.original /\ file'["previous"] = record.previous
      /\ record.previous = None => file'["rollback"] = file["rollback"]
  BY <1>1, <1>2 DEF Undo, Undoable, BackupSource, Incoming, Moved
<1>4. OldShape'
  BY <1>1, <1>3 DEF OldShape, Untouched
<1>5. CASE OldShape
  BY <1>1, <1>3, <1>4, <1>5, OldStays DEF GoesOnWith
<1>6. Committed => OldShape
  BY <1>1, <1>2 DEF Committed, Undoable, OldShape, Untouched
<1> QED BY <1>1, <1>5, <1>6, Shapes

LEMMA SweepStays == ASSUME UpdateInv, UpdateInv', Sweep PROVE SlotsStay
<1>1. recovery # NoRecovery /\ record # NoRecord /\ record' = record
  BY DEF UpdateInv, Turns, Sweep
<1>2. /\ file'["install"] = file["install"] /\ file'["previous"] = file["previous"]
      /\ file'["rollback"] = file["rollback"] /\ label'["pending"] = None
  BY DEF Sweep, UpdateInv, TypeOK
<1>3. CASE file["install"] = record.original /\ file["previous"] = record.previous
  BY <1>1, <1>2, <1>3, OldStays DEF GoesOnWith, OldShape, Untouched
<1>4. CASE Committed
  <2>1. Committed'
    BY <1>1, <1>2, <1>4 DEF Committed
  <2> QED BY <1>1, <1>4, <2>1, CommittedStays
<1> QED BY <1>3, <1>4 DEF UpdateInv, RecoveryAt, Sweep

LEMMA StageStays == ASSUME UpdateInv, UpdateInv', Stage \/ StagingFails PROVE SlotsStay
<1>1. record = NoRecord /\ record' = NoRecord
  BY DEF Stage, StagingFails
<1>2. Slot \in {"new", "rollback"} /\ (Slot = "rollback" <=> op.kind = "rollback")
  BY OpFields DEF UpdateInv, Stage, StagingFails, Slot
<1>3. file'["install"] = file["install"] /\ BackupIdle' = BackupIdle
  BY <1>2 DEF UpdateInv, TypeOK, Stage, StagingFails, Moved, BackupIdle
<1> QED BY <1>1, <1>3, IdleStays

LEMMA StartStays == ASSUME UpdateInv, UpdateInv', Start PROVE SlotsStay
<1>1. CASE record # NoRecord
  BY <1>1, FrameStays DEF Start, Unstranded
<1>2. CASE record = NoRecord
  <2>1. file'["install"] = file["install"] /\ BackupIdle' = BackupIdle
    BY <1>2 DEF UpdateInv, TypeOK, Start, Unstranded, Moved, BackupIdle
  <2> QED BY <1>2, <2>1, IdleStays DEF Start
<1> QED BY <1>1, <1>2

LEMMA WriteRecordStays == ASSUME UpdateInv, UpdateInv', WriteRecord PROVE SlotsStay
<1>1. /\ record = NoRecord /\ UNCHANGED <<file, label>> /\ file["install"] # None
      /\ file[Slot] # None /\ (op.kind = "rollback" => file["previous"] = None)
      /\ op.kind \in {"update", "rollback"}
  BY OpFields DEF UpdateInv, Turns, Prepared, WriteRecord
<1>2. /\ record'.original = file["install"] /\ record'.previous = RecordPrevious
      /\ record' # NoRecord
  BY <1>1 DEF WriteRecord
<1>3. OldShape' /\ BackupBefore' = BackupIdle
  BY <1>1, <1>2 DEF RecordPrevious, OldShape, Untouched, BackupBefore, BackupIdle
<1>4. (UpdateInv /\ record # NoRecord /\ OldShape =>
            Installed = record.original /\ Backup = BackupBefore)'
  BY Values, PTL
<1> QED BY <1>1, <1>2, <1>3, <1>4, Values DEF SlotsStay

(* Between the record and the helper the files are untouched.              *)
LEMMA ReadyUntouched ==
    ASSUME UpdateInv, record # NoRecord, NEW s \in {"new", "rollback"}, Ready(s)
    PROVE  Untouched /\ (s = "rollback" => record.previous # None)
<1>1. record.incoming # None
  BY RecordFields DEF UpdateInv
<1> QED BY <1>1 DEF Ready, Untouched

LEMMA WritePendingStays == ASSUME UpdateInv, UpdateInv', WritePending PROVE SlotsStay
<1>1. /\ record # NoRecord /\ UNCHANGED <<file, record>>
      /\ Ready(Slot) /\ Slot \in {"new", "rollback"}
  BY OpFields DEF UpdateInv, Turns, Prepared, WritePending
<1>2. Untouched /\ Untouched'
  BY <1>1, ReadyUntouched DEF Untouched
<1> QED BY <1>1, <1>2, OldStays DEF GoesOnWith, OldShape

LEMMA OwnStays == ASSUME UpdateInv, UpdateInv', Own PROVE SlotsStay
<1>1. /\ record # NoRecord /\ UNCHANGED <<file, label>>
      /\ record' = [record EXCEPT !.owner = "helper"]
      /\ helper # NoHelper /\ helper.step = "wait"
  <2>1. helper # NoHelper /\ helper.step = "wait"
    BY DEF UpdateInv, Turns, Own
  <2> QED BY <2>1, Shapes DEF Own
<1>2. GoesOnWith
  BY <1>1, RecordOwned DEF UpdateInv, GoesOnWith
<1>3. OldShape
  BY <1>1, Shapes
<1>4. OldShape'
  BY <1>1, <1>2, <1>3 DEF GoesOnWith, OldShape, Untouched, Opened, Emptied, Filled, BackupIn
<1> QED BY <1>2, <1>3, <1>4, OldStays

LEMMA DisownedStays == ASSUME UpdateInv, UpdateInv', Disowned PROVE SlotsStay
<1>1. /\ helper # NoHelper /\ helper.step = "wait" /\ helper.slot = Slot
      /\ UNCHANGED <<label, record>> /\ Slot \in {"new", "rollback"}
      /\ op.kind \in {"update", "rollback"}
  BY OpFields DEF UpdateInv, Turns, Disowned
<1>2. record # NoRecord /\ Ready(Slot)
  BY <1>1, Shapes DEF UpdateInv, HelperAt
<1>3. Untouched /\ (op.kind = "rollback" => record.previous # None)
  BY <1>1, <1>2, ReadyUntouched DEF Slot
<1>4. CASE file' = file
  BY <1>1, <1>4, FrameStays
<1>5. CASE op.kind = "rollback" /\ file["previous"] = None
           /\ file' = [file EXCEPT !["previous"] = file["rollback"], !["rollback"] = None]
  <2>1. Untouched' /\ GoesOnWith
    BY <1>1, <1>2, <1>3, <1>5 DEF UpdateInv, TypeOK, Untouched, GoesOnWith
  <2> QED BY <1>3, <2>1, OldStays DEF OldShape
<1> QED BY <1>4, <1>5 DEF Disowned, BackupReturned

(* What is staged for an update may go, and a staged backup may return.    *)
LEMMA UnstagedFiles ==
    ASSUME UpdateInv, Unstaged
    PROVE  /\ file'["install"] = file["install"] /\ BackupIdle' = BackupIdle
           /\ Untouched /\ record' = record /\ (op.kind = "rollback" => record.previous # None)
                => Untouched'
           /\ op.kind = "update" => file'["rollback"] = file["rollback"]
<1>1. file \in [Places -> Held] /\ op.kind \in {"update", "rollback"}
  BY OpFields DEF UpdateInv, TypeOK, Unstaged
<1>2. /\ file'["install"] = file["install"]
      /\ \/ file'["previous"] = file["previous"] /\ file'["rollback"] = file["rollback"]
         \/ /\ op.kind = "rollback" /\ file["previous"] = None
            /\ file'["previous"] = file["rollback"] /\ file'["rollback"] = None
  BY <1>1 DEF Unstaged, BackupReturned
<1> QED BY <1>1, <1>2 DEF BackupIdle, Untouched

LEMMA UnstagedStays == ASSUME UpdateInv, UpdateInv', Unstaged PROVE SlotsStay
<1>1. CASE record = NoRecord
  <2>1. record' = NoRecord
    BY <1>1 DEF Unstaged
  <2> QED BY <1>1, <2>1, UnstagedFiles, IdleStays
<1>2. CASE record # NoRecord
  <2>1. /\ Ready(Slot) /\ Slot \in {"new", "rollback"} /\ op.kind \in {"update", "rollback"}
    BY <1>2, OpFields DEF UpdateInv, Turns, Prepared, Unstaged
  <2>2. Untouched /\ (op.kind = "rollback" => record.previous # None)
    BY <1>2, <2>1, ReadyUntouched DEF Slot
  <2>3. CASE record' = NoRecord
    BY <1>2, <2>2, <2>3, UnstagedFiles, EndStays
  <2>4. CASE record' = record
    BY <1>2, <2>1, <2>2, <2>4, UnstagedFiles, OldStays DEF GoesOnWith, OldShape
  <2> QED BY <2>3, <2>4 DEF Unstaged
<1> QED BY <1>1, <1>2

LEMMA InitSlots == Init => Slots!SlotsInit
<1> SUFFICES ASSUME Init PROVE Slots!SlotsInit
  OBVIOUS
<1>1. /\ record = NoRecord /\ file["install"] = 1 /\ file["previous"] = None
      /\ file["rollback"] = None
  BY DEF Init
<1>2. Installed = 1 /\ Backup = None
  BY <1>1 DEF Installed, Backup
<1> QED BY <1>2 DEF Slots!SlotsInit

LEMMA StepSlots ==
    UpdateInv /\ UpdateInv' /\ [Next]_vars => [Slots!SlotsNext]_Slots!slotVars
<1> SUFFICES ASSUME UpdateInv, UpdateInv', [Next]_vars
             PROVE  SlotsStay \/ Slots!SlotsNext
  BY DEF SlotsStay, Slots!slotVars
<1>1. CASE Program
  <2>1. ASSUME NEW who \in {"daemon", "cli"}, NEW kind \in {"update", "rollback"},
               NEW b \in Held, Begin(who, kind, b)
        PROVE  SlotsStay
    BY <2>1, FrameStays DEF Begin, disk
  <2>2. CASE Refuse \/ Spawn \/ Exit
    BY <2>2, FrameStays DEF Refuse, Spawn, Exit, disk
  <2> QED BY <1>1, <2>1, <2>2, StageStays, WriteRecordStays, WritePendingStays, OwnStays,
       UnstagedStays, DisownedStays DEF Program
<1>2. CASE Helper
  <2>1. CASE MoveFails
    BY <2>1, FrameStays DEF MoveFails, disk
  <2> QED BY <1>2, <2>1, MovesStay, CommitLabelReplaces, CleanStays, DropStays, GiveUpStays
       DEF Helper, Slots!SlotsNext
<1>3. CASE Recovery
  <2>1. CASE RecoveryFails
    BY <2>1, FrameStays DEF RecoveryFails, disk
  <2> QED BY <1>3, <2>1, UndoStays, RelabelReplaces, SweepStays, ForgetStays
       DEF Recovery, Slots!SlotsNext
<1>4. CASE DaemonEnds \/ CommandDies \/ Reboot \/ Age \/ Reclaim
  BY <1>4, FrameStays DEF DaemonEnds, CommandDies, Reboot, Age, Reclaim, disk
<1>5. CASE UNCHANGED vars
  BY <1>5, FrameStays DEF vars, disk
<1> QED BY <1>1, <1>2, <1>3, <1>4, <1>5, StartStays DEF Next

(* Installed build and backup change together or not at all, however       *)
(* updates and rollbacks fail, die and are recovered (_apply_windows, the  *)
(* helper's script, _recover_windows_transaction).                         *)
THEOREM UpdatesAreWhole == Spec => ImplementsSlots
BY InitSlots, StepSlots, UpdateInvariant, PTL DEF Spec, ImplementsSlots, Slots!SlotsSpec
=============================================================================
