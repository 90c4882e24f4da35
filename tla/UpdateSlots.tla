----------------------------- MODULE UpdateSlots -----------------------------
(***************************************************************************)
(* What an update of the sidecar promises, with no files, helper or        *)
(* process: a build is installed, the one it replaced is kept for a        *)
(* rollback, and the two change together or not at all.                    *)
(***************************************************************************)
EXTENDS Naturals

CONSTANT Builds    \* the builds of the sidecar, positive numbers

VARIABLES
    installed,   \* the build that is installed
    backup       \* the build a rollback returns to, or 0

slotVars == <<installed, backup>>

SlotsInit == installed \in Builds /\ backup = 0

(* An update or a rollback.                                                *)
Replace(b) == installed' = b /\ backup' = installed

SlotsNext == \E b \in Builds : Replace(b)

SlotsSpec == SlotsInit /\ [][SlotsNext]_slotVars
=============================================================================
