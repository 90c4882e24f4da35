---------------------------- MODULE LatestCards ----------------------------
(***************************************************************************)
(* The current usage cards of one account: what each source last reported  *)
(* for each card, the merged rows the dashboard shows, and the windows     *)
(* archived when a row's reset moves on.                                   *)
(*                                                                         *)
(* Code: app/services/accumulator.py, accumulator_upsert.py,               *)
(* latest_usage_contributions.py, window_closer.py, the cards of           *)
(* app/api/endpoints/fleet_ingest.py, poll_now of app/services/poller.py,  *)
(* init_db of app/core/db.py.                                              *)
(*                                                                         *)
(* A slot is the key of a card within the account: its model ("" for the   *)
(* account as a whole) and its window type.  Of a card's content the model *)
(* keeps when its window resets, whether it is an error, its staleness and *)
(* whether its detail says that the collection is failing; a contribution  *)
(* says so exactly when it is stale.                                       *)
(* Every report is written in one transaction.                             *)
(***************************************************************************)
EXTENDS Integers, Sequences, SequencesExt

CONSTANTS
    Sidecars,
    Slots,         \* records [model, window]
    Untimed,       \* those of them that a report may hold without a reset
    Length,        \* how long a window lasts
    Jitters,       \* what one reading of a reset may differ from another
    LastWindow     \* bound: windows of the provider

ASSUME WindowAssumption ==
    /\ Length \in Nat \ {0} /\ LastWindow \in Nat \ {0}
    /\ Jitters \subseteq Nat /\ \A j \in Jitters : 2 * j < Length
ASSUME SourceAssumption == "server" \notin Sidecars

VARIABLES
    window,    \* the provider's current window, from 1
    reported,  \* per slot, what the sources reported, the latest last
    rows,      \* per slot, the merged card
    archived   \* slots and resets of the windows the last step archived

vars == <<window, reported, rows, archived>>

Sources == {"server"} \cup Sidecars
None == [window |-> 0, jitter |-> 0]
Reset(w) == {[window |-> w, jitter |-> j] : j \in Jitters}
Resets == {None} \cup UNION {Reset(w) : w \in 1..LastWindow}
At(reset) == reset.window * Length + reset.jitter

(* Cards of one model that differ in the type of window exclude each other.*)
Clashing(s, t) == s.model = t.model /\ s.model # "" /\ s.window # t.window
Consistent(S) == \A s, t \in S : ~Clashing(s, t)

Contribution == [source: Sources, reset: Resets, stale: BOOLEAN]
Row == [kind: {"none", "error", "card"}, reset: Resets, stale: BOOLEAN, failing: BOOLEAN,
        owner: Sources \cup {""}]
NoRow == [kind |-> "none", reset |-> None, stale |-> FALSE, failing |-> FALSE, owner |-> ""]
(* What a source can have read in a window; complete means without errors. *)
Readings(w) ==
    UNION {{f \in [S -> {None} \cup Reset(w)] : \A s \in S \ Untimed : f[s] # None} :
           S \in SUBSET Slots}
Keys(r) == DOMAIN r.resets \cup r.errors
Reports == [w \in 1..LastWindow |->
    {r \in [resets: Readings(w), errors: SUBSET Slots, complete: BOOLEAN] :
        /\ Consistent(Keys(r)) /\ DOMAIN r.resets \cap r.errors = {}
        /\ r.complete => r.errors = {}}]

-----------------------------------------------------------------------------
(* The merged card of a slot.                                              *)

(* A later card replaces the reset only if it has one.                     *)
MergedReset(c) ==
    LET timed == {i \in DOMAIN c : c[i].reset # None}
    IN  IF timed = {} THEN None ELSE c[CHOOSE i \in timed : \A j \in timed : j <= i].reset

AllStale(c) == \A i \in DOMAIN c : c[i].stale

(* Mutant: whoever wrote last owns the card.                               *)
OwnerLast(c) == Last(c).source

(* A fresh report of the server, else the latest fresh one, else the latest. *)
Owner(c) ==
    LET fresh == {i \in DOMAIN c : ~c[i].stale}
    IN  IF \E i \in fresh : c[i].source = "server" THEN "server"
        ELSE IF fresh # {} THEN c[CHOOSE i \in fresh : \A j \in fresh : j <= i].source
        ELSE Last(c).source

(* The detail is that of the last contribution.                            *)
Merged(c) ==
    IF c = <<>> THEN NoRow
    ELSE [kind |-> "card", reset |-> MergedReset(c), stale |-> AllStale(c),
          failing |-> Last(c).stale, owner |-> Owner(c)]

Of(c, src) == {i \in DOMAIN c : c[i].source = src}
Place(c, src) == CHOOSE i \in Of(c, src) : TRUE
Without(c, src) == IF Of(c, src) = {} THEN c ELSE RemoveAt(c, Place(c, src))

(* A source's report takes the latest place; without a reset of its own it *)
(* keeps the one the source reported before.                               *)
Updated(c, src, reset, aged) ==
    LET before == IF Of(c, src) = {} THEN None ELSE c[Place(c, src)].reset
    IN  Append(Without(c, src),
               [source |-> src, reset |-> IF reset = None THEN before ELSE reset, stale |-> aged])

-----------------------------------------------------------------------------
(* upsert_latest_usage for the cards of a report, one after the other.     *)

HasCard(rs) == \E s \in Slots : rs[s].kind = "card"

(* Mutant: any advance of the reset closes a window.                       *)
AdvancedAtAll(old, new) == old # None /\ At(new) > At(old)

(* A window has closed when the reset moved by more than half of one.      *)
Advanced(old, new) == old # None /\ new # None /\ 2 * (At(new) - At(old)) > Length

Contributed(src, r, aged) ==
    [s \in Slots |-> IF s \in DOMAIN r.resets THEN Updated(reported[s], src, r.resets[s], aged)
                     ELSE reported[s]]

(* Cards that are well clear the errors of the account, an error is not    *)
(* written where the account has a card, and a model has one window type.  *)
Upserted(r, c) ==
    [s \in Slots |->
        IF s \in DOMAIN r.resets THEN Merged(c[s])
        ELSE IF \E t \in DOMAIN r.resets : Clashing(s, t) THEN NoRow
        ELSE IF DOMAIN r.resets # {} /\ rows[s].kind = "error" THEN NoRow
        ELSE IF DOMAIN r.resets # {} \/ HasCard(rows) THEN rows[s]
        ELSE IF s \in r.errors THEN [NoRow EXCEPT !.kind = "error"]
        ELSE IF \E t \in r.errors : Clashing(s, t) THEN NoRow
        ELSE rows[s]]

Closed(r) ==
    {<<s, rows[s].reset>> : s \in {t \in DOMAIN r.resets : Advanced(rows[t].reset, r.resets[t])}}

(* Mutant: a row goes because it was not reported, also when it is current.*)
GhostsOfAnyAge(rs, r) == {s \in Slots \ Keys(r) : rs[s].reset # None}

(* Rows that a sidecar's report leaves out and whose window is over.       *)
Ghosts(rs, r) == {s \in Slots \ Keys(r) : rs[s].reset # None /\ rs[s].reset.window < window}

Pruned(rs, r) ==
    [s \in Slots |-> IF Keys(r) # {} /\ s \in Ghosts(rs, r) THEN NoRow ELSE rs[s]]

(* What a complete report no longer lists is no longer the source's.       *)
Retired(src, r, c) ==
    IF r.complete THEN {s \in Slots \ Keys(r) : Of(c[s], src) # {}} ELSE {}

(* Mutant: the rows of cards that were retired are left as they are.       *)
WrittenUnrebuilt(src, r, c, rs) ==
    LET gone == Retired(src, r, c)
    IN  /\ reported' = [s \in Slots |-> IF s \in gone THEN Without(c[s], src) ELSE c[s]]
        /\ rows' = rs

Written(src, r, c, rs) ==
    LET gone == Retired(src, r, c)
    IN  /\ reported' = [s \in Slots |-> IF s \in gone THEN Without(c[s], src) ELSE c[s]]
        /\ rows' = [s \in Slots |-> IF s \in gone THEN Merged(Without(c[s], src)) ELSE rs[s]]

-----------------------------------------------------------------------------
(* The actions.  A report was read some time before it is written: it was  *)
(* queued, its request was slow, or the server's collection took its time. *)

(* A push of a sidecar, or the replay of one from its queue.               *)
Ingest(src, r) ==
    /\ archived' = Closed(r)
    /\ LET c == Contributed(src, r, FALSE) IN Written(src, r, c, Pruned(Upserted(r, c), r))
    /\ UNCHANGED window

(* The poller writes what the server's collectors have read.               *)
Poll(r) ==
    /\ archived' = Closed(r)
    /\ LET c == Contributed("server", r, FALSE) IN Written("server", r, c, Upserted(r, c))
    /\ UNCHANGED window

Staled(c) == [i \in DOMAIN c |-> IF c[i].source = "server" THEN [c[i] EXCEPT !.stale = TRUE] ELSE c[i]]

(* The server's collection fails, is skipped or has no collector any more. *)
(* The cards it read the last time are written once more, marked stale     *)
(* after an hour without success, or else the errors of the failure; then  *)
(* its contributions that were last written more than an hour ago become   *)
(* stale.  Which are that old is left open.                                *)
PollFails(r, aged) ==
    /\ ~r.complete /\ (r.errors = {} \/ DOMAIN r.resets = {})
    /\ aged => DOMAIN r.resets # {}
    /\ \E old \in SUBSET {s \in Slots \ DOMAIN r.resets : Of(reported[s], "server") # {}} :
         LET c == Contributed("server", r, aged)
             rs == Upserted(r, c)
         IN  /\ reported' = [s \in Slots |-> IF s \in old THEN Staled(c[s]) ELSE c[s]]
             /\ rows' = [s \in Slots |-> IF s \in old THEN Merged(Staled(c[s])) ELSE rs[s]]
    /\ archived' = Closed(r) /\ UNCHANGED window

(* A card whose detail says that the collection is failing becomes stale,  *)
(* whatever its contributions are.                                         *)
Scrubbed(row) == IF row.failing THEN [row EXCEPT !.stale = TRUE] ELSE row

(* The server starts: contributions without a row and errors next to cards *)
(* are dropped, and the cards are scrubbed.                                *)
Restart ==
    /\ reported' = [s \in Slots |-> IF rows[s].kind = "none" THEN <<>> ELSE reported[s]]
    /\ rows' = [s \in Slots |-> IF rows[s].kind = "error" /\ HasCard(rows) THEN NoRow
                               ELSE Scrubbed(rows[s])]
    /\ archived' = {} /\ UNCHANGED window

NextWindow ==
    /\ window < LastWindow /\ window' = window + 1
    /\ archived' = {} /\ UNCHANGED <<reported, rows>>

-----------------------------------------------------------------------------

Init ==
    /\ window = 1
    /\ reported = [s \in Slots |-> <<>>] /\ rows = [s \in Slots |-> NoRow]
    /\ archived = {}

Next ==
    \/ \E r \in UNION {Reports[w] : w \in 1..window} :
        \/ Poll(r)
        \/ \E aged \in BOOLEAN : PollFails(r, aged)
        \/ \E src \in Sidecars : Ingest(src, r)
    \/ Restart \/ NextWindow

Spec == Init /\ [][Next]_vars

-----------------------------------------------------------------------------
(* The variables hold values of these types, and a slot holds at most one  *)
(* contribution of a source (uq_latest_usage_contribution_identity).       *)
TypeOK ==
    /\ window \in 1..LastWindow
    /\ reported \in [Slots -> Seq(Contribution)]
    /\ \A s \in Slots : \A i, j \in DOMAIN reported[s] : reported[s][i].source = reported[s][j].source => i = j
    /\ rows \in [Slots -> Row]
    /\ archived \subseteq Slots \X Resets

(* A card that is shown is what its sources still report, merged: a card   *)
(* retired by a complete report, aged by a failing poll or dropped at a    *)
(* start leaves no trace in it (_rebuild_latest_usage_slot and the places  *)
(* that change contributions without it or rows without it).  Only the     *)
(* scrub of a start may have made it stale, and only when its last         *)
(* contribution was (_scrub_residual_stale_health).                        *)
RowsFromSources ==
    \A s \in Slots : rows[s].kind = "card" =>
        LET m == Merged(reported[s])
        IN  rows[s] = m \/ (m.failing /\ rows[s] = [m EXCEPT !.stale = TRUE])

(* Without the exception it fails: see "Deviations without a run" in the   *)
(* README.                                                                 *)
RowsAreMerged == \A s \in Slots : rows[s].kind = "card" => rows[s] = Merged(reported[s])

(* A card that is not stale belongs to a source that reports it and is     *)
(* well, whichever of them wrote last (_latest_usage_sidecar_id;           *)
(* docs/collection_logic.md:29-32).                                        *)
OwnerIsFresh ==
    \A s \in Slots : rows[s].kind = "card" /\ ~rows[s].stale =>
        \E i \in DOMAIN reported[s] : ~reported[s][i].stale /\ reported[s][i].source = rows[s].owner

(* Only a window that is over is archived, whatever the order in which the *)
(* readings of old and new windows are written (_maybe_close_previous_window). *)
OnlyClosedWindows == \A x \in archived : x[2].window < window

(* All sources that report a card have read it in the current window.      *)
IsCurrent(c) == c # <<>> /\ \A i \in DOMAIN c : c[i].reset.window = window

(* A card that all its sources report for the current window is shown,     *)
(* though reports that leave it out prune what is over, and whatever was   *)
(* pruned or retired before (prune_stale_latest_usage).  Only a card of    *)
(* the same model with another window type may displace it.                *)
CurrentIsShown ==
    \A s \in Slots :
        IsCurrent(reported[s]) /\ (\A t \in Slots : ~Clashing(s, t)) => rows[s].kind = "card"

(* A step changes the contributions of one source at most: whatever it     *)
(* reports, retires or lets age, those of the others stay as they are, in  *)
(* the order that decides the merge.  Only a start drops what has no row   *)
(* (the filters by source_type and sidecar_id of                           *)
(* retire_latest_contributions and mark_server_contributions_stale).       *)
OthersContributionsStand ==
    [][Restart \/ \E src \in Sources : \A s \in Slots :
          Without(reported'[s], src) = Without(reported[s], src)]_vars

(* What a source still reports for the current window is shown, or another *)
(* card of its model is (app/models/db_usage.py:44: "so one complete       *)
(* report cannot retire another producer's card").                         *)
NotRetiredByOthers ==
    \A s \in Slots :
        IsCurrent(reported[s]) => \E t \in Slots : (t = s \/ Clashing(s, t)) /\ rows[t].kind = "card"
=============================================================================
