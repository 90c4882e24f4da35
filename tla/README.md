# Runway: specifications, model checking and proofs

Runway collects usage, limits and cost of AI tools. A *sidecar* runs on every
machine (`scripts/sidecar.py`, `scripts/sidecar_pkg/`, or inside the tray
application `sidecar_app/`), reads local logs and credentials, and posts them,
signed, to the *server* (`app/`), which stores them in SQLite, polls the
providers itself with the credentials it was given, and serves the dashboard.

This directory holds TLA+ modules of the parts of that system whose correctness
depends on order, on lost or repeated calls, on crashes or on several writers;
the TLC configurations that check them on small instances; and proofs, checked
by TLAPS, that the most important properties hold for every instance.

| file | what it is |
| --- | --- |
| `EventStore.tla`, `MCEventStore.tla`, `EventStoreShared.cfg` | the server's event table: ingestion, held events, assignment, rollups |
| `EventStoreProofs.tla` | its types, rollups, redirects, archived accounts and held events, the replay and the order of pushes, what an answer promises, proved |
| `EventDelivery.tla`, `MCEventDelivery.tla`, `EventDelivery*.cfg` | the sidecar's delivery of usage events |
| `UsageLedger.tla` | what that delivery promises, as an abstract specification |
| `EventDeliveryProofs.tla` | counted once, the refinement, the queue and the read positions, proved |
| `SourceControl.tla`, `MCSourceControl.tla`, `SourceControl*.cfg` | local consent, withdrawal and remote control of credential sources |
| `SourceControlProofs.tla` | eleven theorems about it |
| `Heartbeat.tla`, `MCHeartbeat.tla`, `Heartbeat.cfg` | what the server's answers instruct a sidecar to do, and what comes of it |
| `HeartbeatProofs.tla` | updates and owed collections are accounted for, settings stay in force, proved |
| `Enrolment.tla`, `MCEnrolment.tla`, `Enrolment.cfg` | pairing codes, devices, revocation, the timestamp window and the receipts |
| `DeviceRegister.tla` | what enrolment and authentication promise, as an abstract specification |
| `EnrolmentProofs.tla` | its safety properties and the refinement, proved |
| `LatestCards.tla`, `MCLatestCards.tla`, `LatestCards.cfg` | the usage cards of one account, reported by several sources |
| `LatestCardsProofs.tla` | its four properties, and that sources do not disturb one another, proved |
| `LoginRenewal.tla`, `MCLoginRenewal.tla`, `LoginRenewal.cfg` | single-use refresh tokens renewed in files and in the Keychain |
| `LoginRenewalProofs.tla` | its safety properties, proved |
| `SelfUpdate.tla`, `SelfUpdate.cfg` | update and rollback of the sidecar's executable on Windows |
| `UpdateSlots.tla` | what that promises, as an abstract specification |
| `SelfUpdateProofs.tla` | the refinement, the names and the recovery, proved |
| `PROJECT.json` | components, runs, mutants, the map from definitions to source lines, hazards, findings, theorems |

To check a configuration: `tlc -config EventStoreShared.cfg MCEventStore.tla`.
To check the proofs of a module: `tlapm EventStoreProofs.tla`.

## 1. The system

### 1.1 Parts, their state and their operations

**Sidecar.**

| part | state | operations | what makes it correct |
| --- | --- | --- | --- |
| collection cycle (`DaemonRunner`, `run_collection`) | the cycle's copy of the configuration, collected metrics and events | synchronise sources, collect, flush the queue, post in batches, commit the read positions | nothing is skipped; nothing is lost by a partial failure |
| read positions (`event_watermark.py`, cursor files, `hermes_watermark.py`) | a timestamp per provider and account, a row id per ledger, units reported per meter, each in a file | read, park, commit, advance | never ahead of the server |
| offline queue (`queue_push`, `queue_flush`) | a bounded file of payloads | append, replay, publish what is left | gives up only what is stored |
| signed POST with retry | none | post, back off, give up | a lost answer never doubles anything |
| source policy (`source_consent.py`, `source_protocol.py`) | consent with generations, `source-control.json`, what is blocked | change consent, synchronise, apply, gate the egress | the user's withdrawal and the server's pause hold |
| daemon loop (`DaemonRunner`) | the providers to poll next, what the answers of a cycle asked for, settings in force | plan, post, merge answers, follow instructions | nothing asked for is forgotten; an update is installed once |
| renewal of logins (`keep_alive.py`, `*_renewer.py`) | answers not saved yet, refusals, a recovery record in the Keychain | find a login that is due, exchange, compare, replace, recover | the only valid login is never dropped; no token is sent twice |
| self-update (`self_update*.py`) | five places for executables, three version files, a record, a lock, a detached helper | stage, record, hand over to the helper, recover at the next start | installed build and backup change together or not at all |
| keychain worker, readers of credentials and cookies | a child process; none | | out of scope, see 7 |

**Server.**

| part | state | operations | what makes it correct |
| --- | --- | --- | --- |
| ingest endpoint (`fleet_ingest.py`) | none of its own: the order of its commits | credentials, cards, events, registry, update push | a failure in one part does not lose another |
| event store (`event_ingestor.py`, `period_rollups.py`, `fleet_pending_events.py`) | events, pending events, tags, rollups | ingest, redirect, hold, re-attribute, assign | each event counted once, under one account, rollups equal to events |
| source controls (`source_controls.py`, `source_commands.py`) | a row per source, numbered commands, credentials, a revision | report, queue, acknowledge, prune, store, load | tombstones are final, pauses stand |
| token cache (`token_cache_store.py`) | usable credentials in memory | reload when the revision moved | never serves a withdrawn credential |
| registry (`fleet_registry.py`) | triggers and due polls in memory; rows with settings and the update push | build an answer and consume what it carries | an order reaches the sidecar, or is accounted for |
| pairing and devices (`pairing.py`, `sidecar_devices.py`) | codes; devices with their keys | mint, redeem, revoke | one code, one device; nothing is left with a revoked one |
| authentication of requests (`security.py`, `replay.py`) | receipts | check the window, read the key, claim | a signed request takes effect once |
| cards, window closing (`latest_usage_contributions.py`, `accumulator_upsert.py`, `window_closer.py`) | contributions per source, merged rows, archived windows | upsert, retire, prune, stale, close | a card is what its sources still report |
| collectors (`smart_collector.py`, failover) | cached results, backoff, in memory | poll, fail over | planned |
| token refresh | rotating refresh tokens | refresh, write back | planned |
| account merges | the merge journal | merge, unmerge | planned |
| webhooks and alerts | `last_fired_at` | evaluate, deliver, commit | planned |

All components, with their files and the reason when one is not modelled, are in
`PROJECT.json` under `components`.

### 1.2 How they interact

A cycle of the sidecar runs: synchronise the sources with the server
(`POST /fleet/sources/sync`: consent and acknowledgments up, controls and
commands down), collect, flush the offline queue, post the collected payload in
batches of events to `POST /fleet/ingest`, and move the read positions. The
server's handlers are synchronous functions on one SQLite database; two
requests interleave only between transactions. What crosses the network may be
lost, answered without the answer arriving, or processed after the client gave
it up; the sidecar may die at any point. The user and the administrator act at
any time. Every answer of `/fleet/ingest` carries instructions (providers to
poll, a trigger, an update push, settings), which the daemon merges over the
batches of a cycle and follows at its end. Beside the cycle run the keep-alive
thread, which renews logins, and the self-update, whose helper outlives the
process that started it.

### 1.3 What is hard about it

- *Lost and late calls.* Everything is re-sent: by the retry, by the queue, by
  the next cycle. Correctness rests on event ids, generations and command
  numbers.
- *Partial failure.* A POST is answered 200 with `events_error` when the events
  were rolled back; a batch fails in the middle of a cycle; an assignment
  commits several times; an answer arrives and cannot be saved.
- *Crashes* between two file writes, and inside one.
- *Several writers of one row*: two machines that share a log directory; tags,
  redirects and archived accounts that change between two pushes of one event;
  the server and several sidecars that report one card; the tool, the user and
  the sidecar that write one login.
- *Stale copies*: the configuration of a cycle, the token cache, the row a held
  event is stored under meanwhile, the login read before its exchange.
- *Steps that cannot be repeated*: a pairing code, a refresh token, an
  instruction that is consumed when the answer is built, a move of an
  executable.

`PROJECT.json` lists the hazards one by one, at the line where each bites, with
the properties that would show it going wrong.

## 2. What is modelled

### 2.1 EventStore

`event_ingestor.py`, `period_rollups.py`, the lookups of `credentials/tags.py`
and the promotion half of `fleet_pending_events.py`.

| model | code |
| --- | --- |
| `db` (`stored`, `rollup`, `pending`, `tags`) | the committed tables `usage_events`, `usage_period_rollups`, `pending_usage_events`, `credential_tags` |
| `txn` | the session of one `ingest` call: pushes still to do and its uncommitted view |
| `job` | an assignment of the operator between its commits |
| `archived`, `native`, `identity` | archived accounts; the one account a host's own credential resolves to; how a host labels its events |
| `Receive`, `IngestPush`, `Commit`, `Abort` | `EventIngestor.ingest`: one event at a time, one commit, or a rollback |
| `Redirects`, `ResolveIdentityless`, `Hold`, `Save`, `Ingested` | the branches an event takes |
| `Assign`, `VisitRow`, `PromoteGroup`, `FinishAssign` | `_promote_pending_event_rows`, commit by commit |
| `SetTag`, `ClearTag`, `Archive`, `Restore`, `ReportNative`, `ReportIdentity` | what the operator and the hosts may change in between |

Abstractions. Events are pushed under one provider, `Source`, and `Target` is
the provider they may be redirected to; a push under `Target` is the ordinary
case with the names exchanged. An event says a kind and a model: cost, tokens
and time are left out, and so are the calendar periods of a rollup, since every
period of a grain moves alike. A rollup of zero stands for an absent row as
well. A write transaction excludes another: SQLite has one writer, and the
handlers run to their commit without an `await`. One assignment at a time.

### 2.2 EventDelivery and UsageLedger

`scripts/sidecar.py` from `run_once` to `queue_push`, the extractors as kinds of
read position, and of the server what it does with the events of a payload.

| model | code |
| --- | --- |
| `records` | what the tools write: log lines, ledger rows, growth of a counter |
| `watermark`, `cursor`, `mark` | `event-watermark.json`, the cursor file of the MiniMax stores, the Hermes high-water marks |
| `parked` | `_PENDING_ADVANCES` |
| `queue`, `replayed`, `retained` | the offline queue and its replay |
| `phase`, `events`, `unsent`, `sending`, `tries`, `eventsFailed` | the local variables of `_run_once_impl` |
| `inFlight` | requests the client gave up and the server still processes |
| `stored`, `counts` | the server: events by id and the totals it adds to |
| `Collect` | `run_collection` for the sources polled |
| `Answered`, `Retry`, `GiveUp`, `LateArrival` | one POST and what may become of it |
| `PublishQueue`, `InterruptFlush`, `NextLine` | `queue_flush` |
| `CommitCursors`, `AdvanceWatermark`, `SaveToQueue` | the end of a cycle, by outcome |
| `Crash` | death and restart; a watermark file cut off in a write reads as empty |

`UsageLedger` is the promise, without sidecar, queue or network: usage is
counted in groups of units that were used and not yet counted.
`ImplementsLedger` says EventDelivery refines it (`used` is the number of
records, `counts` the server's counts); its liveness part is `EveryUnitArrives`.

Abstractions. A record is one unit of usage. A source is a log (read above a
timestamp), a ledger (read above a row id) or a meter (the growth since a mark);
`Billed` names the provider its events are filed under. `Overlap` is how far
below its watermark a log is read again, `Late` how far behind the newest record
a new one may be dated, plus one: 0 means timestamps grow, 1 that they may
repeat. Payloads are sets of events; the queue is one file; a stop signal is the
choice to interrupt. `budget` bounds the injected faults: crashes, stores that
cannot be read, marks that cannot be saved. Metrics, session names, the egress
filter (part of SourceControl), rebuilt ledgers and the bootstrap window are
left out.

### 2.3 SourceControl

Server: `source_controls.py`, `source_commands.py`, `fleet_sources.py`,
`token_cache_store.py`. Sidecar: `source_protocol.py`, `source_consent.py`,
`source_settings.py`, the cycle of `sidecar.py`, `sidecar_app/daemon.py`.

| model | code |
| --- | --- |
| `row`, `commands`, `held` | `SidecarSourceState`, `SidecarSourceCommand`, the generation of the stored credential |
| `moved`, `cached` | whether the source revision moved since the token cache was loaded, and what it serves |
| `consent` | `keychain_sources` of the configuration file: reading on or off, with a generation |
| `stored`, `acks` | `source-control.json` |
| `policy`, `blocked`, `faulted`, `accepted` | `SourcePolicy` and `SourceClient` in memory |
| `stage`, `snap` | where a cycle stands, and the configuration it copied |
| `reply`, `late`, `pushes` | the network |
| `Ask`, `Answer`, `GiveUp`, `Receive`, `SaveFails` | a synchronisation and what may become of it |
| `Collect`, `Send`, `EndCycle`, `Store` | a credential on its way from `filter_egress` to `save_contribution` |
| `SetRead`, `Administer`, `Retire`, `Load`, `Restart` | the user, the administrator, removals, a read of the token cache, a restart of the sidecar |
| `SynchroniseLate` | a synchronisation the sidecar gave up is processed |

Abstractions. The revision counter is the bit `moved`. Consented sources are
those read under a local consent (the macOS Keychain); ordinary ones are read
without it and get their row with their first credential. Server and sidecar
agree on the catalogue and the destination, so a synchronisation negotiates all
consented sources. A credential is its generation. `dismiss` and `request_setup`
are both `notice`. That a command is old enough to be pruned is a choice. There
is one sidecar process and one worker with a token cache. Pairing and revocation
of the device are Enrolment's.

### 2.4 Heartbeat

`fleet_registry.py`, the end of `fleet_ingest.py` and `fleet_sidecars.py` at the
server; `DaemonRunner`, the signed POST and `queue_flush` of `sidecar.py`.

| model | code |
| --- | --- |
| `row` | the sidecar's row: enabled, update push, settings |
| `trigger`, `due` | `_pending_triggers` and the providers whose interval has passed, in the server's memory |
| `call`, `late` | the POST the sidecar waits for, and those it gave up |
| `phase`, `plan`, `collecting`, `toFlush`, `toPush`, `failed`, `heard`, `attempts` | the daemon's loop and the local variables of a cycle |
| `queue`, `applied` | the offline queue; the settings in force, which no restart keeps |
| `ForceCollect`, `PushUpdate`, `SetEnabled`, `ChangeSettings`, `DeleteSidecar` | what an operator may order |
| `Answer`, `Handle`, `HandleLate` | an ingest builds its answer and consumes what it carries |
| `StartCycle`, `Post`, `ReceiveFlushed`, `ReceivePushed`, `FinishCycle` | a cycle, from the plan to the instructions it follows |
| `LoseRequest`, `TimeOut`, `LoseAnswer`, `RestartServer`, `RestartSidecar` | what may go wrong |

Abstractions. Time is not counted: a provider becomes due when its interval has
passed, whenever that is. Providers are the scheduled ones. The settings are one
numbered snapshot. `installs`, `missed` and `owed` are history.

### 2.5 Enrolment and DeviceRegister

`services/pairing.py`, `fleet_pairing.py`, `sidecar_devices.py`, the
authentication of an ingest in `core/security.py`, `core/replay.py`, and
`sidecar_pkg/pairing.py` on the machine.

| model | code |
| --- | --- |
| `codes`, `devices` | `pairing_codes` and `sidecar_devices`, with the registry row and the credential of each device |
| `pairing`, `late`, `config` | the request a machine waits for, those it gave up, the device of its configuration file |
| `now`, `offset` | the server's clock and how far each machine's is ahead of it |
| `signed`, `active` | envelopes sent, each deliverable any number of times; requests under way |
| `receipts` | `replay_receipts` |
| `Mint`, `Expire`, `AskToPair`, `Redeem`, `GiveUp`, `RedeemLate`, `SaveConfig` | pairing, with lost and late answers |
| `Sign`, `Receive`, `Authenticate`, `Claim`, `Register`, `Store`, `End` | one signed request: timestamp, body, key, receipt, registry, credential |
| `Delete` | `delete_sidecar`: revocation of a device and of what it contributed |

`DeviceRegister` is the promise, without clock, window, receipt, retry or lost
answer: an unused code makes the next device, whose key goes to one machine then
or to nobody ever; a machine signs with keys it has; a signed request is taken
once until it is too old to be let in, each time it is taken it may leave one
contribution, and a revoked device neither has nor gets any.
`ImplementsRegister` says Enrolment refines it: a request is taken at its claim,
open until the work on it ends (`Underway`) and expired when its timestamp has
left the window (`TooOld`); arrivals, authentication and the registry row change
nothing there.

The timestamp is checked when the headers arrive (`Receive`), the signature is
claimed when the body has (`Claim`), and nothing bounds the time in between
(`security.py:336-341`): `Tick` may pass any number of times while a request is
under way. So once its receipt is gone a copy that was let in at the end of the
window is carried out again (section 6), and what the code does keep is
`OnceWhileAccepted`: as long as a timestamp is accepted its request is not begun
a second time.

Abstractions. Time is in units of a window. A signature is the envelope it
signs; keys cannot be forged. A server without encryption, which answers a code
with the shared key, is left out (`fleet_pairing.py:131`). The rate limit, the
audit log and the other signed endpoints, which use the same check, are left
out.

### 2.6 LatestCards

`accumulator.py`, `accumulator_upsert.py`, `latest_usage_contributions.py`,
`window_closer.py`, the writers of cards in `fleet_ingest.py` and `poller.py`,
the cached cards of `smart_collector.py`, and the scrub of `core/db.py`.

| model | code |
| --- | --- |
| `reported` | `latest_usage_contributions`: per card what each source last reported, the latest last |
| `rows` | `latest_usage`: the merged card, its owner, reset and staleness, and whether its detail says "Collection failing" |
| `archived` | the windows the last step archived |
| `window` | the window the provider is in |
| `Ingest`, `Poll` | a sidecar's report, old or new; a poll of the server |
| `PollFails` | a poll that fails: the cards of the cache once more, stale after an hour, or errors; then the ageing of old contributions |
| `Upserted`, `Closed`, `Pruned`, `Retired`, `Written` | the order of a write: upsert, close, prune, retire, rebuild |
| `Restart`, `Scrubbed` | what a start drops, and the rows it marks stale |

Abstractions. One account. All slots share the boundaries of their windows. A
report is a set of readings of an earlier or the current window, complete or
not, some of them errors: the replay of the queue may bring any of them at any
time. A contribution says "Collection failing" exactly when it is stale, and the
detail of a card is that of its last contribution (`merge_card_json`). Writes
that are swallowed (`accumulator_upsert.py:272-277`) leave a report without the
card, which is a report of its own. Left out: the hardening of default accounts,
the eviction of raw ones, quota snapshots, conflicts of units, the seeding of
contributions by an upgrade, and the totals of an archived window.

### 2.7 LoginRenewal

`keep_alive.py`, `anthropic_renewer.py` (`codex_renewer.py` is the same program
for another file), `claude_keychain_renewer.py`, `macos_keychain_store.py`.

| model | code |
| --- | --- |
| `store`, `lapsed`, `recent` | the token in the tool's own store, whether it is about to lapse, and whether the file was written a moment ago |
| `issued`, `successor`, `revoked` | the provider's endpoint |
| `tool` | the token the tool has exchanged and not yet replaced |
| `rejected`, `memory` | `_rejected`; `_unsaved` of a file, `_pending` of the Keychain |
| `journal`, `access` | the recovery record on disk; whether the Keychain is denied |
| `task` | the renewal under way, of this thread or of one that was stopped |
| `RenewFile`, `WriteBack`, `Replace`, `SaveFails` | renewal of a file |
| `Recover`, `Supersede`, `Intend`, `Recheck`, `SaveAnswer`, `Compare`, `Update`, `Verify`, `Clear` | renewal in the Keychain, step by step |
| `Answered`, `AnswerLost`, `Unreached`, `Refused` | an exchange and what may become of it |
| `LogIn`, `ToolExchanges`, `ToolWrites`, `ToolDies` | the user and the tool |
| `Restart`, `SwitchOffAndOn` | of the sidecar, and of keep-alive |

Abstractions. The endpoint is strict: a token is good for one exchange (Codex
and xAI allow a short reuse, which is weaker). A request that is processed is
processed before the client gives up. One process, and one renewal at a time
over all logins. Logging out, the xAI renewer, the `agy` tool and the switches
per login are left out. The two re-reads of `_finish` are one step; a failed
verification ends the renewal, and a denial blocks until the process restarts.

### 2.8 SelfUpdate and UpdateSlots

`self_update.py` and the script of the helper in `self_update_windows.py`, with
their callers in `sidecar.py`.

| model | code |
| --- | --- |
| `file` | the executable, `.previous`, `.previous_old`, `.new`, `.rollback` |
| `label` | the version files of `.previous` and `.previous_old`, and the pending one |
| `record`, `lock`, `old` | the transaction record, the single-flight lock, and whether record and rollback are past their age |
| `daemon`, `op` | the build that runs, and the update or rollback under way |
| `Begin`, `Stage`, `WriteRecord`, `WritePending`, `Spawn`, `Own`, `Exit` | `_apply_windows` up to the exit of the process |
| `SaveBackup`, `SaveLabel`, `MoveOriginal`, `MoveIncoming`, `CommitLabel`, `Clean`, `Drop` | the helper's moves |
| `WayBack`, `Uninstall`, `RestoreOriginal`, `RestoreBackup`, `RestoreLabel`, `GiveUp` | its ways back |
| `Start`, `Undo`, `Relabel`, `Sweep`, `Forget`, `RecoveryFails` | `_recover_windows_transaction` at a start of the daemon |
| `DaemonEnds`, `CommandDies`, `Reboot`, `Age`, `Reclaim` | deaths, time and the lock that is taken over |

`UpdateSlots` is the promise: a build is installed, the one it replaced is kept,
and both change at once. `ImplementsSlots` says SelfUpdate refines it. The
mapping looks for the two builds wherever the moves have put them
(`Installed`, `Backup`), until the label of the new backup is in place.

Abstractions. A build is its bytes and its version. Download, checksum and
signature are over when a build is staged. `old` serves record and rollback. The
recovery's relabel and its sweep of leftovers are one step each. There are one
daemon and one command line. `mistaken` remembers that a build was recorded
under another's version, `record.stray` that a record was written over leftovers
of an earlier swap. The swap on POSIX is not modelled.

## 3. The plan

The instructions, the cards, pairing with authentication, the renewal of logins
and the self-update are modelled. What is left, in the order
of what is most worth having:

1. **AccountMerge**: the journal of merges and its reversal, over EventStore's
   rows and rollups.
2. **The server's token refresh** (`token_refresher.py`): a second holder of a
   refresh token, beside LoginRenewal and composed with SourceControl's `held`.
3. **The swap on POSIX**, over SelfUpdate's files.
4. **SmartCollector** and **Alerts**: backoff and failover; delivery before
   `last_fired_at` is committed.

## 4. The runs

Every property of a passing run has a mutant in `PROJECT.json`: a definition of
the model changed the way a slip in the code would change it, kept in the module
beside the definition it replaces, under which TLC finds the property violated.
The types have no run of their own: they are proved for every module.

| run | instance | states | what it shows |
| --- | --- | --- | --- |
| `events_shared` | 1 event, 2 hosts, 2 accounts, 3 changes | 763,000 | `RollupsMatchEvents`, `HeldEventsAreNotLost` through assignments cut off between commits, `NoSecondCopyUnderTarget`: an event counted under its own provider is not inserted again by a redirect, `NothingStampedOnArchived`: no tag, redirect or native identity puts usage on an archived account, `AttributionSettles`: two hosts that share an event do not move it back and forth |
| `delivery_sources` | a log and a meter of 2 records, queue of 2, a crash, a late request | 2.9 million | `WatermarksBehind`: no watermark passes a line that is not stored; `LeavesQueueWhenStored`; `ImplementsLedger`: each step is one of UsageLedger |
| `delivery_arrives` | a log and a ledger of 1 record, queue of 1, a crash, a late request, a broken read, fairness | 18,000 | `EveryUnitArrives`, and `NothingSkipped`, which adds the cursor of the ledger |
| `source_consent` | one consented source, 2 changes, 1 command, 1 late synchronisation, 1 credential, fairness | 458,000 | `TombstonesHold`, `OffMeansWithdrawn`, `CacheIsCurrent`, `OneReportWithdraws`: the first report of an opt-out the server processes withdraws the source, `SidecarObeys`, `CommandsAnswered`, `OptOutArrives` |
| `source_commands` | one ordinary source, 3 commands, 1 late synchronisation, 1 credential | 608,000 | `PauseStands`, `NumbersAreNew` |
| `heartbeat` | 2 providers, 2 attempts, 2 payloads, queue of 1, 2 orders, 2 faults, fairness | 1.3 million | `UpdatesAccounted`: a pushed update is installed once or known to be missed; `OwedIsPlanned`: what was asked for or not handed over stays on the plan; `ProvidersCollected`; `SettingsArrive` |
| `enrolment` | 2 machines, 2 codes, 1 signed request, 2 handlers, a clock of 4 units | 1.5 million | `ImplementsRegister`: each step is one of DeviceRegister, so that one code makes one device; `OnceWhileAccepted`: a request does not take effect again while its timestamp is accepted; `OneHolder`, `RevokedHoldsNothing` |
| `latest_cards` | a total and a session card, the server and 1 sidecar, 2 windows, readings 1 unit apart | 65,000 | `RowsFromSources`: a card is the merge of what is still reported, or that merge marked stale by a start; `OwnerIsFresh`; `OnlyClosedWindows`; `CurrentIsShown` |
| `login_renewal` | a file and a Keychain login, 3 tokens, 3 faults, fairness | 186,000 | `LoginsAreCarried`: the only valid login is held by somebody; `NothingSpentTwice`; `NeverGoesBack`; `OthersLoginsStand`; `AnswersAreSettled`; `LapsedIsRenewed` |
| `self_update` | 3 builds, 2 faults | 2.8 million | `ImplementsSlots`, `BackupIsNamed`, `RecoverySucceeds` |
| `delivery_meter_loss`, `source_opt_out` | | | deviations, see 6 |

### Why the bounds are enough

EventStore. The conflicts are between two hosts for one event, two providers for
one id and two accounts of one id, and each needs a tag, an archive or a change
of identity before it and another after it: two hosts, two accounts, three
changes. Host identities start anywhere, so they take no change to set up. A
batch of two events, one new and one not, is left to the theorems, which hold
for every batch.

EventDelivery. Two records of a log let the watermark stand between them, and
with `Late = 1` the second may carry the timestamp of the first, the case the
overlap is for; two records of a meter are two events or one. A queue of two is
empty, half full and full, and its flush can be interrupted between two lines.
Two attempts are one retry. The one-record instance of `delivery_arrives` has
the batch of one source stuck behind that of the other, which is what could
starve.

SourceControl. Two changes turn a source on and off, or off and leave a late
report of "on" behind; one late request is the report that arrives after a newer
one; three commands are a pause, a resume and the pause that must stand, or two
that are pruned and the one that takes the next number. Sources do not interact
but through the revision and the saved file as a whole, so there is one, and the
theorems hold for any number.

Heartbeat. Two payloads of one cycle let a second answer follow the first, and
the second fail; two faults lose an answer and then the way to make up for it;
two providers tell a partial collection from a full one.

Enrolment. The instance has the receipts at their limit: `Past + Future =
ReceiptTTL`, the 300 s, 60 s and 360 s of the code, where one unit less is a
request repeated inside its window. `MaxTime` lets the receipt of an early
request go while a copy of it is under way, bodies last as long as the clock
runs, and two handlers claim two copies at once. One signed request, repeated at
will, is enough, since receipts of different envelopes do not interact. Two
machines and two codes make every conflict of pairing.

LatestCards. Two sources disagree, retire and outlive each other; two windows
are one rollover, and two readings of a reset that differ by less than half a
window are the same window. Only the total is ever read without a reset
(`Untimed`): what a missing reset does to a card does not depend on its model.
The theorems hold whatever may be read without one.

LoginRenewal. Three tokens are two renewals, one on top of the other. Three
faults lose an answer, its save and the process; four tokens with two faults
(1.1 million states, safety only) were checked as well.

SelfUpdate. Three builds are an update on top of an update, so that a backup has
to be moved out of the way and back, and a rollback after it; two faults are a
failed move and a failed way back, or a death and a failed recovery.

### Fairness

`AttributionSettles` needs none: that TLC finds no cycle in which an attribution
changes says that no sequence of replays, fair or not, goes on changing it.

`EventDelivery!FairSpec`: weak fairness of the cycle's steps, since the daemon's
loop does not stop and every request has a timeout; strong fairness of reading
each source, since the server asks for every provider at its interval; and
strong fairness of an accepted delivery for each unit and size of cycle, that
is, an outage and an error of the server end, and do not single out one batch
for ever. Recording, crashes and interruptions need not happen.

`SourceControl!FairSpec`: weak fairness of the cycle's own steps; strong
fairness of `Answer` and `Receive`, that is, not every synchronisation is lost
and not every save fails. Users and administrators need do nothing, and
restarts may happen without end.

`Heartbeat!FairSpec`: weak fairness of the daemon's loop, of the server's answer
and of the intervals. Faults are bounded by `MaxFaults`, so an outage ends;
operators need do nothing.

`LoginRenewal!FairSpec`: weak fairness of a renewal under way, since the thread
runs and every call of it has a timeout; weak fairness of the age of a file; and
strong fairness of each login's turn, since the thread looks at all of them at
every tick, but at one at a time. No tool has to run.

`Enrolment`, `LatestCards` and `SelfUpdate` have safety properties only, and no
fairness.

Deadlock is checked, except where the model really may stop: in `enrolment` the
clock stops at its bound, in `login_renewal` tokens and faults run out, and in
`self_update` a machine that dies between the helper's two moves has no program
left to start (section 6).

## 5. The proofs

`tlapm` checks every theorem to its leaves, for all sets of sources, hosts,
accounts, providers, machines and logins and all bounds, from the named
assumptions on the constants alone and from the hypotheses given here.

**EventStoreProofs.** `TypeCorrectness` and `RollupCorrectness`
(`RollupsMatchEvents`). The latter is not inductive: a commit makes the open
transaction the database, so `TransactionAgrees` says it of the transaction; and
a promotion saves an event of whatever is in the pending table, so
`AssignmentHolds` says that the rows of an assignment are still held when it
comes to them. `IInv` is the conjunction with the types. Its core is a lemma
that `Save` keeps the count of every bucket, whose cases are insert, move and no
change; the bucket loses one element and gains one, by the cardinality theorems.
`OneCopyUnderTarget`, `ArchivedStayUnstamped` and `HeldEventsAreKept` are about
what a commit does to the committed rows, which no invariant of these rows
alone can say: `CommitInv` relates the open transaction to them. No row
disappears in it (`RowsStay`), no second copy comes up (`CopiesApart`,
`PromotedApart`), what it put on an archived account named that account
(`StampsAllowed`), and what was held is held or stored (`HeldOrStored`), for an
assignment in the midst of its groups too (`VisitedAreCarried`).
Four more theorems state what no run asks. `ReplayIsIdempotent`: on every
store, the same push ingested again changes nothing, whichever way it took the
first time. `OrderDoesNotMatter`: pushes about different events come out the
same in either order. Ingesting one touches only the rows of its own kind
(`IngestedTouches`) and is decided by what it finds there (`IngestedLocal`,
`AgreeOn`), and the rollups follow from the rows (`RollupsAgree`,
`SameStore`). `AttributionIsTheHosts` proves `HostDecides`: a row keeps the
host that pushed it first, and moves only to the one account that host's pushes
have at the time, or to an assigned one. It is the safety half of
`AttributionSettles`, and needs of an open transaction that the rows it changed
were written by pushes of their host (`HostInv`). `AnswersAreKept` proves
`AnsweredIsKept`: every event of an answered batch is counted or held back, and
no later commit forgets it. Together with `ReplayIsIdempotent` and
`RollupCorrectness` it is what EventDelivery takes the server to do: an answered
request is stored as a whole, and an event id counts once.

**EventDeliveryProofs.** `TypeCorrectness` needs `PositionsBehind` (a mark emits
at most once per unit, no cursor is past the last row) and `CycleClean` (what a
phase has not touched yet).

*Counting.* `MeterInv(S)`, for a set `S` of sources whose marks are saved
(`Unmarked(S)`: no meter is in `S`, or `MaxUnsaved = 0`), speaks of all events
there are, collected, queued, in flight and stored: events of logs and ledgers
are those of a record (`RecordEvents`), events of a meter lie below its mark
(`GrowthEvents`), two events of a source are equal or share neither id nor usage
(`EventsApart`), and the server counts what it stores (`Accounted`).
`EventsApart` is what makes the lookup by id sound; it is what a mark that was
not saved destroys. With `S == Logs \cup Ledgers` this is `RecordsCountedOnce`,
without a hypothesis; with all sources, and `MaxUnsaved = 0`,
`NoUnitCountedTwice` (`CountedOnce`). `RefinesLedger` (`ImplementsLedger`)
follows from the latter, or without meters: what a step adds to the counts was
used and not yet counted (`CountsAGroup`).

*Keeping.* `QueueKeepsTheUnstored` (`LeavesQueueWhenStored`) follows from
`FlushKeeps`: a line the flush is done with is retained or stored.
`LossesNeedAFailure` (`LossesAreKnown`) bounds the deviation
`delivery_meter_loss` from the other side: what a meter marked as reported is
given up in no other place than that one, a failed cycle that does not queue it,
and a crash. It needs no hypothesis, but with unsaved marks the server may store
an event under the id of another: `EmissionsNamed` and `IdsTell` say that two
events of one id carry the same units, so what counts as stored is counted
(`StoredIsCounted`).

*Positions.* All rest on `PushInv`: at the end of a push without a rolled back
batch all of the cycle's events are stored (`PushStored`).
`WatermarksNeverOutrun` (`WatermarksBehind`) assumes `SeparateBilling` (no other
source's events are filed under a log's provider) and `Late <= Overlap`;
`LogInv` adds that a cycle that reads a line has the lines below it that are not
stored (`LogRead`). `CursorsNeverOutrun` (`CursorsBehind`) assumes `MaxBroken =
0` or `SingleStore` (one ledger, whose provider nothing else is filed under);
`LedgerInv` adds that the rows a cursor is about to pass are in the cycle's
events, unless the scan lost them and no event of the ledger is there to commit
it (`ParkedRead`). `PositionsNeverOutrun` (`NothingSkipped`) is both, and covers
the instances of both runs.

**SourceControlProofs.** `ConsentInv` serves `TypeCorrectness`,
`WithdrawalsAreFinal`, `CacheStaysCurrent` and `SettingsTellTheTruth`:
everything the sidecar, the server or the network holds about a consent is at
most as new as the configuration, and of the same decision when as new
(`ConsentsPast`), a source that is off has its tombstone (`OffLeavesTombstone`),
and a withdrawal the sidecar has saved, or is about to, has been made
(`WithdrawalsTold`). `CommandInv` serves `NumbersStayNew` and `PausesStand`:
every number the sidecar, an answer or an acknowledgment under way knows is at
or below the number of some row (`NumbersBehind`), which is what pruning must
preserve and why it keeps the last command of a source; and what is acknowledged
has been processed (`AcksProcessed`). `ServerIsObeyed` adds `Obedience`: while a
cycle runs, what is blocked is what the saved state blocks for the cycle's
configuration, and the policy is never behind that. Three more theorems state
what no run asks. `CommandsAreProcessed` (`PendingUntilProcessed`), from
`AcksProcessed`: a command stays pending until the sidecar has saved what it
made of it, or of a later one; what `CommandsAnswered` needs besides is
fairness. `RowsGoForward` (`NothingGoesBack`): no report moves a generation, a
tombstone or the decision of a generation back, and no answer moves the
sidecar's copy back. `ConsentsPast` compares each view of a consent with the
configuration only; that two views agree on a generation both have left behind
is `OneDecision`. `EscapesAreBounded` (`LeavesUnderConsent`): a credential
leaves under the consent that stands or the one its own cycle began with
(`PolicyIsOfTheCycle`). `OneReportSuffices` (`OneReportWithdraws`), which a run
checks too, is from `ConsentsPast`: the server takes the first report of an
opt-out it processes as the last word, since it has no newer generation from
anybody, so that one synchronisation that gets through is all that
`OptOutArrives` needs.

**HeartbeatProofs.** `HeartbeatTypes`, `EveryPushAccounted` and
`NothingOwedIsDropped` from one invariant. A step may merge the answer of a call
into what the cycle heard, so the account needs that an answer that is not built
yet carries nothing and that a call belongs to a cycle with something to send
(`CallInStep`), and that the plan is what is being collected until the cycle
ends (`CycleInStep`). `SettingsStay` (`SettingsStayInForce`) is a theorem of the
steps alone: settings in force are replaced by an operator or dropped by a
restart, and no answer to a late, repeated or queued payload brings older ones
back. What `SettingsArrive` needs besides is a cycle whose answer is heard.

**EnrolmentProofs.** `OnceInTheWindow` (`OnceWhileAccepted`) assumes
`ReceiptAssumption`: a receipt is kept for the width of the window (`Past +
Future <= ReceiptTTL`), which is what `replay.py:17` chooses. A request under
way was let in when its timestamp was at most `Future` ahead (`Opened`), a
receipt made then or later is kept to its envelope's `Deadline`, and a claimed
envelope without a receipt is past it (`ReceiptsLast`), that is, out of the
window. Nothing is assumed of the time a body takes, and so nothing is claimed
of copies that are begun after the window. `OneCodeOneDevice`,
`OneMachineOneKey` and `RevocationEmpties` rest on `CodesSpent`: whoever
enrolled with a code has spent it.

`EnrolmentIsARegister` is the refinement, and says of the steps what those say
of the states. It needs one more invariant, `UnderwayOnce`: the requests under
way were claimed, and no two of them have one envelope unless it is too old, so
that the end of one closes it for good. One lemma per action gives the step of
DeviceRegister it is (`ClaimStep`: `Take`; `StoreStep`: `Contribute`;
`DeleteStep`: `Revoke`), and the only one that needs the clocks is
`ClaimsAreNew`.

**LatestCardsProofs.** `TypesAreCorrect`, `CardsComeFromSources`,
`CardsBelongToFreshSources`, `ArchivedWindowsAreOver` and `CurrentCardsAreShown`
under `WindowAssumption`: two readings of one reset differ by less than half a
window. An invariant that said a card is the merge would not hold after a start,
so every proof goes through `ShownAs`: the reset and the owner of a card are
those of the merge, and so is its staleness unless it is stale (`ShownFacts`).
Polls, reports and failures share one lemma, `WriteStep`. The last
theorem of these needs `HiddenIsOver`: a card that is reported and not shown
is of a window that is over, since only then it is pruned, and since a new
report rebuilds it. Two more theorems are about several sources and repeated
reports. `SourcesDoNotDisturb` proves `OthersContributionsStand`: whatever a
source reports, retires or lets age, the contributions of the others and their
order stay, but for what a start drops. `RepeatedReportsAreSilent`: a report
that is written twice, its answer lost, contributes nothing new, retires nothing
and archives no window again. The former rests on `RemovedAt`, what a removal
leaves of a sequence, the latter on `UpdatedTwice` and on `LastResetWins`, that
the last report's reset is the card's.

**LoginRenewalProofs.** `RenewalInv` serves `RenewalTypes`, `AnswersAreCarried`,
`TokensAreSpentOnce`, `StoresGoForward` and `OthersAreKept`. It says what the
endpoint issued (`Issue`), that only spent tokens have answers waiting and no
answer two holders (`HoldersSpent`, `Apart`), what memory and record hold at
every step of a renewal (`Steps`, `Records`), that the answer to a token still
in the store is unused (`Edge`, `Ready`), that a renewal that is done has left
its token behind (`Done`), that a race is noticed (`RacesNoted`), and what bars
a token that was sent from being sent again (`Barred`): its record, its
refusal, or its unsaved answer.

**SelfUpdateProofs.** `UpdateInv` serves `UpdateTypes`, `BackupKeepsItsName`
(`BackupIsNamed`), `DeadSwapsAreRecovered` (`RecoverySucceeds`) and
`UpdatesAreWhole` (`ImplementsSlots`). None of the three properties is
inductive, since each looks at the files alone. Program, helper and recovery
take turns (`Turns`); what the program prepares (`Prepared`), every move of the
helper (`HelperAt`) and the recovery (`RecoveryAt`) find the builds in known
places; and a swap that was cut off is in one of five shapes (`RestKept`):
untouched, its backup set aside, the installed build moved, the new one in its
place, or committed. `LabelsFollow` and `HelperLabels` say the same of the
version files. The refinement then is that the first four shapes are the old
pair of builds and the fifth is the new one, and that only the commit of the
label, by the helper or the recovery, leads from the one to the other.

**Only model-checked.** The liveness properties (`AttributionSettles`,
`EveryUnitArrives`, `CommandsAnswered`, `OptOutArrives`, `ProvidersCollected`,
`SettingsArrive`, `AnswersAreSettled`, `LapsedIsRenewed`), which are out of this
prover's reach. Every safety property the runs check is proved, and so is the
safety core of most of the former: `HostDecides` of `AttributionSettles`,
`PendingUntilProcessed` of `CommandsAnswered`, `OneReportWithdraws` of
`OptOutArrives`, `OwedIsPlanned` of `ProvidersCollected`, `SettingsStayInForce`
of `SettingsArrive`, `LoginsAreCarried` of `AnswersAreSettled`. No run asks for
`PendingUntilProcessed` and `SettingsStayInForce`; they were checked by TLC with
the constants of `source_consent` and `heartbeat` before they were proved.

## 6. Deviations

Two runs show the code doing something else than its documents say; the
quotations are in `PROJECT.json` under `findings`.

- `delivery_meter_loss`: the mark of a Hermes session moves at extraction. When
  the batch is then rolled back (`events_error`), the usage is not extracted
  again.
- `source_opt_out`: the cycle's copy of the configuration is installed after the
  user turned a source off, and its credential leaves. `EscapesAreBounded` says
  how far: until the cycle under way ends, under the consent it began with.

### Deviations without a run

Some more are stated in the modules and fail, each under the configuration
given; no configuration is kept for them.

- `EventStore!AssignmentTakesEffect`, with the constants of
  `EventStoreShared.cfg`: an assignment is ingested under the host of the row
  stored meanwhile; a redirect tag of that host to an account of the same id
  ends it as a duplicate (`fleet_pending_events.py:480`).
- `EventStore!NoDoubleCounting`, with the same constants, as an invariant: an
  event stored under the redirect target is inserted a second time under its own
  provider when it is pushed without the redirect
  (`docs/collectors/hermes.md:67`). The lookup that prevents this in the other
  direction (`NoSecondCopyUnderTarget`) has no counterpart.
- `EventDelivery!NothingSkipped`, with `EventDeliveryArrives.cfg` and `Logs =
  {}`, `Ledgers = {ledger, ledger2}`, `BatchSize = 2`: the second store raises
  and takes the events of the first along, but the first one's parked cursor is
  committed with another event of the provider (`sidecar.py:3926`). The
  theorem's hypothesis, `MaxBroken = 0` or one ledger, excludes it.
- `EventDelivery!WatermarksBehind`, with `EventDeliverySources.cfg` and `Billed
  <- MeterBillsLog`: an event filed under the provider of a log moves that log's
  watermark, in a cycle that need not have read that log (`sidecar.py:6659`,
  `docs/collectors/minimax.md:408`). `SeparateBilling` excludes it.
- `EventDelivery!CountedOnce`, with `EventDeliverySources.cfg` and `MaxUnsaved =
  1`: a mark that cannot be written is only logged (`hermes_watermark.py:219`),
  and the next event spans the reported growth under another id. The theorems'
  hypothesis `MaxUnsaved = 0` excludes it; `RecordsCountedOnce` and
  `LossesNeedAFailure` hold nevertheless.
- `SourceControl!NoticesAreInert`, with `SourceControlOptOut.cfg`,
  `MaxGeneration = 1`, `MaxCommands = 3`, `MaxPushes = 0`: a request for setup
  queued behind a resume makes the server ignore the applied resume
  (`source_commands.py:83`).
- `Heartbeat!PushIsHeard`, with `Heartbeat.cfg` and `Spec`: the replay of the
  queue throws the instructions of its answers away, an update push among them
  (`fleet_sidecars.py:413-416`, `models/db_sidecar.py:140-143`).
- `Enrolment!DeletedStaysDeleted`, with `Enrolment.cfg`, as an invariant: a
  request that was let in before the deletion puts the sidecar's row back.
- `Enrolment!OnceAtAll`, with `Enrolment.cfg`: `docs/SECURITY.md:47` and
  `docs/api-reference.md:635-636` answer a repeated envelope with 409. The
  window takes headers until `ts + 300`, the receipt goes 360 s after the first
  copy was claimed, and the body is not timed (`security.py:336-341`): a copy
  whose headers come at the end of the window and whose body takes longer than
  the receipt lasts is carried out again, with no clock ahead of another.
- `LatestCards!RowsAreMerged`, with `LatestCards.cfg`: every start marks a row
  stale whose detail says "Collection failing" (`core/db.py:845`), although the
  docstring speaks of rows from before that flag was kept (`core/db.py:815`). A
  card that the server reported last and cannot collect any more is then stale
  until its next report, while a sidecar reports it afresh and the merge of the
  two is not stale (`latest_usage_contributions.py:82-99`).
- `LatestCards!NotRetiredByOthers`, with `LatestCards.cfg` and `Slots <-
  ModelSlots`, `Untimed = {}`: a report of another window type of a model
  deletes the row of the first, which its sources still report
  (`models/db_usage.py:44`, `docs/architecture.md:58`).

These were met while reading, and are stated in words only.

- Delivery. A queued payload that is answered `events_error` stays and takes up
  the due polls of every cycle. A failing `queue_push` ends the cycle before it
  follows its instructions (`sidecar.py:6722`). The tray's `trigger_now` races
  the daemon's loop (`sidecar.py:6919`). A second process may use the queue file
  (`sidecar.py:1838`). A rebuilt MiniMax ledger is recognised by its row ids
  alone (`minimax_code.py:451`).
- Enrolment. A machine that pairs again with the same server is not
  noticed by a cycle that is under way (`sidecar.py:6821-6825`).
- Commands. A command that is sent again is answered with the status of the
  source's last one (`source_protocol.py:186`), so a denied resume whose answer
  was lost may be recorded as applied. It ends no pause: a newer command of the
  source has been queued by then.
- Cards. An older reading from the queue stays on the card until the next report
  (`window_closer.py:212-217` only keeps it from closing a window). A card
  without a reset carries the old one on, so that a current card can be pruned
  as a ghost. One model may have several rows (`accumulator_upsert.py:225-229`).
  A report that is repeated leaves the contributions alone but may remove a row
  its first copy rebuilt from another source, after a retirement, for a window
  that is over.
- Renewal. What is written between the last comparison and the replacement is
  overwritten. Restarting, or switching keep-alive off and on, drops the unsaved
  answer of a file (`sidecar.py:1030-1038`, `anthropic_renewer.py:218`); the xAI
  renewer keeps none. An outage after the intent leaves a live Keychain login
  unrenewed until its tool renews it, on purpose.
- Self-update. A record whose helper is not known (a death between record and
  ownership, or a write of either that fails) is never recovered and blocks
  updates and rollbacks for good (`docs/sidecar.md:181`). Leftovers (`.new`, an
  old `.rollback`) make the recovery of a later swap refuse. `.previous_old`
  that could not be deleted with its record makes every later update end in
  `backup_conflict`. A machine that dies between the two moves has no installed
  program. `--self-update` and `--rollback` leave the daemon on the old build,
  whose next update keeps the new build under the old one's version
  (`docs/sidecar.md:176`). A lock is taken over after 15 minutes, although a
  slow download may still run.

## 7. What is not modelled

`PROJECT.json` gives the reason for each component. Most of the repository is
parsing and presentation: the collectors of the providers, the readers of logs,
cookies and credentials, queries and forecasts, the price lists, the web and
tray interfaces, one-off scripts and offline jobs. They keep no protocol state,
and what they compute is a matter for tests; hence the map covers a small share
of the lines. Downloads, signatures and the providers' own services are
external. Of what does keep state, the parts in section 3 are still to come. Of
the modelled components, the abstractions of section 2 are what is left out,
among them cost, calendar periods, metrics of a payload, rebuilt ledgers, quota
snapshots, the totals of archived windows, the rate limits and the server's own
refresh of a stored credential.
