---------------------------- MODULE EventDelivery ----------------------------
(***************************************************************************)
(* How one sidecar delivers usage events: the read positions it keeps for  *)
(* its sources, the collection cycle, the batched and retried POSTs, the   *)
(* offline queue, and what a lost answer, a half-failed ingest or a crash  *)
(* leaves behind.                                                          *)
(*                                                                         *)
(* Code: scripts/sidecar.py (DaemonRunner, queue_push, queue_flush,        *)
(* http_post_signed_with_retry, run_collection), the event extractors, and *)
(* scripts/sidecar_pkg/event_watermark.py.  The server is what             *)
(* app/api/endpoints/fleet_ingest.py does with a payload's events.         *)
(*                                                                         *)
(* A source is a sequence of records, each with its timestamp; one record  *)
(* is one unit of usage.  There are three kinds of source:                 *)
(*   Logs     read above a timestamp, the watermark (Claude Code, Grok...) *)
(*   Ledgers  read above a row id, the cursor (MiniMax Code)               *)
(*   Meters   counters that only grow; an event is the growth since the    *)
(*            mark the sidecar keeps (Hermes).                             *)
(***************************************************************************)
EXTENDS Integers, Sequences, FiniteSets

CONSTANTS
    Logs, Ledgers, Meters,
    Billed,       \* the provider a source's events are filed under, named by a source of it
    Overlap,      \* how far below the watermark a log is read again
    Late,         \* how far behind a log's newest timestamp a new record may be, plus one
    BatchSize,    \* events in one POST
    MaxAttempts,  \* POSTs of one payload before the sidecar gives up
    QueueLimit,   \* payloads the offline queue has room for
    RowsPerScan,  \* ledger rows read in one cycle
    MaxRecords,   \* bound: records of one source
    MaxTime,      \* bound: timestamps
    MaxCrashes,   \* bound: crashes of the sidecar
    MaxBroken,    \* bound: cycles in which reading a later ledger fails
    MaxUnsaved,   \* bound: failed writes of a meter's mark
    MaxInFlight   \* bound: requests the server may still process after the sidecar gave them up

Sources == Logs \cup Ledgers \cup Meters

ASSUME DeliveryAssumption ==
    /\ IsFiniteSet(Sources)
    /\ Logs \cap Ledgers = {} /\ Logs \cap Meters = {} /\ Ledgers \cap Meters = {}
    /\ Billed \in [Sources -> Sources]
    /\ Overlap \in Nat /\ Late \in Nat
    /\ BatchSize \in Nat \ {0} /\ MaxAttempts \in Nat \ {0}
    /\ QueueLimit \in Nat /\ RowsPerScan \in Nat \ {0}
    /\ {MaxRecords, MaxTime, MaxCrashes, MaxBroken, MaxUnsaved, MaxInFlight} \subseteq Nat

Units == 1..MaxRecords
Times == 0..MaxTime
(* A meter's event id holds its call count and how often it was emitted.   *)
Event == [src: Sources, id: (0..MaxRecords) \X (0..MaxRecords), units: SUBSET Units, ts: Times]
Phases == {"idle", "flush", "push", "cursors", "watermark", "save"}

VARIABLES
    records,      \* what each source has recorded: a sequence of timestamps
    watermark,    \* event-watermark.json, on disk
    cursor,       \* the ledgers' cursor file, on disk
    mark,         \* the meters' marks: units reported and events emitted, on disk
    queue,        \* the offline queue, on disk: payloads oldest first
    parked,       \* _PENDING_ADVANCES: cursor positions awaiting confirmation
    phase,        \* where the collection cycle is
    events,       \* the events this cycle collected
    unsent,       \* those not yet sent, or whose watermark is not yet moved
    sending,      \* the batch being sent
    tries,        \* failed attempts of the current payload
    eventsFailed, \* a batch of this cycle was answered with events_error
    replayed,     \* queue lines processed in this flush
    retained,     \* the lines that will replace the queue
    inFlight,     \* payloads of abandoned requests
    stored,       \* the events the server holds
    counts,       \* how often the server's totals count each unit
    budget        \* faults left: crashes, broken reads, unsaved marks

position == <<watermark, cursor, mark>>
cycle == <<parked, phase, events, unsent, sending, tries, eventsFailed, replayed, retained>>
server == <<stored, counts>>
vars == <<records, position, queue, cycle, inFlight, server, budget>>

Maximum(a, b) == IF a >= b THEN a ELSE b
Minimum(a, b) == IF a <= b THEN a ELSE b

-----------------------------------------------------------------------------
(* The sources                                                             *)

Count(s) == Len(records[s])
Newest(s) == IF Count(s) = 0 THEN 0 ELSE records[s][Count(s)]

(* A tool writes a record.  The records of a log may be a little out of    *)
(* order; a ledger's timestamps do not matter, and a meter's last_seen     *)
(* grows with every call.                                                  *)
Record(s) ==
    /\ Count(s) < MaxRecords
    /\ \E t \in 1..MaxTime :
         /\ s \in Logs => \A n \in 1..Count(s) : t > records[s][n] - Late
         /\ s \in Ledgers => t = 1
         /\ s \in Meters => t > Newest(s)
         /\ records' = [records EXCEPT ![s] = Append(@, t)]
    /\ UNCHANGED <<position, queue, cycle, inFlight, server, budget>>

-----------------------------------------------------------------------------
(* Collection                                                              *)

SingleRecord(s, n) ==
    [src |-> s, id |-> <<n, 0>>, units |-> {n}, ts |-> records[s][n]]

(* The records a scan of the source would return.                          *)
NewLines(s) == {n \in 1..Count(s) : records[s][n] > watermark[s] - Overlap}
NewRows(s) == cursor[s] + 1..Minimum(Count(s), cursor[s] + RowsPerScan)
NewGrowth(s) == IF Newest(s) > watermark[s] THEN mark[s].units + 1..Count(s) ELSE {}

Collected(s) ==
    CASE s \in Logs -> {SingleRecord(s, n) : n \in NewLines(s)}
      [] s \in Ledgers -> {SingleRecord(s, n) : n \in NewRows(s)}
      [] s \in Meters -> IF NewGrowth(s) = {} THEN {}
                         ELSE {[src |-> s, id |-> <<Count(s), mark[s].emitted + 1>>,
                                units |-> NewGrowth(s), ts |-> Newest(s)]}

(* Where a ledger scan parks the cursor: behind the last row it read.      *)
Scanned(s) == Maximum(cursor[s], Minimum(Count(s), cursor[s] + RowsPerScan))

(* Mutant: the mark counts the emission and not the usage.                 *)
ReportedWithoutUnits(s) == [units |-> mark[s].units, emitted |-> mark[s].emitted + 1]

Reported(s) == [units |-> Count(s), emitted |-> mark[s].emitted + 1]

(* run_collection for the sources polled.  A meter's mark is appended to   *)
(* its log at once; if that write fails the events are sent all the same.  *)
(* The ledgers in dropped were scanned and parked, but a later store of    *)
(* the same call raised and took their events with it.                     *)
Collect(polled, dropped, saved) ==
    /\ phase = "idle"
    /\ dropped \subseteq polled \cap Ledgers
    /\ dropped # {} => budget.broken > 0
    /\ ~saved => budget.unsaved > 0 /\ \E s \in polled \cap Meters : NewGrowth(s) # {}
    /\ events' = UNION {Collected(s) : s \in polled \ dropped}
    /\ parked' = [s \in Sources |-> IF s \in polled \cap Ledgers THEN Scanned(s) ELSE cursor[s]]
    /\ mark' = [s \in Sources |->
                  IF saved /\ s \in polled \cap Meters /\ NewGrowth(s) # {}
                  THEN Reported(s) ELSE mark[s]]
    /\ budget' = [crashes |-> budget.crashes,
                  broken |-> budget.broken - (IF dropped # {} THEN 1 ELSE 0),
                  unsaved |-> budget.unsaved - (IF saved THEN 0 ELSE 1)]
    /\ phase' = "flush"
    /\ UNCHANGED <<records, watermark, cursor, queue, unsent, sending, tries, eventsFailed,
                   replayed, retained, inFlight, server>>

StartCycle == \E polled, dropped \in SUBSET Sources, saved \in BOOLEAN :
                 Collect(polled, dropped, saved)

-----------------------------------------------------------------------------
(* Sending                                                                 *)

Batches(rest) == {b \in SUBSET rest :
                    Cardinality(b) = Minimum(BatchSize, Cardinality(rest))}

TakeBatch(rest) == \E b \in Batches(rest) : sending' = b /\ unsent' = rest \ b

(* The flush is over: the first batch is sent even if it holds no event,   *)
(* as the heartbeat.                                                       *)
PublishQueue ==
    /\ phase = "flush" /\ replayed = Len(queue)
    /\ queue' = retained
    /\ replayed' = 0 /\ retained' = <<>>
    /\ phase' = "push"
    /\ TakeBatch(events)
    /\ UNCHANGED <<records, position, parked, events, tries, eventsFailed, inFlight, server,
                   budget>>

(* _replay_queue_lines after a stop: the rest of the file is kept as is.   *)
InterruptFlush ==
    /\ phase = "flush" /\ replayed < Len(queue)
    /\ retained' = retained \o SubSeq(queue, replayed + 1, Len(queue))
    /\ replayed' = Len(queue) /\ tries' = 0
    /\ UNCHANGED <<records, position, queue, parked, phase, events, unsent, sending,
                   eventsFailed, inFlight, server, budget>>

Posting == phase = "push" \/ (phase = "flush" /\ replayed < Len(queue))
Payload == IF phase = "flush" THEN queue[replayed + 1] ELSE sending

(* The server keeps the first event of an id, drops later ones, and adds   *)
(* the usage of those it keeps to its totals.                              *)
SameEvent(e, f) == e.src = f.src /\ e.id = f.id
(* Mutant: the insert does not look for the event's id.                    *)
FreshWithoutLookup(payload) == payload

Fresh(payload) == {e \in payload : \A f \in stored : ~SameEvent(e, f)}

Ingest(payload) ==
    /\ stored' = stored \cup Fresh(payload)
    /\ counts' = [s \in Sources |-> [u \in Units |->
                    counts[s][u] + Cardinality({e \in Fresh(payload) :
                                                  e.src = s /\ u \in e.units})]]

(* The current payload is done with: the next line, batch or phase.        *)
(* Mutant: a line leaves the queue once it was tried.                      *)
NextLineDropped(keep) ==
    /\ replayed' = replayed + 1
    /\ UNCHANGED <<retained, phase, unsent, sending, eventsFailed>>

NextLine(keep) ==
    /\ replayed' = replayed + 1
    /\ retained' = IF keep THEN Append(retained, Payload) ELSE retained
    /\ UNCHANGED <<phase, unsent, sending, eventsFailed>>

(* Mutant: the loop over the batches ends after the first.                 *)
NextBatchOnlyFirst(error) ==
    /\ eventsFailed' = (eventsFailed \/ error)
    /\ phase' = "cursors"
    /\ UNCHANGED <<unsent, sending, replayed, retained>>

NextBatch(error) ==
    /\ eventsFailed' = (eventsFailed \/ error)
    /\ IF unsent = {} THEN phase' = "cursors" /\ UNCHANGED <<unsent, sending>>
       ELSE TakeBatch(unsent) /\ UNCHANGED phase
    /\ UNCHANGED <<replayed, retained>>

(* The answer arrives: HTTP 200, with events_error if the server rolled    *)
(* the events back.                                                        *)
Answered(error) ==
    /\ Posting
    /\ error => Payload # {}
    /\ IF error THEN UNCHANGED server ELSE Ingest(Payload)
    /\ IF phase = "flush" THEN NextLine(error) ELSE NextBatch(error)
    /\ tries' = 0
    /\ UNCHANGED <<records, position, queue, parked, events, inFlight, budget>>

(* No answer, or one that is not a success.  The server has not seen the   *)
(* request, has processed it, or will do so after the client gave it up.   *)
Unanswered ==
    /\ Posting
    /\ \/ UNCHANGED <<server, inFlight>>
       \/ Ingest(Payload) /\ UNCHANGED inFlight
       \/ /\ Payload # {} /\ Cardinality(inFlight) < MaxInFlight
          /\ inFlight' = inFlight \cup {Payload}
          /\ UNCHANGED server

Retry ==
    /\ Unanswered
    /\ tries + 1 < MaxAttempts
    /\ tries' = tries + 1
    /\ UNCHANGED <<records, position, queue, parked, phase, events, unsent, sending,
                   eventsFailed, replayed, retained, budget>>

(* The last attempt failed, the answer was a 4xx, or a stop cut the wait   *)
(* for the next attempt short.                                             *)
GiveUp ==
    /\ Unanswered
    /\ IF phase = "flush" THEN NextLine(TRUE)
       ELSE phase' = "save" /\ UNCHANGED <<unsent, sending, eventsFailed, replayed, retained>>
    /\ tries' = 0
    /\ UNCHANGED <<records, position, queue, parked, events, budget>>

(* The server processes a request whose client is gone.                    *)
LateArrival ==
    /\ \E payload \in inFlight :
         /\ Ingest(payload)
         /\ inFlight' = inFlight \ {payload}
    /\ UNCHANGED <<records, position, queue, cycle, budget>>

-----------------------------------------------------------------------------
(* The end of a cycle                                                      *)

CycleOver ==
    /\ phase' = "idle"
    /\ events' = {} /\ unsent' = {} /\ sending' = {}
    /\ tries' = 0 /\ eventsFailed' = FALSE
    /\ replayed' = 0 /\ retained' = <<>>

(* Every batch was answered.  The parked cursors are committed if the      *)
(* cycle pushed an event of the ledgers' provider - any source's - and no  *)
(* batch was rolled back; a failed write leaves them where they were.      *)
LedgerPushed == \E e \in events : Billed[e.src] \in Ledgers

(* Mutant: events_error in a 200 answer is taken for success.              *)
CommitCursorsAnyway ==
    /\ phase = "cursors"
    /\ \/ LedgerPushed /\ cursor' = parked
       \/ UNCHANGED cursor
    /\ parked' = cursor'
    /\ IF events # {}
       THEN /\ phase' = "watermark" /\ unsent' = events
            /\ UNCHANGED <<events, sending, tries, eventsFailed, replayed, retained>>
       ELSE CycleOver
    /\ UNCHANGED <<records, watermark, mark, queue, inFlight, server, budget>>

CommitCursors ==
    /\ phase = "cursors"
    /\ \/ LedgerPushed /\ ~eventsFailed /\ cursor' = parked
       \/ UNCHANGED cursor
    /\ parked' = cursor'
    /\ IF events # {} /\ ~eventsFailed
       THEN /\ phase' = "watermark" /\ unsent' = events
            /\ UNCHANGED <<events, sending, tries, eventsFailed, replayed, retained>>
       ELSE CycleOver
    /\ UNCHANGED <<records, watermark, mark, queue, inFlight, server, budget>>

(* The watermark moves event by event, each move a write of the file, under*)
(* the provider the event is filed under and under the source it is from.  *)
AdvanceWatermark ==
    /\ phase = "watermark"
    /\ \E e \in unsent :
         /\ watermark' = [s \in Sources |-> IF s \in {e.src, Billed[e.src]}
                                            THEN Maximum(watermark[s], e.ts) ELSE watermark[s]]
         /\ IF unsent = {e} THEN CycleOver
            ELSE /\ unsent' = unsent \ {e}
                 /\ UNCHANGED <<phase, events, sending, tries, eventsFailed, replayed, retained>>
    /\ UNCHANGED <<records, cursor, mark, queue, parked, inFlight, server, budget>>

(* A batch failed: it goes to the queue, unless that is full.  Batches     *)
(* after it were never sent and are not queued.                            *)
SaveToQueue ==
    /\ phase = "save"
    /\ queue' = IF events # {} /\ Len(queue) < QueueLimit THEN Append(queue, sending) ELSE queue
    /\ parked' = cursor
    /\ CycleOver
    /\ UNCHANGED <<records, position, inFlight, server, budget>>

(* The process dies and is started again.  A watermark file cut off in the *)
(* middle of a write reads as empty.                                       *)
Crash ==
    /\ budget.crashes > 0
    /\ budget' = [crashes |-> budget.crashes - 1, broken |-> budget.broken,
                  unsaved |-> budget.unsaved]
    /\ \/ UNCHANGED watermark
       \/ phase = "watermark" /\ watermark' = [s \in Sources |-> 0]
    /\ parked' = cursor
    /\ CycleOver
    /\ UNCHANGED <<records, cursor, mark, queue, inFlight, server>>

-----------------------------------------------------------------------------

Init ==
    /\ records = [s \in Sources |-> <<>>]
    /\ watermark = [s \in Sources |-> 0]
    /\ cursor = [s \in Sources |-> 0]
    /\ mark = [s \in Sources |-> [units |-> 0, emitted |-> 0]]
    /\ queue = <<>>
    /\ parked = cursor
    /\ phase = "idle"
    /\ events = {} /\ unsent = {} /\ sending = {}
    /\ tries = 0 /\ eventsFailed = FALSE
    /\ replayed = 0 /\ retained = <<>>
    /\ inFlight = {} /\ stored = {}
    /\ counts = [s \in Sources |-> [u \in Units |-> 0]]
    /\ budget = [crashes |-> MaxCrashes, broken |-> MaxBroken, unsaved |-> MaxUnsaved]

CycleStep == \/ PublishQueue \/ \E error \in BOOLEAN : Answered(error)
             \/ Retry \/ GiveUp \/ CommitCursors \/ AdvanceWatermark \/ SaveToQueue

Next ==
    \/ \E s \in Sources : Record(s)
    \/ StartCycle
    \/ CycleStep
    \/ InterruptFlush
    \/ LateArrival
    \/ Crash

Spec == Init /\ [][Next]_vars

(* The loop runs for ever and a step of it does not hang (every request    *)
(* has a timeout).  The server asks for every source again and again, and  *)
(* an outage ends and is not tied to a batch: what is sent again and again *)
(* in cycles of one size is stored at last.                                *)
Poll(s) == \E polled, dropped \in SUBSET Sources, saved \in BOOLEAN :
             s \in polled \ dropped /\ Collect(polled, dropped, saved)
Deliver(s, u, size) == /\ phase = "push" /\ Cardinality(events) = size
                       /\ \E e \in sending : e.src = s /\ u \in e.units
                       /\ Answered(FALSE)

Fairness ==
    /\ WF_vars(CycleStep)
    /\ \A s \in Sources : SF_vars(Poll(s))
    /\ \A s \in Sources, u \in Units, size \in 1..MaxRecords * Cardinality(Sources) :
         SF_vars(Deliver(s, u, size))

FairSpec == Spec /\ Fairness

-----------------------------------------------------------------------------
(* Properties                                                              *)

FaultBudget == [crashes: 0..MaxCrashes, broken: 0..MaxBroken, unsaved: 0..MaxUnsaved]

(* Every variable keeps its type; in particular the tries of a payload and *)
(* the queue stay within their limits.                                     *)
TypeOK ==
    /\ records \in [Sources -> Seq(1..MaxTime)]
    /\ \A s \in Sources : Count(s) <= MaxRecords
    /\ watermark \in [Sources -> Times]
    /\ cursor \in [Sources -> 0..MaxRecords]
    /\ mark \in [Sources -> [units: 0..MaxRecords, emitted: 0..MaxRecords]]
    /\ queue \in Seq(SUBSET Event)
    /\ parked \in [Sources -> 0..MaxRecords]
    /\ phase \in Phases
    /\ events \subseteq Event /\ unsent \subseteq events /\ sending \subseteq events
    /\ tries \in 0..MaxAttempts - 1
    /\ eventsFailed \in BOOLEAN
    /\ replayed \in 0..Len(queue)
    /\ retained \in Seq(SUBSET Event)
    /\ Len(retained) <= replayed
    /\ Len(queue) <= QueueLimit
    /\ inFlight \subseteq SUBSET Event
    /\ stored \subseteq Event
    /\ counts \in [Sources -> [Units -> Nat]]
    /\ budget \in FaultBudget

Holds(payload, s, u) == \E e \in payload : e.src = s /\ u \in e.units
Counted(s, u) == Holds(stored, s, u)
InHand(s, u) == Holds(events, s, u) \/ \E i \in 1..Len(queue) : Holds(queue[i], s, u)

(* What the sidecar will not read again.                                   *)
Passed(s, n) == IF s \in Logs THEN records[s][n] <= watermark[s] - Overlap
                ELSE n <= cursor[s]

(* A log's watermark never outruns the server: every line behind it, and   *)
(* behind the overlap, is stored, whatever was answered, lost or cut short.*)
WatermarksBehind == \A s \in Logs : \A n \in 1..Count(s) : Passed(s, n) => Counted(s, n)

(* Nor does a ledger's cursor, which is parked in one step and committed in*)
(* another.                                                                *)
CursorsBehind == \A s \in Ledgers : \A n \in 1..Count(s) : Passed(s, n) => Counted(s, n)

(* Neither kind of read position passes a record the server does not hold. *)
NothingSkipped == WatermarksBehind /\ CursorsBehind

(* What a meter has reported is stored, or still with the sidecar.         *)
Kept(s, n) == Counted(s, n) \/ InHand(s, n)

(* A meter's mark moves before the push: the usage behind it is stored, or *)
(* still with the sidecar, in the cycle's events or in the offline queue.  *)
NothingForgotten ==
    \A s \in Meters : \A n \in 1..mark[s].units : Kept(s, n)

(* What a meter has reported is given up only where the code gives it up:  *)
(* at the end of a cycle of which a batch was rolled back, in a cycle that *)
(* failed - what it was not sending, or all of it if the queue is full -   *)
(* and in a crash.                                                         *)
LossesAreKnown ==
    [][\A s \in Meters : \A n \in 1..mark'[s].units :
         ~Kept(s, n)' =>
            \/ n <= mark[s].units /\ ~Kept(s, n)
            \/ CommitCursors /\ eventsFailed
            \/ SaveToQueue /\ (Len(queue) = QueueLimit \/ ~Holds(sending, s, n))
            \/ Crash]_vars

(* No unit of usage is counted twice, under whatever event ids it is sent, *)
(* after a lost answer, a crash, a replay of the queue or a late request.  *)
CountedOnce == \A s \in Sources, u \in Units : counts[s][u] <= 1

(* queue_flush and queue_push: a payload leaves the offline queue only when*)
(* the server holds each of its events.                                    *)
LeavesQueueWhenStored ==
    [][\A i \in 1..Len(queue) :
         (\A j \in 1..Len(queue') : queue'[j] # queue[i]) =>
            \A e \in queue[i] : \E f \in stored' : SameEvent(e, f)]_vars

(* The sidecar and the server together keep the promise of UsageLedger.    *)
Ledger == INSTANCE UsageLedger WITH
    used <- [s \in Sources |-> Count(s)],
    counts <- counts

(* Usage is counted in groups of units that were used and not yet counted: *)
(* re-sending, replaying and late requests never count a unit again.       *)
ImplementsLedger == Ledger!LedgerSafety

(* All that the sources record reaches the server in the end, through      *)
(* outages, rolled back batches, a full queue and crashes.                 *)
EveryUnitArrives == Ledger!AllCounted
=============================================================================
