------------------------ MODULE EventDeliveryProofs ------------------------
(***************************************************************************)
(* For every set of sources, batch size, queue limit and number of faults: *)
(* EventDelivery keeps its types; it counts the usage of logs and ledgers  *)
(* once, and if every mark is saved that of meters too, and then implements*)
(* UsageLedger; its queue gives up only what the server holds; what a meter*)
(* marked as reported is lost only by a failure; and, under conditions on  *)
(* the sources, watermarks and cursors never outrun the server.            *)
(***************************************************************************)
EXTENDS EventDelivery, FiniteSetTheorems, SequenceTheorems, TLAPS

-----------------------------------------------------------------------------
(* Events and payloads                                                     *)

(* There are finitely many events, so every payload is finite.             *)
LEMMA FiniteEvents == IsFiniteSet(Event)
<1> DEFINE Numbers == 0..MaxRecords
           Parts == (Sources \X (Numbers \X Numbers)) \X ((SUBSET Units) \X Times)
           Build == [p \in Parts |-> [src |-> p[1][1], id |-> p[1][2],
                                      units |-> p[2][1], ts |-> p[2][2]]]
<1>1. IsFiniteSet(Numbers) /\ IsFiniteSet(Units) /\ IsFiniteSet(Times)
  <2>1. 0 \in Int /\ 1 \in Int /\ MaxRecords \in Int /\ MaxTime \in Int
    BY DeliveryAssumption
  <2> QED BY <2>1, FS_Interval DEF Units, Times
<1>2. IsFiniteSet(Sources) BY DeliveryAssumption
<1>3. IsFiniteSet(Sources \X (Numbers \X Numbers))
  <2> HIDE DEF Numbers
  <2> QED BY <1>1, <1>2, FS_Product
<1>4. IsFiniteSet((SUBSET Units) \X Times) BY <1>1, FS_SUBSET, FS_Product
<1>5. IsFiniteSet(Parts)
  <2> DEFINE A == Sources \X (Numbers \X Numbers)
             B == (SUBSET Units) \X Times
  <2>1. IsFiniteSet(A) /\ IsFiniteSet(B) BY <1>3, <1>4
  <2> HIDE DEF A, B
  <2>2. IsFiniteSet(A \X B) BY <2>1, FS_Product
  <2> QED BY <2>2 DEF A, B
<1>6. Build \in Surjection(Parts, Event)
  <2>1. Build \in [Parts -> Event] BY DEF Event
  <2>2. ASSUME NEW e \in Event PROVE \E p \in Parts : Build[p] = e
    <3> DEFINE p == <<<<e.src, e.id>>, <<e.units, e.ts>>>>
    <3>1. p \in Parts BY DEF Event
    <3>2. Build[p] = [src |-> e.src, id |-> e.id, units |-> e.units, ts |-> e.ts] BY <3>1
    <3>3. Build[p] = e BY <3>2 DEF Event
    <3> QED BY <3>1, <3>3
  <2> QED BY <2>1, <2>2 DEF Surjection
<1> HIDE DEF Parts, Build
<1> QED BY <1>5, <1>6, FS_Surjection

LEMMA FinitePayload ==
    ASSUME NEW payload \in SUBSET Event
    PROVE  IsFiniteSet(payload) /\ Cardinality(payload) \in Nat
BY FiniteEvents, FS_Subset, FS_CardinalityType

(* The minimum and the maximum of two numbers.                             *)
LEMMA Extremes ==
    ASSUME NEW a \in Int, NEW b \in Int
    PROVE  /\ Maximum(a, b) \in {a, b} /\ Maximum(a, b) >= a /\ Maximum(a, b) >= b
           /\ Minimum(a, b) \in {a, b} /\ Minimum(a, b) <= a /\ Minimum(a, b) <= b
BY DEF Maximum, Minimum

(* A meter has emitted at most once per unit it reported, and reported no  *)
(* more than it recorded; a cursor points at a row there is.               *)
PositionsBehind ==
    /\ \A s \in Sources : mark[s].emitted <= mark[s].units /\ mark[s].units <= Count(s)
    /\ \A s \in Sources : cursor[s] <= Count(s) /\ parked[s] <= Count(s)

(* All the events there are: collected, queued, on their way, stored.      *)
Lines(lines) == UNION {lines[i] : i \in 1..Len(lines)}
Flying(requests) == UNION requests
AllEvents == events \cup Lines(queue) \cup Lines(retained) \cup Flying(inFlight) \cup stored

-----------------------------------------------------------------------------
(* Types                                                                   *)

(* What a phase of the cycle has not touched yet.                          *)
CycleClean ==
    /\ phase \in {"idle", "flush"} => unsent = {} /\ sending = {} /\ ~eventsFailed
    /\ phase = "idle" => events = {}
    /\ phase \in {"idle", "watermark"} => parked = cursor
    /\ phase # "flush" => replayed = 0 /\ retained = <<>>

TypeInv == TypeOK /\ PositionsBehind /\ CycleClean

LEMMA TypeInit == Init => TypeInv
<1> SUFFICES ASSUME Init PROVE TypeInv OBVIOUS
<1>1. \A s \in Sources : records[s] = <<>> /\ Count(s) = 0 BY DEF Init, Count
<1>2. records \in [Sources -> Seq(1..MaxTime)] BY DEF Init
<1>3. PositionsBehind BY <1>1 DEF Init, PositionsBehind
<1>4. Len(queue) = 0 /\ Len(retained) = 0 BY DEF Init
<1>5. MaxAttempts - 1 >= 0 /\ MaxRecords \in Nat /\ MaxTime \in Nat /\ QueueLimit \in Nat
      /\ MaxCrashes \in Nat /\ MaxBroken \in Nat /\ MaxUnsaved \in Nat
      /\ MaxAttempts \in Nat
  BY DeliveryAssumption
<1>6. budget \in FaultBudget BY <1>5 DEF Init, FaultBudget
<1>7. /\ watermark \in [Sources -> Times]
      /\ cursor \in [Sources -> 0..MaxRecords] /\ parked \in [Sources -> 0..MaxRecords]
      /\ mark \in [Sources -> [units: 0..MaxRecords, emitted: 0..MaxRecords]]
  BY <1>5 DEF Init, Times
<1>8. /\ queue \in Seq(SUBSET Event) /\ retained \in Seq(SUBSET Event)
      /\ replayed \in 0..Len(queue) /\ Len(retained) <= replayed /\ Len(queue) <= QueueLimit
  BY <1>4, <1>5 DEF Init
<1>9. tries \in 0..MaxAttempts - 1 BY <1>5 DEF Init
<1>10. /\ phase \in Phases /\ eventsFailed \in BOOLEAN
       /\ events \subseteq Event /\ unsent \subseteq events /\ sending \subseteq events
       /\ inFlight \subseteq SUBSET Event /\ stored \subseteq Event
       /\ counts \in [Sources -> [Units -> Nat]]
  BY DEF Init, Phases
<1>11. \A s \in Sources : Count(s) <= MaxRecords BY <1>1, <1>5
<1>12. TypeOK BY <1>2, <1>6, <1>7, <1>8, <1>9, <1>10, <1>11 DEF TypeOK
<1>13. CycleClean BY DEF Init, CycleClean
<1> QED BY <1>3, <1>12, <1>13 DEF TypeInv

(* The number of records of a source, and their timestamps.                *)
LEMMA RecordType ==
    ASSUME TypeInv, NEW s \in Sources
    PROVE  /\ Count(s) \in 0..MaxRecords
           /\ records[s] \in Seq(1..MaxTime)
           /\ \A n \in 1..Count(s) : records[s][n] \in 1..MaxTime
<1>1. records[s] \in Seq(1..MaxTime) BY DEF TypeInv, TypeOK
<1>2. Len(records[s]) \in Nat /\ Len(records[s]) <= MaxRecords
  BY <1>1 DEF TypeInv, TypeOK, Count
<1>3. MaxRecords \in Nat BY DeliveryAssumption
<1>4. \A n \in 1..Len(records[s]) : records[s][n] \in 1..MaxTime BY <1>1, ElementOfSeq
<1> QED BY <1>1, <1>2, <1>3, <1>4 DEF Count

(* What a scan returns are events.                                         *)
LEMMA CollectedType ==
    ASSUME TypeInv, NEW s \in Sources
    PROVE  Collected(s) \subseteq Event
<1>1. /\ Count(s) \in 0..MaxRecords
      /\ \A n \in 1..Count(s) : records[s][n] \in 1..MaxTime
  BY RecordType
<1>2. MaxRecords \in Nat /\ MaxTime \in Nat /\ RowsPerScan \in Nat BY DeliveryAssumption
<1>3. ASSUME NEW n \in 1..Count(s) PROVE SingleRecord(s, n) \in Event
  <2>1. <<n, 0>> \in (0..MaxRecords) \X (0..MaxRecords) BY <1>1, <1>2, <1>3
  <2>2. {n} \in SUBSET Units BY <1>1, <1>2, <1>3 DEF Units
  <2>3. records[s][n] \in Times BY <1>1, <1>2, <1>3 DEF Times
  <2> QED BY <2>1, <2>2, <2>3 DEF SingleRecord, Event
<1>4. NewLines(s) \subseteq 1..Count(s) BY DEF NewLines
<1>5. NewRows(s) \subseteq 1..Count(s)
  <2>1. cursor[s] \in Nat BY <1>2 DEF TypeInv, TypeOK
  <2> QED BY <1>1, <1>2, <2>1, Extremes DEF NewRows
<1>6. ASSUME NewGrowth(s) # {}
      PROVE  [src |-> s, id |-> <<Count(s), mark[s].emitted + 1>>,
              units |-> NewGrowth(s), ts |-> Newest(s)] \in Event
  <2>1. mark[s].units \in 0..MaxRecords /\ mark[s].emitted \in 0..MaxRecords
    BY DEF TypeInv, TypeOK
  <2>2. NewGrowth(s) = mark[s].units + 1..Count(s) BY <1>6 DEF NewGrowth
  <2>3. mark[s].emitted <= mark[s].units BY DEF TypeInv, PositionsBehind
  <2>4. mark[s].units + 1 <= Count(s) BY <1>1, <1>2, <1>6, <2>1, <2>2
  <2>5. mark[s].emitted + 1 \in 0..MaxRecords BY <1>1, <1>2, <2>1, <2>3, <2>4
  <2>6. NewGrowth(s) \in SUBSET Units BY <1>1, <1>2, <2>1, <2>2 DEF Units
  <2>7. Newest(s) \in Times BY <1>1, <1>2 DEF Newest, Times
  <2> QED BY <1>1, <2>5, <2>6, <2>7 DEF Event
<1>7. CASE s \in Logs
  BY <1>3, <1>4, <1>7, DeliveryAssumption DEF Collected
<1>8. CASE s \in Ledgers
  BY <1>3, <1>5, <1>8, DeliveryAssumption DEF Collected
<1>9. CASE s \in Meters
  BY <1>6, <1>9, DeliveryAssumption DEF Collected
<1> QED BY <1>7, <1>8, <1>9 DEF Sources

(* Storing a payload keeps the server's types.                             *)
LEMMA IngestType ==
    ASSUME TypeInv, NEW payload \in SUBSET Event, Ingest(payload)
    PROVE  stored' \subseteq Event /\ counts' \in [Sources -> [Units -> Nat]]
<1>1. Fresh(payload) \subseteq payload BY DEF Fresh
<1>2. stored' \subseteq Event BY <1>1 DEF TypeInv, TypeOK, Ingest
<1>3. ASSUME NEW s \in Sources, NEW u \in Units
      PROVE  counts[s][u] + Cardinality({e \in Fresh(payload) : e.src = s /\ u \in e.units}) \in Nat
  <2> DEFINE S == {e \in Fresh(payload) : e.src = s /\ u \in e.units}
  <2>1. S \in SUBSET Event BY <1>1
  <2> HIDE DEF S
  <2>2. Cardinality(S) \in Nat BY <2>1, FinitePayload
  <2>3. counts[s][u] \in Nat BY DEF TypeInv, TypeOK
  <2>4. counts[s][u] + Cardinality(S) \in Nat BY <2>2, <2>3
  <2> QED BY <2>4 DEF S
<1> QED BY <1>2, <1>3 DEF Ingest

(* The payload being sent, and each of the queue's lines, is a set of      *)
(* events.                                                                 *)
LEMMA PayloadType ==
    ASSUME TypeInv, Posting
    PROVE  Payload \in SUBSET Event
<1>1. CASE phase = "flush"
  <2>1. replayed < Len(queue) BY <1>1 DEF Posting
  <2>2. replayed + 1 \in 1..Len(queue) BY <2>1 DEF TypeInv, TypeOK
  <2> QED BY <1>1, <2>2 DEF TypeInv, TypeOK, Payload
<1>2. CASE phase # "flush" BY <1>2 DEF Payload, TypeInv, TypeOK
<1> QED BY <1>1, <1>2

(* The count of records and the ages of the others under a new record.     *)
LEMMA RecordStep ==
    ASSUME TypeInv, NEW s \in Sources, Record(s)
    PROVE  \E t \in 1..MaxTime :
              /\ records' = [records EXCEPT ![s] = Append(@, t)]
              /\ s \in Logs => \A n \in 1..Count(s) : t > records[s][n] - Late
              /\ Count(s)' = Count(s) + 1 /\ Count(s) < MaxRecords
              /\ records'[s] \in Seq(1..MaxTime) /\ records'[s][Count(s) + 1] = t
              /\ \A n \in 1..Count(s) : records'[s][n] = records[s][n]
              /\ \A r \in Sources \ {s} : records'[r] = records[r] /\ Count(r)' = Count(r)
<1>1. PICK t \in 1..MaxTime :
         /\ s \in Logs => \A n \in 1..Count(s) : t > records[s][n] - Late
         /\ records' = [records EXCEPT ![s] = Append(@, t)]
  BY DEF Record
<1>2. records \in [Sources -> Seq(1..MaxTime)] BY DEF TypeInv, TypeOK
<1>3. records[s] \in Seq(1..MaxTime) BY <1>2
<1>4. records'[s] = Append(records[s], t) BY <1>1, <1>2
<1>5. /\ records'[s] \in Seq(1..MaxTime)
      /\ Len(records'[s]) = Len(records[s]) + 1
      /\ \A n \in 1..Len(records[s]) : records'[s][n] = records[s][n]
      /\ records'[s][Len(records[s]) + 1] = t
  BY <1>3, <1>4, AppendProperties
<1>6. \A r \in Sources \ {s} : records'[r] = records[r] /\ Count(r)' = Count(r)
  BY <1>1, <1>2 DEF Count
<1>7. Count(s) < MaxRecords BY DEF Record
<1> QED BY <1>1, <1>5, <1>6, <1>7 DEF Count

LEMMA TypeRecord ==
    ASSUME TypeInv, NEW s \in Sources, Record(s)
    PROVE  TypeInv'
<1>1. PICK t \in 1..MaxTime :
         /\ records' = [records EXCEPT ![s] = Append(@, t)]
         /\ Count(s)' = Count(s) + 1 /\ Count(s) < MaxRecords
         /\ records'[s] \in Seq(1..MaxTime)
         /\ \A r \in Sources \ {s} : records'[r] = records[r] /\ Count(r)' = Count(r)
  BY RecordStep
<1>2. records' \in [Sources -> Seq(1..MaxTime)]
  BY <1>1 DEF TypeInv, TypeOK
<1>3. \A r \in Sources : Count(r)' \in Nat /\ Count(r) <= Count(r)' /\ Count(r)' <= MaxRecords
  <2> SUFFICES ASSUME NEW r \in Sources
               PROVE  Count(r)' \in Nat /\ Count(r) <= Count(r)' /\ Count(r)' <= MaxRecords
    OBVIOUS
  <2>1. Count(r) \in 0..MaxRecords /\ Count(s) \in 0..MaxRecords /\ MaxRecords \in Nat
    BY RecordType, DeliveryAssumption
  <2>2. CASE r = s BY <1>1, <2>1, <2>2
  <2>3. CASE r # s BY <1>1, <2>1, <2>3
  <2> QED BY <2>2, <2>3
<1>4. TypeOK'
  BY <1>2, <1>3 DEF TypeInv, TypeOK, Record, position, cycle, server, Count
<1>5. UNCHANGED <<mark, cursor, parked>> BY DEF Record, position, cycle
<1>6. PositionsBehind'
  <2> SUFFICES ASSUME NEW r \in Sources
               PROVE  /\ mark[r].emitted <= mark[r].units /\ mark[r].units <= Count(r)'
                      /\ cursor[r] <= Count(r)' /\ parked[r] <= Count(r)'
    BY <1>5 DEF PositionsBehind
  <2>1. /\ mark[r].emitted <= mark[r].units /\ mark[r].units <= Count(r)
        /\ cursor[r] <= Count(r) /\ parked[r] <= Count(r)
    BY DEF TypeInv, PositionsBehind
  <2>2. mark[r].units \in Int /\ cursor[r] \in Int /\ parked[r] \in Int /\ Count(r)' \in Int
    BY <1>3 DEF TypeInv, TypeOK
  <2>3. Count(r) \in Int BY RecordType
  <2> QED BY <1>3, <2>1, <2>2, <2>3
<1>7. CycleClean' BY DEF Record, position, cycle, TypeInv, CycleClean
<1> QED BY <1>4, <1>6, <1>7 DEF TypeInv

LEMMA TypeCollect ==
    ASSUME TypeInv, NEW polled \in SUBSET Sources, NEW dropped \in SUBSET Sources,
           NEW saved \in BOOLEAN, Collect(polled, dropped, saved)
    PROVE  TypeInv'
<1>1. UNCHANGED <<records, watermark, cursor, queue, unsent, sending, tries, eventsFailed,
                  replayed, retained, inFlight, stored, counts>>
  BY DEF Collect, server
<1>2. \A s \in Sources : Count(s)' = Count(s) BY <1>1 DEF Count
<1>3. events' \subseteq Event BY CollectedType DEF Collect
<1>4. /\ events' \subseteq Event
      /\ unsent' \subseteq events' /\ sending' \subseteq events'
  BY <1>1, <1>3 DEF TypeInv, CycleClean, Collect
<1>5. \A s \in Sources : /\ Count(s) \in 0..MaxRecords /\ cursor[s] \in 0..MaxRecords
                         /\ Scanned(s) \in 0..MaxRecords /\ Scanned(s) <= Count(s)
  <2> SUFFICES ASSUME NEW s \in Sources
               PROVE  /\ Count(s) \in 0..MaxRecords /\ cursor[s] \in 0..MaxRecords
                      /\ Scanned(s) \in 0..MaxRecords /\ Scanned(s) <= Count(s)
    OBVIOUS
  <2>1. Count(s) \in 0..MaxRecords /\ cursor[s] \in 0..MaxRecords /\ cursor[s] <= Count(s)
    BY RecordType DEF TypeInv, TypeOK, PositionsBehind
  <2>2. MaxRecords \in Nat /\ RowsPerScan \in Nat BY DeliveryAssumption
  <2> DEFINE last == Minimum(Count(s), cursor[s] + RowsPerScan)
  <2>3. last \in {Count(s), cursor[s] + RowsPerScan} /\ last <= Count(s)
    BY <2>1, <2>2, Extremes
  <2>4. last \in Int BY <2>1, <2>2, <2>3
  <2> HIDE DEF last
  <2>5. Maximum(cursor[s], last) \in {cursor[s], last} /\ Maximum(cursor[s], last) >= cursor[s]
    BY <2>1, <2>2, <2>4, Extremes
  <2> QED BY <2>1, <2>2, <2>3, <2>4, <2>5 DEF Scanned, last
<1>6. /\ parked' \in [Sources -> 0..MaxRecords]
      /\ \A s \in Sources : cursor'[s] <= Count(s)' /\ parked'[s] <= Count(s)'
  BY <1>1, <1>2, <1>5 DEF Collect, TypeInv, PositionsBehind
<1>7. \A s \in Sources : /\ mark'[s] \in [units: 0..MaxRecords, emitted: 0..MaxRecords]
                         /\ mark'[s].emitted <= mark'[s].units /\ mark'[s].units <= Count(s)'
  <2> SUFFICES ASSUME NEW s \in Sources
               PROVE  /\ mark'[s] \in [units: 0..MaxRecords, emitted: 0..MaxRecords]
                      /\ mark'[s].emitted <= mark'[s].units /\ mark'[s].units <= Count(s)'
    OBVIOUS
  <2>1. /\ mark[s] \in [units: 0..MaxRecords, emitted: 0..MaxRecords]
        /\ mark[s].emitted <= mark[s].units /\ mark[s].units <= Count(s)
    BY DEF TypeInv, TypeOK, PositionsBehind
  <2>2. MaxRecords \in Nat BY DeliveryAssumption
  <2>3. CASE mark'[s] = mark[s] BY <1>2, <2>1, <2>3
  <2>4. CASE mark'[s] # mark[s]
    <3>1. mark'[s] = Reported(s) /\ NewGrowth(s) # {} BY <2>4 DEF Collect
    <3>2. mark[s].units + 1 <= Count(s) BY <1>5, <2>1, <2>2, <3>1 DEF NewGrowth
    <3> QED BY <1>2, <1>5, <2>1, <2>2, <3>1, <3>2 DEF Reported
  <2> QED BY <2>3, <2>4
<1>8. mark' \in [Sources -> [units: 0..MaxRecords, emitted: 0..MaxRecords]]
  <2>1. DOMAIN mark' = Sources /\ mark' = [s \in Sources |-> mark'[s]] BY DEF Collect
  <2> QED BY <1>7, <2>1
<1>9. budget' \in FaultBudget
  <2>1. budget \in FaultBudget /\ MaxBroken \in Nat /\ MaxUnsaved \in Nat
    BY DeliveryAssumption DEF TypeInv, TypeOK
  <2> QED BY <2>1 DEF Collect, FaultBudget
<1>10. phase' \in Phases BY DEF Collect, Phases
<1>11. TypeOK'
  BY <1>1, <1>2, <1>3, <1>4, <1>6, <1>8, <1>9, <1>10 DEF TypeInv, TypeOK
<1>12. PositionsBehind' BY <1>6, <1>7 DEF PositionsBehind
<1>13. CycleClean' BY <1>1 DEF Collect, TypeInv, CycleClean
<1> QED BY <1>11, <1>12, <1>13 DEF TypeInv

(* The server after a POST, whatever became of it.                         *)
LEMMA ServerType ==
    ASSUME TypeInv, Posting, Ingest(Payload) \/ UNCHANGED server
    PROVE  stored' \subseteq Event /\ counts' \in [Sources -> [Units -> Nat]]
<1>1. CASE Ingest(Payload) BY <1>1, PayloadType, IngestType
<1>2. CASE UNCHANGED server BY <1>2 DEF server, TypeInv, TypeOK
<1> QED BY <1>1, <1>2

(* Nothing but the current payload's fate changes in the cycle: the types  *)
(* follow from those of its parts.                                         *)
LEMMA SendingType ==
    ASSUME TypeInv,
           UNCHANGED <<records, position, parked, events, budget>>,
           queue' \in Seq(SUBSET Event) /\ Len(queue') <= QueueLimit,
           phase' \in Phases \ {"idle", "watermark"},
           unsent' \subseteq events, sending' \subseteq events,
           tries' \in 0..MaxAttempts - 1, eventsFailed' \in BOOLEAN,
           replayed' \in 0..Len(queue'), retained' \in Seq(SUBSET Event),
           Len(retained') <= replayed',
           inFlight' \subseteq SUBSET Event,
           stored' \subseteq Event, counts' \in [Sources -> [Units -> Nat]],
           phase' = "flush" => unsent' = {} /\ sending' = {} /\ ~eventsFailed',
           phase' # "flush" => replayed' = 0 /\ retained' = <<>>
    PROVE  TypeInv'
<1>1. \A s \in Sources : Count(s)' = Count(s) BY DEF Count
<1>2. TypeOK' BY <1>1 DEF TypeInv, TypeOK, position
<1>3. PositionsBehind' BY <1>1 DEF TypeInv, PositionsBehind, position
<1>4. CycleClean' BY DEF CycleClean, position
<1> QED BY <1>2, <1>3, <1>4 DEF TypeInv

LEMMA TakeBatchType ==
    ASSUME NEW rest, TakeBatch(rest)
    PROVE  unsent' \subseteq rest /\ sending' \subseteq rest
           /\ rest = unsent' \cup sending'
BY DEF TakeBatch, Batches

LEMMA TypePublishQueue ==
    ASSUME TypeInv, PublishQueue
    PROVE  TypeInv'
<1>1. unsent' \subseteq events /\ sending' \subseteq events
  BY TakeBatchType DEF PublishQueue
<1>2. /\ queue' \in Seq(SUBSET Event) /\ Len(queue') <= QueueLimit
      /\ replayed' = 0 /\ retained' = <<>> /\ Len(queue') \in Nat
  <2>1. /\ retained \in Seq(SUBSET Event) /\ queue \in Seq(SUBSET Event)
        /\ Len(retained) <= replayed /\ replayed = Len(queue) /\ Len(queue) <= QueueLimit
    BY DEF PublishQueue, TypeInv, TypeOK
  <2>2. Len(retained) \in Nat /\ Len(queue) \in Nat /\ QueueLimit \in Nat
    BY <2>1, DeliveryAssumption
  <2> QED BY <2>1, <2>2 DEF PublishQueue
<1>3. /\ phase' \in Phases \ {"idle", "watermark"} /\ phase' # "flush"
      /\ tries' \in 0..MaxAttempts - 1 /\ eventsFailed' \in BOOLEAN
      /\ inFlight' \subseteq SUBSET Event
      /\ stored' \subseteq Event /\ counts' \in [Sources -> [Units -> Nat]]
      /\ UNCHANGED <<records, position, parked, events, budget>>
  BY DEF PublishQueue, TypeInv, TypeOK, Phases, server
<1>4. /\ replayed' \in 0..Len(queue') /\ retained' \in Seq(SUBSET Event)
      /\ Len(retained') <= replayed'
  BY <1>2
<1> QED BY <1>1, <1>2, <1>3, <1>4, SendingType

LEMMA TypeInterruptFlush ==
    ASSUME TypeInv, InterruptFlush
    PROVE  TypeInv'
<1> DEFINE rest == SubSeq(queue, replayed + 1, Len(queue))
<1>1. /\ queue \in Seq(SUBSET Event) /\ retained \in Seq(SUBSET Event)
      /\ replayed \in 0..Len(queue) /\ replayed < Len(queue) /\ Len(queue) \in Nat
      /\ Len(retained) \in Nat /\ Len(retained) <= replayed
  BY DEF InterruptFlush, TypeInv, TypeOK
<1>2. rest \in Seq(SUBSET Event) /\ Len(rest) = Len(queue) - replayed
  BY <1>1, SubSeqProperties
<1>3. /\ retained' \in Seq(SUBSET Event)
      /\ Len(retained') <= replayed' /\ replayed' \in 0..Len(queue')
  <2>1. retained' = retained \o rest /\ replayed' = Len(queue) /\ queue' = queue
    BY DEF InterruptFlush
  <2> HIDE DEF rest
  <2>2. Len(retained') = Len(retained) + Len(rest) /\ retained' \in Seq(SUBSET Event)
    BY <1>1, <1>2, <2>1, ConcatProperties
  <2> QED BY <1>1, <1>2, <2>1, <2>2
<1>4. tries' \in 0..MaxAttempts - 1 BY DeliveryAssumption DEF InterruptFlush
<1>5. UNCHANGED <<records, position, queue, parked, phase, events, unsent, sending,
                  eventsFailed, inFlight, stored, counts, budget>> /\ phase = "flush"
  BY DEF InterruptFlush, server
<1>6. /\ phase' \in Phases \ {"idle", "watermark"} /\ phase' = "flush"
      /\ unsent' = {} /\ sending' = {} /\ ~eventsFailed'
      /\ unsent' \subseteq events /\ sending' \subseteq events
      /\ eventsFailed' \in BOOLEAN /\ inFlight' \subseteq SUBSET Event
      /\ queue' \in Seq(SUBSET Event) /\ Len(queue') <= QueueLimit
      /\ stored' \subseteq Event /\ counts' \in [Sources -> [Units -> Nat]]
  BY <1>5 DEF TypeInv, TypeOK, CycleClean
<1>7. UNCHANGED <<records, position, parked, events, budget>> BY <1>5
<1> QED BY <1>3, <1>4, <1>6, <1>7, SendingType

(* The next line of the queue.                                             *)
LEMMA TypeNextLine ==
    ASSUME TypeInv, Posting, phase = "flush", NEW keep, NextLine(keep)
    PROVE  /\ phase' = "flush" /\ UNCHANGED <<unsent, sending, eventsFailed>>
           /\ unsent = {} /\ sending = {} /\ ~eventsFailed
           /\ replayed' = replayed + 1 /\ replayed' \in 0..Len(queue)
           /\ retained' \in Seq(SUBSET Event) /\ Len(retained') <= replayed'
<1>1. /\ phase' = "flush" /\ UNCHANGED <<unsent, sending, eventsFailed>>
      /\ unsent = {} /\ sending = {} /\ ~eventsFailed
      /\ replayed' = replayed + 1
  BY DEF TypeInv, CycleClean, NextLine
<1>2. /\ replayed \in 0..Len(queue) /\ replayed < Len(queue) /\ Len(queue) \in Nat
      /\ retained \in Seq(SUBSET Event) /\ Len(retained) \in Nat /\ Len(retained) <= replayed
  BY DEF Posting, TypeInv, TypeOK
<1>3. CASE keep
  <2>1. retained' = Append(retained, Payload) BY <1>3 DEF NextLine
  <2>2. Payload \in SUBSET Event BY PayloadType
  <2>3. retained' \in Seq(SUBSET Event) /\ Len(retained') = Len(retained) + 1
    BY <1>2, <2>1, <2>2, AppendProperties
  <2> QED BY <1>1, <1>2, <2>3
<1>4. CASE ~keep
  <2>1. retained' = retained BY <1>4 DEF NextLine
  <2> QED BY <1>1, <1>2, <2>1
<1> QED BY <1>3, <1>4

(* What the actions that send leave alone.                                 *)
LEMMA QueueType ==
    ASSUME TypeInv, UNCHANGED queue
    PROVE  /\ queue' \in Seq(SUBSET Event) /\ Len(queue') <= QueueLimit
           /\ Len(queue') = Len(queue) /\ Len(queue) \in Nat
BY DEF TypeInv, TypeOK

LEMMA TypeAnswered ==
    ASSUME TypeInv, NEW error \in BOOLEAN, Answered(error)
    PROVE  TypeInv'
<1>1. /\ stored' \subseteq Event /\ counts' \in [Sources -> [Units -> Nat]]
  <2>1. Posting /\ (Ingest(Payload) \/ UNCHANGED server) BY DEF Answered
  <2> QED BY <2>1, ServerType
<1>2. /\ UNCHANGED <<records, position, parked, events, budget>>
      /\ queue' \in Seq(SUBSET Event) /\ Len(queue') <= QueueLimit
      /\ tries' \in 0..MaxAttempts - 1 /\ inFlight' \subseteq SUBSET Event
  <2>1. MaxAttempts \in Nat \ {0} BY DeliveryAssumption
  <2>2. tries' \in 0..MaxAttempts - 1 BY <2>1 DEF Answered
  <2> QED BY <2>2 DEF Answered, TypeInv, TypeOK
<1>3. CASE phase = "flush"
  <2>1. Posting /\ NextLine(error) /\ UNCHANGED queue BY <1>3 DEF Answered
  <2>2. /\ phase' = "flush" /\ UNCHANGED <<unsent, sending, eventsFailed>>
        /\ unsent = {} /\ sending = {} /\ ~eventsFailed
        /\ replayed' \in 0..Len(queue) /\ retained' \in Seq(SUBSET Event)
        /\ Len(retained') <= replayed'
    BY <1>3, <2>1, TypeNextLine
  <2>3. /\ phase' \in Phases \ {"idle", "watermark"} /\ phase' = "flush"
        /\ unsent' = {} /\ sending' = {} /\ ~eventsFailed'
        /\ unsent' \subseteq events /\ sending' \subseteq events /\ eventsFailed' \in BOOLEAN
        /\ replayed' \in 0..Len(queue')
    BY <2>1, <2>2 DEF Phases, TypeInv, TypeOK
  <2> QED BY <1>1, <1>2, <2>2, <2>3, SendingType
<1>4. CASE phase # "flush"
  <2>1. phase = "push" /\ NextBatch(error) /\ UNCHANGED queue BY <1>4 DEF Answered, Posting
  <2>2. /\ unsent' \subseteq events /\ sending' \subseteq events
        /\ phase' \in {"push", "cursors"}
    BY <2>1, TakeBatchType DEF NextBatch, TypeInv, TypeOK
  <2>3. replayed' = 0 /\ retained' = <<>>
    BY <2>1 DEF NextBatch, TypeInv, CycleClean
  <2>4. /\ phase' \in Phases \ {"idle", "watermark"} /\ phase' # "flush"
        /\ eventsFailed' \in BOOLEAN
    BY <2>1, <2>2 DEF NextBatch, Phases, TypeInv, TypeOK
  <2>5. /\ replayed' \in 0..Len(queue') /\ retained' \in Seq(SUBSET Event)
        /\ Len(retained') <= replayed'
    BY <2>1, <2>3, QueueType
  <2> QED BY <1>1, <1>2, <2>2, <2>3, <2>4, <2>5, SendingType
<1> QED BY <1>3, <1>4

LEMMA UnansweredType ==
    ASSUME TypeInv, Unanswered
    PROVE  /\ Posting
           /\ stored' \subseteq Event /\ counts' \in [Sources -> [Units -> Nat]]
           /\ inFlight' \subseteq SUBSET Event
<1>1. Posting /\ (Ingest(Payload) \/ UNCHANGED server) BY DEF Unanswered
<1>2. inFlight' \subseteq SUBSET Event
  <2>1. Payload \in SUBSET Event /\ inFlight \subseteq SUBSET Event
    BY <1>1, PayloadType DEF TypeInv, TypeOK
  <2>2. inFlight' = inFlight \/ inFlight' = inFlight \cup {Payload} BY DEF Unanswered
  <2> HIDE DEF Payload
  <2> QED BY <2>1, <2>2
<1> QED BY <1>1, <1>2, ServerType

LEMMA TypeRetry ==
    ASSUME TypeInv, Retry
    PROVE  TypeInv'
<1>1. /\ Posting
      /\ stored' \subseteq Event /\ counts' \in [Sources -> [Units -> Nat]]
      /\ inFlight' \subseteq SUBSET Event
  BY UnansweredType DEF Retry
<1>2. UNCHANGED <<records, position, queue, parked, phase, events, unsent, sending,
                  eventsFailed, replayed, retained, budget>>
  BY DEF Retry
<1>3. tries' \in 0..MaxAttempts - 1
  BY DeliveryAssumption DEF Retry, TypeInv, TypeOK
<1>4. /\ phase' \in Phases \ {"idle", "watermark"} /\ eventsFailed' \in BOOLEAN
      /\ unsent' \subseteq events /\ sending' \subseteq events
      /\ replayed' \in 0..Len(queue') /\ retained' \in Seq(SUBSET Event)
      /\ Len(retained') <= replayed'
      /\ queue' \in Seq(SUBSET Event) /\ Len(queue') <= QueueLimit
  BY <1>1, <1>2 DEF Posting, TypeInv, TypeOK
<1>5. /\ phase' = "flush" => unsent' = {} /\ sending' = {} /\ ~eventsFailed'
      /\ phase' # "flush" => replayed' = 0 /\ retained' = <<>>
  BY <1>2 DEF TypeInv, CycleClean
<1>6. UNCHANGED <<records, position, parked, events, budget>> BY <1>2
<1> QED BY <1>1, <1>3, <1>4, <1>5, <1>6, SendingType

LEMMA TypeGiveUp ==
    ASSUME TypeInv, GiveUp
    PROVE  TypeInv'
<1>1. /\ Posting
      /\ stored' \subseteq Event /\ counts' \in [Sources -> [Units -> Nat]]
      /\ inFlight' \subseteq SUBSET Event
  BY UnansweredType DEF GiveUp
<1>2. /\ UNCHANGED <<records, position, parked, events, budget>>
      /\ queue' \in Seq(SUBSET Event) /\ Len(queue') <= QueueLimit
      /\ tries' \in 0..MaxAttempts - 1
  <2>1. MaxAttempts \in Nat \ {0} BY DeliveryAssumption
  <2>2. tries' \in 0..MaxAttempts - 1 BY <2>1 DEF GiveUp
  <2> QED BY <2>2 DEF GiveUp, TypeInv, TypeOK
<1>3. CASE phase = "flush"
  <2>1. NextLine(TRUE) /\ UNCHANGED queue BY <1>3 DEF GiveUp
  <2>2. /\ phase' = "flush" /\ UNCHANGED <<unsent, sending, eventsFailed>>
        /\ unsent = {} /\ sending = {} /\ ~eventsFailed
        /\ replayed' \in 0..Len(queue) /\ retained' \in Seq(SUBSET Event)
        /\ Len(retained') <= replayed'
    BY <1>1, <1>3, <2>1, TypeNextLine
  <2>3. /\ phase' \in Phases \ {"idle", "watermark"} /\ phase' = "flush"
        /\ unsent' = {} /\ sending' = {} /\ ~eventsFailed'
        /\ unsent' \subseteq events /\ sending' \subseteq events /\ eventsFailed' \in BOOLEAN
        /\ replayed' \in 0..Len(queue')
    BY <2>1, <2>2 DEF Phases, TypeInv, TypeOK
  <2> QED BY <1>1, <1>2, <2>2, <2>3, SendingType
<1>4. CASE phase # "flush"
  <2>1. /\ phase' = "save" /\ UNCHANGED <<unsent, sending, eventsFailed, replayed, retained, queue>>
    BY <1>4 DEF GiveUp
  <2>2. replayed' = 0 /\ retained' = <<>> BY <1>4, <2>1 DEF TypeInv, CycleClean
  <2>3. /\ phase' \in Phases \ {"idle", "watermark"} /\ phase' # "flush" /\ eventsFailed' \in BOOLEAN
        /\ unsent' \subseteq events /\ sending' \subseteq events
    BY <2>1 DEF Phases, TypeInv, TypeOK
  <2>4. /\ replayed' \in 0..Len(queue') /\ retained' \in Seq(SUBSET Event)
        /\ Len(retained') <= replayed'
    BY <2>1, <2>2, QueueType
  <2> QED BY <1>1, <1>2, <2>2, <2>3, <2>4, SendingType
<1> QED BY <1>3, <1>4

LEMMA TypeLateArrival ==
    ASSUME TypeInv, LateArrival
    PROVE  TypeInv'
<1>1. PICK payload \in inFlight : Ingest(payload) /\ inFlight' = inFlight \ {payload}
  BY DEF LateArrival
<1>2. payload \in SUBSET Event BY DEF TypeInv, TypeOK
<1>3. stored' \subseteq Event /\ counts' \in [Sources -> [Units -> Nat]]
  BY <1>1, <1>2, IngestType
<1>4. UNCHANGED <<records, position, queue, cycle, budget>> BY DEF LateArrival
<1>5. \A s \in Sources : Count(s)' = Count(s) BY <1>4 DEF Count
<1>6. TypeOK' BY <1>1, <1>3, <1>4, <1>5 DEF TypeInv, TypeOK, position, cycle
<1>7. PositionsBehind' BY <1>4, <1>5 DEF TypeInv, PositionsBehind, position, cycle
<1>8. CycleClean' BY <1>4 DEF TypeInv, CycleClean, position, cycle
<1> QED BY <1>6, <1>7, <1>8 DEF TypeInv

(* The end of a cycle: what is left to check is the positions, the queue   *)
(* and the budget.                                                         *)
LEMMA CycleOverType ==
    ASSUME TypeInv, CycleOver, UNCHANGED <<records, mark, inFlight, server>>,
           watermark' \in [Sources -> Times],
           cursor' \in [Sources -> 0..MaxRecords],
           \A s \in Sources : cursor'[s] <= Count(s),
           parked' = cursor',
           queue' \in Seq(SUBSET Event) /\ Len(queue') <= QueueLimit,
           budget' \in FaultBudget
    PROVE  TypeInv'
<1>1. \A s \in Sources : Count(s)' = Count(s) BY DEF Count
<1>2. /\ replayed' \in 0..Len(queue') /\ tries' \in 0..MaxAttempts - 1
      /\ retained' \in Seq(SUBSET Event) /\ Len(retained') <= replayed'
  <2>1. Len(queue') \in Nat /\ MaxAttempts \in Nat \ {0} BY DeliveryAssumption
  <2>2. replayed' = 0 /\ retained' = <<>> /\ tries' = 0 BY DEF CycleOver
  <2> QED BY <2>1, <2>2
<1>3. /\ phase' \in Phases /\ eventsFailed' \in BOOLEAN
      /\ events' \subseteq Event /\ unsent' \subseteq events' /\ sending' \subseteq events'
  BY DEF CycleOver, Phases
<1>4. /\ records' \in [Sources -> Seq(1..MaxTime)] /\ \A s \in Sources : Count(s)' <= MaxRecords
      /\ mark' \in [Sources -> [units: 0..MaxRecords, emitted: 0..MaxRecords]]
      /\ inFlight' \subseteq SUBSET Event /\ stored' \subseteq Event
      /\ counts' \in [Sources -> [Units -> Nat]]
  BY <1>1 DEF TypeInv, TypeOK, server
<1>5. TypeOK' BY <1>2, <1>3, <1>4 DEF TypeOK
<1>6. PositionsBehind' BY <1>1 DEF TypeInv, PositionsBehind
<1>7. CycleClean' BY DEF CycleClean, CycleOver
<1> QED BY <1>5, <1>6, <1>7 DEF TypeInv

LEMMA TypeCommitCursors ==
    ASSUME TypeInv, CommitCursors
    PROVE  TypeInv'
<1>1. /\ cursor' \in {cursor, parked} /\ parked' = cursor' /\ phase = "cursors"
      /\ UNCHANGED <<records, watermark, mark, queue, inFlight, server, budget>>
  BY DEF CommitCursors
<1>2. /\ cursor' \in [Sources -> 0..MaxRecords]
      /\ \A s \in Sources : cursor'[s] <= Count(s)
  BY <1>1 DEF TypeInv, TypeOK, PositionsBehind
<1>3. CASE events # {} /\ ~eventsFailed
  <2>1. /\ phase' = "watermark" /\ unsent' = events
        /\ UNCHANGED <<events, sending, tries, eventsFailed, replayed, retained>>
    BY <1>3 DEF CommitCursors
  <2>2. \A s \in Sources : Count(s)' = Count(s) BY <1>1 DEF Count
  <2>3. TypeOK' BY <1>1, <1>2, <2>1, <2>2 DEF TypeInv, TypeOK, Phases, server
  <2>4. PositionsBehind' BY <1>1, <1>2, <2>2 DEF TypeInv, PositionsBehind
  <2>5. CycleClean' BY <1>1, <2>1 DEF TypeInv, CycleClean
  <2> QED BY <2>3, <2>4, <2>5 DEF TypeInv
<1>4. CASE ~(events # {} /\ ~eventsFailed)
  <2>1. CycleOver BY <1>4 DEF CommitCursors
  <2>2. /\ watermark' \in [Sources -> Times] /\ budget' \in FaultBudget
        /\ queue' \in Seq(SUBSET Event) /\ Len(queue') <= QueueLimit
        /\ UNCHANGED <<records, mark, inFlight, server>>
    BY <1>1 DEF TypeInv, TypeOK
  <2> QED BY <1>1, <1>2, <2>1, <2>2, CycleOverType
<1> QED BY <1>3, <1>4

LEMMA TypeAdvanceWatermark ==
    ASSUME TypeInv, AdvanceWatermark
    PROVE  TypeInv'
<1>1. PICK e \in unsent :
         /\ watermark' = [s \in Sources |-> IF s \in {e.src, Billed[e.src]}
                                            THEN Maximum(watermark[s], e.ts) ELSE watermark[s]]
         /\ IF unsent = {e} THEN CycleOver
            ELSE /\ unsent' = unsent \ {e}
                 /\ UNCHANGED <<phase, events, sending, tries, eventsFailed, replayed, retained>>
  BY DEF AdvanceWatermark
<1>2. e.ts \in Times BY DEF TypeInv, TypeOK, Event
<1>3. watermark' \in [Sources -> Times]
  <2>1. \A s \in Sources : watermark[s] \in Times BY DEF TypeInv, TypeOK
  <2>2. \A s \in Sources : Maximum(watermark[s], e.ts) \in Times
    BY <1>2, <2>1, Extremes DEF Times
  <2> QED BY <1>1, <2>1, <2>2
<1>4. /\ phase = "watermark"
      /\ UNCHANGED <<records, cursor, mark, queue, parked, inFlight, server, budget>>
  BY DEF AdvanceWatermark
<1>5. CASE unsent = {e}
  <2>1. CycleOver BY <1>1, <1>5
  <2>2. /\ cursor' \in [Sources -> 0..MaxRecords] /\ \A s \in Sources : cursor'[s] <= Count(s)
        /\ budget' \in FaultBudget
        /\ queue' \in Seq(SUBSET Event) /\ Len(queue') <= QueueLimit
        /\ UNCHANGED <<records, mark, inFlight, server>>
    BY <1>4 DEF TypeInv, TypeOK, PositionsBehind
  <2>3. parked' = cursor' BY <1>4 DEF TypeInv, CycleClean
  <2> QED BY <1>3, <1>4, <2>1, <2>2, <2>3, CycleOverType
<1>6. CASE unsent # {e}
  <2>1. /\ unsent' = unsent \ {e}
        /\ UNCHANGED <<phase, events, sending, tries, eventsFailed, replayed, retained>>
    BY <1>1, <1>6
  <2>2. \A s \in Sources : Count(s)' = Count(s) BY <1>4 DEF Count
  <2>3. TypeOK' BY <1>3, <1>4, <2>1, <2>2 DEF TypeInv, TypeOK, server
  <2>4. PositionsBehind' BY <1>4, <2>2 DEF TypeInv, PositionsBehind
  <2>5. CycleClean' BY <1>4, <2>1 DEF TypeInv, CycleClean
  <2> QED BY <2>3, <2>4, <2>5 DEF TypeInv
<1> QED BY <1>5, <1>6

LEMMA TypeSaveToQueue ==
    ASSUME TypeInv, SaveToQueue
    PROVE  TypeInv'
<1>1. queue' \in Seq(SUBSET Event) /\ Len(queue') <= QueueLimit
  <2>1. /\ queue \in Seq(SUBSET Event) /\ Len(queue) \in Nat /\ Len(queue) <= QueueLimit
        /\ QueueLimit \in Nat /\ sending \in SUBSET Event
    BY DeliveryAssumption DEF TypeInv, TypeOK
  <2>2. CASE queue' = queue BY <2>1, <2>2
  <2>3. CASE queue' # queue
    <3>1. queue' = Append(queue, sending) /\ Len(queue) < QueueLimit
      BY <2>3 DEF SaveToQueue
    <3> QED BY <2>1, <3>1, AppendProperties
  <2> QED BY <2>2, <2>3
<1>2. /\ CycleOver /\ parked' = cursor'
      /\ UNCHANGED <<records, position, inFlight, server, budget>>
  BY DEF SaveToQueue, position
<1>3. /\ watermark' \in [Sources -> Times] /\ cursor' \in [Sources -> 0..MaxRecords]
      /\ \A s \in Sources : cursor'[s] <= Count(s)
      /\ budget' \in FaultBudget /\ UNCHANGED <<records, mark, inFlight, server>>
  BY <1>2 DEF TypeInv, TypeOK, PositionsBehind, position
<1> QED BY <1>1, <1>2, <1>3, CycleOverType

LEMMA TypeCrash ==
    ASSUME TypeInv, Crash
    PROVE  TypeInv'
<1>1. /\ CycleOver /\ parked' = cursor'
      /\ UNCHANGED <<records, cursor, mark, queue, inFlight, server>>
  BY DEF Crash
<1>2. watermark' \in [Sources -> Times]
  <2>1. 0 \in Times BY DeliveryAssumption DEF Times
  <2>2. CASE watermark' = watermark BY <2>2 DEF TypeInv, TypeOK
  <2>3. CASE watermark' = [s \in Sources |-> 0] BY <2>1, <2>3
  <2> QED BY <2>2, <2>3 DEF Crash
<1>3. budget' \in FaultBudget
  BY DeliveryAssumption DEF Crash, TypeInv, TypeOK, FaultBudget
<1>4. /\ cursor' \in [Sources -> 0..MaxRecords]
      /\ \A s \in Sources : cursor'[s] <= Count(s)
      /\ queue' \in Seq(SUBSET Event) /\ Len(queue') <= QueueLimit
      /\ UNCHANGED <<records, mark, inFlight, server>>
  BY <1>1 DEF TypeInv, TypeOK, PositionsBehind
<1> QED BY <1>1, <1>2, <1>3, <1>4, CycleOverType

(* The cases of a step, for the proofs that follow.                        *)
LEMMA TypeStep == TypeInv /\ [Next]_vars => TypeInv'
<1> SUFFICES ASSUME TypeInv, [Next]_vars PROVE TypeInv' OBVIOUS
<1>1. ASSUME NEW s \in Sources, Record(s) PROVE TypeInv' BY <1>1, TypeRecord
<1>2. ASSUME StartCycle PROVE TypeInv' BY <1>2, TypeCollect DEF StartCycle
<1>3. ASSUME CycleStep PROVE TypeInv'
  BY <1>3, TypePublishQueue, TypeAnswered, TypeRetry, TypeGiveUp, TypeCommitCursors,
     TypeAdvanceWatermark, TypeSaveToQueue DEF CycleStep
<1>4. ASSUME InterruptFlush PROVE TypeInv' BY <1>4, TypeInterruptFlush
<1>5. ASSUME LateArrival PROVE TypeInv' BY <1>5, TypeLateArrival
<1>6. ASSUME Crash PROVE TypeInv' BY <1>6, TypeCrash
<1>7. ASSUME UNCHANGED vars PROVE TypeInv'
  BY <1>7 DEF vars, position, cycle, server, TypeInv, TypeOK, PositionsBehind, CycleClean, Count
<1> QED BY <1>1, <1>2, <1>3, <1>4, <1>5, <1>6, <1>7 DEF Next

LEMMA TypeInvariance == Spec => []TypeInv
BY TypeInit, TypeStep, PTL DEF Spec

(* TypeOK holds in every state: sources, positions, cycle, queue, server   *)
(* and faults keep their types, tries and queue their limits.              *)
THEOREM TypeCorrectness == Spec => []TypeOK
BY TypeInvariance, PTL DEF TypeInv

-----------------------------------------------------------------------------
(* Events come from a scan and from nowhere else                           *)

LEMMA LinesAppend ==
    ASSUME NEW lines \in Seq(SUBSET Event), NEW payload \in SUBSET Event
    PROVE  Lines(Append(lines, payload)) \subseteq Lines(lines) \cup payload
<1> DEFINE longer == Append(lines, payload)
<1>1. /\ Len(lines) \in Nat /\ Len(longer) = Len(lines) + 1
      /\ \A i \in 1..Len(lines) : longer[i] = lines[i]
      /\ longer[Len(lines) + 1] = payload
  BY AppendProperties
<1> HIDE DEF longer
<1>2. ASSUME NEW i \in 1..Len(longer)
      PROVE  longer[i] \subseteq Lines(lines) \cup payload
  <2>1. CASE i = Len(lines) + 1 BY <1>1, <2>1
  <2>2. CASE i # Len(lines) + 1
    <3>1. i \in 1..Len(lines) BY <1>1, <2>2
    <3> QED BY <1>1, <3>1 DEF Lines
  <2> QED BY <2>1, <2>2
<1>3. Lines(longer) \subseteq Lines(lines) \cup payload BY <1>2 DEF Lines
<1> QED BY <1>3 DEF longer

(* The part of the queue an interrupted flush keeps.                       *)
Rest == SubSeq(queue, replayed + 1, Len(queue))

LEMMA RestOfQueue ==
    ASSUME TypeInv, phase = "flush"
    PROVE  /\ Len(retained \o Rest) \in Nat
           /\ \A i \in 1..Len(retained) : (retained \o Rest)[i] = retained[i]
           /\ Len(retained) <= Len(retained \o Rest)
           /\ \A i \in replayed + 1..Len(queue) :
                \E j \in 1..Len(retained \o Rest) : (retained \o Rest)[j] = queue[i]
           /\ Lines(retained \o Rest) \subseteq Lines(retained) \cup Lines(queue)
<1>1. /\ queue \in Seq(SUBSET Event) /\ retained \in Seq(SUBSET Event)
      /\ replayed \in 0..Len(queue) /\ Len(queue) \in Nat /\ Len(retained) \in Nat
  BY DEF TypeInv, TypeOK
<1>2. /\ Rest \in Seq(SUBSET Event) /\ Len(Rest) = Len(queue) - replayed
      /\ \A i \in 1..Len(Rest) : Rest[i] = queue[replayed + i]
  BY <1>1, SubSeqProperties DEF Rest
<1> DEFINE all == retained \o Rest
<1>3. /\ all \in Seq(SUBSET Event) /\ Len(all) = Len(retained) + Len(Rest)
      /\ \A i \in 1..Len(retained) : all[i] = retained[i]
      /\ \A i \in 1..Len(Rest) : all[Len(retained) + i] = Rest[i]
  <2>1. \A i \in 1..Len(retained) + Len(Rest) :
           all[i] = IF i <= Len(retained) THEN retained[i] ELSE Rest[i - Len(retained)]
    BY <1>1, <1>2, ConcatProperties
  <2>2. all \in Seq(SUBSET Event) /\ Len(all) = Len(retained) + Len(Rest)
    BY <1>1, <1>2, ConcatProperties
  <2>3. \A i \in 1..Len(retained) : all[i] = retained[i] BY <1>1, <1>2, <2>1
  <2>4. ASSUME NEW i \in 1..Len(Rest) PROVE all[Len(retained) + i] = Rest[i]
    <3>1. Len(retained) + i \in 1..Len(retained) + Len(Rest) BY <1>1, <1>2
    <3>2. ~(Len(retained) + i <= Len(retained)) /\ (Len(retained) + i) - Len(retained) = i
      BY <1>1, <1>2
    <3> QED BY <2>1, <3>1, <3>2
  <2> QED BY <2>2, <2>3, <2>4
<1> HIDE DEF all
<1>4. ASSUME NEW i \in replayed + 1..Len(queue)
      PROVE  \E j \in 1..Len(all) : all[j] = queue[i]
  <2>1. i - replayed \in 1..Len(Rest) /\ replayed + (i - replayed) = i BY <1>1, <1>2
  <2>2. all[Len(retained) + (i - replayed)] = queue[i] BY <1>2, <1>3, <2>1
  <2>3. Len(retained) + (i - replayed) \in 1..Len(all) BY <1>1, <1>2, <1>3, <2>1
  <2> QED BY <2>2, <2>3
<1>5. ASSUME NEW i \in 1..Len(all)
      PROVE  all[i] \subseteq Lines(retained) \cup Lines(queue)
  <2>1. CASE i <= Len(retained)
    <3>1. i \in 1..Len(retained) BY <1>1, <1>2, <1>3, <2>1
    <3> QED BY <1>3, <3>1 DEF Lines
  <2>2. CASE ~(i <= Len(retained))
    <3>1. i - Len(retained) \in 1..Len(Rest) /\ Len(retained) + (i - Len(retained)) = i
      BY <1>1, <1>2, <1>3, <2>2
    <3>2. replayed + (i - Len(retained)) \in 1..Len(queue) BY <1>1, <1>2, <3>1
    <3>3. all[i] = queue[replayed + (i - Len(retained))] BY <1>2, <1>3, <3>1
    <3> QED BY <3>2, <3>3 DEF Lines
  <2> QED BY <2>1, <2>2
<1>6. Lines(all) \subseteq Lines(retained) \cup Lines(queue) BY <1>5 DEF Lines
<1>7. Len(all) \in Nat /\ Len(retained) <= Len(all) BY <1>1, <1>2, <1>3
<1> QED BY <1>3, <1>4, <1>6, <1>7 DEF all

LEMMA PayloadKnown ==
    ASSUME TypeInv, Posting
    PROVE  Payload \subseteq AllEvents
<1>1. CASE phase = "flush"
  <2>1. replayed + 1 \in 1..Len(queue) BY <1>1 DEF Posting, TypeInv, TypeOK
  <2> QED BY <1>1, <2>1 DEF Payload, AllEvents, Lines
<1>2. CASE phase # "flush" BY <1>2 DEF Payload, AllEvents, TypeInv, TypeOK
<1> QED BY <1>1, <1>2

LEMMA IngestKnown ==
    ASSUME NEW payload, Ingest(payload)
    PROVE  stored' \subseteq stored \cup payload /\ stored \subseteq stored'
BY DEF Ingest, Fresh

(* What the server holds only grows.                                       *)
LEMMA StoredGrows == [Next]_vars => stored \subseteq stored'
<1> SUFFICES ASSUME [Next]_vars PROVE stored \subseteq stored' OBVIOUS
<1>1. ASSUME NEW payload, Ingest(payload) PROVE stored \subseteq stored' BY <1>1, IngestKnown
<1>2. CASE UNCHANGED server BY <1>2 DEF server
<1>3. \/ UNCHANGED server
      \/ \E payload : Ingest(payload)
  <2>1. CASE \E s \in Sources : Record(s) BY <2>1 DEF Record
  <2>2. CASE StartCycle BY <2>2 DEF StartCycle, Collect
  <2>3. CASE CycleStep
    BY <2>3 DEF CycleStep, PublishQueue, Answered, Retry, GiveUp, Unanswered, CommitCursors,
                AdvanceWatermark, SaveToQueue
  <2>4. CASE InterruptFlush BY <2>4 DEF InterruptFlush
  <2>5. CASE LateArrival BY <2>5 DEF LateArrival
  <2>6. CASE Crash BY <2>6 DEF Crash
  <2>7. CASE UNCHANGED vars BY <2>7 DEF vars
  <2> QED BY <2>1, <2>2, <2>3, <2>4, <2>5, <2>6, <2>7 DEF Next
<1> QED BY <1>1, <1>2, <1>3

(* Sources only append: the records there are keep their timestamps.       *)
LEMMA RecordsGrow ==
    ASSUME TypeInv, [Next]_vars, NEW s \in Sources
    PROVE  /\ Count(s) \in Nat /\ Count(s)' \in Nat /\ Count(s) <= Count(s)'
           /\ \A n \in 1..Count(s) : records'[s][n] = records[s][n]
<1>1. Count(s) \in Nat BY RecordType, DeliveryAssumption
<1>2. CASE UNCHANGED records BY <1>1, <1>2 DEF Count
<1>3. CASE \E r \in Sources : Record(r)
  <2>1. PICK r \in Sources : Record(r) BY <1>3
  <2>2. /\ Count(r)' = Count(r) + 1
        /\ \A n \in 1..Count(r) : records'[r][n] = records[r][n]
        /\ \A q \in Sources \ {r} : records'[q] = records[q] /\ Count(q)' = Count(q)
    BY <2>1, RecordStep
  <2>3. CASE s = r BY <1>1, <2>2, <2>3
  <2>4. CASE s # r
    <3>1. records'[s] = records[s] /\ Count(s)' = Count(s) BY <2>2, <2>4
    <3> QED BY <1>1, <3>1
  <2> QED BY <2>3, <2>4
<1>4. UNCHANGED records \/ \E r \in Sources : Record(r)
  BY DEF Next, vars, StartCycle, Collect, CycleStep, PublishQueue, Answered, Retry, GiveUp,
         CommitCursors, AdvanceWatermark, SaveToQueue, InterruptFlush, LateArrival, Crash
<1> QED BY <1>2, <1>3, <1>4

(* What is stored comes from a payload there was.                          *)
LEMMA StoredKnown ==
    ASSUME NEW payload, payload \subseteq AllEvents, Ingest(payload) \/ UNCHANGED server
    PROVE  stored' \subseteq AllEvents
<1>1. CASE Ingest(payload) BY <1>1, IngestKnown DEF AllEvents
<1>2. CASE UNCHANGED server BY <1>2 DEF server, AllEvents
<1> QED BY <1>1, <1>2

(* Every step but a scan only moves events around.                         *)
LEMMA NothingInvented ==
    ASSUME TypeInv, [Next]_vars, ~StartCycle
    PROVE  AllEvents' \subseteq AllEvents
<1>1. CASE \E s \in Sources : Record(s)
  BY <1>1 DEF Record, position, cycle, server, AllEvents, Lines, Flying
<1>2. CASE PublishQueue
  <2>1. /\ queue' = retained /\ retained' = <<>>
        /\ UNCHANGED <<events, inFlight, stored>> /\ Flying(inFlight)' = Flying(inFlight)
    BY <1>2 DEF PublishQueue, server, Flying
  <2>2. Lines(retained') = {} BY <2>1 DEF Lines
  <2>3. Lines(retained)' = {} /\ Lines(queue)' = Lines(retained) BY <2>1, <2>2 DEF Lines
  <2> QED BY <2>1, <2>3 DEF AllEvents
<1>3. CASE InterruptFlush
  <2>1. retained' = retained \o Rest /\ phase = "flush"
        /\ UNCHANGED <<events, queue, inFlight, stored>> /\ Flying(inFlight)' = Flying(inFlight)
    BY <1>3 DEF InterruptFlush, server, Rest, Flying
  <2>2. Lines(retained') \subseteq Lines(retained) \cup Lines(queue)
    BY <2>1, RestOfQueue
  <2>3. Lines(retained)' = Lines(retained') /\ Lines(queue)' = Lines(queue) BY <2>1 DEF Lines
  <2> QED BY <2>1, <2>2, <2>3 DEF AllEvents
<1>4. CASE Posting /\ (Ingest(Payload) \/ UNCHANGED server)
           /\ (retained' = retained \/ retained' = Append(retained, Payload))
           /\ (inFlight' = inFlight \/ inFlight' = inFlight \cup {Payload})
           /\ UNCHANGED <<events, queue>>
  <2>1. Payload \subseteq AllEvents /\ Payload \in SUBSET Event
    BY <1>4, PayloadKnown, PayloadType
  <2>2. stored' \subseteq AllEvents BY <1>4, <2>1, StoredKnown
  <2>3. Lines(retained') \subseteq AllEvents
    <3>1. retained \in Seq(SUBSET Event) BY DEF TypeInv, TypeOK
    <3>2. Lines(Append(retained, Payload)) \subseteq Lines(retained) \cup Payload
      BY <2>1, <3>1, LinesAppend
    <3>3. Lines(retained) \subseteq AllEvents BY DEF AllEvents
    <3> QED BY <1>4, <2>1, <3>2, <3>3
  <2>4. Flying(inFlight') \subseteq AllEvents
    <3>1. Flying(inFlight) \subseteq AllEvents BY DEF AllEvents
    <3>2. Flying(inFlight \cup {Payload}) \subseteq Flying(inFlight) \cup Payload BY DEF Flying
    <3> QED BY <1>4, <2>1, <3>1, <3>2
  <2>5. Lines(queue)' = Lines(queue) /\ events' = events BY <1>4 DEF Lines
  <2>6. Lines(queue) \subseteq AllEvents /\ events \subseteq AllEvents BY DEF AllEvents
  <2>7. /\ AllEvents' = events' \cup Lines(queue)' \cup Lines(retained)' \cup Flying(inFlight)'
                        \cup stored'
        /\ Lines(retained)' = Lines(retained') /\ Flying(inFlight)' = Flying(inFlight')
    BY DEF AllEvents, Lines, Flying
  <2> QED BY <2>2, <2>3, <2>4, <2>5, <2>6, <2>7
<1>5. ASSUME NEW error \in BOOLEAN, Answered(error)
      PROVE  AllEvents' \subseteq AllEvents
  BY <1>4, <1>5 DEF Answered, NextLine, NextBatch
<1>6. CASE Retry
  BY <1>4, <1>6 DEF Retry, Unanswered
<1>7. CASE GiveUp
  BY <1>4, <1>7 DEF GiveUp, Unanswered, NextLine
<1>8. CASE LateArrival
  <2>1. PICK payload \in inFlight : Ingest(payload) /\ inFlight' = inFlight \ {payload}
    BY <1>8 DEF LateArrival
  <2>2. payload \subseteq AllEvents BY DEF AllEvents, Flying
  <2>3. stored' \subseteq AllEvents BY <2>1, <2>2, StoredKnown
  <2>4. UNCHANGED <<events, queue, retained>> BY <1>8 DEF LateArrival, cycle
  <2>5. Lines(queue)' = Lines(queue) /\ Lines(retained)' = Lines(retained)
    BY <2>4 DEF Lines
  <2>6. Flying(inFlight)' \subseteq Flying(inFlight) BY <2>1 DEF Flying
  <2>7. /\ events \cup Lines(queue) \cup Lines(retained) \cup Flying(inFlight) \subseteq AllEvents
        /\ AllEvents' = events' \cup Lines(queue)' \cup Lines(retained)' \cup Flying(inFlight)'
                        \cup stored'
    BY DEF AllEvents
  <2> QED BY <2>3, <2>4, <2>5, <2>6, <2>7
<1>9. CASE CommitCursors
  BY <1>9 DEF CommitCursors, CycleOver, server, AllEvents, Lines, Flying
<1>10. CASE AdvanceWatermark
  BY <1>10 DEF AdvanceWatermark, CycleOver, server, AllEvents, Lines, Flying
<1>11. CASE SaveToQueue
  <2>1. /\ queue' = queue \/ queue' = Append(queue, sending)
        /\ events' = {} /\ retained' = <<>> /\ UNCHANGED <<inFlight, stored>>
        /\ Flying(inFlight)' = Flying(inFlight)
    BY <1>11 DEF SaveToQueue, CycleOver, server, Flying
  <2>2. queue \in Seq(SUBSET Event) /\ sending \in SUBSET Event /\ sending \subseteq events
    BY DEF TypeInv, TypeOK
  <2>3. Lines(queue') \subseteq Lines(queue) \cup events BY <2>1, <2>2, LinesAppend
  <2>4. Lines(retained') = {} BY <2>1 DEF Lines
  <2>5. Lines(queue)' = Lines(queue') /\ Lines(retained)' = Lines(retained') BY DEF Lines
  <2>6. /\ events \cup Lines(queue) \cup Flying(inFlight) \cup stored \subseteq AllEvents
        /\ AllEvents' = events' \cup Lines(queue)' \cup Lines(retained)' \cup Flying(inFlight)'
                        \cup stored'
    BY DEF AllEvents
  <2> QED BY <2>1, <2>3, <2>4, <2>5, <2>6
<1>12. CASE Crash
  BY <1>12 DEF Crash, CycleOver, server, AllEvents, Lines, Flying
<1>13. CASE UNCHANGED vars
  BY <1>13 DEF vars, cycle, server, AllEvents, Lines, Flying
<1> QED BY <1>1, <1>2, <1>3, <1>5, <1>6, <1>7, <1>8, <1>9, <1>10, <1>11, <1>12, <1>13
        DEF Next, CycleStep

(* A scan adds what it collected.                                          *)
LEMMA OnlyCollected ==
    ASSUME NEW polled \in SUBSET Sources, NEW dropped \in SUBSET Sources,
           NEW saved \in BOOLEAN, Collect(polled, dropped, saved)
    PROVE  AllEvents' \subseteq AllEvents \cup UNION {Collected(s) : s \in polled}
BY DEF Collect, server, AllEvents, Lines, Flying

(* The events of logs and ledgers are records of their source.             *)
RecordEvents ==
    \A e \in AllEvents : e.src \notin Meters =>
        \E n \in 1..Count(e.src) : e = SingleRecord(e.src, n)

LEMMA AllEventsType == TypeInv => AllEvents \subseteq Event
<1> SUFFICES ASSUME TypeInv PROVE AllEvents \subseteq Event OBVIOUS
<1>1. ASSUME NEW lines \in Seq(SUBSET Event) PROVE Lines(lines) \subseteq Event
  <2>1. \A i \in 1..Len(lines) : lines[i] \in SUBSET Event BY ElementOfSeq
  <2> QED BY <2>1 DEF Lines
<1>2. queue \in Seq(SUBSET Event) /\ retained \in Seq(SUBSET Event)
  BY DEF TypeInv, TypeOK
<1>3. Lines(queue) \subseteq Event /\ Lines(retained) \subseteq Event BY <1>1, <1>2
<1>4. events \subseteq Event /\ Flying(inFlight) \subseteq Event /\ stored \subseteq Event
  BY DEF TypeInv, TypeOK, Flying
<1> QED BY <1>3, <1>4 DEF AllEvents

(* In which form a scan returns records and growth.                        *)
LEMMA CollectedForm ==
    ASSUME TypeInv, NEW s \in Sources, NEW e \in Collected(s)
    PROVE  /\ e.src = s
           /\ s \notin Meters => \E n \in 1..Count(s) : e = SingleRecord(s, n)
           /\ s \in Meters => /\ NewGrowth(s) # {}
                              /\ e = [src |-> s, id |-> <<Count(s), mark[s].emitted + 1>>,
                                      units |-> NewGrowth(s), ts |-> Newest(s)]
<1>1. CASE s \in Logs
  BY <1>1, DeliveryAssumption DEF Collected, NewLines, SingleRecord
<1>2. CASE s \in Ledgers
  <2>1. Count(s) \in Nat BY RecordType
  <2>2. RowsPerScan \in Nat /\ MaxRecords \in Nat BY DeliveryAssumption
  <2>3. cursor \in [Sources -> 0..MaxRecords] BY DEF TypeInv, TypeOK
  <2>4. cursor[s] \in Nat BY <2>2, <2>3
  <2>5. NewRows(s) \subseteq 1..Count(s) BY <2>1, <2>2, <2>4, Extremes DEF NewRows
  <2> QED BY <1>2, <2>5, DeliveryAssumption DEF Collected, SingleRecord
<1>3. CASE s \in Meters
  BY <1>3, DeliveryAssumption DEF Collected
<1> QED BY <1>1, <1>2, <1>3 DEF Sources

LEMMA RecordEventsStep ==
    ASSUME TypeInv, RecordEvents, [Next]_vars
    PROVE  RecordEvents'
<1>1. ASSUME NEW s \in Sources, NEW n \in 1..Count(s)
      PROVE  n \in 1..Count(s)' /\ SingleRecord(s, n)' = SingleRecord(s, n)
  <2>1. /\ Count(s) \in Nat /\ Count(s)' \in Nat /\ Count(s) <= Count(s)'
        /\ records'[s][n] = records[s][n]
    BY RecordsGrow
  <2> QED BY <2>1 DEF SingleRecord
<1>2. ASSUME NEW e, e.src \in Sources, \E n \in 1..Count(e.src) : e = SingleRecord(e.src, n)
      PROVE  (\E n \in 1..Count(e.src) : e = SingleRecord(e.src, n))'
  BY <1>1, <1>2
<1>3. AllEvents \subseteq Event BY AllEventsType
<1>4. SUFFICES ASSUME NEW e \in AllEvents', e.src \notin Meters
               PROVE  (\E n \in 1..Count(e.src) : e = SingleRecord(e.src, n))'
  BY DEF RecordEvents
<1>5. CASE e \in AllEvents
  <2>1. e.src \in Sources BY <1>3, <1>5 DEF Event
  <2> QED BY <1>2, <1>4, <1>5, <2>1 DEF RecordEvents
<1>6. CASE e \notin AllEvents
  <2>1. StartCycle BY <1>6, NothingInvented
  <2>2. PICK polled \in SUBSET Sources :
           \E dropped \in SUBSET Sources, saved \in BOOLEAN : Collect(polled, dropped, saved)
    BY <2>1 DEF StartCycle
  <2>3. e \in UNION {Collected(s) : s \in polled} BY <1>6, <2>2, OnlyCollected
  <2>4. PICK s \in polled : e \in Collected(s) BY <2>3
  <2>5. e.src = s /\ s \in Sources BY <2>4, CollectedForm
  <2> QED BY <1>2, <1>4, <2>4, <2>5, CollectedForm
<1> QED BY <1>5, <1>6

-----------------------------------------------------------------------------
(* Every unit is counted once, if the mark it was reported by is saved     *)

(* The sources whose marks are saved: all of them if no write of a mark    *)
(* fails, otherwise those that keep no mark, the logs and ledgers.         *)
Unmarked(S) == S \subseteq Sources /\ (MaxUnsaved = 0 \/ S \cap Meters = {})

(* Growth that was sent is growth the mark has passed.                     *)
GrowthEvents(S) ==
    \A e \in AllEvents : e.src \in S \cap Meters =>
        e.units \subseteq 1..mark[e.src].units /\ e.id[2] <= mark[e.src].emitted

(* Two events of a source differ in their ids and share no usage.          *)
Apart(e, f) == e.src = f.src => e = f \/ (e.id # f.id /\ e.units \cap f.units = {})
EventsApart(S) == \A e, f \in AllEvents : e.src \in S => Apart(e, f)

(* The server's totals count what its events hold.                         *)
Accounted(S) ==
    \A s \in S, u \in Units : counts[s][u] = IF Counted(s, u) THEN 1 ELSE 0

MeterInv(S) ==
    TypeInv /\ RecordEvents /\ GrowthEvents(S) /\ EventsApart(S) /\ Accounted(S)

LEMMA MeterInit ==
    ASSUME NEW S, Unmarked(S)
    PROVE  Init => MeterInv(S)
<1> SUFFICES ASSUME Init PROVE MeterInv(S) OBVIOUS
<1>1. Lines(queue) = {} /\ Lines(retained) = {} BY DEF Init, Lines
<1>2. Flying(inFlight) = {} BY DEF Init, Flying
<1>3. AllEvents = {} BY <1>1, <1>2 DEF Init, AllEvents
<1>4. Accounted(S) BY DEF Init, Accounted, Counted, Holds, Unmarked
<1> QED BY <1>3, <1>4, TypeInit DEF MeterInv, RecordEvents, GrowthEvents, EventsApart

(* The mark is the only thing that moves a meter's read position, and it   *)
(* only moves up.                                                          *)
LEMMA MarkGrows ==
    ASSUME TypeInv, [Next]_vars, NEW s \in Sources
    PROVE  /\ mark[s].units \in Nat /\ mark[s].emitted \in Nat
           /\ mark'[s].units \in Nat /\ mark'[s].emitted \in Nat
           /\ mark[s].units <= mark'[s].units /\ mark[s].emitted <= mark'[s].emitted
<1>1. TypeInv' BY TypeStep
<1>2. /\ mark[s].units \in Nat /\ mark[s].emitted \in Nat
      /\ mark'[s].units \in Nat /\ mark'[s].emitted \in Nat
  <2> DEFINE Marks == [Sources -> [units: 0..MaxRecords, emitted: 0..MaxRecords]]
  <2>1. mark \in Marks BY DEF TypeInv, TypeOK
  <2>2. mark' \in Marks BY <1>1 DEF TypeInv, TypeOK
  <2> QED BY <2>1, <2>2, DeliveryAssumption
<1>3. CASE mark' = mark BY <1>2, <1>3
<1>4. CASE StartCycle
  <2>1. PICK polled \in SUBSET Sources :
           \E dropped \in SUBSET Sources, saved \in BOOLEAN : Collect(polled, dropped, saved)
    BY <1>4 DEF StartCycle
  <2>2. mark'[s] = mark[s] \/ mark'[s] = Reported(s) BY <2>1 DEF Collect
  <2>3. mark[s].units <= Count(s) BY DEF TypeInv, PositionsBehind
  <2> QED BY <1>2, <2>2, <2>3 DEF Reported
<1>5. mark' = mark \/ StartCycle
  BY DEF Next, vars, Record, position, CycleStep, PublishQueue, Answered, Retry, GiveUp,
         CommitCursors, AdvanceWatermark, SaveToQueue, InterruptFlush, LateArrival, Crash
<1> QED BY <1>3, <1>4, <1>5

(* A scan whose mark is saved takes the growth up to the mark.             *)
LEMMA ScannedGrowth ==
    ASSUME TypeInv, NEW S, Unmarked(S),
           NEW polled \in SUBSET Sources, NEW dropped \in SUBSET Sources,
           NEW saved \in BOOLEAN, Collect(polled, dropped, saved),
           NEW s \in polled, s \in S \cap Meters, NEW e \in Collected(s)
    PROVE  /\ e.src = s
           /\ e.units = mark[s].units + 1..mark'[s].units
           /\ e.id = <<mark'[s].units, mark'[s].emitted>>
           /\ mark'[s].emitted = mark[s].emitted + 1
           /\ mark'[s].units = Count(s) /\ mark[s].units < Count(s)
<1>1. NewGrowth(s) # {} /\ e = [src |-> s, id |-> <<Count(s), mark[s].emitted + 1>>,
                                units |-> NewGrowth(s), ts |-> Newest(s)]
  BY CollectedForm
<1>2. saved
  <2>1. budget.unsaved = 0 BY DEF TypeInv, TypeOK, FaultBudget, Unmarked
  <2> QED BY <2>1 DEF Collect
<1>3. mark'[s] = Reported(s) BY <1>1, <1>2 DEF Collect
<1>4. NewGrowth(s) = mark[s].units + 1..Count(s) BY <1>1 DEF NewGrowth
<1>5. Count(s) \in Nat /\ mark[s].units \in Nat
  <2>1. MaxRecords \in Nat BY DeliveryAssumption
  <2>2. mark[s] \in [units: 0..MaxRecords, emitted: 0..MaxRecords]
    BY DEF TypeInv, TypeOK
  <2> QED BY <2>1, <2>2, RecordType
<1>6. mark[s].units < Count(s) BY <1>1, <1>4, <1>5
<1> QED BY <1>1, <1>3, <1>4, <1>6 DEF Reported

LEMMA GrowthEventsStep ==
    ASSUME NEW S, Unmarked(S), MeterInv(S), [Next]_vars
    PROVE  GrowthEvents(S)'
<1>1. SUFFICES ASSUME NEW e \in AllEvents', e.src \in S \cap Meters
               PROVE  e.units \subseteq 1..mark'[e.src].units /\ e.id[2] <= mark'[e.src].emitted
  BY DEF GrowthEvents
<1>2. TypeInv BY DEF MeterInv
<1>3. CASE e \in AllEvents
  <2>1. e.units \subseteq 1..mark[e.src].units /\ e.id[2] <= mark[e.src].emitted
    BY <1>1, <1>3 DEF MeterInv, GrowthEvents
  <2>2. e \in Event BY <1>2, <1>3, AllEventsType
  <2>3. e.id[2] \in Int /\ e.src \in Sources BY <2>2 DEF Event
  <2>4. /\ mark[e.src].units \in Nat /\ mark[e.src].emitted \in Nat
        /\ mark'[e.src].units \in Nat /\ mark'[e.src].emitted \in Nat
        /\ mark[e.src].units <= mark'[e.src].units
        /\ mark[e.src].emitted <= mark'[e.src].emitted
    BY <1>2, <2>3, MarkGrows
  <2> QED BY <2>1, <2>3, <2>4
<1>4. CASE e \notin AllEvents
  <2>1. StartCycle BY <1>2, <1>4, NothingInvented
  <2>2. PICK polled \in SUBSET Sources, dropped \in SUBSET Sources, saved \in BOOLEAN :
           Collect(polled, dropped, saved)
    BY <2>1 DEF StartCycle
  <2>3. e \in UNION {Collected(s) : s \in polled} BY <1>4, <2>2, OnlyCollected
  <2>4. PICK s \in polled : e \in Collected(s) BY <2>3
  <2>5. e.src = s BY <1>2, <2>4, CollectedForm
  <2>6. /\ e.units = mark[s].units + 1..mark'[s].units
        /\ e.id = <<mark'[s].units, mark'[s].emitted>>
    BY <1>1, <1>2, <2>2, <2>4, <2>5, ScannedGrowth
  <2>7. mark[s].units \in Nat /\ mark'[s].units \in Nat /\ mark'[s].emitted \in Nat
    BY <1>2, MarkGrows
  <2> QED BY <2>5, <2>6, <2>7
<1> QED BY <1>3, <1>4

(* A scan's event and any event there was before it.                       *)
LEMMA NewApart ==
    ASSUME NEW S, Unmarked(S), MeterInv(S),
           NEW polled \in SUBSET Sources, NEW dropped \in SUBSET Sources,
           NEW saved \in BOOLEAN, Collect(polled, dropped, saved),
           NEW s \in polled, s \in S, NEW e \in Collected(s),
           NEW f \in AllEvents \cup Collected(s)
    PROVE  Apart(e, f) /\ Apart(f, e)
<1>1. TypeInv /\ s \in Sources /\ e.src = s BY CollectedForm DEF MeterInv
<1>2. SUFFICES ASSUME f.src = s
               PROVE  e = f \/ (e.id # f.id /\ e.units \cap f.units = {})
  BY <1>1 DEF Apart
<1>3. CASE s \notin Meters
  <2>1. PICK n \in 1..Count(s) : e = SingleRecord(s, n) BY <1>1, <1>3, CollectedForm
  <2>2. \E m \in 1..Count(s) : f = SingleRecord(s, m)
    <3>1. CASE f \in AllEvents
      <4>1. \E m \in 1..Count(f.src) : f = SingleRecord(f.src, m)
        BY <1>2, <1>3, <3>1 DEF MeterInv, RecordEvents
      <4> QED BY <1>2, <4>1
    <3>2. CASE f \in Collected(s) BY <1>1, <1>3, <3>2, CollectedForm
    <3> QED BY <3>1, <3>2
  <2>3. PICK m \in 1..Count(s) : f = SingleRecord(s, m) BY <2>2
  <2>4. CASE n = m BY <2>1, <2>3, <2>4
  <2>5. CASE n # m BY <2>1, <2>3, <2>5 DEF SingleRecord
  <2> QED BY <2>4, <2>5
<1>4. CASE s \in Meters
  <2>1. /\ e.units = mark[s].units + 1..mark'[s].units
        /\ e.id = <<mark'[s].units, mark'[s].emitted>>
        /\ mark'[s].emitted = mark[s].emitted + 1
    BY <1>1, <1>4, ScannedGrowth
  <2>2. CASE f \in AllEvents
    <3>1. f.units \subseteq 1..mark[s].units /\ f.id[2] <= mark[s].emitted
      BY <1>2, <1>4, <2>2 DEF MeterInv, GrowthEvents
    <3>2. mark[s].units \in Nat /\ mark[s].emitted \in Nat
      BY <1>1, DeliveryAssumption DEF TypeInv, TypeOK
    <3>3. e.units \cap f.units = {} BY <2>1, <3>1, <3>2
    <3>4. e.id[2] = mark[s].emitted + 1 BY <2>1
    <3>5. e.id # f.id BY <3>1, <3>2, <3>4
    <3> QED BY <3>3, <3>5
  <2>3. CASE f \in Collected(s) BY <1>1, <1>4, <2>3, CollectedForm
  <2> QED BY <2>2, <2>3
<1> QED BY <1>3, <1>4

LEMMA EventsApartStep ==
    ASSUME NEW S, Unmarked(S), MeterInv(S), [Next]_vars
    PROVE  EventsApart(S)'
<1>1. TypeInv BY DEF MeterInv
<1>2. CASE ~StartCycle
  <2>1. AllEvents' \subseteq AllEvents BY <1>1, <1>2, NothingInvented
  <2> QED BY <2>1 DEF MeterInv, EventsApart, Apart
<1>3. CASE StartCycle
  <2>1. PICK polled \in SUBSET Sources, dropped \in SUBSET Sources, saved \in BOOLEAN :
           Collect(polled, dropped, saved)
    BY <1>3 DEF StartCycle
  <2>2. AllEvents' \subseteq AllEvents \cup UNION {Collected(s) : s \in polled}
    BY <2>1, OnlyCollected
  <2>3. ASSUME NEW x \in AllEvents' \ AllEvents, NEW y \in AllEvents',
               x.src \in S, x.src = y.src
        PROVE  Apart(x, y) /\ Apart(y, x)
    <3>1. PICK s \in polled : x \in Collected(s) BY <2>2, <2>3
    <3>2. x.src = s BY <1>1, <3>1, CollectedForm
    <3>3. CASE y \in AllEvents BY <2>1, <2>3, <3>1, <3>2, <3>3, NewApart
    <3>4. CASE y \notin AllEvents
      <4>1. PICK r \in polled : y \in Collected(r) BY <2>2, <3>4
      <4>2. y.src = r BY <1>1, <4>1, CollectedForm
      <4> QED BY <2>1, <2>3, <3>1, <3>2, <4>1, <4>2, NewApart
    <3> QED BY <3>3, <3>4
  <2>4. ASSUME NEW e \in AllEvents', NEW f \in AllEvents', e.src \in S PROVE Apart(e, f)
    <3>1. CASE e.src # f.src BY <3>1 DEF Apart
    <3>2. CASE e \in AllEvents /\ f \in AllEvents BY <2>4, <3>2 DEF MeterInv, EventsApart
    <3>3. CASE e.src = f.src /\ ~(e \in AllEvents /\ f \in AllEvents) BY <2>3, <2>4, <3>3
    <3> QED BY <3>1, <3>2, <3>3
  <2> QED BY <2>4 DEF EventsApart, Apart
<1> QED BY <1>2, <1>3

(* Storing a payload counts each unit it brings once and no unit again.    *)
LEMMA IngestAccounted ==
    ASSUME NEW S, Unmarked(S), MeterInv(S),
           NEW payload \in SUBSET Event, payload \subseteq AllEvents, Ingest(payload)
    PROVE  Accounted(S)'
<1> SUFFICES ASSUME NEW s \in S, NEW u \in Units
             PROVE  counts'[s][u] = IF Counted(s, u)' THEN 1 ELSE 0
  BY DEF Accounted
<1> DEFINE bringing == {e \in Fresh(payload) : e.src = s /\ u \in e.units}
<1>1. counts'[s][u] = counts[s][u] + Cardinality(bringing) BY DEF Ingest, Unmarked
<1>2. counts[s][u] = IF Counted(s, u) THEN 1 ELSE 0 BY DEF MeterInv, Accounted
<1>3. Fresh(payload) \subseteq AllEvents /\ stored \subseteq AllEvents
  BY DEF Fresh, AllEvents
<1>4. Counted(s, u)' <=> Counted(s, u) \/ bringing # {}
  BY DEF Counted, Holds, Ingest
<1>5. \A e, f \in bringing : e = f
  BY <1>3 DEF MeterInv, EventsApart, Apart
<1>6. Counted(s, u) => bringing = {}
  <2> SUFFICES ASSUME Counted(s, u), NEW e \in bringing PROVE FALSE OBVIOUS
  <2>1. PICK f \in stored : f.src = s /\ u \in f.units BY DEF Counted, Holds
  <2>2. e = f BY <1>3, <2>1 DEF MeterInv, EventsApart, Apart
  <2> QED BY <2>1, <2>2 DEF Fresh, SameEvent
<1>7. CASE bringing = {} BY <1>1, <1>2, <1>4, <1>7, FS_EmptySet
<1>8. CASE bringing # {}
  <2>1. PICK e \in bringing : TRUE BY <1>8
  <2>2. bringing = {e} BY <1>5, <2>1
  <2>3. Cardinality(bringing) = 1 BY <2>2, FS_Singleton
  <2> HIDE DEF bringing
  <2> QED BY <1>1, <1>2, <1>4, <1>6, <1>8, <2>3
<1> QED BY <1>7, <1>8

LEMMA AccountedStep ==
    ASSUME NEW S, Unmarked(S), MeterInv(S), [Next]_vars
    PROVE  Accounted(S)'
<1>1. TypeInv BY DEF MeterInv
<1>2. ASSUME UNCHANGED server PROVE Accounted(S)'
  BY <1>2 DEF MeterInv, Accounted, Counted, Holds, server
<1>3. ASSUME Posting, Ingest(Payload) PROVE Accounted(S)'
  BY <1>1, <1>3, PayloadType, PayloadKnown, IngestAccounted
<1>4. ASSUME LateArrival PROVE Accounted(S)'
  <2>1. PICK payload \in inFlight : Ingest(payload) BY <1>4 DEF LateArrival
  <2>2. payload \subseteq AllEvents /\ payload \in SUBSET Event
    BY <1>1 DEF AllEvents, Flying, TypeInv, TypeOK
  <2> QED BY <2>1, <2>2, IngestAccounted
<1>5. \/ UNCHANGED server \/ (Posting /\ Ingest(Payload)) \/ LateArrival
  <2>1. CASE \E s \in Sources : Record(s) BY <2>1 DEF Record
  <2>2. CASE StartCycle BY <2>2 DEF StartCycle, Collect
  <2>3. CASE CycleStep
    BY <2>3 DEF CycleStep, PublishQueue, Answered, Retry, GiveUp, Unanswered, CommitCursors,
                AdvanceWatermark, SaveToQueue
  <2>4. CASE InterruptFlush BY <2>4 DEF InterruptFlush
  <2>5. CASE Crash BY <2>5 DEF Crash
  <2>6. CASE UNCHANGED vars BY <2>6 DEF vars
  <2> QED BY <2>1, <2>2, <2>3, <2>4, <2>5, <2>6 DEF Next
<1> QED BY <1>2, <1>3, <1>4, <1>5

LEMMA MeterStep ==
    ASSUME NEW S, Unmarked(S)
    PROVE  MeterInv(S) /\ [Next]_vars => MeterInv(S)'
<1> SUFFICES ASSUME MeterInv(S), [Next]_vars PROVE MeterInv(S)' OBVIOUS
<1>1. TypeInv /\ RecordEvents BY DEF MeterInv
<1>2. TypeInv' /\ RecordEvents' BY <1>1, TypeStep, RecordEventsStep
<1>3. GrowthEvents(S)' /\ EventsApart(S)' /\ Accounted(S)'
  BY GrowthEventsStep, EventsApartStep, AccountedStep
<1> QED BY <1>2, <1>3 DEF MeterInv

(* The units of the sources whose marks are saved are counted once.        *)
LEMMA CountedOnceIn ==
    ASSUME NEW S, Unmarked(S)
    PROVE  Spec => [](\A s \in S, u \in Units : counts[s][u] <= 1)
<1>1. Init => MeterInv(S) BY MeterInit
<1>2. MeterInv(S) /\ [Next]_vars => MeterInv(S)' BY MeterStep
<1>3. MeterInv(S) => \A s \in S, u \in Units : counts[s][u] <= 1 BY DEF MeterInv, Accounted
<1> QED BY <1>1, <1>2, <1>3, PTL DEF Spec

(* The usage of logs and ledgers is counted once in every state: neither a *)
(* retry, a replay of the queue, a crash, a late request nor a mark that   *)
(* cannot be written counts a unit of it again.                            *)
THEOREM RecordsCountedOnce ==
    Spec => [](\A s \in Logs \cup Ledgers, u \in Units : counts[s][u] <= 1)
<1>1. Unmarked(Logs \cup Ledgers) BY DeliveryAssumption DEF Unmarked, Sources
<1> QED BY <1>1, CountedOnceIn

(* CountedOnce, which says it of meters too, holds in every state if no    *)
(* write of a mark fails.                                                  *)
THEOREM NoUnitCountedTwice ==
    ASSUME MaxUnsaved = 0
    PROVE  Spec => []CountedOnce
<1>1. Unmarked(Sources) BY DEF Unmarked
<1> QED BY <1>1, CountedOnceIn DEF CountedOnce

-----------------------------------------------------------------------------
(* The refinement of UsageLedger                                           *)

(* Events hold only what their source recorded.                            *)
LEMMA EventsWereUsed ==
    ASSUME MeterInv(Sources), NEW e \in AllEvents
    PROVE  e.src \in Sources /\ e.units \subseteq 1..Count(e.src)
<1>1. TypeInv BY DEF MeterInv
<1>2. e.src \in Sources
  <2>1. e \in Event BY <1>1, AllEventsType
  <2> QED BY <2>1 DEF Event
<1>3. Count(e.src) \in Nat BY <1>1, <1>2, RecordType, DeliveryAssumption
<1>4. mark[e.src].units \in Nat /\ mark[e.src].units <= Count(e.src)
  <2>1. mark \in [Sources -> [units: 0..MaxRecords, emitted: 0..MaxRecords]]
    BY <1>1 DEF TypeInv, TypeOK
  <2>2. mark[e.src].units <= Count(e.src) BY <1>1, <1>2 DEF TypeInv, PositionsBehind
  <2> QED BY <1>2, <2>1, <2>2, DeliveryAssumption
<1>5. CASE e.src \in Meters
  <2>1. e.units \subseteq 1..mark[e.src].units BY <1>2, <1>5 DEF MeterInv, GrowthEvents
  <2> QED BY <1>2, <1>3, <1>4, <2>1
<1>6. CASE e.src \notin Meters
  <2>1. \E n \in 1..Count(e.src) : e = SingleRecord(e.src, n)
    BY <1>6 DEF MeterInv, RecordEvents
  <2> QED BY <1>2, <2>1 DEF SingleRecord
<1> QED BY <1>5, <1>6

(* No step stores an event there was not before it.                        *)
LEMMA StoredBefore ==
    ASSUME TypeInv, [Next]_vars
    PROVE  stored' \subseteq AllEvents
<1>1. CASE StartCycle BY <1>1 DEF StartCycle, Collect, server, AllEvents
<1>2. CASE ~StartCycle
  <2>1. AllEvents' \subseteq AllEvents BY <1>2, NothingInvented
  <2>2. stored' \subseteq AllEvents' BY DEF AllEvents
  <2> QED BY <2>1, <2>2
<1> QED BY <1>1, <1>2

(* A step that changes the totals counts a group of used, uncounted units. *)
LEMMA CountsAGroup ==
    ASSUME MeterInv(Sources), MeterInv(Sources)', [Next]_vars, UNCHANGED records
    PROVE  Ledger!Count
<1> DEFINE group == [s \in Sources |-> {u \in Units : Counted(s, u)' /\ ~Counted(s, u)}]
<1>1. ASSUME NEW s \in Sources, NEW u \in Units
      PROVE  /\ counts[s][u] = IF Counted(s, u) THEN 1 ELSE 0
             /\ counts'[s][u] = IF Counted(s, u)' THEN 1 ELSE 0
             /\ Counted(s, u) => Counted(s, u)'
             /\ Counted(s, u)' => u <= Count(s)
  <2>1. counts[s][u] = IF Counted(s, u) THEN 1 ELSE 0 BY DEF MeterInv, Accounted
  <2>2. counts'[s][u] = IF Counted(s, u)' THEN 1 ELSE 0 BY DEF MeterInv, Accounted
  <2>3. Counted(s, u) => Counted(s, u)' BY StoredGrows DEF Counted, Holds
  <2>4. Counted(s, u)' => u <= Count(s)
    <3> SUFFICES ASSUME Counted(s, u)' PROVE u <= Count(s) OBVIOUS
    <3>1. PICK e \in stored' : e.src = s /\ u \in e.units BY DEF Counted, Holds
    <3>2. e \in AllEvents BY <3>1, StoredBefore DEF MeterInv
    <3>3. u \in 1..Count(s) BY <3>1, <3>2, EventsWereUsed
    <3> QED BY <3>3
  <2> QED BY <2>1, <2>2, <2>3, <2>4
<1>2. group \in [Sources -> SUBSET Units] OBVIOUS
<1>3. ASSUME NEW s \in Sources PROVE group[s] \subseteq Ledger!Uncounted(s)
  <2>1. Count(s) \in Nat /\ MaxRecords \in Nat BY RecordType, DeliveryAssumption DEF MeterInv
  <2> QED BY <1>1, <2>1 DEF Ledger!Uncounted, Units
<1>4. counts' = [s \in Sources |-> [u \in Units |->
                   IF u \in group[s] THEN 1 ELSE counts[s][u]]]
  <2>1. counts' \in [Sources -> [Units -> Nat]] BY DEF MeterInv, TypeInv, TypeOK
  <2>2. \A s \in Sources, u \in Units :
           counts'[s][u] = IF u \in group[s] THEN 1 ELSE counts[s][u]
    BY <1>1
  <2> HIDE DEF group
  <2> QED BY <2>1, <2>2
<1>5. [s \in Sources |-> Count(s)]' = [s \in Sources |-> Count(s)] BY DEF Count
<1> HIDE DEF group
<1> QED BY <1>2, <1>3, <1>4, <1>5 DEF Ledger!Count, Ledger!Units, Units

LEMMA LedgerStep ==
    ASSUME MeterInv(Sources), MeterInv(Sources)', [Next]_vars
    PROVE  [Ledger!LedgerNext]_Ledger!ledgerVars
<1>1. CASE UNCHANGED records BY <1>1, CountsAGroup DEF Ledger!LedgerNext
<1>2. CASE \E s \in Sources : Record(s)
  <2>1. PICK s \in Sources : Record(s) BY <1>2
  <2>2. TypeInv BY DEF MeterInv
  <2>3. /\ Count(s)' = Count(s) + 1 /\ Count(s) < MaxRecords
        /\ \A r \in Sources \ {s} : Count(r)' = Count(r)
    BY <2>1, <2>2, RecordStep
  <2>4. [r \in Sources |-> Count(r)]' =
           [[r \in Sources |-> Count(r)] EXCEPT ![s] = @ + 1]
    BY <2>3
  <2>5. counts' = counts BY <2>1 DEF Record, server
  <2>6. Ledger!Use(s) BY <2>3, <2>4, <2>5 DEF Ledger!Use
  <2> QED BY <2>6 DEF Ledger!LedgerNext
<1>3. UNCHANGED records \/ \E r \in Sources : Record(r)
  BY DEF Next, vars, StartCycle, Collect, CycleStep, PublishQueue, Answered, Retry, GiveUp,
         CommitCursors, AdvanceWatermark, SaveToQueue, InterruptFlush, LateArrival, Crash
<1> QED BY <1>1, <1>2, <1>3

(* ImplementsLedger: if no write of a mark fails, or there is no meter,    *)
(* every behaviour of the sidecar, the network and the server is one of    *)
(* UsageLedger.                                                            *)
THEOREM RefinesLedger ==
    ASSUME MaxUnsaved = 0 \/ Meters = {}
    PROVE  Spec => ImplementsLedger
<1> DEFINE Inv == MeterInv(Sources)
<1>1. Init => Inv /\ Ledger!LedgerInit
  <2> SUFFICES ASSUME Init PROVE Inv /\ Ledger!LedgerInit OBVIOUS
  <2>1. Unmarked(Sources) BY DEF Unmarked
  <2>2. \A s \in Sources : Count(s) = 0 BY DEF Init, Count
  <2>3. Ledger!LedgerInit BY <2>2 DEF Init, Ledger!LedgerInit, Ledger!Units, Units
  <2> QED BY <2>1, <2>3, MeterInit
<1>2. Inv /\ [Next]_vars => Inv'
  <2>1. Unmarked(Sources) BY DEF Unmarked
  <2> QED BY <2>1, MeterStep
<1>3. Inv /\ Inv' /\ [Next]_vars => [Ledger!LedgerNext]_Ledger!ledgerVars BY LedgerStep
<1> HIDE DEF Inv
<1> QED BY <1>1, <1>2, <1>3, PTL DEF Spec, ImplementsLedger, Ledger!LedgerSafety

-----------------------------------------------------------------------------
(* The offline queue                                                       *)

AllStored(payload) == \A e \in payload : \E f \in stored : SameEvent(e, f)

(* A line the flush is done with is retained or stored.                    *)
FlushKeeps ==
    phase = "flush" =>
        \A i \in 1..replayed :
           (\E j \in 1..Len(retained) : retained[j] = queue[i]) \/ AllStored(queue[i])

QueueInv == TypeInv /\ FlushKeeps

LEMMA IngestStores ==
    ASSUME NEW payload, Ingest(payload), NEW e \in payload
    PROVE  \E f \in stored' : SameEvent(e, f)
<1>1. CASE e \in Fresh(payload) BY <1>1 DEF Ingest, SameEvent
<1>2. CASE e \notin Fresh(payload) BY <1>2 DEF Fresh, Ingest
<1> QED BY <1>1, <1>2

LEMMA StoredStays ==
    ASSUME [Next]_vars, NEW payload, AllStored(payload)
    PROVE  \A e \in payload : \E f \in stored' : SameEvent(e, f)
BY StoredGrows DEF AllStored

(* One line further.                                                       *)
LEMMA NextLineKeeps ==
    ASSUME QueueInv, [Next]_vars, phase = "flush", Posting, NEW keep, NextLine(keep),
           UNCHANGED queue, ~keep => Ingest(Payload)
    PROVE  FlushKeeps'
<1>1. /\ replayed \in Nat /\ Len(retained) \in Nat /\ replayed + 1 \in 1..Len(queue)
      /\ retained \in Seq(SUBSET Event)
  BY DEF QueueInv, TypeInv, TypeOK, Posting
<1>2. Payload = queue[replayed + 1] /\ Payload \in SUBSET Event
  BY PayloadType DEF Payload, QueueInv
<1>3. replayed' = replayed + 1 BY DEF NextLine
<1> SUFFICES ASSUME NEW i \in 1..replayed'
             PROVE  \/ \E j \in 1..Len(retained') : retained'[j] = queue'[i]
                    \/ \A e \in queue'[i] : \E f \in stored' : SameEvent(e, f)
  BY DEF FlushKeeps, AllStored
<1>4. CASE i = replayed + 1
  <2>1. CASE keep
    <3>1. retained' = Append(retained, Payload) BY <2>1 DEF NextLine
    <3>2. Len(retained') = Len(retained) + 1 /\ retained'[Len(retained) + 1] = Payload
      BY <1>1, <1>2, <3>1, AppendProperties
    <3>3. Len(retained) + 1 \in 1..Len(retained') BY <1>1, <3>2
    <3> QED BY <1>2, <1>4, <3>2, <3>3
  <2>2. CASE ~keep BY <1>2, <1>4, <2>2, IngestStores
  <2> QED BY <2>1, <2>2
<1>5. CASE i # replayed + 1
  <2>1. i \in 1..replayed BY <1>1, <1>3, <1>5
  <2>2. CASE AllStored(queue[i]) BY <2>2, StoredStays
  <2>3. CASE \E j \in 1..Len(retained) : retained[j] = queue[i]
    <3>1. PICK j \in 1..Len(retained) : retained[j] = queue[i] BY <2>3
    <3>2. j \in 1..Len(retained') /\ retained'[j] = retained[j]
      <4>1. CASE keep
        <5>1. retained' = Append(retained, Payload) BY <4>1 DEF NextLine
        <5> QED BY <1>1, <1>2, <5>1, AppendProperties
      <4>2. CASE ~keep BY <4>2 DEF NextLine
      <4> QED BY <4>1, <4>2
    <3> QED BY <3>1, <3>2
  <2> QED BY <2>1, <2>2, <2>3 DEF QueueInv, FlushKeeps
<1> QED BY <1>4, <1>5

LEMMA FlushKeepsStep ==
    ASSUME QueueInv, [Next]_vars
    PROVE  FlushKeeps'
<1>1. ASSUME UNCHANGED <<phase, replayed, retained, queue>> PROVE FlushKeeps'
  <2> SUFFICES ASSUME phase = "flush", NEW i \in 1..replayed
               PROVE  \/ \E j \in 1..Len(retained) : retained[j] = queue[i]
                      \/ \A e \in queue[i] : \E f \in stored' : SameEvent(e, f)
    BY <1>1 DEF FlushKeeps, AllStored
  <2>1. CASE AllStored(queue[i]) BY <2>1, StoredStays
  <2> QED BY <2>1 DEF QueueInv, FlushKeeps
<1>2. ASSUME phase' # "flush" PROVE FlushKeeps' BY <1>2 DEF FlushKeeps
<1>3. CASE \E s \in Sources : Record(s) BY <1>1, <1>3 DEF Record, cycle
<1>4. CASE StartCycle
  <2>1. replayed' = 0
    BY <1>4 DEF StartCycle, Collect, QueueInv, TypeInv, CycleClean
  <2> QED BY <2>1 DEF FlushKeeps
<1>5. CASE PublishQueue BY <1>2, <1>5 DEF PublishQueue
<1>6. CASE InterruptFlush
  <2>1. retained' = retained \o Rest /\ replayed' = Len(queue) /\ queue' = queue
        /\ phase = "flush"
    BY <1>6 DEF InterruptFlush, Rest
  <2>2. /\ Len(retained \o Rest) \in Nat
        /\ \A i \in 1..Len(retained) : (retained \o Rest)[i] = retained[i]
        /\ Len(retained) <= Len(retained \o Rest)
        /\ \A i \in replayed + 1..Len(queue) :
             \E j \in 1..Len(retained \o Rest) : (retained \o Rest)[j] = queue[i]
    BY <2>1, RestOfQueue DEF QueueInv
  <2>3. replayed \in Nat /\ Len(queue) \in Nat /\ Len(retained) \in Nat
    BY DEF QueueInv, TypeInv, TypeOK
  <2> SUFFICES ASSUME NEW i \in 1..Len(queue)
               PROVE  \/ \E j \in 1..Len(retained') : retained'[j] = queue[i]
                      \/ \A e \in queue[i] : \E f \in stored' : SameEvent(e, f)
    BY <2>1 DEF FlushKeeps, AllStored
  <2>4. CASE i > replayed
    <3>1. i \in replayed + 1..Len(queue) BY <2>3, <2>4
    <3> QED BY <2>1, <2>2, <3>1
  <2>5. CASE ~(i > replayed)
    <3>1. i \in 1..replayed BY <2>3, <2>5
    <3>2. CASE AllStored(queue[i]) BY <3>2, StoredStays
    <3>3. CASE \E j \in 1..Len(retained) : retained[j] = queue[i]
      <4>1. PICK j \in 1..Len(retained) : retained[j] = queue[i] BY <3>3
      <4>2. j \in 1..Len(retained') /\ retained'[j] = queue[i] BY <2>1, <2>2, <2>3, <4>1
      <4> QED BY <4>2
    <3> QED BY <2>1, <3>1, <3>2, <3>3 DEF QueueInv, FlushKeeps
  <2> QED BY <2>4, <2>5
<1>7. ASSUME NEW error \in BOOLEAN, Answered(error) PROVE FlushKeeps'
  <2>1. CASE phase = "flush"
    <3>1. /\ Posting /\ NextLine(error) /\ UNCHANGED queue /\ (~error => Ingest(Payload))
      BY <1>7, <2>1 DEF Answered
    <3> QED BY <2>1, <3>1, NextLineKeeps
  <2>2. CASE phase # "flush" BY <1>2, <1>7, <2>2 DEF Answered, Posting, NextBatch
  <2> QED BY <2>1, <2>2
<1>8. CASE Retry BY <1>1, <1>8 DEF Retry
<1>9. CASE GiveUp
  <2>1. CASE phase = "flush"
    <3>1. Posting /\ NextLine(TRUE) /\ UNCHANGED queue
      BY <1>9, <2>1 DEF GiveUp, Unanswered
    <3> QED BY <2>1, <3>1, NextLineKeeps
  <2>2. CASE phase # "flush" BY <1>2, <1>9, <2>2 DEF GiveUp
  <2> QED BY <2>1, <2>2
<1>10. CASE LateArrival BY <1>1, <1>10 DEF LateArrival, cycle
<1>11. CASE CommitCursors BY <1>2, <1>11 DEF CommitCursors, CycleOver
<1>12. CASE AdvanceWatermark BY <1>2, <1>12 DEF AdvanceWatermark, CycleOver
<1>13. CASE SaveToQueue BY <1>2, <1>13 DEF SaveToQueue, CycleOver
<1>14. CASE Crash BY <1>2, <1>14 DEF Crash, CycleOver
<1>15. CASE UNCHANGED vars BY <1>1, <1>15 DEF vars, cycle
<1> QED BY <1>3, <1>4, <1>5, <1>6, <1>7, <1>8, <1>9, <1>10, <1>11, <1>12, <1>13, <1>14, <1>15
        DEF Next, CycleStep

LEMMA QueueInvariance == Spec => []QueueInv
<1>1. Init => QueueInv BY TypeInit DEF QueueInv, Init, FlushKeeps
<1>2. QueueInv /\ [Next]_vars => QueueInv' BY TypeStep, FlushKeepsStep DEF QueueInv
<1> QED BY <1>1, <1>2, PTL DEF Spec

(* What may happen to the lines of the queue in one step.                  *)
LeavesStored ==
    \A i \in 1..Len(queue) :
       (\A j \in 1..Len(queue') : queue'[j] # queue[i]) =>
          \A e \in queue[i] : \E f \in stored' : SameEvent(e, f)

LEMMA LeavesStoredStep ==
    ASSUME QueueInv, [Next]_vars
    PROVE  LeavesStored
<1>1. SUFFICES ASSUME NEW i \in 1..Len(queue), \A j \in 1..Len(queue') : queue'[j] # queue[i]
               PROVE  \A e \in queue[i] : \E f \in stored' : SameEvent(e, f)
  BY DEF LeavesStored
<1>2. queue' # queue BY <1>1
<1>3. PublishQueue \/ SaveToQueue
  BY <1>2 DEF Next, vars, Record, StartCycle, Collect, CycleStep, Answered, Retry, GiveUp,
              CommitCursors, AdvanceWatermark, InterruptFlush, LateArrival, Crash
<1>4. CASE PublishQueue
  <2>1. queue' = retained /\ replayed = Len(queue) /\ phase = "flush"
    BY <1>4 DEF PublishQueue
  <2>2. AllStored(queue[i]) BY <1>1, <2>1 DEF QueueInv, FlushKeeps
  <2> QED BY <2>2, StoredStays
<1>5. CASE SaveToQueue
  <2>1. queue' = Append(queue, sending) BY <1>2, <1>5 DEF SaveToQueue
  <2>2. queue \in Seq(SUBSET Event) /\ Len(queue) \in Nat /\ sending \in SUBSET Event
    BY DEF QueueInv, TypeInv, TypeOK
  <2>3. i \in 1..Len(queue') /\ queue'[i] = queue[i] BY <2>1, <2>2, AppendProperties
  <2> QED BY <1>1, <2>3
<1> QED BY <1>3, <1>4, <1>5

(* LeavesQueueWhenStored holds of every step: a payload disappears from    *)
(* the offline queue only when the server holds each of its events.        *)
THEOREM QueueKeepsTheUnstored == Spec => LeavesQueueWhenStored
<1>1. QueueInv /\ [Next]_vars => [LeavesStored]_vars BY LeavesStoredStep
<1> QED BY <1>1, QueueInvariance, PTL DEF Spec, LeavesQueueWhenStored, LeavesStored

-----------------------------------------------------------------------------
(* What a successful cycle has stored                                      *)

(* A meter's event holds the growth above the mark as it was when the      *)
(* event was made, and its id says which mark that was.                    *)
EmissionsNamed ==
    \A e \in AllEvents : e.src \in Meters =>
        /\ e.id[2] <= mark[e.src].emitted + 1
        /\ e.id[2] = mark[e.src].emitted + 1 => e.units = mark[e.src].units + 1..e.id[1]

(* So events of one id hold the same usage, whether the mark was saved or  *)
(* not.                                                                    *)
IdsTell == \A e, f \in AllEvents : SameEvent(e, f) => e.units = f.units

(* As long as no batch was rolled back, the events sent are stored.        *)
PushStored ==
    /\ phase = "push" /\ ~eventsFailed => AllStored(events \ (unsent \cup sending))
    /\ phase = "cursors" /\ ~eventsFailed => AllStored(events)
    /\ phase = "watermark" => AllStored(events)

PushInv == TypeInv /\ RecordEvents /\ EmissionsNamed /\ IdsTell /\ PushStored

LEMMA PushInit == Init => PushInv
<1> SUFFICES ASSUME Init PROVE PushInv OBVIOUS
<1>1. Lines(queue) = {} /\ Lines(retained) = {} BY DEF Init, Lines
<1>2. Flying(inFlight) = {} BY DEF Init, Flying
<1>3. AllEvents = {} BY <1>1, <1>2 DEF Init, AllEvents
<1>4. RecordEvents /\ EmissionsNamed /\ IdsTell BY <1>3 DEF RecordEvents, EmissionsNamed, IdsTell
<1>5. PushStored BY DEF Init, PushStored
<1> QED BY <1>4, <1>5, TypeInit DEF PushInv

(* The mark is saved with the growth it reports, or stays as it was.       *)
LEMMA MarkMoves ==
    ASSUME [Next]_vars, TypeInv, NEW s \in Sources
    PROVE  mark'[s] = mark[s] \/ mark'[s] = Reported(s)
<1>1. mark' = mark \/ StartCycle
  BY DEF Next, vars, Record, position, CycleStep, PublishQueue, Answered, Retry, GiveUp,
         CommitCursors, AdvanceWatermark, SaveToQueue, InterruptFlush, LateArrival, Crash
<1> QED BY <1>1 DEF StartCycle, Collect

LEMMA EmissionsNamedStep ==
    ASSUME PushInv, [Next]_vars
    PROVE  EmissionsNamed'
<1>1. SUFFICES ASSUME NEW e \in AllEvents', e.src \in Meters
               PROVE  /\ e.id[2] <= mark'[e.src].emitted + 1
                      /\ e.id[2] = mark'[e.src].emitted + 1 =>
                            e.units = mark'[e.src].units + 1..e.id[1]
  BY DEF EmissionsNamed
<1> DEFINE s == e.src
<1>2. TypeInv /\ TypeInv' /\ s \in Sources BY <1>1, TypeStep DEF PushInv, Sources
<1>3. mark[s].emitted \in Nat /\ mark[s].units \in Nat /\ e.id[2] \in Nat
  <2>1. mark[s] \in [units: 0..MaxRecords, emitted: 0..MaxRecords]
    BY <1>2 DEF TypeInv, TypeOK
  <2>2. (AllEvents \subseteq Event)' BY <1>2, AllEventsType, PTL
  <2>3. e \in Event BY <2>2 DEF Event, Units, Times
  <2> QED BY <2>1, <2>3, DeliveryAssumption DEF Event
<1>4. mark'[s] = mark[s] \/ mark'[s].emitted = mark[s].emitted + 1
  <2>1. mark'[s] = mark[s] \/ mark'[s] = Reported(s) BY <1>2, MarkMoves
  <2> QED BY <2>1 DEF Reported
<1>5. SUFFICES /\ e.id[2] <= mark[s].emitted + 1
               /\ e.id[2] = mark[s].emitted + 1 => e.units = mark[s].units + 1..e.id[1]
  BY <1>3, <1>4
<1>6. CASE e \in AllEvents BY <1>1, <1>6 DEF PushInv, EmissionsNamed
<1>7. CASE e \notin AllEvents
  <2>1. StartCycle BY <1>2, <1>7, NothingInvented
  <2>2. PICK polled \in SUBSET Sources, dropped \in SUBSET Sources, saved \in BOOLEAN :
           Collect(polled, dropped, saved)
    BY <2>1 DEF StartCycle
  <2>3. e \in UNION {Collected(r) : r \in polled} BY <1>7, <2>2, OnlyCollected
  <2>4. PICK r \in polled : e \in Collected(r) BY <2>3
  <2>5. r = s BY <1>2, <2>4, CollectedForm
  <2>6. /\ e.id = <<Count(s), mark[s].emitted + 1>> /\ e.units = NewGrowth(s)
        /\ NewGrowth(s) # {}
    BY <1>1, <1>2, <2>4, <2>5, CollectedForm
  <2> QED BY <1>3, <2>6 DEF NewGrowth
<1> QED BY <1>6, <1>7

LEMMA IdsTellStep ==
    ASSUME PushInv, [Next]_vars
    PROVE  IdsTell'
<1>1. TypeInv /\ RecordEvents' BY RecordEventsStep DEF PushInv
<1>2. SUFFICES ASSUME NEW e \in AllEvents', NEW f \in AllEvents', SameEvent(e, f)
               PROVE  e.units = f.units
  BY DEF IdsTell, SameEvent
<1>3. e.src = f.src /\ e.id = f.id BY <1>2 DEF SameEvent
<1>4. CASE e.src \notin Meters
  <2>1. PICK n \in (1..Count(e.src))' : e = SingleRecord(e.src, n)'
    BY <1>1, <1>4 DEF RecordEvents
  <2>2. PICK m \in (1..Count(e.src))' : f = SingleRecord(e.src, m)'
    BY <1>1, <1>3, <1>4 DEF RecordEvents
  <2> QED BY <1>3, <2>1, <2>2 DEF SingleRecord
<1>5. ASSUME e.src \in Meters,
             NEW x \in AllEvents' \ AllEvents, NEW y \in AllEvents', SameEvent(x, y),
             x.src = e.src
      PROVE  x.units = y.units
  <2> DEFINE s == e.src
  <2>1. StartCycle BY <1>1, <1>5, NothingInvented
  <2>2. PICK polled \in SUBSET Sources, dropped \in SUBSET Sources, saved \in BOOLEAN :
           Collect(polled, dropped, saved)
    BY <2>1 DEF StartCycle
  <2>3. AllEvents' \subseteq AllEvents \cup UNION {Collected(r) : r \in polled}
    BY <2>2, OnlyCollected
  <2>4. PICK r \in polled : x \in Collected(r) BY <1>5, <2>3
  <2>5. r = s /\ s \in Sources BY <1>1, <1>5, <2>4, CollectedForm
  <2>6. /\ x.id = <<Count(s), mark[s].emitted + 1>> /\ x.units = NewGrowth(s)
        /\ NewGrowth(s) # {}
    BY <1>1, <1>5, <2>4, <2>5, CollectedForm
  <2>7. x.units = mark[s].units + 1..Count(s) BY <2>6 DEF NewGrowth
  <2>8. y.id = x.id /\ y.src = s BY <1>5 DEF SameEvent
  <2>9. CASE y \in AllEvents
    <3>1. y.id[2] = mark[s].emitted + 1 /\ y.id[1] = Count(s) BY <2>6, <2>8
    <3>2. y.units = mark[s].units + 1..Count(s)
      BY <1>5, <2>8, <2>9, <3>1 DEF PushInv, EmissionsNamed
    <3> QED BY <2>7, <3>2
  <2>10. CASE y \notin AllEvents
    <3>1. PICK q \in polled : y \in Collected(q) BY <2>3, <2>10
    <3>2. q = s BY <1>1, <2>8, <3>1, CollectedForm
    <3> QED BY <1>1, <1>5, <2>5, <2>6, <3>1, <3>2, CollectedForm
  <2> QED BY <2>9, <2>10
<1>6. CASE e.src \in Meters /\ e \notin AllEvents BY <1>2, <1>5, <1>6
<1>7. CASE e.src \in Meters /\ f \notin AllEvents
  <2>1. SameEvent(f, e) /\ f.src = e.src BY <1>3 DEF SameEvent
  <2> QED BY <1>5, <1>7, <2>1
<1>8. CASE e \in AllEvents /\ f \in AllEvents BY <1>2, <1>8 DEF PushInv, IdsTell
<1> QED BY <1>4, <1>6, <1>7, <1>8

LEMMA PushStoredAnswered ==
    ASSUME [Next]_vars, PushInv, NEW error \in BOOLEAN, Answered(error)
    PROVE  PushStored'
<1>1. CASE phase = "flush" BY <1>1 DEF Answered, NextLine, PushStored
<1>2. CASE phase = "push"
  <2>1. Payload = sending /\ events' = events /\ NextBatch(error) BY <1>2 DEF Answered, Payload
  <2>2. SUFFICES ASSUME ~eventsFailed', NEW e \in events,
                        phase' = "push" => e \notin unsent' \cup sending'
                 PROVE  \E f \in stored' : SameEvent(e, f)
    BY <1>2, <2>1 DEF PushStored, AllStored, NextBatch
  <2>3. ~error /\ ~eventsFailed BY <2>1, <2>2 DEF NextBatch
  <2>4. Ingest(sending) BY <2>1, <2>3 DEF Answered
  <2>5. e \notin unsent
    <3>1. CASE unsent = {} BY <3>1
    <3>2. CASE unsent # {}
      <4>1. phase' = "push" /\ unsent = unsent' \cup sending'
        BY <1>2, <2>1, <3>2, TakeBatchType DEF NextBatch
      <4> QED BY <2>2, <4>1
    <3> QED BY <3>1, <3>2
  <2>6. CASE e \in sending BY <2>4, <2>6, IngestStores
  <2>7. CASE e \notin sending
    <3>1. AllStored(events \ (unsent \cup sending)) BY <1>2, <2>3 DEF PushInv, PushStored
    <3> QED BY <2>5, <2>7, <3>1, StoredStays
  <2> QED BY <2>6, <2>7
<1> QED BY <1>1, <1>2 DEF Answered, Posting

LEMMA PushStoredSame ==
    ASSUME PushInv, [Next]_vars, UNCHANGED <<phase, events, unsent, sending, eventsFailed>>
    PROVE  PushStored'
<1>1. ASSUME NEW payload, AllStored(payload)
      PROVE  \A e \in payload : \E f \in stored' : SameEvent(e, f)
  BY <1>1, StoredStays
<1> QED BY <1>1 DEF PushInv, PushStored, AllStored

LEMMA PushStep == PushInv /\ [Next]_vars => PushInv'
<1> SUFFICES ASSUME PushInv, [Next]_vars PROVE PushInv' OBVIOUS
<1>1. TypeInv' /\ RecordEvents' BY TypeStep, RecordEventsStep DEF PushInv
<1>2. EmissionsNamed' /\ IdsTell' BY EmissionsNamedStep, IdsTellStep
<1>3. ASSUME UNCHANGED <<phase, events, unsent, sending, eventsFailed>> PROVE PushStored'
  BY <1>3, PushStoredSame
<1>4. ASSUME NEW s \in Sources, Record(s) PROVE PushStored' BY <1>3, <1>4 DEF Record, cycle
<1>5. ASSUME StartCycle PROVE PushStored' BY <1>5 DEF StartCycle, Collect, PushStored
<1>6. ASSUME PublishQueue PROVE PushStored'
  <2>1. events = unsent' \cup sending' /\ events' = events /\ phase' = "push"
    BY <1>6, TakeBatchType DEF PublishQueue
  <2> QED BY <2>1 DEF PushStored, AllStored
<1>7. ASSUME InterruptFlush PROVE PushStored' BY <1>3, <1>7 DEF InterruptFlush
<1>8. ASSUME NEW error \in BOOLEAN, Answered(error) PROVE PushStored'
  BY <1>8, PushStoredAnswered
<1>9. ASSUME Retry PROVE PushStored' BY <1>3, <1>9 DEF Retry
<1>10. ASSUME GiveUp PROVE PushStored'
  <2>1. phase' \in {"flush", "save"} BY <1>10 DEF GiveUp, NextLine
  <2> QED BY <2>1 DEF PushStored
<1>11. ASSUME LateArrival PROVE PushStored' BY <1>3, <1>11 DEF LateArrival, cycle
<1>12. ASSUME CycleOver PROVE PushStored' BY <1>12 DEF CycleOver, PushStored
<1>13. ASSUME phase' = "watermark", events' = events, stored' = stored, AllStored(events)
       PROVE  PushStored'
  BY <1>13 DEF PushStored, AllStored
<1>14. ASSUME CommitCursors PROVE PushStored'
  <2>1. CASE CycleOver BY <1>12, <2>1
  <2>2. CASE ~CycleOver
    <3>1. /\ phase = "cursors" /\ ~eventsFailed
          /\ events' = events /\ phase' = "watermark" /\ stored' = stored
      BY <1>14, <2>2 DEF CommitCursors, server
    <3> QED BY <1>13, <3>1 DEF PushInv, PushStored
  <2> QED BY <2>1, <2>2
<1>15. ASSUME AdvanceWatermark PROVE PushStored'
  <2>1. CASE CycleOver BY <1>12, <2>1
  <2>2. CASE ~CycleOver
    <3>1. phase = "watermark" /\ UNCHANGED <<phase, events, stored>>
      BY <1>15, <2>2 DEF AdvanceWatermark, server
    <3> QED BY <1>13, <3>1 DEF PushInv, PushStored
  <2> QED BY <2>1, <2>2
<1>16. ASSUME SaveToQueue PROVE PushStored' BY <1>12, <1>16 DEF SaveToQueue
<1>17. ASSUME Crash PROVE PushStored' BY <1>12, <1>17 DEF Crash
<1>18. ASSUME UNCHANGED vars PROVE PushStored' BY <1>3, <1>18 DEF vars, cycle
<1>19. PushStored'
  BY <1>4, <1>5, <1>6, <1>7, <1>8, <1>9, <1>10, <1>11, <1>14, <1>15, <1>16, <1>17, <1>18
     DEF Next, CycleStep
<1> QED BY <1>1, <1>2, <1>19 DEF PushInv

(* What the server holds an event of the same id of is counted.            *)
LEMMA StoredIsCounted ==
    ASSUME PushInv, [Next]_vars, NEW e \in AllEvents, NEW n \in e.units,
           NEW f \in stored', SameEvent(e, f)
    PROVE  Counted(e.src, n)'
<1>1. f \in AllEvents BY StoredBefore DEF PushInv
<1>2. f.units = e.units /\ f.src = e.src BY <1>1 DEF PushInv, IdsTell, SameEvent
<1> QED BY <1>2 DEF Counted, Holds

(* An event of the cycle, once all of them are stored.                     *)
LEMMA PushedIsCounted ==
    ASSUME PushInv, [Next]_vars, AllStored(events), NEW e \in events, NEW n \in e.units
    PROVE  Counted(e.src, n)'
<1>1. PICK f \in stored' : SameEvent(e, f) BY StoredStays
<1>2. e \in AllEvents BY DEF AllEvents
<1> QED BY <1>1, <1>2, StoredIsCounted

(* What is counted stays counted.                                          *)
LEMMA CountedStays ==
    ASSUME [Next]_vars, NEW s, NEW n, Counted(s, n)
    PROVE  Counted(s, n)'
BY StoredGrows DEF Counted, Holds

(* A record, once written, stays as it is; a step may add one behind it.   *)
LEMMA RecordsStay ==
    ASSUME TypeInv, [Next]_vars, NEW s \in Sources
    PROVE  /\ Count(s) \in Nat /\ Count(s)' \in Nat /\ Count(s) <= Count(s)'
           /\ \A n \in 1..Count(s) : /\ n \in 1..Count(s)'
                                     /\ records'[s][n] = records[s][n]
                                     /\ SingleRecord(s, n)' = SingleRecord(s, n)
<1>1. /\ Count(s) \in Nat /\ Count(s)' \in Nat /\ Count(s) <= Count(s)'
      /\ \A n \in 1..Count(s) : records'[s][n] = records[s][n]
  BY RecordsGrow
<1> QED BY <1>1 DEF SingleRecord

(* A cycle's events stay until it is over; only a scan makes new ones.     *)
LEMMA EventsMove ==
    ASSUME [Next]_vars
    PROVE  \/ StartCycle \/ events' = events
           \/ /\ events' = {} /\ events # {}
              /\ Crash \/ SaveToQueue \/ AdvanceWatermark \/ (CommitCursors /\ eventsFailed)
BY DEF Next, vars, cycle, Record, CycleStep, PublishQueue, Answered, Retry, GiveUp,
       CommitCursors, AdvanceWatermark, SaveToQueue, InterruptFlush, LateArrival, Crash, CycleOver

-----------------------------------------------------------------------------
(* What a meter's mark has passed                                          *)

LossInv == PushInv /\ FlushKeeps

(* A mark moves to growth that is in the cycle's events.                   *)
LEMMA MarkedIsHeld ==
    ASSUME LossInv, [Next]_vars, NEW s \in Meters, NEW n \in 1..mark'[s].units,
           ~(n <= mark[s].units)
    PROVE  Holds(events, s, n)'
<1>1. TypeInv /\ s \in Sources BY DEF LossInv, PushInv, Sources
<1>2. StartCycle
  <2>1. mark' = mark \/ StartCycle
    BY DEF Next, vars, Record, position, CycleStep, PublishQueue, Answered, Retry, GiveUp,
           CommitCursors, AdvanceWatermark, SaveToQueue, InterruptFlush, LateArrival, Crash
  <2>2. ASSUME mark' = mark PROVE FALSE
    <3>1. mark[s] \in [units: 0..MaxRecords, emitted: 0..MaxRecords]
      BY <1>1 DEF TypeInv, TypeOK
    <3>2. mark[s].units \in Nat /\ mark'[s].units = mark[s].units
      BY <2>2, <3>1, DeliveryAssumption
    <3> QED BY <3>2
  <2> QED BY <2>1, <2>2
<1>3. PICK polled \in SUBSET Sources, dropped \in SUBSET Sources, saved \in BOOLEAN :
         Collect(polled, dropped, saved)
  BY <1>2 DEF StartCycle
<1>4. /\ s \in polled \ dropped /\ NewGrowth(s) # {} /\ mark'[s].units = Count(s)
      /\ events' = UNION {Collected(r) : r \in polled \ dropped}
  BY <1>1, <1>3, DeliveryAssumption DEF Collect, Reported
<1> DEFINE e == [src |-> s, id |-> <<Count(s), mark[s].emitted + 1>>,
                 units |-> NewGrowth(s), ts |-> Newest(s)]
<1>5. e \in Collected(s) BY <1>4, DeliveryAssumption DEF Collected
<1>6. mark[s].units \in Nat /\ Count(s) \in Nat
  <2>1. mark[s] \in [units: 0..MaxRecords, emitted: 0..MaxRecords]
    BY <1>1 DEF TypeInv, TypeOK
  <2> QED BY <1>1, <2>1, RecordType, DeliveryAssumption
<1>7. NewGrowth(s) = mark[s].units + 1..Count(s) BY <1>4 DEF NewGrowth
<1>8. n \in e.units BY <1>4, <1>6, <1>7
<1> QED BY <1>4, <1>5, <1>8 DEF Holds

(* What may become of what a mark has passed, in one step.                 *)
GivenUp ==
    \A s \in Meters : \A n \in 1..mark'[s].units :
       ~Kept(s, n)' =>
          \/ n <= mark[s].units /\ ~Kept(s, n)
          \/ CommitCursors /\ eventsFailed
          \/ SaveToQueue /\ (Len(queue) = QueueLimit \/ ~Holds(sending, s, n))
          \/ Crash

LEMMA GivenUpStep ==
    ASSUME LossInv, [Next]_vars
    PROVE  GivenUp
<1>1. SUFFICES ASSUME NEW s \in Meters, NEW n \in 1..mark'[s].units, ~Kept(s, n)',
                      n <= mark[s].units => Kept(s, n),
                      ~(CommitCursors /\ eventsFailed), ~Crash
               PROVE  SaveToQueue /\ (Len(queue) = QueueLimit \/ ~Holds(sending, s, n))
  BY DEF GivenUp
<1>2. TypeInv /\ PushInv /\ QueueInv BY DEF LossInv, PushInv, QueueInv
<1>3. ~Counted(s, n)' /\ ~InHand(s, n)' BY <1>1 DEF Kept
<1>4. ~Counted(s, n) BY <1>3, CountedStays
<1>5. n <= mark[s].units BY <1>1, <1>3, MarkedIsHeld DEF InHand
<1>6. ASSUME NEW i \in 1..Len(queue) PROVE ~Holds(queue[i], s, n)
  <2> SUFFICES ASSUME NEW e \in queue[i], e.src = s, n \in e.units PROVE FALSE BY DEF Holds
  <2>1. CASE \E j \in 1..Len(queue') : queue'[j] = queue[i]
    BY <1>3, <2>1 DEF InHand, Holds
  <2>2. CASE \A j \in 1..Len(queue') : queue'[j] # queue[i]
    <3>1. PICK f \in stored' : SameEvent(e, f) BY <1>2, <2>2, LeavesStoredStep DEF LeavesStored
    <3>2. e \in AllEvents BY DEF AllEvents, Lines
    <3> QED BY <1>2, <1>3, <3>1, <3>2, StoredIsCounted
  <2> QED BY <2>1, <2>2
<1>7. Holds(events, s, n) BY <1>1, <1>4, <1>5, <1>6 DEF Kept, InHand
<1>8. PICK e \in events : e.src = s /\ n \in e.units BY <1>7 DEF Holds
<1>9. events' # events BY <1>3, <1>7 DEF InHand, Holds
<1>10. ~StartCycle BY <1>2, <1>8 DEF StartCycle, Collect, TypeInv, CycleClean
<1>11. ~AdvanceWatermark
  <2> SUFFICES ASSUME AdvanceWatermark PROVE FALSE OBVIOUS
  <2>1. AllStored(events) BY <1>2 DEF AdvanceWatermark, PushInv, PushStored
  <2> QED BY <1>2, <1>3, <1>8, <2>1, PushedIsCounted
<1>12. SaveToQueue BY <1>1, <1>9, <1>10, <1>11, EventsMove
<1>13. Len(queue) = QueueLimit \/ ~Holds(sending, s, n)
  <2> SUFFICES ASSUME Len(queue) # QueueLimit, Holds(sending, s, n) PROVE FALSE OBVIOUS
  <2>1. Len(queue) < QueueLimit /\ queue \in Seq(SUBSET Event) /\ sending \in SUBSET Event
    BY <1>2, DeliveryAssumption DEF TypeInv, TypeOK
  <2>2. queue' = Append(queue, sending) BY <1>8, <1>12, <2>1 DEF SaveToQueue
  <2>3. Len(queue) + 1 \in 1..Len(queue') /\ queue'[Len(queue) + 1] = sending
    BY <2>1, <2>2, AppendProperties
  <2> QED BY <1>3, <2>3 DEF InHand, Holds
<1> QED BY <1>12, <1>13

(* LossesAreKnown holds of every step, whether marks are saved or not: no  *)
(* retry, replay, interrupted flush or lost answer, and no cycle whose     *)
(* batches were all stored, gives up usage that a meter's mark has passed. *)
THEOREM LossesNeedAFailure == Spec => LossesAreKnown
<1>1. Init => LossInv BY PushInit DEF LossInv, Init, FlushKeeps
<1>2. LossInv /\ [Next]_vars => LossInv'
  BY PushStep, FlushKeepsStep DEF LossInv, PushInv, QueueInv
<1>3. LossInv /\ [Next]_vars => [GivenUp]_vars BY GivenUpStep
<1> QED BY <1>1, <1>2, <1>3, PTL DEF Spec, LossesAreKnown, GivenUp

-----------------------------------------------------------------------------
(* The watermarks of the logs                                              *)

(* An event is filed under a log's provider only by that log.              *)
SeparateBilling == \A s \in Sources : Billed[s] \in Logs => Billed[s] = s

WatermarkSeen ==
    \A s \in Logs : watermark[s] = 0 \/ \E n \in 1..Count(s) : watermark[s] = records[s][n]

(* The lines a watermark is about to pass are in the cycle's events, if    *)
(* they are not stored.                                                    *)
LogRead ==
    \A e \in events : e.src \in Logs =>
        \A n \in 1..Count(e.src) : records[e.src][n] <= e.ts - Overlap =>
            Counted(e.src, n) \/ SingleRecord(e.src, n) \in events

LogInv == PushInv /\ WatermarksBehind /\ WatermarkSeen /\ LogRead

LEMMA LogInit == Init => LogInv
<1> SUFFICES ASSUME Init PROVE LogInv OBVIOUS
<1>1. \A s \in Sources : Count(s) = 0 BY DEF Init, Count
<1>2. WatermarksBehind BY <1>1 DEF WatermarksBehind, Sources
<1>3. WatermarkSeen /\ LogRead BY DEF Init, WatermarkSeen, LogRead, Sources
<1> QED BY <1>2, <1>3, PushInit DEF LogInv

(* A log's watermark moves to a timestamp of an event of the log, which    *)
(* a cycle that stored all its events had collected, or is lost.           *)
LEMMA WatermarkMoves ==
    ASSUME TypeInv, SeparateBilling, [Next]_vars, NEW s \in Logs
    PROVE  \/ watermark'[s] = watermark[s]
           \/ watermark'[s] = 0
           \/ /\ phase = "watermark"
              /\ \E e \in events : e.src = s /\ watermark'[s] = e.ts
<1>1. CASE watermark' = watermark BY <1>1
<1>2. CASE Crash BY <1>2 DEF Crash, Sources
<1>3. CASE AdvanceWatermark
  <2>1. PICK e \in unsent :
           watermark' = [r \in Sources |-> IF r \in {e.src, Billed[e.src]}
                                           THEN Maximum(watermark[r], e.ts) ELSE watermark[r]]
    BY <1>3 DEF AdvanceWatermark
  <2>2. e \in events /\ e \in Event BY DEF TypeInv, TypeOK
  <2>3. e.src \in Sources /\ e.ts \in Int /\ watermark[s] \in Int /\ s \in Sources
    <3>1. MaxTime \in Nat /\ s \in Sources BY DeliveryAssumption DEF Sources
    <3>2. watermark[s] \in Times BY <3>1 DEF TypeInv, TypeOK
    <3> QED BY <2>2, <3>1, <3>2 DEF Event, Times
  <2>4. Maximum(watermark[s], e.ts) \in {watermark[s], e.ts} BY <2>3, Extremes
  <2>5. Billed[e.src] = s => e.src = s BY <2>3 DEF SeparateBilling
  <2> QED BY <1>3, <2>1, <2>2, <2>3, <2>4, <2>5 DEF AdvanceWatermark
<1>4. watermark' = watermark \/ Crash \/ AdvanceWatermark
  BY DEF Next, vars, Record, position, StartCycle, Collect, CycleStep, PublishQueue, Answered,
         Retry, GiveUp, CommitCursors, SaveToQueue, InterruptFlush, LateArrival
<1> QED BY <1>1, <1>2, <1>3, <1>4

(* A line that is added is later than the overlap below every timestamp of *)
(* the log, and with it than the watermark and than the cycle's events.    *)
LEMMA NewLineIsLater ==
    ASSUME LogInv, Late <= Overlap, [Next]_vars, NEW s \in Logs,
           NEW n \in 1..Count(s)', n \notin 1..Count(s)
    PROVE  /\ UNCHANGED <<watermark, events>>
           /\ records'[s][n] > watermark[s] - Overlap
           /\ \A e \in events : e.src = s => records'[s][n] > e.ts - Overlap
<1>1. TypeInv /\ s \in Sources /\ s \notin Meters
  BY DeliveryAssumption DEF LogInv, PushInv, Sources
<1>2. Record(s)
  <2>1. UNCHANGED records \/ \E r \in Sources : Record(r)
    BY DEF Next, vars, StartCycle, Collect, CycleStep, PublishQueue, Answered, Retry, GiveUp,
           CommitCursors, AdvanceWatermark, SaveToQueue, InterruptFlush, LateArrival, Crash
  <2>2. records'[s] # records[s] BY DEF Count
  <2>3. PICK r \in Sources : Record(r) BY <2>1, <2>2
  <2>4. r = s BY <1>1, <2>2, <2>3, RecordStep
  <2> QED BY <2>3, <2>4
<1>3. PICK t \in 1..MaxTime :
         /\ \A m \in 1..Count(s) : t > records[s][m] - Late
         /\ Count(s)' = Count(s) + 1 /\ records'[s][Count(s) + 1] = t
  BY <1>1, <1>2, RecordStep
<1>4. /\ Count(s) \in Nat /\ Late \in Nat /\ Overlap \in Nat /\ MaxTime \in Nat
      /\ \A m \in 1..Count(s) : records[s][m] \in Nat
  BY <1>1, RecordType, DeliveryAssumption
<1>5. records'[s][n] = t BY <1>3, <1>4
<1>6. \A m \in 1..Count(s) : t > records[s][m] - Overlap BY <1>3, <1>4
<1>7. t > watermark[s] - Overlap
  <2>1. CASE watermark[s] = 0 BY <1>4, <2>1
  <2>2. CASE watermark[s] # 0 BY <1>6, <2>2 DEF LogInv, WatermarkSeen
  <2> QED BY <2>1, <2>2
<1>8. ASSUME NEW e \in events, e.src = s PROVE t > e.ts - Overlap
  <2>1. e \in AllEvents BY DEF AllEvents
  <2>2. PICK m \in 1..Count(s) : e = SingleRecord(s, m)
    BY <1>1, <1>8, <2>1 DEF LogInv, PushInv, RecordEvents
  <2>3. e.ts = records[s][m] BY <2>2 DEF SingleRecord
  <2> QED BY <1>6, <2>3
<1>9. UNCHANGED <<watermark, events>> BY <1>2 DEF Record, position, cycle
<1> QED BY <1>5, <1>7, <1>8, <1>9

(* A watermark that moves passes lines that are stored.                    *)
LEMMA WatermarksStep ==
    ASSUME LogInv, SeparateBilling, Late <= Overlap, [Next]_vars
    PROVE  WatermarksBehind'
<1>1. SUFFICES ASSUME NEW s \in Logs, NEW n \in 1..Count(s)', Passed(s, n)'
               PROVE  Counted(s, n)'
  BY DEF WatermarksBehind
<1>2. TypeInv /\ s \in Sources /\ s \notin Meters
  BY DeliveryAssumption DEF LogInv, PushInv, Sources
<1>3. records'[s][n] <= watermark'[s] - Overlap BY <1>1 DEF Passed
<1>4. CASE n \notin 1..Count(s)
  <2>1. watermark' = watermark /\ records'[s][n] > watermark[s] - Overlap
    BY <1>4, NewLineIsLater
  <2>2. /\ watermark[s] \in Int /\ Overlap \in Int /\ records'[s][n] \in Int
    <3>1. TypeInv' BY <1>2, TypeStep
    <3>2. records'[s] \in Seq(1..MaxTime) BY <1>2, <3>1 DEF TypeInv, TypeOK
    <3>3. records'[s][n] \in 1..MaxTime BY <1>1, <3>2, ElementOfSeq DEF Count
    <3>4. watermark[s] \in Times BY <1>2 DEF TypeInv, TypeOK
    <3> QED BY <3>3, <3>4, DeliveryAssumption DEF Times
  <2> QED BY <1>3, <2>1, <2>2
<1>5. CASE n \in 1..Count(s)
  <2>1. records[s][n] <= watermark'[s] - Overlap BY <1>2, <1>3, <1>5, RecordsStay
  <2>2. CASE watermark'[s] = watermark[s]
    <3>1. Passed(s, n) BY <2>1, <2>2 DEF Passed
    <3> QED BY <1>5, <3>1, CountedStays DEF LogInv, WatermarksBehind
  <2>3. CASE watermark'[s] = 0
    <3>1. records[s][n] \in 1..MaxTime BY <1>2, <1>5, RecordType
    <3> QED BY <2>1, <2>3, <3>1, DeliveryAssumption
  <2>4. ASSUME phase = "watermark", NEW e \in events, e.src = s, watermark'[s] = e.ts
        PROVE  Counted(s, n)'
    <3>1. CASE Counted(s, n) BY <3>1, CountedStays
    <3>2. CASE SingleRecord(s, n) \in events
      <4>1. AllStored(events) BY <2>4 DEF LogInv, PushInv, PushStored
      <4> QED BY <3>2, <4>1, PushedIsCounted DEF LogInv, SingleRecord
    <3> QED BY <1>5, <2>1, <2>4, <3>1, <3>2 DEF LogInv, LogRead
  <2> QED BY <1>2, <2>2, <2>3, <2>4, WatermarkMoves
<1> QED BY <1>4, <1>5

LEMMA WatermarkSeenStep ==
    ASSUME LogInv, SeparateBilling, [Next]_vars
    PROVE  WatermarkSeen'
<1>1. SUFFICES ASSUME NEW s \in Logs, watermark'[s] # 0
               PROVE  \E n \in 1..Count(s)' : watermark'[s] = records'[s][n]
  BY DEF WatermarkSeen
<1>2. TypeInv /\ s \in Sources /\ s \notin Meters
  BY DeliveryAssumption DEF LogInv, PushInv, Sources
<1>3. SUFFICES \E n \in 1..Count(s) : watermark'[s] = records[s][n]
  BY <1>2, RecordsStay
<1>4. CASE watermark'[s] = watermark[s] BY <1>1, <1>4 DEF LogInv, WatermarkSeen
<1>5. ASSUME NEW e \in events, e.src = s, watermark'[s] = e.ts
      PROVE  \E n \in 1..Count(s) : watermark'[s] = records[s][n]
  <2>1. e \in AllEvents BY DEF AllEvents
  <2>2. PICK n \in 1..Count(s) : e = SingleRecord(s, n)
    BY <1>2, <1>5, <2>1 DEF LogInv, PushInv, RecordEvents
  <2> QED BY <1>5, <2>2 DEF SingleRecord
<1> QED BY <1>1, <1>2, <1>4, <1>5, WatermarkMoves

(* A timestamp that was read is behind lines that were read with it, or    *)
(* that the watermark had passed.                                          *)
LEMMA LogReadStep ==
    ASSUME LogInv, Late <= Overlap, [Next]_vars
    PROVE  LogRead'
<1>1. SUFFICES ASSUME NEW e \in events', e.src \in Logs, NEW n \in 1..Count(e.src)',
                      records'[e.src][n] <= e.ts - Overlap
               PROVE  Counted(e.src, n)' \/ SingleRecord(e.src, n)' \in events'
  BY DEF LogRead
<1> DEFINE s == e.src
<1>2. TypeInv /\ s \in Sources /\ s \notin Meters /\ s \notin Ledgers
  BY <1>1, DeliveryAssumption DEF LogInv, PushInv, Sources
<1>3. CASE events' = {} BY <1>1, <1>3
<1>4. CASE events' = events
  <2>1. CASE n \notin 1..Count(s)
    <3>1. records'[s][n] > e.ts - Overlap BY <1>1, <1>4, <2>1, NewLineIsLater
    <3>2. e.ts \in Int /\ Overlap \in Int /\ records'[s][n] \in Int
      <4>1. TypeInv' BY <1>2, TypeStep
      <4>2. e \in Event BY <1>4, <1>2 DEF TypeInv, TypeOK
      <4>3. records'[s] \in Seq(1..MaxTime) BY <1>2, <4>1 DEF TypeInv, TypeOK
      <4>4. records'[s][n] \in 1..MaxTime BY <1>1, <4>3, ElementOfSeq DEF Count
      <4> QED BY <4>2, <4>4, DeliveryAssumption DEF Event, Times
    <3> QED BY <1>1, <3>1, <3>2
  <2>2. CASE n \in 1..Count(s)
    <3>1. records'[s][n] = records[s][n] /\ SingleRecord(s, n)' = SingleRecord(s, n)
      BY <1>2, <2>2, RecordsStay
    <3>2. Counted(s, n) \/ SingleRecord(s, n) \in events
      BY <1>1, <1>4, <2>2, <3>1 DEF LogInv, LogRead
    <3> QED BY <1>4, <3>1, <3>2, CountedStays
  <2> QED BY <2>1, <2>2
<1>5. CASE StartCycle
  <2>1. PICK polled \in SUBSET Sources, dropped \in SUBSET Sources, saved \in BOOLEAN :
           Collect(polled, dropped, saved)
    BY <1>5 DEF StartCycle
  <2>2. /\ UNCHANGED <<records, stored>> /\ dropped \subseteq Ledgers
        /\ events' = UNION {Collected(r) : r \in polled \ dropped}
    BY <2>1 DEF Collect, server
  <2>3. PICK r \in polled \ dropped : e \in Collected(r) BY <2>2
  <2>4. r = s BY <1>2, <2>3, CollectedForm
  <2>5. Count(s)' = Count(s) /\ SingleRecord(s, n)' = SingleRecord(s, n)
    BY <2>2 DEF Count, SingleRecord
  <2>6. CASE n \in NewLines(s)
    <3>1. Collected(s) = {SingleRecord(s, m) : m \in NewLines(s)}
      BY <1>1, <1>2, DeliveryAssumption DEF Collected
    <3>2. SingleRecord(s, n) \in Collected(s) BY <2>6, <3>1
    <3> QED BY <2>2, <2>3, <2>4, <2>5, <3>2
  <2>7. CASE n \notin NewLines(s)
    <3>1. records[s][n] \in Int /\ watermark[s] \in Int /\ Overlap \in Int
      <4>1. records[s][n] \in 1..MaxTime BY <1>1, <1>2, <2>5, RecordType
      <4>2. watermark[s] \in Times BY <1>2 DEF TypeInv, TypeOK
      <4> QED BY <4>1, <4>2, DeliveryAssumption DEF Times
    <3>2. Passed(s, n) BY <1>1, <2>5, <2>7, <3>1 DEF NewLines, Passed
    <3> QED BY <1>1, <2>5, <3>2, CountedStays DEF LogInv, WatermarksBehind
  <2> QED BY <2>6, <2>7
<1> QED BY <1>3, <1>4, <1>5, EventsMove

(* WatermarksBehind holds in every state if a source's events move no      *)
(* other log's watermark and records are no later than the overlap.        *)
THEOREM WatermarksNeverOutrun ==
    ASSUME SeparateBilling, Late <= Overlap
    PROVE  Spec => []WatermarksBehind
<1>1. LogInv /\ [Next]_vars => LogInv'
  BY PushStep, WatermarksStep, WatermarkSeenStep, LogReadStep DEF LogInv
<1>2. LogInv => WatermarksBehind BY DEF LogInv
<1> QED BY <1>1, <1>2, LogInit, PTL DEF Spec

-----------------------------------------------------------------------------
(* The cursors of the ledgers                                              *)

(* One ledger, and no other source, files events under a ledger's provider.*)
SingleStore == \A s \in Sources, l \in Ledgers : Billed[s] \in Ledgers => s = l

(* If the cycle has what it takes to commit the cursors, the rows they are *)
(* about to pass are in its events.                                        *)
ParkedRead ==
    LedgerPushed =>
        \A s \in Ledgers : \A n \in cursor[s] + 1..parked[s] : SingleRecord(s, n) \in events

LedgerInv == PushInv /\ CursorsBehind /\ ParkedRead

LEMMA LedgersInit == Init => LedgerInv
<1> SUFFICES ASSUME Init PROVE LedgerInv OBVIOUS
<1>1. \A s \in Sources : Count(s) = 0 BY DEF Init, Count
<1>2. CursorsBehind BY <1>1 DEF CursorsBehind, Sources
<1>3. ParkedRead BY DEF Init, ParkedRead, LedgerPushed
<1> QED BY <1>2, <1>3, PushInit DEF LedgerInv

(* Cursors move to where the scan parked them, at the end of a cycle that  *)
(* pushed a ledger's event and had no batch rolled back.                   *)
LEMMA CursorMoves ==
    ASSUME [Next]_vars
    PROVE  \/ cursor' = cursor
           \/ /\ cursor' = parked /\ phase = "cursors" /\ ~eventsFailed /\ LedgerPushed
BY DEF Next, vars, position, Record, StartCycle, Collect, CycleStep, PublishQueue, Answered,
       Retry, GiveUp, CommitCursors, AdvanceWatermark, SaveToQueue, InterruptFlush, LateArrival,
       Crash

(* Both lie within the rows there are.                                     *)
LEMMA CursorTypes ==
    ASSUME TypeInv, NEW s \in Ledgers
    PROVE  /\ s \in Sources /\ cursor[s] \in Nat /\ parked[s] \in Nat /\ Count(s) \in Nat
           /\ cursor[s] <= Count(s) /\ parked[s] <= Count(s)
<1>1. s \in Sources BY DEF Sources
<1>2. Count(s) \in 0..MaxRecords /\ MaxRecords \in Nat BY <1>1, RecordType, DeliveryAssumption
<1>3. cursor[s] \in 0..MaxRecords /\ parked[s] \in 0..MaxRecords
      /\ cursor[s] <= Count(s) /\ parked[s] <= Count(s)
  BY <1>1 DEF TypeInv, TypeOK, PositionsBehind
<1> QED BY <1>1, <1>2, <1>3

(* A cursor that moves passes rows that are stored.                        *)
LEMMA CursorsStep ==
    ASSUME LedgerInv, [Next]_vars
    PROVE  CursorsBehind'
<1>1. SUFFICES ASSUME NEW s \in Ledgers, NEW n \in 1..Count(s)', Passed(s, n)'
               PROVE  Counted(s, n)'
  BY DEF CursorsBehind
<1>2. TypeInv /\ s \in Sources /\ s \notin Logs /\ s \notin Meters
  BY DeliveryAssumption DEF LedgerInv, PushInv, Sources
<1>3. n <= cursor'[s] BY <1>1, <1>2 DEF Passed
<1>4. n \in Nat /\ n >= 1 BY <1>1, <1>2, RecordsStay
<1>5. CASE cursor' = cursor
  <2>1. n \in 1..Count(s) /\ n <= cursor[s] BY <1>2, <1>3, <1>4, <1>5, CursorTypes
  <2> QED BY <1>2, <2>1, CountedStays DEF LedgerInv, CursorsBehind, Passed
<1>6. CASE cursor' = parked /\ phase = "cursors" /\ ~eventsFailed /\ LedgerPushed
  <2>1. n \in 1..Count(s) BY <1>2, <1>3, <1>4, <1>6, CursorTypes
  <2>2. CASE n <= cursor[s]
    BY <1>2, <2>1, <2>2, CountedStays DEF LedgerInv, CursorsBehind, Passed
  <2>3. CASE ~(n <= cursor[s])
    <3>1. n \in cursor[s] + 1..parked[s] BY <1>2, <1>3, <1>4, <1>6, <2>3, CursorTypes
    <3>2. SingleRecord(s, n) \in events BY <1>6, <3>1 DEF LedgerInv, ParkedRead
    <3>3. AllStored(events) BY <1>6 DEF LedgerInv, PushInv, PushStored
    <3> QED BY <3>2, <3>3, PushedIsCounted DEF LedgerInv, SingleRecord
  <2> QED BY <2>2, <2>3
<1> QED BY <1>5, <1>6, CursorMoves

(* A scan: where a ledger's cursor is parked, the rows up to there are in  *)
(* the cycle's events, or were dropped with all that ledger's events.      *)
LEMMA ParkedByScan ==
    ASSUME LedgerInv, NEW polled \in SUBSET Sources, NEW dropped \in SUBSET Sources,
           NEW saved \in BOOLEAN, Collect(polled, dropped, saved),
           NEW s \in Ledgers, s \notin dropped, NEW n \in cursor'[s] + 1..parked'[s]
    PROVE  SingleRecord(s, n)' \in events'
<1>1. TypeInv /\ s \in Sources /\ s \notin Logs
  BY DeliveryAssumption DEF LedgerInv, PushInv, Sources
<1>2. /\ UNCHANGED <<records, cursor>>
      /\ events' = UNION {Collected(r) : r \in polled \ dropped}
      /\ parked'[s] = IF s \in polled THEN Scanned(s) ELSE cursor[s]
  BY <1>1 DEF Collect
<1>3. cursor[s] \in Nat /\ Count(s) \in Nat /\ cursor[s] <= Count(s) /\ RowsPerScan \in Nat
  BY <1>1, CursorTypes, DeliveryAssumption
<1>4. s \in polled /\ parked'[s] = Scanned(s) BY <1>2, <1>3
<1> DEFINE last == Minimum(Count(s), cursor[s] + RowsPerScan)
<1>5. last \in {Count(s), cursor[s] + RowsPerScan} BY <1>3, Extremes
<1>6. last \in Int BY <1>3, <1>5
<1>7. n \in cursor[s] + 1..last
  <2>1. Scanned(s) = Maximum(cursor[s], last) BY DEF Scanned
  <2> HIDE DEF last
  <2>2. Maximum(cursor[s], last) \in {cursor[s], last} BY <1>3, <1>6, Extremes
  <2> QED BY <1>2, <1>3, <1>4, <1>6, <2>1, <2>2
<1>8. SingleRecord(s, n) \in Collected(s)
  <2>1. n \in NewRows(s) BY <1>7 DEF NewRows
  <2>2. Collected(s) = {SingleRecord(s, m) : m \in NewRows(s)}
    BY <1>1, DeliveryAssumption DEF Collected
  <2> QED BY <2>1, <2>2
<1>9. SingleRecord(s, n)' = SingleRecord(s, n) BY <1>2 DEF SingleRecord
<1> QED BY <1>2, <1>4, <1>8, <1>9

LEMMA ParkedReadStep ==
    ASSUME LedgerInv, MaxBroken = 0 \/ SingleStore, [Next]_vars
    PROVE  ParkedRead'
<1>1. SUFFICES ASSUME LedgerPushed', NEW s \in Ledgers, NEW n \in cursor'[s] + 1..parked'[s]
               PROVE  SingleRecord(s, n)' \in events'
  BY DEF ParkedRead
<1>2. TypeInv /\ TypeInv' BY TypeStep DEF LedgerInv, PushInv
<1>3. CASE events' = {} BY <1>1, <1>3 DEF LedgerPushed
<1>4. CASE parked' = cursor'
  <2>1. cursor'[s] \in Nat
    <3>1. cursor' \in [Sources -> 0..MaxRecords] BY <1>2 DEF TypeInv, TypeOK
    <3> QED BY <3>1, DeliveryAssumption DEF Sources
  <2> QED BY <1>1, <1>4, <2>1
<1>5. CASE UNCHANGED <<events, parked, cursor>>
  <2>1. LedgerPushed BY <1>1, <1>5 DEF LedgerPushed
  <2>2. SingleRecord(s, n) \in events BY <1>1, <1>5, <2>1 DEF LedgerInv, ParkedRead
  <2>3. n \in 1..Count(s) /\ s \in Sources BY <1>1, <1>2, <1>5, CursorTypes
  <2> QED BY <1>2, <1>5, <2>2, <2>3, RecordsStay
<1>6. CASE StartCycle
  <2>1. PICK polled \in SUBSET Sources, dropped \in SUBSET Sources, saved \in BOOLEAN :
           Collect(polled, dropped, saved)
    BY <1>6 DEF StartCycle
  <2>2. s \notin dropped
    <3>1. CASE MaxBroken = 0
      <4>1. budget.broken = 0 BY <1>2, <3>1 DEF TypeInv, TypeOK, FaultBudget
      <4> QED BY <2>1, <4>1 DEF Collect
    <3>2. CASE SingleStore
      <4>1. PICK e \in events' : Billed[e.src] \in Ledgers BY <1>1 DEF LedgerPushed
      <4>2. PICK r \in polled \ dropped : e \in Collected(r) BY <2>1, <4>1 DEF Collect
      <4>3. e.src = r /\ r \in Sources BY <1>2, <4>2, CollectedForm
      <4>4. r = s BY <3>2, <4>1, <4>3 DEF SingleStore
      <4> QED BY <4>2, <4>4
    <3> QED BY <3>1, <3>2
  <2> QED BY <1>1, <2>1, <2>2, ParkedByScan
<1>7. StartCycle \/ events' = {} \/ parked' = cursor' \/ UNCHANGED <<events, parked, cursor>>
  BY DEF Next, vars, cycle, position, Record, CycleStep, PublishQueue, Answered, Retry, GiveUp,
         CommitCursors, AdvanceWatermark, SaveToQueue, InterruptFlush, LateArrival, Crash,
         CycleOver
<1> QED BY <1>3, <1>4, <1>5, <1>6, <1>7

(* CursorsBehind holds in every state if no scan loses what it read, or if *)
(* there is one ledger whose provider nothing else is filed under.         *)
THEOREM CursorsNeverOutrun ==
    ASSUME MaxBroken = 0 \/ SingleStore
    PROVE  Spec => []CursorsBehind
<1>1. LedgerInv /\ [Next]_vars => LedgerInv'
  BY PushStep, CursorsStep, ParkedReadStep DEF LedgerInv
<1>2. LedgerInv => CursorsBehind BY DEF LedgerInv
<1> QED BY <1>1, <1>2, LedgersInit, PTL DEF Spec

(* NothingSkipped holds in every state under the conditions of the two.    *)
(* It fails without each of the three.                                     *)
THEOREM PositionsNeverOutrun ==
    ASSUME SeparateBilling, Late <= Overlap, MaxBroken = 0 \/ SingleStore
    PROVE  Spec => []NothingSkipped
<1>1. Spec => []WatermarksBehind BY WatermarksNeverOutrun
<1>2. Spec => []CursorsBehind BY CursorsNeverOutrun
<1>3. WatermarksBehind /\ CursorsBehind => NothingSkipped BY DEF NothingSkipped
<1> QED BY <1>1, <1>2, <1>3, PTL
=============================================================================
