------------------------- MODULE SourceControlProofs -------------------------
(***************************************************************************)
(* Proofs about SourceControl: its types, the finality of withdrawals, the *)
(* currency of the token cache, the order of commands and that none is     *)
(* dropped, what may go back and what may leave, for every set of sources  *)
(* and every bound.                                                        *)
(***************************************************************************)
EXTENDS SourceControl, FiniteSetTheorems, TLAPS

-----------------------------------------------------------------------------
(* The inductive invariant.  Everything the sidecar or the network holds   *)
(* about a consent is behind the configuration, and a generation stands    *)
(* for one decision; that is what keeps late reports and late credentials  *)
(* from passing for the consent of today.                                  *)

Past(s, c) ==
  /\ c.generation <= consent[s].generation
  /\ c.generation = consent[s].generation => c.read = consent[s].read

ConsentsPast ==
  \A s \in Consented :
    /\ Past(s, Off) /\ Past(s, row[s]) /\ Past(s, policy[s]) /\ Past(s, snap[s])
    /\ \A r \in late : Past(s, r.reports[s])
    /\ \A p \in pushes : p.source = s =>
         Past(s, [read |-> TRUE, generation |-> p.generation])

RowsKnown == \A s \in Sources : ~ row[s].known => row[s] = NoRow

OffLeavesTombstone ==
  \A s \in Consented :
    row[s].known /\ ~ row[s].read => row[s].generation <= row[s].revoked

WithdrawalsTold ==
  \A s \in Consented :
    /\ stored[s].withdrawn <= row[s].revoked
    /\ reply.row[s].known /\ ~ reply.row[s].read
         => reply.row[s].generation <= row[s].revoked

\* The numbers of commands: no two rows share one, and every number still in
\* use anywhere is behind some row.
AllAcks == acks \cup UNION {r.acks : r \in late}
Behind(n) == \E c \in commands : n <= c.id
NumbersBehind ==
  /\ \A s \in Sources : stored[s].id > 0 => Behind(stored[s].id)
  /\ \A a \in AllAcks : Behind(a.id)
  /\ \A c \in reply.commands : Behind(c.id)

OneRowPerNumber ==
  /\ \A c, d \in commands : c.id = d.id => c = d
  /\ \A c \in reply.commands, d \in commands : c.id = d.id => c.source = d.source

\* What is acknowledged has been processed.
AcksProcessed ==
  \A a \in AllAcks, c \in commands : a.id = c.id => a.id <= stored[c.source].id

ConsentInv ==
  TypeOK /\ ConsentsPast /\ RowsKnown /\ TombstonesHold /\ OffLeavesTombstone
         /\ WithdrawalsTold /\ CacheIsCurrent
CommandInv == TypeOK /\ NumbersBehind /\ OneRowPerNumber /\ AcksProcessed

-----------------------------------------------------------------------------
(* Lemmas about the operators. *)

\* A nonempty set of numbers up to n has a greatest one.
LEMMA Greatest ==
  ASSUME NEW n \in Nat, NEW S, S # {}, S \subseteq 1 .. n
  PROVE  \E c \in S : \A d \in S : d <= c
<1> DEFINE Above(c) == {j \in 1 .. n : j > c}
           T == {Above(c) : c \in S}
           R == StrictSubsetOrdering(1 .. n)
<1>1. IsFiniteSet(1 .. n) BY FS_Interval
<1>2. IsWellFoundedOn(R, SUBSET (1 .. n))
  BY <1>1, FS_StrictSubsetOrderingWellFounded, FS_FiniteSubsetsOfFinite
<1>3. T \subseteq SUBSET (1 .. n) /\ T # {} OBVIOUS
<1> HIDE DEF R, T
<1>4. PICK x \in T : \A y \in T : ~ (<<y, x>> \in R)
  BY <1>2, <1>3, WFMin
<1>5. PICK c \in S : x = Above(c) BY <1>4 DEF T
<1>6. ASSUME NEW d \in S, d > c PROVE FALSE
  <2>1. /\ Above(d) \in T
        /\ Above(d) \in SUBSET (1 .. n) /\ Above(c) \in SUBSET (1 .. n)
    BY DEF T
  <2>2. Above(d) \subseteq Above(c) BY <1>6
  <2>3. d \in Above(c) /\ d \notin Above(d) BY <1>6
  <2>4. Above(d) # Above(c) BY <2>3
  <2> HIDE DEF Above
  <2>5. <<Above(d), x>> \in R
    BY <1>5, <2>1, <2>2, <2>4 DEF R, StrictSubsetOrdering
  <2> QED BY <1>4, <2>1, <2>5
<1> QED BY <1>6

\* Closing a command changes its answer only.
LEMMA ClosedCommand ==
  ASSUME NEW c \in Command, NEW given \in SUBSET Ack
  PROVE  /\ Closed(c, given) \in Command
         /\ Closed(c, given).id = c.id /\ Closed(c, given).source = c.source
         /\ Closed(c, given).action = c.action
         /\ Closed(c, given).generation = c.generation
<1>1. CASE \E a \in given : Acknowledges(a, c)
  <2> DEFINE b == CHOOSE a \in given : Acknowledges(a, c)
  <2>1. b \in given BY <1>1
  <2>2. b.answer \in Answers BY <2>1 DEF Ack
  <2>3. Closed(c, given) = [c EXCEPT !.answer = b.answer] BY <1>1 DEF Closed
  <2> HIDE DEF b
  <2> QED BY <2>2, <2>3 DEF Command
<1>2. CASE ~ \E a \in given : Acknowledges(a, c)
  BY <1>2 DEF Closed, Command
<1> QED BY <1>1, <1>2

\* A report keeps the pause, lowers no tombstone and keeps the row's type.
LEMMA ReportedRow ==
  ASSUME NEW r \in Row, NEW c \in Consent
  PROVE  /\ Reported(r, c) \in Row
         /\ Reported(r, c).paused = r.paused
         /\ r.revoked <= Reported(r, c).revoked
         /\ Reported(r, c).known
<1>1. /\ r.generation \in Generations /\ r.revoked \in Generations \cup {None}
      /\ c.read \in BOOLEAN /\ c.generation \in Generations
      /\ r.revoked \in Int /\ c.generation \in Int
  BY DEF Row, Consent, Generations, None
<1>2. CASE Older(r, c) BY <1>1, <1>2 DEF Reported, Older, Row
<1>3. CASE ~ Older(r, c)
  <2> DEFINE revoked == IF c.read THEN r.revoked ELSE Larger(r.revoked, c.generation)
  <2>1. Reported(r, c) = [r EXCEPT !.known = TRUE, !.read = c.read,
                                   !.generation = c.generation, !.revoked = revoked]
    BY <1>3 DEF Reported
  <2>2. revoked \in Generations \cup {None} /\ r.revoked <= revoked
    BY <1>1 DEF Larger
  <2> HIDE DEF revoked
  <2> QED BY <1>1, <2>1, <2>2 DEF Row
<1> QED BY <1>2, <1>3

\* The numbers of fresh commands have a last one, which Controlled() picks.
FreshFor(s) == {c \in reply.commands : c.source = s /\ c.id > stored[s].id}
LEMMA LastFresh ==
  ASSUME TypeOK, NEW s \in Sources, FreshFor(s) # {}
  PROVE  LET last == CHOOSE c \in FreshFor(s) : \A d \in FreshFor(s) : d.id <= c.id
         IN last \in FreshFor(s) /\ \A d \in FreshFor(s) : d.id <= last.id
<1> DEFINE S == {c.id : c \in FreshFor(s)}
<1>1. S # {} OBVIOUS
<1>2. S \subseteq 1 .. MaxCommands BY DEF TypeOK, Reply, Command, FreshFor
<1>3. MaxCommands \in Nat BY ConstantsAssumption
<1>4. PICK n \in S : \A m \in S : m <= n BY <1>1, <1>2, <1>3, Greatest
<1>5. \E c \in FreshFor(s) : \A d \in FreshFor(s) : d.id <= c.id BY <1>4
<1> QED BY <1>5

\* What the sidecar makes of an answer: nothing in it falls; the number is at
\* least that of every command in the answer, and the withdrawal told is the
\* old one or the one in the answer.
LEMMA ControlledState ==
  ASSUME TypeOK, NEW s \in Sources
  PROVE  /\ Controlled(s) \in Stored
         /\ stored[s].id <= Controlled(s).id
         /\ \A c \in reply.commands : c.source = s => c.id <= Controlled(s).id
         /\ \/ Controlled(s).id = stored[s].id
            \/ \E c \in reply.commands : Controlled(s).id = c.id
         /\ \/ Controlled(s).withdrawn = stored[s].withdrawn
            \/ /\ reply.row[s].known /\ ~ reply.row[s].read
               /\ Controlled(s).withdrawn = reply.row[s].generation
         /\ stored[s].revoked <= Controlled(s).revoked
         /\ stored[s].withdrawn <= Controlled(s).withdrawn
<1> DEFINE r     == reply.row[s]
           old   == stored[s]
           last  == CHOOSE c \in FreshFor(s) : \A d \in FreshFor(s) : d.id <= c.id
           state == IF FreshFor(s) = {} THEN old
                    ELSE [old EXCEPT !.id = last.id, !.answer = AnswerTo(last)]
<1>1. r \in Row /\ old \in Stored BY DEF TypeOK, Reply
<1>2. Controlled(s) =
        IF r.known
        THEN [state EXCEPT
                !.paused = r.paused, !.revoked = Larger(@, r.revoked),
                !.withdrawn = IF s \in Consented /\ ~ r.read
                              THEN Larger(@, r.generation) ELSE @]
        ELSE state
  BY DEF Controlled, FreshFor
<1>3. /\ state \in Stored
      /\ old.id <= state.id /\ state.withdrawn = old.withdrawn
      /\ state.revoked = old.revoked
      /\ \A c \in reply.commands : c.source = s => c.id <= state.id
      /\ state.id = old.id \/ \E c \in reply.commands : state.id = c.id
  <2>1. \A c \in reply.commands : c \in Command BY DEF TypeOK, Reply
  <2>2. CASE FreshFor(s) = {}
    BY <1>1, <2>1, <2>2 DEF FreshFor, Stored, Command
  <2>3. CASE FreshFor(s) # {}
    <3>1. last \in FreshFor(s) /\ \A d \in FreshFor(s) : d.id <= last.id
      BY <2>3, LastFresh
    <3>2. /\ last \in reply.commands /\ last \in Command
          /\ last.source = s /\ last.id > old.id
      BY <2>1, <3>1 DEF FreshFor
    <3>3. AnswerTo(last) \in Answers
      <4> HIDE DEF last
      <4> QED BY <1>1, <3>2 DEF AnswerTo, Answers, Stored
    <3>4. state = [old EXCEPT !.id = last.id, !.answer = AnswerTo(last)]
      BY <2>3
    <3> HIDE DEF last, state
    <3>5. /\ state.id = last.id /\ state.withdrawn = old.withdrawn
          /\ state.revoked = old.revoked
      BY <1>1, <3>4 DEF Stored
    <3>6. last.id \in 0 .. MaxCommands BY <3>2 DEF Command
    <3>7. state \in Stored BY <1>1, <3>3, <3>4, <3>6 DEF Stored
    <3>8. \A c \in reply.commands : c.source = s => c.id <= last.id
      <4>1. TAKE c \in reply.commands
      <4>2. HAVE c.source = s
      <4>3. CASE c.id > old.id BY <3>1, <4>2, <4>3 DEF FreshFor
      <4>4. CASE ~ c.id > old.id
        <5>1. c.id \in Int /\ old.id \in Int /\ last.id \in Int
          BY <1>1, <2>1, <3>2 DEF Stored, Command
        <5> QED BY <3>2, <4>4, <5>1
      <4> QED BY <4>3, <4>4
    <3> QED
      BY <1>1, <3>2, <3>5, <3>6, <3>7, <3>8 DEF Stored
  <2> QED BY <2>2, <2>3
<1> HIDE DEF state
<1>4. CASE ~ r.known
  BY <1>1, <1>2, <1>3, <1>4 DEF Stored, Generations, None
<1>5. CASE r.known
  <2> DEFINE revoked   == Larger(state.revoked, r.revoked)
             withdrawn == IF s \in Consented /\ ~ r.read
                          THEN Larger(state.withdrawn, r.generation)
                          ELSE state.withdrawn
  <2>1. Controlled(s) = [state EXCEPT !.paused = r.paused, !.revoked = revoked,
                                      !.withdrawn = withdrawn]
    BY <1>2, <1>5
  <2>2. /\ revoked \in Generations \cup {None} /\ old.revoked <= revoked
        /\ withdrawn \in Generations \cup {None} /\ old.withdrawn <= withdrawn
        /\ withdrawn = old.withdrawn \/ (~ r.read /\ withdrawn = r.generation)
    BY <1>1, <1>3 DEF Stored, Row, Larger, Generations, None
  <2> HIDE DEF revoked, withdrawn
  <2>3. /\ Controlled(s) \in Stored /\ Controlled(s).id = state.id
        /\ Controlled(s).revoked = revoked /\ Controlled(s).withdrawn = withdrawn
    BY <1>1, <1>3, <2>1, <2>2 DEF Stored, Row
  <2> QED BY <1>3, <1>5, <2>2, <2>3
<1> QED BY <1>4, <1>5

-----------------------------------------------------------------------------
(* What a synchronisation does, part by part. *)
RowsReported(r) ==
  [s \in Sources |-> IF s \in Consented
                       THEN Reported(row[s], r.reports[s]) ELSE row[s]]
Moves(r) == {s \in Consented : Changes(row[s], r.reports[s])}
Back(r)  == Resumed(RowsReported(r), r.acks)
All(r)   == {Closed(c, r.acks) : c \in commands}

LEMMA RequestNow == TypeOK => CurrentRequest \in Request
  BY DEF TypeOK, CurrentRequest, Request, Consented

LEMMA SynchronisedParts ==
  ASSUME TypeOK, NEW r \in Request, Synchronised(r)
  PROVE  /\ RowsReported(r) \in [Sources -> Row]
         /\ row' = [s \in Sources |->
                      IF s \in Back(r) THEN [RowsReported(r)[s] EXCEPT !.paused = FALSE]
                      ELSE RowsReported(r)[s]]
         /\ held' = [s \in Sources |->
                      IF s \in Moves(r) /\ ~ r.reports[s].read THEN None ELSE held[s]]
         /\ Bump(Moves(r) # {} \/ Back(r) # {})
         /\ \E old \in SUBSET {c \in All(r) : Prunable(c, All(r))} :
              commands' = All(r) \ old
         /\ cached' = cached
<1>1. \A s \in Consented : s \in Sources /\ r.reports[s] \in Consent
  BY DEF Consented, Request
<1>2. \A s \in Sources : row[s] \in Row BY DEF TypeOK
<1>3. \A s \in Sources : RowsReported(r)[s] \in Row
  BY <1>1, <1>2, ReportedRow DEF RowsReported
<1>4. RowsReported(r) \in [Sources -> Row] BY <1>3 DEF RowsReported
<1> QED BY <1>4 DEF Synchronised, RowsReported, Moves, Back, All

LEMMA SynchronisedTypes ==
  ASSUME TypeOK, NEW r \in Request, Synchronised(r)
  PROVE  /\ row' \in [Sources -> Row] /\ commands' \subseteq Command
         /\ held' \in [Sources -> Generations \cup {None}]
         /\ moved' \in BOOLEAN /\ cached' \in [Sources -> Generations \cup {None}]
<1>1. /\ RowsReported(r) \in [Sources -> Row]
      /\ row' = [s \in Sources |->
                   IF s \in Back(r) THEN [RowsReported(r)[s] EXCEPT !.paused = FALSE]
                   ELSE RowsReported(r)[s]]
      /\ held' = [s \in Sources |->
                   IF s \in Moves(r) /\ ~ r.reports[s].read THEN None ELSE held[s]]
      /\ Bump(Moves(r) # {} \/ Back(r) # {})
      /\ commands' \subseteq All(r) /\ cached' = cached
  BY SynchronisedParts
<1>2. row' \in [Sources -> Row]
  <2> SUFFICES ASSUME NEW s \in Sources PROVE row'[s] \in Row BY <1>1
  <2>1. RowsReported(r)[s] \in Row BY <1>1
  <2>2. row'[s] = RowsReported(r)[s]
        \/ row'[s] = [RowsReported(r)[s] EXCEPT !.paused = FALSE] BY <1>1
  <2> QED BY <2>1, <2>2 DEF Row
<1>3. commands' \subseteq Command
  <2>1. \A c \in commands : c \in Command BY DEF TypeOK
  <2>2. r.acks \in SUBSET Ack BY DEF Request
  <2>3. All(r) \subseteq Command BY <2>1, <2>2, ClosedCommand DEF All
  <2> QED BY <1>1, <2>3
<1>4. held' \in [Sources -> Generations \cup {None}] BY <1>1 DEF TypeOK
<1>5. moved' \in BOOLEAN BY <1>1 DEF Bump
<1> QED BY <1>1, <1>2, <1>3, <1>4, <1>5 DEF TypeOK

-----------------------------------------------------------------------------
(* Types. *)

LEMMA AdministerTypes ==
  ASSUME TypeOK, NEW s \in Sources, NEW action \in Actions, Administer(s, action)
  PROVE  TypeOK'
<1> USE DEF TypeOK
<1>0. None \in Generations \cup {None} /\ row[s] \in Row OBVIOUS
<1>1. Effect(row[s], action) \in Row
  BY <1>0 DEF Effect, Row, Larger, Generations, None
<1>2. row' \in [Sources -> Row] BY <1>1 DEF Administer
<1>3. commands' \subseteq Command
  <2>1. row[s].generation \in Generations BY <1>0 DEF Row
  <2> QED BY <2>1 DEF Administer, Command
<1>4. held' \in [Sources -> Generations \cup {None}] BY DEF Administer
<1>5. moved' \in BOOLEAN BY DEF Administer, Bump
<1> QED BY <1>2, <1>3, <1>4, <1>5 DEF Administer, disk, memory, network

LEMMA StoreTypes ==
  ASSUME TypeOK, NEW p \in pushes, Store(p)
  PROVE  TypeOK' /\ Target(p) \in Row
<1> USE DEF TypeOK
<1>1. p.source \in Sources /\ p.generation \in Generations BY DEF Push
<1>2. Target(p) \in Row
  <2>1. 0 \in Generations /\ None \in Generations \cup {None}
    BY ConstantsAssumption DEF Generations
  <2>2. row[p.source] \in Row BY <1>1
  <2> QED BY <2>1, <2>2 DEF Target, NewRow, NoRow, Row
<1>3. row' \in [Sources -> Row] BY <1>1, <1>2 DEF Store
<1>4. held' \in [Sources -> Generations \cup {None}] BY <1>1 DEF Store
<1>5. moved' \in BOOLEAN BY DEF Store, Bump
<1> QED BY <1>2, <1>3, <1>4, <1>5 DEF Store, disk, memory

\* Each step keeps the types: one step of the proof per action.
LEMMA TypeStep ==
  ASSUME TypeOK, [Next]_vars
  PROVE  TypeOK'
<1> USE DEF TypeOK
<1>0. /\ Off \in Consent /\ NoReply \in Reply
      /\ [s \in Sources |-> Off] \in [Sources -> Consent]
      /\ \A config, state, fault : Blocks(config, state, fault) \subseteq Sources
      /\ Consented \subseteq Sources
  <2>1. 0 \in Generations BY ConstantsAssumption DEF Generations
  <2>2. NoRow \in Row BY <2>1 DEF NoRow, Row
  <2> QED BY <2>1, <2>2 DEF Off, Consent, NoReply, Reply, Blocks, Consented
<1>1. ASSUME NEW s \in Sources, NEW action \in Actions, Administer(s, action)
      PROVE  TypeOK'
  BY <1>1, AdministerTypes
<1>2. ASSUME NEW p \in pushes, Store(p) PROVE TypeOK'
  BY <1>2, StoreTypes
<1>3. ASSUME NEW s \in Sources, Retire(s) PROVE TypeOK'
  <2>1. moved' \in BOOLEAN BY <1>3 DEF Retire, Bump
  <2> QED BY <1>3, <2>1 DEF Retire, disk, memory, network
<1>4. CASE Load
  <2>1. Usable \in [Sources -> Generations \cup {None}] BY DEF Usable
  <2> QED BY <1>4, <2>1 DEF Load, disk, memory, network
<1>5. ASSUME NEW r \in late, SynchroniseLate(r) PROVE TypeOK'
  <2>1. r \in Request /\ Synchronised(r) BY <1>5 DEF SynchroniseLate
  <2>2. /\ row' \in [Sources -> Row] /\ commands' \subseteq Command
        /\ held' \in [Sources -> Generations \cup {None}]
        /\ moved' \in BOOLEAN /\ cached' \in [Sources -> Generations \cup {None}]
    BY <2>1, SynchronisedTypes
  <2> QED BY <1>5, <2>2 DEF SynchroniseLate, disk, memory
<1>6. ASSUME NEW s \in Consented, NEW read \in BOOLEAN, SetRead(s, read)
      PROVE  TypeOK'
  <2>1. consent[s].generation + 1 \in Generations
    BY <1>0, <1>6, ConstantsAssumption DEF SetRead, Generations, Consent
  <2>2. consent' \in [Sources -> Consent] BY <1>0, <1>6, <2>1 DEF SetRead, Consent
  <2> QED BY <1>6, <2>2 DEF SetRead, server, network
<1>7. CASE Ask
  BY <1>0, <1>7 DEF Ask, server, disk, network, Stages
<1>8. CASE Answer
  <2>1. CurrentRequest \in Request /\ Synchronised(CurrentRequest)
    BY <1>8, RequestNow DEF Answer
  <2>2. /\ row' \in [Sources -> Row] /\ commands' \subseteq Command
        /\ held' \in [Sources -> Generations \cup {None}]
        /\ moved' \in BOOLEAN /\ cached' \in [Sources -> Generations \cup {None}]
    BY <2>1, SynchronisedTypes
  <2>3. reply' \in Reply BY <1>8, <2>2 DEF Answer, Reply
  <2> QED BY <1>8, <2>2, <2>3 DEF Answer, disk, Stages
<1>9. CASE GiveUp
  <2>1. late' \subseteq Request BY <1>9, RequestNow DEF GiveUp
  <2> QED BY <1>0, <1>9, <2>1 DEF GiveUp, server, disk, Stages
<1>10. CASE Receive
  <2>1. stored' \in [Sources -> Stored] BY <1>10, ControlledState DEF Receive
  <2>2. acks' \subseteq Ack
    <3>1. \A c \in reply.commands :
            c.id \in 1 .. MaxCommands /\ AnswerTo(c) \in Answers
      <4>1. TAKE c \in reply.commands
      <4>2. c \in Command BY DEF Reply
      <4>3. stored[c.source] \in Stored BY <4>2 DEF Command
      <4> QED BY <4>2, <4>3 DEF AnswerTo, Answers, Stored, Command
    <3> QED BY <1>10, <3>1 DEF Receive, Ack
  <2> QED BY <1>0, <1>10, <2>1, <2>2 DEF Receive, server, Stages
<1>11. CASE SaveFails
  BY <1>0, <1>11 DEF SaveFails, server, disk, Stages
<1>12. CASE Collect
  BY <1>12 DEF Collect, server, disk, network, Stages
<1>13. ASSUME NEW s \in Sources, Send(s) PROVE TypeOK'
  <2>1. 0 \in Generations BY ConstantsAssumption DEF Generations
  <2>2. policy[s].generation \in Generations BY DEF Consent
  <2>3. pushes' \subseteq Push BY <1>13, <2>1, <2>2 DEF Send, Push
  <2> QED BY <1>13, <2>3 DEF Send, server, disk, memory
<1>14. CASE EndCycle
  BY <1>0, <1>14 DEF EndCycle, server, disk, network, Stages
<1>15. CASE Restart
  BY <1>0, <1>15 DEF Restart, server, disk, Stages
<1>16. CASE UNCHANGED vars
  BY <1>16 DEF vars, server, disk, memory, network
<1> HIDE DEF TypeOK
<1> QED
  BY <1>1, <1>2, <1>3, <1>4, <1>5, <1>6, <1>7, <1>8, <1>9, <1>10, <1>11,
     <1>12, <1>13, <1>14, <1>15, <1>16 DEF Next, CycleStep

\* The initial state has the types.
LEMMA TypeInit == Init => TypeOK
<1> SUFFICES ASSUME Init PROVE TypeOK OBVIOUS
<1>1. 0 \in Generations /\ 0 \in 0 .. MaxCommands
  BY ConstantsAssumption DEF Generations
<1>2. NoRow \in Row BY <1>1 DEF NoRow, Row
<1>3. NoReply \in Reply /\ Off \in Consent
  BY <1>1, <1>2 DEF NoReply, Reply, Off, Consent
<1>4. Fresh \in Stored BY <1>1 DEF Fresh, Stored, Answers
<1> QED BY <1>2, <1>3, <1>4 DEF Init, TypeOK, Stages

\* Every variable keeps its type, whatever the sources and the bounds
\* (SidecarSourceState, SidecarSourceCommand, source-control.json).
THEOREM TypeCorrectness == Spec => []TypeOK
<1>1. Init => TypeOK BY TypeInit
<1>2. TypeOK /\ [Next]_vars => TypeOK' BY TypeStep
<1> QED BY <1>1, <1>2, PTL DEF Spec

-----------------------------------------------------------------------------
(* Consent: the inductive step of ConsentInv. *)

LEMMA ConsentNumbers ==
  ASSUME TypeOK, NEW s \in Sources
  PROVE  /\ row[s] \in Row /\ consent[s] \in Consent /\ policy[s] \in Consent
         /\ snap[s] \in Consent /\ stored[s] \in Stored /\ reply.row[s] \in Row
         /\ row[s].generation \in Int /\ row[s].revoked \in Int
         /\ consent[s].generation \in Int /\ stored[s].withdrawn \in Int
         /\ reply.row[s].generation \in Int /\ reply.row[s].revoked \in Int
         /\ held[s] \in Int /\ None \in Int /\ consent[s].generation >= 0
         /\ row[s].known \in BOOLEAN /\ row[s].read \in BOOLEAN
  BY DEF TypeOK, Row, Consent, Stored, Reply, Generations, None

\* The row of one source after a synchronisation.
LEMMA SynchronisedRow ==
  ASSUME TypeOK, NEW r \in Request, Synchronised(r), NEW s \in Sources
  PROVE  LET new == RowsReported(r)[s]
         IN /\ new \in Row /\ row'[s] \in Row
            /\ row'[s].known = new.known /\ row'[s].read = new.read
            /\ row'[s].generation = new.generation
            /\ row'[s].revoked = new.revoked /\ row[s].revoked <= row'[s].revoked
            /\ s \notin Back(r) => row'[s] = new /\ row'[s].paused = row[s].paused
            /\ s \in Consented => new = Reported(row[s], r.reports[s]) /\ new.known
            /\ s \notin Consented => new = row[s]
            /\ s \in Back(r) => new.known
<1> DEFINE new == RowsReported(r)[s]
<1>1. new \in Row BY SynchronisedParts
<1>2. row'[s] = IF s \in Back(r) THEN [new EXCEPT !.paused = FALSE] ELSE new
  BY SynchronisedParts
<1>3. /\ s \in Consented => new = Reported(row[s], r.reports[s])
      /\ s \notin Consented => new = row[s]
  BY DEF RowsReported
<1>4. s \in Consented => r.reports[s] \in Consent BY DEF Request
<1>5. row[s] \in Row /\ row[s].revoked \in Int BY ConsentNumbers
<1>6. /\ s \in Consented => new.known
      /\ new.paused = row[s].paused /\ row[s].revoked <= new.revoked
  BY <1>3, <1>4, <1>5, ReportedRow
<1>7. s \in Back(r) => new.known BY DEF Back, Resumed
<1> HIDE DEF new
<1>8. /\ row'[s] \in Row
      /\ row'[s].known = new.known /\ row'[s].read = new.read
      /\ row'[s].generation = new.generation
      /\ row'[s].revoked = new.revoked
  BY <1>1, <1>2 DEF Row
<1> QED BY <1>1, <1>2, <1>3, <1>6, <1>7, <1>8 DEF new

ReportsPast(r) == \A s \in Consented : Past(s, r.reports[s])

\* A synchronisation, of today or late, keeps what the server knows in order.
LEMMA SynchronisedConsent ==
  ASSUME ConsentInv, NEW r \in Request, Synchronised(r), ReportsPast(r),
         UNCHANGED <<consent, stored>>
  PROVE  /\ \A s \in Consented : Past(s, row[s])'
         /\ RowsKnown' /\ TombstonesHold' /\ OffLeavesTombstone' /\ CacheIsCurrent'
         /\ \A s \in Sources : row[s].revoked <= row'[s].revoked
<1> USE DEF ConsentInv
<1>0. \A s \in Consented : s \in Sources /\ r.reports[s] \in Consent
  BY DEF Consented, Request
<1>1. ASSUME NEW s \in Consented PROVE Past(s, row[s])'
  <2>1. Past(s, row[s]) /\ Past(s, r.reports[s])
    BY DEF ConsentsPast, ReportsPast
  <2>2. s \in Sources /\ row[s] \in Row /\ r.reports[s] \in Consent
    BY <1>0, ConsentNumbers
  <2>3. /\ row'[s].read = Reported(row[s], r.reports[s]).read
        /\ row'[s].generation = Reported(row[s], r.reports[s]).generation
    BY <2>2, SynchronisedRow
  <2>4. CASE Older(row[s], r.reports[s])
    BY <2>1, <2>3, <2>4 DEF Reported, Past
  <2>5. CASE ~ Older(row[s], r.reports[s])
    BY <2>1, <2>2, <2>3, <2>5 DEF Reported, Past, Row
  <2> QED BY <2>4, <2>5
<1>2. RowsKnown'
  <2> SUFFICES ASSUME NEW s \in Sources, ~ row'[s].known PROVE row'[s] = NoRow
    BY DEF RowsKnown
  <2>1. row'[s] = row[s] BY SynchronisedRow
  <2> QED BY <2>1 DEF RowsKnown
<1>3. TombstonesHold'
  <2> SUFFICES ASSUME NEW s \in Sources, held'[s] # None
               PROVE  /\ row'[s].known /\ row'[s].read
                      /\ row'[s].revoked < held'[s] /\ held'[s] <= row'[s].generation
    BY DEF TombstonesHold
  <2>1. held'[s] = held[s] /\ ~ (s \in Moves(r) /\ ~ r.reports[s].read)
    BY SynchronisedParts
  <2>2. /\ row[s].known /\ row[s].read
        /\ row[s].revoked < held[s] /\ held[s] <= row[s].generation
    BY <2>1 DEF TombstonesHold
  <2>3. CASE s \notin Consented
    BY <2>1, <2>2, <2>3, SynchronisedRow
  <2>4. CASE s \in Consented
    <3> DEFINE c == r.reports[s]
               new == Reported(row[s], c)
    <3>1. /\ row'[s].known /\ row'[s].read = new.read
          /\ row'[s].generation = new.generation /\ row'[s].revoked = new.revoked
      BY <2>4, SynchronisedRow
    <3>2. CASE Older(row[s], c) BY <2>1, <2>2, <3>1, <3>2 DEF Reported
    <3>3. CASE ~ Older(row[s], c)
      <4>1. c \in Consent /\ row[s] \in Row BY <1>0, <2>4, ConsentNumbers
      <4>2. /\ new.read = c.read /\ new.generation = c.generation
            /\ c.read => new.revoked = row[s].revoked
        BY <3>3, <4>1 DEF Reported, Row
      <4>3. c.read
        <5>1. ~ c.read => Changes(row[s], c) BY <2>2, <4>2 DEF Changes
        <5> QED BY <2>1, <2>4, <5>1 DEF Moves
      <4>4. row[s].generation <= c.generation
        BY <2>2, <3>3, <4>1 DEF Older, Row, Consent, Generations
      <4>5. held[s] \in Int /\ row[s].generation \in Int /\ c.generation \in Int
        BY <4>1, ConsentNumbers DEF Consent, Generations
      <4> HIDE DEF new, c
      <4> QED BY <2>1, <2>2, <3>1, <4>2, <4>3, <4>4, <4>5
    <3> QED BY <3>2, <3>3
  <2> QED BY <2>3, <2>4
<1>4. OffLeavesTombstone'
  <2> SUFFICES ASSUME NEW s \in Consented, row'[s].known, ~ row'[s].read
               PROVE  row'[s].generation <= row'[s].revoked
    BY DEF OffLeavesTombstone
  <2>1. s \in Sources /\ row[s] \in Row /\ r.reports[s] \in Consent
    BY <1>0, ConsentNumbers
  <2>2. /\ row'[s].read = Reported(row[s], r.reports[s]).read
        /\ row'[s].generation = Reported(row[s], r.reports[s]).generation
        /\ row'[s].revoked = Reported(row[s], r.reports[s]).revoked
    BY <2>1, SynchronisedRow
  <2>3. CASE Older(row[s], r.reports[s])
    BY <2>1, <2>2, <2>3 DEF Reported, Older, OffLeavesTombstone
  <2>4. CASE ~ Older(row[s], r.reports[s])
    <3> DEFINE c == r.reports[s]
    <3>1. /\ row'[s].read = c.read /\ row'[s].generation = c.generation
          /\ ~ c.read => row'[s].revoked = Larger(row[s].revoked, c.generation)
      BY <2>1, <2>2, <2>4 DEF Reported, Row
    <3>2. c.generation \in Int /\ row[s].revoked \in Int
      BY <2>1, ConsentNumbers DEF Consent, Generations
    <3> QED BY <3>1, <3>2 DEF Larger
  <2> QED BY <2>3, <2>4
<1>5. CacheIsCurrent'
  <2> SUFFICES ASSUME ~ moved' PROVE cached' = Usable' BY DEF CacheIsCurrent
  <2>1. Moves(r) = {} /\ Back(r) = {} /\ ~ moved BY SynchronisedParts DEF Bump
  <2>2. cached' = Usable BY <2>1, SynchronisedParts DEF CacheIsCurrent
  <2>3. held' = held BY <2>1, SynchronisedParts DEF TypeOK
  <2>4. ASSUME NEW s \in Sources, held[s] # None
        PROVE  Allowed(row'[s], held[s]) = Allowed(row[s], held[s])
    <3>1. row[s].known BY <2>4 DEF TombstonesHold
    <3>2. row'[s].paused = row[s].paused BY <2>1, SynchronisedRow
    <3>3. CASE s \notin Consented
      BY <2>1, <3>3, SynchronisedRow
    <3>4. CASE s \in Consented
      <4>1. ~ Changes(row[s], r.reports[s]) BY <2>1, <3>4 DEF Moves
      <4>2. /\ row[s].read = Reported(row[s], r.reports[s]).read
            /\ row[s].generation = Reported(row[s], r.reports[s]).generation
            /\ row[s].revoked = Reported(row[s], r.reports[s]).revoked
        BY <4>1 DEF Changes
      <4>3. /\ row'[s].known = TRUE /\ row'[s].read = row[s].read
            /\ row'[s].generation = row[s].generation
            /\ row'[s].revoked = row[s].revoked
        <5>1. /\ row'[s].known = RowsReported(r)[s].known
              /\ row'[s].read = RowsReported(r)[s].read
              /\ row'[s].generation = RowsReported(r)[s].generation
              /\ row'[s].revoked = RowsReported(r)[s].revoked
              /\ RowsReported(r)[s] = Reported(row[s], r.reports[s])
              /\ RowsReported(r)[s].known /\ row'[s].known \in BOOLEAN
          BY <3>4, SynchronisedRow DEF Row
        <5> QED BY <4>2, <5>1
      <4>4. row[s].known = TRUE BY <3>1, ConsentNumbers
      <4> QED BY <3>2, <4>3, <4>4 DEF Allowed
    <3> QED BY <3>3, <3>4
  <2>5. Usable' = Usable
    <3>1. \A s \in Sources :
            (held'[s] # None /\ Allowed(row'[s], held'[s]))
              <=> (held[s] # None /\ Allowed(row[s], held[s]))
      BY <2>3, <2>4
    <3> QED BY <2>3, <3>1 DEF Usable
  <2> QED BY <2>2, <2>5
<1>6. \A s \in Sources : row[s].revoked <= row'[s].revoked BY SynchronisedRow
<1> QED BY <1>1, <1>2, <1>3, <1>4, <1>5, <1>6

\* A step that leaves the server alone.
LEMMA ServerUntouched ==
  ASSUME ConsentInv, UNCHANGED <<row, held, moved, cached>>
  PROVE  /\ RowsKnown' /\ TombstonesHold' /\ OffLeavesTombstone' /\ CacheIsCurrent'
         /\ \A s \in Sources : row[s].revoked <= row'[s].revoked
<1>1. \A s \in Sources : row[s].revoked \in Int BY ConsentNumbers DEF ConsentInv
<1>2. Usable' = Usable BY DEF Usable
<1> QED
  BY <1>1, <1>2 DEF ConsentInv, RowsKnown, TombstonesHold, OffLeavesTombstone,
     CacheIsCurrent

\* A step that tells the sidecar nothing.
LEMMA NothingTold ==
  ASSUME ConsentInv, UNCHANGED stored, reply' \in {reply, NoReply},
         \A s \in Sources : row[s].revoked <= row'[s].revoked,
         \A s \in Sources : row'[s].revoked \in Int
  PROVE  WithdrawalsTold'
<1> SUFFICES ASSUME NEW s \in Consented
             PROVE  /\ stored[s].withdrawn <= row'[s].revoked
                    /\ reply'.row[s].known /\ ~ reply'.row[s].read
                         => reply'.row[s].generation <= row'[s].revoked
  BY DEF WithdrawalsTold
<1>1. s \in Sources /\ ~ NoReply.row[s].known BY DEF Consented, NoReply, NoRow
<1>2. /\ row[s].revoked \in Int /\ stored[s].withdrawn \in Int
      /\ reply.row[s].generation \in Int
  BY <1>1, ConsentNumbers DEF ConsentInv
<1> QED BY <1>1, <1>2 DEF ConsentInv, WithdrawalsTold

LEMMA AdministerConsent ==
  ASSUME ConsentInv, NEW t \in Sources, NEW action \in Actions, Administer(t, action)
  PROVE  ConsentInv'
<1> USE DEF ConsentInv
<1>0. TypeOK' /\ UNCHANGED <<consent, stored, policy, snap, reply, late, pushes, cached>>
  BY AdministerTypes DEF Administer, disk, memory, network
<1>1. \A s \in Sources : /\ row[s] \in Row /\ row[s].revoked \in Int
                         /\ row[s].generation \in Int /\ held[s] \in Int
  BY ConsentNumbers
<1>2. row' = [row EXCEPT ![t] = Effect(row[t], action)] BY DEF Administer
<1>3. \A s \in Sources :
        /\ row'[s].known = row[s].known /\ row'[s].read = row[s].read
        /\ row'[s].generation = row[s].generation
        /\ row[s].revoked <= row'[s].revoked /\ row'[s].revoked \in Int
  <2>1. TAKE s \in Sources
  <2>2. CASE s = t
    <3>1. row'[t] = Effect(row[t], action) BY <1>1, <1>2 DEF TypeOK
    <3>2. row[t] \in Row /\ row[t].revoked \in Int /\ row[t].generation \in Int
      BY <1>1
    <3> QED BY <2>2, <3>1, <3>2 DEF Effect, Larger, Row
  <2>3. CASE s # t BY <1>1, <1>2, <2>3 DEF TypeOK
  <2> QED BY <2>2, <2>3
<1>4. ConsentsPast'
  BY <1>0, <1>3 DEF ConsentsPast, Past, Consented
<1>5. RowsKnown'
  <2> SUFFICES ASSUME NEW s \in Sources, ~ row'[s].known PROVE row'[s] = NoRow
    BY DEF RowsKnown
  <2>1. ~ row[s].known /\ row[t].known BY <1>3 DEF Administer
  <2> QED BY <1>2, <2>1 DEF RowsKnown, TypeOK
<1>6. TombstonesHold'
  <2> SUFFICES ASSUME NEW s \in Sources, held'[s] # None
               PROVE  /\ row'[s].known /\ row'[s].read
                      /\ row'[s].revoked < held'[s] /\ held'[s] <= row'[s].generation
    BY DEF TombstonesHold
  <2>1. held'[s] = held[s] /\ ~ (action = "revoke" /\ s = t)
    BY DEF Administer, TypeOK
  <2>2. row'[s].revoked = row[s].revoked
    BY <1>1, <1>2, <2>1 DEF Effect, Row, TypeOK
  <2> QED BY <1>3, <2>1, <2>2 DEF TombstonesHold
<1>7. OffLeavesTombstone'
  <2> SUFFICES ASSUME NEW s \in Consented, row'[s].known, ~ row'[s].read
               PROVE  row'[s].generation <= row'[s].revoked
    BY DEF OffLeavesTombstone
  <2>1. s \in Sources BY DEF Consented
  <2>2. row[s].generation <= row[s].revoked
    BY <1>3, <2>1 DEF OffLeavesTombstone
  <2>3. /\ row'[s].generation = row[s].generation /\ row[s].generation \in Int
        /\ row[s].revoked <= row'[s].revoked
        /\ row'[s].revoked \in Int /\ row[s].revoked \in Int
    BY <1>1, <1>3, <2>1
  <2> QED BY <2>2, <2>3
<1>8. WithdrawalsTold' BY <1>0, <1>3, NothingTold
<1>9. CacheIsCurrent'
  <2> SUFFICES ASSUME ~ moved' PROVE cached' = Usable' BY DEF CacheIsCurrent
  <2>1. ~ moved /\ action \notin {"pause", "revoke"} BY DEF Administer, Bump
  <2>2. row' = row /\ held' = held
    BY <1>2, <2>1 DEF Administer, Effect, TypeOK
  <2> QED BY <1>0, <2>1, <2>2 DEF CacheIsCurrent, Usable
<1> QED BY <1>0, <1>4, <1>5, <1>6, <1>7, <1>8, <1>9

LEMMA StoreConsent ==
  ASSUME ConsentInv, NEW p \in pushes, Store(p)
  PROVE  ConsentInv'
<1> USE DEF ConsentInv
<1> DEFINE t == p.source
<1>0. /\ TypeOK' /\ Target(p) \in Row /\ pushes' \subseteq pushes
      /\ UNCHANGED <<consent, stored, policy, snap, reply, late, cached>>
  BY StoreTypes DEF Store, disk, memory
<1>1. t \in Sources /\ p.generation \in Int BY DEF TypeOK, Push, Generations
<1>2. row' = [row EXCEPT ![t] = Target(p)] BY DEF Store
<1>3. /\ Target(p) = row[t] \/ (t \notin Consented /\ ~ row[t].known /\ Target(p) = NewRow)
      /\ held[t] # None => Target(p) = row[t]
  BY <1>1 DEF Target, Consented, TombstonesHold
<1>4. /\ \A s \in Sources \ {t} : row'[s] = row[s] /\ held'[s] = held[s]
      /\ row'[t] = Target(p)
      /\ \A s \in Consented : row'[s] = row[s]
  BY <1>1, <1>2, <1>3 DEF Store, TypeOK, Consented
<1>5. \A s \in Sources : /\ row[s].revoked \in Int /\ row'[s].revoked \in Int
                         /\ row[s].revoked <= row'[s].revoked
  <2>1. TAKE s \in Sources
  <2>2. row[s].revoked \in Int BY ConsentNumbers
  <2>3. row'[s] = row[s] \/ (~ row[s].known /\ row'[s] = NewRow)
    BY <1>3, <1>4
  <2>4. row'[s].revoked = row[s].revoked
    <3>1. CASE row'[s] = row[s] BY <3>1
    <3>2. CASE ~ row[s].known /\ row'[s] = NewRow
      <4>1. row[s] = NoRow BY <3>2 DEF RowsKnown
      <4>2. NewRow.revoked = NoRow.revoked BY DEF NewRow, NoRow
      <4> QED BY <3>2, <4>1, <4>2
    <3> QED BY <2>3, <3>1, <3>2
  <2> QED BY <2>2, <2>4
<1>6. ConsentsPast' BY <1>0, <1>4 DEF ConsentsPast, Past
<1>7. RowsKnown'
  <2> SUFFICES ASSUME NEW s \in Sources, ~ row'[s].known PROVE row'[s] = NoRow
    BY DEF RowsKnown
  <2>1. row'[s] = row[s] \/ row'[s] = NewRow BY <1>3, <1>4
  <2> QED BY <2>1 DEF RowsKnown, NewRow, NoRow
<1>8. TombstonesHold'
  <2> SUFFICES ASSUME NEW s \in Sources, held'[s] # None
               PROVE  /\ row'[s].known /\ row'[s].read
                      /\ row'[s].revoked < held'[s] /\ held'[s] <= row'[s].generation
    BY DEF TombstonesHold
  <2>1. CASE s # t BY <1>4, <2>1 DEF TombstonesHold
  <2>2. CASE s = t
    <3>1. CASE Allowed(Target(p), p.generation)
      <4>1. held'[t] = p.generation BY <1>1, <3>1 DEF Store, TypeOK
      <4>2. /\ Target(p).known /\ Target(p).read
            /\ p.generation = Target(p).generation /\ p.generation > Target(p).revoked
        BY <3>1 DEF Allowed
      <4>3. Target(p).revoked \in Int
        BY <1>0 DEF Row, Generations, None
      <4> QED BY <1>1, <1>4, <2>2, <4>1, <4>2, <4>3
    <3>2. CASE ~ Allowed(Target(p), p.generation)
      <4>1. held'[t] = held[t] BY <3>2 DEF Store
      <4> QED BY <1>3, <1>4, <2>2, <4>1 DEF TombstonesHold
    <3> QED BY <3>1, <3>2
  <2> QED BY <2>1, <2>2
<1>9. OffLeavesTombstone' BY <1>4 DEF OffLeavesTombstone
<1>10. WithdrawalsTold' BY <1>0, <1>5, NothingTold
<1>11. CacheIsCurrent'
  <2> SUFFICES ASSUME ~ moved' PROVE cached' = Usable' BY DEF CacheIsCurrent
  <2>1. row' = row /\ held' = held /\ ~ moved
    <3>1. CASE Allowed(Target(p), p.generation)
      <4>1. /\ held' = [held EXCEPT ![t] = p.generation]
            /\ held[t] = p.generation /\ moved' = moved
        BY <3>1 DEF Store, Bump
      <4>2. held[t] # None BY <1>1, <4>1 DEF TypeOK, Push, Generations, None
      <4> QED BY <1>1, <1>2, <1>3, <4>1, <4>2 DEF TypeOK
    <3>2. CASE ~ Allowed(Target(p), p.generation)
      <4>1. held' = held /\ ~ moved /\ row'[t] = row[t] BY <3>2 DEF Store, Bump
      <4> QED BY <1>1, <1>2, <1>4, <4>1 DEF TypeOK
    <3> QED BY <3>1, <3>2
  <2> QED BY <1>0, <2>1 DEF CacheIsCurrent, Usable
<1> QED BY <1>0, <1>6, <1>7, <1>8, <1>9, <1>10, <1>11

\* Every step keeps ConsentInv: one step of the proof per action.
LEMMA ConsentStep ==
  ASSUME ConsentInv, [Next]_vars
  PROVE  ConsentInv'
<1> USE DEF ConsentInv
<1>0. TypeOK' /\ \A s \in Consented : s \in Sources
  BY TypeStep DEF Consented
<1>1. \A s \in Sources :
        /\ consent[s] \in Consent /\ consent[s].generation \in Int
        /\ consent[s].generation >= 0
        /\ row[s].revoked \in Int /\ row'[s].revoked \in Int
  <2>1. TAKE s \in Sources
  <2>2. row'[s] \in Row BY <1>0 DEF TypeOK
  <2> QED BY <2>2, ConsentNumbers DEF Row, Generations, None
<1>2. ASSUME NEW s \in Sources, NEW action \in Actions, Administer(s, action)
      PROVE  ConsentInv'
  BY <1>2, AdministerConsent
<1>3. ASSUME NEW p \in pushes, Store(p) PROVE ConsentInv'
  BY <1>3, StoreConsent
<1>4. ASSUME NEW t \in Sources, Retire(t) PROVE ConsentInv'
  <2>1. UNCHANGED <<row, consent, stored, policy, snap, reply, late, pushes>>
    BY <1>4 DEF Retire, disk, memory, network
  <2>2. ConsentsPast' BY <2>1 DEF ConsentsPast, Past
  <2>3. RowsKnown' /\ OffLeavesTombstone'
    BY <2>1 DEF RowsKnown, OffLeavesTombstone
  <2>4. TombstonesHold'
    BY <1>4, <2>1 DEF Retire, TombstonesHold, TypeOK
  <2>5. WithdrawalsTold' BY <2>1 DEF WithdrawalsTold
  <2>6. CacheIsCurrent' BY <1>4 DEF Retire, Bump, CacheIsCurrent
  <2> QED BY <1>0, <2>2, <2>3, <2>4, <2>5, <2>6
<1>5. CASE Load
  <2>1. UNCHANGED <<row, held, consent, stored, policy, snap, reply, late, pushes>>
    BY <1>5 DEF Load, disk, memory, network
  <2>2. ConsentsPast' BY <2>1 DEF ConsentsPast, Past
  <2>3. RowsKnown' /\ OffLeavesTombstone' /\ TombstonesHold' /\ WithdrawalsTold'
    BY <2>1 DEF RowsKnown, OffLeavesTombstone, TombstonesHold, WithdrawalsTold
  <2>4. CacheIsCurrent' BY <1>5, <2>1 DEF Load, CacheIsCurrent, Usable
  <2> QED BY <1>0, <2>2, <2>3, <2>4
<1>6. ASSUME NEW r \in late, SynchroniseLate(r) PROVE ConsentInv'
  <2>1. /\ r \in Request /\ Synchronised(r) /\ late' \subseteq late
        /\ UNCHANGED <<consent, stored, policy, snap, reply, pushes>>
    BY <1>6 DEF SynchroniseLate, disk, memory, TypeOK
  <2>2. ReportsPast(r) BY DEF ReportsPast, ConsentsPast
  <2>3. /\ \A s \in Consented : Past(s, row[s])'
        /\ RowsKnown' /\ TombstonesHold' /\ OffLeavesTombstone' /\ CacheIsCurrent'
        /\ \A s \in Sources : row[s].revoked <= row'[s].revoked
    BY <2>1, <2>2, SynchronisedConsent
  <2>4. ConsentsPast' BY <2>1, <2>3 DEF ConsentsPast, Past
  <2>5. WithdrawalsTold' BY <1>1, <2>1, <2>3, NothingTold
  <2> QED BY <1>0, <2>3, <2>4, <2>5
<1>7. CASE Answer
  <2>1. /\ CurrentRequest \in Request /\ Synchronised(CurrentRequest)
        /\ reply'.row = row'
        /\ UNCHANGED <<consent, stored, policy, snap, late, pushes>>
    BY <1>7, RequestNow DEF Answer, disk
  <2>2. ReportsPast(CurrentRequest)
    BY DEF ReportsPast, CurrentRequest, ConsentsPast
  <2>3. /\ \A s \in Consented : Past(s, row[s])'
        /\ RowsKnown' /\ TombstonesHold' /\ OffLeavesTombstone' /\ CacheIsCurrent'
        /\ \A s \in Sources : row[s].revoked <= row'[s].revoked
    BY <2>1, <2>2, SynchronisedConsent
  <2>4. ConsentsPast' BY <2>1, <2>3 DEF ConsentsPast, Past
  <2>5. WithdrawalsTold'
    <3> SUFFICES ASSUME NEW s \in Consented
                 PROVE  /\ stored[s].withdrawn <= row'[s].revoked
                        /\ row'[s].known /\ ~ row'[s].read
                             => row'[s].generation <= row'[s].revoked
      BY <2>1 DEF WithdrawalsTold
    <3>1. s \in Sources /\ stored[s].withdrawn \in Int
      BY <1>0, ConsentNumbers
    <3>2. stored[s].withdrawn <= row[s].revoked BY DEF WithdrawalsTold
    <3> QED BY <1>1, <2>3, <3>1, <3>2 DEF OffLeavesTombstone
  <2> QED BY <1>0, <2>3, <2>4, <2>5
<1>8. ASSUME NEW t \in Consented, NEW read \in BOOLEAN, SetRead(t, read)
      PROVE  ConsentInv'
  <2>1. /\ UNCHANGED <<row, held, moved, cached, stored, snap, reply, late, pushes>>
        /\ consent' = [consent EXCEPT
             ![t] = [read |-> read, generation |-> consent[t].generation + 1]]
        /\ policy' = consent'
    BY <1>8 DEF SetRead, server, network
  <2>2. \A s \in Sources :
          \/ consent'[s] = consent[s]
          \/ consent'[s].generation = consent[s].generation + 1
    BY <2>1 DEF TypeOK
  <2>3. ASSUME NEW s \in Consented, NEW c, c.generation \in Int, Past(s, c)
        PROVE  /\ c.generation <= consent'[s].generation
               /\ c.generation = consent'[s].generation => c.read = consent'[s].read
    BY <1>0, <1>1, <2>2, <2>3 DEF Past
  <2>4. ConsentsPast'
    <3> SUFFICES ASSUME NEW s \in Consented
                 PROVE  /\ Past(s, Off)' /\ Past(s, row[s])' /\ Past(s, policy[s])'
                        /\ Past(s, snap[s])'
                        /\ \A r \in late : Past(s, r.reports[s])'
                        /\ \A p \in pushes : p.source = s =>
                             Past(s, [read |-> TRUE, generation |-> p.generation])'
      BY <2>1 DEF ConsentsPast, Past
    <3>1. /\ Off.generation \in Int /\ row[s].generation \in Int
          /\ snap[s].generation \in Int
          /\ \A r \in late : r.reports[s].generation \in Int
          /\ \A p \in pushes : p.generation \in Int
      <4>1. row[s] \in Row /\ snap[s] \in Consent BY <1>0, ConsentNumbers
      <4>2. \A r \in late : r.reports[s] \in Consent BY DEF TypeOK, Request
      <4> QED BY <4>1, <4>2 DEF Off, Row, Consent, Generations, TypeOK, Push
    <3>2. Past(s, Off)' /\ Past(s, row[s])' /\ Past(s, snap[s])'
      BY <2>1, <2>3, <3>1 DEF ConsentsPast, Past
    <3>3. Past(s, policy[s])'
      <4>1. consent'[s].generation \in Int
        BY <1>0 DEF TypeOK, Consent, Generations
      <4> QED BY <2>1, <4>1 DEF Past
    <3>4. \A r \in late : Past(s, r.reports[s])'
      BY <2>3, <3>1 DEF ConsentsPast, Past
    <3>5. ASSUME NEW p \in pushes, p.source = s
          PROVE  Past(s, [read |-> TRUE, generation |-> p.generation])'
      BY <2>3, <3>1, <3>5 DEF ConsentsPast, Past
    <3> QED BY <3>2, <3>3, <3>4, <3>5
  <2>5. /\ RowsKnown' /\ TombstonesHold' /\ OffLeavesTombstone' /\ CacheIsCurrent'
    BY <2>1, ServerUntouched
  <2>6. WithdrawalsTold' BY <2>1 DEF WithdrawalsTold
  <2> QED BY <1>0, <2>4, <2>5, <2>6
<1>9. CASE Ask \/ Collect \/ EndCycle \/ GiveUp \/ SaveFails \/ Restart
  <2>1. /\ UNCHANGED <<row, held, moved, cached, consent, stored, pushes>>
        /\ reply' \in {reply, NoReply} /\ late' \subseteq late \cup {CurrentRequest}
        /\ policy' \in {policy, snap, consent}
        /\ snap' \in {snap, consent, [s \in Sources |-> Off]}
    BY <1>9 DEF Ask, Collect, EndCycle, GiveUp, SaveFails, Restart,
                server, disk, network
  <2>2. ConsentsPast'
    <3>1. \A s \in Consented : Past(s, consent[s]) BY <1>0, <1>1 DEF Past
    <3>2. ASSUME NEW s \in Consented
          PROVE  Past(s, policy'[s]) /\ Past(s, snap'[s])
      <4>1. Past(s, policy'[s]) BY <2>1, <3>1 DEF ConsentsPast
      <4>2. [u \in Sources |-> Off][s] = Off BY <1>0
      <4>3. Past(s, snap'[s]) BY <2>1, <3>1, <4>2 DEF ConsentsPast
      <4> QED BY <4>1, <4>3
    <3>3. \A s \in Consented, r \in late' : Past(s, r.reports[s])
      BY <2>1 DEF ConsentsPast, CurrentRequest
    <3> QED BY <2>1, <3>2, <3>3 DEF ConsentsPast, Past
  <2>3. /\ RowsKnown' /\ TombstonesHold' /\ OffLeavesTombstone' /\ CacheIsCurrent'
        /\ \A s \in Sources : row[s].revoked <= row'[s].revoked
    BY <2>1, ServerUntouched
  <2>4. WithdrawalsTold' BY <1>1, <2>1, <2>3, NothingTold
  <2> QED BY <1>0, <2>2, <2>3, <2>4
<1>10. CASE Receive
  <2>1. /\ UNCHANGED <<row, held, moved, cached, consent, policy, snap, late, pushes>>
        /\ stored' = [s \in Sources |-> Controlled(s)] /\ reply' = NoReply
    BY <1>10 DEF Receive, server
  <2>2. ConsentsPast' BY <2>1 DEF ConsentsPast, Past
  <2>3. /\ RowsKnown' /\ TombstonesHold' /\ OffLeavesTombstone' /\ CacheIsCurrent'
    BY <2>1, ServerUntouched
  <2>4. WithdrawalsTold'
    <3> SUFFICES ASSUME NEW s \in Consented
                 PROVE  /\ stored'[s].withdrawn <= row[s].revoked
                        /\ ~ reply'.row[s].known
      BY <2>1 DEF WithdrawalsTold
    <3>1. s \in Sources /\ ~ NoReply.row[s].known
      BY <1>0 DEF NoReply, NoRow
    <3>2. \/ Controlled(s).withdrawn = stored[s].withdrawn
          \/ /\ reply.row[s].known /\ ~ reply.row[s].read
             /\ Controlled(s).withdrawn = reply.row[s].generation
      BY <3>1, ControlledState
    <3> QED BY <2>1, <3>1, <3>2 DEF WithdrawalsTold
  <2> QED BY <1>0, <2>2, <2>3, <2>4
<1>11. ASSUME NEW t \in Sources, Send(t) PROVE ConsentInv'
  <2>1. /\ UNCHANGED <<row, held, moved, cached, consent, stored, policy, snap,
                       reply, late>>
        /\ pushes' = pushes \cup
             {[source |-> t, generation |->
                 IF t \in Consented THEN policy[t].generation ELSE 0]}
        /\ t \in Consented => policy[t].read
    BY <1>11 DEF Send, Ticket, server, disk, memory
  <2>2. ConsentsPast'
    <3> SUFFICES ASSUME NEW s \in Consented, NEW p \in pushes', p.source = s
                 PROVE  Past(s, [read |-> TRUE, generation |-> p.generation])
      BY <2>1 DEF ConsentsPast, Past
    <3>1. CASE p \in pushes BY <3>1 DEF ConsentsPast
    <3>2. CASE p \notin pushes
      <4>1. s = t /\ p.generation = policy[s].generation /\ policy[s].read
        BY <2>1, <3>2
      <4>2. policy[s].read = TRUE BY <1>0, <4>1 DEF TypeOK, Consent
      <4> QED BY <4>1, <4>2 DEF ConsentsPast, Past
    <3> QED BY <3>1, <3>2
  <2>3. /\ RowsKnown' /\ TombstonesHold' /\ OffLeavesTombstone' /\ CacheIsCurrent'
    BY <2>1, ServerUntouched
  <2>4. WithdrawalsTold' BY <2>1 DEF WithdrawalsTold
  <2> QED BY <1>0, <2>2, <2>3, <2>4
<1>12. CASE UNCHANGED vars
  <2>1. UNCHANGED <<row, held, moved, cached, consent, stored, policy, snap,
                    reply, late, pushes>>
    BY <1>12 DEF vars, server, disk, memory, network
  <2>2. ConsentsPast' BY <2>1 DEF ConsentsPast, Past
  <2>3. /\ RowsKnown' /\ TombstonesHold' /\ OffLeavesTombstone' /\ CacheIsCurrent'
    BY <2>1, ServerUntouched
  <2>4. WithdrawalsTold' BY <2>1 DEF WithdrawalsTold
  <2> QED BY <1>0, <2>2, <2>3, <2>4
<1> HIDE DEF ConsentInv
<1> QED
  BY <1>2, <1>3, <1>4, <1>5, <1>6, <1>7, <1>8, <1>9, <1>10, <1>11, <1>12
     DEF Next, CycleStep

LEMMA ConsentInit == Init => ConsentInv
<1> SUFFICES ASSUME Init PROVE ConsentInv OBVIOUS
<1>1. TypeOK BY TypeInit
<1>2. \A s \in Consented : s \in Sources BY DEF Consented
<1>3. /\ \A s \in Sources : /\ row[s] = NoRow /\ held[s] = None /\ consent[s] = Off
                            /\ policy[s] = Off /\ snap[s] = Off /\ stored[s] = Fresh
                            /\ reply.row[s] = NoRow
      /\ late = {} /\ pushes = {} /\ moved
  BY DEF Init, NoReply
<1>4. /\ ~ NoRow.known /\ NoRow.read = FALSE /\ NoRow.generation = 0
      /\ NoRow.revoked = None
      /\ Off.read = FALSE /\ Off.generation = 0 /\ Fresh.withdrawn = None
      /\ None \in Int
  BY DEF NoRow, Off, Fresh, None
<1>5. ConsentsPast
  <2>1. \A s \in Consented : Past(s, Off) /\ Past(s, NoRow)
    <3>1. TAKE s \in Consented
    <3>2. consent[s] = Off BY <1>2, <1>3
    <3>3. /\ Off.generation <= consent[s].generation
          /\ NoRow.generation <= consent[s].generation
      BY <1>4, <3>2
    <3>4. Off.read = consent[s].read /\ NoRow.read = consent[s].read
      <4>1. NoRow.read = Off.read BY DEF Off, NoRow
      <4> QED BY <3>2, <4>1
    <3> QED BY <3>3, <3>4 DEF Past
  <2> QED BY <1>2, <1>3, <2>1 DEF ConsentsPast
<1>6. RowsKnown /\ TombstonesHold /\ OffLeavesTombstone /\ CacheIsCurrent
  BY <1>2, <1>3, <1>4
     DEF RowsKnown, TombstonesHold, OffLeavesTombstone, CacheIsCurrent
<1>7. WithdrawalsTold BY <1>2, <1>3, <1>4 DEF WithdrawalsTold
<1> QED BY <1>1, <1>5, <1>6, <1>7 DEF ConsentInv

LEMMA ConsentInvariance == Spec => []ConsentInv
<1>1. Init => ConsentInv BY ConsentInit
<1>2. ConsentInv /\ [Next]_vars => ConsentInv' BY ConsentStep
<1> QED BY <1>1, <1>2, PTL DEF Spec

\* A withdrawal is final: no report, credential or retry, however late, brings
\* a credential back at or below the tombstone (apply_report(),
\* save_contribution()).
THEOREM WithdrawalsAreFinal == Spec => []TombstonesHold
<1>1. ConsentInv => TombstonesHold BY DEF ConsentInv
<1> QED BY <1>1, ConsentInvariance, PTL

\* A token cache that sees no new revision is the one a load would build
\* (bump() and read_snapshot() of source_controls.py).
THEOREM CacheStaysCurrent == Spec => []CacheIsCurrent
<1>1. ConsentInv => CacheIsCurrent BY DEF ConsentInv
<1> QED BY <1>1, ConsentInvariance, PTL

\* A settings page that shows a source as off, no longer as pending, tells the
\* truth about the server (source_settings.py report(), _receive()).
THEOREM SettingsTellTheTruth == Spec => []OffMeansWithdrawn
<1>1. ConsentInv => OffMeansWithdrawn
  <2> SUFFICES ASSUME ConsentInv, NEW s \in Consented, ~ consent[s].read,
                      consent[s].generation <= stored[s].withdrawn
               PROVE  row[s].revoked >= consent[s].generation /\ held[s] = None
    BY DEF OffMeansWithdrawn
  <2>1. s \in Sources /\ Past(s, row[s]) /\ stored[s].withdrawn <= row[s].revoked
    BY DEF Consented, ConsentInv, ConsentsPast, WithdrawalsTold
  <2>2. /\ row[s].generation \in Int /\ consent[s].generation \in Int
        /\ held[s] \in Int /\ row[s].revoked \in Int /\ stored[s].withdrawn \in Int
    BY <2>1, ConsentNumbers DEF ConsentInv
  <2>3. held[s] # None =>
          row[s].revoked < held[s] /\ held[s] <= row[s].generation
    BY <2>1 DEF ConsentInv, TombstonesHold
  <2> QED BY <2>1, <2>2, <2>3 DEF Past
<1> QED BY <1>1, ConsentInvariance, PTL

-----------------------------------------------------------------------------
(* Commands: the inductive step of CommandInv. *)

\* The commands after a synchronisation are commands from before, closed or
\* not; pruning leaves a later number of the same source behind.
LEMMA SynchronisedCommands ==
  ASSUME TypeOK, NEW r \in Request, Synchronised(r)
  PROVE  /\ \A d \in commands' : \E c \in commands :
              /\ d = Closed(c, r.acks) /\ d.id = c.id /\ d.source = c.source
         /\ \A c \in commands : \E d \in commands' : c.id <= d.id
<1>1. PICK old \in SUBSET {c \in All(r) : Prunable(c, All(r))} :
        commands' = All(r) \ old
  BY SynchronisedParts
<1>2. \A c \in commands : /\ c \in Command /\ c.id \in Int
                          /\ Closed(c, r.acks) \in All(r)
                          /\ Closed(c, r.acks).id = c.id
                          /\ Closed(c, r.acks).source = c.source
  <2>1. r.acks \in SUBSET Ack BY DEF Request
  <2>2. TAKE c \in commands
  <2>3. c \in Command BY DEF TypeOK
  <2> QED BY <2>1, <2>3, ClosedCommand DEF All, Command
<1>3. \A d \in commands' : \E c \in commands :
        /\ d = Closed(c, r.acks) /\ d.id = c.id /\ d.source = c.source
  BY <1>1, <1>2 DEF All
<1>4. ASSUME NEW c \in commands PROVE \E d \in commands' : c.id <= d.id
  <2> DEFINE e == Closed(c, r.acks)
  <2>1. e \in All(r) /\ e.id = c.id /\ c.id \in Int BY <1>2
  <2>2. CASE e \notin old BY <1>1, <2>1, <2>2
  <2>3. CASE e \in old
    <3>1. PICK d \in All(r) : d.source = e.source /\ d.id > e.id /\ Latest(d, All(r))
      BY <1>1, <2>3 DEF Prunable
    <3>2. d.id \in Int BY <1>2, <3>1 DEF All
    <3>3. ~ Prunable(d, All(r))
      <4>1. SUFFICES ASSUME NEW f \in All(r), f.source = d.source, f.id > d.id
                     PROVE  FALSE
        BY DEF Prunable
      <4>2. f.id <= d.id BY <3>1, <4>1 DEF Latest
      <4>3. f.id \in Int BY <1>2 DEF All
      <4> QED BY <3>2, <4>1, <4>2, <4>3
    <3>4. d \in commands' BY <1>1, <3>1, <3>3
    <3> HIDE DEF e
    <3> QED BY <2>1, <3>1, <3>2, <3>4
  <2> QED BY <2>2, <2>3
<1> QED BY <1>3, <1>4

\* A step that keeps the rows of commands, adds no acknowledgment and moves no
\* number of the sidecar back.
LEMMA CommandsKept ==
  ASSUME CommandInv, TypeOK', UNCHANGED commands, AllAcks' \subseteq AllAcks,
         reply' \in {reply, NoReply}, UNCHANGED stored
  PROVE  CommandInv'
<1> USE DEF CommandInv
<1>1. \A n : Behind(n)' <=> Behind(n) BY DEF Behind
<1>2. reply'.commands \subseteq reply.commands BY DEF NoReply
<1>3. NumbersBehind' BY <1>1, <1>2 DEF NumbersBehind
<1>4. OneRowPerNumber' BY <1>2 DEF OneRowPerNumber
<1>5. AcksProcessed' BY DEF AcksProcessed
<1> QED BY <1>3, <1>4, <1>5

LEMMA SynchronisedNumbers ==
  ASSUME CommandInv, NEW r \in Request, Synchronised(r), TypeOK',
         AllAcks' \subseteq AllAcks, UNCHANGED stored,
         reply'.commands \subseteq reply.commands \cup commands'
  PROVE  CommandInv'
<1> USE DEF CommandInv
<1>1. /\ \A d \in commands' : \E c \in commands :
           /\ d = Closed(c, r.acks) /\ d.id = c.id /\ d.source = c.source
      /\ \A c \in commands : \E d \in commands' : c.id <= d.id
  BY SynchronisedCommands
<1>2. /\ \A c \in commands : c.id \in Int
      /\ \A c \in commands' : c.id \in Int
      /\ \A c \in reply.commands : c.id \in Int
      /\ \A a \in AllAcks : a.id \in Int
      /\ \A s \in Sources : stored[s].id \in Int
  BY DEF TypeOK, Command, Reply, AllAcks, Ack, Request, Stored
<1>4. NumbersBehind'
  <2> DEFINE Covers(m) == \E d \in commands' : m <= d.id
  <2>0. \A m \in Int : Behind(m) => Covers(m) BY <1>1, <1>2 DEF Behind
  <2> HIDE DEF Covers
  <2>1. ASSUME NEW s \in Sources, stored'[s].id > 0 PROVE Covers(stored'[s].id)
    <3>1. stored[s].id \in Int /\ stored'[s].id = stored[s].id BY <1>2
    <3>2. Behind(stored[s].id) BY <2>1, <3>1 DEF NumbersBehind
    <3> QED BY <2>0, <3>1, <3>2
  <2>2. ASSUME NEW a \in AllAcks' PROVE Covers(a.id)
    <3>1. a \in AllAcks /\ a.id \in Int BY <1>2
    <3>2. Behind(a.id) BY <3>1 DEF NumbersBehind
    <3> QED BY <2>0, <3>1, <3>2
  <2>3. ASSUME NEW c \in reply'.commands PROVE Covers(c.id)
    <3>1. CASE c \in reply.commands
      <4>1. Behind(c.id) /\ c.id \in Int BY <1>2, <3>1 DEF NumbersBehind
      <4> QED BY <2>0, <4>1
    <3>2. CASE c \in commands' BY <1>2, <3>2 DEF Covers
    <3> QED BY <3>1, <3>2
  <2> QED BY <2>1, <2>2, <2>3 DEF NumbersBehind, Behind, Covers
<1>5. OneRowPerNumber'
  <2>1. \A c, d \in commands' : c.id = d.id => c = d
    BY <1>1 DEF OneRowPerNumber
  <2>2. \A c \in reply'.commands, d \in commands' : c.id = d.id => c.source = d.source
    <3>1. TAKE c \in reply'.commands, d \in commands'
    <3>2. CASE c \in commands' BY <2>1, <3>2
    <3>3. CASE c \in reply.commands BY <1>1, <3>3 DEF OneRowPerNumber
    <3> QED BY <3>2, <3>3
  <2> QED BY <2>1, <2>2 DEF OneRowPerNumber
<1>6. AcksProcessed'
  <2> SUFFICES ASSUME NEW a \in AllAcks, NEW d \in commands', a.id = d.id
               PROVE  a.id <= stored[d.source].id
    BY DEF AcksProcessed
  <2>1. PICK c \in commands : d.id = c.id /\ d.source = c.source BY <1>1
  <2> QED BY <2>1 DEF AcksProcessed
<1> QED BY <1>4, <1>5, <1>6

LEMMA AdministerNumbers ==
  ASSUME CommandInv, NEW t \in Sources, NEW action \in Actions, Administer(t, action)
  PROVE  CommandInv'
<1> USE DEF CommandInv
<1>0. TypeOK' /\ UNCHANGED <<stored, acks, late, reply>>
  BY AdministerTypes DEF Administer, disk, memory, network
<1>1. PICK n \in 1 .. MaxCommands :
        /\ IsNextId(n)
        /\ commands' = commands \cup
             {[id |-> n, source |-> t, action |-> action,
               generation |-> row[t].generation, answer |-> "pending"]}
  BY DEF Administer
<1> DEFINE new == [id |-> n, source |-> t, action |-> action,
                   generation |-> row[t].generation, answer |-> "pending"]
<1>2. /\ \A c \in commands : c.id < n /\ c.id \in Int
      /\ new.id = n /\ new.source = t /\ n \in Int
  BY <1>1 DEF IsNextId, TypeOK, Command
<1>3. commands' = commands \cup {new} BY <1>1
<1> HIDE DEF new
<1>4. \A m : Behind(m) => Behind(m)' BY <1>3 DEF Behind
<1>5. AllAcks' = AllAcks BY <1>0 DEF AllAcks
<1>6. \A m \in Int : Behind(m) => m < n BY <1>2 DEF Behind
<1>7. NumbersBehind' BY <1>0, <1>4, <1>5 DEF NumbersBehind
<1>8. OneRowPerNumber'
  <2>1. \A c, d \in commands' : c.id = d.id => c = d
    BY <1>2, <1>3 DEF OneRowPerNumber
  <2>2. \A c \in reply.commands : c.id < n
    <3>1. TAKE c \in reply.commands
    <3>2. c.id \in Int BY DEF TypeOK, Reply, Command
    <3> QED BY <1>6, <3>2 DEF NumbersBehind
  <2> QED BY <1>0, <1>2, <1>3, <2>1, <2>2 DEF OneRowPerNumber, TypeOK, Reply, Command
<1>9. AcksProcessed'
  <2> SUFFICES ASSUME NEW a \in AllAcks, NEW c \in commands', a.id = c.id
               PROVE  a.id <= stored[c.source].id
    BY <1>0, <1>5 DEF AcksProcessed
  <2>1. a.id \in Int BY DEF TypeOK, AllAcks, Request, Ack
  <2>2. a.id < n BY <1>6, <2>1 DEF NumbersBehind
  <2>3. c \in commands BY <1>2, <1>3, <2>1, <2>2
  <2> QED BY <2>3 DEF AcksProcessed
<1> QED BY <1>0, <1>7, <1>8, <1>9

LEMMA ReceiveNumbers ==
  ASSUME CommandInv, Receive, TypeOK'
  PROVE  CommandInv'
<1> USE DEF CommandInv
<1>1. /\ UNCHANGED <<commands, late>> /\ reply' = NoReply
      /\ stored' = [s \in Sources |-> Controlled(s)]
      /\ acks' = {[id |-> c.id, answer |-> AnswerTo(c)] : c \in reply.commands}
  BY DEF Receive, server
<1>2. \A s \in Sources :
        /\ stored[s].id <= stored'[s].id
        /\ \A c \in reply.commands : c.source = s => c.id <= stored'[s].id
        /\ stored'[s].id = stored[s].id \/ \E c \in reply.commands : stored'[s].id = c.id
  BY <1>1, ControlledState
<1>4. \A a \in AllAcks' : a \in AllAcks \/ \E c \in reply.commands : a.id = c.id
  BY <1>1 DEF AllAcks
<1>5. NumbersBehind'
  <2>1. ASSUME NEW s \in Sources, stored'[s].id > 0
        PROVE  \E d \in commands : stored'[s].id <= d.id
    BY <1>2, <2>1 DEF NumbersBehind, Behind
  <2>2. \A a \in AllAcks' : \E d \in commands : a.id <= d.id
    BY <1>4 DEF NumbersBehind, Behind
  <2>3. reply'.commands = {} BY <1>1 DEF NoReply
  <2> QED BY <1>1, <2>1, <2>2, <2>3 DEF NumbersBehind, Behind
<1>6. OneRowPerNumber'
  <2>1. reply'.commands = {} BY <1>1 DEF NoReply
  <2> QED BY <1>1, <2>1 DEF OneRowPerNumber
<1>7. AcksProcessed'
  <2> SUFFICES ASSUME NEW a \in AllAcks', NEW c \in commands, a.id = c.id
               PROVE  a.id <= stored'[c.source].id
    BY <1>1 DEF AcksProcessed
  <2>1. c.source \in Sources /\ c.id \in Int BY DEF TypeOK, Command
  <2>2. CASE a \in AllAcks
    <3>1. a.id <= stored[c.source].id BY <2>2 DEF AcksProcessed
    <3>2. stored[c.source].id \in Int /\ stored'[c.source].id \in Int
      BY <2>1 DEF TypeOK, Stored
    <3> QED BY <1>2, <2>1, <3>1, <3>2
  <2>3. CASE a \notin AllAcks
    <3>1. PICK d \in reply.commands : a.id = d.id BY <1>4, <2>3
    <3>2. d.source = c.source BY <3>1 DEF OneRowPerNumber
    <3> QED BY <1>2, <2>1, <3>1, <3>2
  <2> QED BY <2>2, <2>3
<1> QED BY <1>5, <1>6, <1>7

\* Every step keeps CommandInv: one step of the proof per action.
LEMMA CommandStep ==
  ASSUME CommandInv, [Next]_vars
  PROVE  CommandInv'
<1> USE DEF CommandInv
<1>0. TypeOK' BY TypeStep
<1>1. ASSUME NEW s \in Sources, NEW action \in Actions, Administer(s, action)
      PROVE  CommandInv'
  BY <1>1, AdministerNumbers
<1>2. ASSUME NEW p \in pushes, Store(p) PROVE CommandInv'
  <2>1. UNCHANGED <<commands, stored, acks, late, reply>> BY <1>2 DEF Store, disk
  <2> QED BY <1>0, <2>1, CommandsKept DEF AllAcks
<1>3. ASSUME NEW s \in Sources, Retire(s) PROVE CommandInv'
  <2>1. UNCHANGED <<commands, stored, acks, late, reply>>
    BY <1>3 DEF Retire, disk, network
  <2> QED BY <1>0, <2>1, CommandsKept DEF AllAcks
<1>4. ASSUME NEW r \in late, SynchroniseLate(r) PROVE CommandInv'
  <2>1. /\ r \in Request /\ Synchronised(r) /\ late' \subseteq late
        /\ UNCHANGED <<stored, acks, reply>>
    BY <1>4 DEF SynchroniseLate, disk, TypeOK
  <2>2. AllAcks' \subseteq AllAcks BY <2>1 DEF AllAcks
  <2> QED BY <1>0, <2>1, <2>2, SynchronisedNumbers
<1>5. CASE Answer
  <2>1. /\ CurrentRequest \in Request /\ Synchronised(CurrentRequest)
        /\ reply'.commands \subseteq commands'
        /\ UNCHANGED <<stored, acks, late>>
    BY <1>5, RequestNow DEF Answer, disk
  <2> QED BY <1>0, <2>1, SynchronisedNumbers DEF AllAcks
<1>6. ASSUME NEW s \in Consented, NEW read \in BOOLEAN, SetRead(s, read)
      PROVE  CommandInv'
  <2>1. UNCHANGED <<commands, stored, acks, late, reply>>
    BY <1>6 DEF SetRead, server, network
  <2> QED BY <1>0, <2>1, CommandsKept DEF AllAcks
<1>7. CASE GiveUp
  <2>1. /\ UNCHANGED <<commands, stored, acks>> /\ reply' = NoReply
        /\ late' \subseteq late \cup {CurrentRequest}
    BY <1>7 DEF GiveUp, server, disk
  <2>2. AllAcks' \subseteq AllAcks BY <2>1 DEF AllAcks, CurrentRequest
  <2> QED BY <1>0, <2>1, <2>2, CommandsKept
<1>8. CASE Load \/ Ask \/ Collect \/ EndCycle \/ SaveFails \/ Restart
  <2>1. /\ UNCHANGED <<commands, stored, acks, late>> /\ reply' \in {reply, NoReply}
    BY <1>8 DEF Load, Ask, Collect, EndCycle, SaveFails, Restart,
                server, disk, network
  <2> QED BY <1>0, <2>1, CommandsKept DEF AllAcks
<1>9. CASE Receive BY <1>0, <1>9, ReceiveNumbers
<1>10. ASSUME NEW s \in Sources, Send(s) PROVE CommandInv'
  <2>1. UNCHANGED <<commands, stored, acks, late, reply>>
    BY <1>10 DEF Send, server, disk
  <2> QED BY <1>0, <2>1, CommandsKept DEF AllAcks
<1>11. CASE UNCHANGED vars
  <2>1. UNCHANGED <<commands, stored, acks, late, reply>>
    BY <1>11 DEF vars, server, disk, network
  <2> QED BY <1>0, <2>1, CommandsKept DEF AllAcks
<1> HIDE DEF CommandInv
<1> QED
  BY <1>1, <1>2, <1>3, <1>4, <1>5, <1>6, <1>7, <1>8, <1>9, <1>10, <1>11
     DEF Next, CycleStep

LEMMA CommandInvariance == Spec => []CommandInv
<1>1. Init => CommandInv
  <2> SUFFICES ASSUME Init PROVE CommandInv OBVIOUS
  <2>1. TypeOK BY TypeInit
  <2>2. commands = {} /\ AllAcks = {} /\ reply.commands = {}
    BY DEF Init, AllAcks, NoReply
  <2>3. \A s \in Sources : stored[s].id = 0 BY DEF Init, Fresh
  <2> QED
    BY <2>1, <2>2, <2>3
       DEF CommandInv, NumbersBehind, OneRowPerNumber, AcksProcessed
<1>2. CommandInv /\ [Next]_vars => CommandInv' BY CommandStep
<1> QED BY <1>1, <1>2, PTL DEF Spec

\* A command's number is new to the sidecar and to every acknowledgment under
\* way, whatever was pruned (prune_commands()).
THEOREM NumbersStayNew == Spec => NumbersAreNew
<1> DEFINE A == \A c \in commands' : (\A d \in commands : d.id # c.id) =>
                  /\ \A s \in Sources : stored[s].id < c.id
                  /\ \A a \in acks \cup UNION {r.acks : r \in late} : a.id < c.id
<1>1. CommandInv /\ [Next]_vars => [A]_vars
  <2> SUFFICES ASSUME CommandInv, [Next]_vars, NEW c \in commands',
                      \A d \in commands : d.id # c.id
               PROVE  /\ \A s \in Sources : stored[s].id < c.id
                      /\ \A a \in AllAcks : a.id < c.id
    BY DEF AllAcks
  <2> USE DEF CommandInv
  <2>1. /\ \A s \in Sources : stored[s].id \in Int
        /\ \A a \in AllAcks : a.id \in Int
        /\ \A d \in commands : d.id \in Int
    BY DEF TypeOK, Stored, AllAcks, Ack, Request, Command
  <2>2. ASSUME NEW r \in Request, Synchronised(r) PROVE FALSE
    BY <2>2, SynchronisedCommands
  <2>3. ASSUME NEW t \in Sources, NEW action \in Actions, Administer(t, action)
        PROVE  c.id \in Int /\ \A d \in commands : d.id < c.id
    <3>1. PICK n \in 1 .. MaxCommands :
            /\ IsNextId(n)
            /\ commands' = commands \cup
                 {[id |-> n, source |-> t, action |-> action,
                   generation |-> row[t].generation, answer |-> "pending"]}
      BY <2>3 DEF Administer
    <3>2. c.id = n BY <3>1
    <3> QED BY <3>1, <3>2 DEF IsNextId
  <2>4. CASE UNCHANGED commands BY <2>4
  <2>5. \/ \E r \in Request : Synchronised(r)
        \/ \E t \in Sources, action \in Actions : Administer(t, action)
        \/ UNCHANGED commands
    BY RequestNow DEF Next, CycleStep, Answer, GiveUp, Receive, SaveFails, Restart,
       Load, Ask, Collect, EndCycle, SetRead, Send, Retire, Store, SynchroniseLate,
       server, TypeOK, vars
  <2>6. c.id \in Int /\ \A d \in commands : d.id < c.id
    BY <2>2, <2>3, <2>4, <2>5
  <2>7. c.id > 0 /\ \A n \in Int : Behind(n) => n < c.id
    <3>1. c \in Command BY TypeStep DEF TypeOK
    <3> QED BY <2>1, <2>6, <3>1 DEF Behind, Command
  <2>8. ASSUME NEW s \in Sources PROVE stored[s].id < c.id
    <3>1. stored[s].id > 0 => Behind(stored[s].id) BY DEF NumbersBehind
    <3> QED BY <2>1, <2>6, <2>7, <3>1
  <2>9. ASSUME NEW a \in AllAcks PROVE a.id < c.id
    <3>1. Behind(a.id) BY DEF NumbersBehind
    <3> QED BY <2>1, <2>7, <3>1
  <2> QED BY <2>8, <2>9
<1> QED BY <1>1, CommandInvariance, PTL DEF Spec, NumbersAreNew

\* Only a resume that the sidecar has processed and that is newer than every
\* pause and revocation of its source ends a pause (acknowledge()).
THEOREM PausesStand == Spec => PauseStands
<1> DEFINE A == \A s \in Sources : row[s].paused /\ ~ row'[s].paused =>
                  \E c \in commands :
                    /\ c.source = s /\ c.action = "resume" /\ c.id <= stored[s].id
                    /\ \A d \in commands :
                         d.source = s /\ d.action \in {"pause", "revoke"} => d.id < c.id
<1>1. ConsentInv /\ CommandInv /\ [Next]_vars => [A]_vars
  <2> SUFFICES ASSUME ConsentInv, CommandInv, [Next]_vars, NEW s \in Sources,
                      row[s].paused, ~ row'[s].paused
               PROVE  \E c \in commands :
                        /\ c.source = s /\ c.action = "resume" /\ c.id <= stored[s].id
                        /\ \A d \in commands :
                             d.source = s /\ d.action \in {"pause", "revoke"}
                               => d.id < c.id
    OBVIOUS
  <2> USE DEF ConsentInv, CommandInv
  <2>1. ASSUME NEW r \in Request, Synchronised(r), r.acks \subseteq AllAcks
        PROVE  \E c \in commands :
                 /\ c.source = s /\ c.action = "resume" /\ c.id <= stored[s].id
                 /\ \A d \in commands :
                      d.source = s /\ d.action \in {"pause", "revoke"} => d.id < c.id
    <3>1. s \in Back(r) BY <2>1, SynchronisedRow
    <3>2. PICK c \in commands :
            /\ c.source = s /\ c.action = "resume" /\ Newest(c)
            /\ \E a \in r.acks : Acknowledges(a, c)
      BY <3>1 DEF Back, Resumed
    <3>3. PICK a \in r.acks : a.id = c.id BY <3>2 DEF Acknowledges
    <3>4. c.id <= stored[s].id
      <4>1. a \in AllAcks BY <2>1
      <4> QED BY <3>2, <3>3, <4>1 DEF AcksProcessed
    <3>5. ASSUME NEW d \in commands, d.source = s, d.action \in {"pause", "revoke"}
          PROVE  d.id < c.id
      <4>1. d.id <= c.id BY <3>2, <3>5 DEF Newest, Latest
      <4>2. d.id # c.id BY <3>2, <3>5 DEF OneRowPerNumber
      <4>3. d.id \in Int /\ c.id \in Int BY DEF TypeOK, Command
      <4> QED BY <4>1, <4>2, <4>3
    <3> QED BY <3>2, <3>4, <3>5
  <2>2. ASSUME NEW t \in Sources, NEW action \in Actions, Administer(t, action)
        PROVE  FALSE
    <3>1. row' = [row EXCEPT ![t] = Effect(row[t], action)]
      BY <2>2 DEF Administer
    <3>2. row[t] \in Row /\ row[s] \in Row BY DEF TypeOK
    <3> QED BY <3>1, <3>2 DEF Effect, Row, TypeOK
  <2>3. ASSUME NEW p \in pushes, Store(p) PROVE FALSE
    <3>1. row' = [row EXCEPT ![p.source] = Target(p)] BY <2>3 DEF Store
    <3>2. s = p.source /\ Target(p) # row[s] BY <3>1 DEF TypeOK
    <3>3. row[s] = NoRow BY <3>2 DEF Target, RowsKnown
    <3> QED BY <3>3 DEF NoRow
  <2>4. CASE UNCHANGED row BY <2>4
  <2>5. \/ \E r \in Request : Synchronised(r) /\ r.acks \subseteq AllAcks
        \/ \E t \in Sources, action \in Actions : Administer(t, action)
        \/ \E p \in pushes : Store(p)
        \/ UNCHANGED row
    <3>1. CASE Answer
      <4>1. CurrentRequest \in Request /\ CurrentRequest.acks \subseteq AllAcks
        BY RequestNow DEF CurrentRequest, AllAcks
      <4> QED BY <3>1, <4>1 DEF Answer
    <3>2. ASSUME NEW r \in late, SynchroniseLate(r)
          PROVE  r \in Request /\ Synchronised(r) /\ r.acks \subseteq AllAcks
      BY <3>2 DEF SynchroniseLate, AllAcks, TypeOK
    <3>3. CASE UNCHANGED vars BY <3>3 DEF vars, server
    <3>4. GiveUp \/ Receive \/ SaveFails \/ Restart \/ Load \/ CycleStep
            => UNCHANGED row
      BY DEF CycleStep, GiveUp, Receive, SaveFails, Restart, Load, Ask, Collect,
             EndCycle, server
    <3>5. \A t \in Sources, read \in BOOLEAN :
            SetRead(t, read) \/ Send(t) \/ Retire(t) => UNCHANGED row
      BY DEF SetRead, Send, Retire, server
    <3> QED BY <3>1, <3>2, <3>3, <3>4, <3>5 DEF Next, Consented
  <2> QED BY <2>1, <2>2, <2>3, <2>4, <2>5
<1> QED BY <1>1, ConsentInvariance, CommandInvariance, PTL DEF Spec, PauseStands

-----------------------------------------------------------------------------
(* What leaves the sidecar.  During a cycle the sources blocked are those  *)
(* the saved state blocks, and the policy is never behind the cycle.       *)
Obedience ==
  /\ stage # "idle" => blocked = Blocks(snap, stored, faulted)
  /\ stage = "collecting" =>
       \A s \in Consented : snap[s].generation <= policy[s].generation

LEMMA ObedienceStep ==
  ASSUME ConsentInv, Obedience, [Next]_vars
  PROVE  Obedience'
<1> USE DEF Obedience
<1>0. TypeOK /\ TypeOK' BY TypeStep DEF ConsentInv
<1>1. \A s \in Consented :
        /\ s \in Sources /\ snap[s].generation \in Int
        /\ consent[s].generation \in Int
        /\ snap[s].generation <= consent[s].generation
  <2>1. TAKE s \in Consented
  <2>2. s \in Sources BY DEF Consented
  <2>3. snap[s] \in Consent /\ consent[s] \in Consent BY <1>0, <2>2, ConsentNumbers
  <2>4. Past(s, snap[s]) BY DEF ConsentInv, ConsentsPast
  <2> QED BY <2>2, <2>3, <2>4 DEF Past, Consent, Generations
<1>2. CASE Ask
  BY <1>2 DEF Ask, disk, Blocks
<1>3. CASE Answer
  BY <1>3 DEF Answer, disk, Blocks
<1>4. CASE GiveUp
  BY <1>4 DEF GiveUp, disk, Blocks
<1>5. CASE Receive
  BY <1>5 DEF Receive, Blocks
<1>6. CASE SaveFails
  BY <1>6 DEF SaveFails, disk, Blocks
<1>7. CASE Collect
  <2>1. /\ UNCHANGED <<blocked, snap, stored, faulted>>
        /\ policy' = snap /\ stage = "synced"
    BY <1>7 DEF Collect, disk
  <2>2. \A s \in Consented : snap'[s].generation <= policy'[s].generation
    BY <1>1, <2>1
  <2> QED BY <2>1, <2>2 DEF Blocks
<1>8. CASE EndCycle \/ Restart
  BY <1>8 DEF EndCycle, Restart
<1>9. ASSUME NEW t \in Consented, NEW read \in BOOLEAN, SetRead(t, read)
      PROVE  Obedience'
  <2>1. /\ UNCHANGED <<blocked, snap, stored, faulted, stage>>
        /\ policy' = consent'
        /\ consent' = [consent EXCEPT
             ![t] = [read |-> read, generation |-> consent[t].generation + 1]]
    BY <1>9 DEF SetRead
  <2>2. \A s \in Consented : snap[s].generation <= consent'[s].generation
    BY <1>0, <1>1, <2>1 DEF TypeOK
  <2> QED BY <2>1, <2>2 DEF Blocks
<1>10. CASE UNCHANGED <<blocked, snap, stored, faulted, stage, policy>>
  BY <1>10 DEF Blocks
<1>11. \/ Ask \/ Answer \/ GiveUp \/ Receive \/ SaveFails \/ Collect
       \/ EndCycle \/ Restart
       \/ \E t \in Consented, read \in BOOLEAN : SetRead(t, read)
       \/ UNCHANGED <<blocked, snap, stored, faulted, stage, policy>>
  BY DEF Next, CycleStep, Load, Administer, Send, Retire, Store, SynchroniseLate,
         server, disk, memory, network, vars
<1> HIDE DEF Obedience
<1> QED
  BY <1>2, <1>3, <1>4, <1>5, <1>6, <1>7, <1>8, <1>9, <1>10, <1>11

\* A credential leaves only when the saved server state lets it, after a
\* restart and after an answer that could not be saved (apply_runtime(),
\* filter_egress()).
THEOREM ServerIsObeyed == Spec => SidecarObeys
<1> DEFINE A == \A p \in pushes' \ pushes : p.source \in Consented =>
                  /\ ~ faulted /\ ~ stored[p.source].paused
                  /\ p.generation > stored[p.source].revoked
<1>1. Init => Obedience BY DEF Init, Obedience
<1>2. ConsentInv /\ Obedience /\ [Next]_vars => Obedience' BY ObedienceStep
<1>3. ConsentInv /\ Obedience /\ [Next]_vars => [A]_vars
  <2> SUFFICES ASSUME ConsentInv, Obedience, [Next]_vars,
                      NEW p \in pushes' \ pushes, p.source \in Consented
               PROVE  /\ ~ faulted /\ ~ stored[p.source].paused
                      /\ p.generation > stored[p.source].revoked
    OBVIOUS
  <2> DEFINE s == p.source
  <2>1. pushes' \subseteq pushes \/ \E t \in Sources : Send(t)
    BY DEF Next, CycleStep, Answer, GiveUp, Receive, SaveFails, Restart, Load,
           Ask, Collect, EndCycle, SetRead, Retire, Store, SynchroniseLate,
           Administer, network, vars
  <2>2. PICK t \in Sources : Send(t) BY <2>1
  <2>3. /\ s = t /\ p.generation = policy[s].generation
        /\ stage = "collecting" /\ s \notin blocked
    BY <2>2 DEF Send, Ticket
  <2>4. /\ s \notin Blocks(snap, stored, faulted)
        /\ snap[s].generation <= policy[s].generation
    BY <2>3 DEF Obedience
  <2>5. ~ faulted /\ ~ stored[s].paused /\ ~ (snap[s].generation <= stored[s].revoked)
    BY <2>4 DEF Blocks
  <2>6. /\ snap[s].generation \in Int /\ policy[s].generation \in Int
        /\ stored[s].revoked \in Int
    BY <2>2, <2>3 DEF ConsentInv, TypeOK, Consent, Stored, Generations, None
  <2> QED BY <2>3, <2>4, <2>5, <2>6
<1> QED BY <1>1, <1>2, <1>3, ConsentInvariance, PTL DEF Spec, SidecarObeys

-----------------------------------------------------------------------------
(* Pending commands. *)

\* A lost answer, a failed save, pruning and a late acknowledgment leave a
\* command pending until the sidecar has saved what it made of it
\* (acknowledge(), prune_commands()).
THEOREM CommandsAreProcessed == Spec => PendingUntilProcessed
<1> DEFINE A == \A c \in commands : c.answer = "pending" =>
                  c \in commands' \/ c.id <= stored[c.source].id
<1>1. CommandInv /\ [Next]_vars => [A]_vars
  <2> SUFFICES ASSUME CommandInv, [Next]_vars,
                      NEW c \in commands, c.answer = "pending"
               PROVE  c \in commands' \/ c.id <= stored[c.source].id
    OBVIOUS
  <2> USE DEF CommandInv
  <2>1. ASSUME NEW r \in Request, Synchronised(r), r.acks \subseteq AllAcks
        PROVE  c \in commands' \/ c.id <= stored[c.source].id
    <3>1. CASE \E a \in r.acks : Acknowledges(a, c)
      <4>1. PICK a \in r.acks : a.id = c.id BY <3>1 DEF Acknowledges
      <4> QED BY <2>1, <4>1 DEF AcksProcessed
    <3>2. CASE ~ \E a \in r.acks : Acknowledges(a, c)
      <4>1. Closed(c, r.acks) = c BY <3>2 DEF Closed
      <4>2. c \in All(r) /\ ~ Prunable(c, All(r)) BY <4>1 DEF All, Prunable
      <4> QED BY <2>1, <4>2, SynchronisedParts
    <3> QED BY <3>1, <3>2
  <2>2. ASSUME NEW t \in Sources, NEW action \in Actions, Administer(t, action)
        PROVE  c \in commands'
    BY <2>2 DEF Administer
  <2>3. CASE UNCHANGED commands BY <2>3
  <2>4. \/ \E r \in Request : Synchronised(r) /\ r.acks \subseteq AllAcks
        \/ \E t \in Sources, action \in Actions : Administer(t, action)
        \/ UNCHANGED commands
    <3>1. CASE Answer
      <4>1. CurrentRequest \in Request /\ CurrentRequest.acks \subseteq AllAcks
        BY RequestNow DEF CurrentRequest, AllAcks
      <4> QED BY <3>1, <4>1 DEF Answer
    <3>2. ASSUME NEW r \in late, SynchroniseLate(r)
          PROVE  r \in Request /\ Synchronised(r) /\ r.acks \subseteq AllAcks
      BY <3>2 DEF SynchroniseLate, AllAcks, TypeOK
    <3>3. CASE UNCHANGED vars BY <3>3 DEF vars, server
    <3>4. GiveUp \/ Receive \/ SaveFails \/ Restart \/ Load \/ CycleStep
            => UNCHANGED commands
      BY DEF CycleStep, GiveUp, Receive, SaveFails, Restart, Load, Ask, Collect,
             EndCycle, server
    <3>5. \A t \in Sources, read \in BOOLEAN :
            SetRead(t, read) \/ Send(t) \/ Retire(t) => UNCHANGED commands
      BY DEF SetRead, Send, Retire, server
    <3>6. \A p \in pushes : Store(p) => UNCHANGED commands BY DEF Store
    <3> QED BY <3>1, <3>2, <3>3, <3>4, <3>5, <3>6 DEF Next, Consented
  <2> QED BY <2>1, <2>2, <2>3, <2>4
<1> QED BY <1>1, CommandInvariance, PTL DEF Spec, PendingUntilProcessed

-----------------------------------------------------------------------------
(* Nothing goes back.  A generation stands for one decision wherever it is *)
(* written down: in the configuration, in the cycle's copy of it, in the   *)
(* requests given up and in the server's row.                              *)
Decision(r) == [read |-> r.read, generation |-> r.generation]
Views(s) == {Off, consent[s], snap[s], Decision(row[s])}
              \cup {r.reports[s] : r \in late}
OneDecision ==
  \A s \in Consented : \A c, d \in Views(s) :
    c.generation = d.generation => c.read = d.read

\* What a synchronisation makes of the row of a source.
LEMMA ReportDecides ==
  ASSUME ConsentInv, NEW r \in Request, Synchronised(r), NEW s \in Sources
  PROVE  /\ row[s].known => row'[s].known
         /\ row[s].generation <= row'[s].generation
         /\ row[s].revoked <= row'[s].revoked
         /\ s \in Consented => Decision(row'[s]) \in {Decision(row[s]), r.reports[s]}
         /\ s \notin Consented => row'[s].read = row[s].read
<1> USE DEF ConsentInv
<1>1. row[s] \in Row /\ row[s].generation \in Int BY ConsentNumbers
<1>2. CASE s \notin Consented
  <2>1. /\ row'[s].known = row[s].known /\ row'[s].read = row[s].read
        /\ row'[s].generation = row[s].generation /\ row[s].revoked <= row'[s].revoked
    BY <1>2, SynchronisedRow
  <2> QED BY <1>1, <1>2, <2>1
<1>3. CASE s \in Consented
  <2> DEFINE c == r.reports[s]
  <2>1. c \in Consent BY <1>3 DEF Request
  <2>2. /\ row'[s].known /\ row'[s].read = Reported(row[s], c).read
        /\ row'[s].generation = Reported(row[s], c).generation
        /\ row[s].revoked <= row'[s].revoked
    BY <1>3, SynchronisedRow
  <2>3. CASE Older(row[s], c)
    <3>1. row'[s].read = row[s].read /\ row'[s].generation = row[s].generation
      BY <2>2, <2>3 DEF Reported
    <3> QED BY <1>1, <1>3, <2>2, <3>1 DEF Decision
  <2>4. CASE ~ Older(row[s], c)
    <3>1. row'[s].read = c.read /\ row'[s].generation = c.generation
      BY <1>1, <2>1, <2>2, <2>4 DEF Reported, Row
    <3>2. Decision(row'[s]) = c BY <2>1, <3>1 DEF Decision, Consent
    <3>3. row[s].generation <= c.generation
      <4>1. c.generation \in Int /\ c.generation >= 0
        BY <2>1 DEF Consent, Generations
      <4>2. ~ row[s].known => row[s].generation = 0 BY DEF RowsKnown, NoRow
      <4> QED BY <1>1, <2>4, <4>1, <4>2 DEF Older
    <3> QED BY <1>3, <2>2, <3>1, <3>2, <3>3
  <2> QED BY <2>3, <2>4
<1> QED BY <1>2, <1>3

\* The row of a source after any step.
LEMMA RowForward ==
  ASSUME ConsentInv, [Next]_vars, NEW s \in Sources
  PROVE  /\ row[s].known => row'[s].known
         /\ row[s].generation <= row'[s].generation
         /\ row[s].revoked <= row'[s].revoked
         /\ s \in Consented => Decision(row'[s]) \in Views(s)
         /\ s \notin Consented /\ row[s].known => row'[s].read = row[s].read
<1> DEFINE Goal == /\ row[s].known => row'[s].known
                   /\ row[s].generation <= row'[s].generation
                   /\ row[s].revoked <= row'[s].revoked
                   /\ s \in Consented => Decision(row'[s]) \in Views(s)
                   /\ s \notin Consented /\ row[s].known => row'[s].read = row[s].read
<1> USE DEF ConsentInv
<1>0. /\ row[s] \in Row /\ row[s].generation \in Int /\ row[s].revoked \in Int
      /\ Decision(row[s]) \in Views(s)
  BY ConsentNumbers DEF Views
<1>1. CASE row'[s] = row[s] BY <1>0, <1>1
<1>2. ASSUME NEW r \in Request, Synchronised(r),
             s \in Consented => r.reports[s] \in Views(s)
      PROVE  Goal
  BY <1>0, <1>2, ReportDecides
<1>3. ASSUME NEW t \in Sources, NEW action \in Actions, Administer(t, action)
      PROVE  Goal
  <2>1. row' = [row EXCEPT ![t] = Effect(row[t], action)] BY <1>3 DEF Administer
  <2>2. CASE t # s BY <1>1, <2>1, <2>2 DEF TypeOK
  <2>3. CASE t = s
    <3>1. row'[s] = Effect(row[s], action) BY <2>1, <2>3 DEF TypeOK
    <3>2. /\ row'[s].known = row[s].known /\ row'[s].read = row[s].read
          /\ row'[s].generation = row[s].generation
          /\ row[s].revoked <= row'[s].revoked
      BY <1>0, <3>1 DEF Effect, Row, Larger
    <3> QED BY <1>0, <3>2 DEF Decision
  <2> QED BY <2>2, <2>3
<1>4. ASSUME NEW p \in pushes, Store(p) PROVE Goal
  <2>1. row' = [row EXCEPT ![p.source] = Target(p)] BY <1>4 DEF Store
  <2>2. CASE row'[s] = row[s] BY <1>1, <2>2
  <2>3. CASE row'[s] # row[s]
    <3>1. s = p.source /\ row'[s] = Target(p) BY <2>1, <2>3 DEF TypeOK
    <3>2. s \in Ordinary /\ ~ row[s].known /\ row'[s] = NewRow
      BY <2>3, <3>1 DEF Target
    <3>3. row[s] = NoRow BY <3>2 DEF RowsKnown
    <3> QED BY <3>2, <3>3 DEF NewRow, NoRow, Consented, None
  <2> QED BY <2>2, <2>3
<1>5. \/ \E r \in Request :
           Synchronised(r) /\ (s \in Consented => r.reports[s] \in Views(s))
      \/ \E t \in Sources, action \in Actions : Administer(t, action)
      \/ \E p \in pushes : Store(p)
      \/ row'[s] = row[s]
  <2>1. CASE Answer
    <3>1. s \in Consented => CurrentRequest.reports[s] = snap[s]
      BY DEF CurrentRequest
    <3> QED BY <2>1, <3>1, RequestNow DEF Answer, Views
  <2>2. ASSUME NEW r \in late, SynchroniseLate(r)
        PROVE  r \in Request /\ Synchronised(r) /\ r.reports[s] \in Views(s)
    BY <2>2 DEF SynchroniseLate, Views, TypeOK
  <2>3. CASE UNCHANGED vars BY <2>3 DEF vars, server
  <2>4. GiveUp \/ Receive \/ SaveFails \/ Restart \/ Load \/ CycleStep
          => UNCHANGED row
    BY DEF CycleStep, GiveUp, Receive, SaveFails, Restart, Load, Ask, Collect,
           EndCycle, server
  <2>5. \A t \in Sources, read \in BOOLEAN :
          SetRead(t, read) \/ Send(t) \/ Retire(t) => UNCHANGED row
    BY DEF SetRead, Send, Retire, server
  <2> QED BY <2>1, <2>2, <2>3, <2>4, <2>5 DEF Next, Consented
<1> QED BY <1>1, <1>2, <1>3, <1>4, <1>5

\* Whatever is written down after a step was written down before, or is the
\* decision of a new generation.
LEMMA DecisionStep ==
  ASSUME ConsentInv, OneDecision, [Next]_vars
  PROVE  OneDecision'
<1> USE DEF ConsentInv
<1>0. \A s \in Consented : s \in Sources BY DEF Consented
<1>1. ASSUME NEW s \in Consented
      PROVE  /\ snap'[s] \in Views(s)
             /\ \A r \in late' : r.reports[s] \in Views(s)
  <2>1. snap' \in {snap, consent, [t \in Sources |-> Off]}
    BY DEF Next, CycleStep, Answer, GiveUp, Receive, SaveFails, Restart, Load,
           Ask, Collect, EndCycle, SetRead, Send, Retire, Store, SynchroniseLate,
           Administer, memory, vars
  <2>2. late' \subseteq late \cup {CurrentRequest}
    BY DEF Next, CycleStep, Answer, GiveUp, Receive, SaveFails, Restart, Load,
           Ask, Collect, EndCycle, SetRead, Send, Retire, Store, SynchroniseLate,
           Administer, network, vars
  <2>3. CurrentRequest.reports[s] = snap[s] BY DEF CurrentRequest
  <2> QED BY <1>0, <2>1, <2>2, <2>3 DEF Views
<1>2. ASSUME NEW s \in Consented
      PROVE  \/ consent'[s] = consent[s]
             \/ consent'[s].generation = consent[s].generation + 1
  <2>1. CASE UNCHANGED consent BY <2>1
  <2>2. ASSUME NEW t \in Consented, NEW read \in BOOLEAN, SetRead(t, read)
        PROVE  \/ consent'[s] = consent[s]
               \/ consent'[s].generation = consent[s].generation + 1
    BY <1>0, <2>2 DEF SetRead, TypeOK
  <2>3. \/ UNCHANGED consent
        \/ \E t \in Consented, read \in BOOLEAN : SetRead(t, read)
    BY DEF Next, CycleStep, Answer, GiveUp, Receive, SaveFails, Restart, Load,
           Ask, Collect, EndCycle, Send, Retire, Store, SynchroniseLate,
           Administer, disk, vars
  <2> QED BY <2>1, <2>2, <2>3
<1>3. ASSUME NEW s \in Consented, NEW c \in Views(s)
      PROVE  c.generation \in Int /\ c.generation <= consent[s].generation
  <2>1. Past(s, c)
    <3>1. Past(s, Decision(row[s])) BY DEF ConsentsPast, Past, Decision
    <3>2. Past(s, consent[s]) BY <1>0, ConsentNumbers DEF Past
    <3> QED BY <3>1, <3>2 DEF ConsentsPast, Views
  <2>2. c.generation \in Int
    <3>1. \A r \in late : r.reports[s] \in Consent BY DEF TypeOK, Request
    <3>2. snap[s] \in Consent /\ consent[s] \in Consent /\ row[s] \in Row
      BY <1>0, ConsentNumbers
    <3> QED BY <3>1, <3>2 DEF Views, Decision, Off, Consent, Row, Generations
  <2> QED BY <2>1, <2>2 DEF Past
<1>4. SUFFICES ASSUME NEW s \in Consented, NEW c \in Views(s)', NEW d \in Views(s)',
                      c.generation = d.generation
               PROVE  c.read = d.read
  BY DEF OneDecision
<1>5. \A v \in Views(s)' : v \in Views(s) \/ v = consent'[s]
  <2>1. Decision(row'[s]) \in Views(s) BY <1>0, RowForward
  <2>2. Off \in Views(s) BY DEF Views
  <2> QED BY <1>1, <2>1, <2>2 DEF Views
<1>6. consent[s] \in Views(s) /\ consent[s].generation \in Int
  BY <1>3 DEF Views
<1>7. CASE c \in Views(s) /\ d \in Views(s) BY <1>4, <1>7 DEF OneDecision
<1>8. CASE c = consent'[s] /\ d = consent'[s] BY <1>8
<1>9. CASE consent'[s] = consent[s]
  BY <1>4, <1>5, <1>6, <1>9 DEF OneDecision
<1>10. CASE consent'[s].generation = consent[s].generation + 1
  <2>1. \A v \in Views(s) : v.generation # consent'[s].generation
    BY <1>3, <1>6, <1>10
  <2> QED BY <1>4, <1>5, <1>7, <1>8, <2>1
<1> QED BY <1>2, <1>9, <1>10

\* No report, however late, and no answer moves anything back: neither the
\* server's generation, tombstone and decision of a source, nor what the
\* sidecar has saved of it (apply_report(), _receive()).
THEOREM RowsGoForward == Spec => NothingGoesBack
<1> DEFINE A == \A s \in Sources :
                  /\ row[s].known => row'[s].known
                  /\ row[s].generation <= row'[s].generation
                  /\ row[s].revoked <= row'[s].revoked
                  /\ row[s].known /\ row[s].generation = row'[s].generation
                       => row'[s].read = row[s].read
                  /\ stored[s].id <= stored'[s].id
                  /\ stored[s].revoked <= stored'[s].revoked
                  /\ stored[s].withdrawn <= stored'[s].withdrawn
<1>1. Init => OneDecision
  <2> SUFFICES ASSUME Init, NEW s \in Consented, NEW c \in Views(s)
               PROVE  c = Off
    BY DEF OneDecision
  <2>1. s \in Sources BY DEF Consented
  <2>2. /\ consent[s] = Off /\ snap[s] = Off /\ late = {}
        /\ Decision(row[s]) = Off
    BY <2>1 DEF Init, NoRow, Decision, Off
  <2> QED BY <2>2 DEF Views
<1>2. ConsentInv /\ OneDecision /\ [Next]_vars => OneDecision' BY DecisionStep
<1>3. ConsentInv /\ OneDecision /\ [Next]_vars => [A]_vars
  <2> SUFFICES ASSUME ConsentInv, OneDecision, [Next]_vars, NEW s \in Sources
               PROVE  /\ row[s].known => row'[s].known
                      /\ row[s].generation <= row'[s].generation
                      /\ row[s].revoked <= row'[s].revoked
                      /\ row[s].known /\ row[s].generation = row'[s].generation
                           => row'[s].read = row[s].read
                      /\ stored[s].id <= stored'[s].id
                      /\ stored[s].revoked <= stored'[s].revoked
                      /\ stored[s].withdrawn <= stored'[s].withdrawn
    OBVIOUS
  <2>0. TypeOK BY DEF ConsentInv
  <2>1. row[s].known /\ row[s].generation = row'[s].generation
          => row'[s].read = row[s].read
    <3>1. CASE s \in Consented
      <4>1. Decision(row'[s]) \in Views(s) /\ Decision(row[s]) \in Views(s)
        BY <3>1, RowForward DEF Views
      <4> QED BY <3>1, <4>1 DEF OneDecision, Decision
    <3>2. CASE s \notin Consented BY <3>2, RowForward
    <3> QED BY <3>1, <3>2
  <2>2. /\ stored[s].id <= stored'[s].id
        /\ stored[s].revoked <= stored'[s].revoked
        /\ stored[s].withdrawn <= stored'[s].withdrawn
    <3>1. CASE Receive
      <4>1. stored'[s] = Controlled(s) BY <3>1 DEF Receive
      <4> QED BY <2>0, <4>1, ControlledState
    <3>2. CASE UNCHANGED stored
      BY <2>0, <3>2 DEF TypeOK, Stored, Generations, None
    <3>3. Receive \/ UNCHANGED stored
      BY DEF Next, CycleStep, Answer, GiveUp, SaveFails, Restart, Load, Ask,
             Collect, EndCycle, SetRead, Send, Retire, Store, SynchroniseLate,
             Administer, disk, vars
    <3> QED BY <3>1, <3>2, <3>3
  <2> QED BY <2>1, <2>2, RowForward
<1> QED BY <1>1, <1>2, <1>3, ConsentInvariance, PTL DEF Spec, NothingGoesBack

-----------------------------------------------------------------------------
(* Under which consent a credential leaves. *)
PolicyIsOfTheCycle ==
  stage = "collecting" => \A s \in Consented : policy[s] \in {consent[s], snap[s]}

LEMMA PolicyStep ==
  ASSUME TypeOK, PolicyIsOfTheCycle, [Next]_vars
  PROVE  PolicyIsOfTheCycle'
<1>1. CASE stage' = "collecting" /\ UNCHANGED <<stage, policy, consent, snap>>
  BY <1>1 DEF PolicyIsOfTheCycle
<1>2. CASE Collect BY <1>2 DEF Collect, PolicyIsOfTheCycle
<1>3. ASSUME NEW t \in Consented, NEW read \in BOOLEAN, SetRead(t, read)
      PROVE  PolicyIsOfTheCycle'
  BY <1>3 DEF SetRead, PolicyIsOfTheCycle
<1>4. CASE stage' # "collecting" BY <1>4 DEF PolicyIsOfTheCycle
<1>5. \/ UNCHANGED <<stage, policy, consent, snap>>
      \/ Collect
      \/ \E t \in Consented, read \in BOOLEAN : SetRead(t, read)
      \/ stage' # "collecting"
  BY DEF Next, CycleStep, Ask, Answer, GiveUp, Receive, SaveFails, EndCycle,
         Restart, Load, Administer, Send, Retire, Store, SynchroniseLate,
         server, disk, memory, network, vars
<1> QED BY <1>1, <1>2, <1>3, <1>4, <1>5

\* A credential that leaves under a consent already withdrawn left in a cycle
\* that began before the withdrawal: it carries the consent that stands or
\* the one of its own cycle, and either said to read (filter_egress()).
THEOREM EscapesAreBounded == Spec => LeavesUnderConsent
<1> DEFINE A == \A p \in pushes' \ pushes : p.source \in Consented =>
                  [read |-> TRUE, generation |-> p.generation]
                    \in {consent[p.source], snap[p.source]}
<1>1. Init => PolicyIsOfTheCycle BY DEF Init, PolicyIsOfTheCycle
<1>2. TypeOK /\ PolicyIsOfTheCycle /\ [Next]_vars => PolicyIsOfTheCycle'
  BY PolicyStep
<1>3. TypeOK /\ PolicyIsOfTheCycle /\ [Next]_vars => [A]_vars
  <2> SUFFICES ASSUME TypeOK, PolicyIsOfTheCycle, [Next]_vars,
                      NEW p \in pushes' \ pushes, p.source \in Consented
               PROVE  [read |-> TRUE, generation |-> p.generation]
                        \in {consent[p.source], snap[p.source]}
    OBVIOUS
  <2>1. pushes' \subseteq pushes \/ \E t \in Sources : Send(t)
    BY DEF Next, CycleStep, Answer, GiveUp, Receive, SaveFails, Restart, Load,
           Ask, Collect, EndCycle, SetRead, Retire, Store, SynchroniseLate,
           Administer, network, vars
  <2>2. PICK t \in Sources : Send(t) BY <2>1
  <2>3. /\ p.source = t /\ p.generation = policy[t].generation
        /\ stage = "collecting" /\ policy[t].read
    BY <2>2 DEF Send, Ticket
  <2>4. policy[t] = [read |-> TRUE, generation |-> p.generation]
    BY <2>2, <2>3 DEF TypeOK, Consent
  <2> QED BY <2>3, <2>4 DEF PolicyIsOfTheCycle
<1> QED BY <1>1, <1>2, <1>3, TypeCorrectness, PTL DEF Spec, LeavesUnderConsent

-----------------------------------------------------------------------------
(* Opting out. *)

\* A report of the consent that stands, when it says "off".
LEMMA ReportWithdraws ==
  ASSUME ConsentInv, TombstonesHold', NEW r \in Request, Synchronised(r),
         NEW s \in Consented, ~ consent[s].read, r.reports[s] = consent[s]
  PROVE  row'[s].revoked >= consent[s].generation /\ held'[s] = None
<1> DEFINE c == consent[s]
<1> USE DEF ConsentInv
<1>1. s \in Sources BY DEF Consented
<1>2. /\ row[s] \in Row /\ row[s].generation \in Int /\ row[s].revoked \in Int
      /\ c \in Consent /\ c.generation \in Int
  BY <1>1, ConsentNumbers
<1>3. /\ row'[s].read = Reported(row[s], c).read
      /\ row'[s].revoked = Reported(row[s], c).revoked
  BY <1>1, SynchronisedRow
<1>4. ~ Older(row[s], c)
  <2>1. row[s].generation <= c.generation BY DEF ConsentsPast, Past
  <2> QED BY <1>2, <2>1 DEF Older
<1> HIDE DEF c
<1>5. c.read = FALSE BY <1>2 DEF Consent, c
<1>6. Reported(row[s], c).read = FALSE
      /\ Reported(row[s], c).revoked = Larger(row[s].revoked, c.generation)
  BY <1>2, <1>4, <1>5 DEF Reported, Row
<1>7. row'[s].revoked >= c.generation BY <1>2, <1>3, <1>6 DEF Larger
<1>8. held'[s] = None BY <1>1, <1>3, <1>6 DEF TombstonesHold
<1> QED BY <1>7, <1>8 DEF c

\* A source that was turned off needs one report to be withdrawn: no older
\* report, credential in flight or command keeps the server from taking it as
\* the last word (apply_report()).
THEOREM OneReportSuffices == Spec => OneReportWithdraws
<1> DEFINE A == \A s \in Consented :
                  /\ ~ consent[s].read
                  /\ \/ Answer /\ snap[s] = consent[s]
                     \/ \E r \in late : SynchroniseLate(r) /\ r.reports[s] = consent[s]
                  => row'[s].revoked >= consent[s].generation /\ held'[s] = None
<1>1. ConsentInv /\ [Next]_vars => [A]_vars
  <2> SUFFICES ASSUME ConsentInv, [Next]_vars, NEW s \in Consented, ~ consent[s].read,
                      \/ Answer /\ snap[s] = consent[s]
                      \/ \E r \in late : SynchroniseLate(r) /\ r.reports[s] = consent[s]
               PROVE  row'[s].revoked >= consent[s].generation /\ held'[s] = None
    OBVIOUS
  <2>1. TombstonesHold' BY ConsentStep DEF ConsentInv
  <2>2. CASE Answer /\ snap[s] = consent[s]
    <3>1. CurrentRequest \in Request BY RequestNow DEF ConsentInv
    <3>2. Synchronised(CurrentRequest) BY <2>2 DEF Answer
    <3>3. CurrentRequest.reports[s] = consent[s] BY <2>2 DEF CurrentRequest
    <3> QED BY <2>1, <3>1, <3>2, <3>3, ReportWithdraws
  <2>3. ASSUME NEW r \in late, SynchroniseLate(r), r.reports[s] = consent[s]
        PROVE  row'[s].revoked >= consent[s].generation /\ held'[s] = None
    <3>1. r \in Request BY DEF ConsentInv, TypeOK
    <3>2. Synchronised(r) BY <2>3 DEF SynchroniseLate
    <3> QED BY <2>1, <2>3, <3>1, <3>2, ReportWithdraws
  <2> QED BY <2>2, <2>3
<1> QED BY <1>1, ConsentInvariance, PTL DEF Spec, OneReportWithdraws

=============================================================================
