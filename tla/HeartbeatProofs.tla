--------------------------- MODULE HeartbeatProofs ---------------------------
(***************************************************************************)
(* Proofs about Heartbeat: its types, the account of pushed updates, that  *)
(* nothing owed drops off the plan, and that settings stay in force, for   *)
(* every set of providers and every bound.                                 *)
(***************************************************************************)
EXTENDS Heartbeat, TLAPS

(* Where the sidecar stands: it waits for an answer only while a cycle has *)
(* something left to send, an answer that has not been built carries       *)
(* nothing, and the plan does not change while its providers are collected.*)
CallInStep ==
    /\ call.at # "answered" => call.answer = Silence
    /\ call.at # "none" => phase = "cycle" /\ toFlush + toPush > 0
CycleInStep ==
    /\ phase = "idle" => heard = NothingHeard /\ toFlush = 0 /\ toPush = 0
    /\ phase = "cycle" => collecting = plan
    /\ ~heard.some => heard.answer = Silence
    /\ toFlush <= queue

HeartbeatInv ==
    TypeOK /\ CallInStep /\ CycleInStep /\ UpdatesAccounted /\ OwedIsPlanned

-----------------------------------------------------------------------------
(* An answer is one, and so are two of them merged.                        *)
LEMMA AnswerType == TypeOK => Answer \in Answers
  BY DEF TypeOK, Answer, Answers

LEMMA SilenceType == Silence \in Answers /\ 0 \in Settings
  BY HeartbeatAssumption DEF Silence, Answers, Settings

LEMMA MergedType ==
  ASSUME NEW a \in Answers, NEW b \in Answers PROVE Merged(a, b) \in Answers
  BY DEF Merged, Answers

LEMMA OneType == \A b \in BOOLEAN : One(b) \in Nat
  BY DEF One

LEMMA OneOfTwo ==
  ASSUME NEW a \in BOOLEAN, NEW b \in BOOLEAN
  PROVE  One(a \/ b) + One(a /\ b) = One(a) + One(b)
<1>1. CASE a BY <1>1 DEF One
<1>2. CASE ~a BY <1>2 DEF One
<1> QED BY <1>1, <1>2

LEMMA OneFalse == One(FALSE) = 0
  BY DEF One

Rows == [known: BOOLEAN, enabled: BOOLEAN, update: BOOLEAN, settings: Settings]

(* A row is one after a change of its fields.                              *)
LEMMA RowWith ==
  ASSUME NEW r \in Rows, NEW k \in BOOLEAN, NEW b \in BOOLEAN
  PROVE  /\ [r EXCEPT !.update = b] \in Rows /\ [r EXCEPT !.update = b].update = b
         /\ [r EXCEPT !.known = k, !.update = b] \in Rows
         /\ [r EXCEPT !.known = k, !.update = b].update = b
  BY DEF Rows

LEMMA RowPushed ==
  ASSUME row \in Rows, PushUpdate PROVE row' \in Rows /\ row'.update = TRUE
<1>1. row' = [row EXCEPT !.update = TRUE]
  BY Zenon DEF PushUpdate, Order
<1> QED BY <1>1, RowWith, Zenon

LEMMA RowTaken ==
  ASSUME row \in Rows, Taken PROVE row' \in Rows /\ row'.update = FALSE
  BY RowWith, Zenon DEF Taken

LEMMA NewRowType == NewRow \in Rows
  BY HeartbeatAssumption DEF NewRow, Rows, Settings

LEMMA OneNot == ASSUME NEW b \in BOOLEAN PROVE One(b) + One(~b) = 1
  BY DEF One

LEMMA OneTrue == One(TRUE) = 1
  BY DEF One

LEMMA NothingYet ==
  /\ Silence.update = FALSE /\ NoCall.answer = Silence
  /\ NothingHeard.answer = Silence /\ NewRow.update = FALSE
<1>1. Silence.update = FALSE
  BY Zenon DEF Silence
<1>2. NoCall.answer = Silence
  BY Zenon DEF NoCall
<1>3. NothingHeard.answer = Silence
  BY Zenon DEF NothingHeard
<1>4. NewRow.update = FALSE
  BY Zenon DEF NewRow
<1> QED BY <1>1, <1>2, <1>3, <1>4

LEMMA InvFacts ==
  ASSUME HeartbeatInv
  PROVE  /\ row.update \in BOOLEAN /\ call.answer.update \in BOOLEAN
         /\ heard.answer.update \in BOOLEAN
         /\ One(row.update) \in Nat /\ One(call.answer.update) \in Nat
         /\ One(heard.answer.update) \in Nat
         /\ pushes \in Nat /\ installs \in Nat /\ missed \in Nat
BY DEF HeartbeatInv, TypeOK, Answers, One

LEMMA InitInv == Init => HeartbeatInv
<1>1. Init => TypeOK
  <2> SUFFICES ASSUME Init PROVE TypeOK
    OBVIOUS
  <2>1. row \in [known: BOOLEAN, enabled: BOOLEAN, update: BOOLEAN, settings: Settings]
    BY SilenceType DEF Init, NewRow
  <2>2. call \in [at: {"none", "sent", "answered"}, answer: Answers]
        /\ heard \in [some: BOOLEAN, answer: Answers]
    BY SilenceType DEF Init, NoCall, NothingHeard
  <2>3. budget \in [orders: Nat, faults: Nat] /\ attempts \in 1..MaxAttempts
        /\ toPush \in 0..MaxBatches /\ queue \in 0..QueueLimit
    BY HeartbeatAssumption DEF Init
  <2>4. applied \in Settings
    BY SilenceType DEF Init
  <2>5. plan \subseteq Providers /\ due \subseteq Providers /\ owed \subseteq Providers
        /\ collecting \subseteq Providers
    BY DEF Init
  <2> QED BY <2>1, <2>2, <2>3, <2>4, <2>5 DEF Init, TypeOK
<1>2. Init => CallInStep /\ CycleInStep /\ OwedIsPlanned /\ UpdatesAccounted
  BY DEF Init, CallInStep, CycleInStep, OwedIsPlanned, UpdatesAccounted, NewRow, NoCall,
         NothingHeard, Silence, One
<1> QED BY <1>1, <1>2 DEF HeartbeatInv

-----------------------------------------------------------------------------
(* Every action preserves the invariant.                                   *)

(* An order to collect now.                                               *)
LEMMA ForceCollectInv ==
  ASSUME HeartbeatInv, ForceCollect
  PROVE  HeartbeatInv'
<1> USE DEF HeartbeatInv
<1>1. TypeOK'
  <2>1. budget' \in [orders: Nat, faults: Nat]
    BY SMTT(20) DEF TypeOK, ForceCollect, Order, KeepSidecar, Spend, server,
       wire, cycle, updates
  <2>2. trigger' \in BOOLEAN /\ failed' \in BOOLEAN
    BY SMTT(20) DEF TypeOK, ForceCollect, Order, KeepSidecar, Spend, server,
       wire, cycle, updates
  <2> QED
    BY <2>1, <2>2, SMTT(20) DEF TypeOK, ForceCollect, Order, KeepSidecar,
       Spend, server, wire, cycle, updates
<1>2. CallInStep'
  BY SMTT(20) DEF CallInStep, CycleInStep, TypeOK, ForceCollect, Order,
     KeepSidecar, Spend, server, wire, cycle, updates
<1>3. CycleInStep'
  BY SMTT(20) DEF CycleInStep, CallInStep, TypeOK, Silence, One,
     ForceCollect, Order, KeepSidecar, Spend, server, wire, cycle, updates
<1>4. UpdatesAccounted'
  BY SMTT(20) DEF UpdatesAccounted, ForceCollect, Order, KeepSidecar, Spend,
     server, wire, cycle, updates
<1>5. OwedIsPlanned'
  BY SMTT(20) DEF OwedIsPlanned, TypeOK, CycleInStep, Silence, Answers,
     ForceCollect, Order, KeepSidecar, Spend, server, wire, cycle, updates
<1> QED BY <1>1, <1>2, <1>3, <1>4, <1>5

(* A pushed update: one more push, and one more on the row.               *)
LEMMA PushUpdateInv ==
  ASSUME HeartbeatInv, PushUpdate
  PROVE  HeartbeatInv'
<1> USE DEF HeartbeatInv
<1>1. TypeOK'
  <2>1. row' \in [known: BOOLEAN, enabled: BOOLEAN, update: BOOLEAN, settings: Settings]
    BY RowPushed DEF TypeOK, Rows
  <2>2. budget' \in [orders: Nat, faults: Nat]
    BY SMTT(20) DEF TypeOK, PushUpdate, Order, KeepSidecar, Spend, server,
       wire, cycle, updates
  <2>3. pushes' \in Nat /\ installs' \in Nat /\ missed' \in Nat
    BY InvFacts, SMTT(20) DEF TypeOK, PushUpdate, Order, KeepSidecar, Spend,
       server, wire, cycle, updates, One, Answers
  <2> QED
    BY <2>1, <2>2, <2>3, SMTT(20) DEF TypeOK, PushUpdate, Order,
       KeepSidecar, Spend, server, wire, cycle, updates
<1>2. CallInStep'
  BY SMTT(20) DEF CallInStep, CycleInStep, TypeOK, PushUpdate, Order,
     KeepSidecar, Spend, server, wire, cycle, updates
<1>3. CycleInStep'
  BY SMTT(20) DEF CycleInStep, CallInStep, TypeOK, Silence, One, PushUpdate,
     Order, KeepSidecar, Spend, server, wire, cycle, updates
<1>4. UpdatesAccounted'
  <2>1. row'.update = TRUE /\ call' = call /\ heard' = heard
    BY SMTT(20) DEF TypeOK, CallInStep, CycleInStep, Silence, Answers,
       NoCall, NothingHeard, PushUpdate, Order, KeepSidecar, Spend, server,
       wire, cycle, updates
  <2>2. One(row'.update) = 1
        /\ One(call'.answer.update) = One(call.answer.update)
        /\ One(heard'.answer.update) = One(heard.answer.update)
    BY <2>1, OneFalse, OneTrue, Zenon
  <2>3. pushes' = pushes + One(~row.update) /\ installs' = installs
        /\ missed' = missed
    BY Zenon DEF PushUpdate, Order, KeepSidecar, Spend, server, wire, cycle,
       updates
  <2>4. One(row.update) + One(~row.update) = 1
    BY InvFacts, OneNot, Zenon
  <2>5. One(~row.update) \in Nat
    BY DEF One
  <2> QED
    BY <2>2, <2>3, <2>4, <2>5, InvFacts, SMTT(20) DEF UpdatesAccounted
<1>5. OwedIsPlanned'
  BY SMTT(20) DEF OwedIsPlanned, TypeOK, CycleInStep, Silence, Answers,
     PushUpdate, Order, KeepSidecar, Spend, server, wire, cycle, updates
<1> QED BY <1>1, <1>2, <1>3, <1>4, <1>5

(* Pausing and resuming.                                                  *)
LEMMA SetEnabledInv ==
  ASSUME HeartbeatInv, NEW enabled \in BOOLEAN, SetEnabled(enabled)
  PROVE  HeartbeatInv'
<1> USE DEF HeartbeatInv
<1>1. TypeOK'
  <2>1. row' \in [known: BOOLEAN, enabled: BOOLEAN, update: BOOLEAN, settings: Settings]
    BY SMTT(20) DEF TypeOK, SetEnabled, Order, KeepSidecar, Spend, server,
       wire, cycle, updates
  <2>2. budget' \in [orders: Nat, faults: Nat]
    BY SMTT(20) DEF TypeOK, SetEnabled, Order, KeepSidecar, Spend, server,
       wire, cycle, updates
  <2> QED
    BY <2>1, <2>2, SMTT(20) DEF TypeOK, SetEnabled, Order, KeepSidecar,
       Spend, server, wire, cycle, updates
<1>2. CallInStep'
  BY SMTT(20) DEF CallInStep, CycleInStep, TypeOK, SetEnabled, Order,
     KeepSidecar, Spend, server, wire, cycle, updates
<1>3. CycleInStep'
  BY SMTT(20) DEF CycleInStep, CallInStep, TypeOK, Silence, One, SetEnabled,
     Order, KeepSidecar, Spend, server, wire, cycle, updates
<1>4. UpdatesAccounted'
  <2>1. row'.update = row.update /\ call' = call /\ heard' = heard
    BY SMTT(20) DEF TypeOK, CallInStep, CycleInStep, Silence, Answers,
       NoCall, NothingHeard, SetEnabled, Order, KeepSidecar, Spend, server,
       wire, cycle, updates
  <2>2. One(row'.update) = One(row.update)
        /\ One(call'.answer.update) = One(call.answer.update)
        /\ One(heard'.answer.update) = One(heard.answer.update)
    BY <2>1, OneFalse, OneTrue, Zenon
  <2>3. pushes' = pushes /\ installs' = installs /\ missed' = missed
    BY Zenon DEF SetEnabled, Order, KeepSidecar, Spend, server, wire, cycle,
       updates
  <2> QED
    BY <2>2, <2>3, InvFacts, SMTT(20) DEF UpdatesAccounted
<1>5. OwedIsPlanned'
  BY SMTT(20) DEF OwedIsPlanned, TypeOK, CycleInStep, Silence, Answers,
     SetEnabled, Order, KeepSidecar, Spend, server, wire, cycle, updates
<1> QED BY <1>1, <1>2, <1>3, <1>4, <1>5

(* A deleted row takes its pending push with it.                          *)
LEMMA DeleteSidecarInv ==
  ASSUME HeartbeatInv, DeleteSidecar
  PROVE  HeartbeatInv'
<1> USE DEF HeartbeatInv
<1>1. TypeOK'
  <2>1. row' \in [known: BOOLEAN, enabled: BOOLEAN, update: BOOLEAN, settings: Settings]
    BY NewRowType, Zenon DEF DeleteSidecar, Order, Rows
  <2>2. budget' \in [orders: Nat, faults: Nat]
    BY SMTT(20) DEF TypeOK, DeleteSidecar, Order, KeepSidecar, Spend,
       NewRow, server, wire, cycle, updates
  <2>3. pushes' \in Nat /\ installs' \in Nat /\ missed' \in Nat
    BY InvFacts, SMTT(20) DEF TypeOK, DeleteSidecar, Order, KeepSidecar,
       Spend, NewRow, server, wire, cycle, updates, One, Answers
  <2> QED
    BY <2>1, <2>2, <2>3, SMTT(20) DEF TypeOK, DeleteSidecar, Order,
       KeepSidecar, Spend, NewRow, server, wire, cycle, updates
<1>2. CallInStep'
  BY SMTT(20) DEF CallInStep, CycleInStep, TypeOK, DeleteSidecar, Order,
     KeepSidecar, Spend, NewRow, server, wire, cycle, updates
<1>3. CycleInStep'
  BY SMTT(20) DEF CycleInStep, CallInStep, TypeOK, Silence, One,
     DeleteSidecar, Order, KeepSidecar, Spend, NewRow, server, wire, cycle,
     updates
<1>4. UpdatesAccounted'
  <2>1. row'.update = FALSE /\ call' = call /\ heard' = heard
    BY NothingYet, Zenon DEF DeleteSidecar, Order, KeepSidecar, wire, cycle
  <2>2. One(row'.update) = 0
        /\ One(call'.answer.update) = One(call.answer.update)
        /\ One(heard'.answer.update) = One(heard.answer.update)
    BY <2>1, OneFalse, OneTrue, Zenon
  <2>3. pushes' = pushes /\ installs' = installs
        /\ missed' = missed + One(row.update)
    BY Zenon DEF DeleteSidecar, Order, KeepSidecar, Spend, NewRow, server,
       wire, cycle, updates
  <2> QED
    BY <2>2, <2>3, InvFacts, SMTT(20) DEF UpdatesAccounted
<1>5. OwedIsPlanned'
  BY SMTT(20) DEF OwedIsPlanned, TypeOK, CycleInStep, Silence, Answers,
     DeleteSidecar, Order, KeepSidecar, Spend, NewRow, server, wire, cycle,
     updates
<1> QED BY <1>1, <1>2, <1>3, <1>4, <1>5

(* New settings.                                                          *)
LEMMA ChangeSettingsInv ==
  ASSUME HeartbeatInv, NEW s \in Settings, NEW directories \in BOOLEAN, ChangeSettings(s, directories)
  PROVE  HeartbeatInv'
<1> USE DEF HeartbeatInv
<1>1. TypeOK'
  <2>1. row' \in [known: BOOLEAN, enabled: BOOLEAN, update: BOOLEAN, settings: Settings]
    BY SMTT(20) DEF TypeOK, ChangeSettings, Order, KeepSidecar, Spend,
       server, wire, cycle, updates
  <2>2. budget' \in [orders: Nat, faults: Nat]
    BY SMTT(20) DEF TypeOK, ChangeSettings, Order, KeepSidecar, Spend,
       server, wire, cycle, updates
  <2>3. trigger' \in BOOLEAN /\ failed' \in BOOLEAN
    BY SMTT(20) DEF TypeOK, ChangeSettings, Order, KeepSidecar, Spend,
       server, wire, cycle, updates
  <2> QED
    BY <2>1, <2>2, <2>3, SMTT(20) DEF TypeOK, ChangeSettings, Order,
       KeepSidecar, Spend, server, wire, cycle, updates
<1>2. CallInStep'
  BY SMTT(20) DEF CallInStep, CycleInStep, TypeOK, ChangeSettings, Order,
     KeepSidecar, Spend, server, wire, cycle, updates
<1>3. CycleInStep'
  BY SMTT(20) DEF CycleInStep, CallInStep, TypeOK, Silence, One,
     ChangeSettings, Order, KeepSidecar, Spend, server, wire, cycle, updates
<1>4. UpdatesAccounted'
  <2>1. row'.update = row.update /\ call' = call /\ heard' = heard
    BY SMTT(20) DEF TypeOK, CallInStep, CycleInStep, Silence, Answers,
       NoCall, NothingHeard, ChangeSettings, Order, KeepSidecar, Spend,
       server, wire, cycle, updates
  <2>2. One(row'.update) = One(row.update)
        /\ One(call'.answer.update) = One(call.answer.update)
        /\ One(heard'.answer.update) = One(heard.answer.update)
    BY <2>1, OneFalse, OneTrue, Zenon
  <2>3. pushes' = pushes /\ installs' = installs /\ missed' = missed
    BY Zenon DEF ChangeSettings, Order, KeepSidecar, Spend, server, wire,
       cycle, updates
  <2> QED
    BY <2>2, <2>3, InvFacts, SMTT(20) DEF UpdatesAccounted
<1>5. OwedIsPlanned'
  BY SMTT(20) DEF OwedIsPlanned, TypeOK, CycleInStep, Silence, Answers,
     ChangeSettings, Order, KeepSidecar, Spend, server, wire, cycle, updates
<1> QED BY <1>1, <1>2, <1>3, <1>4, <1>5

(* An interval passes.                                                    *)
LEMMA BecomeDueInv ==
  ASSUME HeartbeatInv, NEW p \in Providers, BecomeDue(p)
  PROVE  HeartbeatInv'
<1> USE DEF HeartbeatInv
<1>1. TypeOK'
  <2>1. due' \subseteq Providers /\ plan' \subseteq Providers
        /\ collecting' \subseteq Providers /\ owed' \subseteq Providers
    BY SMTT(20) DEF TypeOK, BecomeDue, server, wire, cycle, updates, Answers
  <2> QED
    BY <2>1, SMTT(20) DEF TypeOK, BecomeDue, server, wire, cycle, updates
<1>2. CallInStep'
  BY SMTT(20) DEF CallInStep, CycleInStep, TypeOK, BecomeDue, server, wire,
     cycle, updates
<1>3. CycleInStep'
  BY SMTT(20) DEF CycleInStep, CallInStep, TypeOK, Silence, One, BecomeDue,
     server, wire, cycle, updates
<1>4. UpdatesAccounted'
  BY SMTT(20) DEF UpdatesAccounted, BecomeDue, server, wire, cycle, updates
<1>5. OwedIsPlanned'
  BY SMTT(20) DEF OwedIsPlanned, TypeOK, CycleInStep, Silence, Answers,
     BecomeDue, server, wire, cycle, updates
<1> QED BY <1>1, <1>2, <1>3, <1>4, <1>5

(* Building an answer moves the push from the row into it.                *)
LEMMA HandleInv ==
  ASSUME HeartbeatInv, Handle
  PROVE  HeartbeatInv'
<1> USE DEF HeartbeatInv
<1>a. Answer \in Answers
  BY AnswerType
<1>1. TypeOK'
  <2>1. row' \in [known: BOOLEAN, enabled: BOOLEAN, update: BOOLEAN, settings: Settings]
    BY RowTaken DEF TypeOK, Rows, Handle
  <2>2. call' \in [at: {"none", "sent", "answered"}, answer: Answers]
    BY SilenceType, <1>a, SMTT(20) DEF TypeOK, Handle, Taken, server, wire,
       cycle, updates, NoCall, NothingHeard
  <2>3. due' \subseteq Providers /\ plan' \subseteq Providers
        /\ collecting' \subseteq Providers /\ owed' \subseteq Providers
    BY SMTT(20) DEF TypeOK, Handle, Taken, server, wire, cycle, updates,
       Answers
  <2>4. trigger' \in BOOLEAN /\ failed' \in BOOLEAN
    BY SMTT(20) DEF TypeOK, Handle, Taken, server, wire, cycle, updates
  <2> QED
    BY <2>1, <2>2, <2>3, <2>4, SMTT(20) DEF TypeOK, Handle, Taken, server,
       wire, cycle, updates
<1>2. CallInStep'
  BY SMTT(20) DEF CallInStep, CycleInStep, TypeOK, Handle, Taken, server,
     wire, cycle, updates
<1>3. CycleInStep'
  BY SMTT(20) DEF CycleInStep, CallInStep, TypeOK, Silence, One, Handle,
     Taken, server, wire, cycle, updates
<1>4. UpdatesAccounted'
  <2>1. row'.update = FALSE /\ call'.answer.update = row.update /\ heard' = heard
        /\ call.answer.update = FALSE
    <3>1. row'.update = FALSE
      BY RowTaken DEF TypeOK, Rows, Handle
    <3>2. call' = [at |-> "answered", answer |-> Answer] /\ heard' = heard
          /\ call.at = "sent"
      BY Zenon DEF Handle, cycle
    <3>3. call'.answer.update = row.update
      BY <3>2, Zenon DEF Answer
    <3>4. call.answer = Silence
      BY <3>2 DEF CallInStep
    <3> QED BY <3>1, <3>2, <3>3, <3>4, NothingYet, Zenon
  <2>2. One(row'.update) = 0
        /\ One(call'.answer.update) = One(row.update)
        /\ One(heard'.answer.update) = One(heard.answer.update)
        /\ One(call.answer.update) = 0
    BY <2>1, OneFalse, OneTrue, Zenon
  <2>3. pushes' = pushes /\ installs' = installs /\ missed' = missed
    BY Zenon DEF Handle, Taken, server, wire, cycle, updates
  <2> QED
    BY <2>2, <2>3, InvFacts, SMTT(20) DEF UpdatesAccounted
<1>5. OwedIsPlanned'
  BY SMTT(20) DEF OwedIsPlanned, TypeOK, CycleInStep, Silence, Answers,
     Handle, Taken, server, wire, cycle, updates
<1> QED BY <1>1, <1>2, <1>3, <1>4, <1>5

(* A late request takes the push and nobody hears of it.                  *)
LEMMA HandleLateInv ==
  ASSUME HeartbeatInv, HandleLate
  PROVE  HeartbeatInv'
<1> USE DEF HeartbeatInv
<1>1. TypeOK'
  <2>1. row' \in [known: BOOLEAN, enabled: BOOLEAN, update: BOOLEAN, settings: Settings]
    BY RowTaken DEF TypeOK, Rows, HandleLate
  <2>2. queue' \in 0..QueueLimit /\ late' \in Nat
    BY HeartbeatAssumption, SMTT(20) DEF TypeOK, HandleLate, Taken, server,
       wire, cycle, updates, One
  <2>3. pushes' \in Nat /\ installs' \in Nat /\ missed' \in Nat
    BY InvFacts, SMTT(20) DEF TypeOK, HandleLate, Taken, server, wire,
       cycle, updates, One, Answers
  <2>4. due' \subseteq Providers /\ plan' \subseteq Providers
        /\ collecting' \subseteq Providers /\ owed' \subseteq Providers
    BY SMTT(20) DEF TypeOK, HandleLate, Taken, server, wire, cycle, updates,
       Answers
  <2>5. trigger' \in BOOLEAN /\ failed' \in BOOLEAN
    BY SMTT(20) DEF TypeOK, HandleLate, Taken, server, wire, cycle, updates
  <2> QED
    BY <2>1, <2>2, <2>3, <2>4, <2>5, SMTT(20) DEF TypeOK, HandleLate, Taken,
       server, wire, cycle, updates
<1>2. CallInStep'
  BY SMTT(20) DEF CallInStep, CycleInStep, TypeOK, HandleLate, Taken,
     server, wire, cycle, updates
<1>3. CycleInStep'
  BY SMTT(20) DEF CycleInStep, CallInStep, TypeOK, Silence, One, HandleLate,
     Taken, server, wire, cycle, updates
<1>4. UpdatesAccounted'
  <2>1. row'.update = FALSE /\ call' = call /\ heard' = heard
    <3>1. row'.update = FALSE
      BY RowTaken DEF TypeOK, Rows, HandleLate
    <3> QED BY <3>1, Zenon DEF HandleLate, cycle
  <2>2. One(row'.update) = 0
        /\ One(call'.answer.update) = One(call.answer.update)
        /\ One(heard'.answer.update) = One(heard.answer.update)
    BY <2>1, OneFalse, OneTrue, Zenon
  <2>3. pushes' = pushes /\ installs' = installs
        /\ missed' = missed + One(row.update)
    BY Zenon DEF HandleLate, Taken, server, wire, cycle, updates
  <2> QED
    BY <2>2, <2>3, InvFacts, SMTT(20) DEF UpdatesAccounted
<1>5. OwedIsPlanned'
  BY SMTT(20) DEF OwedIsPlanned, TypeOK, CycleInStep, Silence, Answers,
     HandleLate, Taken, server, wire, cycle, updates
<1> QED BY <1>1, <1>2, <1>3, <1>4, <1>5

(* A restart of the server.                                               *)
LEMMA RestartServerInv ==
  ASSUME HeartbeatInv, RestartServer
  PROVE  HeartbeatInv'
<1> USE DEF HeartbeatInv
<1>1. TypeOK'
  <2>1. budget' \in [orders: Nat, faults: Nat]
    BY SMTT(20) DEF TypeOK, RestartServer, CanFail, Spend, server, wire,
       cycle, updates
  <2>2. due' \subseteq Providers /\ plan' \subseteq Providers
        /\ collecting' \subseteq Providers /\ owed' \subseteq Providers
    BY Zenon DEF TypeOK, RestartServer, cycle
  <2> QED
    BY <2>1, <2>2, Zenon DEF TypeOK, RestartServer, CanFail, Spend,
       server, wire, cycle, updates
<1>2. CallInStep'
  BY SMTT(20) DEF CallInStep, CycleInStep, TypeOK, RestartServer, CanFail,
     Spend, server, wire, cycle, updates
<1>3. CycleInStep'
  BY SMTT(20) DEF CycleInStep, CallInStep, TypeOK, Silence, One,
     RestartServer, CanFail, Spend, server, wire, cycle, updates
<1>4. UpdatesAccounted'
  BY SMTT(20) DEF UpdatesAccounted, RestartServer, CanFail, Spend, server,
     wire, cycle, updates
<1>5. OwedIsPlanned'
  BY SMTT(20) DEF OwedIsPlanned, TypeOK, CycleInStep, Silence, Answers,
     RestartServer, CanFail, Spend, server, wire, cycle, updates
<1> QED BY <1>1, <1>2, <1>3, <1>4, <1>5

(* What is collected is owed until it is handed over.                     *)
LEMMA StartCycleInv ==
  ASSUME HeartbeatInv, StartCycle
  PROVE  HeartbeatInv'
<1> USE DEF HeartbeatInv
<1>1. TypeOK'
  <2>1. due' \subseteq Providers /\ plan' \subseteq Providers
        /\ collecting' \subseteq Providers /\ owed' \subseteq Providers
    BY SMTT(20) DEF TypeOK, StartCycle, server, wire, cycle, updates,
       Answers
  <2>2. toFlush' \in Nat /\ toPush' \in 0..MaxBatches
    BY HeartbeatAssumption, SMTT(20) DEF TypeOK, StartCycle, server, wire,
       cycle, updates
  <2> QED
    BY <2>1, <2>2, SMTT(20) DEF TypeOK, StartCycle, server, wire, cycle,
       updates
<1>2. CallInStep'
  BY SMTT(20) DEF CallInStep, CycleInStep, TypeOK, StartCycle, server, wire,
     cycle, updates
<1>3. CycleInStep'
  BY SMTT(20) DEF CycleInStep, CallInStep, TypeOK, Silence, One, StartCycle,
     server, wire, cycle, updates
<1>4. UpdatesAccounted'
  BY SMTT(20) DEF UpdatesAccounted, StartCycle, server, wire, cycle, updates
<1>5. OwedIsPlanned'
  <2>1. ~heard.some /\ heard' = heard /\ plan' = plan /\ owed' = owed \cup plan
    BY DEF CycleInStep, StartCycle, NothingHeard
  <2> QED BY <2>1 DEF OwedIsPlanned
<1> QED BY <1>1, <1>2, <1>3, <1>4, <1>5

(* A POST carries no answer yet.                                          *)
LEMMA PostInv ==
  ASSUME HeartbeatInv, Post
  PROVE  HeartbeatInv'
<1> USE DEF HeartbeatInv
<1>1. TypeOK'
  <2>1. call' \in [at: {"none", "sent", "answered"}, answer: Answers]
    BY SilenceType, SMTT(20) DEF TypeOK, Post, NoCall, server, wire, cycle,
       updates, NothingHeard
  <2> QED
    BY <2>1, SMTT(20) DEF TypeOK, Post, NoCall, server, wire, cycle, updates
<1>2. CallInStep'
  BY SMTT(20) DEF CallInStep, CycleInStep, TypeOK, Post, NoCall, server,
     wire, cycle, updates
<1>3. CycleInStep'
  BY SMTT(20) DEF CycleInStep, CallInStep, TypeOK, Silence, One, Post,
     NoCall, server, wire, cycle, updates
<1>4. UpdatesAccounted'
  <2>1. row' = row /\ call'.answer.update = FALSE /\ heard' = heard
        /\ call.answer.update = FALSE
    BY SMTT(20) DEF TypeOK, CallInStep, CycleInStep, Silence, Answers,
       NoCall, NothingHeard, Post, server, wire, cycle, updates
  <2>2. One(row'.update) = One(row.update)
        /\ One(call'.answer.update) = 0
        /\ One(heard'.answer.update) = One(heard.answer.update)
        /\ One(call.answer.update) = 0
    BY <2>1, OneFalse, OneTrue, Zenon
  <2>3. pushes' = pushes /\ installs' = installs /\ missed' = missed
    BY Zenon DEF Post, NoCall, server, wire, cycle, updates
  <2> QED
    BY <2>2, <2>3, InvFacts, SMTT(20) DEF UpdatesAccounted
<1>5. OwedIsPlanned'
  BY SMTT(20) DEF OwedIsPlanned, TypeOK, CycleInStep, Silence, Answers,
     Post, NoCall, server, wire, cycle, updates
<1> QED BY <1>1, <1>2, <1>3, <1>4, <1>5

(* The answer to a queued payload.                                        *)
LEMMA ReceiveFlushedInv ==
  ASSUME HeartbeatInv, NEW stored \in BOOLEAN, ReceiveFlushed(stored)
  PROVE  HeartbeatInv'
<1> USE DEF HeartbeatInv
<1>1. TypeOK'
  <2>1. call' \in [at: {"none", "sent", "answered"}, answer: Answers]
    BY SilenceType, SMTT(20) DEF TypeOK, ReceiveFlushed, CanFail, Spend,
       NoCall, server, wire, cycle, updates, NothingHeard
  <2>2. budget' \in [orders: Nat, faults: Nat]
    BY SMTT(20) DEF TypeOK, ReceiveFlushed, CanFail, Spend, NoCall, server,
       wire, cycle, updates
  <2>3. toFlush' \in Nat /\ toPush' \in 0..MaxBatches
    BY HeartbeatAssumption, SMTT(20) DEF TypeOK, ReceiveFlushed, CanFail,
       Spend, NoCall, server, wire, cycle, updates, CallInStep
  <2>4. queue' \in 0..QueueLimit /\ late' \in Nat
    BY HeartbeatAssumption, SMTT(20) DEF TypeOK, CycleInStep, One, ReceiveFlushed
  <2>5. attempts' \in 1..MaxAttempts
    BY HeartbeatAssumption, SMTT(20) DEF TypeOK, ReceiveFlushed, CanFail,
       Spend, NoCall, server, wire, cycle, updates
  <2>6. pushes' \in Nat /\ installs' \in Nat /\ missed' \in Nat
    BY InvFacts, SMTT(20) DEF TypeOK, ReceiveFlushed, CanFail, Spend,
       NoCall, server, wire, cycle, updates, One, Answers
  <2> QED
    BY <2>1, <2>2, <2>3, <2>4, <2>5, <2>6, SMTT(20) DEF TypeOK,
       ReceiveFlushed, CanFail, Spend, NoCall, server, wire, cycle, updates
<1>2. CallInStep'
  BY SMTT(20) DEF CallInStep, CycleInStep, TypeOK, ReceiveFlushed, CanFail,
     Spend, NoCall, server, wire, cycle, updates
<1>3. CycleInStep'
  BY SMTT(20) DEF CycleInStep, CallInStep, TypeOK, Silence, One,
     ReceiveFlushed, CanFail, Spend, NoCall, server, wire, cycle, updates
<1>4. UpdatesAccounted'
  <2>1. row' = row /\ call'.answer.update = FALSE /\ heard' = heard
    <3>1. call' = NoCall /\ row' = row /\ heard' = heard
      BY Zenon DEF ReceiveFlushed, server
    <3> QED BY <3>1, NothingYet, Zenon
  <2>2. One(row'.update) = One(row.update)
        /\ One(call'.answer.update) = 0
        /\ One(heard'.answer.update) = One(heard.answer.update)
    BY <2>1, OneFalse, OneTrue, Zenon
  <2>3. pushes' = pushes /\ installs' = installs
        /\ missed' = missed + One(call.answer.update)
    BY Zenon DEF ReceiveFlushed, CanFail, Spend, NoCall, server, wire,
       cycle, updates
  <2> QED
    BY <2>2, <2>3, InvFacts, SMTT(20) DEF UpdatesAccounted
<1>5. OwedIsPlanned'
  BY SMTT(20) DEF OwedIsPlanned, TypeOK, CycleInStep, Silence, Answers,
     ReceiveFlushed, CanFail, Spend, NoCall, server, wire, cycle, updates
<1> QED BY <1>1, <1>2, <1>3, <1>4, <1>5

(* The answer to a payload of this cycle.                                 *)
LEMMA ReceivePushedInv ==
  ASSUME HeartbeatInv, ReceivePushed
  PROVE  HeartbeatInv'
<1> USE DEF HeartbeatInv
<1>a. Merged(heard.answer, call.answer) \in Answers
  BY MergedType DEF TypeOK
<1>1. TypeOK'
  <2>1. call' \in [at: {"none", "sent", "answered"}, answer: Answers]
    BY SilenceType, <1>a, SMTT(20) DEF TypeOK, ReceivePushed, NoCall,
       server, wire, cycle, updates, NothingHeard
  <2>2. heard' \in [some: BOOLEAN, answer: Answers]
    BY SilenceType, <1>a, SMTT(20) DEF TypeOK, ReceivePushed, NoCall,
       server, wire, cycle, updates, NothingHeard
  <2>3. toFlush' \in Nat /\ toPush' \in 0..MaxBatches
    BY HeartbeatAssumption, SMTT(20) DEF TypeOK, ReceivePushed, NoCall,
       server, wire, cycle, updates, CallInStep
  <2>4. attempts' \in 1..MaxAttempts
    BY HeartbeatAssumption, SMTT(20) DEF TypeOK, ReceivePushed, NoCall,
       server, wire, cycle, updates
  <2>5. due' \subseteq Providers /\ plan' \subseteq Providers
        /\ collecting' \subseteq Providers /\ owed' \subseteq Providers
    BY SMTT(20) DEF TypeOK, ReceivePushed, NoCall, server, wire, cycle,
       updates, Answers
  <2>6. pushes' \in Nat /\ installs' \in Nat /\ missed' \in Nat
    BY InvFacts, SMTT(20) DEF TypeOK, ReceivePushed, NoCall, server, wire,
       cycle, updates, One, Answers
  <2> QED
    BY <2>1, <2>2, <2>3, <2>4, <2>5, <2>6, SMTT(20) DEF TypeOK,
       ReceivePushed, NoCall, server, wire, cycle, updates
<1>2. CallInStep'
  BY SMTT(20) DEF CallInStep, CycleInStep, TypeOK, ReceivePushed, NoCall,
     server, wire, cycle, updates
<1>3. CycleInStep'
  BY SMTT(20) DEF CycleInStep, CallInStep, TypeOK, Silence, One, Merged,
     ReceivePushed, NoCall, server, wire, cycle, updates
<1>4. UpdatesAccounted'
  <2>1. row' = row /\ call'.answer.update = FALSE
        /\ heard'.answer.update = (heard.answer.update \/ call.answer.update)
    BY SMTT(20) DEF TypeOK, CallInStep, CycleInStep, Silence, Answers,
       NoCall, NothingHeard, Answer, Merged, ReceivePushed, server, wire,
       cycle, updates
  <2>2. One(heard'.answer.update)
         + One(heard.answer.update /\ call.answer.update)
        = One(heard.answer.update) + One(call.answer.update)
    BY <2>1, InvFacts, OneOfTwo, Zenon
  <2>3. One(heard'.answer.update) \in Nat
        /\ One(heard.answer.update /\ call.answer.update) \in Nat
    BY DEF One
  <2>4. missed' = missed + One(heard.answer.update /\ call.answer.update)
        /\ pushes' = pushes /\ installs' = installs
        /\ One(row'.update) = One(row.update) /\ One(call'.answer.update) = 0
    BY <2>1, OneFalse, Zenon DEF ReceivePushed
  <2> QED
    BY <2>2, <2>3, <2>4, InvFacts, SMTT(20) DEF UpdatesAccounted
<1>5. OwedIsPlanned'
  <2>1. heard'.some /\ heard'.answer.polls = heard.answer.polls \cup call.answer.polls
    BY DEF TypeOK, ReceivePushed, Merged
  <2>2. CASE heard.some
    BY <2>1, <2>2 DEF OwedIsPlanned, ReceivePushed
  <2>3. CASE ~heard.some
    <3>1. phase = "cycle" /\ collecting = plan
      BY DEF CallInStep, CycleInStep, ReceivePushed
    <3> QED BY <2>1, <2>3, <3>1 DEF OwedIsPlanned, ReceivePushed
  <2> QED BY <2>2, <2>3
<1> QED BY <1>1, <1>2, <1>3, <1>4, <1>5

(* A request is lost.                                                     *)
LEMMA LoseRequestInv ==
  ASSUME HeartbeatInv, LoseRequest
  PROVE  HeartbeatInv'
<1> USE DEF HeartbeatInv
<1>1. TypeOK'
  <2>1. call' \in [at: {"none", "sent", "answered"}, answer: Answers]
    BY SilenceType, SMTT(20) DEF TypeOK, LoseRequest, AfterFailure, CanFail,
       Spend, NoCall, server, wire, cycle, updates, NothingHeard
  <2>2. budget' \in [orders: Nat, faults: Nat]
    BY SMTT(20) DEF TypeOK, LoseRequest, AfterFailure, CanFail, Spend,
       NoCall, server, wire, cycle, updates
  <2>3. toFlush' \in Nat /\ toPush' \in 0..MaxBatches
    BY HeartbeatAssumption, SMTT(20) DEF TypeOK, LoseRequest, AfterFailure,
       CanFail, Spend, NoCall, server, wire, cycle, updates, CallInStep
  <2>4. attempts' \in 1..MaxAttempts
    BY HeartbeatAssumption, SMTT(20) DEF TypeOK, LoseRequest, AfterFailure
  <2> QED
    BY <2>1, <2>2, <2>3, <2>4, Zenon DEF TypeOK, LoseRequest,
       AfterFailure, CanFail, Spend, NoCall, server, wire, cycle, updates
<1>2. CallInStep'
  BY SMTT(20) DEF CallInStep, CycleInStep, TypeOK, LoseRequest,
     AfterFailure, CanFail, Spend, NoCall, server, wire, cycle, updates
<1>3. CycleInStep'
  BY SMTT(20) DEF CycleInStep, CallInStep, TypeOK, Silence, One,
     LoseRequest, AfterFailure, CanFail, Spend, NoCall, server, wire, cycle,
     updates
<1>4. UpdatesAccounted'
  <2>1. row' = row /\ call'.answer.update = FALSE /\ heard' = heard
        /\ call.answer.update = FALSE
    <3>1. call' = NoCall /\ row' = row /\ heard' = heard /\ call.at = "sent"
      BY Zenon DEF LoseRequest, AfterFailure, server
    <3>2. call.answer = Silence
      BY <3>1 DEF CallInStep
    <3> QED BY <3>1, <3>2, NothingYet, Zenon
  <2>2. One(row'.update) = One(row.update)
        /\ One(call'.answer.update) = 0
        /\ One(heard'.answer.update) = One(heard.answer.update)
        /\ One(call.answer.update) = 0
    BY <2>1, OneFalse, OneTrue, Zenon
  <2>3. pushes' = pushes /\ installs' = installs /\ missed' = missed
    BY Zenon DEF LoseRequest, AfterFailure, CanFail, Spend, NoCall, server,
       wire, cycle, updates
  <2> QED
    BY <2>2, <2>3, InvFacts, SMTT(20) DEF UpdatesAccounted
<1>5. OwedIsPlanned'
  BY SMTT(20) DEF OwedIsPlanned, TypeOK, CycleInStep, Silence, Answers,
     LoseRequest, AfterFailure, CanFail, Spend, NoCall, server, wire, cycle,
     updates
<1> QED BY <1>1, <1>2, <1>3, <1>4, <1>5

(* A request is given up.                                                 *)
LEMMA TimeOutInv ==
  ASSUME HeartbeatInv, TimeOut
  PROVE  HeartbeatInv'
<1> USE DEF HeartbeatInv
<1>1. TypeOK'
  <2>1. call' \in [at: {"none", "sent", "answered"}, answer: Answers]
    BY SilenceType, SMTT(20) DEF TypeOK, TimeOut, AfterFailure, CanFail,
       Spend, NoCall, server, wire, cycle, updates, NothingHeard
  <2>2. budget' \in [orders: Nat, faults: Nat]
    BY SMTT(20) DEF TypeOK, TimeOut, AfterFailure, CanFail, Spend, NoCall,
       server, wire, cycle, updates
  <2>3. toFlush' \in Nat /\ toPush' \in 0..MaxBatches
    BY HeartbeatAssumption, SMTT(20) DEF TypeOK, TimeOut, AfterFailure,
       CanFail, Spend, NoCall, server, wire, cycle, updates, CallInStep
  <2>4. attempts' \in 1..MaxAttempts
    BY HeartbeatAssumption, SMTT(20) DEF TypeOK, TimeOut, AfterFailure,
       CanFail, Spend, NoCall, server, wire, cycle, updates
  <2>5. queue' \in 0..QueueLimit /\ late' \in Nat
    BY SMTT(20) DEF TypeOK, TimeOut, AfterFailure
  <2> QED
    BY <2>1, <2>2, <2>3, <2>4, <2>5, Zenon DEF TypeOK, TimeOut,
       AfterFailure, CanFail, Spend, NoCall, server, wire, cycle, updates
<1>2. CallInStep'
  BY SMTT(20) DEF CallInStep, CycleInStep, TypeOK, TimeOut, AfterFailure,
     CanFail, Spend, NoCall, server, wire, cycle, updates
<1>3. CycleInStep'
  BY SMTT(20) DEF CycleInStep, CallInStep, TypeOK, Silence, One, TimeOut,
     AfterFailure, CanFail, Spend, NoCall, server, wire, cycle, updates
<1>4. UpdatesAccounted'
  <2>1. row' = row /\ call'.answer.update = FALSE /\ heard' = heard
        /\ call.answer.update = FALSE
    <3>1. call' = NoCall /\ row' = row /\ heard' = heard /\ call.at = "sent"
      BY Zenon DEF TimeOut, AfterFailure, server
    <3>2. call.answer = Silence
      BY <3>1 DEF CallInStep
    <3> QED BY <3>1, <3>2, NothingYet, Zenon
  <2>2. One(row'.update) = One(row.update)
        /\ One(call'.answer.update) = 0
        /\ One(heard'.answer.update) = One(heard.answer.update)
        /\ One(call.answer.update) = 0
    BY <2>1, OneFalse, OneTrue, Zenon
  <2>3. pushes' = pushes /\ installs' = installs /\ missed' = missed
    BY Zenon DEF TimeOut, AfterFailure, CanFail, Spend, NoCall, server,
       wire, cycle, updates
  <2> QED
    BY <2>2, <2>3, InvFacts, SMTT(20) DEF UpdatesAccounted
<1>5. OwedIsPlanned'
  BY SMTT(20) DEF OwedIsPlanned, TypeOK, CycleInStep, Silence, Answers,
     TimeOut, AfterFailure, CanFail, Spend, NoCall, server, wire, cycle,
     updates
<1> QED BY <1>1, <1>2, <1>3, <1>4, <1>5

(* An answer is lost, and with it the push it carries.                    *)
LEMMA LoseAnswerInv ==
  ASSUME HeartbeatInv, LoseAnswer
  PROVE  HeartbeatInv'
<1> USE DEF HeartbeatInv
<1>1. TypeOK'
  <2>1. call' \in [at: {"none", "sent", "answered"}, answer: Answers]
    BY SilenceType, SMTT(20) DEF TypeOK, LoseAnswer, AfterFailure, CanFail,
       Spend, NoCall, server, wire, cycle, updates, NothingHeard
  <2>2. budget' \in [orders: Nat, faults: Nat]
    BY SMTT(20) DEF TypeOK, LoseAnswer, AfterFailure, CanFail, Spend,
       NoCall, server, wire, cycle, updates
  <2>3. toFlush' \in Nat /\ toPush' \in 0..MaxBatches
    BY HeartbeatAssumption, SMTT(20) DEF TypeOK, LoseAnswer, AfterFailure,
       CanFail, Spend, NoCall, server, wire, cycle, updates, CallInStep
  <2>4. attempts' \in 1..MaxAttempts
    BY HeartbeatAssumption, SMTT(20) DEF TypeOK, LoseAnswer, AfterFailure,
       CanFail, Spend, NoCall, server, wire, cycle, updates
  <2>5. pushes' \in Nat /\ installs' \in Nat /\ missed' \in Nat
    BY InvFacts, SMTT(20) DEF LoseAnswer, AfterFailure
  <2> QED
    BY <2>1, <2>2, <2>3, <2>4, <2>5, Zenon DEF TypeOK, LoseAnswer,
       AfterFailure, CanFail, Spend, NoCall, server, wire, cycle, updates
<1>2. CallInStep'
  BY SMTT(20) DEF CallInStep, CycleInStep, TypeOK, LoseAnswer, AfterFailure,
     CanFail, Spend, NoCall, server, wire, cycle, updates
<1>3. CycleInStep'
  BY SMTT(20) DEF CycleInStep, CallInStep, TypeOK, Silence, One, LoseAnswer,
     AfterFailure, CanFail, Spend, NoCall, server, wire, cycle, updates
<1>4. UpdatesAccounted'
  <2>1. row' = row /\ call'.answer.update = FALSE /\ heard' = heard
    <3>1. call' = NoCall /\ row' = row /\ heard' = heard
      BY Zenon DEF LoseAnswer, AfterFailure, server
    <3> QED BY <3>1, NothingYet, Zenon
  <2>2. One(row'.update) = One(row.update)
        /\ One(call'.answer.update) = 0
        /\ One(heard'.answer.update) = One(heard.answer.update)
    BY <2>1, OneFalse, OneTrue, Zenon
  <2>3. pushes' = pushes /\ installs' = installs
        /\ missed' = missed + One(call.answer.update)
    BY Zenon DEF LoseAnswer, AfterFailure, CanFail, Spend, NoCall, server,
       wire, cycle, updates
  <2> QED
    BY <2>2, <2>3, InvFacts, SMTT(20) DEF UpdatesAccounted
<1>5. OwedIsPlanned'
  BY SMTT(20) DEF OwedIsPlanned, TypeOK, CycleInStep, Silence, Answers,
     LoseAnswer, AfterFailure, CanFail, Spend, NoCall, server, wire, cycle,
     updates
<1> QED BY <1>1, <1>2, <1>3, <1>4, <1>5

(* A restart of the sidecar plans a full collection.                      *)
LEMMA RestartSidecarInv ==
  ASSUME HeartbeatInv, RestartSidecar
  PROVE  HeartbeatInv'
<1> USE DEF HeartbeatInv
<1>1. TypeOK'
  <2>1. call' \in [at: {"none", "sent", "answered"}, answer: Answers]
    BY SilenceType, SMTT(20) DEF TypeOK, RestartSidecar, CanFail, Spend,
       NoCall, NothingHeard, server, wire, cycle, updates
  <2>2. heard' \in [some: BOOLEAN, answer: Answers]
    BY SilenceType, SMTT(20) DEF TypeOK, RestartSidecar, CanFail, Spend,
       NoCall, NothingHeard, server, wire, cycle, updates
  <2>3. budget' \in [orders: Nat, faults: Nat]
    BY SMTT(20) DEF TypeOK, RestartSidecar, CanFail, Spend, NoCall,
       NothingHeard, server, wire, cycle, updates
  <2>4. toFlush' \in Nat /\ toPush' \in 0..MaxBatches
    BY HeartbeatAssumption, SMTT(20) DEF TypeOK, RestartSidecar, CanFail,
       Spend, NoCall, NothingHeard, server, wire, cycle, updates, CallInStep
  <2>5. attempts' \in 1..MaxAttempts
    BY HeartbeatAssumption, SMTT(20) DEF TypeOK, RestartSidecar, CanFail,
       Spend, NoCall, NothingHeard, server, wire, cycle, updates
  <2>6. queue' \in 0..QueueLimit /\ late' \in Nat
    BY HeartbeatAssumption, SMTT(20) DEF TypeOK, RestartSidecar, CanFail,
       Spend, NoCall, NothingHeard, server, wire, cycle, updates, One
  <2>7. applied' \in Settings
    BY SilenceType, SMTT(20) DEF TypeOK, RestartSidecar, CanFail, Spend,
       NoCall, NothingHeard, server, wire, cycle, updates, Answers
  <2>8. due' \subseteq Providers /\ plan' \subseteq Providers
        /\ collecting' \subseteq Providers /\ owed' \subseteq Providers
    BY SMTT(20) DEF TypeOK, RestartSidecar, CanFail, Spend, NoCall,
       NothingHeard, server, wire, cycle, updates, Answers, Silence
  <2>9. trigger' \in BOOLEAN /\ failed' \in BOOLEAN
    BY Zenon DEF TypeOK, RestartSidecar, server
  <2>10. pushes' \in Nat /\ installs' \in Nat /\ missed' \in Nat
    BY InvFacts, SMTT(20) DEF TypeOK, RestartSidecar, CanFail, Spend,
       NoCall, NothingHeard, server, wire, cycle, updates, One, Answers
  <2> QED
    BY <2>1, <2>2, <2>3, <2>4, <2>5, <2>6, <2>7, <2>8, <2>9, <2>10, SMTT(20)
       DEF TypeOK, RestartSidecar, CanFail, Spend, NoCall, NothingHeard,
       server, wire, cycle, updates
<1>2. CallInStep'
  BY SMTT(20) DEF CallInStep, CycleInStep, TypeOK, RestartSidecar, CanFail,
     Spend, NoCall, NothingHeard, server, wire, cycle, updates
<1>3. CycleInStep'
  BY SMTT(20) DEF CycleInStep, CallInStep, TypeOK, Silence, One,
     RestartSidecar, CanFail, Spend, NoCall, NothingHeard, server, wire,
     cycle, updates
<1>4. UpdatesAccounted'
  <2>1. row' = row /\ call'.answer.update = FALSE /\ heard'.answer.update = FALSE
    <3>1. call' = NoCall /\ row' = row /\ heard' = NothingHeard
      BY Zenon DEF RestartSidecar, server
    <3> QED BY <3>1, NothingYet, Zenon
  <2>2. One(row'.update) = One(row.update)
        /\ One(call'.answer.update) = 0 /\ One(heard'.answer.update) = 0
    BY <2>1, OneFalse, OneTrue, Zenon
  <2>3. pushes' = pushes /\ installs' = installs
        /\ missed' = missed + One(heard.answer.update) + One(call.answer.update)
    BY Zenon DEF RestartSidecar, CanFail, Spend, NoCall, NothingHeard,
       server, wire, cycle, updates
  <2> QED
    BY <2>2, <2>3, InvFacts, SMTT(20) DEF UpdatesAccounted
<1>5. OwedIsPlanned'
  BY SMTT(20) DEF OwedIsPlanned, TypeOK, CycleInStep, Silence, Answers,
     RestartSidecar, CanFail, Spend, NoCall, NothingHeard, server, wire,
     cycle, updates
<1> QED BY <1>1, <1>2, <1>3, <1>4, <1>5

(* The end of a cycle.                                                    *)
LEMMA FinishCycleInv ==
  ASSUME HeartbeatInv, NEW queued \in BOOLEAN, NEW installed \in BOOLEAN,
         FinishCycle(queued, installed)
  PROVE  HeartbeatInv'
<1> USE DEF HeartbeatInv
<1>1. TypeOK'
  <2>1. heard' \in [some: BOOLEAN, answer: Answers]
    BY SilenceType, SMTT(20) DEF TypeOK, FinishCycle, Followed,
       NothingHeard, NoCall, server, wire, cycle, updates
  <2>2. queue' \in 0..QueueLimit /\ late' \in Nat
    BY HeartbeatAssumption, SMTT(20) DEF TypeOK, FinishCycle, Followed,
       NothingHeard, NoCall, server, wire, cycle, updates, One
  <2>3. applied' \in Settings
    BY SilenceType, SMTT(20) DEF TypeOK, FinishCycle, Followed,
       NothingHeard, NoCall, server, wire, cycle, updates, Answers
  <2>4. due' \subseteq Providers /\ plan' \subseteq Providers
        /\ collecting' \subseteq Providers /\ owed' \subseteq Providers
    BY SMTT(20) DEF TypeOK, FinishCycle, Followed, NothingHeard, NoCall,
       server, wire, cycle, updates, Answers, Silence
  <2>5. trigger' \in BOOLEAN /\ failed' \in BOOLEAN
    BY Zenon DEF TypeOK, FinishCycle, server
  <2>6. pushes' \in Nat /\ installs' \in Nat /\ missed' \in Nat
    BY InvFacts, SMTT(20) DEF TypeOK, FinishCycle, Followed, NothingHeard,
       NoCall, server, wire, cycle, updates, One, Answers
  <2> QED
    BY <2>1, <2>2, <2>3, <2>4, <2>5, <2>6, SMTT(20) DEF TypeOK, FinishCycle,
       Followed, NothingHeard, NoCall, server, wire, cycle, updates
<1>2. CallInStep'
  BY SMTT(20) DEF CallInStep, CycleInStep, TypeOK, FinishCycle, Followed,
     NothingHeard, NoCall, server, wire, cycle, updates
<1>3. CycleInStep'
  BY SMTT(20) DEF CycleInStep, CallInStep, TypeOK, Silence, One,
     FinishCycle, Followed, NothingHeard, NoCall, server, wire, cycle,
     updates
<1>4. UpdatesAccounted'
  <2>1. row' = row /\ call' = call /\ heard'.answer.update = FALSE
    <3>1. call' = call /\ row' = row /\ heard' = NothingHeard
      BY Zenon DEF FinishCycle, server, wire
    <3> QED BY <3>1, NothingYet, Zenon
  <2>2. One(row'.update) = One(row.update)
        /\ One(call'.answer.update) = One(call.answer.update)
        /\ One(heard'.answer.update) = 0
    BY <2>1, OneFalse, OneTrue, Zenon
  <2>3. pushes' = pushes
        /\ installs' = installs + One(heard.answer.update)
        /\ missed' = missed
    BY Zenon DEF FinishCycle, Followed, NothingHeard, NoCall, server, wire,
       cycle, updates
  <2> QED
    BY <2>2, <2>3, InvFacts, SMTT(20) DEF UpdatesAccounted
<1>5. OwedIsPlanned'
  BY SMTT(20) DEF OwedIsPlanned, TypeOK, CycleInStep, Silence, Answers,
     FinishCycle, Followed, NothingHeard, NoCall, server, wire, cycle,
     updates
<1> QED BY <1>1, <1>2, <1>3, <1>4, <1>5

-----------------------------------------------------------------------------
(* Every step preserves the invariant.                                    *)
LEMMA StepInv == HeartbeatInv /\ [Next]_vars => HeartbeatInv'
<1> SUFFICES ASSUME HeartbeatInv, [Next]_vars PROVE HeartbeatInv'
  OBVIOUS
<1>1. CASE Operate
  BY <1>1, ForceCollectInv, PushUpdateInv, SetEnabledInv, DeleteSidecarInv,
     ChangeSettingsInv DEF Operate
<1>2. CASE Fail
  BY <1>2, LoseRequestInv, TimeOutInv, LoseAnswerInv, ReceiveFlushedInv,
     RestartSidecarInv, RestartServerInv DEF Fail
<1>3. CASE \E p \in Providers : BecomeDue(p)
  BY <1>3, BecomeDueInv
<1>4. CASE Handle \/ HandleLate
  BY <1>4, HandleInv, HandleLateInv
<1>5. CASE StartCycle \/ Post \/ ReceiveFlushed(TRUE) \/ ReceivePushed
  BY <1>5, StartCycleInv, PostInv, ReceiveFlushedInv, ReceivePushedInv
<1>6. CASE Finish
  BY <1>6, FinishCycleInv DEF Finish
<1>7. CASE UNCHANGED vars
  BY <1>7 DEF vars, server, wire, cycle, updates, HeartbeatInv, TypeOK, CallInStep,
     CycleInStep, UpdatesAccounted, OwedIsPlanned
<1> QED BY <1>1, <1>2, <1>3, <1>4, <1>5, <1>6, <1>7 DEF Next

(* The invariant that the types, the account of pushes and the plan rest   *)
(* on: what has been heard is known only within a cycle, and what has been *)
(* answered only while the cycle waits for it.                             *)
THEOREM HeartbeatInvariant == Spec => []HeartbeatInv
BY InitInv, StepInv, PTL DEF Spec

(* The registry, the wire and the daemon hold only values of their types.  *)
THEOREM HeartbeatTypes == Spec => []TypeOK
<1>1. HeartbeatInv => TypeOK
  BY DEF HeartbeatInv
<1> QED BY <1>1, HeartbeatInvariant, PTL

(* Every pushed update is in one place or was counted as installed or      *)
(* missed, whatever was lost, repeated or restarted.                       *)
THEOREM EveryPushAccounted == Spec => []UpdatesAccounted
<1>1. HeartbeatInv => UpdatesAccounted
  BY DEF HeartbeatInv
<1> QED BY <1>1, HeartbeatInvariant, PTL

(* No failed cycle, restart or later answer takes a provider whose         *)
(* collection is owed off the plan.                                        *)
THEOREM NothingOwedIsDropped == Spec => []OwedIsPlanned
<1>1. HeartbeatInv => OwedIsPlanned
  BY DEF HeartbeatInv
<1> QED BY <1>1, HeartbeatInvariant, PTL

-----------------------------------------------------------------------------
(* Settings.                                                               *)

(* Whatever leaves the settings of the row, what is in force and what the  *)
(* sidecar is told alone, leaves them in force.                            *)
LEMMA ForceKept ==
  ASSUME InForce, row'.settings = row.settings, UNCHANGED <<applied, heard>>,
         call' = call \/ call' = NoCall \/ call' = [NoCall EXCEPT !.at = "sent"]
  PROVE  InForce'
<1>1. NoCall.at = "none" /\ [NoCall EXCEPT !.at = "sent"].at = "sent"
  BY Zenon DEF NoCall
<1>2. call'.at = "answered" => call' = call
  BY <1>1, Zenon
<1> QED BY <1>2, Zenon DEF InForce

(* An answer carries the settings of the row.                              *)
LEMMA AnswerInForce ==
  ASSUME InForce, row'.settings = row.settings, Handle PROVE InForce'
<1>1. call' = [at |-> "answered", answer |-> Answer] /\ UNCHANGED <<applied, heard>>
  BY Zenon DEF Handle, cycle
<1>2. Answer.settings = row.settings
  BY Zenon DEF Answer
<1>3. call'.answer.settings = row.settings
  BY <1>1, <1>2, Zenon
<1> QED BY <1>1, <1>3, Zenon DEF InForce

(* Of two answers of one cycle the later one tells the settings.           *)
LEMMA HeardInForce ==
  ASSUME InForce, row'.settings = row.settings, ReceivePushed PROVE InForce'
<1>1. /\ call.at = "answered" /\ call' = NoCall /\ applied' = applied
      /\ heard' = [some |-> TRUE, answer |-> Merged(heard.answer, call.answer)]
  BY Zenon DEF ReceivePushed
<1>2. Merged(heard.answer, call.answer).settings = call.answer.settings
  BY Zenon DEF Merged
<1>3. heard'.answer.settings = row.settings
  BY <1>1, <1>2, Zenon DEF InForce
<1>4. NoCall.at = "none"
  BY Zenon DEF NoCall
<1> QED BY <1>1, <1>3, <1>4, Zenon DEF InForce

(* The end of a cycle applies what was heard, and nothing otherwise.       *)
LEMMA FinishInForce ==
  ASSUME InForce, row'.settings = row.settings, NEW queued \in BOOLEAN, FinishCycle(queued, FALSE)
  PROVE  InForce'
<1>1. /\ call' = call /\ heard' = NothingHeard
      /\ applied' = IF heard.some THEN heard.answer.settings ELSE applied
  BY Zenon DEF FinishCycle, Followed, wire
<1>2. NothingHeard.some = FALSE
  BY Zenon DEF NothingHeard
<1>3. applied' = row.settings
  BY <1>1, Zenon DEF InForce
<1> QED BY <1>1, <1>2, <1>3, Zenon DEF InForce

LEMMA InForceStep ==
  ASSUME InForce, row'.settings = row.settings, [Next]_vars, ~RestartSidecar,
         ~\E queued \in BOOLEAN : FinishCycle(queued, TRUE)
  PROVE  InForce'
<1>1. CASE Operate
  <2>1. UNCHANGED <<applied, heard, call>>
    BY <1>1, Zenon DEF Operate, ForceCollect, PushUpdate, SetEnabled, ChangeSettings,
       DeleteSidecar, KeepSidecar, wire, cycle
  <2> QED BY <2>1, ForceKept
<1>2. CASE Fail
  <2>1. UNCHANGED <<applied, heard>> /\ (call' = call \/ call' = NoCall)
    BY <1>2, Zenon DEF Fail, LoseRequest, TimeOut, LoseAnswer, AfterFailure, ReceiveFlushed,
       RestartServer, wire, cycle
  <2> QED BY <2>1, ForceKept
<1>3. CASE (\E p \in Providers : BecomeDue(p)) \/ HandleLate \/ StartCycle \/ Post
           \/ ReceiveFlushed(TRUE) \/ UNCHANGED vars
  <2>1. /\ UNCHANGED <<applied, heard>>
        /\ call' = call \/ call' = NoCall \/ call' = [NoCall EXCEPT !.at = "sent"]
    BY <1>3, Zenon DEF BecomeDue, HandleLate, StartCycle, Post, ReceiveFlushed, vars, wire, cycle
  <2> QED BY <2>1, ForceKept
<1>4. CASE Finish
  BY <1>4, FinishInForce DEF Finish
<1> QED BY <1>1, <1>2, <1>3, <1>4, AnswerInForce, HeardInForce DEF Next

(* The settings that an operator chose and the sidecar took up stay in     *)
(* force: the answers to late, repeated and queued posts and the order in  *)
(* which a cycle hears of them bring no older ones back.                   *)
THEOREM SettingsStay == Spec => SettingsStayInForce
<1>1. [Next]_vars =>
        [InForce /\ row'.settings = row.settings =>
           \/ InForce'
           \/ RestartSidecar \/ \E queued \in BOOLEAN : FinishCycle(queued, TRUE)]_vars
  BY InForceStep
<1> QED BY <1>1, PTL DEF Spec, SettingsStayInForce
=============================================================================
