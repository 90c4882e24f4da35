------------------------- MODULE LoginRenewalProofs -------------------------
(***************************************************************************)
(* Proofs about LoginRenewal for every set of logins and every number of   *)
(* tokens and faults.                                                      *)
(***************************************************************************)
EXTENDS LoginRenewal, TLAPS

Spent(l, t) == successor[l][t] # None
Pending(t) == [phase |-> "pending", token |-> t]
Intent(t) == [phase |-> "intent", token |-> t]
Working(l) == task # NoTask /\ task.login = l
In(steps) == task # NoTask /\ task.step \in steps

BeforeAnswer == {"recheck", "ask", "refused"}
AfterAnswer == {"write", "replace", "journal", "compare", "update", "verify", "clear"}

(* What the endpoints issued: a token has one successor, a later one, and  *)
(* every token in use was issued.                                          *)
Issue ==
    /\ \A l \in Logins : store[l] <= issued /\ \A t \in used[l] : t <= issued
    /\ \A l \in Logins, t \in Tokens :
          Spent(l, t) => t < successor[l][t] /\ successor[l][t] <= issued
    /\ \A l \in Logins, t, u \in Tokens :
          Spent(l, t) /\ successor[l][t] = successor[l][u] => t = u
    /\ task # NoTask => task.token <= issued

(* Only spent tokens have answers to be saved.                             *)
HoldersSpent ==
    /\ \A l \in Logins : tool[l] # None => Spent(l, tool[l])
    /\ \A l \in Logins : memory[l] # None => Spent(l, memory[l])
    /\ \A l \in Logins : journal[l].phase = "pending" => Spent(l, journal[l].token)
    /\ In(AfterAnswer) => Spent(task.login, task.token)

(* The tool and the renewer never hold the answer to the same token.       *)
Apart ==
    \A l \in Logins : tool[l] # None =>
        /\ memory[l] # tool[l]
        /\ journal[l] # Pending(tool[l])
        /\ Working(l) /\ In(AfterAnswer) => task.token # tool[l]

(* What the memory and the recovery record say at each step of a renewal.  *)
Steps ==
    /\ In({"write", "replace"}) => task.login \in Files
    /\ In(KeychainSteps \ {"ask"}) => task.login \in Keychains
    /\ In(BeforeAnswer) => memory[task.login] = None
    /\ In(AfterAnswer) => memory[task.login] \in {None, task.token}

Records ==
    /\ \A l \in Files : journal[l] = NoRecord
    /\ In(BeforeAnswer) /\ task.login \in Keychains => journal[task.login] = Intent(task.token)
    /\ In({"compare", "update", "verify", "clear"}) => journal[task.login] = Pending(task.token)
    /\ \A l \in Keychains : memory[l] # None =>
          journal[l] \in {NoRecord, Intent(memory[l]), Pending(memory[l])}
    /\ In({"journal"}) =>
          /\ journal[task.login] \in {NoRecord, Intent(task.token), Pending(task.token)}
          /\ Current /\ journal[task.login] # Pending(task.token) => memory[task.login] = task.token

(* The successor of a token that is still in the store is at the end of    *)
(* the chain, and nobody has sent it or is about to.                       *)
Edge ==
    \A l \in Logins : Spent(l, store[l]) =>
        /\ ~Spent(l, successor[l][store[l]])
        /\ successor[l][store[l]] \notin used[l]
        /\ Working(l) => task.token # successor[l][store[l]]

(* So is the one that is about to be written.                              *)
Ready ==
    In({"replace", "update"}) =>
        LET new == successor[task.login][task.token]
        IN  ~Spent(task.login, new) /\ new # store[task.login] /\ new \notin used[task.login]

(* A renewal that is done has left its token behind.                       *)
Done == In({"verify", "clear"}) => store[task.login] # task.token

(* A race with another writer is noticed.                                  *)
RacesNoted ==
    In({"replace", "update"}) /\ store[task.login] # task.token => raced = "raced"

(* What keeps a token that was sent from being sent again.                 *)
Barred ==
    /\ \A l \in Keychains : store[l] \in used[l] => journal[l].token = store[l]
    /\ \A l \in Files : store[l] \in used[l] =>
          \/ rejected[l] = store[l]
          \/ memory[l] = store[l]
          \/ Working(l) /\ In({"write", "replace"}) /\ Current /\ task.token = store[l]
    /\ In({"recheck", "ask"}) => task.token \notin used[task.login]

RenewalInv ==
    /\ TypeOK /\ Issue /\ HoldersSpent /\ Apart /\ Steps /\ Records
    /\ Edge /\ Ready /\ Done /\ RacesNoted /\ Barred /\ LoginsAreCarried

core == <<store, issued, successor, tool, rejected, memory, journal, task, raced, lost, used>>

-----------------------------------------------------------------------------
(* Types.                                                                  *)

LEMMA Bounds ==
  /\ MaxTokens \in Nat /\ MaxFaults \in Nat
  /\ \A t \in Tokens : t \in Nat /\ t > 0 /\ t # None
BY RenewalAssumption DEF Tokens, None

LEMMA TaskFacts ==
  ASSUME TypeOK, task # NoTask
  PROVE  /\ task \in Task /\ task.login \in Logins /\ task.token \in Tokens
         /\ task.step \in FileSteps \cup KeychainSteps /\ task.owner \in {"this", "old"}
BY DEF TypeOK, Task

LEMMA GoToFacts ==
  ASSUME TypeOK, task # NoTask, NEW s \in FileSteps \cup KeychainSteps, GoTo(s)
  PROVE  /\ task' \in Task /\ task' # NoTask
         /\ task'.login = task.login /\ task'.token = task.token /\ task'.step = s
         /\ Current' = Current
<1>1. task \in Task
  BY TaskFacts
<1>2. task' = [task EXCEPT !.step = s]
  BY DEF GoTo
<1>3. task' \in Task
  BY <1>1, <1>2 DEF Task
<1>4. /\ task'.login = task.login /\ task'.token = task.token /\ task'.step = s
      /\ task'.owner = task.owner
  BY <1>1, <1>2 DEF Task
<1> QED BY <1>3, <1>4, NoTaskAssumption DEF Current

LEMMA BeginFacts ==
  ASSUME NEW l \in Logins, NEW t \in Tokens, NEW s \in FileSteps \cup KeychainSteps,
         Begin(l, s, t)
  PROVE  /\ task' \in Task /\ task' # NoTask
         /\ task'.login = l /\ task'.token = t /\ task'.step = s /\ Current'
<1>1. task' = [login |-> l, step |-> s, token |-> t, owner |-> "this"]
  BY DEF Begin
<1>2. task' \in Task
  BY <1>1 DEF Task
<1> QED BY <1>1, <1>2, NoTaskAssumption DEF Current

LEMMA InitInv == Init => RenewalInv
<1> SUFFICES ASSUME Init PROVE RenewalInv
  OBVIOUS
<1>1. TypeOK
  BY RenewalAssumption DEF Init, TypeOK, Record, NoRecord, NoNotes, Tokens, None
<1>2. Issue /\ HoldersSpent /\ Apart
  BY <1>1 DEF Init, Issue, HoldersSpent, Apart, Spent, NoNotes, NoRecord, In, Working, None
<1>3. Steps /\ Records /\ Edge /\ Ready /\ Done /\ RacesNoted
  BY RenewalAssumption DEF Init, Steps, Records, Edge, Ready, Done, RacesNoted, Spent,
     NoNotes, In, Logins, None, Tokens
<1>4. Barred /\ LoginsAreCarried
  BY RenewalAssumption DEF Init, Barred, LoginsAreCarried, In, Logins, None, Tokens
<1> QED BY <1>1, <1>2, <1>3, <1>4 DEF RenewalInv

(* What is of no account to the invariant.                                 *)
LEMMA CoreKept ==
  ASSUME RenewalInv, UNCHANGED core, TypeOK' PROVE RenewalInv'
<1>1. Issue' /\ HoldersSpent' /\ Apart' /\ Steps'
  BY DEF RenewalInv, core, Issue, HoldersSpent, Apart, Steps, Spent, In, Working
<1>2. Records' /\ Edge' /\ Ready' /\ Done' /\ RacesNoted'
  BY DEF RenewalInv, core, Records, Edge, Ready, Done, RacesNoted, Spent, In, Working,
     Current
<1>3. Barred' /\ LoginsAreCarried'
  BY DEF RenewalInv, core, Barred, LoginsAreCarried, Carried, InHand, Spent, In,
     Working, Current
<1> QED BY <1>1, <1>2, <1>3 DEF RenewalInv

-----------------------------------------------------------------------------
(* The provider, the tools and the user.                                   *)

LEMMA PassingInv ==
  ASSUME RenewalInv, NEW l \in Logins, Revoke(l) \/ Lapse(l) \/ Age(l)
  PROVE  RenewalInv'
<1>1. TypeOK
  BY DEF RenewalInv
<1>2. CASE Revoke(l)
  <2>1. TypeOK'
    BY <1>1, <1>2, Bounds DEF Revoke, TypeOK, disk, renewer, Fault
  <2> QED BY <1>2, <2>1, CoreKept DEF Revoke, disk, renewer, core
<1>3. CASE Lapse(l)
  <2>1. TypeOK'
    BY <1>1, <1>3 DEF Lapse, TypeOK, endpoint, renewer
  <2> QED BY <1>3, <2>1, CoreKept DEF Lapse, endpoint, renewer, core
<1>4. CASE Age(l)
  <2>1. TypeOK'
    BY <1>1, <1>4 DEF Age, TypeOK, endpoint, renewer
  <2> QED BY <1>4, <2>1, CoreKept DEF Age, endpoint, renewer, core
<1> QED BY <1>2, <1>3, <1>4

(* A token that was not issued yet is new to everybody.                    *)
LEMMA NextToken ==
  ASSUME RenewalInv, CanIssue, NEW l \in Logins
  PROVE  /\ issued + 1 \in Tokens /\ ~Spent(l, issued + 1) /\ issued + 1 \notin used[l]
         /\ store[l] < issued + 1
<1>1. issued \in Tokens /\ MaxTokens \in Nat /\ store[l] \in Tokens /\ used[l] \subseteq Tokens
  BY Bounds DEF RenewalInv, TypeOK
<1>2. issued + 1 \in Tokens
  BY <1>1 DEF CanIssue, Tokens
<1>3. store[l] <= issued /\ \A t \in used[l] : t <= issued
  BY DEF RenewalInv, Issue
<1>4. ~Spent(l, issued + 1)
  <2>1. successor[l][issued + 1] \in Tokens \cup {None}
    BY <1>2 DEF RenewalInv, TypeOK
  <2>2. Spent(l, issued + 1) =>
          issued + 1 < successor[l][issued + 1] /\ successor[l][issued + 1] <= issued
    BY <1>2 DEF RenewalInv, Issue
  <2> QED BY <1>1, <2>1, <2>2 DEF Tokens, Spent
<1> QED BY <1>1, <1>2, <1>3, <1>4 DEF Tokens

(* A store that moves to the end of the chain, by the hand of another.     *)
LEMMA MovedInv ==
  ASSUME RenewalInv, NEW l \in Logins, NEW v \in Tokens,
         Saved(l, v), Overtakes(l), issued' \in Tokens, issued <= issued', v <= issued',
         ~Spent(l, v), v \notin used[l],
         Ready => Ready',
         tool' \in [Logins -> Tokens \cup {None}],
         \A m \in Logins : tool'[m] = tool[m] \/ (m = l /\ tool'[m] = None),
         UNCHANGED <<successor, revoked, rejected, memory, journal, access, task, lost, used, faults>>
  PROVE  RenewalInv'
<1>1. TypeOK
  BY DEF RenewalInv
<1>2. /\ store' = [store EXCEPT ![l] = v] /\ store' \in [Logins -> Tokens]
      /\ store'[l] = v /\ \A m \in Logins \ {l} : store'[m] = store[m]
  BY <1>1 DEF TypeOK, Saved
<1>3. raced' \in {"clear", "raced"}
  BY <1>1 DEF TypeOK, Overtakes
<1>4. TypeOK'
  BY <1>1, <1>2, <1>3 DEF TypeOK, Saved
<1>5. Issue'
  <2>1. \A m \in Logins : store[m] \in Tokens /\ used[m] \subseteq Tokens /\ issued \in Tokens
    BY <1>1 DEF TypeOK
  <2>2. \A m \in Logins, t \in Tokens : successor[m][t] \in Tokens \cup {None}
    BY <1>1 DEF TypeOK
  <2>3. task # NoTask => task.token \in Tokens
    BY <1>1, TaskFacts
  <2>4. (\A m \in Logins : store[m] <= issued /\ \A t \in used[m] : t <= issued)'
    BY <1>2, <2>1, Bounds DEF RenewalInv, Issue, Tokens
  <2>5. (\A m \in Logins, t \in Tokens :
           Spent(m, t) => t < successor[m][t] /\ successor[m][t] <= issued)'
    BY <2>1, <2>2, Bounds DEF RenewalInv, Issue, Spent, Tokens, None
  <2>6. (task # NoTask => task.token <= issued)'
    BY <2>1, <2>3 DEF RenewalInv, Issue, Tokens
  <2> QED BY <2>4, <2>5, <2>6 DEF RenewalInv, Issue, Spent
<1>6. HoldersSpent' /\ Apart'
  BY DEF RenewalInv, HoldersSpent, Apart, Spent, In, Working
<1>7. Steps' /\ Records'
  BY DEF RenewalInv, Steps, Records, In, Current
<1>8. Edge'
  BY <1>2 DEF RenewalInv, Edge, Spent, Working
<1>9. Ready'
  BY DEF RenewalInv
<1>10. In(AfterAnswer) => Spent(task.login, task.token)
  BY DEF RenewalInv, HoldersSpent
<1>11. Done'
  <2>1. In({"verify", "clear"}) => In(AfterAnswer)
    BY DEF In, AfterAnswer
  <2> QED BY <1>1, <1>2, <1>10, <2>1, TaskFacts DEF RenewalInv, Done, In
<1>12. RacesNoted'
  BY <1>1, <1>2, TaskFacts DEF RenewalInv, RacesNoted, In, Overtakes
<1>13. Barred'
  BY <1>2, RenewalAssumption DEF RenewalInv, Barred, In, Working, Current, Logins
<1>14. LoginsAreCarried'
  BY <1>2 DEF RenewalInv, LoginsAreCarried, Carried, InHand, Spent
<1> QED BY <1>4, <1>5, <1>6, <1>7, <1>8, <1>9, <1>11, <1>12, <1>13, <1>14 DEF RenewalInv

LEMMA LogInInv ==
  ASSUME RenewalInv, NEW l \in Logins, LogIn(l) PROVE RenewalInv'
<1>1. TypeOK /\ CanIssue /\ issued' = issued + 1 /\ Saved(l, issued + 1) /\ Overtakes(l)
  BY DEF RenewalInv, LogIn
<1>2. issued + 1 \in Tokens /\ ~Spent(l, issued + 1) /\ issued + 1 \notin used[l]
  BY <1>1, NextToken
<1>3. issued \in Nat /\ store \in [Logins -> Tokens] /\ tool \in [Logins -> Tokens \cup {None}]
  BY <1>1 DEF TypeOK, Tokens
<1>4. Ready => Ready'
  <2> SUFFICES ASSUME Ready, In({"replace", "update"}) PROVE Ready'
    BY DEF LogIn, Ready, In
  <2> DEFINE t == task.token
             new == successor[task.login][t]
  <2>1. task.login \in Logins /\ t \in Tokens
    BY <1>1, TaskFacts DEF In
  <2>2. Spent(task.login, t)
    BY DEF RenewalInv, HoldersSpent, In, AfterAnswer
  <2>3. new <= issued
    BY <2>1, <2>2 DEF RenewalInv, Issue
  <2>4. new \in Nat
    <3>1. new \in Tokens \cup {None}
      BY <1>1, <2>1 DEF TypeOK
    <3> QED BY <3>1, Bounds DEF None
  <2>5. store'[task.login] \in {store[task.login], issued + 1}
    BY <1>1, <1>3, <2>1 DEF Saved
  <2>6. new # store'[task.login]
    BY <1>3, <2>3, <2>4, <2>5 DEF Ready
  <2> QED BY <2>6 DEF LogIn, Ready, In, Spent
<1> QED BY <1>1, <1>2, <1>3, <1>4, MovedInv DEF LogIn

(* An exchange adds the next token to a chain.                             *)
LEMMA ExchangedFacts ==
  ASSUME RenewalInv, CanIssue, NEW l \in Logins, NEW t \in Tokens, Usable(l, t), t <= issued,
         successor' = Exchanged(l, t), issued' = issued + 1
  PROVE  /\ ~Spent(l, t) /\ successor'[l][t] = issued + 1
         /\ issued + 1 \in Tokens /\ issued + 1 # None
         /\ successor' \in [Logins -> [Tokens -> Tokens \cup {None}]]
         /\ \A m \in Logins, u \in Tokens :
               successor'[m][u] = successor[m][u] \/ (m = l /\ u = t)
         /\ \A m \in Logins, u \in Tokens : successor'[m][u] # None =>
               u < successor'[m][u] /\ successor'[m][u] <= issued + 1
         /\ \A m \in Logins, u, w \in Tokens :
               successor'[m][u] # None /\ successor'[m][u] = successor'[m][w] => u = w
<1>1. TypeOK /\ issued \in Nat /\ issued + 1 \in Tokens /\ t \in Nat
  BY NextToken, Bounds DEF RenewalInv, TypeOK
<1>2. ~Spent(l, t)
  BY DEF Usable, Spent
<1>3. successor \in [Logins -> [Tokens -> Tokens \cup {None}]]
  BY <1>1 DEF TypeOK
<1>4. successor'[l][t] = issued + 1 /\ successor' \in [Logins -> [Tokens -> Tokens \cup {None}]]
  BY <1>1, <1>3 DEF Exchanged
<1>5. \A m \in Logins, u \in Tokens :
        successor'[m][u] = successor[m][u] \/ (m = l /\ u = t)
  BY <1>3 DEF Exchanged
<1>6. \A m \in Logins, u \in Tokens :
        /\ successor[m][u] \in Nat
        /\ successor[m][u] # None => u < successor[m][u] /\ successor[m][u] <= issued
  <2>1. \A m \in Logins, u \in Tokens : successor[m][u] \in Tokens \cup {None}
    BY <1>3
  <2> QED BY <2>1, Bounds DEF RenewalInv, Issue, Spent, None
<1>7. \A m \in Logins, u \in Tokens : successor'[m][u] # None =>
        u < successor'[m][u] /\ successor'[m][u] <= issued + 1
  BY <1>1, <1>4, <1>5, <1>6
<1>8. \A m \in Logins, u, w \in Tokens :
        successor[m][u] # None /\ successor[m][u] = successor[m][w] => u = w
  BY DEF RenewalInv, Issue, Spent
<1>9. \A m \in Logins, u, w \in Tokens :
        successor'[m][u] # None /\ successor'[m][u] = successor'[m][w] => u = w
  <2>1. \A u \in Tokens : u # t => successor'[l][u] # issued + 1
    <3> SUFFICES ASSUME NEW u \in Tokens, u # t PROVE successor'[l][u] # issued + 1
      OBVIOUS
    <3>1. successor'[l][u] = successor[l][u]
      BY <1>5
    <3>2. successor[l][u] = None \/ successor[l][u] <= issued
      BY <1>6
    <3> QED BY <1>1, <1>6, <3>1, <3>2 DEF None
  <2> QED BY <1>4, <1>5, <1>8, <2>1
<1> QED BY <1>1, <1>2, <1>4, <1>5, <1>7, <1>9, Bounds

LEMMA ToolExchangesInv ==
  ASSUME RenewalInv, NEW l \in Logins, ToolExchanges(l) PROVE RenewalInv'
<1> DEFINE old == store[l]
<1>1. /\ TypeOK /\ store \in [Logins -> Tokens] /\ issued \in Nat
      /\ tool \in [Logins -> Tokens \cup {None}]
      /\ \A m \in Logins : used[m] \subseteq Tokens /\ store[m] \in Tokens
  BY Bounds DEF RenewalInv, TypeOK
<1>2. /\ CanIssue /\ Usable(l, old) /\ successor' = Exchanged(l, old) /\ issued' = issued + 1
      /\ tool[l] = None /\ tool' = [tool EXCEPT ![l] = old]
  BY DEF ToolExchanges
<1>3. old \in Tokens /\ old <= issued
  BY <1>1 DEF RenewalInv, Issue
<1>4. /\ ~Spent(l, old) /\ successor'[l][old] = issued + 1
      /\ issued + 1 \in Tokens /\ issued + 1 # None
      /\ successor' \in [Logins -> [Tokens -> Tokens \cup {None}]]
      /\ \A m \in Logins, u \in Tokens :
            successor'[m][u] = successor[m][u] \/ (m = l /\ u = old)
      /\ \A m \in Logins, u \in Tokens : successor'[m][u] # None =>
            u < successor'[m][u] /\ successor'[m][u] <= issued + 1
      /\ \A m \in Logins, u, w \in Tokens :
            successor'[m][u] # None /\ successor'[m][u] = successor'[m][w] => u = w
  BY <1>2, <1>3, ExchangedFacts
<1>5. UNCHANGED <<store, rejected, memory, journal, task, raced, lost, used>>
  BY DEF ToolExchanges, disk, renewer
<1>6. tool' \in [Logins -> Tokens \cup {None}] /\ tool'[l] = old
      /\ \A m \in Logins \ {l} : tool'[m] = tool[m]
  BY <1>1, <1>2, <1>3
<1>7. TypeOK'
  BY <1>1, <1>2, <1>4, <1>6 DEF TypeOK, ToolExchanges, disk, renewer
<1>8. ~Spent(l, issued + 1) /\ \A m \in Logins : issued + 1 \notin used[m]
  BY <1>2, NextToken
<1>9. task # NoTask => task.login \in Logins /\ task.token \in Tokens
  BY <1>1, TaskFacts
<1>10. \A m \in Logins, u \in Tokens : Spent(m, u) => successor'[m][u] # None
  BY <1>4 DEF Spent
<1>11. /\ \A m \in Logins : memory[m] \in Tokens \cup {None}
       /\ \A m \in Logins : journal[m].phase = "pending" => journal[m].token \in Tokens
  BY <1>1 DEF TypeOK, Record, NoRecord
<1>12. Issue'
  BY <1>1, <1>2, <1>4, <1>5, <1>9, Bounds DEF RenewalInv, Issue, Spent
<1>13. HoldersSpent'
  <2>1. \A m \in Logins : tool'[m] # None => successor'[m][tool'[m]] # None
    <3>1. \A m \in Logins \ {l} : tool[m] # None => tool[m] \in Tokens /\ Spent(m, tool[m])
      BY <1>1 DEF RenewalInv, HoldersSpent
    <3> QED BY <1>4, <1>6, <1>10, <3>1
  <2>2. \A m \in Logins : memory[m] # None => successor'[m][memory[m]] # None
    BY <1>10, <1>11 DEF RenewalInv, HoldersSpent
  <2>3. \A m \in Logins : journal[m].phase = "pending" => successor'[m][journal[m].token] # None
    BY <1>10, <1>11 DEF RenewalInv, HoldersSpent
  <2>4. In(AfterAnswer) => successor'[task.login][task.token] # None
    BY <1>9, <1>10 DEF RenewalInv, HoldersSpent, In
  <2> QED BY <1>5, <2>1, <2>2, <2>3, <2>4 DEF HoldersSpent, Spent, In
<1>14. Apart'
  <2>1. memory[l] # old
    BY <1>3, <1>4, Bounds DEF RenewalInv, HoldersSpent
  <2>2. journal[l] # Pending(old)
    BY <1>4 DEF RenewalInv, HoldersSpent, Pending
  <2>3. Working(l) /\ In(AfterAnswer) => task.token # old
    BY <1>4 DEF RenewalInv, HoldersSpent, Working
  <2> QED BY <1>5, <1>6, <2>1, <2>2, <2>3 DEF RenewalInv, Apart, In, Working
<1>15. Steps' /\ Records'
  BY <1>5 DEF RenewalInv, Steps, Records, In, Current
<1>16. Edge'
  <2> SUFFICES ASSUME NEW m \in Logins, successor'[m][store[m]] # None
               PROVE  /\ successor'[m][successor'[m][store[m]]] = None
                      /\ successor'[m][store[m]] \notin used[m]
                      /\ Working(m) => task.token # successor'[m][store[m]]
    BY <1>5 DEF Edge, Spent, Working
  <2>1. CASE m = l
    <3>1. successor'[l][issued + 1] = None
      BY <1>1, <1>3, <1>4, <1>8 DEF Spent
    <3>2. task # NoTask => task.token <= issued
      BY DEF RenewalInv, Issue
    <3> QED BY <1>1, <1>4, <1>8, <1>9, <2>1, <3>1, <3>2, Bounds DEF Working
  <2>2. CASE m # l
    BY <1>1, <1>4, <2>2 DEF RenewalInv, Edge, Spent, Working
  <2> QED BY <2>1, <2>2
<1>17. Ready'
  <2> SUFFICES ASSUME In({"replace", "update"}) PROVE Ready'
    BY <1>5 DEF Ready, In
  <2> DEFINE m == task.login
             new == successor[m][task.token]
  <2>1. m \in Logins /\ task.token \in Tokens /\ Spent(m, task.token)
    BY <1>9 DEF RenewalInv, HoldersSpent, In, AfterAnswer
  <2>2. successor'[m][task.token] = new /\ new \in Tokens
    <3>1. successor \in [Logins -> [Tokens -> Tokens \cup {None}]]
      BY <1>1 DEF TypeOK
    <3>2. new \in Tokens \cup {None}
      BY <2>1, <3>1
    <3> QED BY <1>4, <2>1, <3>2 DEF Spent
  <2>3. ~Spent(m, new) /\ new # store[m] /\ new \notin used[m]
    BY DEF RenewalInv, Ready
  <2>4. successor'[m][new] = None
    BY <1>4, <2>1, <2>2, <2>3 DEF Spent
  <2> QED BY <1>5, <2>2, <2>3, <2>4 DEF Ready, Spent
<1>18. Done' /\ RacesNoted' /\ Barred'
  BY <1>5 DEF RenewalInv, Done, RacesNoted, Barred, In, Working, Current
<1>19. LoginsAreCarried'
  <2> SUFFICES ASSUME NEW m \in Logins, successor'[m][store[m]] # None
               PROVE  Carried(m, store[m])' \/ <<m, store[m]>> \in lost
    BY <1>5 DEF LoginsAreCarried
  <2>1. CASE m = l
    BY <1>5, <1>6, <2>1 DEF Carried
  <2>2. CASE m # l
    <3>1. successor[m][store[m]] # None /\ tool'[m] = tool[m]
      BY <1>1, <1>4, <1>6, <2>2
    <3>2. Carried(m, store[m]) \/ <<m, store[m]>> \in lost
      BY <3>1 DEF RenewalInv, LoginsAreCarried
    <3> QED BY <1>5, <3>1, <3>2 DEF Carried, InHand
  <2> QED BY <2>1, <2>2
<1> QED BY <1>7, <1>12, <1>13, <1>14, <1>15, <1>16, <1>17, <1>18, <1>19 DEF RenewalInv

LEMMA ToolWritesInv ==
  ASSUME RenewalInv, NEW l \in Logins, ToolWrites(l) PROVE RenewalInv'
<1>1. /\ TypeOK /\ issued \in Tokens /\ tool \in [Logins -> Tokens \cup {None}]
      /\ tool[l] # None /\ tool' = [tool EXCEPT ![l] = None]
  BY DEF RenewalInv, TypeOK, ToolWrites
<1>2. tool' \in [Logins -> Tokens \cup {None}]
      /\ tool'[l] = None /\ \A m \in Logins \ {l} : tool'[m] = tool[m]
  BY <1>1
<1>3. CASE store[l] = tool[l]
  <2> DEFINE v == successor[l][tool[l]]
  <2>1. Saved(l, v) /\ Overtakes(l)
    BY <1>3 DEF ToolWrites
  <2>2. Spent(l, tool[l]) /\ tool[l] \in Tokens
    BY <1>1 DEF RenewalInv, HoldersSpent
  <2>3. v \in Tokens /\ v <= issued
    <3>1. v \in Tokens \cup {None}
      BY <1>1, <2>2 DEF TypeOK
    <3> QED BY <2>2, <3>1 DEF RenewalInv, Issue, Spent
  <2>4. ~Spent(l, v) /\ v \notin used[l]
    BY <1>3, <2>2 DEF RenewalInv, Edge
  <2>5. Ready => Ready'
    <3> SUFFICES ASSUME Ready, In({"replace", "update"}) PROVE Ready'
      BY DEF ToolWrites, Ready, In
    <3>1. task.login \in Logins /\ task.token \in Tokens
      BY <1>1, TaskFacts DEF In
    <3>2. Spent(task.login, task.token)
      BY DEF RenewalInv, HoldersSpent, In, AfterAnswer
    <3>3. task.login = l => task.token # tool[l]
      BY <1>1 DEF RenewalInv, Apart, Working, In, AfterAnswer
    <3>4. task.login = l => successor[l][task.token] # v
      BY <2>2, <3>1, <3>2, <3>3 DEF RenewalInv, Issue
    <3>5. store' = [store EXCEPT ![l] = v] /\ store \in [Logins -> Tokens]
      BY <1>1, <2>1 DEF TypeOK, Saved
    <3> QED BY <3>1, <3>4, <3>5 DEF ToolWrites, endpoint, Ready, In, Spent
  <2>6. issued' \in Tokens /\ issued <= issued' /\ v <= issued'
    BY <1>1, <2>3, Bounds DEF ToolWrites, endpoint
  <2> QED BY <1>2, <2>1, <2>3, <2>4, <2>5, <2>6, MovedInv DEF ToolWrites, endpoint
<1>4. CASE store[l] # tool[l]
  <2>1. UNCHANGED <<store, issued, successor, rejected, memory, journal, task, raced, lost, used>>
    BY <1>4 DEF ToolWrites, disk, endpoint
  <2>2. TypeOK'
    BY <1>1, <1>2, <1>4 DEF TypeOK, ToolWrites, disk, endpoint
  <2>3. Issue' /\ HoldersSpent' /\ Apart'
    BY <1>2, <2>1 DEF RenewalInv, Issue, HoldersSpent, Apart, Spent, In, Working
  <2>4. Steps' /\ Records' /\ Edge' /\ Ready' /\ Done' /\ RacesNoted' /\ Barred'
    BY <2>1 DEF RenewalInv, Steps, Records, Edge, Ready, Done, RacesNoted, Barred, Spent, In,
       Working, Current
  <2>5. LoginsAreCarried'
    BY <1>2, <1>4, <2>1 DEF RenewalInv, LoginsAreCarried, Carried, InHand
  <2> QED BY <2>2, <2>3, <2>4, <2>5 DEF RenewalInv
<1> QED BY <1>3, <1>4

LEMMA ToolDiesInv ==
  ASSUME RenewalInv, NEW l \in Logins, ToolDies(l) PROVE RenewalInv'
<1>1. /\ TypeOK /\ tool \in [Logins -> Tokens \cup {None}]
      /\ tool[l] # None /\ tool' = [tool EXCEPT ![l] = None]
  BY DEF RenewalInv, TypeOK, ToolDies
<1>2. tool' \in [Logins -> Tokens \cup {None}]
      /\ tool'[l] = None /\ \A m \in Logins \ {l} : tool'[m] = tool[m]
  BY <1>1
<1>3. UNCHANGED <<store, issued, successor, rejected, memory, journal, task, raced, used>>
  BY DEF ToolDies, disk, endpoint, renewer
<1>4. lost' = lost \cup {<<l, tool[l]>>}
  BY DEF ToolDies
<1>5. TypeOK'
  BY <1>1, <1>2, <1>4, Bounds DEF TypeOK, ToolDies, Fault, disk, endpoint, renewer
<1>6. Issue' /\ HoldersSpent' /\ Apart'
  BY <1>2, <1>3 DEF RenewalInv, Issue, HoldersSpent, Apart, Spent, In, Working
<1>7. Steps' /\ Records' /\ Edge' /\ Ready' /\ Done' /\ RacesNoted' /\ Barred'
  BY <1>3 DEF RenewalInv, Steps, Records, Edge, Ready, Done, RacesNoted, Barred, Spent, In,
     Working, Current
<1>8. LoginsAreCarried'
  BY <1>2, <1>3, <1>4 DEF RenewalInv, LoginsAreCarried, Carried, InHand
<1> QED BY <1>5, <1>6, <1>7, <1>8 DEF RenewalInv

-----------------------------------------------------------------------------
(* The exchange.                                                           *)

LEMMA AskFacts ==
  ASSUME RenewalInv, At("ask")
  PROVE  /\ TypeOK /\ task # NoTask /\ task.login \in Logins /\ task.token \in Tokens
         /\ task.token <= issued /\ issued \in Nat
         /\ memory[task.login] = None
         /\ task.login \in Keychains => journal[task.login] = Intent(task.token)
         /\ task.token \notin used[task.login]
         /\ task.step = "ask"
<1>1. TypeOK /\ task # NoTask /\ task.step = "ask"
  BY DEF RenewalInv, At
<1>2. task.login \in Logins /\ task.token \in Tokens
  BY <1>1, TaskFacts
<1>3. In({"recheck", "ask"}) /\ In(BeforeAnswer)
  BY <1>1 DEF In, BeforeAnswer
<1>4. issued \in Nat
  BY <1>1, Bounds DEF TypeOK
<1> QED BY <1>1, <1>2, <1>3, <1>4 DEF RenewalInv, Issue, Steps, Records, Barred

(* Sent(b): the token of the request is noted as sent if b.                *)
Sent(b) ==
    used' = IF b THEN [used EXCEPT ![task.login] = @ \cup {task.token}] ELSE used

LEMMA SentFacts ==
  ASSUME TypeOK, task # NoTask, NEW b \in BOOLEAN, Sent(b)
  PROVE  /\ used' \in [Logins -> SUBSET Tokens]
         /\ \A m \in Logins : m # task.login => used'[m] = used[m]
         /\ b => used'[task.login] = used[task.login] \cup {task.token}
         /\ ~b => used'[task.login] = used[task.login]
<1>1. used \in [Logins -> SUBSET Tokens] /\ task.login \in Logins /\ task.token \in Tokens
  BY TaskFacts DEF TypeOK
<1> QED BY <1>1 DEF Sent

(* Nothing is added to the chains: what the request leaves as it was, when *)
(* the renewal goes on with the same token or ends.                        *)
LEMMA NotExchangedInv ==
  ASSUME RenewalInv, At("ask"),
         \A m \in Logins : \A u \in used'[m] : u \in used[m] \/ (m = task.login /\ u = task.token),
         task' = NoTask \/ (GoTo("refused") /\ task.login \in Keychains),
         UNCHANGED <<store, issued, successor, tool, memory, journal>>,
         lost \subseteq lost'
  PROVE  /\ Issue' /\ HoldersSpent' /\ Apart' /\ Steps' /\ Records' /\ Edge' /\ Ready'
         /\ Done' /\ RacesNoted' /\ LoginsAreCarried'
<1>1. /\ TypeOK /\ task # NoTask /\ task.login \in Logins /\ task.token \in Tokens
      /\ task.token <= issued /\ issued \in Nat /\ memory[task.login] = None
      /\ task.login \in Keychains => journal[task.login] = Intent(task.token)
      /\ task.step = "ask"
  BY AskFacts
<1>2. task' # NoTask =>
        /\ task'.login = task.login /\ task'.token = task.token /\ task'.step = "refused"
        /\ task.login \in Keychains
  BY <1>1, GoToFacts DEF KeychainSteps
<1>4. Issue'
  BY <1>1, <1>2 DEF RenewalInv, Issue, Spent
<1>5. HoldersSpent' /\ Apart'
  BY <1>2 DEF RenewalInv, HoldersSpent, Apart, Spent, In, Working, AfterAnswer
<1>6. Steps'
  BY <1>1, <1>2 DEF RenewalInv, Steps, In, AfterAnswer, BeforeAnswer
<1>7. Records'
  BY <1>1, <1>2 DEF RenewalInv, Records, In, BeforeAnswer
<1>8. Edge'
  BY <1>1, <1>2 DEF RenewalInv, Edge, Spent, Working
<1>9. Ready' /\ Done' /\ RacesNoted'
  BY <1>2 DEF Ready, Done, RacesNoted, In
<1>10. LoginsAreCarried'
  BY <1>1 DEF RenewalInv, LoginsAreCarried, Carried, InHand
<1> QED BY <1>4, <1>5, <1>6, <1>7, <1>8, <1>9, <1>10

LEMMA UnreachedInv ==
  ASSUME RenewalInv, Unreached PROVE RenewalInv'
<1> DEFINE b == task.login \in Keychains
<1>0. b \in BOOLEAN
  OBVIOUS
<1>1. At("ask") /\ Sent(b) /\ task' = NoTask
  BY DEF Unreached, Sent
<1>2. /\ TypeOK /\ task # NoTask /\ task.login \in Logins
      /\ task.login \in Keychains => journal[task.login] = Intent(task.token)
      /\ task.step = "ask"
  BY <1>1, AskFacts
<1>3. /\ used' \in [Logins -> SUBSET Tokens]
      /\ \A m \in Logins : m # task.login => used'[m] = used[m]
      /\ b => used'[task.login] = used[task.login] \cup {task.token}
      /\ ~b => used'[task.login] = used[task.login]
  <2> HIDE DEF b
  <2> QED BY <1>0, <1>1, <1>2, SentFacts
<1>4. UNCHANGED <<disk, endpoint, tool, rejected, memory, journal, access, raced, lost>>
  BY DEF Unreached
<1>5. faults' \in 0..MaxFaults
  BY <1>2, Bounds DEF Unreached, Fault, TypeOK
<1>6. TypeOK'
  BY <1>1, <1>2, <1>3, <1>4, <1>5 DEF TypeOK, disk, endpoint
<1>7. /\ Issue' /\ HoldersSpent' /\ Apart' /\ Steps' /\ Records' /\ Edge' /\ Ready'
      /\ Done' /\ RacesNoted' /\ LoginsAreCarried'
  <2>1. UNCHANGED <<store, issued, successor, tool, memory, journal>> /\ lost \subseteq lost'
    BY <1>4 DEF disk, endpoint
  <2>2. \A m \in Logins : \A u \in used'[m] : u \in used[m] \/ (m = task.login /\ u = task.token)
    BY <1>3
  <2> QED BY <1>1, <2>1, <2>2, NotExchangedInv
<1>8. Barred'
  <2>1. \A m \in Keychains : store[m] \in used'[m] => journal[m].token = store[m]
    BY <1>2, <1>3 DEF RenewalInv, Barred, Intent, Logins
  <2>2. \A m \in Files : store[m] \in used'[m] => rejected[m] = store[m] \/ memory[m] = store[m]
    BY <1>2, <1>3, RenewalAssumption DEF RenewalInv, Barred, In, Logins
  <2> QED BY <1>1, <1>4, <2>1, <2>2 DEF Barred, In, disk
<1> QED BY <1>6, <1>7, <1>8 DEF RenewalInv

LEMMA RefusedInv ==
  ASSUME RenewalInv, Refused PROVE RenewalInv'
<1> DEFINE l == task.login
           t == task.token
           b == l \in Keychains \/ Current
<1>0. b \in BOOLEAN
  BY Zenon
<1>1. At("ask") /\ Sent(b)
  BY DEF Refused, Sent
<1>2. /\ TypeOK /\ task # NoTask /\ l \in Logins /\ t \in Tokens
      /\ l \in Keychains => journal[l] = Intent(t)
      /\ task.step = "ask"
  BY <1>1, AskFacts
<1>3. /\ used' \in [Logins -> SUBSET Tokens]
      /\ \A m \in Logins : m # l => used'[m] = used[m]
      /\ b => used'[l] = used[l] \cup {t}
      /\ ~b => used'[l] = used[l]
  BY <1>1, <1>2, SentFacts
<1>4. UNCHANGED <<disk, endpoint, tool, memory, journal, access, raced, lost, faults>>
  BY DEF Refused
<1>5. \/ /\ l \in Files /\ task' = NoTask
         /\ rejected' = IF store[l] = t THEN Note(rejected, l, t) ELSE rejected
      \/ l \in Keychains /\ GoTo("refused") /\ UNCHANGED rejected
  BY DEF Refused
<1>6. /\ rejected' \in [Logins -> Tokens \cup {None}]
      /\ \A m \in Logins : rejected'[m] = rejected[m] \/ (m = l /\ rejected'[m] = t)
      /\ l \in Files /\ store[l] = t /\ Current => rejected'[l] = t
  <2>1. rejected \in [Logins -> Tokens \cup {None}]
    BY <1>2 DEF TypeOK
  <2> QED BY <1>2, <1>5, <2>1, RenewalAssumption DEF Note
<1>7. task' # NoTask => task' \in Task /\ task'.step = "refused"
  BY <1>2, <1>5, GoToFacts DEF KeychainSteps
<1>8. TypeOK'
  BY <1>2, <1>3, <1>4, <1>6, <1>7 DEF TypeOK, disk, endpoint
<1>9. /\ Issue' /\ HoldersSpent' /\ Apart' /\ Steps' /\ Records' /\ Edge' /\ Ready'
      /\ Done' /\ RacesNoted' /\ LoginsAreCarried'
  <2>1. UNCHANGED <<store, issued, successor, tool, memory, journal>> /\ lost \subseteq lost'
    BY <1>4 DEF disk, endpoint
  <2>2. \A m \in Logins : \A u \in used'[m] : u \in used[m] \/ (m = task.login /\ u = task.token)
    BY <1>3
  <2>3. task' = NoTask \/ (GoTo("refused") /\ task.login \in Keychains)
    BY <1>5
  <2> QED BY <1>1, <2>1, <2>2, <2>3, NotExchangedInv
<1>10. Barred'
  <2>1. \A m \in Keychains : store[m] \in used'[m] => journal[m].token = store[m]
    BY <1>2, <1>3 DEF RenewalInv, Barred, Intent, Logins
  <2>2. \A m \in Files : store[m] \in used'[m] => rejected'[m] = store[m] \/ memory[m] = store[m]
    <3> SUFFICES ASSUME NEW m \in Files, store[m] \in used'[m]
                 PROVE  rejected'[m] = store[m] \/ memory[m] = store[m]
      OBVIOUS
    <3>1. m \in Logins /\ m \notin Keychains
      BY RenewalAssumption DEF Logins
    <3>2. CASE store[m] \in used[m]
      <4>1. rejected[m] = store[m] \/ memory[m] = store[m]
        BY <1>2, <3>2 DEF RenewalInv, Barred, In
      <4>2. rejected'[m] = rejected[m] \/ (m = l /\ rejected'[m] = t /\ store[l] = t)
        <5>1. rejected \in [Logins -> Tokens \cup {None}]
          BY <1>2 DEF TypeOK
        <5> QED BY <1>2, <1>5, <3>1, <5>1 DEF Note
      <4> QED BY <4>1, <4>2
    <3>3. CASE store[m] \notin used[m]
      BY <1>3, <1>6, <3>1, <3>3
    <3> QED BY <3>2, <3>3
  <2> QED BY <1>4, <1>7, <2>1, <2>2 DEF Barred, In, disk
<1> QED BY <1>8, <1>9, <1>10 DEF RenewalInv

(* What an exchange does to the chains and to those who hold answers.      *)
LEMMA ExchangedInv ==
  ASSUME RenewalInv, At("ask"), Usable(task.login, task.token), CanIssue,
         successor' = Exchanged(task.login, task.token), issued' = issued + 1,
         \A m \in Logins : \A u \in used'[m] : u \in used[m] \/ (m = task.login /\ u = task.token),
         UNCHANGED <<store, tool, journal>>,
         \A m \in Logins : memory'[m] = memory[m] \/ (m = task.login /\ memory'[m] = task.token),
         task' # NoTask => task'.login = task.login /\ task'.token = task.token
  PROVE  /\ successor' \in [Logins -> [Tokens -> Tokens \cup {None}]] /\ issued' \in Tokens
         /\ Issue' /\ HoldersSpent' /\ Apart' /\ Edge'
         /\ \A m \in Logins : successor'[m][store[m]] # None =>
               Spent(m, store[m]) \/ (m = task.login /\ store[m] = task.token)
<1> DEFINE l == task.login
           t == task.token
<1>1. /\ TypeOK /\ task # NoTask /\ l \in Logins /\ t \in Tokens
      /\ t <= issued /\ issued \in Nat /\ task.step = "ask"
  BY AskFacts
<1>2. /\ ~Spent(l, t) /\ successor'[l][t] = issued + 1
      /\ issued + 1 \in Tokens /\ issued + 1 # None
      /\ successor' \in [Logins -> [Tokens -> Tokens \cup {None}]]
      /\ \A m \in Logins, u \in Tokens :
            successor'[m][u] = successor[m][u] \/ (m = l /\ u = t)
      /\ \A m \in Logins, u \in Tokens : successor'[m][u] # None =>
            u < successor'[m][u] /\ successor'[m][u] <= issued + 1
      /\ \A m \in Logins, u, w \in Tokens :
            successor'[m][u] # None /\ successor'[m][u] = successor'[m][w] => u = w
  BY <1>1, ExchangedFacts
<1>3. /\ \A m \in Logins : ~Spent(m, issued + 1) /\ issued + 1 \notin used[m]
      /\ \A m \in Logins : store[m] \in Tokens /\ used[m] \subseteq Tokens
      /\ \A m \in Logins : tool[m] \in Tokens \cup {None} /\ memory[m] \in Tokens \cup {None}
      /\ \A m \in Logins : journal[m].phase = "pending" => journal[m].token \in Tokens
  <2>1. \A m \in Logins : journal[m] \in Record
    BY <1>1 DEF TypeOK
  <2>2. \A m \in Logins : journal[m].phase = "pending" => journal[m].token \in Tokens
    BY <2>1 DEF Record, NoRecord
  <2> QED BY <1>1, <2>2, NextToken DEF TypeOK
<1>4. \A m \in Logins, u \in Tokens : Spent(m, u) => successor'[m][u] # None
  BY <1>2 DEF Spent
<1>5. Issue'
  BY <1>1, <1>2, <1>3, Bounds DEF RenewalInv, Issue, Spent
<1>6. HoldersSpent'
  <2>1. \A m \in Logins : tool[m] # None => successor'[m][tool[m]] # None
    BY <1>3, <1>4 DEF RenewalInv, HoldersSpent
  <2>2. \A m \in Logins : memory'[m] # None => successor'[m][memory'[m]] # None
    BY <1>1, <1>2, <1>3, <1>4 DEF RenewalInv, HoldersSpent
  <2>3. \A m \in Logins : journal[m].phase = "pending" => successor'[m][journal[m].token] # None
    BY <1>3, <1>4 DEF RenewalInv, HoldersSpent
  <2>4. task' # NoTask => successor'[task'.login][task'.token] # None
    BY <1>2
  <2> QED BY <2>1, <2>2, <2>3, <2>4 DEF HoldersSpent, Spent, In
<1>7. tool[l] # t
  BY <1>1, <1>2, Bounds DEF RenewalInv, HoldersSpent
<1>8. Apart'
  <2>1. \A m \in Logins : tool[m] # None => memory'[m] # tool[m]
    BY <1>7 DEF RenewalInv, Apart
  <2> QED BY <1>7, <2>1 DEF RenewalInv, Apart, Working
<1>9. Edge'
  <2> SUFFICES ASSUME NEW m \in Logins, successor'[m][store[m]] # None
               PROVE  /\ successor'[m][successor'[m][store[m]]] = None
                      /\ successor'[m][store[m]] \notin used'[m]
                      /\ Working(m)' => task'.token # successor'[m][store[m]]
    BY DEF Edge, Spent
  <2>1. CASE m = l /\ store[m] = t
    <3>1. successor'[l][issued + 1] = None
      BY <1>1, <1>2, <1>3 DEF Spent
    <3>2. issued + 1 # t
      BY <1>1, Bounds
    <3> QED BY <1>1, <1>2, <1>3, <2>1, <3>1, <3>2 DEF Working
  <2>2. CASE ~(m = l /\ store[m] = t)
    <3> DEFINE new == successor[m][store[m]]
    <3>1. successor'[m][store[m]] = new /\ Spent(m, store[m]) /\ new \in Tokens
      <4>1. successor'[m][store[m]] = new /\ successor'[m][store[m]] \in Tokens \cup {None}
        BY <1>2, <1>3, <2>2
      <4> QED BY <4>1 DEF Spent
    <3>2. ~Spent(m, new) /\ new \notin used[m] /\ (m = l => new # t)
      BY <1>1, <3>1 DEF RenewalInv, Edge, Working
    <3>3. successor'[m][new] = None
      BY <1>2, <3>1, <3>2 DEF Spent
    <3> QED BY <3>1, <3>2, <3>3 DEF Working
  <2> QED BY <2>1, <2>2
<1>10. \A m \in Logins : successor'[m][store[m]] # None =>
         Spent(m, store[m]) \/ (m = l /\ store[m] = t)
  BY <1>2, <1>3 DEF Spent
<1> QED BY <1>2, <1>5, <1>6, <1>8, <1>9, <1>10

LEMMA AnswerLostInv ==
  ASSUME RenewalInv, AnswerLost PROVE RenewalInv'
<1> DEFINE l == task.login
           t == task.token
           b == l \in Keychains
<1>0. b \in BOOLEAN
  OBVIOUS
<1>1. /\ At("ask") /\ Sent(b) /\ task' = NoTask /\ Usable(l, t) /\ CanIssue
      /\ successor' = Exchanged(l, t) /\ issued' = issued + 1 /\ lost' = lost \cup {<<l, t>>}
      /\ UNCHANGED <<disk, revoked, tool, rejected, memory, journal, access, raced>>
  BY DEF AnswerLost, Sent
<1>2. /\ TypeOK /\ task # NoTask /\ l \in Logins /\ t \in Tokens
      /\ l \in Keychains => journal[l] = Intent(t)
      /\ task.step = "ask"
  BY <1>1, AskFacts
<1>3. /\ used' \in [Logins -> SUBSET Tokens]
      /\ \A m \in Logins : m # l => used'[m] = used[m]
      /\ b => used'[l] = used[l] \cup {t}
      /\ ~b => used'[l] = used[l]
  <2> HIDE DEF b
  <2> QED BY <1>0, <1>1, <1>2, SentFacts
<1>4. \A m \in Logins : \A u \in used'[m] : u \in used[m] \/ (m = l /\ u = t)
  BY <1>3
<1>5. UNCHANGED <<store, tool, memory, journal>>
  BY <1>1 DEF disk
<1>6. /\ successor' \in [Logins -> [Tokens -> Tokens \cup {None}]] /\ issued' \in Tokens
      /\ Issue' /\ HoldersSpent' /\ Apart' /\ Edge'
      /\ \A m \in Logins : successor'[m][store[m]] # None =>
            Spent(m, store[m]) \/ (m = l /\ store[m] = t)
  BY <1>1, <1>4, <1>5, ExchangedInv
<1>7. faults' \in 0..MaxFaults
  BY <1>2, Bounds DEF AnswerLost, Fault, TypeOK
<1>8. TypeOK'
  BY <1>1, <1>2, <1>3, <1>6, <1>7 DEF TypeOK, disk
<1>9. Steps' /\ Records' /\ Ready' /\ Done' /\ RacesNoted'
  BY <1>1, <1>5 DEF RenewalInv, Steps, Records, Ready, Done, RacesNoted, In
<1>10. Barred'
  <2>1. \A m \in Keychains : store[m] \in used'[m] => journal[m].token = store[m]
    BY <1>2, <1>3 DEF RenewalInv, Barred, Intent, Logins
  <2>2. \A m \in Files : store[m] \in used'[m] => rejected[m] = store[m] \/ memory[m] = store[m]
    BY <1>2, <1>3, RenewalAssumption DEF RenewalInv, Barred, In, Logins
  <2> QED BY <1>1, <2>1, <2>2 DEF Barred, In, disk
<1>11. LoginsAreCarried'
  BY <1>1, <1>2, <1>5, <1>6 DEF RenewalInv, LoginsAreCarried, Carried, InHand, Spent
<1> QED BY <1>6, <1>8, <1>9, <1>10, <1>11 DEF RenewalInv

LEMMA AnsweredInv ==
  ASSUME RenewalInv, Answered PROVE RenewalInv'
<1> DEFINE l == task.login
           t == task.token
           b == l \in Keychains \/ Current
           next == IF l \in Files THEN "write" ELSE "journal"
<1>0. b \in BOOLEAN
  BY Zenon
<1>1. /\ At("ask") /\ Sent(b) /\ Usable(l, t) /\ CanIssue /\ GoTo(next)
      /\ successor' = Exchanged(l, t) /\ issued' = issued + 1
      /\ memory' = IF l \in Keychains THEN Note(memory, l, t) ELSE memory
      /\ UNCHANGED <<disk, revoked, tool, rejected, journal, access, raced, lost, faults>>
  BY DEF Answered, Sent
<1>2. /\ TypeOK /\ task # NoTask /\ l \in Logins /\ t \in Tokens
      /\ l \in Keychains => journal[l] = Intent(t)
      /\ task.step = "ask" /\ memory[l] = None
  BY <1>1, AskFacts
<1>3. /\ used' \in [Logins -> SUBSET Tokens]
      /\ \A m \in Logins : m # l => used'[m] = used[m]
      /\ b => used'[l] = used[l] \cup {t}
      /\ ~b => used'[l] = used[l]
  <2> HIDE DEF b
  <2> QED BY <1>0, <1>1, <1>2, SentFacts
<1>4. \A m \in Logins : \A u \in used'[m] : u \in used[m] \/ (m = l /\ u = t)
  BY <1>3
<1>5. UNCHANGED <<store, tool, journal>>
  BY <1>1 DEF disk
<1>6. /\ task' \in Task /\ task' # NoTask /\ task'.login = l /\ task'.token = t
      /\ task'.step = next /\ Current' = Current
  <2>1. next \in FileSteps \cup KeychainSteps
    BY DEF FileSteps, KeychainSteps
  <2> HIDE DEF next
  <2> QED BY <1>1, <1>2, <2>1, GoToFacts
<1>7. /\ memory' \in [Logins -> Tokens \cup {None}]
      /\ \A m \in Logins : m # l => memory'[m] = memory[m]
      /\ memory'[l] \in {None, t}
      /\ l \in Keychains /\ Current => memory'[l] = t
      /\ l \notin Keychains => memory'[l] = None
  <2>1. memory \in [Logins -> Tokens \cup {None}]
    BY <1>2 DEF TypeOK
  <2> QED BY <1>1, <1>2, <2>1 DEF Note
<1>8. \A m \in Logins : memory'[m] = memory[m] \/ (m = l /\ memory'[m] = t)
  BY <1>2, <1>7
<1>9. /\ successor' \in [Logins -> [Tokens -> Tokens \cup {None}]] /\ issued' \in Tokens
      /\ Issue' /\ HoldersSpent' /\ Apart' /\ Edge'
      /\ \A m \in Logins : successor'[m][store[m]] # None =>
            Spent(m, store[m]) \/ (m = l /\ store[m] = t)
  BY <1>1, <1>4, <1>5, <1>6, <1>8, ExchangedInv
<1>10. TypeOK'
  BY <1>1, <1>2, <1>3, <1>6, <1>7, <1>9 DEF TypeOK, disk
<1>11. l \in Files => l \notin Keychains
  BY RenewalAssumption
<1>12. Steps'
  BY <1>2, <1>6, <1>7, <1>11 DEF RenewalInv, Steps, In, BeforeAnswer, AfterAnswer, Logins,
     KeychainSteps
<1>13. Records'
  <2>1. \A m \in Keychains : memory'[m] # None =>
          journal[m] \in {NoRecord, Intent(memory'[m]), Pending(memory'[m])}
    BY <1>2, <1>7 DEF RenewalInv, Records, Logins
  <2>2. task'.step = "journal" => l \in Keychains
    BY <1>2, <1>6 DEF Logins
  <2> QED BY <1>2, <1>5, <1>6, <1>7, <2>1, <2>2 DEF RenewalInv, Records, In, BeforeAnswer
<1>14. Ready' /\ Done' /\ RacesNoted'
  BY <1>6 DEF Ready, Done, RacesNoted, In
<1>15. Barred'
  <2>1. \A m \in Keychains : store[m] \in used'[m] => journal[m].token = store[m]
    BY <1>2, <1>3 DEF RenewalInv, Barred, Intent, Logins
  <2>2. \A m \in Files : store[m] \in used'[m] =>
          \/ rejected[m] = store[m] \/ memory'[m] = store[m]
          \/ m = l /\ Current /\ t = store[m]
    BY <1>2, <1>3, <1>7, RenewalAssumption DEF RenewalInv, Barred, In, Logins
  <2> QED BY <1>1, <1>6, <2>1, <2>2 DEF Barred, In, Working, disk
<1>16. LoginsAreCarried'
  <2> SUFFICES ASSUME NEW m \in Logins, successor'[m][store[m]] # None
               PROVE  Carried(m, store[m])' \/ <<m, store[m]>> \in lost
    BY <1>1, <1>5 DEF LoginsAreCarried
  <2>1. CASE m = l /\ store[m] = t
    <3>1. journal[l] # Pending(t)
      BY <1>2, <1>11 DEF RenewalInv, Records, Pending, Intent, NoRecord, Logins
    <3> QED BY <1>5, <1>6, <2>1, <3>1 DEF Carried, InHand, Pending
  <2>2. CASE ~(m = l /\ store[m] = t)
    <3>1. Carried(m, store[m]) \/ <<m, store[m]>> \in lost
      BY <1>9, <2>2 DEF RenewalInv, LoginsAreCarried, Spent
    <3>2. Carried(m, store[m]) => tool[m] = store[m] \/ memory[m] = store[m]
                                    \/ journal[m] = Pending(store[m])
      BY <1>2 DEF Carried, InHand, Pending
    <3>3. store[m] # None
      BY <1>2, Bounds DEF TypeOK
    <3> QED BY <1>2, <1>5, <1>7, <3>1, <3>2, <3>3 DEF Carried, Pending
  <2> QED BY <2>1, <2>2
<1> QED BY <1>9, <1>10, <1>12, <1>13, <1>14, <1>15, <1>16 DEF RenewalInv

-----------------------------------------------------------------------------
(* Logins in files.                                                        *)

LEMMA FileTask ==
  ASSUME RenewalInv, NEW l \in Files, task = NoTask
  PROVE  /\ TypeOK /\ l \in Logins /\ l \notin Keychains
         /\ store[l] \in Tokens /\ store[l] # None /\ store[l] <= issued
         /\ journal[l] = NoRecord
         /\ tool[l] # store[l] \/ memory[l] # store[l]
         /\ Spent(l, store[l]) => store[l] # successor[l][store[l]]
<1>1. TypeOK /\ l \in Logins /\ l \notin Keychains
  BY RenewalAssumption DEF RenewalInv, Logins
<1>2. store[l] \in Tokens /\ store[l] # None
  BY <1>1, Bounds DEF TypeOK
<1>3. successor[l][store[l]] \in Tokens \cup {None} /\ store[l] \in Nat
  BY <1>1, <1>2, Bounds DEF TypeOK
<1>4. Spent(l, store[l]) => store[l] < successor[l][store[l]]
  BY <1>1, <1>2 DEF RenewalInv, Issue
<1>5. Spent(l, store[l]) => store[l] # successor[l][store[l]]
  BY <1>3, <1>4, Bounds DEF None
<1> QED BY <1>1, <1>2, <1>5 DEF RenewalInv, Issue, Records, Apart

LEMMA RenewFileInv ==
  ASSUME RenewalInv, NEW l \in Files, RenewFile(l) PROVE RenewalInv'
<1> DEFINE t == store[l]
           again == memory[l] = t
           step == IF again THEN "write" ELSE "ask"
<1>1. task = NoTask /\ Due(l)
  BY DEF RenewFile
<1>2. UNCHANGED <<disk, endpoint, tool, rejected, journal, access, raced, lost, used, faults>>
  BY DEF RenewFile
<1>3. /\ TypeOK /\ l \in Logins /\ l \notin Keychains /\ t \in Tokens /\ t # None /\ t <= issued
      /\ journal[l] = NoRecord
      /\ Spent(l, t) => t # successor[l][t]
  BY <1>1, FileTask
<1>4. Begin(l, step, t) /\ memory' = IF again THEN memory ELSE [memory EXCEPT ![l] = None]
  BY DEF RenewFile
<1>5. step \in FileSteps \cup KeychainSteps
  BY DEF FileSteps
<1>6. task' \in Task /\ task' # NoTask /\ task'.login = l /\ task'.token = t
      /\ task'.step = step /\ Current'
  <2> HIDE DEF step
  <2> QED BY <1>3, <1>4, <1>5, BeginFacts
<1>7. /\ memory' \in [Logins -> Tokens \cup {None}]
      /\ \A m \in Logins : m # l => memory'[m] = memory[m]
      /\ memory'[l] = IF again THEN t ELSE None
  <2>1. memory \in [Logins -> Tokens \cup {None}]
    BY <1>3 DEF TypeOK
  <2> QED BY <1>3, <1>4, <2>1
<1>8. UNCHANGED <<store, issued, successor, tool, rejected, journal, lost, used>>
  BY <1>2 DEF disk, endpoint
<1>9. TypeOK'
  BY <1>2, <1>3, <1>6, <1>7 DEF TypeOK, disk, endpoint
<1>10. again => Spent(l, t)
  BY <1>3 DEF RenewalInv, HoldersSpent
<1>11. Issue'
  BY <1>3, <1>6, <1>8 DEF RenewalInv, Issue, Spent
<1>12. HoldersSpent'
  <2>1. \A m \in Logins : memory'[m] # None => Spent(m, memory'[m])
    BY <1>7, <1>10 DEF RenewalInv, HoldersSpent
  <2>2. In(AfterAnswer)' => Spent(l, t)
    BY <1>6, <1>10 DEF In, AfterAnswer
  <2> QED BY <1>6, <1>8, <2>1, <2>2 DEF RenewalInv, HoldersSpent, Spent, In
<1>13. Apart'
  <2>1. \A m \in Logins : tool[m] # None => memory'[m] # tool[m]
    BY <1>7 DEF RenewalInv, Apart
  <2>2. again => tool[l] # t
    BY <1>3 DEF RenewalInv, Apart
  <2>3. In(AfterAnswer)' => again
    BY <1>6 DEF In, AfterAnswer
  <2> QED BY <1>6, <1>8, <2>1, <2>2, <2>3 DEF RenewalInv, Apart, Working, In
<1>14. Steps' /\ Records'
  <2>1. Steps'
    BY <1>3, <1>6, <1>7 DEF Steps, In, BeforeAnswer, AfterAnswer, KeychainSteps
  <2>2. \A m \in Keychains : memory'[m] = memory[m]
    BY <1>3, <1>7 DEF Logins
  <2>3. Records'
    BY <1>3, <1>6, <1>8, <2>2 DEF RenewalInv, Records, In, BeforeAnswer
  <2> QED BY <2>1, <2>3
<1>15. Edge'
  BY <1>3, <1>6, <1>8 DEF RenewalInv, Edge, Spent, Working
<1>16. Ready' /\ Done' /\ RacesNoted'
  BY <1>6 DEF Ready, Done, RacesNoted, In
<1>17. Barred'
  <2>1. \A m \in Files : store[m] \in used[m] =>
          \/ rejected[m] = store[m] \/ (memory[m] = store[m] /\ memory'[m] = memory[m])
    BY <1>1, <1>7 DEF RenewalInv, Barred, Working, Logins
  <2>2. ~again => t \notin used[l]
    BY <1>1 DEF RenewalInv, Barred, Working, Due
  <2>3. In({"recheck", "ask"})' => ~again
    BY <1>6 DEF In
  <2> QED BY <1>6, <1>8, <2>1, <2>2, <2>3 DEF RenewalInv, Barred, In
<1>18. LoginsAreCarried'
  BY <1>1, <1>3, <1>7, <1>8 DEF RenewalInv, LoginsAreCarried, Carried, InHand, Spent
<1> QED BY <1>9, <1>11, <1>12, <1>13, <1>14, <1>15, <1>16, <1>17, <1>18 DEF RenewalInv

(* What the steps that save an answer start from.                          *)
LEMMA HeldFacts ==
  ASSUME RenewalInv, In(AfterAnswer)
  PROVE  /\ TypeOK /\ task # NoTask /\ task \in Task
         /\ task.login \in Logins /\ task.token \in Tokens /\ task.token # None
         /\ Spent(task.login, task.token)
         /\ memory[task.login] \in {None, task.token}
         /\ store[task.login] \in Tokens
         /\ memory \in [Logins -> Tokens \cup {None}]
         /\ task.login \in Files => journal[task.login] = NoRecord /\ task.login \notin Keychains
<1>1. TypeOK /\ task # NoTask
  BY DEF RenewalInv, In
<1>2. task \in Task /\ task.login \in Logins /\ task.token \in Tokens
  BY <1>1, TaskFacts
<1>3. store[task.login] \in Tokens /\ memory \in [Logins -> Tokens \cup {None}]
  BY <1>1, <1>2 DEF TypeOK
<1> QED BY <1>1, <1>2, <1>3, Bounds, RenewalAssumption DEF RenewalInv, HoldersSpent, Steps, Records

LEMMA WriteBackInv ==
  ASSUME RenewalInv, WriteBack PROVE RenewalInv'
<1> DEFINE l == task.login
           t == task.token
<1>1. At("write") /\ In(AfterAnswer) /\ In({"write", "replace"})
  BY DEF WriteBack, At, In, AfterAnswer
<1>2. /\ TypeOK /\ task # NoTask /\ task \in Task /\ l \in Logins /\ t \in Tokens /\ t # None
      /\ Spent(l, t) /\ memory[l] \in {None, t} /\ store[l] \in Tokens
      /\ memory \in [Logins -> Tokens \cup {None}]
      /\ l \in Files => journal[l] = NoRecord /\ l \notin Keychains
  BY <1>1, HeldFacts
<1>3. l \in Files /\ task.step = "write"
  BY <1>1 DEF RenewalInv, Steps, At
<1>4. UNCHANGED <<disk, endpoint, tool, rejected, journal, access, lost, used, faults>>
  BY DEF WriteBack
<1>5. UNCHANGED <<store, issued, successor, tool, rejected, journal, lost, used>>
  BY <1>4 DEF disk, endpoint
<1>6. CASE store[l] = t
  <2>1. GoTo("replace") /\ raced' = "clear" /\ UNCHANGED memory
    BY <1>6 DEF WriteBack
  <2>2. /\ task' \in Task /\ task' # NoTask /\ task'.login = l /\ task'.token = t
        /\ task'.step = "replace" /\ Current' = Current
    BY <1>2, <2>1, GoToFacts DEF FileSteps
  <2>3. TypeOK'
    BY <1>2, <1>4, <2>1, <2>2 DEF TypeOK, disk, endpoint
  <2>4. Issue' /\ HoldersSpent' /\ Apart' /\ Steps'
    BY <1>1, <1>2, <1>3, <1>5, <2>1, <2>2 DEF RenewalInv, Issue, HoldersSpent, Apart, Steps, Spent,
       In, Working, BeforeAnswer, AfterAnswer, KeychainSteps
  <2>5. Records'
    BY <1>5, <2>1, <2>2 DEF RenewalInv, Records, In, BeforeAnswer
  <2>6. Edge' /\ RacesNoted' /\ Done'
    BY <1>2, <1>5, <1>6, <2>1, <2>2 DEF RenewalInv, Edge, RacesNoted, Done, Spent, Working, In
  <2>7. Ready'
    <3>1. /\ ~Spent(l, successor[l][t]) /\ successor[l][t] \notin used[l]
      BY <1>2, <1>6 DEF RenewalInv, Edge
    <3>2. successor[l][t] # store[l]
      BY <1>2, <1>6, <3>1
    <3> QED BY <1>5, <2>2, <3>1, <3>2 DEF Ready, Spent
  <2>8. Barred'
    BY <1>2, <1>3, <1>5, <2>1, <2>2 DEF RenewalInv, Barred, In, Working
  <2>9. LoginsAreCarried'
    BY <1>2, <1>3, <1>5, <2>1, <2>2 DEF RenewalInv, LoginsAreCarried, Carried, InHand, Spent
  <2> QED BY <2>3, <2>4, <2>5, <2>6, <2>7, <2>8, <2>9 DEF RenewalInv
<1>7. CASE store[l] # t
  <2>1. memory' = Note(memory, l, None) /\ task' = NoTask /\ UNCHANGED raced
    BY <1>7 DEF WriteBack
  <2>2. /\ memory' \in [Logins -> Tokens \cup {None}]
        /\ \A m \in Logins : memory'[m] = memory[m] \/ memory'[m] = None
        /\ \A m \in Logins : m # l => memory'[m] = memory[m]
    BY <1>2, <2>1 DEF Note
  <2>3. TypeOK'
    BY <1>2, <1>4, <2>1, <2>2 DEF TypeOK, disk, endpoint
  <2>4. Issue' /\ HoldersSpent' /\ Apart' /\ Steps'
    BY <1>5, <2>1, <2>2, Bounds DEF RenewalInv, Issue, HoldersSpent, Apart, Steps, Spent, In, Working
  <2>5. Records'
    BY <1>2, <1>3, <1>5, <2>1, <2>2 DEF RenewalInv, Records, In, Logins
  <2>6. Edge' /\ RacesNoted' /\ Done' /\ Ready'
    BY <1>5, <2>1 DEF RenewalInv, Edge, RacesNoted, Done, Ready, Spent, Working, In
  <2>7. store[l] # None
    BY <1>2, Bounds
  <2>8. Barred'
    <3>1. \A m \in Files : store[m] \in used[m] => rejected[m] = store[m] \/ memory'[m] = store[m]
      BY <1>2, <1>7, <2>2, <2>7 DEF RenewalInv, Barred, Working, Logins
    <3> QED BY <1>5, <2>1, <3>1 DEF RenewalInv, Barred, In
  <2>9. LoginsAreCarried'
    BY <1>2, <1>3, <1>5, <1>7, <2>1, <2>2, <2>7 DEF RenewalInv, LoginsAreCarried, Carried, InHand,
       Spent
  <2> QED BY <2>3, <2>4, <2>5, <2>6, <2>8, <2>9 DEF RenewalInv
<1> QED BY <1>6, <1>7

(* The renewer's own write moves the store to the end of the chain.        *)
LEMMA WrittenFacts ==
  ASSUME RenewalInv, In({"replace", "update"}),
         Saved(task.login, successor[task.login][task.token])
  PROVE  /\ store' \in [Logins -> Tokens] /\ lapsed' \subseteq Logins /\ recent' \subseteq Files
         /\ \A m \in Logins : m # task.login => store'[m] = store[m]
         /\ store'[task.login] <= issued /\ store'[task.login] # task.token
         /\ ~Spent(task.login, store'[task.login])
         /\ store'[task.login] \notin used[task.login]
<1> DEFINE l == task.login
           new == successor[l][task.token]
<1>1. In(AfterAnswer)
  BY DEF In, AfterAnswer
<1>2. /\ TypeOK /\ task # NoTask /\ l \in Logins /\ task.token \in Tokens
      /\ Spent(l, task.token)
  BY <1>1, HeldFacts
<1>3. store \in [Logins -> Tokens] /\ successor \in [Logins -> [Tokens -> Tokens \cup {None}]]
  BY <1>2 DEF TypeOK
<1>4. new \in Tokens
  <2>1. new \in Tokens \cup {None}
    BY <1>2, <1>3
  <2> QED BY <1>2, <2>1 DEF Spent
<1>5. new <= issued /\ new # task.token
  <2>1. task.token < new /\ new <= issued
    BY <1>2 DEF RenewalInv, Issue
  <2> QED BY <1>2, <1>4, <2>1, Bounds
<1>6. /\ store'[l] = new /\ store' \in [Logins -> Tokens]
      /\ \A m \in Logins : m # l => store'[m] = store[m]
  BY <1>2, <1>3, <1>4 DEF Saved
<1>7. ~Spent(l, new) /\ new \notin used[l]
  BY DEF RenewalInv, Ready
<1>8. lapsed' \subseteq Logins /\ recent' \subseteq Files
  BY <1>2 DEF Saved, TypeOK
<1> QED BY <1>5, <1>6, <1>7, <1>8

LEMMA ReplaceInv ==
  ASSUME RenewalInv, Replace PROVE RenewalInv'
<1> DEFINE l == task.login
           t == task.token
<1>1. At("replace") /\ In(AfterAnswer) /\ In({"replace", "update"}) /\ In({"write", "replace"})
  BY DEF Replace, At, In, AfterAnswer
<1>2. /\ TypeOK /\ task # NoTask /\ l \in Logins /\ t \in Tokens
      /\ memory[l] \in {None, t} /\ memory \in [Logins -> Tokens \cup {None}]
      /\ l \in Files => journal[l] = NoRecord /\ l \notin Keychains
  BY <1>1, HeldFacts
<1>3. l \in Files
  BY <1>1 DEF RenewalInv, Steps
<1>4. /\ store' \in [Logins -> Tokens] /\ lapsed' \subseteq Logins /\ recent' \subseteq Files
      /\ \A m \in Logins : m # l => store'[m] = store[m]
      /\ store'[l] <= issued /\ store'[l] # t /\ ~Spent(l, store'[l]) /\ store'[l] \notin used[l]
  BY <1>1, WrittenFacts DEF Replace
<1>5. /\ memory' = Note(memory, l, None) /\ task' = NoTask
      /\ UNCHANGED <<endpoint, tool, rejected, journal, access, raced, lost, used, faults>>
  BY DEF Replace
<1>6. /\ memory' \in [Logins -> Tokens \cup {None}]
      /\ \A m \in Logins : memory'[m] = memory[m] \/ memory'[m] = None
      /\ \A m \in Logins : m # l => memory'[m] = memory[m]
  BY <1>2, <1>5 DEF Note
<1>7. UNCHANGED <<issued, successor, tool, rejected, journal, lost, used>>
  BY <1>5 DEF endpoint
<1>8. TypeOK'
  BY <1>2, <1>4, <1>5, <1>6 DEF TypeOK, endpoint
<1>9. Issue' /\ HoldersSpent' /\ Apart' /\ Steps'
  <2>1. Issue'
    BY <1>4, <1>5, <1>7 DEF RenewalInv, Issue, Spent
  <2>2. HoldersSpent' /\ Apart' /\ Steps'
    BY <1>5, <1>6, <1>7, Bounds DEF RenewalInv, HoldersSpent, Apart, Steps, Spent, In, Working
  <2> QED BY <2>1, <2>2
<1>10. Records'
  BY <1>2, <1>3, <1>5, <1>6, <1>7 DEF RenewalInv, Records, In, Logins
<1>11. Edge' /\ RacesNoted' /\ Done' /\ Ready'
  BY <1>4, <1>5, <1>7 DEF RenewalInv, Edge, RacesNoted, Done, Ready, Spent, Working, In
<1>12. Barred'
  <2>1. \A m \in Files : store'[m] \in used[m] => rejected[m] = store'[m] \/ memory'[m] = store'[m]
    BY <1>4, <1>6 DEF RenewalInv, Barred, Working, Logins
  <2>2. \A m \in Keychains : store'[m] \in used[m] => journal[m].token = store'[m]
    BY <1>2, <1>3, <1>4 DEF RenewalInv, Barred, Logins
  <2> QED BY <1>5, <1>7, <2>1, <2>2 DEF Barred, In
<1>13. LoginsAreCarried'
  BY <1>2, <1>3, <1>4, <1>5, <1>6, <1>7 DEF RenewalInv, LoginsAreCarried, Carried, InHand, Spent
<1> QED BY <1>8, <1>9, <1>10, <1>11, <1>12, <1>13 DEF RenewalInv

LEMMA SaveFailsInv ==
  ASSUME RenewalInv, SaveFails PROVE RenewalInv'
<1> DEFINE l == task.login
           t == task.token
<1>1. In(AfterAnswer) /\ In({"write", "replace"})
  BY DEF SaveFails, At, In, AfterAnswer
<1>2. /\ TypeOK /\ task # NoTask /\ l \in Logins /\ t \in Tokens /\ Spent(l, t)
      /\ memory[l] \in {None, t} /\ memory \in [Logins -> Tokens \cup {None}]
      /\ store[l] \in Tokens
      /\ l \in Files => journal[l] = NoRecord /\ l \notin Keychains
  BY <1>1, HeldFacts
<1>3. l \in Files
  BY <1>1 DEF RenewalInv, Steps
<1>4. /\ memory' = Note(memory, l, t) /\ task' = NoTask
      /\ lost' = IF Current THEN lost ELSE lost \cup {<<l, t>>}
      /\ UNCHANGED <<disk, endpoint, tool, rejected, journal, access, raced, used>>
  BY DEF SaveFails
<1>5. /\ memory' \in [Logins -> Tokens \cup {None}]
      /\ \A m \in Logins : m # l => memory'[m] = memory[m]
      /\ memory'[l] = IF Current THEN t ELSE memory[l]
  BY <1>2, <1>4 DEF Note
<1>6. UNCHANGED <<store, issued, successor, tool, rejected, journal, used>>
  BY <1>4 DEF disk, endpoint
<1>7. faults' \in 0..MaxFaults /\ lost' \subseteq Logins \X Tokens
  <2>1. faults' \in 0..MaxFaults
    BY <1>2, Bounds DEF SaveFails, Fault, TypeOK
  <2>2. lost' \subseteq Logins \X Tokens
    BY <1>2, <1>4 DEF TypeOK
  <2> QED BY <2>1, <2>2
<1>8. TypeOK'
  BY <1>2, <1>4, <1>5, <1>7 DEF TypeOK, disk, endpoint
<1>9. Issue' /\ HoldersSpent' /\ Apart' /\ Steps'
  <2>1. Issue' /\ Steps'
    BY <1>4, <1>6 DEF RenewalInv, Issue, Steps, Spent, In
  <2>2. HoldersSpent'
    BY <1>2, <1>4, <1>5, <1>6 DEF RenewalInv, HoldersSpent, Spent, In
  <2>3. tool[l] # None => t # tool[l]
    BY <1>1, <1>2 DEF RenewalInv, Apart, Working
  <2>4. Apart'
    BY <1>4, <1>5, <1>6, <2>3 DEF RenewalInv, Apart, Working
  <2> QED BY <2>1, <2>2, <2>4
<1>10. Records'
  BY <1>2, <1>3, <1>4, <1>5, <1>6 DEF RenewalInv, Records, In, Logins
<1>11. Edge' /\ RacesNoted' /\ Done' /\ Ready'
  BY <1>4, <1>6 DEF RenewalInv, Edge, RacesNoted, Done, Ready, Spent, Working, In
<1>12. Barred'
  <2>1. \A m \in Files : store[m] \in used[m] => rejected[m] = store[m] \/ memory'[m] = store[m]
    <3> SUFFICES ASSUME NEW m \in Files, store[m] \in used[m]
                 PROVE  rejected[m] = store[m] \/ memory'[m] = store[m]
      OBVIOUS
    <3>1. store[l] # None
      BY <1>2, Bounds
    <3>2. \/ rejected[m] = store[m] \/ memory[m] = store[m]
          \/ m = l /\ Current /\ t = store[m]
      BY DEF RenewalInv, Barred, Working
    <3> QED BY <1>2, <1>5, <3>1, <3>2 DEF Logins
  <2> QED BY <1>4, <1>6, <2>1 DEF RenewalInv, Barred, In
<1>13. LoginsAreCarried'
  <2>1. store[l] # None
    BY <1>2, Bounds
  <2> QED BY <1>2, <1>3, <1>4, <1>5, <1>6, <2>1 DEF RenewalInv, LoginsAreCarried, Carried, InHand,
             Spent
<1> QED BY <1>8, <1>9, <1>10, <1>11, <1>12, <1>13 DEF RenewalInv

-----------------------------------------------------------------------------
(* Logins in the Keychain.                                                 *)

LEMMA KeychainFacts ==
  ASSUME RenewalInv, NEW l \in Keychains
  PROVE  /\ TypeOK /\ l \in Logins /\ l \notin Files
         /\ store[l] \in Tokens /\ store[l] # None /\ store[l] <= issued
         /\ journal \in [Logins -> Record] /\ journal[l] \in Record
         /\ memory[l] \in Tokens \cup {None}
         /\ Spent(l, store[l]) => store[l] # successor[l][store[l]]
<1>1. TypeOK /\ l \in Logins /\ l \notin Files
  BY RenewalAssumption DEF RenewalInv, Logins
<1>2. store[l] \in Tokens /\ store[l] # None
  BY <1>1, Bounds DEF TypeOK
<1>3. successor[l][store[l]] \in Tokens \cup {None} /\ store[l] \in Nat
  BY <1>1, <1>2, Bounds DEF TypeOK
<1>4. Spent(l, store[l]) => store[l] < successor[l][store[l]]
  BY <1>1, <1>2 DEF RenewalInv, Issue
<1>5. Spent(l, store[l]) => store[l] # successor[l][store[l]]
  BY <1>3, <1>4, Bounds DEF None
<1>6. journal \in [Logins -> Record] /\ memory[l] \in Tokens \cup {None}
  BY <1>1 DEF TypeOK
<1> QED BY <1>1, <1>2, <1>5, <1>6 DEF RenewalInv, Issue

LEMMA RecordTypes ==
  /\ NoRecord \in Record /\ NoRecord.phase = "none" /\ NoRecord.token = None
  /\ \A t \in Tokens : /\ Intent(t) \in Record /\ Pending(t) \in Record
                       /\ [phase |-> "rejected", token |-> t] \in Record
  /\ \A r \in Record : r.phase = "none" => r = NoRecord
  /\ \A r \in Record : r.phase = "pending" => r.token \in Tokens /\ r = Pending(r.token)
BY DEF Record, NoRecord, Intent, Pending

LEMMA RecordFacts ==
  \A t, u : /\ Intent(t).phase = "intent" /\ Intent(t).token = t
            /\ Pending(t).phase = "pending" /\ Pending(t).token = t
            /\ Intent(t) # Pending(u) /\ NoRecord # Pending(u)
            /\ Pending(t) = Pending(u) => t = u
BY DEF NoRecord, Intent, Pending

LEMMA RecordedFacts ==
  ASSUME RenewalInv, NEW l \in Keychains
  PROVE  /\ Recorded(l).phase = "pending" =>
               /\ Recorded(l).token \in Tokens /\ Recorded(l).token <= issued
               /\ Spent(l, Recorded(l).token) /\ tool[l] # Recorded(l).token
               /\ memory[l] \in {None, Recorded(l).token}
               /\ memory[l] = None => journal[l] = Pending(Recorded(l).token)
               /\ journal[l] \in {NoRecord, Intent(Recorded(l).token), Pending(Recorded(l).token)}
         /\ Recorded(l).phase # "pending" =>
               /\ memory[l] = None /\ Recorded(l) = journal[l]
               /\ \A t : journal[l] # Pending(t)
<1> DEFINE r == Recorded(l)
           t == r.token
<1>1. /\ TypeOK /\ l \in Logins /\ journal[l] \in Record
      /\ memory[l] \in Tokens \cup {None}
  BY KeychainFacts
<1>2. CASE memory[l] # None
  <2>1. r.phase = "pending" /\ t = memory[l] /\ t \in Tokens
    BY <1>1, <1>2 DEF Recorded
  <2>2. Spent(l, t)
    BY <1>1, <1>2, <2>1 DEF RenewalInv, HoldersSpent
  <2>3. journal[l] \in {NoRecord, Intent(t), Pending(t)}
    BY <1>2, <2>1 DEF RenewalInv, Records
  <2>4. tool[l] # t
    BY <1>1, <1>2, <2>1 DEF RenewalInv, Apart
  <2>5. t <= issued
    <3>1. successor[l][t] \in Tokens \cup {None} /\ issued \in Nat /\ t \in Nat
      BY <1>1, <2>1, Bounds DEF TypeOK
    <3>2. t < successor[l][t] /\ successor[l][t] <= issued
      BY <1>1, <2>1, <2>2 DEF RenewalInv, Issue
    <3> QED BY <3>1, <3>2, Bounds DEF None
  <2> QED BY <1>2, <2>1, <2>2, <2>3, <2>4, <2>5
<1>3. CASE memory[l] = None /\ journal[l].phase = "pending"
  <2>1. r = journal[l] /\ t \in Tokens /\ journal[l] = Pending(t)
    BY <1>1, <1>3, RecordTypes, RecordFacts DEF Recorded
  <2>2. Spent(l, t)
    BY <1>1, <1>3, <2>1 DEF RenewalInv, HoldersSpent
  <2>3. tool[l] # t
    BY <1>1, <2>1, Bounds DEF RenewalInv, Apart
  <2>4. t <= issued
    <3>1. successor[l][t] \in Tokens \cup {None} /\ issued \in Nat /\ t \in Nat
      BY <1>1, <2>1, Bounds DEF TypeOK
    <3>2. t < successor[l][t] /\ successor[l][t] <= issued
      BY <1>1, <2>1, <2>2 DEF RenewalInv, Issue
    <3> QED BY <3>1, <3>2, Bounds DEF None
  <2> QED BY <1>3, <2>1, <2>2, <2>3, <2>4
<1>4. CASE memory[l] = None /\ journal[l].phase # "pending"
  BY <1>4, RecordTypes, RecordFacts DEF Recorded
<1> QED BY <1>2, <1>3, <1>4

LEMMA RecoverInv ==
  ASSUME RenewalInv, NEW l \in Keychains, Recover(l) PROVE RenewalInv'
<1> DEFINE t == Recorded(l).token
<1>1. /\ task = NoTask /\ Recorded(l).phase = "pending" /\ Begin(l, "journal", t)
      /\ UNCHANGED <<disk, endpoint, tool, rejected, memory, journal, access, raced, lost, used,
                     faults>>
  BY DEF Recover, Free
<1>2. TypeOK /\ l \in Logins /\ l \notin Files
  BY KeychainFacts
<1>3. /\ t \in Tokens /\ t <= issued /\ Spent(l, t) /\ tool[l] # t
      /\ memory[l] \in {None, t} /\ (memory[l] = None => journal[l] = Pending(t))
      /\ journal[l] \in {NoRecord, Intent(t), Pending(t)}
  BY <1>1, RecordedFacts
<1>4. task' \in Task /\ task' # NoTask /\ task'.login = l /\ task'.token = t
      /\ task'.step = "journal" /\ Current'
  <2> HIDE DEF t
  <2> QED BY <1>1, <1>2, <1>3, BeginFacts DEF KeychainSteps
<1>5. UNCHANGED <<store, issued, successor, tool, rejected, memory, journal, lost, used>>
  BY <1>1 DEF disk, endpoint
<1>6. TypeOK'
  BY <1>1, <1>2, <1>4 DEF TypeOK, disk, endpoint
<1> HIDE DEF t
<1>7. Issue' /\ HoldersSpent' /\ Apart'
  BY <1>3, <1>4, <1>5 DEF RenewalInv, Issue, HoldersSpent, Apart, Spent, In, Working
<1>8. Steps' /\ Records'
  BY <1>3, <1>4, <1>5 DEF RenewalInv, Steps, Records, In, BeforeAnswer
<1>9. Edge'
  <2>1. Spent(l, store[l]) => t # successor[l][store[l]]
    BY <1>2, <1>3 DEF RenewalInv, Edge
  <2> QED BY <1>4, <1>5, <2>1 DEF RenewalInv, Edge, Spent, Working
<1>10. Ready' /\ Done' /\ RacesNoted'
  BY <1>4 DEF Ready, Done, RacesNoted, In
<1>11. Barred'
  BY <1>1, <1>4, <1>5 DEF RenewalInv, Barred, In, Working
<1>12. LoginsAreCarried'
  BY <1>1, <1>5 DEF RenewalInv, LoginsAreCarried, Carried, InHand, Spent
<1> QED BY <1>6, <1>7, <1>8, <1>9, <1>10, <1>11, <1>12 DEF RenewalInv

(* A recovery record is replaced: what holds whatever else the step does.  *)
LEMMA RecordedAnew ==
  ASSUME RenewalInv, NEW l \in Keychains, NEW r \in Record, journal' = [journal EXCEPT ![l] = r]
  PROVE  /\ journal' \in [Logins -> Record] /\ journal'[l] = r
         /\ \A m \in Logins : m # l => journal'[m] = journal[m]
         /\ \A m \in Files : journal'[m] = NoRecord
BY KeychainFacts, RenewalAssumption DEF RenewalInv, Records, Logins

LEMMA SupersedeInv ==
  ASSUME RenewalInv, NEW l \in Keychains, Supersede(l) PROVE RenewalInv'
<1>1. /\ task = NoTask /\ Recorded(l).phase # "pending" /\ Recorded(l).token # store[l]
      /\ journal' = [journal EXCEPT ![l] = NoRecord]
      /\ UNCHANGED <<disk, endpoint, tool, rejected, memory, access, task, raced, lost, used, faults>>
  BY DEF Supersede, Free, Erase
<1>2. TypeOK /\ l \in Logins /\ store[l] # None
  BY KeychainFacts
<1>3. memory[l] = None /\ Recorded(l) = journal[l] /\ \A t : journal[l] # Pending(t)
  BY <1>1, RecordedFacts
<1>4. /\ journal' \in [Logins -> Record] /\ journal'[l] = NoRecord
      /\ \A m \in Logins : m # l => journal'[m] = journal[m]
      /\ \A m \in Files : journal'[m] = NoRecord
  BY <1>1, RecordTypes, RecordFacts, RecordedAnew
<1>5. UNCHANGED <<store, issued, successor, tool, rejected, memory, task, raced, lost, used>>
  BY <1>1 DEF disk, endpoint
<1>6. TypeOK'
  BY <1>1, <1>2, <1>4 DEF TypeOK, disk, endpoint
<1>7. Issue' /\ HoldersSpent' /\ Apart' /\ Steps'
  <2>1. Issue' /\ Steps'
    BY <1>5 DEF RenewalInv, Issue, Steps, Spent, In
  <2>2. HoldersSpent' /\ Apart'
    BY <1>4, <1>5, RecordTypes, RecordFacts DEF RenewalInv, HoldersSpent, Apart, Spent, In, Working
  <2> QED BY <2>1, <2>2
<1>8. Records'
  BY <1>1, <1>3, <1>4, <1>5 DEF RenewalInv, Records, In, Logins
<1>9. Edge' /\ Ready' /\ Done' /\ RacesNoted'
  BY <1>5 DEF RenewalInv, Edge, Ready, Done, RacesNoted, Spent, Working, In
<1>10. Barred'
  <2>1. store[l] \notin used[l]
    BY <1>1, <1>3 DEF RenewalInv, Barred
  <2> QED BY <1>1, <1>4, <1>5, <2>1 DEF RenewalInv, Barred, Working, In, Logins
<1>11. LoginsAreCarried'
  BY <1>1, <1>3, <1>4, <1>5 DEF RenewalInv, LoginsAreCarried, Carried, InHand, Spent, Pending
<1> QED BY <1>6, <1>7, <1>8, <1>9, <1>10, <1>11 DEF RenewalInv

LEMMA IntendInv ==
  ASSUME RenewalInv, NEW l \in Keychains, Intend(l) PROVE RenewalInv'
<1> DEFINE t == store[l]
<1>1. /\ task = NoTask /\ Recorded(l).phase = "none" /\ Begin(l, "recheck", t)
      /\ journal' = [journal EXCEPT ![l] = Intent(t)]
      /\ UNCHANGED <<disk, endpoint, tool, rejected, memory, access, raced, lost, used, faults>>
  BY DEF Intend, Free, Write, Intent
<1>2. /\ TypeOK /\ l \in Logins /\ l \notin Files /\ t \in Tokens /\ t # None /\ t <= issued
      /\ journal[l] \in Record
      /\ Spent(l, t) => t # successor[l][t]
  BY KeychainFacts
<1>3. memory[l] = None /\ Recorded(l) = journal[l] /\ \A u : journal[l] # Pending(u)
  BY <1>1, RecordedFacts
<1>4. /\ journal' \in [Logins -> Record] /\ journal'[l] = Intent(t)
      /\ \A m \in Logins : m # l => journal'[m] = journal[m]
      /\ \A m \in Files : journal'[m] = NoRecord
  BY <1>1, <1>2, RecordTypes, RecordFacts, RecordedAnew
<1>5. task' \in Task /\ task' # NoTask /\ task'.login = l /\ task'.token = t
      /\ task'.step = "recheck" /\ Current'
  BY <1>1, <1>2, BeginFacts DEF KeychainSteps
<1>6. UNCHANGED <<store, issued, successor, tool, rejected, memory, raced, lost, used>>
  BY <1>1 DEF disk, endpoint
<1>7. TypeOK'
  BY <1>1, <1>2, <1>4, <1>5 DEF TypeOK, disk, endpoint
<1>8. Issue' /\ HoldersSpent' /\ Apart' /\ Steps'
  <2>1. Issue'
    BY <1>2, <1>5, <1>6 DEF RenewalInv, Issue, Spent
  <2>2. HoldersSpent' /\ Apart'
    BY <1>4, <1>5, <1>6, RecordTypes, RecordFacts DEF RenewalInv, HoldersSpent, Apart, Spent, In, Working, AfterAnswer
  <2>3. Steps'
    BY <1>3, <1>5, <1>6 DEF Steps, In, AfterAnswer
  <2> QED BY <2>1, <2>2, <2>3
<1>9. Records'
  BY <1>3, <1>4, <1>5, <1>6 DEF RenewalInv, Records, In, Logins
<1>10. Edge'
  BY <1>2, <1>5, <1>6 DEF RenewalInv, Edge, Spent, Working
<1>11. Ready' /\ Done' /\ RacesNoted'
  BY <1>5 DEF Ready, Done, RacesNoted, In
<1>12. Barred'
  <2>1. journal[l].token # t
    <3>1. journal[l].phase = "none"
      BY <1>1, <1>3
    <3>2. journal[l] = NoRecord
      BY <1>2, <3>1, RecordTypes
    <3> QED BY <1>2, <3>2, RecordTypes, RecordFacts
  <2>2. t \notin used[l]
    BY <2>1 DEF RenewalInv, Barred
  <2>3. \A m \in Keychains : store[m] \in used[m] => journal'[m].token = store[m]
    BY <1>4, RecordTypes, RecordFacts DEF RenewalInv, Barred, Logins
  <2> QED BY <1>1, <1>5, <1>6, <2>2, <2>3 DEF RenewalInv, Barred, Working, In
<1>13. LoginsAreCarried'
  BY <1>1, <1>3, <1>4, <1>6 DEF RenewalInv, LoginsAreCarried, Carried, InHand, Spent, Pending
<1> QED BY <1>7, <1>8, <1>9, <1>10, <1>11, <1>12, <1>13 DEF RenewalInv

(* A renewal ends and leaves everything as it is.                          *)
LEMMA EndedInv ==
  ASSUME RenewalInv, TypeOK', task # NoTask, task.login \in Keychains, task' = NoTask,
         UNCHANGED <<store, issued, successor, tool, rejected, memory, journal, used>>,
         lost \subseteq lost',
         task.step = "journal" =>
           \/ memory[task.login] = task.token \/ journal[task.login] = Pending(task.token)
           \/ <<task.login, task.token>> \in lost'
  PROVE  RenewalInv'
<1>1. Issue' /\ HoldersSpent' /\ Apart' /\ Steps' /\ Records'
  BY DEF RenewalInv, Issue, HoldersSpent, Apart, Steps, Records, Spent, In, Working
<1>2. Edge' /\ Ready' /\ Done' /\ RacesNoted'
  BY DEF RenewalInv, Edge, Ready, Done, RacesNoted, Spent, In, Working
<1>3. task.login \notin Files
  BY RenewalAssumption
<1>4. Barred'
  BY <1>3 DEF RenewalInv, Barred, In, Working
<1>5. task.step \notin {"write", "replace"}
  BY <1>3 DEF RenewalInv, Steps, In
<1>6. LoginsAreCarried'
  BY <1>5 DEF RenewalInv, LoginsAreCarried, Carried, InHand, Spent, Pending
<1> QED BY <1>1, <1>2, <1>4, <1>6 DEF RenewalInv

(* A renewal goes on from comparing to updating or clearing, and from      *)
(* updating to clearing.                                                   *)
LEMMA GoesOnInv ==
  ASSUME RenewalInv, TypeOK', In({"compare", "update", "verify"}),
         NEW s \in {"update", "clear"}, GoTo(s),
         UNCHANGED <<store, issued, successor, tool, rejected, memory, journal, used, lost>>,
         s = "update" => store[task.login] = task.token,
         s = "clear" => store[task.login] # task.token
  PROVE  RenewalInv'
<1> DEFINE l == task.login
           t == task.token
<1>1. In(AfterAnswer)
  BY DEF In, AfterAnswer
<1>2. /\ TypeOK /\ task # NoTask /\ l \in Logins /\ t \in Tokens /\ Spent(l, t)
      /\ memory[l] \in {None, t}
  BY <1>1, HeldFacts
<1>3. l \in Keychains /\ l \notin Files /\ journal[l] = Pending(t)
  BY RenewalAssumption DEF RenewalInv, Steps, Records, In, KeychainSteps
<1>4. /\ task' # NoTask /\ task'.login = l /\ task'.token = t
      /\ task'.step = s /\ Current' = Current
  BY <1>2, GoToFacts DEF KeychainSteps
<1>5. Issue' /\ HoldersSpent' /\ Apart'
  BY <1>1, <1>2, <1>4 DEF RenewalInv, Issue, HoldersSpent, Apart, Spent, In, Working
<1>6. Steps'
  BY <1>2, <1>3, <1>4 DEF Steps, In, BeforeAnswer
<1>7. Records'
  BY <1>3, <1>4 DEF RenewalInv, Records, In, BeforeAnswer
<1>8. Edge' /\ Done' /\ RacesNoted'
  BY <1>2, <1>4 DEF RenewalInv, Edge, Done, RacesNoted, Spent, Working, In
<1>9. Ready'
  <2>1. CASE s = "update"
    <3>1. ~Spent(l, successor[l][t]) /\ successor[l][t] \notin used[l]
      BY <1>2, <2>1 DEF RenewalInv, Edge
    <3>2. successor[l][t] # store[l]
      BY <1>2, <2>1, <3>1
    <3> QED BY <1>4, <3>1, <3>2 DEF Ready, Spent
  <2>2. CASE s = "clear"
    BY <1>4, <2>2 DEF Ready, In
  <2> QED BY <2>1, <2>2
<1>10. Barred'
  BY <1>3, <1>4 DEF RenewalInv, Barred, In, Working
<1>11. LoginsAreCarried'
  BY <1>4 DEF RenewalInv, LoginsAreCarried, Carried, InHand, Spent, In
<1> QED BY <1>5, <1>6, <1>7, <1>8, <1>9, <1>10, <1>11 DEF RenewalInv

LEMMA CompareInv ==
  ASSUME RenewalInv, Compare PROVE RenewalInv'
<1>1. /\ task # NoTask /\ In({"compare", "update", "verify"}) /\ TypeOK
      /\ \/ store[task.login] = task.token /\ GoTo("update") /\ raced' = "clear"
         \/ store[task.login] # task.token /\ GoTo("clear") /\ UNCHANGED raced
      /\ UNCHANGED <<disk, endpoint, tool, rejected, memory, journal, access, lost, used, faults>>
  BY DEF Compare, At, In, RenewalInv
<1>2. task' \in Task
  BY <1>1, GoToFacts DEF KeychainSteps
<1>3. TypeOK'
  BY <1>1, <1>2 DEF TypeOK, disk, endpoint
<1>4. UNCHANGED <<store, issued, successor, tool, rejected, memory, journal, used, lost>>
  BY <1>1 DEF disk, endpoint
<1> QED BY <1>1, <1>3, <1>4, GoesOnInv

LEMMA VerifyInv ==
  ASSUME RenewalInv, Verify PROVE RenewalInv'
<1>1. /\ task # NoTask /\ task.step = "verify" /\ TypeOK
      /\ GoTo("clear") \/ task' = NoTask
      /\ UNCHANGED <<disk, endpoint, tool, rejected, memory, journal, access, raced, lost, used,
                     faults>>
  BY DEF Verify, At, RenewalInv
<1>2. GoTo("clear") => task' \in Task
  BY <1>1, GoToFacts DEF KeychainSteps
<1>3. TypeOK'
  BY <1>1, <1>2 DEF TypeOK, disk, endpoint
<1>4. UNCHANGED <<store, issued, successor, tool, rejected, memory, journal, used, lost>>
  BY <1>1 DEF disk, endpoint
<1>5. CASE GoTo("clear")
  <2>1. In({"compare", "update", "verify"}) /\ store[task.login] # task.token
    BY <1>1 DEF In, RenewalInv, Done
  <2> QED BY <1>3, <1>4, <1>5, <2>1, GoesOnInv
<1>6. CASE task' = NoTask
  <2>1. task.login \in Keychains
    BY <1>1 DEF RenewalInv, Steps, In, KeychainSteps
  <2> QED BY <1>1, <1>3, <1>4, <1>6, <2>1, EndedInv
<1> QED BY <1>1, <1>5, <1>6

LEMMA AbandonInv ==
  ASSUME RenewalInv, Abandon PROVE RenewalInv'
<1> DEFINE l == task.login
           t == task.token
<1>1. /\ task # NoTask /\ l \in Keychains /\ TypeOK /\ task' = NoTask
      /\ access' \in {access, "blocked"}
      /\ lost' = IF task.step = "journal" /\ ~Current /\ journal[l] # Pending(t)
                 THEN lost \cup {<<l, t>>} ELSE lost
      /\ UNCHANGED <<disk, endpoint, tool, rejected, memory, journal, raced, used>>
  BY DEF Abandon, RenewalInv, Pending
<1>2. l \in Logins /\ t \in Tokens
  BY <1>1, TaskFacts
<1>3. faults' \in 0..MaxFaults
  BY <1>1, Bounds DEF Abandon, Fault, TypeOK
<1>4. lost \subseteq lost' /\ lost' \subseteq Logins \X Tokens
  BY <1>1, <1>2 DEF TypeOK
<1>5. TypeOK'
  BY <1>1, <1>3, <1>4 DEF TypeOK, disk, endpoint
<1>6. UNCHANGED <<store, issued, successor, tool, rejected, memory, journal, used>>
  BY <1>1 DEF disk, endpoint
<1>7. task.step = "journal" => memory[l] = t \/ journal[l] = Pending(t) \/ <<l, t>> \in lost'
  BY <1>1 DEF RenewalInv, Records, In
<1> QED BY <1>1, <1>4, <1>5, <1>6, <1>7, EndedInv

(* A renewal ends and erases its record.                                   *)
LEMMA ErasedInv ==
  ASSUME RenewalInv, task # NoTask, task.login \in Keychains, task.step # "journal",
         Erase(task.login), task' = NoTask,
         UNCHANGED <<store, lapsed, recent, endpoint, tool, rejected, access, raced, lost, used>>,
         faults' \in 0..MaxFaults,
         memory' = memory \/ memory' = Note(memory, task.login, None),
         store[task.login] \notin used[task.login],
         journal[task.login] # Pending(store[task.login]),
         memory[task.login] # store[task.login]
  PROVE  RenewalInv'
<1> DEFINE l == task.login
<1>1. TypeOK /\ l \in Logins /\ l \notin Files
  BY KeychainFacts
<1>2. /\ memory' \in [Logins -> Tokens \cup {None}]
      /\ \A m \in Logins : memory'[m] = memory[m] \/ memory'[m] = None
      /\ \A m \in Logins : m # l => memory'[m] = memory[m]
  BY <1>1 DEF Note, TypeOK
<1>3. /\ journal' \in [Logins -> Record] /\ journal'[l] = NoRecord
      /\ \A m \in Logins : m # l => journal'[m] = journal[m]
      /\ \A m \in Files : journal'[m] = NoRecord
  BY RecordTypes, RecordedAnew DEF Erase
<1>4. TypeOK'
  BY <1>1, <1>2, <1>3 DEF TypeOK, endpoint
<1>5. UNCHANGED <<issued, successor>>
  BY DEF endpoint
<1>6. Issue' /\ HoldersSpent' /\ Apart' /\ Steps'
  <2>1. Issue' /\ Steps'
    BY <1>5 DEF RenewalInv, Issue, Steps, Spent, In
  <2>2. HoldersSpent' /\ Apart'
    BY <1>2, <1>3, <1>5, RecordTypes, RecordFacts, Bounds DEF RenewalInv, HoldersSpent, Apart, Spent,
       In, Working
  <2> QED BY <2>1, <2>2
<1>7. Records'
  BY <1>1, <1>2, <1>3 DEF RenewalInv, Records, In, Logins
<1>8. Edge' /\ Ready' /\ Done' /\ RacesNoted'
  BY <1>5 DEF RenewalInv, Edge, Ready, Done, RacesNoted, Spent, Working, In
<1>9. Barred'
  <2>1. \A m \in Keychains : store[m] \in used[m] => journal'[m].token = store[m]
    BY <1>3 DEF RenewalInv, Barred, Logins
  <2>2. \A m \in Files : store[m] \in used[m] => rejected[m] = store[m] \/ memory'[m] = store[m]
    BY <1>1, <1>2 DEF RenewalInv, Barred, Working, Logins
  <2> QED BY <2>1, <2>2 DEF Barred, In
<1>10. task.step \notin {"write", "replace"}
  BY <1>1 DEF RenewalInv, Steps, In
<1>11. LoginsAreCarried'
  BY <1>2, <1>3, <1>5, <1>10 DEF RenewalInv, LoginsAreCarried, Carried, InHand, Spent, Pending
<1> QED BY <1>4, <1>6, <1>7, <1>8, <1>9, <1>11 DEF RenewalInv

(* What the steps before the answer start from.                            *)
LEMMA BeforeFacts ==
  ASSUME RenewalInv, task # NoTask, task.step \in BeforeAnswer, task.login \in Keychains
  PROVE  /\ TypeOK /\ task.login \in Logins /\ task.token \in Tokens
         /\ store[task.login] # None /\ memory[task.login] = None
         /\ journal[task.login] = Intent(task.token)
<1>1. TypeOK /\ task.login \in Logins /\ task.token \in Tokens /\ store[task.login] # None
  BY KeychainFacts, TaskFacts
<1> QED BY <1>1 DEF RenewalInv, Steps, Records, In

LEMMA RecheckInv ==
  ASSUME RenewalInv, Recheck PROVE RenewalInv'
<1> DEFINE l == task.login
           t == task.token
<1>1. /\ task # NoTask /\ task.step = "recheck"
      /\ UNCHANGED <<disk, endpoint, tool, rejected, memory, access, raced, lost, used>>
  BY DEF Recheck, At
<1>2. l \in Keychains /\ task.step \in BeforeAnswer
  BY <1>1 DEF RenewalInv, Steps, In, BeforeAnswer, KeychainSteps
<1>3. /\ TypeOK /\ l \in Logins /\ t \in Tokens /\ store[l] # None /\ memory[l] = None
      /\ journal[l] = Intent(t)
  BY <1>1, <1>2, BeforeFacts
<1>4. UNCHANGED <<store, issued, successor, tool, rejected, memory, raced, lost, used>>
  BY <1>1 DEF disk, endpoint
<1>5. CASE GoTo("ask") /\ UNCHANGED <<journal, faults>>
  <2>1. /\ task' \in Task /\ task' # NoTask /\ task'.login = l /\ task'.token = t
        /\ task'.step = "ask" /\ Current' = Current
    BY <1>1, <1>3, <1>5, GoToFacts DEF FileSteps
  <2>2. TypeOK'
    BY <1>1, <1>3, <1>5, <2>1 DEF TypeOK, disk, endpoint
  <2>3. Issue' /\ HoldersSpent' /\ Apart' /\ Steps'
    <3>1. Issue'
      BY <1>1, <1>3, <1>4, <2>1 DEF RenewalInv, Issue, Spent
    <3>2. HoldersSpent' /\ Apart'
      BY <1>4, <1>5, <2>1 DEF RenewalInv, HoldersSpent, Apart, Spent, In, Working, AfterAnswer
    <3>3. Steps'
      BY <1>3, <1>4, <2>1 DEF Steps, In, AfterAnswer
    <3> QED BY <3>1, <3>2, <3>3
  <2>4. Records'
    BY <1>2, <1>3, <1>4, <1>5, <2>1 DEF RenewalInv, Records, In
  <2>5. Edge' /\ Ready' /\ Done' /\ RacesNoted'
    BY <1>1, <1>4, <2>1 DEF RenewalInv, Edge, Ready, Done, RacesNoted, Spent, Working, In
  <2>6. Barred'
    BY <1>1, <1>4, <1>5, <2>1 DEF RenewalInv, Barred, Working, In
  <2>7. LoginsAreCarried'
    BY <1>1, <1>4, <1>5, <2>1 DEF RenewalInv, LoginsAreCarried, Carried, InHand, Spent
  <2> QED BY <2>2, <2>3, <2>4, <2>5, <2>6, <2>7 DEF RenewalInv
<1>6. CASE Erase(l) /\ task' = NoTask
  <2>1. store[l] \notin used[l]
    <3>1. t \notin used[l]
      BY <1>1 DEF RenewalInv, Barred, In
    <3>2. store[l] \in used[l] => t = store[l]
      BY <1>2, <1>3, RecordFacts DEF RenewalInv, Barred
    <3> QED BY <3>1, <3>2
  <2>2. journal[l] # Pending(store[l]) /\ memory[l] # store[l]
    BY <1>3, RecordFacts
  <2>3. faults' \in 0..MaxFaults
    BY <1>3, Bounds DEF Recheck, Fault, TypeOK
  <2>4. UNCHANGED <<store, lapsed, recent, endpoint, tool, rejected, access, raced, lost, used>>
    BY <1>1 DEF disk
  <2> QED BY <1>1, <1>2, <1>4, <1>6, <2>1, <2>2, <2>3, <2>4, ErasedInv
<1> QED BY <1>5, <1>6 DEF Recheck

LEMMA ClearInv ==
  ASSUME RenewalInv, Clear \/ ClearFails PROVE RenewalInv'
<1> DEFINE l == task.login
           t == task.token
<1>1. /\ task # NoTask /\ task.step = "clear" /\ Erase(l) /\ task' = NoTask
      /\ memory' = memory \/ memory' = Note(memory, l, None)
      /\ UNCHANGED <<disk, endpoint, tool, rejected, access, raced, lost, used>>
  BY DEF Clear, ClearFails, At
<1>2. In(AfterAnswer)
  BY <1>1 DEF In, AfterAnswer
<1>3. TypeOK /\ memory[l] \in {None, t} /\ store[l] \in Tokens
  BY <1>2, HeldFacts
<1>4. l \in Keychains /\ journal[l] = Pending(t) /\ store[l] # t /\ store[l] # None
  BY <1>1, <1>3, Bounds DEF RenewalInv, Steps, Records, Done, In, KeychainSteps
<1>5. store[l] \notin used[l]
  BY <1>4, RecordFacts DEF RenewalInv, Barred
<1>6. journal[l] # Pending(store[l]) /\ memory[l] # store[l]
  BY <1>3, <1>4, RecordFacts
<1>7. faults' \in 0..MaxFaults
  BY <1>3, Bounds DEF Clear, ClearFails, Fault, TypeOK
<1>8. UNCHANGED <<store, lapsed, recent, endpoint, tool, rejected, access, raced, lost, used>>
  BY <1>1 DEF disk
<1> QED BY <1>1, <1>4, <1>5, <1>6, <1>7, <1>8, ErasedInv

LEMMA SaveRefusalInv ==
  ASSUME RenewalInv, SaveRefusal PROVE RenewalInv'
<1> DEFINE l == task.login
           t == task.token
           r == [phase |-> "rejected", token |-> t]
<1>1. /\ task # NoTask /\ task.step = "refused" /\ task' = NoTask
      /\ journal' = [journal EXCEPT ![l] = r]
      /\ UNCHANGED <<disk, endpoint, tool, rejected, memory, access, raced, lost, used, faults>>
  BY DEF SaveRefusal, At, Write
<1>2. l \in Keychains /\ task.step \in BeforeAnswer
  BY <1>1 DEF RenewalInv, Steps, In, BeforeAnswer, KeychainSteps
<1>3. /\ TypeOK /\ l \in Logins /\ t \in Tokens /\ memory[l] = None /\ journal[l] = Intent(t)
  BY <1>1, <1>2, BeforeFacts
<1>4. /\ journal' \in [Logins -> Record] /\ journal'[l] = r
      /\ \A m \in Logins : m # l => journal'[m] = journal[m]
      /\ \A m \in Files : journal'[m] = NoRecord
  <2>1. r \in Record
    BY <1>3, RecordTypes
  <2> HIDE DEF r
  <2> QED BY <1>1, <1>2, <2>1, RecordedAnew
<1>5. r.phase = "rejected" /\ r.token = t /\ \A u : r # Pending(u)
  BY DEF Pending
<1>6. UNCHANGED <<store, issued, successor, tool, rejected, memory, raced, lost, used>>
  BY <1>1 DEF disk, endpoint
<1>7. TypeOK'
  BY <1>1, <1>3, <1>4 DEF TypeOK, disk, endpoint
<1> HIDE DEF r
<1>8. Issue' /\ HoldersSpent' /\ Apart' /\ Steps'
  BY <1>1, <1>4, <1>5, <1>6 DEF RenewalInv, Issue, HoldersSpent, Apart, Steps, Spent, In, Working
<1>9. Records'
  BY <1>1, <1>3, <1>4, <1>6 DEF RenewalInv, Records, In, Logins
<1>10. Edge' /\ Ready' /\ Done' /\ RacesNoted'
  BY <1>1, <1>6 DEF RenewalInv, Edge, Ready, Done, RacesNoted, Spent, Working, In
<1>11. Barred'
  <2>1. \A m \in Keychains : store[m] \in used[m] => journal'[m].token = store[m]
    BY <1>3, <1>4, <1>5, RecordFacts DEF RenewalInv, Barred, Logins
  <2>2. \A m \in Files : store[m] \in used[m] => rejected[m] = store[m] \/ memory[m] = store[m]
    BY <1>1 DEF RenewalInv, Barred, In
  <2> QED BY <1>1, <1>6, <2>1, <2>2 DEF Barred, In
<1>12. LoginsAreCarried'
  <2>1. \A u : journal[l] # Pending(u)
    BY <1>3, RecordFacts
  <2> QED BY <1>1, <1>4, <1>6, <2>1 DEF RenewalInv, LoginsAreCarried, Carried, InHand, Spent, Pending
<1> QED BY <1>7, <1>8, <1>9, <1>10, <1>11, <1>12 DEF RenewalInv

LEMMA SaveAnswerInv ==
  ASSUME RenewalInv, SaveAnswer PROVE RenewalInv'
<1> DEFINE l == task.login
           t == task.token
<1>1. /\ task # NoTask /\ task.step = "journal" /\ GoTo("compare")
      /\ journal' = [journal EXCEPT ![l] = Pending(t)]
      /\ UNCHANGED <<disk, endpoint, tool, rejected, memory, access, raced, lost, used, faults>>
  BY DEF SaveAnswer, At, Write, Pending
<1>2. In(AfterAnswer)
  BY <1>1 DEF In, AfterAnswer
<1>3. /\ TypeOK /\ l \in Logins /\ t \in Tokens /\ Spent(l, t) /\ memory[l] \in {None, t}
      /\ store[l] \in Tokens
  BY <1>2, HeldFacts
<1>4. l \in Keychains /\ journal[l] \in {NoRecord, Intent(t), Pending(t)}
  BY <1>1 DEF RenewalInv, Steps, Records, In, KeychainSteps
<1>5. /\ journal' \in [Logins -> Record] /\ journal'[l] = Pending(t)
      /\ \A m \in Logins : m # l => journal'[m] = journal[m]
      /\ \A m \in Files : journal'[m] = NoRecord
  BY <1>1, <1>3, <1>4, RecordTypes, RecordedAnew
<1>6. /\ task' \in Task /\ task' # NoTask /\ task'.login = l /\ task'.token = t
      /\ task'.step = "compare" /\ Current' = Current
  BY <1>1, <1>3, GoToFacts DEF KeychainSteps
<1>7. UNCHANGED <<store, issued, successor, tool, rejected, memory, raced, lost, used>>
  BY <1>1 DEF disk, endpoint
<1>8. TypeOK'
  BY <1>1, <1>3, <1>5, <1>6 DEF TypeOK, disk, endpoint
<1>9. Issue' /\ Steps'
  <2>1. Issue'
    BY <1>1, <1>3, <1>6, <1>7 DEF RenewalInv, Issue, Spent
  <2>2. Steps'
    BY <1>3, <1>4, <1>6, <1>7 DEF Steps, In, BeforeAnswer
  <2> QED BY <2>1, <2>2
<1>10. HoldersSpent'
  BY <1>3, <1>5, <1>6, <1>7, RecordFacts DEF RenewalInv, HoldersSpent, Spent, In
<1>11. Apart'
  <2>1. tool[l] # None => t # tool[l]
    BY <1>2, <1>3, <1>1 DEF RenewalInv, Apart, Working
  <2> QED BY <1>5, <1>6, <1>7, <2>1, RecordFacts DEF RenewalInv, Apart, Working
<1>12. Records'
  BY <1>3, <1>4, <1>5, <1>6, <1>7 DEF RenewalInv, Records, In, BeforeAnswer, Logins
<1>13. Edge' /\ Ready' /\ Done' /\ RacesNoted'
  BY <1>1, <1>6, <1>7 DEF RenewalInv, Edge, Ready, Done, RacesNoted, Spent, Working, In
<1>14. Barred'
  <2>1. store[l] # None
    BY <1>3, Bounds
  <2>2. \A m \in Keychains : store[m] \in used[m] => journal'[m].token = store[m]
    BY <1>4, <1>5, <2>1, RecordTypes, RecordFacts DEF RenewalInv, Barred, Logins
  <2>3. \A m \in Files : store[m] \in used[m] => rejected[m] = store[m] \/ memory[m] = store[m]
    BY <1>1 DEF RenewalInv, Barred, In
  <2> QED BY <1>6, <1>7, <2>2, <2>3 DEF Barred, In
<1>15. LoginsAreCarried'
  <2>1. \A u : journal[l] = Pending(u) => u = t
    BY <1>4, RecordFacts
  <2> QED BY <1>1, <1>5, <1>7, <2>1 DEF RenewalInv, LoginsAreCarried, Carried, InHand, Spent, Pending
<1> QED BY <1>8, <1>9, <1>10, <1>11, <1>12, <1>13, <1>14, <1>15 DEF RenewalInv

LEMMA UpdateInv ==
  ASSUME RenewalInv, Update PROVE RenewalInv'
<1> DEFINE l == task.login
           t == task.token
<1>1. /\ task # NoTask /\ task.step = "update" /\ GoTo("verify")
      /\ UNCHANGED <<endpoint, tool, rejected, memory, journal, access, raced, lost, used, faults>>
  BY DEF Update, At
<1>2. In(AfterAnswer) /\ In({"replace", "update"})
  BY <1>1 DEF In, AfterAnswer
<1>3. TypeOK /\ l \in Logins /\ t \in Tokens /\ Spent(l, t) /\ memory[l] \in {None, t}
  BY <1>2, HeldFacts
<1>4. l \in Keychains /\ l \notin Files /\ journal[l] = Pending(t)
  BY <1>1, RenewalAssumption DEF RenewalInv, Steps, Records, In, KeychainSteps
<1>5. /\ store' \in [Logins -> Tokens] /\ lapsed' \subseteq Logins /\ recent' \subseteq Files
      /\ \A m \in Logins : m # l => store'[m] = store[m]
      /\ store'[l] <= issued /\ store'[l] # t /\ ~Spent(l, store'[l]) /\ store'[l] \notin used[l]
  BY <1>2, WrittenFacts DEF Update
<1>6. /\ task' \in Task /\ task' # NoTask /\ task'.login = l /\ task'.token = t
      /\ task'.step = "verify" /\ Current' = Current
  BY <1>1, <1>3, GoToFacts DEF KeychainSteps
<1>7. UNCHANGED <<issued, successor, tool, rejected, memory, journal, lost, used>>
  BY <1>1 DEF endpoint
<1>8. TypeOK'
  BY <1>1, <1>3, <1>5, <1>6 DEF TypeOK, endpoint
<1>9. Issue' /\ Steps'
  <2>1. Issue'
    BY <1>1, <1>3, <1>5, <1>6, <1>7 DEF RenewalInv, Issue, Spent
  <2>2. Steps'
    BY <1>3, <1>4, <1>6, <1>7 DEF Steps, In, BeforeAnswer
  <2> QED BY <2>1, <2>2
<1>10. HoldersSpent' /\ Apart' /\ Records'
  BY <1>2, <1>3, <1>4, <1>6, <1>7 DEF RenewalInv, HoldersSpent, Apart, Records, Spent, In, Working,
     BeforeAnswer
<1>11. Edge' /\ Ready' /\ Done' /\ RacesNoted'
  BY <1>5, <1>6, <1>7 DEF RenewalInv, Edge, Ready, Done, RacesNoted, Spent, Working, In
<1>12. Barred'
  <2>1. \A m \in Keychains : store'[m] \in used[m] => journal[m].token = store'[m]
    BY <1>5 DEF RenewalInv, Barred, Logins
  <2>2. \A m \in Files : store'[m] \in used[m] => rejected[m] = store'[m] \/ memory[m] = store'[m]
    BY <1>1, <1>4, <1>5 DEF RenewalInv, Barred, In, Logins
  <2> QED BY <1>6, <1>7, <2>1, <2>2 DEF Barred, In
<1>13. LoginsAreCarried'
  BY <1>1, <1>5, <1>7 DEF RenewalInv, LoginsAreCarried, Carried, InHand, Spent
<1> QED BY <1>8, <1>9, <1>10, <1>11, <1>12, <1>13 DEF RenewalInv

-----------------------------------------------------------------------------
(* A renewer that begins anew.                                             *)

LEMMA ForgottenFacts ==
  ASSUME TypeOK
  PROVE  /\ NoNotes \in [Logins -> Tokens \cup {None}] /\ \A l \in Logins : NoNotes[l] = None
         /\ Remembered \in [Logins -> SUBSET Tokens]
         /\ \A l \in Logins : Remembered[l] \subseteq used[l]
         /\ \A l \in Files : Remembered[l] = {}
         /\ Unsaved \subseteq Logins \X Tokens /\ InHand \subseteq Logins \X Tokens
<1>1. NoNotes \in [Logins -> Tokens \cup {None}] /\ \A l \in Logins : NoNotes[l] = None
  BY DEF NoNotes
<1>2. /\ Remembered \in [Logins -> SUBSET Tokens]
      /\ \A l \in Logins : Remembered[l] \subseteq used[l]
      /\ \A l \in Files : Remembered[l] = {}
  BY DEF TypeOK, Remembered, Logins
<1>3. Unsaved \subseteq Logins \X Tokens
  <2>1. \A l \in Logins : memory[l] \in Tokens \cup {None}
    BY DEF TypeOK
  <2>2. SUFFICES ASSUME NEW u \in Unsaved
                 PROVE  u \in Logins \X Tokens
    OBVIOUS
  <2>3. PICK l \in Logins : u = <<l, memory[l]>> /\ memory[l] # None
    BY <2>2, Zenon DEF Unsaved
  <2>4. memory[l] \in Tokens
    BY <2>1, <2>3
  <2> QED BY <2>3, <2>4
<1>4. InHand \subseteq Logins \X Tokens
  BY TaskFacts DEF InHand
<1> QED BY <1>1, <1>2, <1>3, <1>4

(* What a new beginning costs the files and the Keychain.                  *)
LEMMA ForgottenInv ==
  ASSUME RenewalInv, memory' = NoNotes, rejected' = NoNotes, used' = Remembered,
         UNCHANGED <<store, issued, successor, tool, journal>>
  PROVE  /\ \A l \in Logins : store'[l] <= issued' /\ \A t \in used'[l] : t <= issued'
         /\ \A l \in Logins : memory'[l] = None
         /\ \A l \in Keychains : store'[l] \in used'[l] => journal'[l].token = store'[l]
         /\ \A l \in Files : store'[l] \notin used'[l]
         /\ \A l \in Logins : Spent(l, store[l]) =>
               ~Spent(l, successor[l][store[l]]) /\ successor[l][store[l]] \notin used'[l]
<1>1. TypeOK
  BY DEF RenewalInv
<1>2. /\ \A l \in Logins : NoNotes[l] = None
      /\ \A l \in Logins : Remembered[l] \subseteq used[l]
      /\ \A l \in Files : Remembered[l] = {}
  BY <1>1, ForgottenFacts
<1> QED BY <1>2 DEF RenewalInv, Issue, Barred, Edge, Logins

LEMMA RestartInv ==
  ASSUME RenewalInv, Restart PROVE RenewalInv'
<1>1. /\ TypeOK /\ task' = NoTask /\ lost' = lost \cup Unsaved \cup InHand /\ access' = "open"
      /\ memory' = NoNotes /\ rejected' = NoNotes /\ used' = Remembered
      /\ UNCHANGED <<disk, endpoint, tool, journal, raced>>
  BY DEF Restart, RenewalInv
<1>2. UNCHANGED <<store, issued, successor, tool, journal>>
  BY <1>1 DEF disk, endpoint
<1>3. faults' \in 0..MaxFaults
  BY <1>1, Bounds DEF Restart, Fault, TypeOK
<1>4. /\ memory' \in [Logins -> Tokens \cup {None}] /\ rejected' \in [Logins -> Tokens \cup {None}]
      /\ used' \in [Logins -> SUBSET Tokens] /\ lost' \subseteq Logins \X Tokens
  <2>1. lost \subseteq Logins \X Tokens
    BY <1>1 DEF TypeOK
  <2> QED BY <1>1, <2>1, ForgottenFacts
<1>5. TypeOK'
  BY <1>1, <1>3, <1>4 DEF TypeOK, disk, endpoint
<1>6. /\ \A l \in Logins : store'[l] <= issued' /\ \A t \in used'[l] : t <= issued'
      /\ \A l \in Logins : memory'[l] = None
      /\ \A l \in Keychains : store'[l] \in used'[l] => journal'[l].token = store'[l]
      /\ \A l \in Files : store'[l] \notin used'[l]
      /\ \A l \in Logins : Spent(l, store[l]) =>
            ~Spent(l, successor[l][store[l]]) /\ successor[l][store[l]] \notin used'[l]
  BY <1>1, <1>2, ForgottenInv
<1>7. Issue' /\ HoldersSpent' /\ Apart' /\ Steps' /\ Records'
  <2>1. Issue' /\ Steps'
    BY <1>1, <1>2, <1>6 DEF RenewalInv, Issue, Steps, Spent, In
  <2>2. HoldersSpent'
    BY <1>1, <1>2, <1>6 DEF RenewalInv, HoldersSpent, Spent, In
  <2>3. Apart'
    BY <1>1, <1>2, <1>6 DEF RenewalInv, Apart, Working
  <2>4. Records'
    BY <1>1, <1>2, <1>6 DEF RenewalInv, Records, In, Logins
  <2> QED BY <2>1, <2>2, <2>3, <2>4
<1>8. Edge' /\ Ready' /\ Done' /\ RacesNoted' /\ Barred'
  BY <1>1, <1>2, <1>6 DEF Edge, Ready, Done, RacesNoted, Barred, Spent, Working, In
<1>9. LoginsAreCarried'
  <2> SUFFICES ASSUME NEW l \in Logins, Spent(l, store[l])
               PROVE  Carried(l, store[l])' \/ <<l, store[l]>> \in lost'
    BY <1>2 DEF LoginsAreCarried, Spent
  <2>1. Carried(l, store[l]) \/ <<l, store[l]>> \in lost
    BY DEF RenewalInv, LoginsAreCarried, Spent
  <2>2. CASE memory[l] = store[l]
    <3>1. store[l] # None
      BY <1>1, Bounds DEF TypeOK
    <3>2. journal[l] = Pending(store[l]) \/ <<l, store[l]>> \in Unsaved
      BY <2>2, <3>1 DEF Unsaved, Pending
    <3> QED BY <1>1, <1>2, <3>2 DEF Carried, Pending
  <2>3. CASE task # NoTask /\ task.login = l /\ task.token = store[l] /\ task.step \in {"write", "replace"}
    <3>1. journal[l] = NoRecord
      BY <2>3 DEF RenewalInv, Steps, Records, In
    <3>2. <<l, store[l]>> \in InHand
      BY <2>3, <3>1, RecordFacts DEF InHand, Pending
    <3> QED BY <1>1, <3>2
  <2>4. CASE tool[l] = store[l] \/ journal[l] = Pending(store[l])
    BY <1>2, <2>4 DEF Carried, Pending
  <2>5. CASE <<l, store[l]>> \in InHand \/ <<l, store[l]>> \in lost
    BY <1>1, <2>5
  <2> QED BY <2>1, <2>2, <2>3, <2>4, <2>5 DEF Carried, Pending
<1> QED BY <1>5, <1>7, <1>8, <1>9 DEF RenewalInv

LEMMA SwitchInv ==
  ASSUME RenewalInv, SwitchOffAndOn PROVE RenewalInv'
<1>1. /\ TypeOK /\ lost' = lost \cup (Unsaved \ InHand)
      /\ task' = IF task = NoTask THEN NoTask ELSE [task EXCEPT !.owner = "old"]
      /\ memory' = NoNotes /\ rejected' = NoNotes /\ used' = Remembered
      /\ UNCHANGED <<disk, endpoint, tool, journal, access, raced>>
  BY DEF SwitchOffAndOn, RenewalInv
<1>2. UNCHANGED <<store, issued, successor, tool, journal>>
  BY <1>1 DEF disk, endpoint
<1>3. faults' \in 0..MaxFaults
  BY <1>1, Bounds DEF SwitchOffAndOn, Fault, TypeOK
<1>4. /\ memory' \in [Logins -> Tokens \cup {None}] /\ rejected' \in [Logins -> Tokens \cup {None}]
      /\ used' \in [Logins -> SUBSET Tokens] /\ lost' \subseteq Logins \X Tokens
  <2>1. lost \subseteq Logins \X Tokens
    BY <1>1 DEF TypeOK
  <2> QED BY <1>1, <2>1, ForgottenFacts
<1>5. task = NoTask => task' = NoTask
  BY <1>1
<1>6. task # NoTask =>
        /\ task' \in Task /\ task' # NoTask /\ task'.login = task.login
        /\ task'.token = task.token /\ task'.step = task.step /\ ~Current'
        /\ task.login \in Logins
  <2> SUFFICES ASSUME task # NoTask
               PROVE  /\ task' \in Task /\ task' # NoTask /\ task'.login = task.login
                      /\ task'.token = task.token /\ task'.step = task.step /\ ~Current'
                      /\ task.login \in Logins
    OBVIOUS
  <2>1. task \in Task /\ task.login \in Logins
    BY <1>1, TaskFacts
  <2>2. task' = [task EXCEPT !.owner = "old"]
    BY <1>1
  <2>3. task' \in Task
    BY <2>1, <2>2 DEF Task
  <2> QED BY <2>1, <2>2, <2>3, NoTaskAssumption DEF Task, Current
<1>7. TypeOK'
  BY <1>1, <1>3, <1>4, <1>5, <1>6 DEF TypeOK, disk, endpoint
<1>8. /\ \A l \in Logins : store'[l] <= issued' /\ \A t \in used'[l] : t <= issued'
      /\ \A l \in Logins : memory'[l] = None
      /\ \A l \in Keychains : store'[l] \in used'[l] => journal'[l].token = store'[l]
      /\ \A l \in Files : store'[l] \notin used'[l]
      /\ \A l \in Logins : Spent(l, store[l]) =>
            ~Spent(l, successor[l][store[l]]) /\ successor[l][store[l]] \notin used'[l]
  BY <1>1, <1>2, ForgottenInv
<1>9. Issue' /\ HoldersSpent' /\ Apart' /\ Steps' /\ Records'
  <2>1. Issue'
    BY <1>2, <1>5, <1>6, <1>8 DEF RenewalInv, Issue, Spent
  <2>2. Steps'
    BY <1>5, <1>6, <1>8 DEF RenewalInv, Steps, In
  <2>3. HoldersSpent'
    BY <1>2, <1>5, <1>6, <1>8 DEF RenewalInv, HoldersSpent, Spent, In
  <2>4. Apart'
    BY <1>2, <1>5, <1>6, <1>8, Bounds DEF RenewalInv, Apart, Working, In
  <2>5. \A l \in Keychains : memory'[l] = None
    BY <1>8 DEF Logins
  <2>6. Records'
    BY <1>2, <1>5, <1>6, <2>5 DEF RenewalInv, Records, In
  <2> QED BY <2>1, <2>2, <2>3, <2>4, <2>6
<1>10. Edge'
  BY <1>2, <1>5, <1>6, <1>8 DEF RenewalInv, Edge, Spent, Working
<1>11. \A l \in Logins : used'[l] \subseteq used[l]
  BY <1>1, ForgottenFacts
<1>12. Ready' /\ Done' /\ RacesNoted'
  BY <1>1, <1>2, <1>5, <1>6, <1>11 DEF RenewalInv, Ready, Done, RacesNoted, Spent, In
<1>13. Barred'
  <2>1. In({"recheck", "ask"})' => task'.token \notin used'[task'.login]
    BY <1>5, <1>6, <1>11 DEF RenewalInv, Barred, In
  <2> QED BY <1>8, <2>1 DEF Barred
<1>14. LoginsAreCarried'
  <2> SUFFICES ASSUME NEW l \in Logins, Spent(l, store[l])
               PROVE  Carried(l, store[l])' \/ <<l, store[l]>> \in lost'
    BY <1>2 DEF LoginsAreCarried, Spent
  <2>1. Carried(l, store[l]) \/ <<l, store[l]>> \in lost
    BY DEF RenewalInv, LoginsAreCarried, Spent
  <2>2. InHand' = InHand
    BY <1>2, <1>5, <1>6 DEF InHand
  <2>3. CASE memory[l] = store[l]
    <3>1. store[l] # None
      BY <1>1, Bounds DEF TypeOK
    <3>2. journal[l] = Pending(store[l]) \/ <<l, store[l]>> \in Unsaved
      BY <2>3, <3>1 DEF Unsaved, Pending
    <3> QED BY <1>1, <1>2, <2>2, <3>2 DEF Carried, Pending
  <2>4. CASE task # NoTask /\ task.login = l /\ task.token = store[l] /\ task.step \in {"write", "replace"}
    BY <1>2, <1>6, <2>4 DEF Carried
  <2>5. CASE tool[l] = store[l] \/ journal[l] = Pending(store[l])
    BY <1>2, <2>5 DEF Carried, Pending
  <2>6. CASE <<l, store[l]>> \in InHand \/ <<l, store[l]>> \in lost
    BY <1>1, <1>2, <2>2, <2>6 DEF Carried
  <2> QED BY <2>1, <2>3, <2>4, <2>5, <2>6 DEF Carried, Pending
<1> QED BY <1>7, <1>9, <1>10, <1>12, <1>13, <1>14 DEF RenewalInv

-----------------------------------------------------------------------------
(* The theorems.                                                           *)

LEMMA NextInv == RenewalInv /\ [Next]_vars => RenewalInv'
<1> SUFFICES ASSUME RenewalInv, [Next]_vars PROVE RenewalInv'
  OBVIOUS
<1>1. CASE UNCHANGED vars
  <2>1. TypeOK'
    BY <1>1 DEF vars, disk, endpoint, renewer, RenewalInv, TypeOK
  <2> QED BY <1>1, <2>1, CoreKept DEF vars, disk, endpoint, renewer, core
<1>2. ASSUME NEW l \in Logins, Outside(l) PROVE RenewalInv'
  BY <1>2, PassingInv, LogInInv, ToolExchangesInv, ToolWritesInv, ToolDiesInv DEF Outside
<1>3. CASE Exchange
  BY <1>3, AnsweredInv, AnswerLostInv, UnreachedInv, RefusedInv DEF Exchange
<1>4. CASE FileStep
  BY <1>4, RenewFileInv, WriteBackInv, ReplaceInv, SaveFailsInv DEF FileStep
<1>5. CASE KeychainStep
  <2>1. ASSUME NEW l \in Keychains, Recover(l) \/ Supersede(l) \/ Intend(l) PROVE RenewalInv'
    BY <2>1, RecoverInv, SupersedeInv, IntendInv
  <2> QED BY <1>5, <2>1, RecheckInv, SaveRefusalInv, SaveAnswerInv, CompareInv, UpdateInv,
             VerifyInv, ClearInv, AbandonInv DEF KeychainStep
<1>6. CASE Restart \/ SwitchOffAndOn
  BY <1>6, RestartInv, SwitchInv
<1> QED BY <1>1, <1>2, <1>3, <1>4, <1>5, <1>6 DEF Next

(* Every state a renewal can reach, after any faults, satisfies the         *)
(* invariant the theorems below rest on.                                   *)
THEOREM Invariance == Spec => []RenewalInv
<1> QED BY InitInv, NextInv, PTL DEF Spec

(* Stores, chains of tokens, records and renewals keep their types.        *)
THEOREM RenewalTypes == Spec => []TypeOK
<1>1. RenewalInv => TypeOK
  BY DEF RenewalInv
<1> QED BY <1>1, Invariance, PTL

(* The answer to a token that is still in a store is in somebody's hands,  *)
(* unless it was lost on the way or with a process.                        *)
THEOREM AnswersAreCarried == Spec => []LoginsAreCarried
<1>1. RenewalInv => LoginsAreCarried
  BY DEF RenewalInv
<1> QED BY <1>1, Invariance, PTL

(* A token is not sent again without a reason, however often a renewal was *)
(* cut short.                                                              *)
THEOREM TokensAreSpentOnce == Spec => NothingSpentTwice
<1> DEFINE Once == \A l \in Logins, t \in Tokens :
                     Exchange /\ task.login = l /\ task.token = t => t \notin used[l]
<1>1. RenewalInv /\ [Next]_vars => [Once]_vars
  <2> SUFFICES ASSUME RenewalInv, Exchange PROVE Once
    OBVIOUS
  <2>1. At("ask")
    BY DEF Exchange, Answered, AnswerLost, Unreached, Refused
  <2> QED BY <2>1, AskFacts
<1> QED BY <1>1, Invariance, PTL DEF Spec, NothingSpentTwice

(* A store moves to a token nobody has exchanged yet.                      *)
THEOREM StoresGoForward == Spec => NeverGoesBack
<1> DEFINE Forward == \A l \in Logins :
                        store'[l] # store[l] => successor'[l][store'[l]] = None
<1>1. RenewalInv /\ [Next]_vars => [Forward]_vars
  <2> SUFFICES ASSUME RenewalInv, Next PROVE Forward
    OBVIOUS
  <2>1. TypeOK /\ store \in [Logins -> Tokens]
    BY DEF RenewalInv, TypeOK
  <2>2. ASSUME NEW l \in Logins, LogIn(l) PROVE Forward
    <3>1. /\ CanIssue /\ store' = [store EXCEPT ![l] = issued + 1] /\ UNCHANGED successor
      BY <2>2 DEF LogIn, Saved
    <3> QED BY <2>1, <3>1, NextToken DEF Spent
  <2>3. ASSUME NEW l \in Logins, ToolWrites(l) PROVE Forward
    <3>1. UNCHANGED successor
      BY <2>3 DEF ToolWrites, endpoint
    <3>2. CASE store[l] = tool[l]
      <4>1. store' = [store EXCEPT ![l] = successor[l][store[l]]] /\ Spent(l, store[l])
        BY <2>3, <3>2 DEF ToolWrites, Saved, RenewalInv, HoldersSpent
      <4> QED BY <2>1, <3>1, <4>1 DEF RenewalInv, Edge, Spent
    <3>3. CASE store[l] # tool[l]
      BY <2>3, <3>3 DEF ToolWrites, disk
    <3> QED BY <3>2, <3>3
  <2>4. CASE Replace \/ Update
    <3>1. /\ In({"replace", "update"}) /\ UNCHANGED successor
          /\ Saved(task.login, successor[task.login][task.token])
      BY <2>4 DEF Replace, Update, At, In, endpoint
    <3> QED BY <3>1, WrittenFacts DEF Spent
  <2>5. \/ \E l \in Logins : LogIn(l) \/ ToolWrites(l)
        \/ Replace \/ Update
        \/ UNCHANGED store
    <3>1. ASSUME NEW l \in Logins, Outside(l) PROVE LogIn(l) \/ ToolWrites(l) \/ UNCHANGED store
      BY <3>1 DEF Outside, Revoke, Lapse, Age, ToolExchanges, ToolDies, disk
    <3>2. CASE Exchange
      BY <3>2 DEF Exchange, Answered, AnswerLost, Unreached, Refused, disk
    <3>3. CASE FileStep
      BY <3>3 DEF FileStep, RenewFile, WriteBack, SaveFails, disk
    <3>4. CASE KeychainStep
      BY <3>4 DEF KeychainStep, Recover, Supersede, Intend, Recheck, SaveRefusal, SaveAnswer,
         Compare, Verify, Clear, ClearFails, Abandon, disk
    <3>5. CASE Restart \/ SwitchOffAndOn
      BY <3>5 DEF Restart, SwitchOffAndOn, disk
    <3> QED BY <3>1, <3>2, <3>3, <3>4, <3>5 DEF Next
  <2> QED BY <2>2, <2>3, <2>4, <2>5
<1> QED BY <1>1, Invariance, PTL DEF Spec, NeverGoesBack

(* Only what changed after the last comparison is ever overwritten.        *)
THEOREM OthersAreKept == Spec => OthersLoginsStand
<1> DEFINE Stands ==
      \A l \in Logins :
        (Replace \/ Update) /\ store'[l] # store[l] => store[l] = task.token \/ raced = "raced"
<1>1. RenewalInv /\ [Next]_vars => [Stands]_vars
  <2> SUFFICES ASSUME RenewalInv, Replace \/ Update, NEW l \in Logins, store'[l] # store[l]
               PROVE  store[l] = task.token \/ raced = "raced"
    OBVIOUS
  <2>1. /\ In({"replace", "update"})
        /\ Saved(task.login, successor[task.login][task.token])
    BY DEF Replace, Update, At, In
  <2>2. l = task.login
    BY <2>1, WrittenFacts
  <2> QED BY <2>1, <2>2 DEF RenewalInv, RacesNoted
<1> QED BY <1>1, Invariance, PTL DEF Spec, OthersLoginsStand
=============================================================================
