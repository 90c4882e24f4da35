------------------------- MODULE LatestCardsProofs -------------------------
(***************************************************************************)
(* Proofs about LatestCards for every set of sidecars and slots, and every *)
(* length of the windows.                                                  *)
(***************************************************************************)
EXTENDS LatestCards, TLAPS, SequenceTheorems, WellFoundedInduction

(* A slot that sources report and that shows no card was pruned: what they *)
(* report, merged, is of a window that is over.                            *)
HiddenIsOver ==
    \A s \in Slots :
        /\ rows[s].kind # "card" /\ reported[s] # <<>>
        /\ \A t \in Slots : ~Clashing(s, t)
        => MergedReset(reported[s]).window < window

CardsInv == TypeOK /\ RowsFromSources /\ OnlyClosedWindows /\ HiddenIsOver

Distinct(c) == \A i, j \in DOMAIN c : c[i].source = c[j].source => i = j
Held(c) == c \in Seq(Contribution) /\ Distinct(c)

-----------------------------------------------------------------------------
(* Contributions and their merge.                                          *)

(* A set of places of a sequence has a last one.                           *)
LEMMA LatestExists ==
  ASSUME NEW n \in Nat, NEW T, T \subseteq 1..n, T # {}
  PROVE  \E i \in T : \A j \in T : j <= i
<1> DEFINE D == {n - i : i \in T}
<1>1. D \subseteq Nat /\ D # {}
  <2>1. \A i \in T : n - i \in Nat
    OBVIOUS
  <2>2. PICK i \in T : TRUE
    OBVIOUS
  <2>3. n - i \in D
    OBVIOUS
  <2> QED  BY <2>1, <2>3
<1>2. \E x \in D : \A y \in D : ~(<<y, x>> \in OpToRel(<, Nat))
  <2> HIDE DEF D
  <2> QED  BY <1>1, WFMin, NatLessThanWellFounded
<1>3. PICK x \in D : \A y \in D : ~(<<y, x>> \in OpToRel(<, Nat))
  BY <1>2
<1>4. PICK i \in T : x = n - i
  BY <1>3
<1>5. ASSUME NEW j \in T PROVE j <= i
  <2>1. n - j \in D
    OBVIOUS
  <2>2. ~(<<n - j, n - i>> \in OpToRel(<, Nat))
    BY <1>3, <1>4, <2>1
  <2>3. ~(n - j < n - i)
    BY <2>2, <1>1 DEF OpToRel
  <2> QED  BY <2>3
<1> QED  BY <1>5

LEMMA SeqFacts ==
  ASSUME NEW c \in Seq(Contribution)
  PROVE  /\ Len(c) \in Nat /\ DOMAIN c = 1..Len(c)
         /\ \A i \in DOMAIN c : /\ c[i] \in Contribution /\ c[i].source \in Sources
                                /\ c[i].reset \in Resets /\ c[i].stale \in BOOLEAN
         /\ c # <<>> <=> Len(c) > 0
<1>1. Len(c) \in Nat /\ DOMAIN c = 1..Len(c) /\ c \in [1..Len(c) -> Contribution]
  BY LenProperties
<1>2. c # <<>> <=> Len(c) > 0
  BY <1>1, EmptySeq
<1> QED  BY <1>1, <1>2 DEF Contribution

(* The merged reset is that of a contribution, unless none has one.        *)
LEMMA MergedResetIsReported ==
  ASSUME NEW c \in Seq(Contribution)
  PROVE  \/ MergedReset(c) = None /\ \A i \in DOMAIN c : c[i].reset = None
         \/ \E i \in DOMAIN c : MergedReset(c) = c[i].reset
<1> DEFINE timed == {i \in DOMAIN c : c[i].reset # None}
<1>1. CASE timed = {}
  BY <1>1 DEF MergedReset
<1>2. CASE timed # {}
  <2>1. \E i \in timed : \A j \in timed : j <= i
    BY <1>2, SeqFacts, LatestExists
  <2>2. (CHOOSE i \in timed : \A j \in timed : j <= i) \in timed
    BY <2>1
  <2>3. MergedReset(c) = c[CHOOSE i \in timed : \A j \in timed : j <= i].reset
    BY <1>2 DEF MergedReset
  <2> QED  BY <2>2, <2>3
<1> QED  BY <1>1, <1>2

(* The owner of a card is a source of it, a fresh one if there is one.     *)
LEMMA OwnerReports ==
  ASSUME NEW c \in Seq(Contribution), c # <<>>
  PROVE  /\ Owner(c) \in Sources
         /\ ~AllStale(c) => \E i \in DOMAIN c : ~c[i].stale /\ c[i].source = Owner(c)
<1> DEFINE fresh == {i \in DOMAIN c : ~c[i].stale}
<1>1. CASE \E i \in fresh : c[i].source = "server"
  <2>1. Owner(c) = "server"
    BY <1>1 DEF Owner
  <2> QED  BY <1>1, <2>1 DEF Sources
<1>2. CASE fresh # {} /\ ~\E i \in fresh : c[i].source = "server"
  <2>1. \E i \in fresh : \A j \in fresh : j <= i
    BY <1>2, SeqFacts, LatestExists
  <2>2. (CHOOSE i \in fresh : \A j \in fresh : j <= i) \in fresh
    BY <2>1
  <2>3. Owner(c) = c[CHOOSE i \in fresh : \A j \in fresh : j <= i].source
    BY <1>2 DEF Owner
  <2> QED  BY <2>2, <2>3, SeqFacts
<1>3. CASE fresh = {}
  <2>1. Owner(c) = Last(c).source /\ AllStale(c)
    BY <1>3, SeqFacts DEF Owner, AllStale
  <2>2. Last(c) = c[Len(c)] /\ Len(c) \in DOMAIN c
    BY SeqFacts DEF Last
  <2> QED  BY <2>1, <2>2, SeqFacts
<1> QED  BY <1>1, <1>2, <1>3

LEMMA NoneIsReset == None \in Resets /\ None.window = 0
BY DEF Resets, None

LEMMA NoRowFacts ==
  /\ NoRow \in Row /\ NoRow.kind = "none" /\ NoRow.reset = None
  /\ [NoRow EXCEPT !.kind = "error"] \in Row /\ [NoRow EXCEPT !.kind = "error"].kind = "error"
  /\ [NoRow EXCEPT !.kind = "error"].reset = None
<1>1. FALSE \in BOOLEAN
  OBVIOUS
<1> QED  BY <1>1, NoneIsReset DEF NoRow, Row

LEMMA MergedFacts ==
  ASSUME NEW c \in Seq(Contribution)
  PROVE  /\ Merged(c) \in Row
         /\ c # <<>> => /\ Merged(c).kind = "card" /\ Merged(c).reset = MergedReset(c)
                        /\ Merged(c).owner = Owner(c)
                        /\ Merged(c).stale <=> AllStale(c)
         /\ c = <<>> => Merged(c) = NoRow
<1>1. CASE c = <<>>
  BY <1>1, NoRowFacts DEF Merged
<1>2. CASE c # <<>>
  <2> DEFINE row(b) == [kind |-> "card", reset |-> MergedReset(c), stale |-> b,
                        failing |-> Last(c).stale, owner |-> Owner(c)]
  <2>1. Merged(c) = row(AllStale(c))
    BY <1>2 DEF Merged
  <2>2. MergedReset(c) \in Resets
    BY MergedResetIsReported, SeqFacts, NoneIsReset
  <2>3. Owner(c) \in Sources \cup {""}
    BY <1>2, OwnerReports
  <2>4. AllStale(c) \in BOOLEAN
    BY DEF AllStale
  <2>5. Last(c).stale \in BOOLEAN
    BY <1>2, SeqFacts DEF Last
  <2> HIDE DEF AllStale
  <2>6. \A b \in BOOLEAN : row(b) \in Row
    BY <2>2, <2>3, <2>5 DEF Row
  <2>7. Merged(c) \in Row
    BY <2>1, <2>4, <2>6
  <2>8. Merged(c).kind = "card" /\ Merged(c).reset = MergedReset(c) /\ Merged(c).owner = Owner(c)
    BY <2>1
  <2>9. Merged(c).stale <=> AllStale(c)
    BY <2>1
  <2> QED  BY <1>2, <2>7, <2>8, <2>9
<1> QED  BY <1>1, <1>2

(* What a start may have made of a merged card.                            *)
ShownAs(row, c) ==
    \/ row = Merged(c)
    \/ Merged(c).failing /\ row = [Merged(c) EXCEPT !.stale = TRUE]

(* Such a card has the reset and the owner of the merge, and is stale      *)
(* wherever the merge is.                                                  *)
LEMMA ShownFacts ==
  ASSUME NEW c \in Seq(Contribution), NEW row, row.kind = "card", ShownAs(row, c)
  PROVE  /\ c # <<>> /\ row.reset = MergedReset(c)
         /\ ~row.stale => ~AllStale(c) /\ row.owner = Owner(c)
<1> DEFINE m == Merged(c)
<1>1. m \in Row /\ (row = m \/ row = [m EXCEPT !.stale = TRUE])
  BY MergedFacts DEF ShownAs
<1> HIDE DEF m
<1>2. row.kind = m.kind /\ row.reset = m.reset
  BY <1>1 DEF Row
<1>3. ~row.stale => row = m
  BY <1>1 DEF Row
<1>4. c # <<>>
  BY <1>2, MergedFacts, NoRowFacts DEF m
<1> QED  BY <1>2, <1>3, <1>4, MergedFacts DEF m

LEMMA HeldFacts ==
  ASSUME NEW c, Held(c), NEW src \in Sources
  PROVE  /\ c \in Seq(Contribution)
         /\ Of(c, src) # {} => Place(c, src) \in DOMAIN c /\ c[Place(c, src)].source = src
         /\ \A i \in Of(c, src) : i = Place(c, src)
<1>1. Of(c, src) # {} => Place(c, src) \in Of(c, src)
  BY DEF Place
<1> QED  BY <1>1 DEF Of, Held, Distinct

(* A sequence without one of its elements.                                 *)
LEMMA RemovedAt ==
  ASSUME NEW c \in Seq(Contribution), NEW k \in 1..Len(c)
  PROVE  /\ RemoveAt(c, k) \in Seq(Contribution) /\ Len(RemoveAt(c, k)) = Len(c) - 1
         /\ \A i \in 1..(Len(c) - 1) : RemoveAt(c, k)[i] = IF i < k THEN c[i] ELSE c[i + 1]
<1> DEFINE d == RemoveAt(c, k)
           n == Len(c)
<1>1. k \in 1..n /\ n \in Nat /\ DOMAIN c = 1..n
  BY SeqFacts
<1>2. /\ SubSeq(c, 1, k - 1) \in Seq(Contribution)
      /\ Len(SubSeq(c, 1, k - 1)) = k - 1
      /\ \A i \in 1..(k - 1) : SubSeq(c, 1, k - 1)[i] = c[i]
  <2>1. \A i \in 1..(k - 1) : c[i] \in Contribution
    BY SeqFacts
  <2> QED  BY <1>1, <2>1, SubSeqProperties
<1>3. /\ SubSeq(c, k + 1, n) \in Seq(Contribution)
      /\ Len(SubSeq(c, k + 1, n)) = n - k
      /\ \A i \in 1..(n - k) : SubSeq(c, k + 1, n)[i] = c[k + i]
  <2>1. \A i \in (k + 1)..n : c[i] \in Contribution
    BY SeqFacts
  <2>2. k + 1 \in Int /\ n \in Int /\ k \in Int /\ k <= n
    BY <1>1
  <2>3. /\ SubSeq(c, k + 1, n) \in Seq(Contribution)
        /\ Len(SubSeq(c, k + 1, n)) = IF k + 1 <= n THEN n - (k + 1) + 1 ELSE 0
        /\ \A i \in 1..(n - (k + 1) + 1) : SubSeq(c, k + 1, n)[i] = c[(k + 1) + i - 1]
    BY <2>1, <2>2, SubSeqProperties
  <2>4. n - (k + 1) + 1 = n - k /\ \A i \in 1..(n - k) : (k + 1) + i - 1 = k + i
    BY <2>2
  <2>5. (IF k + 1 <= n THEN n - (k + 1) + 1 ELSE 0) = n - k
    BY <2>2
  <2> QED  BY <2>3, <2>4, <2>5
<1>4. d = SubSeq(c, 1, k - 1) \o SubSeq(c, k + 1, n)
  BY DEF RemoveAt
<1> HIDE DEF d, n
<1>5. d \in Seq(Contribution) /\ Len(d) = n - 1
  BY <1>1, <1>2, <1>3, <1>4, ConcatProperties
<1>6. \A i \in 1..(n - 1) : d[i] = IF i < k THEN c[i] ELSE c[i + 1]
  <2>1. \A i \in 1..(n - 1) : d[i] = IF i <= k - 1 THEN SubSeq(c, 1, k - 1)[i]
                                     ELSE SubSeq(c, k + 1, n)[i - (k - 1)]
    <3> DEFINE a == SubSeq(c, 1, k - 1)
               b == SubSeq(c, k + 1, n)
    <3>1. a \in Seq(Contribution) /\ b \in Seq(Contribution) /\ d = a \o b
      BY <1>2, <1>3, <1>4
    <3>2. Len(a) = k - 1 /\ Len(b) = n - k
      BY <1>2, <1>3
    <3> HIDE DEF a, b
    <3>3. \A i \in 1..(Len(a) + Len(b)) : d[i] = IF i <= Len(a) THEN a[i] ELSE b[i - Len(a)]
      BY <3>1, ConcatProperties
    <3>4. Len(a) + Len(b) = n - 1
      BY <1>1, <3>2
    <3>5. \A i \in 1..(n - 1) : d[i] = IF i <= k - 1 THEN a[i] ELSE b[i - (k - 1)]
      BY <3>2, <3>3, <3>4
    <3> QED  BY <3>5 DEF a, b
  <2> TAKE i \in 1..(n - 1)
  <2>2. CASE i < k
    BY <1>1, <1>2, <2>1, <2>2
  <2>3. CASE i >= k
    <3>1. i - (k - 1) \in 1..(n - k) /\ k + (i - (k - 1)) = i + 1
      BY <1>1, <2>3
    <3>2. d[i] = SubSeq(c, k + 1, n)[i - (k - 1)]
      BY <1>1, <2>1, <2>3
    <3>3. SubSeq(c, k + 1, n)[i - (k - 1)] = c[k + (i - (k - 1))]
      BY <1>3, <3>1
    <3>4. d[i] = c[i + 1]
      BY <3>1, <3>2, <3>3
    <3> QED  BY <1>1, <2>3, <3>4
  <2> QED  BY <1>1, <2>2, <2>3
<1> QED  BY <1>5, <1>6 DEF d, n

(* Without a source, the others keep their order, and it is gone.          *)
LEMMA WithoutFacts ==
  ASSUME NEW c, Held(c), NEW src \in Sources
  PROVE  Held(Without(c, src)) /\ Of(Without(c, src), src) = {}
<1> DEFINE d == Without(c, src)
           k == Place(c, src)
           n == Len(c)
<1>0. c \in Seq(Contribution)
  BY DEF Held
<1>1. CASE Of(c, src) = {}
  BY <1>1 DEF Without
<1>2. CASE Of(c, src) # {}
  <2>1. k \in 1..n /\ n \in Nat /\ c[k].source = src /\ DOMAIN c = 1..n
    BY <1>0, <1>2, HeldFacts, SeqFacts
  <2>2. d = RemoveAt(c, k)
    BY <1>2 DEF Without
  <2> HIDE DEF d, k, n
  <2>3. d \in Seq(Contribution) /\ Len(d) = n - 1
    BY <1>0, <2>1, <2>2, RemovedAt DEF n
  <2>4. \A i \in 1..(n - 1) : d[i] = IF i < k THEN c[i] ELSE c[i + 1]
    BY <1>0, <2>1, <2>2, RemovedAt DEF n
  <2>5. DOMAIN d = 1..(n - 1)
    BY <2>3, SeqFacts
  <2>6. \A i, j \in 1..n : c[i].source = c[j].source => i = j
    BY <2>1 DEF Held, Distinct
  <2>7. Distinct(d)
    <3> SUFFICES ASSUME NEW i \in 1..(n - 1), NEW j \in 1..(n - 1), d[i].source = d[j].source
                 PROVE  i = j
      BY <2>5 DEF Distinct
    <3>1. d[i] = c[IF i < k THEN i ELSE i + 1] /\ d[j] = c[IF j < k THEN j ELSE j + 1]
      BY <2>4
    <3>2. (IF i < k THEN i ELSE i + 1) \in 1..n /\ (IF j < k THEN j ELSE j + 1) \in 1..n
      BY <2>1
    <3>3. (IF i < k THEN i ELSE i + 1) = (IF j < k THEN j ELSE j + 1)
      BY <2>6, <3>1, <3>2
    <3> QED  BY <2>1, <3>3
  <2>8. ASSUME NEW i \in 1..(n - 1) PROVE d[i].source # src
    <3>1. d[i] = c[IF i < k THEN i ELSE i + 1]
      BY <2>4
    <3>2. (IF i < k THEN i ELSE i + 1) \in 1..n /\ (IF i < k THEN i ELSE i + 1) # k
      BY <2>1
    <3> QED  BY <2>1, <2>6, <3>1, <3>2
  <2> QED  BY <2>3, <2>5, <2>7, <2>8 DEF Held, Of, d
<1> QED  BY <1>1, <1>2

(* A contribution joins the others, in place of the source's earlier one.  *)
LEMMA UpdatedFacts ==
  ASSUME NEW c, Held(c), NEW src \in Sources, NEW reset \in Resets, NEW aged \in BOOLEAN
  PROVE  Held(Updated(c, src, reset, aged)) /\ Updated(c, src, reset, aged) # <<>>
<1> DEFINE d == Without(c, src)
           before == IF Of(c, src) = {} THEN None ELSE c[Place(c, src)].reset
           new == [source |-> src, reset |-> IF reset = None THEN before ELSE reset, stale |-> aged]
           u == Updated(c, src, reset, aged)
<1>1. before \in Resets
  BY HeldFacts, SeqFacts, NoneIsReset
<1>2. new \in Contribution /\ new.source = src
  <2>1. (IF reset = None THEN before ELSE reset) \in Resets
    BY <1>1
  <2>2. \A x \in Resets, b \in BOOLEAN : [source |-> src, reset |-> x, stale |-> b] \in Contribution
    BY DEF Contribution
  <2> HIDE DEF before
  <2>3. new \in Contribution
    BY <2>1, <2>2
  <2> QED  BY <2>3
<1>3. u = Append(d, new)
  BY DEF Updated
<1>4. Held(d) /\ Of(d, src) = {} /\ d \in Seq(Contribution)
  BY WithoutFacts DEF Held
<1> HIDE DEF u, new, d
<1>5. /\ u \in Seq(Contribution) /\ Len(u) = Len(d) + 1 /\ u[Len(d) + 1] = new
      /\ \A i \in 1..Len(d) : u[i] = d[i]
  BY <1>2, <1>3, <1>4, AppendProperties
<1>6. /\ DOMAIN u = 1..(Len(d) + 1) /\ DOMAIN d = 1..Len(d) /\ Len(d) \in Nat
      /\ u # <<>>
  BY <1>4, <1>5, SeqFacts
<1>7. Distinct(u)
  <2>1. \A i \in 1..Len(d) : d[i].source # src
    BY <1>4, <1>6 DEF Of
  <2>2. \A i, j \in 1..Len(d) : d[i].source = d[j].source => i = j
    BY <1>4, <1>6 DEF Held, Distinct
  <2> QED  BY <1>2, <1>5, <1>6, <2>1, <2>2 DEF Distinct
<1> QED  BY <1>5, <1>6, <1>7 DEF Held, u

(* Ageing changes nothing but the staleness.                               *)
LEMMA StaledFacts ==
  ASSUME NEW c, Held(c)
  PROVE  Held(Staled(c)) /\ (Staled(c) = <<>> => c = <<>>)
<1> DEFINE d == Staled(c)
<1>0. c \in Seq(Contribution) /\ DOMAIN c = 1..Len(c) /\ Len(c) \in Nat
  BY SeqFacts DEF Held
<1>1. DOMAIN d = DOMAIN c
  BY DEF Staled
<1>2. ASSUME NEW i \in DOMAIN c
      PROVE  /\ d[i] \in Contribution /\ d[i].source = c[i].source
  <2>1. c[i] \in Contribution
    BY <1>0, SeqFacts
  <2>2. \A b \in BOOLEAN : /\ [c[i] EXCEPT !.stale = b] \in Contribution
                           /\ [c[i] EXCEPT !.stale = b].source = c[i].source
    BY <2>1 DEF Contribution
  <2>3. TRUE \in BOOLEAN
    OBVIOUS
  <2>4. d[i] = c[i] \/ d[i] = [c[i] EXCEPT !.stale = TRUE]
    BY DEF Staled
  <2> QED  BY <2>1, <2>2, <2>3, <2>4, Zenon
<1>3. d = [i \in 1..Len(c) |-> d[i]]
  BY <1>0 DEF Staled
<1> HIDE DEF d
<1>4. d \in Seq(Contribution) /\ Len(d) = Len(c)
  <2>1. d \in [1..Len(c) -> Contribution]
    BY <1>0, <1>2, <1>3
  <2>2. d \in Seq(Contribution)
    BY <1>0, <2>1
  <2> QED  BY <1>0, <1>1, <2>2, SeqFacts
<1>5. Distinct(d)
  BY <1>1, <1>2 DEF Held, Distinct
<1>6. d = <<>> => c = <<>>
  BY <1>0, <1>4, SeqFacts
<1> QED  BY <1>4, <1>5, <1>6 DEF Held, d

(* The last contribution that has a reset gives the card its own.          *)
LEMMA LastResetWins ==
  ASSUME NEW c \in Seq(Contribution), c # <<>>, c[Len(c)].reset # None
  PROVE  MergedReset(c) = c[Len(c)].reset
<1> DEFINE timed == {i \in DOMAIN c : c[i].reset # None}
<1>1. Len(c) \in timed /\ timed \subseteq 1..Len(c) /\ Len(c) \in Nat
  BY SeqFacts
<1>2. \A i \in timed : i \in Nat /\ i <= Len(c)
  BY <1>1
<1>3. \E i \in timed : \A j \in timed : j <= i
  BY <1>1, <1>2
<1>4. (CHOOSE i \in timed : \A j \in timed : j <= i) = Len(c)
  <2> DEFINE k == CHOOSE i \in timed : \A j \in timed : j <= i
  <2>1. k \in timed /\ \A j \in timed : j <= k
    BY <1>3
  <2> HIDE DEF k, timed
  <2>2. k = Len(c)
    BY <1>1, <1>2, <2>1
  <2> QED  BY <2>2 DEF k
<1>5. MergedReset(c) = c[CHOOSE i \in timed : \A j \in timed : j <= i].reset
  BY <1>1 DEF MergedReset
<1> QED  BY <1>4, <1>5

(* A report changes its own source's contribution only: it is the last one *)
(* afterwards, and those of the others stay, in their order.               *)
LEMMA UpdatedOthers ==
  ASSUME NEW c, Held(c), NEW src \in Sources, NEW reset \in Resets, NEW aged \in BOOLEAN,
         NEW u, u = Updated(c, src, reset, aged)
  PROVE  /\ Without(u, src) = Without(c, src)
         /\ Of(u, src) # {} /\ Place(u, src) = Len(u)
         /\ u[Len(u)].source = src
         /\ reset # None => u[Len(u)].reset = reset
<1> DEFINE d == Without(c, src)
           before == IF Of(c, src) = {} THEN None ELSE c[Place(c, src)].reset
           new == [source |-> src, reset |-> IF reset = None THEN before ELSE reset, stale |-> aged]
<1>1. u = Append(d, new) /\ new.source = src
      /\ (reset # None => new.reset = reset)
  BY DEF Updated
<1>2. Held(u) /\ u \in Seq(Contribution) /\ d \in Seq(Contribution) /\ u # <<>>
  BY UpdatedFacts, WithoutFacts DEF Held
<1>3. Len(u) = Len(d) + 1 /\ u[Len(d) + 1] = new /\ \A i \in 1..Len(d) : u[i] = d[i]
  <2> HIDE DEF d, new
  <2> QED  BY <1>1, <1>2, AppendProperties
<1>4. Len(d) \in Nat /\ Len(u) \in DOMAIN u /\ Len(u) \in 1..Len(u)
  BY <1>2, <1>3, SeqFacts
<1> HIDE DEF d, new
<1>5. Of(u, src) # {} /\ Place(u, src) = Len(u)
  <2>1. Len(u) \in Of(u, src)
    BY <1>1, <1>3, <1>4 DEF Of
  <2> QED  BY <1>2, <2>1, HeldFacts
<1>6. Without(u, src) = d
  <2>1. Without(u, src) = RemoveAt(u, Len(u))
    BY <1>5 DEF Without
  <2>2. /\ Without(u, src) \in Seq(Contribution) /\ Len(Without(u, src)) = Len(u) - 1
        /\ \A i \in 1..(Len(u) - 1) :
             Without(u, src)[i] = IF i < Len(u) THEN u[i] ELSE u[i + 1]
    <3>1. /\ RemoveAt(u, Len(u)) \in Seq(Contribution) /\ Len(RemoveAt(u, Len(u))) = Len(u) - 1
          /\ \A i \in 1..(Len(u) - 1) :
               RemoveAt(u, Len(u))[i] = IF i < Len(u) THEN u[i] ELSE u[i + 1]
      BY <1>2, <1>4, RemovedAt
    <3> QED  BY <2>1, <3>1
  <2>3. Len(Without(u, src)) = Len(d) /\ \A i \in 1..Len(d) : Without(u, src)[i] = d[i]
    BY <1>3, <1>4, <2>2
  <2> QED  BY <1>2, <2>2, <2>3, SeqEqual
<1> QED  BY <1>1, <1>3, <1>4, <1>5, <1>6 DEF d

(* A reset that is reported becomes the reset of the card.                 *)
LEMMA UpdatedReset ==
  ASSUME NEW c, Held(c), NEW src \in Sources, NEW reset \in Resets, NEW aged \in BOOLEAN,
         reset # None
  PROVE  MergedReset(Updated(c, src, reset, aged)) = reset
<1>1. PICK u : u = Updated(c, src, reset, aged)
  OBVIOUS
<1>2. Held(u) /\ u # <<>>
  BY <1>1, UpdatedFacts
<1>3. u[Len(u)].reset = reset
  BY <1>1, UpdatedOthers
<1> QED  BY <1>1, <1>2, <1>3, LastResetWins DEF Held

(* The same report once more leaves the contributions as they are.         *)
LEMMA UpdatedTwice ==
  ASSUME NEW c, Held(c), NEW src \in Sources, NEW reset \in Resets, NEW aged \in BOOLEAN
  PROVE  Updated(Updated(c, src, reset, aged), src, reset, aged) = Updated(c, src, reset, aged)
<1> DEFINE u == Updated(c, src, reset, aged)
           kept == IF reset = None
                   THEN IF Of(c, src) = {} THEN None ELSE c[Place(c, src)].reset
                   ELSE reset
           new == [source |-> src, reset |-> kept, stale |-> aged]
<1>1. u = Append(Without(c, src), new)
  BY DEF Updated
<1>2. Without(u, src) = Without(c, src) /\ Of(u, src) # {} /\ Place(u, src) = Len(u)
  BY UpdatedOthers
<1>3. u[Len(u)] = new
  <2>1. Without(c, src) \in Seq(Contribution) /\ u \in Seq(Contribution)
    BY WithoutFacts, UpdatedFacts DEF Held
  <2>2. Len(u) = Len(Without(c, src)) + 1 /\ Len(Without(c, src)) \in Nat
    <3> HIDE DEF new
    <3> QED  BY <1>1, <2>1, AppendProperties, SeqFacts
  <2> HIDE DEF new
  <2> QED  BY <1>1, <2>1, <2>2
<1>4. Updated(u, src, reset, aged) =
        Append(Without(u, src),
               [source |-> src, reset |-> IF reset = None THEN u[Place(u, src)].reset ELSE reset,
                stale |-> aged])
  <2> HIDE DEF u
  <2> QED  BY <1>2 DEF Updated
<1>5. (IF reset = None THEN u[Place(u, src)].reset ELSE reset) = kept
  <2>1. u[Place(u, src)].reset = kept
    BY <1>2, <1>3
  <2> HIDE DEF u
  <2> QED  BY <2>1
<1> HIDE DEF u, kept
<1>6. Updated(u, src, reset, aged) = u
  BY <1>1, <1>2, <1>4, <1>5
<1> QED  BY <1>6 DEF u

(* Ageing touches the contribution of the server only.                     *)
LEMMA StaledOthers ==
  ASSUME NEW c, Held(c)
  PROVE  Without(Staled(c), "server") = Without(c, "server")
<1> DEFINE d == Staled(c)
           k == Place(c, "server")
<1>1. /\ c \in Seq(Contribution) /\ d \in Seq(Contribution) /\ "server" \in Sources
      /\ DOMAIN c = 1..Len(c) /\ Len(c) \in Nat /\ DOMAIN d = 1..Len(d) /\ Len(d) \in Nat
  BY StaledFacts, SeqFacts DEF Held, Sources
<1>2. DOMAIN d = DOMAIN c /\ Len(d) = Len(c)
  <2>1. DOMAIN d = DOMAIN c
    BY DEF Staled
  <2> HIDE DEF d
  <2>2. 1..Len(d) = 1..Len(c)
    BY <1>1, <2>1
  <2>3. \A m, n \in Nat : 1..m = 1..n => ~(m < n)
    <3> SUFFICES ASSUME NEW m \in Nat, NEW n \in Nat, 1..m = 1..n, m < n
                 PROVE  FALSE
      OBVIOUS
    <3>1. n \in 1..n /\ n \notin 1..m
      OBVIOUS
    <3> QED  BY <3>1
  <2>4. \A m, n \in Nat : 1..m = 1..n => m = n
    <3> SUFFICES ASSUME NEW m \in Nat, NEW n \in Nat, 1..m = 1..n
                 PROVE  m = n
      OBVIOUS
    <3>1. ~(m < n) /\ ~(n < m)
      BY <2>3
    <3> QED  BY <3>1
  <2>5. Len(d) \in Nat /\ Len(c) \in Nat
    BY <1>1
  <2>6. Len(d) = Len(c)
    BY <2>2, <2>4, <2>5
  <2> QED  BY <2>1, <2>6
<1>3. \A i \in DOMAIN c : /\ d[i].source = c[i].source
                          /\ c[i].source # "server" => d[i] = c[i]
  <2> SUFFICES ASSUME NEW i \in DOMAIN c
               PROVE  d[i].source = c[i].source /\ (c[i].source # "server" => d[i] = c[i])
    OBVIOUS
  <2>1. c[i] \in Contribution
    BY <1>1, SeqFacts
  <2>2. d[i] = IF c[i].source = "server" THEN [c[i] EXCEPT !.stale = TRUE] ELSE c[i]
    BY DEF Staled
  <2> HIDE DEF d
  <2> QED  BY <2>1, <2>2 DEF Contribution
<1> HIDE DEF d, k
<1>4. Of(d, "server") = Of(c, "server")
  BY <1>2, <1>3 DEF Of
<1>5. CASE Of(c, "server") = {}
  <2>1. \A i \in 1..Len(c) : d[i] = c[i]
    BY <1>1, <1>3, <1>5 DEF Of
  <2>2. d = c
    BY <1>1, <1>2, <2>1, SeqEqual
  <2> QED  BY <2>2 DEF d
<1>6. CASE Of(c, "server") # {}
  <2>1. k \in 1..Len(c) /\ Place(d, "server") = k /\ Of(d, "server") # {}
    BY <1>1, <1>4, <1>6, HeldFacts DEF Place, k
  <2>2. /\ Without(c, "server") \in Seq(Contribution)
        /\ Len(Without(c, "server")) = Len(c) - 1
        /\ \A i \in 1..(Len(c) - 1) : Without(c, "server")[i] = IF i < k THEN c[i] ELSE c[i + 1]
    <3>1. Without(c, "server") = RemoveAt(c, k)
      BY <1>6 DEF Without, k
    <3> QED  BY <1>1, <2>1, <3>1, RemovedAt
  <2>3. /\ Without(d, "server") \in Seq(Contribution)
        /\ Len(Without(d, "server")) = Len(c) - 1
        /\ \A i \in 1..(Len(c) - 1) : Without(d, "server")[i] = IF i < k THEN d[i] ELSE d[i + 1]
    <3>1. Without(d, "server") = RemoveAt(d, k)
      BY <2>1 DEF Without
    <3>2. d \in Seq(Contribution) /\ k \in 1..Len(d)
      BY <1>1, <1>2, <2>1
    <3>3. /\ RemoveAt(d, k) \in Seq(Contribution) /\ Len(RemoveAt(d, k)) = Len(d) - 1
          /\ \A i \in 1..(Len(d) - 1) : RemoveAt(d, k)[i] = IF i < k THEN d[i] ELSE d[i + 1]
      BY <3>2, RemovedAt
    <3> QED  BY <1>2, <3>1, <3>3
  <2>4. \A i \in 1..Len(c) : i # k => d[i] = c[i]
    <3>1. \A i \in Of(c, "server") : i = k
      BY <1>1, HeldFacts DEF k
    <3> QED  BY <1>1, <1>3, <3>1 DEF Of
  <2>5. \A i \in 1..(Len(c) - 1) : Without(d, "server")[i] = Without(c, "server")[i]
    BY <1>1, <2>1, <2>2, <2>3, <2>4
  <2>6. Without(d, "server") = Without(c, "server")
    BY <2>2, <2>3, <2>5, SeqEqual
  <2> QED  BY <2>6 DEF d
<1> QED  BY <1>5, <1>6

-----------------------------------------------------------------------------
(* Reports and what they do to the rows.                                   *)

ErrorRow == [NoRow EXCEPT !.kind = "error"]

LEMMA TypeFacts ==
  ASSUME TypeOK
  PROVE  \A s \in Slots : /\ Held(reported[s]) /\ reported[s] \in Seq(Contribution)
                          /\ rows[s] \in Row /\ rows[s].reset \in Resets
BY DEF TypeOK, Held, Distinct, Row

LEMMA ReportFacts ==
  ASSUME NEW w \in 1..LastWindow, NEW r \in Reports[w]
  PROVE  /\ DOMAIN r.resets \subseteq Slots /\ r.errors \subseteq Slots
         /\ \A s \in DOMAIN r.resets : /\ r.resets[s] \in Resets
                                       /\ r.resets[s] = None \/ r.resets[s] \in Reset(w)
<1>1. r.resets \in Readings(w) /\ r.errors \subseteq Slots
  BY DEF Reports
<1>2. PICK S \in SUBSET Slots : r.resets \in [S -> {None} \cup Reset(w)]
  BY <1>1 DEF Readings
<1> QED  BY <1>1, <1>2 DEF Resets

LEMMA ContributedFacts ==
  ASSUME TypeOK, NEW src \in Sources, NEW aged \in BOOLEAN,
         NEW w \in 1..LastWindow, NEW r \in Reports[w], NEW s \in Slots
  PROVE  /\ Held(Contributed(src, r, aged)[s])
         /\ s \in DOMAIN r.resets => Contributed(src, r, aged)[s] # <<>>
         /\ s \notin DOMAIN r.resets => Contributed(src, r, aged)[s] = reported[s]
<1>1. Held(reported[s])
  BY TypeFacts
<1>2. CASE s \in DOMAIN r.resets
  <2>1. r.resets[s] \in Resets
    BY <1>2, ReportFacts
  <2>2. Contributed(src, r, aged)[s] = Updated(reported[s], src, r.resets[s], aged)
    BY <1>2 DEF Contributed
  <2> QED  BY <1>1, <1>2, <2>1, <2>2, UpdatedFacts
<1>3. CASE s \notin DOMAIN r.resets
  BY <1>1, <1>3 DEF Contributed
<1> QED  BY <1>2, <1>3

(* A report contributes in the name of its own source only.                *)
LEMMA ContributedOthers ==
  ASSUME TypeOK, NEW src \in Sources, NEW aged \in BOOLEAN,
         NEW w \in 1..LastWindow, NEW r \in Reports[w], NEW s \in Slots
  PROVE  Without(Contributed(src, r, aged)[s], src) = Without(reported[s], src)
<1>1. Held(reported[s])
  BY TypeFacts
<1>2. CASE s \in DOMAIN r.resets
  <2>1. r.resets[s] \in Resets
    BY <1>2, ReportFacts
  <2>2. Contributed(src, r, aged)[s] = Updated(reported[s], src, r.resets[s], aged)
    BY <1>2 DEF Contributed
  <2> QED  BY <1>1, <2>1, <2>2, UpdatedOthers
<1>3. CASE s \notin DOMAIN r.resets
  BY <1>3 DEF Contributed
<1> QED  BY <1>2, <1>3

(* What remains of the rows after the cards of a report are upserted.      *)
Kept(rs, r, c) ==
    \A s \in Slots :
        /\ s \in DOMAIN r.resets => rs[s] = Merged(c[s])
        /\ s \notin DOMAIN r.resets =>
            /\ rs[s] \in {NoRow, ErrorRow, rows[s]}
            /\ rows[s].kind = "card" /\ (\A t \in Slots : ~Clashing(s, t)) =>
                rs[s] = rows[s] \/ rows[s].reset.window < window

LEMMA UpsertedKept ==
  ASSUME NEW r, NEW c, DOMAIN r.resets \subseteq Slots
  PROVE  Kept(Upserted(r, c), r, c)
<1> SUFFICES ASSUME NEW s \in Slots
             PROVE  /\ s \in DOMAIN r.resets => Upserted(r, c)[s] = Merged(c[s])
                    /\ s \notin DOMAIN r.resets =>
                        /\ Upserted(r, c)[s] \in {NoRow, ErrorRow, rows[s]}
                        /\ rows[s].kind = "card" /\ (\A t \in Slots : ~Clashing(s, t)) =>
                            Upserted(r, c)[s] = rows[s]
  BY DEF Kept
<1>1. CASE s \in DOMAIN r.resets
  BY <1>1 DEF Upserted
<1>2. CASE s \notin DOMAIN r.resets
  <2>1. Upserted(r, c)[s] \in {NoRow, ErrorRow, rows[s]}
    BY <1>2 DEF Upserted, ErrorRow
  <2>2. ASSUME rows[s].kind = "card", \A t \in Slots : ~Clashing(s, t)
        PROVE  Upserted(r, c)[s] = rows[s]
    <3>1. HasCard(rows)
      BY <2>2 DEF HasCard
    <3> QED  BY <1>2, <2>2, <3>1 DEF Upserted
  <2> QED  BY <1>2, <2>1, <2>2
<1> QED  BY <1>1, <1>2

LEMMA PrunedKept ==
  ASSUME NEW r, NEW c, NEW rs, DOMAIN r.resets \subseteq Slots, Kept(rs, r, c)
  PROVE  Kept(Pruned(rs, r), r, c)
<1> SUFFICES ASSUME NEW s \in Slots
             PROVE  /\ s \in DOMAIN r.resets => Pruned(rs, r)[s] = Merged(c[s])
                    /\ s \notin DOMAIN r.resets =>
                        /\ Pruned(rs, r)[s] \in {NoRow, ErrorRow, rows[s]}
                        /\ rows[s].kind = "card" /\ (\A t \in Slots : ~Clashing(s, t)) =>
                            Pruned(rs, r)[s] = rows[s] \/ rows[s].reset.window < window
  BY DEF Kept
<1>1. \/ Pruned(rs, r)[s] = rs[s]
      \/ Pruned(rs, r)[s] = NoRow /\ s \notin DOMAIN r.resets /\ rs[s].reset.window < window
  BY DEF Pruned, Ghosts, Keys
<1> QED  BY <1>1 DEF Kept

LEMMA ResetWindows ==
  ASSUME NEW x \in Resets
  PROVE  x.window \in Nat /\ x.jitter \in Nat
BY WindowAssumption DEF Resets, None, Reset

(* A reset that advanced by more than half a window is of a later one.     *)
LEMMA AdvancedIsLater ==
  ASSUME NEW old \in Resets, NEW w \in 1..LastWindow, NEW new \in Reset(w), Advanced(old, new)
  PROVE  old.window < w
<1>1. old.window \in Nat /\ old.jitter \in Nat
  BY ResetWindows
<1>2. new.window = w /\ new.jitter \in Nat /\ 2 * new.jitter < Length
  BY WindowAssumption DEF Reset
<1>3. 2 * ((w * Length + new.jitter) - (old.window * Length + old.jitter)) > Length
  BY <1>2 DEF Advanced, At
<1>4. Length \in Nat /\ w \in Nat
  BY WindowAssumption
<1>5. SUFFICES ASSUME w <= old.window PROVE FALSE
  BY <1>1, <1>4
<1>6. w * Length <= old.window * Length /\ w * Length \in Nat /\ old.window * Length \in Nat
  <2>1. PICK k \in Nat : old.window = w + k
    <3>1. old.window - w \in Nat /\ old.window = w + (old.window - w)
      BY <1>1, <1>4, <1>5
    <3> QED  BY <3>1
  <2>2. old.window * Length = w * Length + k * Length
    BY <1>4, <2>1
  <2>3. k * Length \in Nat /\ w * Length \in Nat
    BY <1>4
  <2> QED  BY <2>2, <2>3
<1> DEFINE a == w * Length
           b == old.window * Length
<1> HIDE DEF a, b
<1>7. 2 * ((a + new.jitter) - (b + old.jitter)) > Length /\ a <= b /\ a \in Nat /\ b \in Nat
  BY <1>3, <1>6 DEF a, b
<1> QED  BY <1>1, <1>2, <1>4, <1>7

-----------------------------------------------------------------------------
(* A report is written.                                                    *)

(* The contributions of the report are written with their rows, and those  *)
(* that the step retires or lets age with rows merged anew.                *)
Rewritten(r, c, rs, gone, d) ==
    /\ gone \cap DOMAIN r.resets = {} /\ \A s \in Slots : Held(d[s])
    /\ reported' = [s \in Slots |-> IF s \in gone THEN d[s] ELSE c[s]]
    /\ rows' = [s \in Slots |-> IF s \in gone THEN Merged(d[s]) ELSE rs[s]]
    /\ archived' = Closed(r) /\ window' = window

LEMMA WriteStep ==
  ASSUME CardsInv, NEW src \in Sources, NEW aged \in BOOLEAN,
         NEW w \in 1..window, NEW r \in Reports[w], NEW c, c = Contributed(src, r, aged),
         NEW rs, Kept(rs, r, c), NEW gone, NEW d, Rewritten(r, c, rs, gone, d)
  PROVE  CardsInv'
<1>0. window \in 1..LastWindow /\ w \in 1..LastWindow /\ w <= window
  BY WindowAssumption DEF CardsInv, TypeOK
<1>1. /\ reported' = [s \in Slots |-> IF s \in gone THEN d[s] ELSE c[s]]
      /\ rows' = [s \in Slots |-> IF s \in gone THEN Merged(d[s]) ELSE rs[s]]
  BY DEF Rewritten
<1>2. archived' = Closed(r) /\ window' = window
  BY DEF Rewritten
<1>3. \A s \in Slots : /\ Held(c[s])
                       /\ s \in DOMAIN r.resets => c[s] # <<>>
                       /\ s \notin DOMAIN r.resets => c[s] = reported[s]
  BY <1>0, ContributedFacts DEF CardsInv
<1>4. \A s \in Slots : Held(d[s])
  BY DEF Rewritten
<1>5. ASSUME NEW s \in Slots
      PROVE  Held(reported'[s]) /\ rows'[s] \in Row
  <2>1. Held(reported'[s])
    BY <1>1, <1>3, <1>4
  <2>2. CASE s \in gone
    BY <1>1, <1>4, <2>2, MergedFacts DEF Held
  <2>3. CASE s \notin gone
    <3>1. rows'[s] = rs[s]
      BY <1>1, <2>3
    <3>2. rs[s] = Merged(c[s]) \/ rs[s] \in {NoRow, ErrorRow, rows[s]}
      BY DEF Kept
    <3>3. Merged(c[s]) \in Row
      BY <1>3, MergedFacts DEF Held
    <3>4. rows[s] \in Row
      BY TypeFacts DEF CardsInv
    <3>5. NoRow \in Row /\ ErrorRow \in Row
      BY NoRowFacts DEF ErrorRow
    <3>6. rs[s] \in Row
      BY <3>2, <3>3, <3>4, <3>5
    <3> QED  BY <2>1, <3>1, <3>6
  <2> QED  BY <2>1, <2>2, <2>3
<1>6. ASSUME NEW s \in Slots, rows'[s].kind = "card"
      PROVE  ShownAs(rows'[s], reported'[s])
  <2>1. CASE s \in gone
    BY <1>1, <2>1 DEF ShownAs
  <2>2. CASE s \notin gone /\ s \in DOMAIN r.resets
    BY <1>1, <2>2 DEF Kept, ShownAs
  <2>3. CASE s \notin gone /\ s \notin DOMAIN r.resets
    <3>1. rows'[s] = rs[s] /\ reported'[s] = reported[s]
      BY <1>1, <1>3, <2>3
    <3>2. rs[s] \in {NoRow, ErrorRow, rows[s]}
      BY <2>3 DEF Kept
    <3>3. rs[s] = rows[s]
      BY <1>6, <3>1, <3>2, NoRowFacts DEF ErrorRow
    <3> QED  BY <1>6, <3>1, <3>3 DEF CardsInv, RowsFromSources, ShownAs
  <2> QED  BY <2>1, <2>2, <2>3
<1>7. ASSUME NEW s \in Slots, rows'[s].kind # "card", reported'[s] # <<>>,
             \A t \in Slots : ~Clashing(s, t)
      PROVE  MergedReset(reported'[s]).window < window
  <2>1. s \notin gone
    BY <1>1, <1>4, <1>7, MergedFacts DEF Held
  <2>2. rows'[s] = rs[s] /\ reported'[s] = c[s]
    BY <1>1, <2>1
  <2>3. s \notin DOMAIN r.resets
    <3>1. s \in DOMAIN r.resets => rs[s] = Merged(c[s])
      BY DEF Kept
    <3> QED  BY <1>3, <1>7, <2>2, <3>1, MergedFacts DEF Held
  <2>4. reported'[s] = reported[s]
    BY <1>3, <2>2, <2>3
  <2>5. CASE rows[s].kind # "card"
    BY <1>7, <2>4, <2>5 DEF CardsInv, HiddenIsOver
  <2>6. CASE rows[s].kind = "card"
    <3>1. rs[s] = rows[s] \/ rows[s].reset.window < window
      BY <1>7, <2>3, <2>6 DEF Kept
    <3>2. rows[s].reset.window < window
      BY <1>7, <2>2, <2>6, <3>1
    <3>3. ShownAs(rows[s], reported[s]) /\ reported[s] \in Seq(Contribution)
      BY <2>6, TypeFacts DEF CardsInv, RowsFromSources, ShownAs
    <3>4. rows[s].reset = MergedReset(reported[s])
      BY <2>6, <3>3, ShownFacts
    <3> QED  BY <2>4, <3>2, <3>3, <3>4
  <2> QED  BY <2>5, <2>6
<1>8. ASSUME NEW x \in Closed(r)
      PROVE  x \in Slots \X Resets /\ x[2].window < window
  <2>1. PICK s \in DOMAIN r.resets :
          x = <<s, rows[s].reset>> /\ Advanced(rows[s].reset, r.resets[s])
    BY DEF Closed
  <2>2. s \in Slots /\ rows[s].reset \in Resets
    BY <1>0, <2>1, ReportFacts, TypeFacts DEF CardsInv
  <2>3. r.resets[s] \in Reset(w)
    BY <1>0, <2>1, ReportFacts DEF Advanced
  <2>4. rows[s].reset.window < w
    BY <1>0, <2>1, <2>2, <2>3, AdvancedIsLater
  <2>5. x[2] = rows[s].reset /\ x \in Slots \X Resets
    BY <2>1, <2>2
  <2>6. rows[s].reset.window \in Nat
    BY <2>2, ResetWindows
  <2>7. rows[s].reset.window < window
    BY <1>0, <2>4, <2>6
  <2> QED  BY <2>5, <2>7
<1>9. window' \in 1..LastWindow /\ window' = window /\ archived' = Closed(r)
  BY <1>0, <1>2
<1>10. TypeOK'
  <2>1. reported' \in [Slots -> Seq(Contribution)]
    BY <1>1, <1>5 DEF Held
  <2>2. rows' \in [Slots -> Row]
    BY <1>1, <1>5
  <2>3. \A s \in Slots : \A i, j \in DOMAIN reported'[s] :
            reported'[s][i].source = reported'[s][j].source => i = j
    BY <1>5 DEF Held, Distinct
  <2> QED  BY <1>8, <1>9, <2>1, <2>2, <2>3 DEF TypeOK
<1>11. RowsFromSources'
  BY <1>6 DEF RowsFromSources, ShownAs
<1>12. OnlyClosedWindows'
  BY <1>8, <1>9 DEF OnlyClosedWindows
<1>13. HiddenIsOver'
  BY <1>7, <1>9 DEF HiddenIsOver
<1> QED  BY <1>10, <1>11, <1>12, <1>13 DEF CardsInv

LEMMA ReportStep ==
  ASSUME CardsInv, NEW w \in 1..window, NEW r \in Reports[w],
         Poll(r) \/ \E src \in Sidecars : Ingest(src, r)
  PROVE  CardsInv'
<1>0. w \in 1..LastWindow /\ DOMAIN r.resets \subseteq Slots
  BY ReportFacts, WindowAssumption DEF CardsInv, TypeOK
<1>1. ASSUME NEW src \in Sources, NEW aged \in BOOLEAN, NEW rs,
             Kept(rs, r, Contributed(src, r, aged)), Written(src, r, Contributed(src, r, aged), rs),
             archived' = Closed(r), window' = window
      PROVE  CardsInv'
  <2> DEFINE c == Contributed(src, r, aged)
             gone == Retired(src, r, c)
             d == [s \in Slots |-> Without(c[s], src)]
  <2>1. gone \cap DOMAIN r.resets = {}
    BY DEF Retired, Keys
  <2>2. \A s \in Slots : Held(d[s])
    BY <1>0, ContributedFacts, WithoutFacts DEF CardsInv
  <2>3. /\ reported' = [s \in Slots |-> IF s \in gone THEN d[s] ELSE c[s]]
        /\ rows' = [s \in Slots |-> IF s \in gone THEN Merged(d[s]) ELSE rs[s]]
    BY <1>1 DEF Written
  <2>4. c = Contributed(src, r, aged) /\ Kept(rs, r, c)
    BY <1>1
  <2> HIDE DEF c, gone, d
  <2>5. Rewritten(r, c, rs, gone, d)
    BY <1>1, <2>1, <2>2, <2>3 DEF Rewritten
  <2> QED  BY <2>4, <2>5, WriteStep
<1>2. CASE Poll(r)
  <2>1. Kept(Upserted(r, Contributed("server", r, FALSE)), r, Contributed("server", r, FALSE))
    BY <1>0, UpsertedKept
  <2> QED  BY <1>1, <1>2, <2>1 DEF Poll, Sources
<1>3. ASSUME NEW src \in Sidecars, Ingest(src, r)
      PROVE  CardsInv'
  <2> DEFINE c == Contributed(src, r, FALSE)
  <2>1. Kept(Pruned(Upserted(r, c), r), r, c)
    BY <1>0, UpsertedKept, PrunedKept
  <2> QED  BY <1>1, <1>3, <2>1 DEF Ingest, Sources
<1> QED  BY <1>2, <1>3

LEMMA FailureStep ==
  ASSUME CardsInv, NEW w \in 1..window, NEW r \in Reports[w], NEW aged \in BOOLEAN,
         PollFails(r, aged)
  PROVE  CardsInv'
<1> DEFINE c == Contributed("server", r, aged)
           rs == Upserted(r, c)
           d == [s \in Slots |-> Staled(c[s])]
<1>0. "server" \in Sources /\ w \in 1..LastWindow /\ DOMAIN r.resets \subseteq Slots
  BY ReportFacts, WindowAssumption DEF CardsInv, TypeOK, Sources
<1>1. PICK old \in SUBSET {s \in Slots \ DOMAIN r.resets : Of(reported[s], "server") # {}} :
        /\ reported' = [s \in Slots |-> IF s \in old THEN Staled(c[s]) ELSE c[s]]
        /\ rows' = [s \in Slots |-> IF s \in old THEN Merged(Staled(c[s])) ELSE rs[s]]
  BY DEF PollFails
<1>2. /\ reported' = [s \in Slots |-> IF s \in old THEN d[s] ELSE c[s]]
      /\ rows' = [s \in Slots |-> IF s \in old THEN Merged(d[s]) ELSE rs[s]]
  BY <1>1
<1>3. archived' = Closed(r) /\ window' = window /\ old \cap DOMAIN r.resets = {}
  BY DEF PollFails
<1>4. \A s \in Slots : Held(d[s])
  BY <1>0, ContributedFacts, StaledFacts DEF CardsInv
<1>5. Kept(rs, r, c)
  BY <1>0, UpsertedKept
<1>6. c = Contributed("server", r, aged)
  OBVIOUS
<1> HIDE DEF c, d, rs
<1>7. Rewritten(r, c, rs, old, d)
  BY <1>2, <1>3, <1>4 DEF Rewritten
<1> QED  BY <1>0, <1>5, <1>6, <1>7, WriteStep

-----------------------------------------------------------------------------
(* The other steps.                                                        *)

LEMMA EmptyIsHeld == Held(<<>>)
<1>1. <<>> \in Seq(Contribution) /\ DOMAIN <<>> = {}
  OBVIOUS
<1> QED  BY <1>1 DEF Held, Distinct

(* The scrub changes the staleness of a row and nothing else of it.        *)
LEMMA ScrubbedFacts ==
  ASSUME NEW row \in Row
  PROVE  Scrubbed(row) \in Row /\ Scrubbed(row).kind = row.kind
<1>1. TRUE \in BOOLEAN
  OBVIOUS
<1> QED  BY <1>1 DEF Scrubbed, Row

LEMMA ScrubbedShown ==
  ASSUME NEW c \in Seq(Contribution), NEW row, ShownAs(row, c)
  PROVE  ShownAs(Scrubbed(row), c)
<1> DEFINE m == Merged(c)
<1>1. m \in Row /\ (row = m \/ (m.failing /\ row = [m EXCEPT !.stale = TRUE]))
  BY MergedFacts DEF ShownAs
<1> HIDE DEF m
<1>2. CASE row = m
  BY <1>2 DEF Scrubbed, ShownAs, m
<1>3. CASE m.failing /\ row = [m EXCEPT !.stale = TRUE]
  <2>1. row.failing /\ [row EXCEPT !.stale = TRUE] = row
    BY <1>1, <1>3 DEF Row
  <2>2. Scrubbed(row) = row
    BY <2>1 DEF Scrubbed
  <2> QED  BY <2>2
<1> QED  BY <1>1, <1>2, <1>3

LEMMA RestartStep ==
  ASSUME CardsInv, Restart
  PROVE  CardsInv'
<1>1. /\ reported' = [s \in Slots |-> IF rows[s].kind = "none" THEN <<>> ELSE reported[s]]
      /\ rows' = [s \in Slots |-> IF rows[s].kind = "error" /\ HasCard(rows) THEN NoRow
                                 ELSE Scrubbed(rows[s])]
      /\ archived' = {} /\ window' = window
  BY DEF Restart
<1>2. \A s \in Slots : Held(reported[s]) /\ rows[s] \in Row
  BY TypeFacts DEF CardsInv
<1>3. \A s \in Slots : /\ Held(reported'[s]) /\ rows'[s] \in Row
                       /\ rows'[s].kind = "card" <=> rows[s].kind = "card"
  BY <1>1, <1>2, EmptyIsHeld, NoRowFacts, ScrubbedFacts
<1>4. TypeOK'
  <2>1. reported' \in [Slots -> Seq(Contribution)]
    BY <1>1, <1>3 DEF Held
  <2>2. rows' \in [Slots -> Row]
    BY <1>1, <1>3
  <2>3. \A s \in Slots : \A i, j \in DOMAIN reported'[s] :
            reported'[s][i].source = reported'[s][j].source => i = j
    BY <1>3 DEF Held, Distinct
  <2>4. window' \in 1..LastWindow /\ archived' \subseteq Slots \X Resets
    BY <1>1 DEF CardsInv, TypeOK
  <2> QED  BY <2>1, <2>2, <2>3, <2>4 DEF TypeOK
<1>5. RowsFromSources'
  <2> SUFFICES ASSUME NEW s \in Slots, rows'[s].kind = "card"
               PROVE  ShownAs(rows'[s], reported'[s])
    BY DEF RowsFromSources, ShownAs
  <2>1. rows[s].kind = "card"
    BY <1>3
  <2>2. rows'[s] = Scrubbed(rows[s]) /\ reported'[s] = reported[s]
    BY <1>1, <2>1
  <2>3. ShownAs(rows[s], reported[s]) /\ reported[s] \in Seq(Contribution)
    BY <2>1, TypeFacts DEF CardsInv, RowsFromSources, ShownAs
  <2> QED  BY <2>2, <2>3, ScrubbedShown
<1>6. OnlyClosedWindows'
  BY <1>1 DEF OnlyClosedWindows
<1>7. HiddenIsOver'
  <2> SUFFICES ASSUME NEW s \in Slots, rows'[s].kind # "card", reported'[s] # <<>>,
                      \A t \in Slots : ~Clashing(s, t)
               PROVE  MergedReset(reported'[s]).window < window
    BY <1>1 DEF HiddenIsOver
  <2>1. reported'[s] = reported[s] /\ rows[s].kind # "card"
    BY <1>1, <1>3
  <2> QED  BY <2>1 DEF CardsInv, HiddenIsOver
<1> QED  BY <1>4, <1>5, <1>6, <1>7 DEF CardsInv

LEMMA WindowStep ==
  ASSUME CardsInv, NextWindow
  PROVE  CardsInv'
<1>1. /\ window' = window + 1 /\ window' \in 1..LastWindow /\ window \in Nat
      /\ reported' = reported /\ rows' = rows /\ archived' = {}
  BY WindowAssumption DEF NextWindow, CardsInv, TypeOK
<1>2. TypeOK'
  BY <1>1 DEF CardsInv, TypeOK
<1>3. RowsFromSources' /\ OnlyClosedWindows'
  BY <1>1 DEF CardsInv, RowsFromSources, OnlyClosedWindows
<1>4. ASSUME NEW s \in Slots PROVE MergedReset(reported[s]).window \in Nat
  <2>1. reported[s] \in Seq(Contribution)
    BY TypeFacts DEF CardsInv
  <2>2. MergedReset(reported[s]) \in Resets
    BY <2>1, MergedResetIsReported, SeqFacts, NoneIsReset
  <2> QED  BY <2>2, ResetWindows
<1>5. HiddenIsOver'
  <2> SUFFICES ASSUME NEW s \in Slots, rows[s].kind # "card", reported[s] # <<>>,
                      \A t \in Slots : ~Clashing(s, t)
               PROVE  MergedReset(reported[s]).window < window + 1
    BY <1>1 DEF HiddenIsOver
  <2>1. MergedReset(reported[s]).window < window
    BY DEF CardsInv, HiddenIsOver
  <2> QED  BY <1>1, <1>4, <2>1
<1> QED  BY <1>2, <1>3, <1>5 DEF CardsInv

LEMMA InitInv == Init => CardsInv
<1> SUFFICES ASSUME Init PROVE CardsInv
  OBVIOUS
<1>1. TypeOK
  <2>1. reported \in [Slots -> Seq(Contribution)] /\ rows \in [Slots -> Row]
    BY EmptyIsHeld, NoRowFacts DEF Init, Held
  <2> QED  BY <2>1, WindowAssumption DEF Init, TypeOK
<1>2. RowsFromSources /\ OnlyClosedWindows /\ HiddenIsOver
  BY NoRowFacts DEF Init, RowsFromSources, OnlyClosedWindows, HiddenIsOver
<1> QED  BY <1>1, <1>2 DEF CardsInv

LEMMA NextInv ==
  ASSUME CardsInv, [Next]_vars
  PROVE  CardsInv'
<1>1. ASSUME NEW w \in 1..window, NEW r \in Reports[w],
             Poll(r) \/ \E src \in Sidecars : Ingest(src, r)
      PROVE  CardsInv'
  BY <1>1, ReportStep
<1>2. ASSUME NEW w \in 1..window, NEW r \in Reports[w], NEW aged \in BOOLEAN, PollFails(r, aged)
      PROVE  CardsInv'
  BY <1>2, FailureStep
<1>3. CASE UNCHANGED vars
  BY <1>3 DEF vars, CardsInv, TypeOK, RowsFromSources, OnlyClosedWindows, HiddenIsOver
<1> QED  BY <1>1, <1>2, <1>3, RestartStep, WindowStep DEF Next

LEMMA CardsInvariant == Spec => []CardsInv
<1>1. CardsInv /\ [Next]_vars => CardsInv'
  BY NextInv
<1> QED  BY InitInv, <1>1, PTL DEF Spec

-----------------------------------------------------------------------------
(* What holds of every behaviour.                                          *)

(* The variables hold values of their types, and a slot one contribution   *)
(* of a source.                                                            *)
THEOREM TypesAreCorrect == Spec => []TypeOK
<1>1. CardsInv => TypeOK
  BY DEF CardsInv
<1> QED  BY CardsInvariant, <1>1, PTL

(* A card is what its sources still report, merged; a start may have made  *)
(* it stale, if what was reported last is.                                 *)
THEOREM CardsComeFromSources == Spec => []RowsFromSources
<1>1. CardsInv => RowsFromSources
  BY DEF CardsInv
<1> QED  BY CardsInvariant, <1>1, PTL

(* A card that is not stale belongs to a source that reports it afresh.    *)
THEOREM CardsBelongToFreshSources == Spec => []OwnerIsFresh
<1>1. CardsInv => OwnerIsFresh
  <2> SUFFICES ASSUME CardsInv, NEW s \in Slots, rows[s].kind = "card", ~rows[s].stale
               PROVE  \E i \in DOMAIN reported[s] :
                        ~reported[s][i].stale /\ reported[s][i].source = rows[s].owner
    BY DEF OwnerIsFresh
  <2>1. ShownAs(rows[s], reported[s]) /\ reported[s] \in Seq(Contribution)
    BY TypeFacts DEF CardsInv, RowsFromSources, ShownAs
  <2>2. /\ reported[s] # <<>>
        /\ rows[s].owner = Owner(reported[s]) /\ ~AllStale(reported[s])
    BY <2>1, ShownFacts
  <2> QED  BY <2>1, <2>2, OwnerReports
<1> QED  BY CardsInvariant, <1>1, PTL

(* Only windows that are over are archived.                                *)
THEOREM ArchivedWindowsAreOver == Spec => []OnlyClosedWindows
<1>1. CardsInv => OnlyClosedWindows
  BY DEF CardsInv
<1> QED  BY CardsInvariant, <1>1, PTL

(* A card all its sources report for the current window is shown.          *)
THEOREM CurrentCardsAreShown == Spec => []CurrentIsShown
<1>1. CardsInv => CurrentIsShown
  <2> SUFFICES ASSUME CardsInv, NEW s \in Slots, IsCurrent(reported[s]),
                      \A t \in Slots : ~Clashing(s, t), rows[s].kind # "card"
               PROVE  FALSE
    BY DEF CurrentIsShown
  <2>1. reported[s] # <<>> /\ \A i \in DOMAIN reported[s] : reported[s][i].reset.window = window
    BY DEF IsCurrent
  <2>2. reported[s] \in Seq(Contribution)
    BY TypeFacts DEF CardsInv
  <2>3. window \in Nat /\ window > 0
    BY WindowAssumption DEF CardsInv, TypeOK
  <2>4. PICK k \in DOMAIN reported[s] : TRUE
    BY <2>1, <2>2, SeqFacts
  <2>5. reported[s][k].reset # None
    BY <2>1, <2>3, NoneIsReset
  <2>6. \E i \in DOMAIN reported[s] : MergedReset(reported[s]) = reported[s][i].reset
    BY <2>2, <2>5, MergedResetIsReported
  <2>7. MergedReset(reported[s]).window = window
    BY <2>1, <2>6
  <2>8. MergedReset(reported[s]).window < window
    BY <2>1 DEF CardsInv, HiddenIsOver
  <2> QED  BY <2>3, <2>7, <2>8
<1> QED  BY CardsInvariant, <1>1, PTL

(* No source's report, retirement or failure touches what the others       *)
(* contribute, nor the order in which their contributions are merged.      *)
THEOREM SourcesDoNotDisturb == Spec => OthersContributionsStand
<1> DEFINE A == Restart \/ \E src \in Sources : \A s \in Slots :
                  Without(reported'[s], src) = Without(reported[s], src)
<1>1. ASSUME CardsInv, [Next]_vars PROVE A
  <2> USE DEF CardsInv
  <2>1. ASSUME NEW src \in Sources, NEW w \in 1..window, NEW r \in Reports[w], NEW rs,
               Written(src, r, Contributed(src, r, FALSE), rs)
        PROVE  \A s \in Slots : Without(reported'[s], src) = Without(reported[s], src)
    <3> SUFFICES ASSUME NEW s \in Slots
                 PROVE  Without(reported'[s], src) = Without(reported[s], src)
      OBVIOUS
    <3> DEFINE c == Contributed(src, r, FALSE)[s]
    <3>1. w \in 1..LastWindow /\ FALSE \in BOOLEAN
      BY <1>1, WindowAssumption DEF TypeOK
    <3>2. Held(c) /\ Without(c, src) = Without(reported[s], src)
      BY <1>1, <3>1, ContributedFacts, ContributedOthers
    <3>3. reported'[s] = c \/ reported'[s] = Without(c, src)
      BY <2>1 DEF Written
    <3>4. Without(Without(c, src), src) = Without(c, src)
      <4>1. Of(Without(c, src), src) = {}
        BY <3>2, WithoutFacts
      <4> HIDE DEF c
      <4>2. \A x : Of(x, src) = {} => Without(x, src) = x
        BY DEF Without
      <4> QED  BY <4>1, <4>2
    <3> QED  BY <3>2, <3>3, <3>4
  <2>2. ASSUME NEW w \in 1..window, NEW r \in Reports[w],
               Poll(r) \/ \E src \in Sidecars : Ingest(src, r)
        PROVE  A
    BY <2>1, <2>2 DEF Poll, Ingest, Sources
  <2>3. ASSUME NEW w \in 1..window, NEW r \in Reports[w], NEW aged \in BOOLEAN, PollFails(r, aged)
        PROVE  \A s \in Slots : Without(reported'[s], "server") = Without(reported[s], "server")
    <3> SUFFICES ASSUME NEW s \in Slots
                 PROVE  Without(reported'[s], "server") = Without(reported[s], "server")
      OBVIOUS
    <3> DEFINE c == Contributed("server", r, aged)[s]
    <3>1. w \in 1..LastWindow /\ "server" \in Sources
      BY <1>1, WindowAssumption DEF TypeOK, Sources
    <3>2. Held(c) /\ Without(c, "server") = Without(reported[s], "server")
      BY <1>1, <3>1, ContributedFacts, ContributedOthers
    <3>3. reported'[s] = c \/ reported'[s] = Staled(c)
      BY <2>3 DEF PollFails
    <3> QED  BY <3>2, <3>3, StaledOthers
  <2>4. UNCHANGED reported => A
    BY DEF Sources
  <2> QED
    BY <1>1, <2>2, <2>3, <2>4 DEF Next, NextWindow, vars, Sources
<1>2. CardsInv /\ [Next]_vars => [A]_vars
  BY <1>1
<1> HIDE DEF A
<1>3. Spec => [][A]_vars
  BY <1>2, CardsInvariant, PTL DEF Spec
<1> QED  BY <1>3 DEF OthersContributionsStand, A

(* A report that is written a second time, because its answer was lost and *)
(* it was queued, contributes nothing new, retires nothing and archives no *)
(* window once more (_maybe_close_previous_window).                        *)
THEOREM RepeatedReportsAreSilent ==
  ASSUME CardsInv, NEW src \in Sources, NEW w \in 1..window, NEW r \in Reports[w],
         (src = "server" /\ Poll(r)) \/ (src \in Sidecars /\ Ingest(src, r))
  PROVE  /\ Contributed(src, r, FALSE)' = reported'
         /\ Retired(src, r, reported)' = {}
         /\ Closed(r)' = {}
<1> USE DEF CardsInv
<1> DEFINE c == Contributed(src, r, FALSE)
           gone == Retired(src, r, c)
<1>0. w \in 1..LastWindow /\ FALSE \in BOOLEAN /\ src \in Sources
  BY WindowAssumption DEF TypeOK, Sources
<1>1. w \in 1..LastWindow /\ \A s \in Slots : Held(reported[s]) /\ Held(c[s])
  BY <1>0, TypeFacts, ContributedFacts
<1>2. reported' = [s \in Slots |-> IF s \in gone THEN Without(c[s], src) ELSE c[s]]
  BY DEF Poll, Ingest, Written
<1>3. DOMAIN r.resets \subseteq Keys(r) /\ gone \cap Keys(r) = {}
      /\ DOMAIN r.resets \subseteq Slots
  BY <1>1, ReportFacts DEF Keys, Retired
<1>4. \A s \in DOMAIN r.resets :
        /\ reported'[s] = Updated(reported[s], src, r.resets[s], FALSE)
        /\ r.resets[s] \in Resets
  <2>1. \A s \in DOMAIN r.resets : r.resets[s] \in Resets
    BY <1>0, ReportFacts
  <2>2. \A s \in DOMAIN r.resets : c[s] = Updated(reported[s], src, r.resets[s], FALSE)
    BY <1>3 DEF Contributed
  <2>3. \A s \in DOMAIN r.resets : reported'[s] = c[s]
    BY <1>2, <1>3
  <2> HIDE DEF c, gone
  <2> SUFFICES ASSUME NEW s \in DOMAIN r.resets
               PROVE  /\ reported'[s] = Updated(reported[s], src, r.resets[s], FALSE)
                      /\ r.resets[s] \in Resets
    OBVIOUS
  <2>4. reported'[s] = c[s] /\ c[s] = Updated(reported[s], src, r.resets[s], FALSE)
    BY <2>2, <2>3
  <2>5. reported'[s] = Updated(reported[s], src, r.resets[s], FALSE)
    BY <2>4, Zenon
  <2> QED  BY <2>1, <2>5
<1>5. Contributed(src, r, FALSE)' = reported'
  <2>1. Contributed(src, r, FALSE)' =
          [s \in Slots |-> IF s \in DOMAIN r.resets
                           THEN Updated(reported'[s], src, r.resets[s], FALSE)
                           ELSE reported'[s]]
    BY DEF Contributed
  <2>2. \A s \in DOMAIN r.resets : Updated(reported'[s], src, r.resets[s], FALSE) = reported'[s]
    <3> SUFFICES ASSUME NEW s \in DOMAIN r.resets
                 PROVE  Updated(reported'[s], src, r.resets[s], FALSE) = reported'[s]
      OBVIOUS
    <3>1. /\ Held(reported[s]) /\ r.resets[s] \in Resets
          /\ reported'[s] = Updated(reported[s], src, r.resets[s], FALSE)
      BY <1>1, <1>3, <1>4
    <3>2. Updated(Updated(reported[s], src, r.resets[s], FALSE), src, r.resets[s], FALSE)
            = Updated(reported[s], src, r.resets[s], FALSE)
      BY <1>0, <3>1, UpdatedTwice
    <3> HIDE DEF c
    <3> QED  BY <3>1, <3>2, Zenon
  <2>3. reported' = [s \in Slots |-> reported'[s]]
    BY <1>2
  <2> HIDE DEF c, gone
  <2> QED  BY <2>1, <2>2, <2>3
<1>6. Retired(src, r, reported)' = {}
  <2>1. Retired(src, r, reported)' =
          IF r.complete THEN {s \in Slots \ Keys(r) : Of(reported'[s], src) # {}} ELSE {}
    BY DEF Retired
  <2>2. ASSUME r.complete, NEW s \in Slots \ Keys(r) PROVE Of(reported'[s], src) = {}
    <3>1. CASE s \in gone
      BY <1>1, <1>2, <3>1, WithoutFacts
    <3>2. CASE s \notin gone
      BY <1>2, <2>2, <3>2 DEF Retired
    <3> QED  BY <3>1, <3>2
  <2> QED  BY <2>1, <2>2
<1>7. ASSUME NEW s \in DOMAIN r.resets, r.resets[s] # None
      PROVE  rows'[s].reset = r.resets[s]
  <2>1. rows'[s] = Merged(c[s]) /\ reported'[s] = c[s]
    BY <1>2, <1>3 DEF Poll, Ingest, Written, Pruned, Ghosts, Upserted, Keys
  <2>2. Held(reported[s]) /\ c[s] = Updated(reported[s], src, r.resets[s], FALSE)
    BY <1>1, <1>3, <1>4, <2>1
  <2>3. r.resets[s] \in Resets /\ Updated(reported[s], src, r.resets[s], FALSE) # <<>>
    BY <1>0, <1>4, <2>2, UpdatedFacts
  <2>4. MergedReset(Updated(reported[s], src, r.resets[s], FALSE)) = r.resets[s]
    BY <1>0, <1>7, <2>2, <2>3, UpdatedReset
  <2> HIDE DEF c
  <2>5. c[s] # <<>> /\ MergedReset(c[s]) = r.resets[s]
    BY <2>2, <2>3, <2>4, Zenon
  <2> QED  BY <2>1, <2>5 DEF Merged
<1>8. Closed(r)' = {}
  <2>1. Closed(r)' = {<<s, rows'[s].reset>> :
                        s \in {t \in DOMAIN r.resets : Advanced(rows'[t].reset, r.resets[t])}}
    BY DEF Closed
  <2>2. ASSUME NEW s \in DOMAIN r.resets PROVE ~Advanced(rows'[s].reset, r.resets[s])
    <3>1. CASE r.resets[s] = None
      BY <3>1 DEF Advanced
    <3>2. CASE r.resets[s] # None
      <4>1. rows'[s].reset = r.resets[s] /\ At(r.resets[s]) \in Int /\ Length \in Nat \ {0}
        <5>1. r.resets[s] \in Reset(w)
          BY <1>0, <3>2, ReportFacts
        <5>2. r.resets[s].window = w /\ r.resets[s].jitter \in Nat
          BY <5>1, WindowAssumption DEF Reset
        <5>3. w \in Nat /\ Length \in Nat \ {0}
          BY <1>0, WindowAssumption
        <5>4. w * Length \in Nat
          BY <5>3
        <5> QED  BY <1>7, <3>2, <5>2, <5>3, <5>4 DEF At
      <4> QED  BY <4>1 DEF Advanced
    <3> QED  BY <3>1, <3>2
  <2> QED  BY <2>1, <2>2
<1> QED  BY <1>5, <1>6, <1>8
=============================================================================
