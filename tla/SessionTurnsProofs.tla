-------------------------- MODULE SessionTurnsProofs --------------------------
(***************************************************************************)
(* TLAPS proofs about SessionTurns and PendingPrompts, for every number of *)
(* overlapping turns, every set of teammate runs and texts, every bound on *)
(* the prompts and every status a session is resumed with.                 *)
(***************************************************************************)
EXTENDS SessionTurns, FiniteSetTheorems, NaturalsInduction, WellFoundedInduction, TLAPS

-----------------------------------------------------------------------------
(* Lemmas about the list of waiting prompts.                                *)

LEMMA Removed ==
  ASSUME NEW q \in Seq(Entry), NEW i \in DOMAIN q
  PROVE  /\ RemoveAt(q, i) \in Seq(Entry) /\ Len(RemoveAt(q, i)) = Len(q) - 1
         /\ \A j \in 1..Len(q) - 1 :
              /\ j < i => RemoveAt(q, i)[j] = q[j]
              /\ ~(j < i) => RemoveAt(q, i)[j] = q[j + 1]
<1>1. i \in 1..Len(q) /\ Len(q) \in Nat
  OBVIOUS
<1> DEFINE s == SubSeq(q, 1, i - 1)
           t == SubSeq(q, i + 1, Len(q))
<1>2. s \in Seq(Entry) /\ Len(s) = i - 1 /\ \A j \in 1..i - 1 : s[j] = q[j]
  BY <1>1
<1>3. t \in Seq(Entry) /\ Len(t) = Len(q) - i /\ \A j \in 1..Len(q) - i : t[j] = q[j + i]
  BY <1>1
<1>4. RemoveAt(q, i) = s \o t
  BY DEF RemoveAt
<1> HIDE DEF s, t
<1>5. s \o t \in Seq(Entry) /\ Len(s \o t) = Len(q) - 1
  BY <1>1, <1>2, <1>3
<1>6. ASSUME NEW j \in 1..Len(q) - 1, j < i
      PROVE  (s \o t)[j] = q[j]
  BY <1>1, <1>2, <1>3, <1>6
<1>7. ASSUME NEW j \in 1..Len(q) - 1, ~(j < i)
      PROVE  (s \o t)[j] = q[j + 1]
  <2>1. (s \o t)[j] = t[j - (i - 1)]
    BY <1>1, <1>2, <1>3, <1>7
  <2>2. j - (i - 1) \in 1..Len(q) - i /\ (j - (i - 1)) + i = j + 1
    BY <1>1, <1>7
  <2> QED
    BY <1>3, <2>1, <2>2
<1> QED
  BY <1>4, <1>5, <1>6, <1>7

\* An entry put in the place of the one taken out.
LEMMA Replaced ==
  ASSUME NEW q \in Seq(Entry), NEW i \in DOMAIN q, NEW e \in Entry
  PROVE  /\ InsertAt(RemoveAt(q, i), i, e) \in Seq(Entry)
         /\ Len(InsertAt(RemoveAt(q, i), i, e)) = Len(q)
         /\ \A j \in 1..Len(q) : j # i => InsertAt(RemoveAt(q, i), i, e)[j] = q[j]
         /\ InsertAt(RemoveAt(q, i), i, e)[i] = e
<1> DEFINE p == RemoveAt(q, i)
           s == SubSeq(p, 1, i - 1)
           t == SubSeq(p, i, Len(p))
<1>1. i \in 1..Len(q) /\ Len(q) \in Nat
  OBVIOUS
<1>2. /\ p \in Seq(Entry) /\ Len(p) = Len(q) - 1
      /\ \A j \in 1..Len(q) - 1 : /\ j < i => p[j] = q[j]
                                  /\ ~(j < i) => p[j] = q[j + 1]
  BY Removed
<1>3. InsertAt(p, i, e) = s \o <<e>> \o t
  BY DEF InsertAt
<1> HIDE DEF p
<1>4. s \in Seq(Entry) /\ Len(s) = i - 1 /\ \A j \in 1..i - 1 : s[j] = q[j]
  BY <1>1, <1>2
<1>5. /\ t \in Seq(Entry) /\ Len(t) = Len(q) - i
      /\ \A j \in 1..Len(q) - i : t[j] = q[j + i]
  <2>1. /\ t \in Seq(Entry) /\ Len(t) = Len(q) - i
        /\ \A j \in 1..Len(q) - i : t[j] = p[j + i - 1]
    BY <1>1, <1>2
  <2>2. \A j \in 1..Len(q) - i : p[j + i - 1] = q[j + i]
    <3> SUFFICES ASSUME NEW j \in 1..Len(q) - i PROVE p[j + i - 1] = q[j + i]
      OBVIOUS
    <3>1. /\ j + i - 1 \in 1..Len(q) - 1 /\ ~(j + i - 1 < i)
          /\ (j + i - 1) + 1 = j + i
      BY <1>1
    <3> QED
      BY <1>2, <3>1
  <2> QED
    BY <2>1, <2>2
<1> HIDE DEF s, t
<1> DEFINE w == s \o <<e>> \o t
<1>6. /\ w \in Seq(Entry) /\ Len(w) = Len(q) /\ w[i] = e
      /\ \A j \in 1..i - 1 : w[j] = s[j]
      /\ \A j \in 1..Len(q) - i : w[j + i] = t[j]
  <2> DEFINE u == s \o <<e>>
  <2>1. /\ u \in Seq(Entry) /\ Len(u) = i /\ u[i] = e
        /\ \A j \in 1..i - 1 : u[j] = s[j]
    BY <1>1, <1>4
  <2>2. w = u \o t
    OBVIOUS
  <2> HIDE DEF u, w
  <2>3. w \in Seq(Entry) /\ Len(w) = Len(q)
    BY <1>1, <1>5, <2>1, <2>2
  <2>4. \A j \in 1..i : w[j] = u[j]
    BY <1>1, <1>5, <2>1, <2>2
  <2>5. \A j \in 1..Len(q) - i : w[j + i] = t[j]
    BY <1>1, <1>5, <2>1, <2>2
  <2> QED
    BY <1>1, <2>1, <2>3, <2>4, <2>5
<1> HIDE DEF w
<1>7. ASSUME NEW j \in 1..Len(q), j # i
      PROVE  w[j] = q[j]
  <2>1. CASE j < i
    BY <1>1, <1>4, <1>6, <2>1
  <2>2. CASE ~(j < i)
    <3>1. j - i \in 1..Len(q) - i /\ (j - i) + i = j
      BY <1>1, <1>7, <2>2
    <3>2. w[(j - i) + i] = t[j - i] /\ t[j - i] = q[(j - i) + i]
      BY <1>5, <1>6, <3>1
    <3> QED
      BY <3>1, <3>2
  <2> QED
    BY <2>1, <2>2
<1>8. InsertAt(p, i, e) = w
  BY <1>3 DEF w
<1> QED
  BY <1>6, <1>7, <1>8 DEF p

\* A new entry joins the steers in front or the queued ones behind.
LEMMA InsertKeeps ==
  ASSUME NEW q \in Seq(Entry), NEW e \in Entry
  PROVE  /\ Insert(q, e) \in Seq(Entry)
         /\ Prioritised(q) => Prioritised(Insert(q, e))
<1>1. CASE IsSteer(e)
  <2> DEFINE w == <<e>> \o q
  <2>1. /\ w \in Seq(Entry) /\ Len(w) = Len(q) + 1 /\ w[1] = e
        /\ \A j \in 1..Len(q) : w[j + 1] = q[j]
    OBVIOUS
  <2>2. Insert(q, e) = w
    BY <1>1 DEF Insert
  <2> HIDE DEF w
  <2>3. ASSUME Prioritised(q), NEW i \in DOMAIN w, NEW j \in DOMAIN w, i < j, IsSteer(w[j])
        PROVE  IsSteer(w[i])
    <3>1. CASE i = 1
      BY <1>1, <2>1, <3>1
    <3>2. CASE i # 1
      <4>1. /\ i - 1 \in 1..Len(q) /\ j - 1 \in 1..Len(q) /\ i - 1 < j - 1
            /\ (i - 1) + 1 = i /\ (j - 1) + 1 = j
        BY <2>1, <2>3, <3>2
      <4>2. w[i] = q[i - 1] /\ w[j] = q[j - 1]
        BY <2>1, <4>1
      <4> QED
        BY <2>3, <4>1, <4>2 DEF Prioritised
    <3> QED
      BY <3>1, <3>2
  <2> QED
    BY <2>1, <2>2, <2>3 DEF Prioritised
<1>2. CASE ~IsSteer(e)
  <2> DEFINE w == Append(q, e)
  <2>1. /\ w \in Seq(Entry) /\ Len(w) = Len(q) + 1 /\ w[Len(q) + 1] = e
        /\ \A j \in 1..Len(q) : w[j] = q[j]
    OBVIOUS
  <2>2. Insert(q, e) = w
    BY <1>2 DEF Insert
  <2> HIDE DEF w
  <2>3. ASSUME Prioritised(q), NEW i \in DOMAIN w, NEW j \in DOMAIN w, i < j, IsSteer(w[j])
        PROVE  IsSteer(w[i])
    <3>1. j # Len(q) + 1
      BY <1>2, <2>1, <2>3
    <3>2. i \in 1..Len(q) /\ j \in 1..Len(q)
      BY <2>1, <2>3, <3>1
    <3> QED
      BY <2>1, <2>3, <3>2 DEF Prioritised
  <2> QED
    BY <2>1, <2>2, <2>3 DEF Prioritised
<1> QED
  BY <1>1, <1>2

LEMMA RemoveKeeps ==
  ASSUME NEW q \in Seq(Entry), NEW i \in DOMAIN q
  PROVE  /\ RemoveAt(q, i) \in Seq(Entry)
         /\ Prioritised(q) => Prioritised(RemoveAt(q, i))
<1> DEFINE p == RemoveAt(q, i)
<1>1. /\ p \in Seq(Entry) /\ Len(p) = Len(q) - 1
      /\ \A j \in 1..Len(q) - 1 : /\ j < i => p[j] = q[j]
                                  /\ ~(j < i) => p[j] = q[j + 1]
  BY Removed
<1> HIDE DEF p
<1>2. ASSUME Prioritised(q), NEW j \in DOMAIN p, NEW k \in DOMAIN p, j < k, IsSteer(p[k])
      PROVE  IsSteer(p[j])
  <2>1. j \in 1..Len(q) - 1 /\ k \in 1..Len(q) - 1 /\ Len(q) \in Nat /\ i \in 1..Len(q)
    BY <1>1
  <2> DEFINE m == IF k < i THEN k ELSE k + 1
             n == IF j < i THEN j ELSE j + 1
  <2>2. p[k] = q[m] /\ p[j] = q[n]
    BY <1>1, <2>1
  <2>3. m \in DOMAIN q /\ n \in DOMAIN q /\ n < m
    BY <1>2, <2>1
  <2> HIDE DEF m, n
  <2> QED
    BY <1>2, <2>2, <2>3 DEF Prioritised
<1>3. Prioritised(q) => Prioritised(p)
  BY <1>2 DEF Prioritised
<1> QED
  BY <1>1, <1>3 DEF p

LEMMA TailKeeps ==
  ASSUME NEW q \in Seq(Entry), q # <<>>
  PROVE  /\ Head(q) \in Entry /\ Tail(q) \in Seq(Entry)
         /\ Prioritised(q) => Prioritised(Tail(q))
<1> DEFINE w == Tail(q)
<1>1. /\ Head(q) \in Entry /\ w \in Seq(Entry) /\ Len(w) = Len(q) - 1 /\ Len(q) \in Nat
      /\ \A j \in 1..Len(q) - 1 : w[j] = q[j + 1]
  OBVIOUS
<1> HIDE DEF w
<1>2. ASSUME Prioritised(q), NEW j \in DOMAIN w, NEW k \in DOMAIN w, j < k, IsSteer(w[k])
      PROVE  IsSteer(w[j])
  <2>1. /\ j + 1 \in DOMAIN q /\ k + 1 \in DOMAIN q /\ j + 1 < k + 1
        /\ w[j] = q[j + 1] /\ w[k] = q[k + 1]
    BY <1>1, <1>2
  <2> QED
    BY <1>2, <2>1 DEF Prioritised
<1>3. Prioritised(q) => Prioritised(w)
  BY <1>2 DEF Prioritised
<1> QED
  BY <1>1, <1>3 DEF w

\* SelectInSeq finds a place of the list or none.
LEMMA LeastPlace ==
  ASSUME NEW q \in Seq(Entry), NEW S \in SUBSET (1..Len(q)), S # {}
  PROVE  Min(S) \in S
<1>1. Len(q) \in Nat /\ S \subseteq Nat
  OBVIOUS
<1>2. IsWellFoundedOn({p \in Nat \X Nat : p[1] < p[2]}, Nat)
  BY NatLessThanWellFounded DEF OpToRel
<1>3. PICK x \in S : \A y \in S : ~(<<y, x>> \in {p \in Nat \X Nat : p[1] < p[2]})
  BY <1>1, <1>2, WFMin
<1>4. \A y \in S : x <= y
  <2> SUFFICES ASSUME NEW y \in S
               PROVE  x <= y
    OBVIOUS
  <2>1. x \in Nat /\ y \in Nat
    BY <1>1
  <2>2. ~(y < x)
    BY <1>3, <2>1
  <2> QED
    BY <2>1, <2>2
<1> QED
  BY <1>4 DEF Min

LEMMA FirstSteerPlace ==
  ASSUME NEW q \in Seq(Entry), FirstSteer(q) # 0
  PROVE  FirstSteer(q) \in DOMAIN q /\ q # <<>>
<1> DEFINE S == {i \in 1..Len(q) : IsSteer(q[i])}
<1>1. FirstSteer(q) = IF S # {} THEN Min(S) ELSE 0
  BY DEF FirstSteer, SelectInSeq
<1>2. S # {} /\ FirstSteer(q) = Min(S)
  BY <1>1
<1>3. Min(S) \in S
  BY <1>2, LeastPlace
<1> QED
  BY <1>2, <1>3

\* A prompt that is new, or waits already and moves.
LEMMA EnqueueKeeps ==
  ASSUME NEW q \in Seq(Entry), NEW text \in Text, NEW d \in Deliveries
  PROVE  /\ Enqueue(q, text, d) \in Seq(Entry)
         /\ Prioritised(q) => Prioritised(Enqueue(q, text, d))
<1> DEFINE S == {i \in 1..Len(q) : q[i].text = text}
           i == IF S # {} THEN Min(S) ELSE 0
           new == [text |-> text, delivery |-> d]
           to == IF d = "steer" \/ IsSteer(q[i]) THEN "steer" ELSE "queue"
           moved == [q[i] EXCEPT !.delivery = to]
<1>1. Enqueue(q, text, d) = IF i = 0 THEN Insert(q, new) ELSE Insert(RemoveAt(q, i), moved)
  BY DEF Enqueue, SelectInSeq
<1>2. new \in Entry
  BY DEF Entry
<1>3. i # 0 => i \in DOMAIN q
  <2>1. S # {} => Min(S) \in S
    BY LeastPlace
  <2> QED
    BY <2>1
<1> HIDE DEF i
<1>4. i # 0 => q[i] \in Entry
  BY <1>3
<1>5. to \in Deliveries
  BY DEF Deliveries
<1> HIDE DEF to
<1>6. i # 0 => moved \in Entry
  BY <1>4, <1>5 DEF Entry
<1> HIDE DEF new, moved
<1>7. CASE i = 0
  BY <1>1, <1>2, <1>7, InsertKeeps
<1>8. CASE i # 0
  <2>1. /\ RemoveAt(q, i) \in Seq(Entry)
        /\ Prioritised(q) => Prioritised(RemoveAt(q, i))
    BY <1>3, <1>8, RemoveKeeps
  <2> QED
    BY <1>1, <1>6, <1>8, <2>1, InsertKeeps
<1> QED
  BY <1>7, <1>8

\* An edited prompt: promoted, demoted or in place.
LEMMA UpdateKeeps ==
  ASSUME NEW q \in Seq(Entry), NEW i \in DOMAIN q, NEW text \in Text, NEW d \in Deliveries
  PROVE  /\ Update(q, i, text, d) \in Seq(Entry)
         /\ Prioritised(q) => Prioritised(Update(q, i, text, d))
<1> DEFINE e == [q[i] EXCEPT !.text = text, !.delivery = d]
<1>1. Update(q, i, text, d) = IF IsSteer(e) \/ IsSteer(q[i]) THEN Insert(RemoveAt(q, i), e)
                              ELSE InsertAt(RemoveAt(q, i), i, e)
  BY DEF Update
<1>2. e \in Entry
  <2>1. q[i] \in Entry
    OBVIOUS
  <2> QED
    BY <2>1 DEF Entry
<1> HIDE DEF e
<1>3. CASE IsSteer(e) \/ IsSteer(q[i])
  <2>1. /\ RemoveAt(q, i) \in Seq(Entry)
        /\ Prioritised(q) => Prioritised(RemoveAt(q, i))
    BY RemoveKeeps
  <2> QED
    BY <1>1, <1>2, <1>3, <2>1, InsertKeeps
<1>4. CASE ~IsSteer(e) /\ ~IsSteer(q[i])
  <2> DEFINE w == InsertAt(RemoveAt(q, i), i, e)
  <2>1. /\ w \in Seq(Entry) /\ Len(w) = Len(q) /\ w[i] = e
        /\ \A j \in 1..Len(q) : j # i => w[j] = q[j]
    BY <1>2, Replaced
  <2>2. Update(q, i, text, d) = w
    BY <1>1, <1>4
  <2> HIDE DEF w
  <2>3. ASSUME Prioritised(q), NEW j \in DOMAIN w, NEW k \in DOMAIN w, j < k, IsSteer(w[k])
        PROVE  IsSteer(w[j])
    <3>1. j \in DOMAIN q /\ k \in DOMAIN q
      BY <2>1
    <3>2. k # i
      BY <1>4, <2>1, <2>3
    <3>3. IsSteer(q[k])
      BY <2>1, <2>3, <3>1, <3>2
    <3>4. IsSteer(q[j])
      BY <2>3, <3>1, <3>3 DEF Prioritised
    <3>5. j # i
      BY <1>4, <3>4
    <3> QED
      BY <2>1, <3>1, <3>4, <3>5
  <2> QED
    BY <2>1, <2>2, <2>3 DEF Prioritised
<1> QED
  BY <1>3, <1>4

-----------------------------------------------------------------------------
(* The inductive invariant.                                                 *)

\* A shutdown has marked the session and waits, or is about to delete it.
Shutting == \E c \in Call : pc[c] \in {"draining", "releasing"}

\* The flag of drain() says whether a turn of its is under way, and there is one at most.
Drainer ==
  /\ \A t, u \in Turns : origin[t] = "drain" /\ origin[u] = "drain" => t = u
  /\ draining <=> \E t \in Turns : origin[t] = "drain"

\* The agent is shut down on the way out only.
Closing == live /\ shutdownCalled => Shutting

\* A session that has ended has not run since, unless its shutdown is under way.
Over ==
  live /\ status \in {"failed", "cancelled"} /\ ~Shutting =>
    \A t \in Turn : pc[t] \in {"none", "preparing", "marking", "idling", "caught", "closing"}

\* A session without a row has the status it began with.
Unsaved == ~artifacts => status = "running"

\* The shutdown that marks the session knows as what.
Aimed == \A c \in Call : pc[c] = "closing" => target[c] \in Statuses

TurnsInv ==
  /\ TypeOK /\ Aimed /\ Drainer /\ SteersFirst /\ AbortingHoldsPutBackOnly
  /\ SleepersHaveWork /\ Closing /\ Over /\ Unsaved /\ NoSilentStall

-----------------------------------------------------------------------------
(* What a step does to the calls.                                           *)

\* What the end, the continuation or the shutdown of a turn changes.
CallTypes ==
  /\ aborting \in BOOLEAN /\ draining \in BOOLEAN
  /\ unserved \in BOOLEAN /\ putBack \in BOOLEAN
  /\ lastReason \in Reasons /\ drains \in 0..2
  /\ pc \in [Call -> TurnPCs \cup ShutdownPCs]
  /\ origin \in [Turn -> {"caller", "drain"}]
  /\ entry \in [Turn -> Entry]
  /\ reason \in [Turn -> Reasons]
  /\ target \in [Call -> Statuses \cup {"none"}]

AgentTypes ==
  /\ running \in BOOLEAN /\ abortRequested \in BOOLEAN
  /\ shutdownCalled \in BOOLEAN /\ promise \in BOOLEAN

SessionTypes ==
  /\ live \in BOOLEAN /\ artifacts \in BOOLEAN
  /\ status \in Statuses
  /\ queue \in Seq(Entry)
  /\ active \subseteq TeamRun /\ updates \subseteq TeamRun /\ started \subseteq TeamRun
  /\ prompts \in 0..MaxPrompts

LEMMA Types == TypeOK <=> CallTypes /\ AgentTypes /\ SessionTypes
BY DEF TypeOK, CallTypes, AgentTypes, SessionTypes

Returns(t) == \E why \in Reasons : ReturnFrom(t, why)

Moves(t, l) ==
  /\ pc' = [pc EXCEPT ![t] = l]
  /\ UNCHANGED <<origin, target, draining, drains, unserved, putBack>>

\* A shutdown of c begins: it marks the session as st, or has no row to mark.
Leaves(c, st) ==
  \/ WakeSleepers(c, "closing") /\ target' = [target EXCEPT ![c] = st]
  \/ WakeSleepers(c, "releasing") /\ target' = target

Closes(t) ==
  /\ Leaves(t, "failed")
  /\ UNCHANGED <<origin, draining, drains, unserved, putBack>>

\* How aborting changes when a turn completes.
Calms == aborting' = aborting \/ aborting' = FALSE

LEMMA ScheduledType ==
  ASSUME NEW wanted \in BOOLEAN, drains \in 0..2
  PROVE  Scheduled(wanted) \in 0..2 /\ (wanted => Scheduled(wanted) # 0)
BY DEF Scheduled

LEMMA NoEntryType == NoEntry \in Entry
BY DEF NoEntry, Entry, Deliveries

LEMMA ReturnTypes ==
  ASSUME TypeOK, NEW t \in Turn, NEW why, ReturnFrom(t, why)
  PROVE  /\ pc' \in [Call -> TurnPCs \cup ShutdownPCs]
         /\ origin' \in [Turn -> {"caller", "drain"}] /\ entry' \in [Turn -> Entry]
         /\ reason' \in [Turn -> Reasons] /\ target' \in [Call -> Statuses \cup {"none"}]
         /\ draining' \in BOOLEAN /\ drains' \in 0..2 /\ unserved' \in BOOLEAN
         /\ putBack' \in BOOLEAN
<1>1. pc' = [pc EXCEPT ![t] = "none"] /\ "none" \in TurnPCs
  BY DEF ReturnFrom, Goto, TurnPCs
<1>2. pc' \in [Call -> TurnPCs \cup ShutdownPCs]
  BY <1>1 DEF TypeOK
<1>3. /\ origin' = [origin EXCEPT ![t] = "caller"]
      /\ entry' = [entry EXCEPT ![t] = NoEntry]
      /\ reason' = [reason EXCEPT ![t] = "none"] /\ target' = target
  BY DEF ReturnFrom, ForgetTurn
<1>4. /\ origin' \in [Turn -> {"caller", "drain"}] /\ entry' \in [Turn -> Entry]
      /\ reason' \in [Turn -> Reasons] /\ target' \in [Call -> Statuses \cup {"none"}]
  BY <1>3, NoEntryType DEF TypeOK, Reasons
<1>5. draining' \in BOOLEAN
  BY DEF ReturnFrom, WakeQueue
<1>6. unserved' \in BOOLEAN /\ putBack' \in BOOLEAN
  BY DEF ReturnFrom, TypeOK
<1>7. drains' \in 0..2
  BY DEF ReturnFrom, WakeQueue, Scheduled, TypeOK
<1> QED
  BY <1>2, <1>4, <1>5, <1>6, <1>7

LEMMA CompleteEffect ==
  ASSUME TypeOK, NEW t \in Turn, NEW why \in Reasons, NEW l \in {"idling", "caught"},
         CompleteTurn(t, why, l)
  PROVE  CallTypes' /\ Calms /\ (Returns(t) \/ Moves(t, l))
<1>1. CASE ReturnFrom(t, why) /\ UNCHANGED <<aborting, lastReason>>
  BY <1>1, ReturnTypes DEF CallTypes, Calms, Returns, TypeOK
<1>2. CASE ReturnFrom(t, why) /\ lastReason' = why /\ aborting' = FALSE
  BY <1>2, ReturnTypes DEF CallTypes, Calms, Returns
<1>3. CASE /\ Goto(t, l)
           /\ lastReason' = why /\ reason' = [reason EXCEPT ![t] = why]
           /\ UNCHANGED <<aborting, origin, entry, target, wake>>
  <2>1. pc' = [pc EXCEPT ![t] = l] /\ l \in TurnPCs
    BY <1>3 DEF Goto, TurnPCs
  <2>2. pc' \in [Call -> TurnPCs \cup ShutdownPCs]
    BY <2>1 DEF TypeOK
  <2>3. UNCHANGED <<aborting, origin, entry, target, draining, drains, unserved, putBack>>
    BY <1>3 DEF wake
  <2>4. reason' \in [Turn -> Reasons] /\ lastReason' \in Reasons
    BY <1>3 DEF TypeOK
  <2>5. CallTypes'
    BY <2>2, <2>3, <2>4 DEF CallTypes, TypeOK
  <2> QED
    BY <2>1, <2>3, <2>5 DEF Calms, Moves
<1> QED
  BY <1>1, <1>2, <1>3 DEF CompleteTurn

LEMMA WakeTypes ==
  ASSUME TypeOK, NEW c \in Call, NEW l \in TurnPCs \cup ShutdownPCs, WakeSleepers(c, l)
  PROVE  pc' \in [Call -> TurnPCs \cup ShutdownPCs]
<1>1. \A x \in Call : pc[x] \in TurnPCs \cup ShutdownPCs
  BY DEF TypeOK
<1> QED
  BY <1>1 DEF WakeSleepers, TurnPCs

LEMMA BeginsEffect ==
  ASSUME TypeOK, NEW c \in Call, NEW st \in Statuses, NEW persisted,
         ShutdownBegins(c, st, persisted)
  PROVE  /\ pc' \in [Call -> TurnPCs \cup ShutdownPCs]
         /\ target' \in [Call -> Statuses \cup {"none"}]
         /\ Leaves(c, st)
<1>1. CASE WakeSleepers(c, "closing") /\ target' = [target EXCEPT ![c] = st]
  BY <1>1, WakeTypes DEF Leaves, ShutdownPCs, TypeOK
<1>2. CASE WakeSleepers(c, "releasing") /\ target' = target
  BY <1>2, WakeTypes DEF Leaves, ShutdownPCs, TypeOK
<1> QED
  BY <1>1, <1>2 DEF ShutdownBegins

LEMMA ThrowsEffect ==
  ASSUME TypeOK, NEW t \in Turn, Throws(t)
  PROVE  /\ CallTypes' /\ Calms
         /\ (Returns(t) /\ aborting) \/ Moves(t, "caught") \/ Closes(t)
<1>1. CASE aborting /\ CompleteTurn(t, "aborted", "caught")
  BY <1>1, CompleteEffect DEF Reasons
<1>2. CASE /\ ShutdownBegins(t, "failed", artifacts') /\ LoseResult(t)
           /\ UNCHANGED <<aborting, lastReason, wake>>
  <2>1. /\ reason' = [reason EXCEPT ![t] = "none"]
        /\ UNCHANGED <<origin, entry, aborting, lastReason>>
        /\ UNCHANGED <<draining, drains, unserved, putBack>>
    BY <1>2 DEF LoseResult, wake
  <2>2. /\ pc' \in [Call -> TurnPCs \cup ShutdownPCs]
        /\ target' \in [Call -> Statuses \cup {"none"}]
        /\ Leaves(t, "failed")
    BY <1>2, BeginsEffect DEF Call, Statuses
  <2>3. reason' \in [Turn -> Reasons]
    BY <2>1 DEF TypeOK, Reasons
  <2>4. CallTypes'
    BY <2>1, <2>2, <2>3 DEF CallTypes, TypeOK
  <2> QED
    BY <2>1, <2>2, <2>4 DEF Calms, Closes
<1> QED
  BY <1>1, <1>2 DEF Throws

LEMMA AgentThrowsEffect ==
  ASSUME TypeOK, NEW t \in Turn, AgentTurnThrows(t)
  PROVE  CallTypes' /\ Calms /\ Moves(t, "thrown")
<1>1. /\ pc' = [pc EXCEPT ![t] = "thrown"] /\ reason' = [reason EXCEPT ![t] = "none"]
      /\ UNCHANGED <<origin, entry, target, aborting, lastReason>>
      /\ UNCHANGED <<draining, drains, unserved, putBack>>
  BY DEF AgentTurnThrows, LoseResult, Goto, wake
<1>2. pc' \in [Call -> TurnPCs \cup ShutdownPCs] /\ reason' \in [Turn -> Reasons]
  BY <1>1 DEF TypeOK, TurnPCs, Reasons
<1>3. CallTypes'
  BY <1>1, <1>2 DEF CallTypes, TypeOK
<1> QED
  BY <1>1, <1>3 DEF Calms, Moves

LEMMA RunStartsEffect ==
  ASSUME TypeOK, NEW t \in Turn, RunStarts(t)
  PROVE  /\ CallTypes' /\ AgentTypes' /\ Calms /\ shutdownCalled' = shutdownCalled
         /\ Moves(t, "setup") \/ Moves(t, "thrown")
<1>1. CASE /\ running' = TRUE /\ abortRequested' = FALSE /\ promise' = TRUE
           /\ Goto(t, "setup")
           /\ UNCHANGED <<locals, target, aborting, lastReason, wake, shutdownCalled>>
  <2>1. pc' = [pc EXCEPT ![t] = "setup"] /\ "setup" \in TurnPCs
    BY <1>1 DEF Goto, TurnPCs
  <2>2. pc' \in [Call -> TurnPCs \cup ShutdownPCs]
    BY <2>1 DEF TypeOK
  <2>3. /\ UNCHANGED <<origin, entry, reason, target, aborting, lastReason>>
        /\ UNCHANGED <<draining, drains, unserved, putBack, shutdownCalled>>
    BY <1>1 DEF locals, wake
  <2>4. CallTypes'
    BY <2>2, <2>3 DEF CallTypes, TypeOK
  <2>5. AgentTypes'
    BY <1>1, <2>3 DEF AgentTypes, TypeOK
  <2> QED
    BY <2>1, <2>3, <2>4, <2>5 DEF Calms, Moves
<1>2. CASE /\ promise' = FALSE /\ AgentTurnThrows(t)
           /\ UNCHANGED <<running, abortRequested, shutdownCalled>>
  <2>1. AgentTypes'
    BY <1>2 DEF AgentTypes, TypeOK
  <2> QED
    BY <1>2, <2>1, AgentThrowsEffect
<1> QED
  BY <1>1, <1>2 DEF RunStarts

\* The other calls, when t returns, moves on or begins a shutdown.
LEMMA ReturnFrame ==
  ASSUME TypeOK, NEW t \in Turn, Returns(t)
  PROVE  /\ \A c \in Call : c # t => pc'[c] = pc[c]
         /\ pc'[t] = "none"
         /\ \A u \in Turn : u # t => origin'[u] = origin[u]
         /\ draining' <=> (draining /\ origin[t] # "drain")
         /\ target' = target /\ putBack' = putBack
BY DEF Returns, ReturnFrom, Goto, WakeQueue, ForgetTurn, TypeOK, Call

LEMMA MovesFrame ==
  ASSUME TypeOK, NEW t \in Turn, NEW l, Moves(t, l)
  PROVE  /\ \A c \in Call : c # t => pc'[c] = pc[c]
         /\ pc'[t] = l
         /\ UNCHANGED <<origin, target, draining, drains, unserved, putBack>>
BY DEF Moves, TypeOK, Call

LEMMA ClosesFrame ==
  ASSUME TypeOK, NEW t \in Turn, Closes(t)
  PROVE  /\ \A c \in Call : c # t =>
              IF pc[c] = "asleep" THEN pc'[c] = "woken" ELSE pc'[c] = pc[c]
         /\ pc'[t] \in {"closing", "releasing"}
         /\ pc'[t] = "closing" => target'[t] = "failed"
         /\ \A c \in Call : c # t => target'[c] = target[c]
         /\ UNCHANGED <<origin, draining, drains, unserved, putBack>>
BY DEF Closes, Leaves, WakeSleepers, TypeOK, Call

-----------------------------------------------------------------------------
(* The steps of a turn.                                                     *)

Ongoing == {"setup", "run", "ran", "asleep", "woken", "thrown"}

TurnStep(t) ==
  /\ pc[t] \in (Ongoing \ {"asleep"}) \cup {"preparing", "marking", "idling", "caught"}
  /\ UNCHANGED <<live, queue, active, shutdownCalled, putBack>>
  /\ status' = status \/ (artifacts /\ status' \in {"running", "idle"})
  /\ artifacts => artifacts'
  /\ Calms
  /\ \/ /\ Returns(t)
        /\ aborting \/ status' \notin {"failed", "cancelled"} \/ pc[t] \in Ongoing
     \/ \E l \in TurnPCs \ {"none"} :
          /\ Moves(t, l)
          /\ l = "asleep" => active # {}
          /\ l \in Ongoing => status' \notin {"failed", "cancelled"} \/ pc[t] \in Ongoing
     \/ Closes(t)

LEMMA TypesNext == CallTypes' /\ AgentTypes' /\ SessionTypes' => TypeOK'
BY DEF TypeOK, CallTypes, AgentTypes, SessionTypes

LEMMA PreparedStep ==
  ASSUME TypeOK, NEW t \in Turn, Prepared(t)
  PROVE  TypeOK' /\ TurnStep(t)
<1>1. /\ pc[t] = "preparing" /\ artifacts' = TRUE /\ status' = status
      /\ UNCHANGED <<live, queue, prompts, active, updates, started>>
  BY DEF Prepared, team
<1>2. SessionTypes'
  BY <1>1 DEF SessionTypes, TypeOK
<1>3. CASE status = "running" /\ RunStarts(t)
  <2>1. /\ CallTypes' /\ AgentTypes' /\ Calms /\ shutdownCalled' = shutdownCalled
        /\ Moves(t, "setup") \/ Moves(t, "thrown")
    BY <1>3, RunStartsEffect
  <2>2. TurnStep(t)
    BY <1>1, <1>3, <2>1, MovesFrame DEF TurnStep, Ongoing, TurnPCs
  <2> QED
    BY <1>2, <2>1, <2>2, TypesNext
<1>4. CASE Goto(t, "marking") /\ UNCHANGED <<agent, locals, target, aborting, lastReason, wake>>
  <2>1. pc' = [pc EXCEPT ![t] = "marking"] /\ "marking" \in TurnPCs
    BY <1>4 DEF Goto, TurnPCs
  <2>2. pc' \in [Call -> TurnPCs \cup ShutdownPCs]
    BY <2>1 DEF TypeOK
  <2>3. /\ UNCHANGED <<origin, entry, reason, target, aborting, lastReason>>
        /\ UNCHANGED <<draining, drains, unserved, putBack>>
        /\ UNCHANGED <<running, abortRequested, shutdownCalled, promise>>
    BY <1>4 DEF locals, wake, agent
  <2>4. CallTypes' /\ AgentTypes'
    BY <2>2, <2>3 DEF CallTypes, AgentTypes, TypeOK
  <2>5. Moves(t, "marking") /\ Calms
    BY <2>1, <2>3 DEF Moves, Calms
  <2>6. TurnStep(t)
    BY <1>1, <2>1, <2>3, <2>5 DEF TurnStep, Ongoing
  <2> QED
    BY <1>2, <2>4, <2>6, TypesNext
<1> QED
  BY <1>3, <1>4 DEF Prepared

LEMMA MarkedRunningStep ==
  ASSUME TypeOK, Unsaved, NEW t \in Turn, MarkedRunning(t)
  PROVE  TypeOK' /\ TurnStep(t)
<1>1. /\ pc[t] = "marking" /\ RunStarts(t)
      /\ status' = status \/ (artifacts /\ status' = "running")
      /\ status' \notin {"failed", "cancelled"}
      /\ UNCHANGED <<live, artifacts, queue, prompts, active, updates, started>>
  BY DEF MarkedRunning, StatusWritten, Unsaved, team
<1>2. SessionTypes'
  BY <1>1 DEF SessionTypes, TypeOK, Statuses
<1>3. /\ CallTypes' /\ AgentTypes' /\ Calms /\ shutdownCalled' = shutdownCalled
      /\ Moves(t, "setup") \/ Moves(t, "thrown")
  BY <1>1, RunStartsEffect
<1>4. TurnStep(t)
  BY <1>1, <1>3, MovesFrame DEF TurnStep, Ongoing, TurnPCs
<1> QED
  BY <1>2, <1>3, <1>4, TypesNext

LEMMA SetupDoneStep ==
  ASSUME TypeOK, NEW t \in Turn, SetupDone(t)
  PROVE  TypeOK' /\ TurnStep(t)
<1>1. /\ pc[t] = "setup"
      /\ UNCHANGED <<live, artifacts, status, queue, prompts, active, updates, started>>
      /\ UNCHANGED <<origin, entry, reason, target, aborting, lastReason>>
      /\ UNCHANGED <<draining, drains, unserved, putBack>>
      /\ UNCHANGED <<running, abortRequested, shutdownCalled, promise>>
  BY DEF SetupDone, team, locals, wake, agent
<1>2. pc' = [pc EXCEPT ![t] = "run"] /\ "run" \in TurnPCs
  BY DEF SetupDone, Goto, TurnPCs
<1>3. pc' \in [Call -> TurnPCs \cup ShutdownPCs]
  BY <1>2 DEF TypeOK
<1>4. CallTypes' /\ AgentTypes' /\ SessionTypes'
  BY <1>1, <1>3 DEF CallTypes, AgentTypes, SessionTypes, TypeOK
<1>5. Moves(t, "run") /\ Calms
  BY <1>1, <1>2 DEF Moves, Calms
<1>6. TurnStep(t)
  BY <1>1, <1>2, <1>5 DEF TurnStep, Ongoing
<1> QED
  BY <1>4, <1>6, TypesNext

LEMMA SetupThrowsStep ==
  ASSUME TypeOK, NEW t \in Turn, SetupThrows(t)
  PROVE  TypeOK' /\ TurnStep(t)
<1>1. /\ pc[t] = "setup" /\ promise' = FALSE /\ AgentTurnThrows(t)
      /\ UNCHANGED <<live, artifacts, status, queue, prompts, active, updates, started>>
      /\ UNCHANGED <<running, abortRequested, shutdownCalled>>
  BY DEF SetupThrows, team
<1>2. AgentTypes' /\ SessionTypes'
  BY <1>1 DEF AgentTypes, SessionTypes, TypeOK
<1>3. CallTypes' /\ Calms /\ Moves(t, "thrown")
  BY <1>1, AgentThrowsEffect
<1>4. TurnStep(t)
  BY <1>1, <1>3, MovesFrame DEF TurnStep, Ongoing, TurnPCs
<1> QED
  BY <1>2, <1>3, <1>4, TypesNext

LEMMA ResultLostStep ==
  ASSUME TypeOK, NEW t \in Turn, ResultLost(t)
  PROVE  TypeOK' /\ TurnStep(t)
<1>1. /\ pc[t] = "ran" /\ AgentTurnThrows(t)
      /\ UNCHANGED <<live, artifacts, status, queue, prompts, active, updates, started>>
      /\ UNCHANGED <<running, abortRequested, shutdownCalled, promise>>
  BY DEF ResultLost, team, agent
<1>2. AgentTypes' /\ SessionTypes'
  BY <1>1 DEF AgentTypes, SessionTypes, TypeOK
<1>3. CallTypes' /\ Calms /\ Moves(t, "thrown")
  BY <1>1, AgentThrowsEffect
<1>4. TurnStep(t)
  BY <1>1, <1>3, MovesFrame DEF TurnStep, Ongoing, TurnPCs
<1> QED
  BY <1>2, <1>3, <1>4, TypesNext

LEMMA RunEndsStep ==
  ASSUME TypeOK, NEW t \in Turn, NEW why \in {"completed", "error", "aborted"}, RunEnds(t, why)
  PROVE  TypeOK' /\ TurnStep(t)
<1>1. /\ pc[t] = "run"
      /\ running' = FALSE /\ abortRequested' = FALSE /\ promise' = FALSE
      /\ reason' = [reason EXCEPT ![t] = why]
      /\ UNCHANGED <<live, artifacts, status, queue, prompts, active, updates, started>>
      /\ UNCHANGED <<origin, entry, target, aborting, lastReason, shutdownCalled>>
      /\ UNCHANGED <<draining, drains, unserved, putBack>>
  BY DEF RunEnds, team, wake
<1>2. pc' = [pc EXCEPT ![t] = "ran"] /\ "ran" \in TurnPCs
  BY DEF RunEnds, Goto, TurnPCs
<1>3. /\ pc' \in [Call -> TurnPCs \cup ShutdownPCs]
      /\ reason' \in [Turn -> Reasons]
  BY <1>1, <1>2 DEF TypeOK, Reasons
<1>4. CallTypes' /\ SessionTypes'
  BY <1>1, <1>3 DEF CallTypes, SessionTypes, TypeOK
<1>5. AgentTypes'
  BY <1>1 DEF AgentTypes, TypeOK
<1>6. Moves(t, "ran") /\ Calms
  BY <1>1, <1>2 DEF Moves, Calms
<1>7. TurnStep(t)
  BY <1>1, <1>2, <1>6 DEF TurnStep, Ongoing
<1> QED
  BY <1>4, <1>5, <1>7, TypesNext

\* What threw out of the try block of runTurn is a step of its turn.
LEMMA ThrownTurn ==
  ASSUME TypeOK, NEW t \in Turn,
         pc[t] \in {"preparing", "marking", "idling", "thrown"},
         UNCHANGED <<live, queue, active, shutdownCalled>>, artifacts => artifacts',
         status' = status \/ (artifacts /\ status' \in {"running", "idle"}), Calms,
         (Returns(t) /\ aborting) \/ Moves(t, "caught") \/ Closes(t)
  PROVE  TurnStep(t)
<1>1. CASE Returns(t) /\ aborting
  BY <1>1 DEF TurnStep, Ongoing, Returns, ReturnFrom
<1>2. CASE Moves(t, "caught")
  BY <1>2 DEF TurnStep, Ongoing, TurnPCs, Moves
<1>3. CASE Closes(t)
  BY <1>3 DEF TurnStep, Ongoing, Closes
<1> QED
  BY <1>1, <1>2, <1>3

LEMMA StoreThrowsStep ==
  ASSUME TypeOK, NEW t \in Turn, StoreThrows(t)
  PROVE  TypeOK' /\ TurnStep(t)
<1>1. /\ pc[t] \in {"preparing", "marking", "idling"} /\ Throws(t)
      /\ artifacts' \in BOOLEAN /\ (artifacts => artifacts')
      /\ status' = status \/ (artifacts /\ status' \in {"running", "idle"})
      /\ UNCHANGED <<live, queue, prompts, active, updates, started>>
      /\ UNCHANGED <<running, abortRequested, shutdownCalled, promise>>
  <2>1. CASE pc[t] = "preparing" /\ artifacts' \in {artifacts, TRUE} /\ UNCHANGED status
    BY <2>1 DEF StoreThrows, TypeOK, team, agent
  <2>2. CASE /\ pc[t] \in {"marking", "idling"} /\ UNCHANGED artifacts
             /\ StatusFails(IF pc[t] = "marking" THEN "running" ELSE "idle")
    BY <2>2 DEF StoreThrows, StatusFails, TypeOK, team, agent
  <2> QED
    BY <2>1, <2>2 DEF StoreThrows
<1>2. AgentTypes' /\ SessionTypes'
  BY <1>1 DEF AgentTypes, SessionTypes, TypeOK, Statuses
<1>3. /\ CallTypes' /\ Calms
      /\ (Returns(t) /\ aborting) \/ Moves(t, "caught") \/ Closes(t)
  BY <1>1, ThrowsEffect
<1>4. TurnStep(t)
  BY <1>1, <1>3, ThrownTurn
<1> QED
  BY <1>2, <1>3, <1>4, TypesNext

LEMMA ThrownStep ==
  ASSUME TypeOK, NEW t \in Turn, Thrown(t)
  PROVE  TypeOK' /\ TurnStep(t)
<1>1. /\ pc[t] = "thrown" /\ Throws(t)
      /\ UNCHANGED <<live, artifacts, status, queue, prompts, active, updates, started>>
      /\ UNCHANGED <<running, abortRequested, shutdownCalled, promise>>
  BY DEF Thrown, team, agent
<1>2. AgentTypes' /\ SessionTypes'
  BY <1>1 DEF AgentTypes, SessionTypes, TypeOK
<1>3. /\ CallTypes' /\ Calms
      /\ (Returns(t) /\ aborting) \/ Moves(t, "caught") \/ Closes(t)
  BY <1>1, ThrowsEffect
<1>4. TurnStep(t)
  BY <1>1, <1>3, ThrownTurn
<1> QED
  BY <1>2, <1>3, <1>4, TypesNext

LEMMA AwaitTeamEffect ==
  ASSUME TypeOK, NEW t \in Turn, AwaitTeam(t)
  PROVE  /\ CallTypes' /\ AgentTypes' /\ Calms /\ shutdownCalled' = shutdownCalled
         /\ updates' \subseteq TeamRun
         /\ \/ Returns(t)
            \/ Moves(t, "setup") \/ Moves(t, "thrown") \/ Moves(t, "idling")
            \/ Moves(t, "asleep") /\ active # {}
<1>1. CASE updates' = {} /\ RunStarts(t)
  BY <1>1, RunStartsEffect
<1>2. CASE /\ active # {} /\ Goto(t, "asleep")
           /\ UNCHANGED <<updates, agent, locals, target, aborting, lastReason, wake>>
  <2>1. pc' = [pc EXCEPT ![t] = "asleep"] /\ "asleep" \in TurnPCs
    BY <1>2 DEF Goto, TurnPCs
  <2>2. pc' \in [Call -> TurnPCs \cup ShutdownPCs]
    BY <2>1 DEF TypeOK
  <2>3. /\ UNCHANGED <<origin, entry, reason, target, aborting, lastReason, updates>>
        /\ UNCHANGED <<draining, drains, unserved, putBack>>
        /\ UNCHANGED <<running, abortRequested, shutdownCalled, promise>>
    BY <1>2 DEF locals, wake, agent
  <2>4. CallTypes' /\ AgentTypes'
    BY <2>2, <2>3 DEF CallTypes, AgentTypes, TypeOK
  <2>5. Moves(t, "asleep") /\ Calms /\ updates' \subseteq TeamRun
    BY <2>1, <2>3 DEF Moves, Calms, TypeOK
  <2> QED
    BY <1>2, <2>3, <2>4, <2>5
<1>3. CASE CompleteTurn(t, reason[t], "idling") /\ UNCHANGED <<updates, agent>>
  <2>1. reason[t] \in Reasons
    BY DEF TypeOK
  <2>2. CallTypes' /\ Calms /\ (Returns(t) \/ Moves(t, "idling"))
    BY <1>3, <2>1, CompleteEffect
  <2>3. UNCHANGED <<updates, running, abortRequested, shutdownCalled, promise>>
    BY <1>3 DEF agent
  <2> QED
    BY <2>2, <2>3 DEF AgentTypes, TypeOK
<1> QED
  BY <1>1, <1>2, <1>3 DEF AwaitTeam

LEMMA SettleStep ==
  ASSUME TypeOK, NEW t \in Turn, Settle(t)
  PROVE  TypeOK' /\ TurnStep(t)
<1>1. /\ pc[t] \in {"ran", "woken"}
      /\ UNCHANGED <<live, artifacts, status, queue, prompts, active, started>>
  BY DEF Settle
<1>2. /\ CallTypes' /\ AgentTypes' /\ Calms /\ shutdownCalled' = shutdownCalled
      /\ updates' \subseteq TeamRun
      /\ \/ Returns(t)
         \/ Moves(t, "setup") \/ Moves(t, "thrown") \/ Moves(t, "idling")
         \/ Moves(t, "asleep") /\ active # {}
  <2>1. CASE AwaitTeam(t)
    BY <2>1, AwaitTeamEffect
  <2>2. CASE CompleteTurn(t, reason[t], "idling") /\ UNCHANGED <<updates, agent>>
    <3>1. reason[t] \in Reasons
      BY DEF TypeOK
    <3>2. CallTypes' /\ Calms /\ (Returns(t) \/ Moves(t, "idling"))
      BY <2>2, <3>1, CompleteEffect
    <3>3. UNCHANGED <<updates, running, abortRequested, shutdownCalled, promise>>
      BY <2>2 DEF agent
    <3> QED
      BY <3>2, <3>3 DEF AgentTypes, TypeOK
  <2> QED
    BY <2>1, <2>2 DEF Settle
<1>3. SessionTypes'
  BY <1>1, <1>2 DEF SessionTypes, TypeOK
<1>4. putBack' = putBack
  BY <1>2 DEF Returns, ReturnFrom, Moves
<1>5. TurnStep(t)
  BY <1>1, <1>2, <1>4 DEF TurnStep, Ongoing, TurnPCs
<1> QED
  BY <1>2, <1>3, <1>5, TypesNext

LEMMA MarkedIdleStep ==
  ASSUME TypeOK, Unsaved, NEW t \in Turn, MarkedIdle(t)
  PROVE  TypeOK' /\ TurnStep(t)
<1>1. /\ pc[t] \in {"idling", "caught"} /\ aborting' = FALSE
      /\ status' = status \/ (artifacts /\ status' = "idle")
      /\ status' \notin {"failed", "cancelled"}
      /\ ReturnFrom(t, reason[t])
      /\ UNCHANGED <<live, artifacts, queue, prompts, active, updates, started, lastReason>>
      /\ UNCHANGED <<running, abortRequested, shutdownCalled, promise>>
  BY DEF MarkedIdle, StatusWritten, Unsaved, team, agent
<1>2. AgentTypes' /\ SessionTypes'
  BY <1>1 DEF AgentTypes, SessionTypes, TypeOK, Statuses
<1>3. CallTypes'
  BY <1>1, ReturnTypes DEF CallTypes, TypeOK
<1>4. Returns(t) /\ Calms /\ putBack' = putBack
  BY <1>1 DEF Returns, ReturnFrom, Calms, TypeOK
<1>5. TurnStep(t)
  BY <1>1, <1>4 DEF TurnStep, Ongoing
<1> QED
  BY <1>2, <1>3, <1>5, TypesNext

-----------------------------------------------------------------------------
(* A step of a turn keeps the invariant.                                    *)

\* Turns that go on keep the drain they carry.
LEMMA SameDrainer ==
  ASSUME Drainer, origin' = origin, draining' = draining,
         \A u \in Turn : pc'[u] = "none" <=> pc[u] = "none"
  PROVE  Drainer'
<1>1. Turns' = Turns
  BY DEF Turns
<1> QED
  BY <1>1 DEF Drainer

LEMMA TurnKeepsDrainer ==
  ASSUME TypeOK, Drainer, NEW t \in Turn, TurnStep(t)
  PROVE  Drainer'
<1>1. pc[t] # "none" /\ t \in Turns
  BY DEF TurnStep, Ongoing, Turns
<1>2. CASE Returns(t)
  <2>1. /\ \A u \in Turn : u # t => pc'[u] = pc[u] /\ origin'[u] = origin[u]
        /\ pc'[t] = "none"
        /\ draining' <=> (draining /\ origin[t] # "drain")
    BY <1>2, ReturnFrame DEF Call
  <2>2. Turns' = Turns \ {t}
    BY <2>1 DEF Turns
  <2>3. \A u \in Turns' : u \in Turns /\ u # t /\ origin'[u] = origin[u]
    BY <2>1, <2>2 DEF Turns
  <2> QED
    BY <1>1, <2>1, <2>2, <2>3 DEF Drainer
<1>3. ASSUME NEW l \in TurnPCs \ {"none"}, Moves(t, l)
      PROVE  Drainer'
  <2>1. /\ \A u \in Turn : pc'[u] = "none" <=> pc[u] = "none"
        /\ origin' = origin /\ draining' = draining
    BY <1>1, <1>3, MovesFrame DEF Call
  <2> QED
    BY <2>1, SameDrainer
<1>4. CASE Closes(t)
  <2>1. /\ \A u \in Turn : pc'[u] = "none" <=> pc[u] = "none"
        /\ origin' = origin /\ draining' = draining
    BY <1>1, <1>4, ClosesFrame DEF Call
  <2> QED
    BY <2>1, SameDrainer
<1> QED
  BY <1>2, <1>3, <1>4 DEF TurnStep

\* Whoever sleeps, and whoever shuts the session down, does so still, or was woken.
LEMMA TurnFrame ==
  ASSUME TypeOK, NEW t \in Turn, TurnStep(t)
  PROVE  /\ \A u \in Turn : pc'[u] = "asleep" => pc[u] = "asleep" \/ active # {}
         /\ \A c \in Call : pc[c] \in {"draining", "releasing"} => pc'[c] = pc[c]
         /\ pc'[Stopper] = "none" => pc[Stopper] = "none"
         /\ \A u \in Turn : u # t => pc'[u] = pc[u] \/ pc[u] = "asleep"
         /\ draining' => draining
<1>1. t # Stopper /\ t \in Call /\ Stopper \in Call /\ \A u \in Turn : u \in Call
  BY SessionTurnsAssumption DEF Call
<1>2. pc[t] \notin {"none", "draining", "releasing"}
  BY DEF TurnStep, Ongoing
<1>3. /\ \A c \in Call : c # t => \/ pc'[c] = pc[c]
                                  \/ pc[c] = "asleep" /\ pc'[c] = "woken"
      /\ pc'[t] = "asleep" => active # {}
      /\ draining' => draining
  <2>1. CASE Returns(t)
    BY <2>1, ReturnFrame
  <2>2. ASSUME NEW l \in TurnPCs \ {"none"}, Moves(t, l), l = "asleep" => active # {}
        PROVE  /\ \A c \in Call : c # t => pc'[c] = pc[c]
               /\ pc'[t] = "asleep" => active # {}
               /\ draining' => draining
    BY <2>2, MovesFrame
  <2>3. CASE Closes(t)
    BY <2>3, ClosesFrame
  <2> QED
    BY <2>1, <2>2, <2>3 DEF TurnStep
<1> QED
  BY <1>1, <1>2, <1>3

LEMMA TurnKeepsAimed ==
  ASSUME TypeOK, Aimed, NEW t \in Turn, TurnStep(t)
  PROVE  Aimed'
<1> SUFFICES ASSUME NEW c \in Call, pc'[c] = "closing"
             PROVE  target'[c] \in Statuses
  BY DEF Aimed
<1>1. pc[t] # "closing"
  BY DEF TurnStep, Ongoing
<1>2. CASE Returns(t)
  BY <1>1, <1>2, ReturnFrame DEF Aimed
<1>3. ASSUME NEW l \in TurnPCs \ {"none"}, Moves(t, l)
      PROVE  target'[c] \in Statuses
  <2>1. c # t
    BY <1>3, MovesFrame DEF TurnPCs
  <2> QED
    BY <1>3, <2>1, MovesFrame DEF Aimed
<1>4. CASE Closes(t)
  <2>1. CASE c = t
    BY <1>4, <2>1, ClosesFrame DEF Statuses
  <2>2. CASE c # t
    BY <1>4, <2>2, ClosesFrame DEF Aimed
  <2> QED
    BY <2>1, <2>2
<1> QED
  BY <1>2, <1>3, <1>4 DEF TurnStep

LEMMA TurnKeepsOver ==
  ASSUME TypeOK, Over, NEW t \in Turn, TurnStep(t)
  PROVE  Over'
<1> DEFINE Early == {"none", "preparing", "marking", "idling", "caught", "closing"}
<1> SUFFICES ASSUME live', status' \in {"failed", "cancelled"}, ~Shutting', NEW u \in Turn
             PROVE  pc'[u] \in Early
  BY DEF Over
<1>1. live /\ status \in {"failed", "cancelled"} /\ status' = status
  BY DEF TurnStep
<1>2. \A c \in Call : pc[c] \notin {"draining", "releasing"}
  BY TurnFrame DEF Shutting
<1>3. \A x \in Turn : pc[x] \in Early
  BY <1>1, <1>2 DEF Over, Shutting
<1>4. CASE u # t
  BY <1>3, <1>4, TurnFrame
<1>5. CASE u = t
  <2>1. u \in Call /\ pc'[u] \notin {"draining", "releasing"}
    BY DEF Shutting, Call
  <2>2. CASE Returns(t)
    BY <1>5, <2>2, ReturnFrame
  <2>3. ASSUME NEW l \in TurnPCs \ {"none"}, Moves(t, l),
               l \in Ongoing => status' \notin {"failed", "cancelled"} \/ pc[t] \in Ongoing
        PROVE  pc'[u] \in Early
    <3>1. pc'[u] = l
      BY <1>5, <2>3, MovesFrame
    <3>2. l \notin Ongoing
      BY <1>1, <1>3, <2>3 DEF Ongoing
    <3> QED
      BY <3>1, <3>2 DEF TurnPCs, Ongoing
  <2>4. CASE Closes(t)
    BY <1>5, <2>1, <2>4, ClosesFrame
  <2> QED
    BY <2>2, <2>3, <2>4 DEF TurnStep
<1> QED
  BY <1>4, <1>5

\* The prompts that wait when the last turn returns get a drain, unless nobody will.
LEMMA TurnKeepsServing ==
  ASSUME TurnsInv, NEW t \in Turn, TurnStep(t)
  PROVE  NoSilentStall'
<1> USE DEF TurnsInv
<1> SUFFICES ASSUME live', queue' # <<>>, Turns' = {}, drains' = 0, pc'[Stopper] = "none"
             PROVE  unserved' \/ aborting'
  BY DEF NoSilentStall, Stalled
<1>1. live /\ queue # <<>> /\ pc[Stopper] = "none"
  BY TurnFrame DEF TurnStep
<1>2. draining => ~aborting
  BY <1>1 DEF AbortingHoldsPutBackOnly
<1>3. pc'[t] = "none" /\ \A u \in Turn : pc'[u] = "none"
  BY DEF Turns
<1>4. Returns(t)
  <2>1. ASSUME NEW l \in TurnPCs \ {"none"}, Moves(t, l)
        PROVE  FALSE
    BY <1>3, <2>1, MovesFrame
  <2>2. ~Closes(t)
    BY <1>3, ClosesFrame
  <2> QED
    BY <2>1, <2>2 DEF TurnStep
<1>5. CASE origin[t] = "drain"
  <2>1. ~aborting
    <3>1. t \in Turns
      BY DEF TurnStep, Ongoing, Turns
    <3> QED
      BY <1>2, <1>5, <3>1 DEF Drainer
  <2>2. status' \notin {"failed", "cancelled"}
    <3> SUFFICES ASSUME status' \in {"failed", "cancelled"} PROVE FALSE
      OBVIOUS
    <3>1. status = status'
      BY DEF TurnStep
    <3>2. pc[t] \in Ongoing
      <4>1. ASSUME NEW l \in TurnPCs \ {"none"}
            PROVE  ~Moves(t, l)
        BY <1>3, MovesFrame
      <4>2. ~Closes(t)
        BY <1>3, ClosesFrame
      <4> QED
        BY <2>1, <4>1, <4>2 DEF TurnStep
    <3>3. PICK c \in Call : pc[c] \in {"draining", "releasing"}
      BY <1>1, <3>1, <3>2 DEF Over, Shutting, Ongoing
    <3>4. pc'[c] \in {"draining", "releasing"}
      BY <3>3, TurnFrame
    <3> QED
      BY <1>1, <1>3, <3>3, <3>4 DEF Call
  <2>3. PICK why \in Reasons : ReturnFrom(t, why)
    BY <1>4 DEF Returns
  <2>4. drains' = Scheduled(queue # <<>> /\ status' \notin {"failed", "cancelled"})
    BY <1>5, <2>3 DEF ReturnFrom, WakeQueue
  <2> QED
    BY <1>1, <2>2, <2>4 DEF Scheduled, TypeOK
<1>6. CASE origin[t] # "drain"
  <2>1. PICK why \in Reasons : ReturnFrom(t, why)
    BY <1>4 DEF Returns
  <2>2. drains' = Scheduled(why = "completed") /\ (unserved' <=> why # "completed")
    BY <1>6, <2>1 DEF ReturnFrom, WakeQueue, TypeOK
  <2> QED
    BY <2>2 DEF Scheduled, TypeOK
<1> QED
  BY <1>5, <1>6

LEMMA TurnKeeps ==
  ASSUME TurnsInv, NEW t \in Turn, TurnStep(t), TypeOK'
  PROVE  TurnsInv'
<1> USE DEF TurnsInv
<1>1. Aimed' /\ Drainer' /\ Over' /\ NoSilentStall'
  BY TurnKeepsAimed, TurnKeepsDrainer, TurnKeepsOver, TurnKeepsServing
<1>2. UNCHANGED <<live, queue, active, shutdownCalled, putBack>> /\ Calms
  BY DEF TurnStep
<1>3. SteersFirst'
  BY <1>2 DEF SteersFirst, Prioritised, IsSteer
<1>4. AbortingHoldsPutBackOnly'
  BY <1>2, TurnFrame DEF AbortingHoldsPutBackOnly, Calms
<1>5. SleepersHaveWork'
  BY <1>2, TurnFrame DEF SleepersHaveWork
<1>6. Closing'
  BY <1>2, TurnFrame DEF Closing, Shutting
<1>7. Unsaved'
  BY DEF TurnStep, Unsaved
<1> QED
  BY <1>1, <1>3, <1>4, <1>5, <1>6, <1>7

-----------------------------------------------------------------------------
(* The steps that move no turn.                                             *)

\* Where every call stands still, only the prompts are to be looked at.
LEMMA SameCalls ==
  ASSUME Aimed, Drainer, Closing, Over, Unsaved, SleepersHaveWork,
         UNCHANGED <<pc, origin, target, draining, live, artifacts, shutdownCalled, status>>,
         active' = active
  PROVE  Aimed' /\ Drainer' /\ Closing' /\ Over' /\ Unsaved' /\ SleepersHaveWork'
<1>1. Turns' = Turns
  BY DEF Turns
<1>2. Shutting' <=> Shutting
  BY DEF Shutting
<1>3. Drainer'
  BY <1>1 DEF Drainer
<1>4. Closing' /\ Over'
  BY <1>2 DEF Closing, Over
<1>5. SleepersHaveWork' /\ Aimed' /\ Unsaved'
  BY DEF SleepersHaveWork, Aimed, Unsaved
<1> QED
  BY <1>3, <1>4, <1>5

\* Where no call is under way nothing hinders the next drain but a run left behind.
LEMMA Quiet ==
  ASSUME TurnsInv, live, Turns = {}, pc[Stopper] = "none"
  PROVE  ~draining /\ ~shutdownCalled /\ InFlight = {}
<1>1. ~draining
  BY DEF TurnsInv, Drainer
<1>2. \A c \in Call : pc[c] = "none"
  BY DEF Turns, Call
<1>3. ~Shutting
  BY <1>2 DEF Shutting
<1>4. InFlight = {}
  BY DEF InFlight, Turns
<1> QED
  BY <1>1, <1>3, <1>4 DEF TurnsInv, Closing

LEMMA EditKeeps ==
  ASSUME TurnsInv, NEW q \in Seq(Entry), EditQueue(q), prompts' \in 0..MaxPrompts,
         Prioritised(queue) => Prioritised(q)
  PROVE  TurnsInv'
<1> USE DEF TurnsInv
<1>1. /\ live /\ ~aborting /\ queue' = q
      /\ UNCHANGED <<live, artifacts, status, aborting, lastReason>>
      /\ UNCHANGED <<active, updates, started, pc, origin, entry, reason, target>>
      /\ UNCHANGED <<running, abortRequested, shutdownCalled, promise>>
      /\ UNCHANGED <<draining, unserved, putBack>>
  BY DEF EditQueue, SessionEditable, team, agent, locals
<1>2. drains' = Scheduled(q # <<>> /\ ~aborting /\ ~draining /\ CanStartRun)
  BY DEF EditQueue, ScheduleDrain
<1>3. drains' \in 0..2
  BY <1>2 DEF Scheduled, TypeOK
<1>4. CallTypes' /\ AgentTypes' /\ SessionTypes'
  BY <1>1, <1>3 DEF CallTypes, AgentTypes, SessionTypes, TypeOK
<1>5. Aimed' /\ Drainer' /\ Closing' /\ Over' /\ Unsaved' /\ SleepersHaveWork'
  BY <1>1, SameCalls
<1>6. SteersFirst'
  <2>1. ~putBack => Prioritised(q)
    BY <1>1 DEF SteersFirst
  <2>2. Prioritised(q) => Prioritised(queue)'
    BY <1>1 DEF Prioritised, IsSteer
  <2> QED
    BY <1>1, <2>1, <2>2 DEF SteersFirst
<1>7. AbortingHoldsPutBackOnly'
  BY <1>1 DEF AbortingHoldsPutBackOnly
<1>8. NoSilentStall'
  <2> SUFFICES ASSUME q # <<>>, Turns' = {}, drains' = 0, pc'[Stopper] = "none"
               PROVE  running /\ InFlight' = {}
    BY <1>1 DEF NoSilentStall, Stalled
  <2>1. Turns = {} /\ pc[Stopper] = "none"
    BY <1>1 DEF Turns
  <2>2. ~draining /\ ~shutdownCalled /\ InFlight = {}
    BY <1>1, <2>1, Quiet
  <2>3. ~CanStartRun
    BY <1>1, <1>2, <2>2 DEF Scheduled, TypeOK
  <2> QED
    BY <1>1, <2>2, <2>3 DEF CanStartRun, InFlight
<1> QED
  BY <1>4, <1>5, <1>6, <1>7, <1>8, TypesNext

LEMMA EnqueueStep ==
  ASSUME TurnsInv, NEW text \in Text, NEW d \in Deliveries, EnqueuePrompt(text, d)
  PROVE  TurnsInv'
<1>1. EditQueue(Enqueue(queue, text, d)) /\ prompts' \in 0..MaxPrompts
  BY SessionTurnsAssumption DEF EnqueuePrompt, TurnsInv, TypeOK
<1>2. queue \in Seq(Entry)
  BY DEF TurnsInv, TypeOK
<1>3. /\ Enqueue(queue, text, d) \in Seq(Entry)
      /\ Prioritised(queue) => Prioritised(Enqueue(queue, text, d))
  BY <1>2, EnqueueKeeps
<1> QED
  BY <1>1, <1>3, EditKeeps

LEMMA UpdateStep ==
  ASSUME TurnsInv, NEW i \in DOMAIN queue, NEW text \in Text, NEW d \in Deliveries,
         UpdatePrompt(i, text, d)
  PROVE  TurnsInv'
<1>1. EditQueue(Update(queue, i, text, d)) /\ prompts' \in 0..MaxPrompts
  BY DEF UpdatePrompt, TurnsInv, TypeOK
<1>2. queue \in Seq(Entry)
  BY DEF TurnsInv, TypeOK
<1>3. /\ Update(queue, i, text, d) \in Seq(Entry)
      /\ Prioritised(queue) => Prioritised(Update(queue, i, text, d))
  BY <1>2, UpdateKeeps
<1> QED
  BY <1>1, <1>3, EditKeeps

LEMMA DeleteStep ==
  ASSUME TurnsInv, NEW i \in DOMAIN queue, DeletePrompt(i)
  PROVE  TurnsInv'
<1>1. EditQueue(RemoveAt(queue, i)) /\ prompts' \in 0..MaxPrompts
  BY DEF DeletePrompt, TurnsInv, TypeOK
<1>2. queue \in Seq(Entry)
  BY DEF TurnsInv, TypeOK
<1>3. /\ RemoveAt(queue, i) \in Seq(Entry)
      /\ Prioritised(queue) => Prioritised(RemoveAt(queue, i))
  BY <1>2, RemoveKeeps
<1> QED
  BY <1>1, <1>3, EditKeeps

\* The agent takes a steer: one prompt less, and the turn goes on.
LEMMA ConsumeStep ==
  ASSUME TurnsInv, NEW t \in Turn, ConsumeSteer(t)
  PROVE  TurnsInv'
<1> USE DEF TurnsInv
<1> DEFINE i == FirstSteer(queue)
<1>1. /\ live /\ pc[t] = "run" /\ i # 0 /\ queue' = RemoveAt(queue, i)
      /\ UNCHANGED <<live, artifacts, status, prompts, aborting, lastReason>>
      /\ UNCHANGED <<active, updates, started, pc, origin, entry, reason, target>>
      /\ UNCHANGED <<running, abortRequested, shutdownCalled, promise>>
      /\ UNCHANGED <<draining, drains, unserved, putBack>>
  BY DEF ConsumeSteer, team, agent, call, locals, wake
<1>2. queue \in Seq(Entry)
  BY DEF TypeOK
<1>3. i \in DOMAIN queue /\ queue # <<>>
  BY <1>1, <1>2, FirstSteerPlace
<1> HIDE DEF i
<1>4. /\ queue' \in Seq(Entry) /\ Len(queue') = Len(queue) - 1
      /\ Prioritised(queue) => Prioritised(queue')
  BY <1>1, <1>2, <1>3, Removed, RemoveKeeps
<1>5. CallTypes' /\ AgentTypes' /\ SessionTypes'
  BY <1>1, <1>4 DEF CallTypes, AgentTypes, SessionTypes, TypeOK
<1>6. Aimed' /\ Drainer' /\ Closing' /\ Over' /\ Unsaved' /\ SleepersHaveWork'
  BY <1>1, SameCalls
<1>7. SteersFirst'
  BY <1>1, <1>4 DEF SteersFirst, Prioritised, IsSteer
<1>8. AbortingHoldsPutBackOnly'
  <2> SUFFICES ASSUME aborting, pc[Stopper] = "none"
               PROVE  queue' = <<>>
    BY <1>1 DEF AbortingHoldsPutBackOnly
  <2>1. Len(queue') = 0
    BY <1>1, <1>3, <1>4 DEF AbortingHoldsPutBackOnly
  <2> QED
    BY <1>4, <2>1
<1>9. NoSilentStall'
  <2>1. t \in Turns'
    BY <1>1 DEF Turns
  <2> QED
    BY <2>1 DEF NoSilentStall
<1> QED
  BY <1>5, <1>6, <1>7, <1>8, <1>9, TypesNext

\* Nothing waits after an abort.
LEMMA AbortStep ==
  ASSUME TurnsInv, Abort
  PROVE  TurnsInv'
<1> USE DEF TurnsInv
<1>1. /\ aborting' = TRUE /\ queue' = <<>> /\ abortRequested' = TRUE
      /\ UNCHANGED <<live, artifacts, status, prompts, lastReason>>
      /\ UNCHANGED <<active, updates, started, pc, origin, entry, reason, target>>
      /\ UNCHANGED <<running, shutdownCalled, promise>>
      /\ UNCHANGED <<draining, drains, unserved>> /\ putBack' = FALSE
  BY DEF Abort, RemainingAfterAbort, team, locals, wake
<1>2. queue' \in Seq(Entry)
  BY <1>1
<1>3. CallTypes'
  BY <1>1 DEF CallTypes, TypeOK
<1>4. AgentTypes'
  BY <1>1 DEF AgentTypes, TypeOK
<1>5. SessionTypes'
  BY <1>1, <1>2 DEF SessionTypes, TypeOK
<1>6. Aimed' /\ Drainer' /\ Closing' /\ Over' /\ Unsaved' /\ SleepersHaveWork'
  BY <1>1, SameCalls
<1>7. SteersFirst'
  BY <1>1 DEF SteersFirst, Prioritised
<1>8. AbortingHoldsPutBackOnly' /\ NoSilentStall'
  BY <1>1 DEF AbortingHoldsPutBackOnly, NoSilentStall
<1> QED
  BY <1>3, <1>4, <1>5, <1>6, <1>7, <1>8, TypesNext

LEMMA TeamRunStartsStep ==
  ASSUME TurnsInv, NEW t \in Turn, NEW r \in TeamRun, TeamRunStarts(t, r)
  PROVE  TurnsInv'
<1> USE DEF TurnsInv
<1>1. /\ active' = active \cup {r} /\ started' = started \cup {r}
      /\ UNCHANGED <<live, artifacts, status, queue, prompts, aborting, lastReason>>
      /\ UNCHANGED <<updates, pc, origin, entry, reason, target>>
      /\ UNCHANGED <<running, abortRequested, shutdownCalled, promise>>
      /\ UNCHANGED <<draining, drains, unserved, putBack>>
  BY DEF TeamRunStarts, agent, call, locals, wake
<1>2. CallTypes' /\ AgentTypes' /\ SessionTypes'
  BY <1>1 DEF CallTypes, AgentTypes, SessionTypes, TypeOK
<1>3. Turns' = Turns /\ InFlight' = InFlight /\ (Shutting' <=> Shutting)
  BY <1>1 DEF Turns, InFlight, Shutting
<1>4. Aimed' /\ Drainer' /\ Closing' /\ Over' /\ Unsaved'
  BY <1>1, <1>3 DEF Aimed, Drainer, Closing, Over, Unsaved
<1>5. SleepersHaveWork'
  BY <1>1 DEF SleepersHaveWork
<1>6. SteersFirst' /\ AbortingHoldsPutBackOnly'
  BY <1>1 DEF SteersFirst, Prioritised, IsSteer, AbortingHoldsPutBackOnly
<1>7. NoSilentStall'
  BY <1>1, <1>3 DEF NoSilentStall, Stalled
<1> QED
  BY <1>2, <1>4, <1>5, <1>6, <1>7, TypesNext

\* A teammate's report wakes every turn that waits.
LEMMA TeamRunEndsStep ==
  ASSUME TurnsInv, NEW r \in TeamRun, TeamRunEnds(r)
  PROVE  TurnsInv'
<1> USE DEF TurnsInv
<1>1. /\ active' = active \ {r} /\ updates' = updates \cup {r}
      /\ UNCHANGED <<live, artifacts, status, queue, prompts, aborting, lastReason>>
      /\ UNCHANGED <<started, origin, entry, reason, target>>
      /\ UNCHANGED <<running, abortRequested, shutdownCalled, promise>>
      /\ UNCHANGED <<draining, drains, unserved, putBack>>
  BY DEF TeamRunEnds, agent, locals, wake
<1>2. Stopper \in Call /\ Stopper \notin Turn /\ pc[Stopper] \in TurnPCs \cup ShutdownPCs
  BY SessionTurnsAssumption DEF Call, TypeOK
<1>3. WakeSleepers(Stopper, pc[Stopper])
  BY DEF TeamRunEnds, NotifyWaiters
<1>4. pc' \in [Call -> TurnPCs \cup ShutdownPCs]
  BY <1>2, <1>3, WakeTypes
<1>5. /\ pc'[Stopper] = pc[Stopper]
      /\ \A u \in Turn : \/ pc'[u] = pc[u] /\ pc[u] # "asleep"
                         \/ pc[u] = "asleep" /\ pc'[u] = "woken"
  BY <1>2, <1>3 DEF WakeSleepers, Call
<1>6. CallTypes' /\ AgentTypes' /\ SessionTypes'
  BY <1>1, <1>4 DEF CallTypes, AgentTypes, SessionTypes, TypeOK
<1>7. Turns' = Turns /\ InFlight' = InFlight
  BY <1>5 DEF Turns, InFlight
<1>8. Shutting' <=> Shutting
  BY <1>5 DEF Shutting, Call
<1>9. Aimed' /\ Drainer' /\ Closing'
  <2>1. Aimed'
    BY <1>1, <1>2, <1>5 DEF Aimed, Call
  <2> QED
    BY <1>1, <1>7, <1>8, <2>1 DEF Drainer, Closing
<1>10. Over' /\ Unsaved'
  BY <1>1, <1>5, <1>8 DEF Over, Unsaved
<1>11. SleepersHaveWork'
  BY <1>5 DEF SleepersHaveWork
<1>12. SteersFirst'
  BY <1>1 DEF SteersFirst, Prioritised, IsSteer
<1>13. AbortingHoldsPutBackOnly'
  BY <1>1, <1>5 DEF AbortingHoldsPutBackOnly
<1>14. NoSilentStall'
  BY <1>1, <1>5, <1>7 DEF NoSilentStall, Stalled
<1> QED
  BY <1>6, <1>9, <1>10, <1>11, <1>12, <1>13, <1>14, TypesNext

-----------------------------------------------------------------------------
(* Turns that start.                                                        *)

LEMMA StartEffect ==
  ASSUME TypeOK, NEW t \in Turn, NEW e \in Entry, NEW from \in {"caller", "drain"},
         StartTurn(t, e, from)
  PROVE  /\ pc[t] = "none" /\ pc'[t] = "preparing" /\ \A c \in Call : c # t => pc'[c] = pc[c]
         /\ origin'[t] = from /\ \A u \in Turn : u # t => origin'[u] = origin[u]
         /\ pc' \in [Call -> TurnPCs \cup ShutdownPCs]
         /\ origin' \in [Turn -> {"caller", "drain"}] /\ entry' \in [Turn -> Entry]
         /\ unserved' = FALSE
<1>1. /\ pc' = [pc EXCEPT ![t] = "preparing"] /\ pc[t] = "none"
      /\ origin' = [origin EXCEPT ![t] = from] /\ entry' = [entry EXCEPT ![t] = e]
      /\ unserved' = FALSE
  BY DEF StartTurn, Goto
<1>2. t \in Call /\ "preparing" \in TurnPCs
  BY DEF Call, TurnPCs
<1> QED
  BY <1>1, <1>2 DEF TypeOK

\* A turn that starts where every other one stands still.
LEMMA StartKeeps ==
  ASSUME TurnsInv, NEW t \in Turn, NEW e \in Entry, NEW from \in {"caller", "drain"},
         StartTurn(t, e, from),
         UNCHANGED <<live, artifacts, shutdownCalled, status, active, aborting, target>>,
         \/ from = "caller" /\ draining' = draining
         \/ from = "drain" /\ ~draining /\ draining' = TRUE
  PROVE  Aimed' /\ Drainer' /\ Closing' /\ Over' /\ Unsaved' /\ SleepersHaveWork' /\ NoSilentStall'
<1> USE DEF TurnsInv
<1>1. /\ pc[t] = "none" /\ pc'[t] = "preparing" /\ \A c \in Call : c # t => pc'[c] = pc[c]
      /\ origin'[t] = from /\ \A u \in Turn : u # t => origin'[u] = origin[u]
  BY StartEffect
<1>2. Turns' = Turns \cup {t} /\ t \notin Turns
  BY <1>1 DEF Turns, Call
<1>3. \A u \in Turns : u # t /\ origin'[u] = origin[u]
  BY <1>1, <1>2 DEF Turns
<1>4. Drainer'
  BY <1>1, <1>2, <1>3 DEF Drainer
<1>5. Shutting' <=> Shutting
  BY <1>1 DEF Shutting
<1>6. Closing' /\ Over' /\ SleepersHaveWork'
  BY <1>1, <1>5 DEF Closing, Over, SleepersHaveWork, Call
<1>7. NoSilentStall'
  BY <1>2 DEF NoSilentStall
<1>8. Aimed' /\ Unsaved'
  BY <1>1 DEF Aimed, Unsaved
<1> QED
  BY <1>4, <1>6, <1>7, <1>8

LEMMA SendStep ==
  ASSUME TurnsInv, NEW t \in Turn, SendStarts(t)
  PROVE  TurnsInv'
<1> USE DEF TurnsInv
<1>1. /\ StartTurn(t, NoEntry, "caller") /\ prompts' \in 0..MaxPrompts
      /\ UNCHANGED <<live, artifacts, status, queue, reason, target, aborting, lastReason>>
      /\ UNCHANGED <<active, updates, started, draining, drains, putBack>>
      /\ UNCHANGED <<running, abortRequested, shutdownCalled, promise>>
  BY SessionTurnsAssumption DEF SendStarts, team, agent, TypeOK
<1>2. /\ pc' \in [Call -> TurnPCs \cup ShutdownPCs]
      /\ origin' \in [Turn -> {"caller", "drain"}] /\ entry' \in [Turn -> Entry]
      /\ unserved' = FALSE
  BY <1>1, StartEffect, NoEntryType
<1>3. CallTypes' /\ AgentTypes' /\ SessionTypes'
  BY <1>1, <1>2 DEF CallTypes, AgentTypes, SessionTypes, TypeOK
<1>4. Aimed' /\ Drainer' /\ Closing' /\ Over' /\ Unsaved' /\ SleepersHaveWork' /\ NoSilentStall'
  BY <1>1, StartKeeps, NoEntryType
<1>5. SteersFirst'
  BY <1>1 DEF SteersFirst, Prioritised, IsSteer
<1>6. pc'[Stopper] = pc[Stopper]
  BY <1>1, StartEffect, NoEntryType, SessionTurnsAssumption DEF Call
<1>7. AbortingHoldsPutBackOnly'
  BY <1>1, <1>6 DEF AbortingHoldsPutBackOnly
<1> QED
  BY <1>3, <1>4, <1>5, <1>7, TypesNext

\* The microtask takes one prompt, if nothing is in its way.
LEMMA DrainStep ==
  ASSUME TurnsInv, NEW t \in Turn, Drain(t)
  PROVE  TurnsInv'
<1> USE DEF TurnsInv
<1>1. /\ drains > 0 /\ drains' = drains - 1
      /\ UNCHANGED <<live, artifacts, status, prompts, reason, target, aborting, lastReason>>
      /\ UNCHANGED <<active, updates, started, putBack>>
      /\ UNCHANGED <<running, abortRequested, shutdownCalled, promise>>
  BY DEF Drain, team, agent
<1>2. drains' \in 0..2
  BY <1>1 DEF TypeOK
<1>3. AgentTypes'
  BY <1>1 DEF AgentTypes, TypeOK
<1>4. ASSUME live, DrainAllowed, queue # <<>>, queue' = Tail(queue), draining' = TRUE,
             StartTurn(t, Head(queue), "drain")
      PROVE  TurnsInv'
  <2>1. /\ Head(queue) \in Entry /\ queue' \in Seq(Entry)
        /\ Prioritised(queue) => Prioritised(queue')
    BY <1>4, TailKeeps DEF TypeOK
  <2>2. /\ pc' \in [Call -> TurnPCs \cup ShutdownPCs]
        /\ origin' \in [Turn -> {"caller", "drain"}] /\ entry' \in [Turn -> Entry]
        /\ unserved' = FALSE
    BY <1>4, <2>1, StartEffect
  <2>3. CallTypes' /\ SessionTypes'
    BY <1>1, <1>2, <1>4, <2>1, <2>2 DEF CallTypes, SessionTypes, TypeOK
  <2>4. ~draining /\ ~aborting
    BY <1>4 DEF DrainAllowed
  <2>5. Aimed' /\ Drainer' /\ Closing' /\ Over' /\ Unsaved' /\ SleepersHaveWork' /\ NoSilentStall'
    BY <1>1, <1>4, <2>1, <2>4, StartKeeps
  <2>6. SteersFirst'
    BY <1>1, <1>4, <2>1 DEF SteersFirst, Prioritised, IsSteer
  <2>7. AbortingHoldsPutBackOnly'
    BY <1>1, <2>4 DEF AbortingHoldsPutBackOnly
  <2> QED
    BY <1>3, <2>3, <2>5, <2>6, <2>7, TypesNext
<1>5. ASSUME ~(live /\ DrainAllowed /\ queue # <<>>),
             UNCHANGED <<queue, draining, pc, origin, entry, unserved>>
      PROVE  TurnsInv'
  <2>1. CallTypes' /\ SessionTypes'
    BY <1>1, <1>2, <1>5 DEF CallTypes, SessionTypes, TypeOK
  <2>2. Aimed' /\ Drainer' /\ Closing' /\ Over' /\ Unsaved' /\ SleepersHaveWork'
    BY <1>1, <1>5, SameCalls
  <2>3. SteersFirst' /\ AbortingHoldsPutBackOnly'
    BY <1>1, <1>5 DEF SteersFirst, Prioritised, IsSteer, AbortingHoldsPutBackOnly
  <2>4. NoSilentStall'
    <3> SUFFICES ASSUME live, queue # <<>>, Turns' = {}, pc[Stopper] = "none"
                 PROVE  aborting \/ (running /\ InFlight' = {})
      BY <1>1, <1>5 DEF NoSilentStall, Stalled
    <3>1. Turns = {}
      BY <1>5 DEF Turns
    <3>2. ~draining /\ ~shutdownCalled /\ InFlight = {}
      BY <3>1, Quiet
    <3> QED
      BY <1>5, <3>2 DEF DrainAllowed, CanStartRun, InFlight
  <2> QED
    BY <1>3, <2>1, <2>2, <2>3, <2>4, TypesNext
<1> QED
  BY <1>4, <1>5 DEF Drain

-----------------------------------------------------------------------------
(* Shutdowns.                                                               *)

\* A call goes on its way out, and those that slept may wake.
Outward(c) ==
  /\ c # Stopper => pc[c] # "none"
  /\ pc[c] # "releasing"
  /\ pc'[c] \in {"closing", "draining", "releasing"}
  /\ \A x \in Call : x # c => \/ pc'[x] = pc[x]
                              \/ pc[x] = "asleep" /\ pc'[x] = "woken"
  /\ UNCHANGED <<live, origin, draining, active, queue, putBack>>
  /\ pc'[c] = "closing" =>
       /\ shutdownCalled' = shutdownCalled /\ status' = status /\ pc[c] # "draining"
       /\ target'[c] \in Statuses
  /\ \A x \in Call : x # c => target'[x] = target[x]
  /\ aborting' = aborting \/ c = Stopper
  /\ artifacts' = artifacts /\ (status' = status \/ artifacts)

LEMMA OutwardKeeps ==
  ASSUME TurnsInv, NEW c \in Call, Outward(c)
  PROVE  /\ Aimed' /\ Drainer' /\ SteersFirst' /\ AbortingHoldsPutBackOnly' /\ SleepersHaveWork'
         /\ Closing' /\ Over' /\ Unsaved' /\ NoSilentStall'
<1> USE DEF TurnsInv, Outward
<1>1. Stopper \in Call /\ Stopper \notin Turn /\ \A t \in Turn : t \in Call
  BY SessionTurnsAssumption DEF Call
<1>2. \A t \in Turn : pc'[t] = "none" <=> pc[t] = "none"
  BY <1>1
<1>3. Turns' = Turns
  BY <1>2 DEF Turns
<1>4. Drainer'
  BY <1>3 DEF Drainer
<1>5. SteersFirst'
  BY DEF SteersFirst, Prioritised, IsSteer
<1>6. c # Stopper => c \in Turns
  BY DEF Call, Turns
<1>7. pc'[Stopper] = "none" => pc[Stopper] = "none" /\ c # Stopper
  BY <1>1
<1>8. AbortingHoldsPutBackOnly'
  BY <1>7 DEF AbortingHoldsPutBackOnly
<1>9. SleepersHaveWork'
  BY <1>1 DEF SleepersHaveWork
<1>10. Shutting => Shutting'
  <2> SUFFICES ASSUME NEW x \in Call, pc[x] \in {"draining", "releasing"}
               PROVE  pc'[x] \in {"draining", "releasing"}
    BY DEF Shutting
  <2> QED
    OBVIOUS
<1>11. pc'[c] # "closing" => Shutting'
  BY DEF Shutting
<1>12. Closing'
  BY <1>10, <1>11 DEF Closing
<1>13. Over'
  BY <1>1, <1>10, <1>11 DEF Over
<1>14. Aimed' /\ Unsaved'
  BY DEF Aimed, Unsaved
<1>15. NoSilentStall'
  BY <1>3, <1>6, <1>7 DEF NoSilentStall
<1> QED
  BY <1>4, <1>5, <1>8, <1>9, <1>12, <1>13, <1>14, <1>15

LEMMA AgentShutdownEffect ==
  ASSUME TypeOK, NEW c \in Call, AgentShutdown(c)
  PROVE  /\ pc' \in [Call -> TurnPCs \cup ShutdownPCs]
         /\ pc'[c] \in {"draining", "releasing"}
         /\ \A x \in Call : x # c => pc'[x] = pc[x]
         /\ shutdownCalled' \in BOOLEAN
BY DEF AgentShutdown, Goto, ShutdownPCs, TypeOK

LEMMA StopStep ==
  ASSUME TurnsInv, NEW aborts \in BOOLEAN, Stop(aborts)
  PROVE  TurnsInv'
<1> USE DEF TurnsInv
<1>1. /\ pc[Stopper] = "none" /\ Stopper \in Call
      /\ UNCHANGED <<live, artifacts, status, queue, prompts, lastReason>>
      /\ UNCHANGED <<active, updates, started, origin, entry, reason>>
      /\ UNCHANGED <<running, promise, draining, drains, unserved, putBack>>
  BY DEF Stop, team, locals, wake, Call
<1>2. SessionTypes'
  BY <1>1 DEF SessionTypes, TypeOK
<1>3. ASSUME AgentShutdown(Stopper), UNCHANGED <<aborting, abortRequested, target>>
      PROVE  TurnsInv'
  <2>1. /\ pc' \in [Call -> TurnPCs \cup ShutdownPCs]
        /\ pc'[Stopper] \in {"draining", "releasing"}
        /\ \A x \in Call : x # Stopper => pc'[x] = pc[x]
        /\ shutdownCalled' \in BOOLEAN
    BY <1>1, <1>3, AgentShutdownEffect
  <2>2. CallTypes' /\ AgentTypes'
    BY <1>1, <1>3, <2>1 DEF CallTypes, AgentTypes, TypeOK
  <2>3. Outward(Stopper)
    BY <1>1, <1>3, <2>1 DEF Outward
  <2> QED
    BY <1>1, <1>2, <2>2, <2>3, OutwardKeeps, TypesNext
<1>4. ASSUME NEW st \in Statuses, ShutdownBegins(Stopper, st, artifacts),
             shutdownCalled' = shutdownCalled,
             aborting' \in BOOLEAN, abortRequested' \in BOOLEAN
      PROVE  TurnsInv'
  <2>1. /\ pc' \in [Call -> TurnPCs \cup ShutdownPCs]
        /\ target' \in [Call -> Statuses \cup {"none"}]
        /\ Leaves(Stopper, st)
    BY <1>1, <1>4, BeginsEffect
  <2>2. /\ pc'[Stopper] \in {"closing", "releasing"}
        /\ \A x \in Call : x # Stopper =>
             \/ pc'[x] = pc[x]
             \/ pc[x] = "asleep" /\ pc'[x] = "woken"
    BY <1>1, <2>1 DEF Leaves, WakeSleepers
  <2>3. CallTypes' /\ AgentTypes'
    BY <1>1, <1>4, <2>1 DEF CallTypes, AgentTypes, TypeOK
  <2>4. /\ pc'[Stopper] = "closing" => target'[Stopper] \in Statuses
        /\ \A x \in Call : x # Stopper => target'[x] = target[x]
    BY <1>1, <2>1 DEF Leaves, WakeSleepers, TypeOK
  <2>5. Outward(Stopper)
    BY <1>1, <1>4, <2>2, <2>4 DEF Outward
  <2> QED
    BY <1>1, <1>2, <2>3, <2>5, OutwardKeeps, TypesNext
<1>5. StopStatus \in Statuses /\ "cancelled" \in Statuses
  BY DEF StopStatus, Statuses
<1>6. CASE /\ ShutdownBegins(Stopper, StopStatus, artifacts)
           /\ UNCHANGED <<aborting, abortRequested, shutdownCalled>>
  BY <1>4, <1>5, <1>6 DEF TypeOK
<1>7. CASE /\ aborting' = (aborting \/ aborts) /\ abortRequested' = (abortRequested \/ aborts)
           /\ ShutdownBegins(Stopper, "cancelled", artifacts)
           /\ UNCHANGED shutdownCalled
  BY <1>4, <1>5, <1>7 DEF TypeOK
<1> QED
  BY <1>3, <1>6, <1>7 DEF Stop

LEMMA ShutdownMarkedStep ==
  ASSUME TurnsInv, NEW c \in Call, ShutdownMarked(c)
  PROVE  TurnsInv'
<1> USE DEF TurnsInv
<1>1. /\ pc[c] = "closing" /\ AgentShutdown(c)
      /\ status' = status \/ (artifacts /\ status' = target[c])
      /\ target' = [target EXCEPT ![c] = "none"]
      /\ UNCHANGED <<live, artifacts, queue, prompts, aborting, lastReason>>
      /\ UNCHANGED <<active, updates, started, origin, entry, reason>>
      /\ UNCHANGED <<running, abortRequested, promise, draining, drains, unserved, putBack>>
  BY DEF ShutdownMarked, StatusWritten, StatusFails, team, locals, wake
<1>2. status' \in Statuses
  BY <1>1 DEF Aimed, TypeOK
<1>3. /\ pc' \in [Call -> TurnPCs \cup ShutdownPCs]
      /\ pc'[c] \in {"draining", "releasing"}
      /\ \A x \in Call : x # c => pc'[x] = pc[x]
      /\ shutdownCalled' \in BOOLEAN
  BY <1>1, AgentShutdownEffect
<1>4. /\ target' \in [Call -> Statuses \cup {"none"}]
      /\ \A x \in Call : x # c => target'[x] = target[x]
  BY <1>1 DEF TypeOK
<1>5. CallTypes' /\ AgentTypes' /\ SessionTypes'
  BY <1>1, <1>2, <1>3, <1>4 DEF CallTypes, AgentTypes, SessionTypes, TypeOK
<1>6. Outward(c)
  BY <1>1, <1>3, <1>4 DEF Outward
<1> QED
  BY <1>5, <1>6, OutwardKeeps, TypesNext

LEMMA ShutdownDrainedStep ==
  ASSUME TurnsInv, NEW c \in Call, ShutdownDrained(c)
  PROVE  TurnsInv'
<1> USE DEF TurnsInv
<1>1. /\ pc[c] = "draining" /\ shutdownCalled' = (shutdownCalled \/ ~running)
      /\ pc' = [pc EXCEPT ![c] = "releasing"]
      /\ UNCHANGED <<live, artifacts, status, queue, prompts, aborting, lastReason, target>>
      /\ UNCHANGED <<active, updates, started, origin, entry, reason>>
      /\ UNCHANGED <<running, abortRequested, promise, draining, drains, unserved, putBack>>
  BY DEF ShutdownDrained, Goto, team, locals, wake
<1>2. /\ pc' \in [Call -> TurnPCs \cup ShutdownPCs]
      /\ pc'[c] = "releasing" /\ \A x \in Call : x # c => pc'[x] = pc[x]
  BY <1>1 DEF TypeOK, ShutdownPCs
<1>3. CallTypes' /\ AgentTypes' /\ SessionTypes'
  BY <1>1, <1>2 DEF CallTypes, AgentTypes, SessionTypes, TypeOK
<1>4. Outward(c)
  BY <1>1, <1>2 DEF Outward
<1> QED
  BY <1>3, <1>4, OutwardKeeps, TypesNext

\* A turn that rejects is over, and drain() with it if it was one of drain()'s.
LEMMA RejectsEffect ==
  ASSUME TypeOK, Drainer, NEW t \in Turn, pc[t] # "none", Rejects(t),
         UNCHANGED <<target, aborting, lastReason>>
  PROVE  /\ CallTypes' /\ queue' \in Seq(Entry) /\ Drainer' /\ unserved'
         /\ pc'[t] = "none" /\ \A x \in Call : x # t => pc'[x] = pc[x]
         /\ \/ draining /\ ~draining' /\ putBack' /\ Len(queue') = Len(queue) + 1
            \/ UNCHANGED <<queue, draining, putBack>>
<1>1. /\ pc' = [pc EXCEPT ![t] = "none"]
      /\ origin' = [origin EXCEPT ![t] = "caller"]
      /\ entry' = [entry EXCEPT ![t] = NoEntry]
      /\ reason' = [reason EXCEPT ![t] = "none"]
      /\ unserved' = TRUE /\ drains' = drains
  BY DEF Rejects, ForgetTurn, Goto
<1>2. /\ pc' \in [Call -> TurnPCs \cup ShutdownPCs] /\ pc'[t] = "none"
      /\ \A x \in Call : x # t => pc'[x] = pc[x]
  BY <1>1 DEF TypeOK, TurnPCs, Call
<1>3. /\ origin' \in [Turn -> {"caller", "drain"}] /\ entry' \in [Turn -> Entry]
      /\ reason' \in [Turn -> Reasons]
      /\ \A u \in Turn : u # t => origin'[u] = origin[u]
  BY <1>1, NoEntryType DEF TypeOK, Reasons
<1>4. /\ t \in Turns /\ Turns' = Turns \ {t}
      /\ \A u \in Turns' : u \in Turns /\ u # t /\ origin'[u] = origin[u]
  BY <1>2, <1>3 DEF Turns, Call
<1>5. CASE origin[t] = "drain"
  <2>1. /\ queue' = <<entry[t]>> \o queue /\ draining' = FALSE /\ putBack' = TRUE
        /\ entry[t] \in Entry /\ queue \in Seq(Entry)
    BY <1>5 DEF Rejects, RequeueFront, TypeOK
  <2>2. queue' \in Seq(Entry) /\ Len(queue') = Len(queue) + 1
    BY <2>1
  <2>3. draining /\ Drainer'
    BY <1>4, <1>5, <2>1 DEF Drainer
  <2>4. CallTypes'
    BY <1>1, <1>2, <1>3, <2>1 DEF CallTypes, TypeOK
  <2> QED
    BY <1>1, <1>2, <2>1, <2>2, <2>3, <2>4
<1>6. CASE origin[t] # "drain"
  <2>1. UNCHANGED <<queue, draining, putBack>>
    BY <1>6 DEF Rejects
  <2>2. Drainer'
    BY <1>4, <1>6, <2>1 DEF Drainer
  <2>3. CallTypes' /\ queue' \in Seq(Entry)
    BY <1>1, <1>2, <1>3, <2>1 DEF CallTypes, TypeOK
  <2> QED
    BY <1>1, <1>2, <2>1, <2>2, <2>3
<1> QED
  BY <1>5, <1>6

\* The idle update of an aborted turn fails again: drain() puts its prompt back on the
\* list the abort has emptied, and the session goes on aborting.
LEMMA IdleThrowsStep ==
  ASSUME TurnsInv, NEW t \in Turn, IdleThrows(t)
  PROVE  TurnsInv'
<1> USE DEF TurnsInv
<1>1. /\ pc[t] = "caught" /\ Rejects(t)
      /\ status' = status \/ (artifacts /\ status' = "idle")
      /\ UNCHANGED <<live, artifacts, prompts, target, aborting, lastReason>>
      /\ UNCHANGED <<active, updates, started>>
      /\ UNCHANGED <<running, abortRequested, shutdownCalled, promise>>
  BY DEF IdleThrows, StatusFails, team, agent
<1>2. /\ CallTypes' /\ queue' \in Seq(Entry) /\ Drainer' /\ unserved'
      /\ pc'[t] = "none" /\ \A x \in Call : x # t => pc'[x] = pc[x]
      /\ \/ draining /\ ~draining' /\ putBack' /\ Len(queue') = Len(queue) + 1
         \/ UNCHANGED <<queue, draining, putBack>>
  BY <1>1, RejectsEffect
<1>3. AgentTypes' /\ SessionTypes'
  BY <1>1, <1>2 DEF AgentTypes, SessionTypes, TypeOK, Statuses
<1>4. t \in Call /\ Stopper \in Call /\ t # Stopper /\ \A u \in Turn : u \in Call
  BY SessionTurnsAssumption DEF Call
<1>5. Shutting' <=> Shutting
  BY <1>1, <1>2, <1>4 DEF Shutting
<1>6. Closing' /\ Over' /\ Unsaved'
  BY <1>1, <1>2, <1>4, <1>5 DEF Closing, Over, Unsaved
<1>7. Aimed' /\ SleepersHaveWork'
  BY <1>1, <1>2, <1>4 DEF Aimed, SleepersHaveWork
<1>8. SteersFirst'
  BY <1>1, <1>2 DEF SteersFirst, Prioritised, IsSteer
<1>9. AbortingHoldsPutBackOnly'
  <2> SUFFICES ASSUME live, aborting, pc[Stopper] = "none", queue' # <<>>
               PROVE  Len(queue') = 1 /\ putBack' /\ ~draining'
    BY <1>1, <1>2, <1>4 DEF AbortingHoldsPutBackOnly
  <2>1. CASE draining /\ ~draining' /\ putBack' /\ Len(queue') = Len(queue) + 1
    <3>1. queue = <<>>
      BY <2>1 DEF AbortingHoldsPutBackOnly
    <3> QED
      BY <2>1, <3>1
  <2>2. CASE UNCHANGED <<queue, draining, putBack>>
    BY <2>2 DEF AbortingHoldsPutBackOnly
  <2> QED
    BY <1>2, <2>1, <2>2
<1>10. NoSilentStall'
  BY <1>2 DEF NoSilentStall, Stalled
<1> QED
  BY <1>2, <1>3, <1>6, <1>7, <1>8, <1>9, <1>10, TypesNext

\* The session is deleted; a turn of drain() puts its prompt back.
LEMMA ShutdownReleasesStep ==
  ASSUME TurnsInv, NEW c \in Call, ShutdownReleases(c)
  PROVE  TurnsInv'
<1> USE DEF TurnsInv
<1>1. /\ pc[c] = "releasing" /\ live' = FALSE
      /\ UNCHANGED <<artifacts, status, prompts, target, aborting, lastReason>>
      /\ UNCHANGED <<active, updates, started>>
      /\ UNCHANGED <<running, abortRequested, shutdownCalled, promise>>
  BY DEF ShutdownReleases, team, agent
<1>2. /\ CallTypes' /\ queue' \in Seq(Entry) /\ Drainer'
      /\ pc'[c] = "none" /\ \A x \in Call : x # c => pc'[x] = pc[x]
  <2>1. CASE c \in Turn /\ Rejects(c)
    BY <1>1, <2>1, RejectsEffect
  <2>2. CASE /\ c = Stopper /\ Goto(c, "none")
             /\ UNCHANGED <<queue, locals, wake>>
    <3>1. /\ pc' = [pc EXCEPT ![c] = "none"]
          /\ UNCHANGED <<queue, origin, entry, reason, draining, drains, unserved, putBack>>
      BY <2>2 DEF Goto, locals, wake
    <3>2. /\ pc' \in [Call -> TurnPCs \cup ShutdownPCs] /\ pc'[c] = "none"
          /\ \A x \in Call : x # c => pc'[x] = pc[x]
      BY <3>1 DEF TypeOK, TurnPCs
    <3>3. Turns' = Turns
      BY <2>2, <3>2, SessionTurnsAssumption DEF Turns, Call
    <3>4. Drainer'
      BY <3>1, <3>3 DEF Drainer
    <3>5. CallTypes' /\ queue' \in Seq(Entry)
      BY <1>1, <3>1, <3>2 DEF CallTypes, TypeOK
    <3> QED
      BY <3>2, <3>4, <3>5
  <2> QED
    BY <2>1, <2>2 DEF ShutdownReleases
<1>3. AgentTypes' /\ SessionTypes'
  BY <1>1, <1>2 DEF AgentTypes, SessionTypes, TypeOK
<1>4. Aimed' /\ SleepersHaveWork'
  BY <1>1, <1>2 DEF Aimed, SleepersHaveWork, Call
<1>5. SteersFirst' /\ AbortingHoldsPutBackOnly' /\ Closing' /\ Over' /\ NoSilentStall'
  BY <1>1 DEF SteersFirst, AbortingHoldsPutBackOnly, Closing, Over, NoSilentStall
<1>6. Unsaved'
  BY <1>1 DEF Unsaved
<1> QED
  BY <1>2, <1>3, <1>4, <1>5, <1>6, TypesNext

-----------------------------------------------------------------------------
(* The theorems.                                                            *)

LEMMA InitInv == Init => TurnsInv
<1> SUFFICES ASSUME Init PROVE TurnsInv
  OBVIOUS
<1>1. /\ \A c \in Call : pc[c] = "none" /\ target[c] = "none"
      /\ \A t \in Turn : origin[t] = "caller"
  BY DEF Init, Call
<1>2. CallTypes
  <2>1. /\ pc = [c \in Call |-> "none"] /\ target = [c \in Call |-> "none"]
        /\ origin = [t \in Turn |-> "caller"] /\ entry = [t \in Turn |-> NoEntry]
        /\ reason = [t \in Turn |-> "none"]
    BY DEF Init
  <2>2. /\ aborting \in BOOLEAN /\ draining \in BOOLEAN
        /\ unserved \in BOOLEAN /\ putBack \in BOOLEAN
    BY DEF Init
  <2>3. lastReason = "none" /\ drains \in 0..2
    BY DEF Init
  <2>4. "none" \in TurnPCs /\ "none" \in Reasons
    BY DEF TurnPCs, Reasons
  <2>5. /\ pc \in [Call -> TurnPCs \cup ShutdownPCs]
        /\ target \in [Call -> Statuses \cup {"none"}]
    BY <2>1, <2>4
  <2>6. /\ origin \in [Turn -> {"caller", "drain"}] /\ entry \in [Turn -> Entry]
        /\ reason \in [Turn -> Reasons]
    BY <2>1, <2>4, NoEntryType
  <2> QED
    BY <2>2, <2>3, <2>4, <2>5, <2>6 DEF CallTypes
<1>3. AgentTypes
  BY DEF Init, AgentTypes
<1>4. SessionTypes
  <2>1. status \in Statuses /\ artifacts \in BOOLEAN /\ live \in BOOLEAN
    BY SessionTurnsAssumption DEF Init, Statuses
  <2>2. queue = <<>> /\ active = {} /\ updates = {} /\ started = {} /\ prompts = 0
    BY DEF Init
  <2>3. queue \in Seq(Entry)
    BY <2>2
  <2> QED
    BY <2>1, <2>2, <2>3, SessionTurnsAssumption DEF SessionTypes
<1>5. TypeOK
  BY <1>2, <1>3, <1>4, Types
<1>6. Turns = {} /\ ~Shutting
  BY <1>1 DEF Turns, Shutting, Call
<1>7. Aimed /\ SleepersHaveWork /\ Over /\ Unsaved
  BY <1>1 DEF Init, Aimed, SleepersHaveWork, Over, Unsaved, Call
<1>8. Drainer
  BY <1>6 DEF Init, Drainer
<1>9. SteersFirst /\ AbortingHoldsPutBackOnly /\ NoSilentStall
  BY DEF Init, SteersFirst, Prioritised, AbortingHoldsPutBackOnly, NoSilentStall
<1>10. Closing
  BY DEF Init, Closing
<1> QED
  BY <1>5, <1>7, <1>8, <1>9, <1>10 DEF TurnsInv

LEMMA StutterStep ==
  ASSUME TurnsInv, UNCHANGED vars
  PROVE  TurnsInv'
<1> USE DEF TurnsInv
<1>1. /\ UNCHANGED <<live, artifacts, status, queue, prompts, aborting, lastReason>>
      /\ UNCHANGED <<active, updates, started, pc, origin, entry, reason, target>>
      /\ UNCHANGED <<running, abortRequested, shutdownCalled, promise>>
      /\ UNCHANGED <<draining, drains, unserved, putBack>>
  BY DEF vars, team, agent, call, locals, wake
<1>2. CallTypes' /\ AgentTypes' /\ SessionTypes'
  BY <1>1 DEF CallTypes, AgentTypes, SessionTypes, TypeOK
<1>3. Aimed' /\ Drainer' /\ Closing' /\ Over' /\ Unsaved' /\ SleepersHaveWork'
  BY <1>1, SameCalls
<1>4. SteersFirst' /\ AbortingHoldsPutBackOnly'
  BY <1>1 DEF SteersFirst, Prioritised, IsSteer, AbortingHoldsPutBackOnly
<1>5. NoSilentStall'
  BY <1>1 DEF NoSilentStall, Stalled, Turns, InFlight
<1> QED
  BY <1>2, <1>3, <1>4, <1>5, TypesNext

LEMMA ProgressKeeps ==
  ASSUME TurnsInv, NEW t \in Turn, Progress(t) \/ Fails(t)
  PROVE  TurnsInv'
<1>1. CASE IdleThrows(t)
  BY <1>1, IdleThrowsStep
<1>2. CASE ~IdleThrows(t)
  <2>1. TypeOK /\ Unsaved
    BY DEF TurnsInv
  <2>2. TypeOK' /\ TurnStep(t)
    BY <1>2, <2>1, PreparedStep, MarkedRunningStep, SetupDoneStep, SetupThrowsStep,
       RunEndsStep, ResultLostStep, ThrownStep, StoreThrowsStep, SettleStep, MarkedIdleStep
       DEF Progress, Fails
  <2> QED
    BY <2>2, TurnKeeps
<1> QED
  BY <1>1, <1>2

LEMMA CallerKeeps ==
  ASSUME TurnsInv, Caller
  PROVE  TurnsInv'
<1>1. \A text \in Text : SendQueued(text) => EnqueuePrompt(text, "queue")
  BY DEF SendQueued
<1>2. "queue" \in Deliveries
  BY DEF Deliveries
<1> QED
  BY <1>1, <1>2, SendStep, EnqueueStep, UpdateStep, DeleteStep, AbortStep, StopStep DEF Caller

LEMMA NextInv ==
  ASSUME TurnsInv, [Next]_vars
  PROVE  TurnsInv'
<1>1. CASE Caller
  BY <1>1, CallerKeeps
<1>2. ASSUME NEW t \in Turn,
             Drain(t) \/ Progress(t) \/ ConsumeSteer(t) \/ Fails(t)
      PROVE  TurnsInv'
  BY <1>2, DrainStep, ProgressKeeps, ConsumeStep
<1>3. ASSUME NEW c \in Call, Shutdown(c)
      PROVE  TurnsInv'
  BY <1>3, ShutdownMarkedStep, ShutdownDrainedStep, ShutdownReleasesStep DEF Shutdown
<1>4. ASSUME NEW t \in Turn, NEW r \in TeamRun, TeamRunStarts(t, r)
      PROVE  TurnsInv'
  BY <1>4, TeamRunStartsStep
<1>5. ASSUME NEW r \in TeamRun, TeamRunEnds(r)
      PROVE  TurnsInv'
  BY <1>5, TeamRunEndsStep
<1> QED
  BY <1>1, <1>2, <1>3, <1>4, <1>5, StutterStep DEF Next

\* However callers, drains, teammates, aborts, stops and faults interleave: the flag of
\* drain() tells the truth, the list is in order until a prompt comes back to it, an abort
\* leaves in it at most the one that came back, who sleeps will be woken, and what waits is
\* served unless a turn that failed, was aborted or never became idle left it.
THEOREM SessionInvariant == Spec => []TurnsInv
<1>1. Init => TurnsInv
  BY InitInv
<1>2. TurnsInv /\ [Next]_vars => TurnsInv'
  BY NextInv
<1> QED
  BY <1>1, <1>2, PTL DEF Spec

\* Every variable keeps its type: a shutdown never writes a status that is none.
THEOREM TypeCorrect == Spec => []TypeOK
<1>1. TurnsInv => TypeOK
  BY DEF TurnsInv
<1> QED
  BY <1>1, SessionInvariant, PTL

\* One waiting prompt at a time is on its way to the agent, for as long as the flag says.
THEOREM DrainsNeverOverlap == Spec => []OneDrainAtATime
<1>1. ASSUME TurnsInv
      PROVE  OneDrainAtATime
  <2> DEFINE D == {t \in Turns : origin[t] = "drain"}
  <2>1. /\ \A t, u \in D : t = u
        /\ draining => D # {}
        /\ ~draining => D = {}
    BY <1>1 DEF TurnsInv, Drainer
  <2>2. OneDrainAtATime <=> Cardinality(D) = IF draining THEN 1 ELSE 0
    BY DEF OneDrainAtATime
  <2> HIDE DEF D
  <2>3. CASE draining
    <3>1. PICK t : D = {t}
      BY <2>1, <2>3
    <3>2. Cardinality(D) = 1
      BY <3>1, FS_Singleton
    <3> QED
      BY <2>2, <2>3, <3>2
  <2>4. CASE ~draining
    <3>1. Cardinality(D) = 0
      BY <2>1, <2>4, FS_EmptySet
    <3> QED
      BY <2>2, <2>4, <3>1
  <2> QED
    BY <2>3, <2>4
<1> QED
  BY <1>1, SessionInvariant, PTL

\* A drain never lets a queued prompt overtake a steer, until drain() has put a prompt back
\* on the list of a session that lives on.
THEOREM SteersStayInFront == Spec => []SteersFirst
<1>1. TurnsInv => SteersFirst
  BY DEF TurnsInv
<1> QED
  BY <1>1, SessionInvariant, PTL

\* Between an abort and the end of the turn it cuts short the list holds one prompt at most:
\* the one that drain() put back when its turn could not be marked idle.
THEOREM AbortedListHoldsPutBackOnly == Spec => []AbortingHoldsPutBackOnly
<1>1. TurnsInv => AbortingHoldsPutBackOnly
  BY DEF TurnsInv
<1> QED
  BY <1>1, SessionInvariant, PTL

\* A turn that sleeps has a teammate that will wake it.
THEOREM NobodySleepsForNothing == Spec => []SleepersHaveWork
<1>1. TurnsInv => SleepersHaveWork
  BY DEF TurnsInv
<1> QED
  BY <1>1, SessionInvariant, PTL

\* A prompt waits in a live session at rest only behind a turn that failed or was aborted
\* (its idle update may have failed, so that the session is aborting still), or an agent
\* whose preparation threw.
THEOREM NothingWaitsUnserved == Spec => []NoSilentStall
<1>1. TurnsInv => NoSilentStall
  BY DEF TurnsInv
<1> QED
  BY <1>1, SessionInvariant, PTL

=============================================================================
