--------------------------- MODULE CronQueueProofs ---------------------------
(***************************************************************************)
(* TLAPS proofs about CronQueue, for every set of runs, runners and specs, *)
(* every limit, and leases that lapse at any time.                         *)
(***************************************************************************)
EXTENDS CronQueue, FiniteSetTheorems, TLAPS

StoreTypeOK ==
  /\ status \in [Run -> Statuses]
  /\ token \in [Run -> Nat]
  /\ lease \in [Run -> {"none", "live", "expired"}]
  /\ attempts \in [Run -> Nat]
  /\ session \in [Run -> Nat]
  /\ due \in [Run -> BOOLEAN]

RunnerTypeOK ==
  /\ enabled \in [Spec -> BOOLEAN]
  /\ mode \in [Runner -> Modes]
  /\ pending \in [Runner -> BOOLEAN]
  /\ held \in [Runner -> BOOLEAN]
  /\ leaked \in [Runner -> BOOLEAN]
  /\ pc \in [Runner -> [Run -> PCs]]
  /\ tok \in [Runner -> [Run -> Nat]]
  /\ agent \in [Runner -> [Run -> AgentStates]]
  /\ stopTok \in [Runner -> [Run -> Nat]]
  /\ faults \in Nat

StoreOK == StoreTypeOK /\ TokenMatchesStatus

\* The tokens of claims in progress, the part of ClaimsBounded about pc.
ClaimsTokened ==
  \A p \in Runner, r \in Run : pc[p][r] # "idle" => tok[p][r] # NoToken

-----------------------------------------------------------------------------
(* The statements of the store keep the rows well formed.                   *)

\* INSERT of a queued row.
LEMMA EnqueueOK ==
  ASSUME StoreOK, NEW r \in Run, NEW b \in BOOLEAN,
         status[r] = "absent", StoreEnqueue(r, b)
  PROVE  StoreOK' /\ attempts' = attempts
<1>1. StoreTypeOK'
  BY DEF StoreOK, StoreTypeOK, StoreEnqueue, Statuses
<1>2. TokenMatchesStatus'
  BY DEF StoreOK, StoreTypeOK, TokenMatchesStatus, StoreEnqueue, NoToken
<1> QED
  BY <1>1, <1>2 DEF StoreOK, StoreEnqueue

\* The rows a claim-guarded statement selects carry a token.
LEMMA OwnedRows ==
  ASSUME NEW r \in Run, NEW t, t # NoToken
  PROVE  Owned(r, t) \in SUBSET Run /\ \A x \in Owned(r, t) : token[x] # NoToken
  BY DEF Owned

\* The claim-guarded requeue of rows that carry a token.
LEMMA RequeueOK ==
  ASSUME StoreOK, NEW rows \in SUBSET Run,
         \A r \in rows : token[r] # NoToken, StoreRequeue(rows)
  PROVE  StoreOK' /\ attempts' = attempts
<1>1. StoreTypeOK'
  BY DEF StoreOK, StoreTypeOK, StoreRequeue, Update, Statuses, NoToken
<1>2. TokenMatchesStatus'
  <2> SUFFICES ASSUME NEW r \in Run
               PROVE  /\ (status'[r] = "running") <=> (token'[r] # NoToken)
                      /\ (lease'[r] = "none") <=> (token'[r] = NoToken)
                      /\ token'[r] \in {NoToken, attempts'[r]}
                      /\ status'[r] = "absent" => attempts'[r] = 0
    BY DEF TokenMatchesStatus
  <2>1. CASE r \in rows
    BY <2>1 DEF StoreRequeue, Update, NoToken
  <2>2. CASE r \notin rows
    BY <2>2 DEF StoreOK, TokenMatchesStatus, StoreRequeue, Update
  <2> QED
    BY <2>1, <2>2
<1> QED
  BY <1>1, <1>2 DEF StoreOK, StoreRequeue

\* The claim-guarded completion of rows that carry a token.
LEMMA CompleteOK ==
  ASSUME StoreOK, NEW rows \in SUBSET Run, NEW outcome \in Terminal, NEW t \in Nat,
         \A r \in rows : token[r] # NoToken, StoreComplete(rows, outcome, t)
  PROVE  StoreOK' /\ attempts' = attempts
<1>1. StoreTypeOK'
  BY DEF StoreOK, StoreTypeOK, StoreComplete, Update, Statuses, NoToken
<1>2. TokenMatchesStatus'
  <2> SUFFICES ASSUME NEW r \in Run
               PROVE  /\ (status'[r] = "running") <=> (token'[r] # NoToken)
                      /\ (lease'[r] = "none") <=> (token'[r] = NoToken)
                      /\ token'[r] \in {NoToken, attempts'[r]}
                      /\ status'[r] = "absent" => attempts'[r] = 0
    BY DEF TokenMatchesStatus
  <2>1. CASE r \in rows
    BY <2>1 DEF StoreComplete, Update, Terminal, NoToken
  <2>2. CASE r \notin rows
    BY <2>2 DEF StoreOK, TokenMatchesStatus, StoreComplete, Update
  <2> QED
    BY <2>1, <2>2
<1> QED
  BY <1>1, <1>2 DEF StoreOK, StoreComplete

\* A tick's inserts and claims.
LEMMA ClaimOK ==
  ASSUME StoreOK, NEW M \in SUBSET Materializable, StoreMaterializeAndClaim(M)
  PROVE  /\ StoreOK'
         /\ Batch(M) \in SUBSET Run
         /\ \A r \in Run : attempts'[r] = IF r \in Batch(M) THEN attempts[r] + 1
                                          ELSE attempts[r]
         /\ \A r \in Batch(M) : token'[r] = attempts[r] + 1
<1>1. Batch(M) \in SUBSET Run
  BY DEF Batch, Claimable
<1>2. \A r \in M : r \in Run /\ status[r] = "absent"
  BY DEF Materializable
<1>3. \A r \in Run : attempts[r] + 1 \in Nat
  BY DEF StoreOK, StoreTypeOK
<1> DEFINE B == Batch(M)
<1>4. /\ status' = [r \in Run |-> IF r \in B THEN "running"
                                  ELSE IF r \in M THEN "queued" ELSE status[r]]
      /\ token' = [r \in Run |-> IF r \in B THEN attempts[r] + 1 ELSE token[r]]
      /\ attempts' = [r \in Run |-> IF r \in B THEN attempts[r] + 1 ELSE attempts[r]]
      /\ lease' = [r \in Run |-> IF r \in B THEN "live" ELSE lease[r]]
      /\ session' = [r \in Run |-> IF r \in B THEN 0 ELSE session[r]]
      /\ due' = [r \in Run |-> IF r \in M THEN TRUE ELSE due[r]]
  BY DEF StoreMaterializeAndClaim, Update, NoToken
<1>5. B \in SUBSET Run
  BY <1>1
<1> HIDE DEF B
<1>6. StoreTypeOK'
  <2>1. status' \in [Run -> Statuses]
    BY <1>4 DEF StoreOK, StoreTypeOK, Statuses
  <2>2. token' \in [Run -> Nat] /\ attempts' \in [Run -> Nat]
    BY <1>3, <1>4 DEF StoreOK, StoreTypeOK
  <2>3. lease' \in [Run -> {"none", "live", "expired"}] /\ session' \in [Run -> Nat]
    BY <1>4 DEF StoreOK, StoreTypeOK
  <2>4. due' \in [Run -> BOOLEAN]
    BY <1>4 DEF StoreOK, StoreTypeOK
  <2> QED
    BY <2>1, <2>2, <2>3, <2>4 DEF StoreTypeOK
<1>7. TokenMatchesStatus'
  <2> SUFFICES ASSUME NEW r \in Run
               PROVE  /\ (status'[r] = "running") <=> (token'[r] # NoToken)
                      /\ (lease'[r] = "none") <=> (token'[r] = NoToken)
                      /\ token'[r] \in {NoToken, attempts'[r]}
                      /\ status'[r] = "absent" => attempts'[r] = 0
    BY DEF TokenMatchesStatus
  <2>1. attempts[r] + 1 # 0
    BY DEF StoreOK, StoreTypeOK
  <2>2. CASE r \in B
    BY <1>4, <2>1, <2>2 DEF NoToken
  <2>3. CASE r \notin B
    BY <1>2, <1>4, <2>3 DEF StoreOK, TokenMatchesStatus, NoToken
  <2> QED
    BY <2>2, <2>3
<1> QED
  BY <1>4, <1>5, <1>6, <1>7 DEF StoreOK, B

-----------------------------------------------------------------------------
(* The invariant is inductive.                                              *)

\* The parts of the invariant the step lemmas work with.
LEMMA InvParts ==
  ASSUME QueueInv
  PROVE  StoreOK /\ RunnerTypeOK /\ ClaimsTokened
  BY DEF QueueInv, TypeOK, StoreOK, StoreTypeOK, RunnerTypeOK, ClaimsTokened, ClaimsBounded

\* A step that mints no token and lets no runner hold one it did not hold.
LEMMA Preserved ==
  ASSUME QueueInv, StoreOK', RunnerTypeOK', attempts' = attempts, ClaimsTokened',
         \A p \in Runner, r \in Run : HeldTokens(p, r)' \subseteq HeldTokens(p, r)
  PROVE  QueueInv'
<1>1. TypeOK' /\ TokenMatchesStatus'
  BY DEF StoreOK, StoreTypeOK, RunnerTypeOK, TypeOK
<1>2. ClaimsDistinct'
  <2> SUFFICES ASSUME NEW r \in Run, NEW p \in Runner, NEW q \in Runner, p # q
               PROVE  HeldTokens(p, r)' \cap HeldTokens(q, r)' = {}
    BY DEF ClaimsDistinct
  <2>1. HeldTokens(p, r) \cap HeldTokens(q, r) = {}
    BY DEF QueueInv, ClaimsDistinct
  <2>2. /\ HeldTokens(p, r)' \subseteq HeldTokens(p, r)
        /\ HeldTokens(q, r)' \subseteq HeldTokens(q, r)
    OBVIOUS
  <2> QED
    BY <2>1, <2>2
<1>3. ClaimsBounded'
  <2> SUFFICES ASSUME NEW r \in Run, NEW p \in Runner
               PROVE  \A t \in HeldTokens(p, r)' : t <= attempts'[r]
    BY DEF ClaimsBounded, ClaimsTokened
  <2>1. \A t \in HeldTokens(p, r) : t <= attempts[r]
    BY DEF QueueInv, ClaimsBounded
  <2>2. HeldTokens(p, r)' \subseteq HeldTokens(p, r)
    OBVIOUS
  <2> QED
    BY <2>1, <2>2
<1> QED
  BY <1>1, <1>2, <1>3 DEF QueueInv

\* A step that leaves the claims alone.
LEMMA ClaimsKept ==
  ASSUME QueueInv, StoreOK', RunnerTypeOK', attempts' = attempts,
         UNCHANGED <<pc, tok, stopTok>>
  PROVE  QueueInv'
<1>1. ClaimsTokened'
  BY InvParts DEF ClaimsTokened
<1>2. \A p \in Runner, r \in Run : HeldTokens(p, r)' \subseteq HeldTokens(p, r)
  BY DEF HeldTokens
<1> QED
  BY <1>1, <1>2, Preserved

\* A step that leaves the rows alone.
LEMMA StoreKept ==
  ASSUME StoreOK, UNCHANGED store
  PROVE  StoreOK' /\ attempts' = attempts
  BY DEF StoreOK, StoreTypeOK, TokenMatchesStatus, store

\* A tick mints tokens no runner has seen.
LEMMA TickOK ==
  ASSUME QueueInv, NEW p \in Runner, NEW M \in SUBSET Materializable, TickBody(p, M),
         mode' \in [Runner -> Modes], pending' \in [Runner -> BOOLEAN],
         held' \in [Runner -> BOOLEAN], leaked' \in [Runner -> BOOLEAN]
  PROVE  QueueInv'
<1> DEFINE B == Batch(M)
<1>1. /\ StoreOK'
      /\ B \in SUBSET Run
      /\ \A r \in Run : attempts'[r] = IF r \in B THEN attempts[r] + 1 ELSE attempts[r]
      /\ \A r \in B : token'[r] = attempts[r] + 1
  BY InvParts, ClaimOK DEF TickBody
<1>2. /\ pc' = [pc EXCEPT ![p] = [r \in Run |-> IF r \in B THEN "claimed" ELSE pc[p][r]]]
      /\ tok' = [tok EXCEPT ![p] = [r \in Run |-> IF r \in B THEN token'[r] ELSE tok[p][r]]]
      /\ UNCHANGED <<enabled, agent, stopTok, faults>>
  BY DEF TickBody, Update
<1> HIDE DEF B
<1>3. StoreTypeOK /\ RunnerTypeOK /\ StoreTypeOK'
  BY <1>1, InvParts DEF StoreOK
<1>4. RunnerTypeOK'
  <2>1. pc' \in [Runner -> [Run -> PCs]]
    BY <1>2, <1>3 DEF RunnerTypeOK, PCs
  <2>2. tok' \in [Runner -> [Run -> Nat]]
    BY <1>2, <1>3 DEF RunnerTypeOK, StoreTypeOK
  <2> QED
    BY <1>2, <1>3, <2>1, <2>2 DEF RunnerTypeOK
<1>5. ASSUME NEW q \in Runner, NEW r \in Run
      PROVE  \/ HeldTokens(q, r)' \subseteq HeldTokens(q, r)
             \/ /\ q = p
                /\ attempts'[r] = attempts[r] + 1
                /\ HeldTokens(q, r)' \subseteq HeldTokens(q, r) \cup {attempts[r] + 1}
  <2>1. CASE q = p /\ r \in B
    BY <1>1, <1>2, <1>3, <2>1 DEF HeldTokens, RunnerTypeOK
  <2>2. CASE ~(q = p /\ r \in B)
    <3>1. tok'[q][r] = tok[q][r]
      BY <1>2, <1>3, <2>2 DEF RunnerTypeOK
    <3> QED
      BY <1>2, <3>1 DEF HeldTokens
  <2> QED
    BY <2>1, <2>2
<1>6. \A q \in Runner, r \in Run : \A t \in HeldTokens(q, r) : t \in Nat /\ t <= attempts[r]
  BY <1>3 DEF HeldTokens, RunnerTypeOK, QueueInv, ClaimsBounded
<1>7. ClaimsDistinct'
  <2> SUFFICES ASSUME NEW r \in Run, NEW a \in Runner, NEW b \in Runner, a # b,
                      NEW t, t \in HeldTokens(a, r)', t \in HeldTokens(b, r)'
               PROVE  FALSE
    BY DEF ClaimsDistinct
  <2>1. ~(t \in HeldTokens(a, r) /\ t \in HeldTokens(b, r))
    BY DEF QueueInv, ClaimsDistinct
  <2>2. attempts[r] \in Nat
    BY <1>3 DEF StoreTypeOK
  <2>3. /\ t \in HeldTokens(a, r) \/ (a = p /\ t = attempts[r] + 1)
        /\ t \in HeldTokens(b, r) \/ (b = p /\ t = attempts[r] + 1)
    BY <1>5
  <2>4. t = attempts[r] + 1
    BY <2>1, <2>3
  <2>5. t \in HeldTokens(a, r) \/ t \in HeldTokens(b, r)
    BY <2>3
  <2>6. t <= attempts[r]
    BY <1>6, <2>5
  <2> QED
    BY <2>2, <2>4, <2>6
<1>8. ClaimsBounded'
  <2>1. ASSUME NEW q \in Runner, NEW r \in Run, pc'[q][r] # "idle"
        PROVE  tok'[q][r] # NoToken
    <3>1. attempts[r] + 1 # 0
      BY <1>3 DEF StoreTypeOK
    <3>2. pc[q][r] # "idle" => tok[q][r] # NoToken
      BY InvParts DEF ClaimsTokened
    <3>3. CASE q = p /\ r \in B
      BY <1>1, <1>2, <1>3, <3>1, <3>3 DEF RunnerTypeOK, NoToken
    <3>4. CASE ~(q = p /\ r \in B)
      BY <1>2, <1>3, <2>1, <3>2, <3>4 DEF RunnerTypeOK
    <3> QED
      BY <3>3, <3>4
  <2>2. ASSUME NEW q \in Runner, NEW r \in Run, NEW t \in HeldTokens(q, r)'
        PROVE  t <= attempts'[r]
    <3>1. attempts[r] \in Nat /\ attempts'[r] \in {attempts[r], attempts[r] + 1}
      BY <1>1, <1>3 DEF StoreTypeOK
    <3>2. CASE t \in HeldTokens(q, r)
      BY <1>6, <3>1, <3>2
    <3>3. CASE t = attempts[r] + 1 /\ attempts'[r] = attempts[r] + 1
      BY <3>1, <3>3
    <3> QED
      BY <1>5, <3>2, <3>3
  <2> QED
    BY <2>1, <2>2 DEF ClaimsBounded
<1> QED
  BY <1>1, <1>3, <1>4, <1>7, <1>8
     DEF QueueInv, TypeOK, StoreOK, StoreTypeOK, RunnerTypeOK

\* An empty table and idle runners satisfy it.
LEMMA Initially == Init => QueueInv
<1> SUFFICES ASSUME Init PROVE QueueInv
  OBVIOUS
<1>1. TypeOK
  BY DEF Init, TypeOK, Statuses, Modes, PCs, AgentStates, NoToken
<1>2. TokenMatchesStatus
  BY DEF Init, TokenMatchesStatus
<1>3. \A p \in Runner, r \in Run : HeldTokens(p, r) = {} /\ pc[p][r] = "idle"
  BY DEF Init, HeldTokens
<1>4. ClaimsDistinct /\ ClaimsBounded
  BY <1>3 DEF ClaimsDistinct, ClaimsBounded
<1> QED
  BY <1>1, <1>2, <1>4 DEF QueueInv

\* The steps of the clock, of other processes and of the specs.
LEMMA OutsideStep ==
  ASSUME QueueInv,
         \/ \E r \in Run : Enqueue(r) \/ Elapse(r) \/ LeaseLapses(r)
         \/ \E s \in Spec : CancelQueuedRunsForSpec(s) \/ \E b \in BOOLEAN : SetEnabled(s, b)
  PROVE  QueueInv'
<1> StoreOK /\ RunnerTypeOK /\ ClaimsTokened
  BY InvParts
<1>1. ASSUME NEW r \in Run, Enqueue(r) PROVE QueueInv'
  <2>1. StoreOK' /\ attempts' = attempts
    BY <1>1, EnqueueOK DEF Enqueue
  <2>2. RunnerTypeOK'
    BY <1>1 DEF Enqueue, RunnerTypeOK, timers
  <2> QED
    BY <1>1, <2>1, <2>2, ClaimsKept DEF Enqueue
<1>2. ASSUME NEW r \in Run, Elapse(r) PROVE QueueInv'
  <2>1. StoreOK' /\ attempts' = attempts
    BY <1>2 DEF Elapse, StoreOK, StoreTypeOK, TokenMatchesStatus
  <2>2. RunnerTypeOK'
    BY <1>2 DEF Elapse, RunnerTypeOK, timers
  <2> QED
    BY <1>2, <2>1, <2>2, ClaimsKept DEF Elapse
<1>3. ASSUME NEW r \in Run, LeaseLapses(r) PROVE QueueInv'
  <2>1. StoreOK' /\ attempts' = attempts
    BY <1>3 DEF LeaseLapses, StoreOK, StoreTypeOK, TokenMatchesStatus
  <2>2. RunnerTypeOK'
    BY <1>3 DEF LeaseLapses, RunnerTypeOK, timers
  <2> QED
    BY <1>3, <2>1, <2>2, ClaimsKept DEF LeaseLapses
<1>4. ASSUME NEW s \in Spec, CancelQueuedRunsForSpec(s) PROVE QueueInv'
  <2>1. StoreTypeOK'
    BY <1>4 DEF CancelQueuedRunsForSpec, StoreOK, StoreTypeOK, Update, Statuses, Terminal
  <2>2. TokenMatchesStatus'
    BY <1>4 DEF CancelQueuedRunsForSpec, StoreOK, StoreTypeOK, TokenMatchesStatus, Update
  <2>3. RunnerTypeOK'
    BY <1>4 DEF CancelQueuedRunsForSpec, RunnerTypeOK, timers
  <2> QED
    BY <1>4, <2>1, <2>2, <2>3, ClaimsKept DEF CancelQueuedRunsForSpec, StoreOK
<1>5. ASSUME NEW s \in Spec, NEW b \in BOOLEAN, SetEnabled(s, b) PROVE QueueInv'
  <2>1. RunnerTypeOK'
    BY <1>5 DEF SetEnabled, RunnerTypeOK, timers
  <2> QED
    BY <1>5, <2>1, StoreKept, ClaimsKept DEF SetEnabled
<1> QED
  BY <1>1, <1>2, <1>3, <1>4, <1>5

\* The steps of a runner's lifecycle.
LEMMA LifecycleStep ==
  ASSUME QueueInv, NEW p \in Runner, RunnerStep(p)
  PROVE  QueueInv'
<1> StoreOK /\ RunnerTypeOK /\ ClaimsTokened
  BY InvParts
<1>1. CASE Boot(p)
  <2>1. RunnerTypeOK'
    BY <1>1 DEF Boot, RunnerTypeOK, timers, Modes
  <2> QED
    BY <1>1, <2>1, StoreKept, ClaimsKept DEF Boot
<1>2. CASE Start(p)
  <2>1. mode' \in [Runner -> Modes]
    BY <1>2 DEF Start, RunnerTypeOK, Modes
  <2>2. ASSUME NEW M \in SUBSET Materializable, TickBody(p, M),
               pending' = [pending EXCEPT ![p] = TRUE], UNCHANGED <<held, leaked>>
        PROVE  QueueInv'
    <3>1. /\ pending' \in [Runner -> BOOLEAN]
          /\ held' \in [Runner -> BOOLEAN] /\ leaked' \in [Runner -> BOOLEAN]
      BY <2>2 DEF RunnerTypeOK
    <3> QED
      BY <2>1, <2>2, <3>1, TickOK
  <2>3. ASSUME leaked' = [leaked EXCEPT ![p] = @ \/ held[p]],
               held' = [held EXCEPT ![p] = TRUE],
               UNCHANGED <<store, pc, tok, pending, enabled, agent, stopTok, faults>>
        PROVE  QueueInv'
    <3>1. RunnerTypeOK'
      BY <2>1, <2>3 DEF RunnerTypeOK
    <3> QED
      BY <2>3, <3>1, StoreKept, ClaimsKept
  <2> QED
    BY <1>2, <2>2, <2>3 DEF Start
<1>3. CASE ArmInterval(p)
  <2>1. RunnerTypeOK'
    BY <1>3 DEF ArmInterval, RunnerTypeOK
  <2> QED
    BY <1>3, <2>1, StoreKept, ClaimsKept DEF ArmInterval
<1>4. CASE Poll(p)
  BY <1>4, TickOK DEF Poll, RunnerTypeOK, timers
<1>5. CASE Stop(p)
  <2> DEFINE rows == UNION {Owned(r, tok[p][r]) : r \in Sessionless(p)}
  <2>1. rows \in SUBSET Run /\ \A x \in rows : token[x] # NoToken
    <3>1. ASSUME NEW r \in Sessionless(p) PROVE r \in Run /\ tok[p][r] # NoToken
      BY <3>1 DEF Sessionless, ActiveRuns, ClaimsTokened
    <3> QED
      BY <3>1, OwnedRows
  <2>2. StoreOK' /\ attempts' = attempts
    <3>1. CASE UNCHANGED store
      BY <3>1, StoreKept
    <3>2. CASE StoreRequeue(rows)
      BY <2>1, <3>2, RequeueOK
    <3> QED
      BY <1>5, <3>1, <3>2 DEF Stop
  <2>3. /\ mode' \in {mode, [mode EXCEPT ![p] = "closed"], [mode EXCEPT ![p] = "stopped"]}
        /\ held' = [held EXCEPT ![p] = FALSE]
        /\ faults' = faults + 1
        /\ UNCHANGED <<enabled, pending, leaked, pc, tok>>
    BY <1>5 DEF Stop, RunnerTypeOK
  <2>4. agent' \in [Runner -> [Run -> AgentStates]]
    <3>1. \/ agent' = agent
          \/ agent' = [agent EXCEPT ![p] = [r \in Run |->
                         IF agent[p][r] = "open" THEN "aborted" ELSE agent[p][r]]]
      BY <1>5 DEF Stop
    <3>2. ASSUME NEW r \in Run
          PROVE  (IF agent[p][r] = "open" THEN "aborted" ELSE agent[p][r]) \in AgentStates
      BY DEF RunnerTypeOK, AgentStates
    <3>3. [r \in Run |-> IF agent[p][r] = "open" THEN "aborted" ELSE agent[p][r]]
            \in [Run -> AgentStates]
      BY <3>2
    <3> QED
      BY <3>1, <3>3 DEF RunnerTypeOK
  <2>5. /\ stopTok' \in [Runner -> [Run -> Nat]]
        /\ \A q \in Runner, r \in Run : stopTok'[q][r] \in {stopTok[q][r], tok[q][r]}
    <3> DEFINE S == ActiveRuns(p) \ Sessionless(p)
    <3>1. \/ stopTok' = stopTok
          \/ stopTok' = [stopTok EXCEPT ![p] = [r \in Run |->
                           IF r \in S THEN tok[p][r] ELSE stopTok[p][r]]]
      BY <1>5 DEF Stop
    <3> DEFINE f == [r \in Run |-> IF r \in S THEN tok[p][r] ELSE stopTok[p][r]]
    <3> HIDE DEF S
    <3>2. f \in [Run -> Nat] /\ \A r \in Run : f[r] \in {stopTok[p][r], tok[p][r]}
      BY DEF RunnerTypeOK
    <3>3. stopTok' = stopTok \/ stopTok' = [stopTok EXCEPT ![p] = f]
      BY <3>1
    <3> HIDE DEF f
    <3> QED
      BY <3>2, <3>3 DEF RunnerTypeOK
  <2>6. RunnerTypeOK'
    <3>1. mode' \in [Runner -> Modes]
      BY <2>3 DEF RunnerTypeOK, Modes
    <3>2. held' \in [Runner -> BOOLEAN] /\ faults' \in Nat
      BY <2>3 DEF RunnerTypeOK
    <3>3. UNCHANGED <<enabled, pending, leaked, pc, tok>>
      BY <2>3
    <3> QED
      BY <2>4, <2>5, <3>1, <3>2, <3>3 DEF RunnerTypeOK
  <2>7. ClaimsTokened'
    BY <2>3 DEF ClaimsTokened
  <2>8. \A q \in Runner, r \in Run : HeldTokens(q, r)' \subseteq HeldTokens(q, r)
    BY <2>3, <2>5 DEF HeldTokens
  <2> QED
    BY <2>2, <2>6, <2>7, <2>8, Preserved
<1>6. ASSUME Halt(p), faults' \in Nat PROVE QueueInv'
  <2>1. RunnerTypeOK'
    BY <1>6 DEF Halt, RunnerTypeOK, Modes, PCs, AgentStates, NoToken
  <2>2. ClaimsTokened'
    BY <1>6 DEF Halt, ClaimsTokened, RunnerTypeOK
  <2>3. \A q \in Runner, r \in Run : HeldTokens(q, r)' \subseteq HeldTokens(q, r)
    BY <1>6 DEF Halt, HeldTokens, RunnerTypeOK
  <2> QED
    BY <1>6, <2>1, <2>2, <2>3, StoreKept, Preserved DEF Halt
<1>7. CASE Crash(p)
  BY <1>6, <1>7 DEF Crash, RunnerTypeOK
<1>8. CASE CloseStore(p)
  BY <1>6, <1>8 DEF CloseStore, RunnerTypeOK
<1> QED
  BY <1>1, <1>2, <1>3, <1>4, <1>5, <1>7, <1>8 DEF RunnerStep

\* The end of executeClaim drops the claim.
LEMMA LeaveOK ==
  ASSUME QueueInv, NEW p \in Runner, NEW r \in Run, Leave(p, r),
         StoreOK', attempts' = attempts,
         UNCHANGED <<enabled, mode, timers, stopTok>>, faults' \in Nat
  PROVE  QueueInv'
<1> RunnerTypeOK /\ ClaimsTokened
  BY InvParts
<1>1. RunnerTypeOK'
  BY DEF Leave, RunnerTypeOK, timers, PCs, AgentStates, NoToken
<1>2. ClaimsTokened'
  BY DEF Leave, ClaimsTokened, RunnerTypeOK
<1>3. \A q \in Runner, x \in Run : HeldTokens(q, x)' \subseteq HeldTokens(q, x)
  BY DEF Leave, HeldTokens, RunnerTypeOK
<1> QED
  BY <1>1, <1>2, <1>3, Preserved

\* Any other step of executeClaim moves within the claim.
LEMMA AdvanceOK ==
  ASSUME QueueInv, NEW p \in Runner, NEW r \in Run,
         NEW c \in PCs, NEW a \in AgentStates, pc[p][r] # "idle",
         pc' = [pc EXCEPT ![p][r] = c],
         agent' = [agent EXCEPT ![p][r] = a] \/ UNCHANGED agent,
         StoreOK', attempts' = attempts,
         UNCHANGED <<enabled, mode, timers, tok, stopTok>>, faults' \in Nat
  PROVE  QueueInv'
<1> RunnerTypeOK /\ ClaimsTokened
  BY InvParts
<1>1. RunnerTypeOK'
  <2>1. pc' \in [Runner -> [Run -> PCs]]
    BY DEF RunnerTypeOK
  <2>2. agent' \in [Runner -> [Run -> AgentStates]]
    <3>1. [agent EXCEPT ![p][r] = a] \in [Runner -> [Run -> AgentStates]]
      BY DEF RunnerTypeOK
    <3> QED
      BY <3>1 DEF RunnerTypeOK
  <2> QED
    BY <2>1, <2>2 DEF RunnerTypeOK, timers
<1>2. ClaimsTokened'
  BY DEF ClaimsTokened, RunnerTypeOK
<1>3. \A q \in Runner, x \in Run : HeldTokens(q, x)' \subseteq HeldTokens(q, x)
  BY DEF HeldTokens
<1> QED
  BY <1>1, <1>2, <1>3, Preserved

\* A claim in progress settles the row it owns, or a fault leaves the row as it is.
LEMMA SettleOK ==
  ASSUME QueueInv, NEW p \in Runner, NEW r \in Run, pc[p][r] # "idle",
         NEW t \in {NoToken, tok[p][r]},
         \/ UNCHANGED store
         \/ StoreRequeue(Owned(r, tok[p][r]))
         \/ \E outcome \in Terminal : StoreComplete(Owned(r, tok[p][r]), outcome, t)
  PROVE  StoreOK' /\ attempts' = attempts
<1>1. StoreOK /\ RunnerTypeOK /\ ClaimsTokened
  BY InvParts
<1>2. tok[p][r] \in Nat /\ tok[p][r] # NoToken /\ t \in Nat
  BY <1>1 DEF RunnerTypeOK, ClaimsTokened, NoToken
<1>3. /\ Owned(r, tok[p][r]) \in SUBSET Run
      /\ \A x \in Owned(r, tok[p][r]) : token[x] # NoToken
  BY <1>2, OwnedRows
<1>4. CASE UNCHANGED store
  BY <1>1, <1>4, StoreKept
<1>5. CASE StoreRequeue(Owned(r, tok[p][r]))
  BY <1>1, <1>3, <1>5, RequeueOK
<1>6. ASSUME NEW outcome \in Terminal, StoreComplete(Owned(r, tok[p][r]), outcome, t)
      PROVE  StoreOK' /\ attempts' = attempts
  BY <1>1, <1>2, <1>3, <1>6, CompleteOK
<1> QED
  BY <1>4, <1>5, <1>6

\* The steps of executeClaim.
LEMMA ClaimStep ==
  ASSUME QueueInv, NEW p \in Runner, NEW r \in Run, ExecuteStep(p, r)
  PROVE  QueueInv'
<1> StoreOK /\ RunnerTypeOK
  BY InvParts
<1>1. CASE Dispatch(p, r)
  <2>1. pc[p][r] # "idle" /\ faults' \in Nat
    BY <1>1 DEF Dispatch, RunnerTypeOK
  <2>2. ASSUME StoreComplete(Owned(r, tok[p][r]), "cancelled", NoToken), Leave(p, r)
        PROVE  QueueInv'
    <3>1. StoreOK' /\ attempts' = attempts
      BY <2>1, <2>2, SettleOK DEF Terminal
    <3> QED
      BY <1>1, <2>1, <2>2, <3>1, LeaveOK DEF Dispatch
  <2>3. ASSUME StoreRequeue(Owned(r, tok[p][r])), Leave(p, r)
        PROVE  QueueInv'
    <3>1. StoreOK' /\ attempts' = attempts
      BY <2>1, <2>3, SettleOK
    <3> QED
      BY <1>1, <2>1, <2>3, <3>1, LeaveOK DEF Dispatch
  <2>4. ASSUME pc' = [pc EXCEPT ![p][r] = "starting"], UNCHANGED <<store, tok, agent>>
        PROVE  QueueInv'
    <3>1. "starting" \in PCs /\ "none" \in AgentStates
      BY DEF PCs, Executing, AgentStates
    <3> QED
      BY <1>1, <2>1, <2>4, <3>1, StoreKept, AdvanceOK DEF Dispatch
  <2> QED
    BY <1>1, <2>2, <2>3, <2>4 DEF Dispatch
<1>2. CASE SessionStarted(p, r)
  <2>1. "sending" \in PCs /\ "open" \in AgentStates /\ pc[p][r] # "idle"
    BY <1>2 DEF SessionStarted, PCs, Executing, AgentStates
  <2>2. StoreOK' /\ attempts' = attempts
    BY <1>2 DEF SessionStarted, StoreOK, StoreTypeOK, RunnerTypeOK, TokenMatchesStatus
  <2> QED
    BY <1>2, <2>1, <2>2, AdvanceOK DEF SessionStarted, RunnerTypeOK
<1>3. CASE StartFails(p, r)
  <2>1. pc[p][r] # "idle" /\ faults' \in Nat
    BY <1>3 DEF StartFails, ReportWritten, ReportFails, RunnerTypeOK
  <2>2. StoreOK' /\ attempts' = attempts
    BY <1>3, <2>1, SettleOK DEF StartFails, Terminal
  <2> QED
    BY <1>3, <2>1, <2>2, LeaveOK DEF StartFails
<1>4. ASSUME NEW result \in AgentStates, Conclude(p, r, result), pc[p][r] # "idle",
             faults' \in Nat, StoreOK', attempts' = attempts
      PROVE  QueueInv'
  <2>1. "finishing" \in PCs
    BY DEF PCs, Executing
  <2> QED
    BY <1>4, <2>1, AdvanceOK DEF Conclude
<1>5. CASE TurnReturns(p, r)
  <2>1. pc[p][r] # "idle" /\ faults' \in Nat
    BY <1>5 DEF TurnReturns, ReportWritten, ReportFails, RunnerTypeOK
  <2>2. StoreOK' /\ attempts' = attempts
    BY <1>5, <2>1, SettleOK DEF TurnReturns, Terminal
  <2>3. \A result \in {"completed", "cutShort"} : result \in AgentStates
    BY DEF AgentStates
  <2> QED
    BY <1>4, <1>5, <2>1, <2>2, <2>3 DEF TurnReturns
<1>6. CASE TurnThrows(p, r)
  <2>1. pc[p][r] # "idle" /\ faults' \in Nat /\ "threw" \in AgentStates
    BY <1>6 DEF TurnThrows, ReportWritten, ReportFails, RunnerTypeOK, AgentStates
  <2>2. StoreOK' /\ attempts' = attempts
    BY <1>6, <2>1, SettleOK DEF TurnThrows, Terminal
  <2> QED
    BY <1>4, <1>6, <2>1, <2>2 DEF TurnThrows
<1>7. CASE TurnTimesOut(p, r)
  <2>1. "aborting" \in PCs /\ "aborted" \in AgentStates /\ pc[p][r] # "idle"
    BY <1>7 DEF TurnTimesOut, PCs, Executing, AgentStates
  <2> QED
    BY <1>7, <2>1, StoreKept, AdvanceOK DEF TurnTimesOut, RunnerTypeOK
<1>8. CASE AbortReturns(p, r)
  <2>1. pc[p][r] # "idle" /\ faults' \in Nat /\ "aborted" \in AgentStates
    BY <1>8 DEF AbortReturns, ReportWritten, ReportFails, RunnerTypeOK, AgentStates
  <2>2. StoreOK' /\ attempts' = attempts
    BY <1>8, <2>1, SettleOK DEF AbortReturns, Terminal
  <2> QED
    BY <1>4, <1>8, <2>1, <2>2 DEF AbortReturns
<1>9. CASE SessionStopped(p, r)
  BY <1>9, StoreKept, LeaveOK DEF SessionStopped, RunnerTypeOK
<1> QED
  BY <1>1, <1>2, <1>3, <1>5, <1>6, <1>7, <1>8, <1>9 DEF ExecuteStep

\* The other steps of a runner on a run.
LEMMA RunStep ==
  ASSUME QueueInv, NEW p \in Runner, NEW r \in Run,
         Trigger(p, r) \/ StopRequeue(p, r) \/ RenewClaim(p, r)
  PROVE  QueueInv'
<1> StoreOK /\ RunnerTypeOK /\ ClaimsTokened
  BY InvParts
<1>1. CASE Trigger(p, r)
  <2>1. r \in Materializable
    BY <1>1 DEF Trigger
  <2>2. ASSUME StoreEnqueue(r, TRUE), UNCHANGED <<enabled, pc, tok, agent, stopTok, faults>>
        PROVE  QueueInv'
    <3>1. StoreOK' /\ attempts' = attempts
      BY <2>1, <2>2, EnqueueOK DEF Materializable
    <3>2. RunnerTypeOK'
      BY <1>1, <2>2 DEF Trigger, RunnerTypeOK, timers
    <3> QED
      BY <2>2, <3>1, <3>2, ClaimsKept
  <2>3. ASSUME NEW M \in SUBSET Materializable, TickBody(p, M \cup {r})
        PROVE  QueueInv'
    <3>1. M \cup {r} \in SUBSET Materializable
      BY <2>1
    <3> QED
      BY <1>1, <2>3, <3>1, TickOK DEF Trigger, RunnerTypeOK, timers
  <2> QED
    BY <1>1, <2>2, <2>3 DEF Trigger
<1>2. CASE StopRequeue(p, r)
  <2>1. StoreOK' /\ attempts' = attempts
    BY <1>2, OwnedRows, RequeueOK DEF StopRequeue
  <2>2. RunnerTypeOK'
    BY <1>2 DEF StopRequeue, RunnerTypeOK, timers, NoToken
  <2>3. ClaimsTokened'
    BY <1>2 DEF StopRequeue, ClaimsTokened
  <2>4. \A q \in Runner, x \in Run : HeldTokens(q, x)' \subseteq HeldTokens(q, x)
    BY <1>2 DEF StopRequeue, HeldTokens, RunnerTypeOK
  <2> QED
    BY <2>1, <2>2, <2>3, <2>4, Preserved
<1>3. CASE RenewClaim(p, r)
  <2>1. tok[p][r] # NoToken
    BY <1>3 DEF RenewClaim, Beating, ClaimsTokened
  <2>2. StoreOK' /\ attempts' = attempts
    BY <1>3, <2>1 DEF RenewClaim, Update, Owned, StoreOK, StoreTypeOK, TokenMatchesStatus
  <2>3. RunnerTypeOK'
    BY <1>3 DEF RenewClaim, RunnerTypeOK, timers
  <2> QED
    BY <1>3, <2>2, <2>3, ClaimsKept DEF RenewClaim
<1> QED
  BY <1>1, <1>2, <1>3

\* Every step keeps it: outside steps, steps of a runner, steps of a run on a runner.
LEMMA Inductive == QueueInv /\ [Next]_vars => QueueInv'
<1> SUFFICES ASSUME QueueInv, [Next]_vars PROVE QueueInv'
  OBVIOUS
<1>1. CASE Next
  BY <1>1, OutsideStep, LifecycleStep, ClaimStep, RunStep DEF Next
<1>2. CASE UNCHANGED vars
  <2>1. StoreOK' /\ attempts' = attempts
    BY <1>2, InvParts, StoreKept DEF vars
  <2>2. RunnerTypeOK'
    BY <1>2, InvParts DEF vars, timers, RunnerTypeOK
  <2> QED
    BY <1>2, <2>1, <2>2, ClaimsKept DEF vars
<1> QED
  BY <1>1, <1>2

-----------------------------------------------------------------------------
(* Theorems.                                                                *)

\* The rows stay well typed and carry a token exactly while they run, and no two
\* runners ever hold the same claim: cron.db hands a run to one runner at a time.
THEOREM Invariance == SafeSpec => []QueueInv
<1>1. QueueInv /\ [Next]_vars => QueueInv'
  BY Inductive
<1> QED
  BY Initially, <1>1, PTL DEF SafeSpec

\* Every variable keeps its type.
THEOREM TypeCorrect == SafeSpec => []TypeOK
<1>1. QueueInv => TypeOK
  BY DEF QueueInv
<1> QED
  BY Invariance, <1>1, PTL

\* A row is running exactly while it has a token, its newest one.
THEOREM TokensMatch == SafeSpec => []TokenMatchesStatus
<1>1. QueueInv => TokenMatchesStatus
  BY DEF QueueInv
<1> QED
  BY Invariance, <1>1, PTL

\* A claim belongs to one runner, whatever lapses, stops or crashes.
THEOREM Exclusive == SafeSpec => []ClaimsDistinct
<1>1. QueueInv => ClaimsDistinct
  BY DEF QueueInv
<1> QED
  BY Invariance, <1>1, PTL

-----------------------------------------------------------------------------
(* What one step may do to one row.                                         *)

RowStays(r) ==
  status'[r] = status[r] /\ token'[r] = token[r] /\ attempts'[r] = attempts[r]

RowEnqueued(r) ==
  /\ status[r] = "absent" /\ status'[r] = "queued"
  /\ token'[r] = token[r] /\ attempts'[r] = attempts[r]

RowClaimed(r) ==
  /\ \/ status[r] \in {"absent", "queued"}
     \/ status[r] = "running" /\ lease[r] = "expired"
  /\ status'[r] = "running"
  /\ token'[r] = attempts[r] + 1 /\ attempts'[r] = attempts[r] + 1

RowReleased(r) ==
  /\ status[r] = "running" /\ \E p \in Runner : token[r] \in HeldTokens(p, r)
  /\ status'[r] \in {"queued"} \cup Terminal
  /\ token'[r] = NoToken /\ attempts'[r] = attempts[r]

RowWithdrawn(r) ==
  /\ status[r] = "queued" /\ status'[r] = "cancelled"
  /\ token'[r] = token[r] /\ attempts'[r] = attempts[r]

RowStep(r) ==
  \/ RowStays(r) \/ RowEnqueued(r) \/ RowClaimed(r)
  \/ RowReleased(r) \/ RowWithdrawn(r)

\* A requeue or completion under a token a runner holds releases that row only.
LEMMA ReleaseRow ==
  ASSUME QueueInv, NEW p \in Runner, NEW x \in Run, NEW t \in HeldTokens(p, x),
         NEW c, NEW r \in Run,
         \/ StoreRequeue(Owned(x, t))
         \/ \E outcome \in Terminal : StoreComplete(Owned(x, t), outcome, c)
  PROVE  RowStep(r)
<1>1. StoreOK
  BY InvParts
<1>2. t # NoToken
  BY DEF HeldTokens
<1>3. PICK outcome \in {"queued"} \cup Terminal :
        /\ status' = Update(status, Owned(x, t), outcome)
        /\ token' = Update(token, Owned(x, t), NoToken)
        /\ attempts' = attempts
  BY DEF StoreRequeue, StoreComplete
<1>4. CASE r \in Owned(x, t)
  <2>1. r = x /\ token[r] = t
    BY <1>4 DEF Owned
  <2>2. status[r] = "running"
    BY <1>1, <1>2, <2>1 DEF StoreOK, TokenMatchesStatus
  <2> QED
    BY <1>3, <1>4, <2>1, <2>2 DEF Update, RowStep, RowReleased
<1>5. CASE r \notin Owned(x, t)
  BY <1>3, <1>5 DEF Update, RowStep, RowStays
<1> QED
  BY <1>4, <1>5

\* A tick inserts rows and claims rows.
LEMMA TickRow ==
  ASSUME QueueInv, NEW p \in Runner, NEW M \in SUBSET Materializable, TickBody(p, M),
         NEW r \in Run
  PROVE  RowStep(r)
<1> DEFINE B == Batch(M)
<1>1. /\ status' = [x \in Run |-> IF x \in B THEN "running"
                                  ELSE IF x \in M THEN "queued" ELSE status[x]]
      /\ token' = [x \in Run |-> IF x \in B THEN attempts[x] + 1 ELSE token[x]]
      /\ attempts' = [x \in Run |-> IF x \in B THEN attempts[x] + 1 ELSE attempts[x]]
  BY DEF TickBody, StoreMaterializeAndClaim
<1>2. r \in M => status[r] = "absent"
  BY DEF Materializable
<1>3. r \in B => r \in Claimable(M)
  BY DEF Batch
<1>4. r \in Claimable(M) => \/ r \in M
                            \/ status[r] = "queued"
                            \/ status[r] = "running" /\ lease[r] = "expired"
  BY DEF Claimable
<1> HIDE DEF B
<1>5. CASE r \in B
  BY <1>1, <1>2, <1>3, <1>4, <1>5 DEF RowStep, RowClaimed
<1>6. CASE r \notin B /\ r \in M
  BY <1>1, <1>2, <1>6 DEF RowStep, RowEnqueued
<1>7. CASE r \notin B /\ r \notin M
  BY <1>1, <1>7 DEF RowStep, RowStays
<1> QED
  BY <1>5, <1>6, <1>7

\* Steps that touch neither the status nor the claim of a row.
LEMMA StoreKeptRow ==
  ASSUME NEW r \in Run, UNCHANGED <<status, token, attempts>>
  PROVE  RowStep(r)
  BY DEF RowStep, RowStays

\* stop() releases the claims that have no session.
LEMMA StopRow ==
  ASSUME QueueInv, NEW p \in Runner, Stop(p), NEW r \in Run
  PROVE  RowStep(r)
<1>1. StoreOK /\ ClaimsTokened
  BY InvParts
<1> DEFINE rows == UNION {Owned(x, tok[p][x]) : x \in Sessionless(p)}
<1>2. CASE UNCHANGED store
  BY <1>2, StoreKeptRow DEF store
<1>3. CASE StoreRequeue(rows)
  <2>1. /\ status' = Update(status, rows, "queued")
        /\ token' = Update(token, rows, NoToken)
        /\ attempts' = attempts
    BY <1>3 DEF StoreRequeue
  <2>2. CASE r \in rows
    <3>1. r \in Sessionless(p) /\ token[r] = tok[p][r]
      BY <2>2 DEF Owned
    <3>2. tok[p][r] # NoToken
      BY <1>1, <3>1 DEF Sessionless, ActiveRuns, ClaimsTokened
    <3>3. status[r] = "running"
      BY <1>1, <3>1, <3>2 DEF StoreOK, TokenMatchesStatus
    <3>4. token[r] \in HeldTokens(p, r)
      BY <3>1, <3>2 DEF HeldTokens
    <3> HIDE DEF rows
    <3> QED
      BY <2>1, <2>2, <3>3, <3>4 DEF Update, RowStep, RowReleased
  <2>3. CASE r \notin rows
    <3> HIDE DEF rows
    <3> QED
      BY <2>1, <2>3 DEF Update, RowStep, RowStays
  <2> QED
    BY <2>2, <2>3
<1> QED
  BY <1>2, <1>3 DEF Stop

\* What one step of the system may do to one row, the basis of the action properties.
LEMMA RowSteps ==
  ASSUME QueueInv, [Next]_vars, NEW r \in Run
  PROVE  RowStep(r)
<1>1. StoreOK /\ RunnerTypeOK /\ ClaimsTokened
  BY InvParts
<1>2. ASSUME NEW x \in Run, Enqueue(x) \/ Elapse(x) \/ LeaseLapses(x)
      PROVE  RowStep(r)
  <2>1. CASE Enqueue(x)
    BY <1>1, <2>1 DEF Enqueue, StoreEnqueue, StoreOK, StoreTypeOK,
                      RowStep, RowStays, RowEnqueued
  <2>2. CASE Elapse(x) \/ LeaseLapses(x)
    BY <2>2, StoreKeptRow DEF Elapse, LeaseLapses
  <2> QED
    BY <1>2, <2>1, <2>2
<1>3. ASSUME NEW s \in Spec, CancelQueuedRunsForSpec(s)
      PROVE  RowStep(r)
  BY <1>3 DEF CancelQueuedRunsForSpec, Update, RowStep, RowStays, RowWithdrawn
<1>4. ASSUME NEW s \in Spec, NEW b \in BOOLEAN, SetEnabled(s, b)
      PROVE  RowStep(r)
  BY <1>4, StoreKeptRow DEF SetEnabled, store
<1>5. ASSUME NEW p \in Runner, RunnerStep(p)
      PROVE  RowStep(r)
  <2>1. CASE Boot(p) \/ ArmInterval(p) \/ Crash(p) \/ CloseStore(p)
    BY <2>1, StoreKeptRow DEF Boot, ArmInterval, Crash, CloseStore, Halt, store
  <2>2. CASE Start(p)
    BY <2>2, TickRow, StoreKeptRow DEF Start, store
  <2>3. CASE Poll(p)
    BY <2>3, TickRow DEF Poll
  <2>4. CASE Stop(p)
    BY <2>4, StopRow
  <2> QED
    BY <1>5, <2>1, <2>2, <2>3, <2>4 DEF RunnerStep
<1>6. ASSUME NEW p \in Runner, NEW x \in Run,
             Trigger(p, x) \/ StopRequeue(p, x) \/ RenewClaim(p, x)
      PROVE  RowStep(r)
  <2>1. CASE Trigger(p, x)
    <3>1. x \in Materializable
      BY <2>1 DEF Trigger
    <3>2. ASSUME StoreEnqueue(x, TRUE) PROVE RowStep(r)
      BY <1>1, <3>1, <3>2 DEF StoreEnqueue, Materializable, StoreOK, StoreTypeOK,
                              RowStep, RowStays, RowEnqueued
    <3>3. ASSUME NEW M \in SUBSET Materializable, TickBody(p, M \cup {x})
          PROVE  RowStep(r)
      <4>1. M \cup {x} \in SUBSET Materializable
        BY <3>1
      <4> QED
        BY <3>3, <4>1, TickRow
    <3> QED
      BY <2>1, <3>2, <3>3 DEF Trigger
  <2>2. CASE StopRequeue(p, x)
    <3>1. stopTok[p][x] \in HeldTokens(p, x)
      BY <2>2 DEF StopRequeue, HeldTokens
    <3> QED
      BY <2>2, <3>1, ReleaseRow DEF StopRequeue
  <2>3. CASE RenewClaim(p, x)
    BY <2>3, StoreKeptRow DEF RenewClaim
  <2> QED
    BY <1>6, <2>1, <2>2, <2>3
<1>7. ASSUME NEW p \in Runner, NEW x \in Run, ExecuteStep(p, x)
      PROVE  RowStep(r)
  <2>1. pc[p][x] # "idle"
    BY <1>7 DEF ExecuteStep, Dispatch, SessionStarted, StartFails, TurnReturns,
                TurnThrows, TurnTimesOut, AbortReturns, SessionStopped
  <2>2. tok[p][x] \in HeldTokens(p, x)
    BY <1>1, <2>1 DEF HeldTokens, ClaimsTokened
  <2>3. CASE UNCHANGED store
    BY <2>3, StoreKeptRow DEF store
  <2>4. CASE StoreRequeue(Owned(x, tok[p][x]))
    BY <2>2, <2>4, ReleaseRow
  <2>5. ASSUME NEW outcome \in Terminal, NEW c,
               StoreComplete(Owned(x, tok[p][x]), outcome, c)
        PROVE  RowStep(r)
    BY <2>2, <2>5, ReleaseRow
  <2>6. CASE SessionStarted(p, x)
    BY <2>6, StoreKeptRow DEF SessionStarted
  <2>7. "cancelled" \in Terminal /\ "failed" \in Terminal /\ "done" \in Terminal
    BY DEF Terminal
  <2> QED
    BY <1>7, <2>3, <2>4, <2>5, <2>6, <2>7
       DEF ExecuteStep, Dispatch, StartFails, TurnReturns, TurnThrows, TurnTimesOut,
           AbortReturns, SessionStopped
<1>8. CASE UNCHANGED vars
  BY <1>8, StoreKeptRow DEF vars, store
<1> QED
  BY <1>2, <1>3, <1>4, <1>5, <1>6, <1>7, <1>8 DEF Next

\* The outcome of a run is written once, whoever completes, requeues or cancels late.
THEOREM OutcomesFinal == SafeSpec => OutcomeIsFinal
<1>1. ASSUME QueueInv, [Next]_vars
      PROVE  [\A r \in Run : status[r] \in Terminal =>
                status'[r] = status[r] /\ attempts'[r] = attempts[r]]_vars
  <2> SUFFICES ASSUME NEW r \in Run, status[r] \in Terminal
               PROVE  status'[r] = status[r] /\ attempts'[r] = attempts[r]
    OBVIOUS
  <2> QED
    BY <1>1, RowSteps DEF Terminal, RowStep, RowStays, RowEnqueued, RowClaimed,
                          RowReleased, RowWithdrawn
<1> QED
  BY Invariance, <1>1, PTL DEF SafeSpec, OutcomeIsFinal

\* Only a runner that holds the current token ends a run, and a run changes hands
\* only after its lease lapsed.
THEOREM HolderSettles == SafeSpec => OnlyHolderSettles
<1>1. ASSUME QueueInv, [Next]_vars
      PROVE  [\A r \in Run : status[r] = "running" =>
                /\ status'[r] # "running" =>
                     \E p \in Runner : token[r] \in HeldTokens(p, r)
                /\ status'[r] = "running" /\ token'[r] # token[r]
                     => lease[r] = "expired"]_vars
  <2> SUFFICES ASSUME NEW r \in Run, status[r] = "running"
               PROVE  /\ status'[r] # "running" =>
                           \E p \in Runner : token[r] \in HeldTokens(p, r)
                      /\ status'[r] = "running" /\ token'[r] # token[r]
                           => lease[r] = "expired"
    OBVIOUS
  <2> QED
    BY <1>1, RowSteps DEF Terminal, RowStep, RowStays, RowEnqueued, RowClaimed,
                          RowReleased, RowWithdrawn
<1> QED
  BY Invariance, <1>1, PTL DEF SafeSpec, OnlyHolderSettles

\* The queue with its tokens, leases, sessions and faults implements the life of a run
\* its users rely on: every step maps to a step of RunLifecycle or to a stutter.
THEOREM Implements == SafeSpec => ImplementsLifecycle
<1>1. Init => Lifecycle!Init
  BY DEF Init, Lifecycle!Init
<1>2. ASSUME QueueInv, [Next]_vars
      PROVE  [Lifecycle!Next]_Lifecycle!vars
  <2> SUFFICES ASSUME NEW r \in Run
               PROVE  Lifecycle!Step(r) \/ Lifecycle!Stays(r)
    BY DEF Lifecycle!Next
  <2>1. RowStep(r)
    BY <1>2, RowSteps
  <2>2. CASE RowStays(r)
    BY <2>2 DEF RowStays, Lifecycle!Stays, Lifecycle!Keeps
  <2>3. CASE RowEnqueued(r)
    BY <2>3 DEF RowEnqueued, Lifecycle!Step, Lifecycle!Submit, Lifecycle!Keeps
  <2>4. CASE RowClaimed(r)
    BY <2>4 DEF RowClaimed, Lifecycle!Step, Lifecycle!Grant
  <2>5. CASE RowReleased(r)
    BY <2>5 DEF RowReleased, Terminal, Lifecycle!Step, Lifecycle!HandBack,
                Lifecycle!Settle, Lifecycle!Outcomes, Lifecycle!Keeps
  <2>6. CASE RowWithdrawn(r)
    BY <2>6 DEF RowWithdrawn, Lifecycle!Step, Lifecycle!Withdraw, Lifecycle!Keeps
  <2> QED
    BY <2>1, <2>2, <2>3, <2>4, <2>5, <2>6 DEF RowStep
<1> QED
  BY Invariance, <1>1, <1>2, PTL
     DEF SafeSpec, ImplementsLifecycle, Lifecycle!SafeSpec

-----------------------------------------------------------------------------
(* The concurrency limits.                                                  *)

\* Every step but a dispatch into a free slot leaves a runner no more active runs.
ActiveShrinks(p) == ActiveRuns(p)' \subseteq ActiveRuns(p)

ActiveGrows(p) ==
  \E r \in Run : /\ HasCapacity(p, SpecOf[r])
                 /\ ActiveRuns(p)' = ActiveRuns(p) \cup {r}

\* Only a dispatch that found capacity adds an active run, one at a time.
LEMMA ActiveSteps ==
  ASSUME QueueInv, [Next]_vars, NEW p \in Runner
  PROVE  ActiveShrinks(p) \/ ActiveGrows(p)
<1>1. RunnerTypeOK
  BY InvParts
<1>2. ASSUME NEW q \in Runner, NEW B \in SUBSET Run,
             pc' = [pc EXCEPT ![q] = Update(pc[q], B, "claimed")]
      PROVE  ActiveShrinks(p)
  BY <1>1, <1>2 DEF ActiveShrinks, ActiveRuns, Executing, Update, RunnerTypeOK
<1>3. ASSUME UNCHANGED pc PROVE ActiveShrinks(p)
  BY <1>3 DEF ActiveShrinks, ActiveRuns
<1>4. ASSUME NEW q \in Runner, NEW M, TickBody(q, M) PROVE ActiveShrinks(p)
  <2>1. Batch(M) \in SUBSET Run
    BY DEF Batch, Claimable
  <2> QED
    BY <1>2, <1>4, <2>1 DEF TickBody
<1>5. ASSUME NEW r \in Run, Enqueue(r) \/ Elapse(r) \/ LeaseLapses(r)
      PROVE  ActiveShrinks(p)
  BY <1>3, <1>5 DEF Enqueue, Elapse, LeaseLapses
<1>6. ASSUME NEW s \in Spec,
             CancelQueuedRunsForSpec(s) \/ \E b \in BOOLEAN : SetEnabled(s, b)
      PROVE  ActiveShrinks(p)
  BY <1>3, <1>6 DEF CancelQueuedRunsForSpec, SetEnabled
<1>7. ASSUME NEW q \in Runner, RunnerStep(q)
      PROVE  ActiveShrinks(p)
  <2>1. CASE Boot(q) \/ ArmInterval(q) \/ Stop(q)
    BY <1>3, <2>1 DEF Boot, ArmInterval, Stop
  <2>2. CASE Start(q) \/ Poll(q)
    BY <1>3, <1>4, <2>2 DEF Start, Poll
  <2>3. CASE Crash(q) \/ CloseStore(q)
    <3>1. pc' = [pc EXCEPT ![q] = [r \in Run |-> "idle"]]
      BY <2>3 DEF Crash, CloseStore, Halt
    <3> QED
      BY <1>1, <3>1 DEF ActiveShrinks, ActiveRuns, Executing, RunnerTypeOK
  <2> QED
    BY <1>7, <2>1, <2>2, <2>3 DEF RunnerStep
<1>8. ASSUME NEW q \in Runner, NEW r \in Run,
             Trigger(q, r) \/ StopRequeue(q, r) \/ RenewClaim(q, r)
      PROVE  ActiveShrinks(p)
  BY <1>3, <1>4, <1>8 DEF Trigger, StopRequeue, RenewClaim
<1>9. ASSUME NEW q \in Runner, NEW r \in Run, ExecuteStep(q, r)
      PROVE  ActiveShrinks(p) \/ ActiveGrows(p)
  <2>1. CASE Leave(q, r)
    BY <1>1, <2>1 DEF Leave, ActiveShrinks, ActiveRuns, Executing, RunnerTypeOK
  <2>2. ASSUME NEW c, pc' = [pc EXCEPT ![q][r] = c], pc[q][r] \in Executing
        PROVE  ActiveShrinks(p)
    BY <1>1, <2>2 DEF ActiveShrinks, ActiveRuns, RunnerTypeOK
  <2>3. ASSUME pc' = [pc EXCEPT ![q][r] = "starting"], HasCapacity(q, SpecOf[r])
        PROVE  ActiveShrinks(p) \/ ActiveGrows(p)
    <3>1. CASE q = p
      <4>1. ActiveRuns(p)' = ActiveRuns(p) \cup {r}
        BY <1>1, <2>3, <3>1 DEF ActiveRuns, Executing, RunnerTypeOK
      <4> QED
        BY <2>3, <3>1, <4>1 DEF ActiveGrows
    <3>2. CASE q # p
      BY <1>1, <2>3, <3>2 DEF ActiveShrinks, ActiveRuns, RunnerTypeOK
    <3> QED
      BY <3>1, <3>2
  <2>4. CASE Dispatch(q, r)
    BY <2>1, <2>3, <2>4 DEF Dispatch
  <2>5. CASE StartFails(q, r) \/ SessionStopped(q, r)
    BY <2>1, <2>5 DEF StartFails, SessionStopped
  <2>6. CASE SessionStarted(q, r) \/ TurnTimesOut(q, r)
    BY <2>2, <2>6 DEF SessionStarted, TurnTimesOut, Executing
  <2>7. CASE TurnReturns(q, r) \/ TurnThrows(q, r) \/ AbortReturns(q, r)
    BY <2>2, <2>7 DEF TurnReturns, TurnThrows, AbortReturns, Conclude, Executing
  <2> QED
    BY <1>9, <2>4, <2>5, <2>6, <2>7 DEF ExecuteStep
<1>10. CASE UNCHANGED vars
  BY <1>3, <1>10 DEF vars
<1> QED
  BY <1>5, <1>6, <1>7, <1>8, <1>9, <1>10 DEF Next

ActiveOfSpec(p, s) == {r \in ActiveRuns(p) : SpecOf[r] = s}

\* Finite sets of runs: what a step that shrinks or grows by one does to the counts.
LEMMA Counts ==
  ASSUME NEW A \in SUBSET Run, NEW B \in SUBSET Run, NEW r \in Run, NEW n \in Nat,
         \/ B \subseteq A /\ Cardinality(A) <= n
         \/ B \subseteq A \cup {r} /\ Cardinality(A) < n
  PROVE  Cardinality(B) <= n
<1>1. IsFiniteSet(A) /\ IsFiniteSet(A \cup {r})
  <2>1. IsFiniteSet(Run)
    BY CronQueueAssumption
  <2>2. A \cup {r} \subseteq Run
    OBVIOUS
  <2> QED
    BY <2>1, <2>2, FS_Subset
<1>2. Cardinality(A) \in Nat
  BY <1>1, FS_CardinalityType
<1>3. CASE B \subseteq A /\ Cardinality(A) <= n
  <2>1. Cardinality(B) \in Nat /\ Cardinality(B) <= Cardinality(A)
    BY <1>1, <1>3, FS_Subset, FS_CardinalityType
  <2> QED
    BY <1>2, <1>3, <2>1
<1>4. CASE B \subseteq A \cup {r} /\ Cardinality(A) < n
  <2>1. /\ Cardinality(B) \in Nat
        /\ Cardinality(B) <= Cardinality(A \cup {r})
    BY <1>1, <1>4, FS_Subset, FS_CardinalityType
  <2>2. Cardinality(A \cup {r}) \in {Cardinality(A), Cardinality(A) + 1}
    BY <1>1, FS_AddElement
  <2> QED
    BY <1>2, <1>4, <2>1, <2>2
<1> QED
  BY <1>3, <1>4

\* A runner never executes more runs than its global limit nor, for one spec, than
\* max_parallel.
THEOREM Limits == SafeSpec => []LimitsRespected
<1>1. Init => LimitsRespected
  <2> SUFFICES ASSUME Init, NEW p \in Runner PROVE
        /\ Cardinality(ActiveRuns(p)) <= GlobalLimit
        /\ \A s \in Spec : Cardinality(ActiveOfSpec(p, s)) <= MaxParallel[s]
    BY DEF LimitsRespected, ActiveOfSpec
  <2>1. ActiveRuns(p) = {} /\ \A s \in Spec : ActiveOfSpec(p, s) = {}
    BY DEF Init, ActiveRuns, ActiveOfSpec, Executing
  <2>2. Cardinality({}) = 0
    BY FS_EmptySet
  <2>3. GlobalLimit \in Nat /\ \A s \in Spec : MaxParallel[s] \in Nat
    BY CronQueueAssumption
  <2> QED
    BY <2>1, <2>2, <2>3
<1>2. LimitsRespected /\ QueueInv /\ [Next]_vars => LimitsRespected'
  <2> SUFFICES ASSUME LimitsRespected, QueueInv, [Next]_vars, NEW p \in Runner PROVE
        /\ Cardinality(ActiveRuns(p)') <= GlobalLimit
        /\ \A s \in Spec : Cardinality(ActiveOfSpec(p, s)') <= MaxParallel[s]
    BY DEF LimitsRespected, ActiveOfSpec
  <2>1. /\ Cardinality(ActiveRuns(p)) <= GlobalLimit
        /\ \A s \in Spec : Cardinality(ActiveOfSpec(p, s)) <= MaxParallel[s]
    BY DEF LimitsRespected, ActiveOfSpec
  <2>2. GlobalLimit \in Nat /\ \A s \in Spec : MaxParallel[s] \in Nat
    BY CronQueueAssumption
  <2>3. /\ ActiveRuns(p) \in SUBSET Run /\ ActiveRuns(p)' \in SUBSET Run
        /\ \A s \in Spec : /\ ActiveOfSpec(p, s) \in SUBSET Run
                           /\ ActiveOfSpec(p, s)' \in SUBSET Run
    BY DEF ActiveRuns, ActiveOfSpec
  <2>4. CASE ActiveShrinks(p)
    <3>1. \A s \in Spec : ActiveOfSpec(p, s)' \subseteq ActiveOfSpec(p, s)
      BY <2>4 DEF ActiveShrinks, ActiveOfSpec
    <3>2. CASE Run = {}
      <4>1. ActiveRuns(p)' = {} /\ \A s \in Spec : ActiveOfSpec(p, s)' = {}
        BY <2>3, <3>2
      <4> QED
        BY <2>2, <4>1, FS_EmptySet
    <3>3. ASSUME NEW r \in Run PROVE
            /\ Cardinality(ActiveRuns(p)') <= GlobalLimit
            /\ \A s \in Spec : Cardinality(ActiveOfSpec(p, s)') <= MaxParallel[s]
      BY <2>1, <2>2, <2>3, <2>4, <3>1, Counts DEF ActiveShrinks
    <3> QED
      BY <3>2, <3>3
  <2>5. CASE ActiveGrows(p)
    <3>1. PICK r \in Run : /\ HasCapacity(p, SpecOf[r])
                           /\ ActiveRuns(p)' = ActiveRuns(p) \cup {r}
      BY <2>5 DEF ActiveGrows
    <3>2. Cardinality(ActiveRuns(p)') <= GlobalLimit
      BY <2>2, <2>3, <3>1, Counts DEF HasCapacity
    <3>3. ASSUME NEW s \in Spec PROVE Cardinality(ActiveOfSpec(p, s)') <= MaxParallel[s]
      <4>1. CASE SpecOf[r] = s
        <5>1. Cardinality(ActiveOfSpec(p, s)) < MaxParallel[s]
          BY <3>1, <4>1 DEF HasCapacity, ActiveOfSpec
        <5>2. ActiveOfSpec(p, s)' \subseteq ActiveOfSpec(p, s) \cup {r}
          BY <3>1 DEF ActiveOfSpec
        <5> QED
          BY <2>2, <2>3, <5>1, <5>2, Counts
      <4>2. CASE SpecOf[r] # s
        <5>1. ActiveOfSpec(p, s)' \subseteq ActiveOfSpec(p, s)
          BY <3>1, <4>2 DEF ActiveOfSpec
        <5> QED
          BY <2>1, <2>2, <2>3, <5>1, Counts
      <4> QED
        BY <4>1, <4>2
    <3> QED
      BY <3>2, <3>3
  <2> QED
    BY <2>4, <2>5, ActiveSteps
<1> QED
  BY Invariance, <1>1, <1>2, PTL DEF SafeSpec

-----------------------------------------------------------------------------
(* Stopped runners.                                                         *)

\* A run a stopped runner still executes is no longer its own, or stop() has yet to
\* requeue it: the strengthening of StoppedRunnerOwnsNothing over one claim.
Handed(p, r) ==
  mode[p] = "stopped" /\ pc[p][r] \in Executing
    => stopTok[p][r] = tok[p][r] \/ token[r] # tok[p][r]

StopInv == \A p \in Runner, r \in Run : Handed(p, r)

\* The claim of p on r is as it was.
ClaimStands(p, r) ==
  /\ mode[p] = "stopped" /\ pc[p][r] \in Executing
  /\ tok'[p][r] = tok[p][r] /\ stopTok'[p][r] = stopTok[p][r]

\* stop() and its requeue are the only steps that change what Handed is about.
LEMMA ClaimsStand ==
  ASSUME QueueInv, [Next]_vars, NEW p \in Runner, NEW r \in Run,
         ~(mode[p] = "started" /\ Stop(p)), ~StopRequeue(p, r),
         mode'[p] = "stopped", pc'[p][r] \in Executing
  PROVE  ClaimStands(p, r)
<1>1. RunnerTypeOK
  BY InvParts
<1>2. ASSUME UNCHANGED <<mode, pc, tok, stopTok>> PROVE ClaimStands(p, r)
  BY <1>2 DEF ClaimStands
<1>3. ASSUME NEW q \in Runner, NEW M, TickBody(q, M),
             mode'[p] = "stopped" => mode[p] = "stopped"
      PROVE  ClaimStands(p, r)
  <2>1. /\ pc' = [pc EXCEPT ![q] = Update(pc[q], Batch(M), "claimed")]
        /\ tok' = [tok EXCEPT ![q] = [x \in Run |-> IF x \in Batch(M) THEN token'[x]
                                                    ELSE tok[q][x]]]
        /\ stopTok' = stopTok
    BY <1>3 DEF TickBody
  <2>2. CASE q = p /\ r \in Batch(M)
    BY <1>1, <2>1, <2>2 DEF Update, Executing, RunnerTypeOK
  <2>3. CASE q = p /\ r \notin Batch(M)
    BY <1>1, <1>3, <2>1, <2>3 DEF Update, ClaimStands, RunnerTypeOK
  <2>4. CASE q # p
    BY <1>1, <1>3, <2>1, <2>4 DEF ClaimStands, RunnerTypeOK
  <2> QED
    BY <2>2, <2>3, <2>4
<1>4. ASSUME NEW x \in Run, Enqueue(x) \/ Elapse(x) \/ LeaseLapses(x)
      PROVE  ClaimStands(p, r)
  BY <1>2, <1>4 DEF Enqueue, Elapse, LeaseLapses
<1>5. ASSUME NEW s \in Spec,
             CancelQueuedRunsForSpec(s) \/ \E b \in BOOLEAN : SetEnabled(s, b)
      PROVE  ClaimStands(p, r)
  BY <1>2, <1>5 DEF CancelQueuedRunsForSpec, SetEnabled
<1>6. ASSUME NEW q \in Runner, RunnerStep(q)
      PROVE  ClaimStands(p, r)
  <2>1. CASE Boot(q)
    BY <1>1, <2>1 DEF Boot, ClaimStands, RunnerTypeOK
  <2>2. CASE Start(q)
    <3>1. mode' = [mode EXCEPT ![q] = "started"]
      BY <2>2 DEF Start
    <3>2. mode[p] = "stopped" /\ mode'[p] = mode[p]
      BY <1>1, <3>1 DEF RunnerTypeOK
    <3>3. ASSUME UNCHANGED <<pc, tok, stopTok>> PROVE ClaimStands(p, r)
      BY <3>2, <3>3 DEF ClaimStands
    <3> QED
      BY <1>3, <2>2, <3>2, <3>3 DEF Start
  <2>3. CASE ArmInterval(q)
    BY <1>2, <2>3 DEF ArmInterval
  <2>4. CASE Poll(q)
    BY <1>3, <2>4 DEF Poll
  <2>5. CASE Stop(q)
    <3>1. pc' = pc /\ tok' = tok
      BY <2>5 DEF Stop
    <3>2. CASE mode[q] # "started"
      <4>1. /\ mode' \in {mode, [mode EXCEPT ![q] = "closed"]}
            /\ stopTok' = stopTok
        BY <1>1, <2>5, <3>2 DEF Stop, RunnerTypeOK
      <4> QED
        BY <1>1, <3>1, <4>1 DEF ClaimStands, RunnerTypeOK
    <3>3. CASE mode[q] = "started"
      <4>1. q # p
        BY <2>5, <3>3
      <4>2. mode' = [mode EXCEPT ![q] = "stopped"]
        BY <2>5, <3>3 DEF Stop
      <4>3. \E f : stopTok' = [stopTok EXCEPT ![q] = f]
        BY <2>5, <3>3 DEF Stop
      <4> QED
        BY <1>1, <3>1, <4>1, <4>2, <4>3 DEF ClaimStands, RunnerTypeOK
    <3> QED
      BY <3>2, <3>3
  <2>6. CASE Crash(q) \/ CloseStore(q)
    <3>1. Halt(q)
      BY <2>6 DEF Crash, CloseStore
    <3>2. q # p
      BY <1>1, <3>1 DEF Halt, RunnerTypeOK
    <3> QED
      BY <1>1, <3>1, <3>2 DEF Halt, ClaimStands, RunnerTypeOK
  <2> QED
    BY <1>6, <2>1, <2>2, <2>3, <2>4, <2>5, <2>6 DEF RunnerStep
<1>7. ASSUME NEW q \in Runner, NEW x \in Run,
             Trigger(q, x) \/ StopRequeue(q, x) \/ RenewClaim(q, x)
      PROVE  ClaimStands(p, r)
  <2>1. CASE Trigger(q, x)
    BY <1>2, <1>3, <2>1 DEF Trigger
  <2>2. CASE StopRequeue(q, x)
    <3>1. ~(q = p /\ x = r)
      BY <2>2
    <3> QED
      BY <1>1, <2>2, <3>1 DEF StopRequeue, ClaimStands, RunnerTypeOK
  <2>3. CASE RenewClaim(q, x)
    BY <1>2, <2>3 DEF RenewClaim
  <2> QED
    BY <1>7, <2>1, <2>2, <2>3
<1>8. ASSUME NEW q \in Runner, NEW x \in Run, ExecuteStep(q, x)
      PROVE  ClaimStands(p, r)
  <2>1. mode' = mode /\ stopTok' = stopTok
    BY <1>8 DEF ExecuteStep, Dispatch, SessionStarted, StartFails, TurnReturns,
                TurnThrows, TurnTimesOut, AbortReturns, SessionStopped, Conclude
  <2>2. CASE Leave(q, x)
    BY <1>1, <2>1, <2>2 DEF Leave, Executing, ClaimStands, RunnerTypeOK
  <2>3. ASSUME NEW c, pc' = [pc EXCEPT ![q][x] = c], UNCHANGED tok,
               pc[q][x] \in Executing \/ ~Stopping(q)
        PROVE  ClaimStands(p, r)
    <3>1. mode[p] = "stopped"
      BY <2>1
    <3>2. pc[p][r] \in Executing
      BY <1>1, <2>3, <3>1 DEF RunnerTypeOK, Stopping
    <3> QED
      BY <2>1, <2>3, <3>1, <3>2 DEF ClaimStands
  <2>4. CASE Dispatch(q, x)
    BY <2>2, <2>3, <2>4 DEF Dispatch
  <2>5. CASE StartFails(q, x) \/ SessionStopped(q, x)
    BY <2>2, <2>5 DEF StartFails, SessionStopped
  <2>6. CASE SessionStarted(q, x) \/ TurnTimesOut(q, x)
    BY <2>3, <2>6 DEF SessionStarted, TurnTimesOut, Executing
  <2>7. CASE TurnReturns(q, x) \/ TurnThrows(q, x) \/ AbortReturns(q, x)
    BY <2>3, <2>7 DEF TurnReturns, TurnThrows, AbortReturns, Conclude, Executing
  <2> QED
    BY <1>8, <2>4, <2>5, <2>6, <2>7 DEF ExecuteStep
<1>9. CASE UNCHANGED vars
  BY <1>2, <1>9 DEF vars
<1> QED
  BY <1>4, <1>5, <1>6, <1>7, <1>8, <1>9 DEF Next

\* A runner whose stop() has returned owns no row: its claims are handed back or settled.
THEOREM StoppedOwnsNothing == SafeSpec => []StoppedRunnerOwnsNothing
<1>1. Init => StopInv
  BY DEF Init, StopInv, Handed, Executing
<1>2. StopInv /\ QueueInv /\ [Next]_vars => StopInv'
  <2> SUFFICES ASSUME StopInv, QueueInv, [Next]_vars, NEW p \in Runner, NEW r \in Run,
                      mode'[p] = "stopped", pc'[p][r] \in Executing
               PROVE  stopTok'[p][r] = tok'[p][r] \/ token'[r] # tok'[p][r]
    BY DEF StopInv, Handed
  <2>1. StoreTypeOK /\ RunnerTypeOK /\ ClaimsTokened
    BY InvParts DEF StoreOK
  <2>2. CASE mode[p] = "started" /\ Stop(p)
    <3>1. pc' = pc /\ tok' = tok /\ tok[p][r] # NoToken /\ r \in ActiveRuns(p)
      BY <2>1, <2>2 DEF Stop, ClaimsTokened, ActiveRuns, Executing
    <3>2. mode[p] = "started"
      BY <2>2
    <3>3. CASE r \in Sessionless(p)
      <4> DEFINE rows == UNION {Owned(x, tok[p][x]) : x \in Sessionless(p)}
      <4>1. StoreRequeue(rows)
        BY <2>2, <3>2 DEF Stop
      <4>2. token' = [x \in Run |-> IF x \in rows THEN NoToken ELSE token[x]]
        BY <4>1 DEF StoreRequeue, Update
      <4>3. token[r] = tok[p][r] => r \in rows
        BY <3>3 DEF Owned
      <4> HIDE DEF rows
      <4> QED
        BY <3>1, <4>2, <4>3
    <3>4. CASE r \notin Sessionless(p)
      <4>1. stopTok' = [stopTok EXCEPT ![p] = [x \in Run |->
                          IF x \in ActiveRuns(p) \ Sessionless(p)
                          THEN tok[p][x] ELSE stopTok[p][x]]]
        BY <2>2, <3>2 DEF Stop
      <4> QED
        BY <2>1, <3>1, <3>4, <4>1 DEF RunnerTypeOK
    <3> QED
      BY <3>3, <3>4
  <2>3. CASE StopRequeue(p, r)
    <3>1. /\ mode[p] = "stopped" /\ pc[p][r] \in Executing /\ tok' = tok
          /\ tok[p][r] # NoToken
      BY <2>1, <2>3 DEF StopRequeue, ClaimsTokened, Executing
    <3>2. token' = [x \in Run |-> IF x \in Owned(r, stopTok[p][r]) THEN NoToken
                                  ELSE token[x]]
      BY <2>3 DEF StopRequeue, StoreRequeue, Update
    <3>3. stopTok[p][r] = tok[p][r] \/ token[r] # tok[p][r]
      BY <3>1 DEF StopInv, Handed
    <3>4. CASE r \in Owned(r, stopTok[p][r])
      BY <3>1, <3>2, <3>4
    <3>5. CASE r \notin Owned(r, stopTok[p][r])
      <4>1. token[r] # stopTok[p][r]
        BY <3>5 DEF Owned
      <4> QED
        BY <3>1, <3>2, <3>3, <3>5, <4>1
    <3> QED
      BY <3>4, <3>5
  <2>4. CASE ~(mode[p] = "started" /\ Stop(p)) /\ ~StopRequeue(p, r)
    <3>1. ClaimStands(p, r)
      BY <2>4, ClaimsStand
    <3>2. stopTok[p][r] = tok[p][r] \/ token[r] # tok[p][r]
      BY <3>1 DEF StopInv, Handed, ClaimStands
    <3>3. /\ attempts[r] \in Nat /\ tok[p][r] \in Nat /\ tok[p][r] # NoToken
          /\ tok[p][r] <= attempts[r]
      BY <2>1, <3>1 DEF StoreTypeOK, RunnerTypeOK, ClaimsTokened, ClaimStands,
                        Executing, QueueInv, ClaimsBounded, HeldTokens
    <3>4. token'[r] \in {token[r], NoToken, attempts[r] + 1}
      BY RowSteps DEF RowStep, RowStays, RowEnqueued, RowClaimed, RowReleased,
                      RowWithdrawn
    <3>5. attempts[r] + 1 # tok[p][r]
      BY <3>3
    <3> QED
      BY <3>1, <3>2, <3>3, <3>4, <3>5 DEF ClaimStands
  <2> QED
    BY <2>2, <2>3, <2>4
<1>3. QueueInv /\ StopInv => StoppedRunnerOwnsNothing
  BY InvParts DEF StopInv, Handed, StoppedRunnerOwnsNothing, ClaimsTokened, Executing
<1> QED
  BY Invariance, <1>1, <1>2, <1>3, PTL DEF SafeSpec

=============================================================================
