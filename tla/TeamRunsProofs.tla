--------------------------- MODULE TeamRunsProofs ---------------------------
(***************************************************************************)
(* TLAPS proofs about TeamRuns, for every set of teammates and runs, every *)
(* choice of priorities and retries, every concurrency limit and any       *)
(* number of restarts.                                                     *)
(***************************************************************************)
EXTENDS TeamRuns, FiniteSetTheorems, TLAPS

\* The queue has the runs that wait, each once, and at most those a restart interrupted
\* beside them.
Queued(runs, q) ==
  /\ WithStatus(runs, "queued") \subseteq ToSet(q)
  /\ \A r \in ToSet(q) : runs[r].status \in {"queued", "interrupted"}
  /\ \A i, j \in DOMAIN q : q[i] = q[j] => i = j

\* What is executed is running, or was cancelled meanwhile, and what runs is executed.
Executed(runs) ==
  \A r \in Run :
    /\ runs[r].exec # "none" => runs[r].status \in {"running", "cancelled"}
    /\ runs[r].status = "running" => runs[r].exec # "none"

\* A teammate works on one prompt, of a run or of the lead, and counts it.
Booked(runs, mem, syn) ==
  \A a \in Agent :
    /\ \A r, x \in Run : /\ AgentOf[r] = a /\ runs[r].exec = "working"
                         /\ AgentOf[x] = a /\ runs[x].exec = "working"
                         => r = x /\ ~syn[a]
    /\ IF syn[a] \/ \E r \in Run : AgentOf[r] = a /\ runs[r].exec = "working"
       THEN mem[a].count = 1 /\ mem[a].busy ELSE mem[a].count = 0

\* Something will look at the queue again.
Awake ==
  WithStatus(run, "queued") # {} => timer \/ \E x \in Run : run[x].exec # "none"

TeamInv ==
  /\ TypeOK /\ Queued(run, queue) /\ Executed(run) /\ Booked(run, member, sync)
  /\ Awake /\ SessionTracksRuns

-----------------------------------------------------------------------------
(* Lemmas about the operators.                                              *)

\* A finite set of numbers in ascending order has each of them once.
LEMMA Sorted ==
  ASSUME NEW S \in SUBSET Nat, IsFiniteSet(S)
  PROVE  /\ Cardinality(S) \in Nat /\ InOrder(S) \in [1..Cardinality(S) -> S]
         /\ \A n \in S : \E j \in 1..Cardinality(S) : InOrder(S)[j] = n
         /\ \A i, j \in 1..Cardinality(S) : InOrder(S)[i] = InOrder(S)[j] => i = j
<1> DEFINE upTo(n) == {k \in S : k <= n}
           rank == [n \in S |-> Cardinality(upTo(n))]
<1>1. Cardinality(S) \in Nat
  BY FS_CardinalityType
<1>2. ASSUME NEW n \in S
      PROVE  Cardinality(upTo(n)) \in 1..Cardinality(S)
  <2>1. upTo(n) \in SUBSET S /\ upTo(n) # {}
    OBVIOUS
  <2>2. IsFiniteSet(upTo(n)) /\ Cardinality(upTo(n)) <= Cardinality(S)
    BY <2>1, FS_Subset
  <2>3. Cardinality(upTo(n)) \in Nat /\ Cardinality(upTo(n)) # 0
    BY <2>1, <2>2, FS_CardinalityType, FS_EmptySet
  <2> QED
    BY <1>1, <2>2, <2>3
<1>3. ASSUME NEW n \in S, NEW m \in S, n < m
      PROVE  Cardinality(upTo(n)) # Cardinality(upTo(m))
  <2>1. n \in Nat /\ m \in Nat /\ \A k \in S : k \in Nat
    OBVIOUS
  <2>2. \A k \in S : k <= n => k <= m
    BY <1>3, <2>1
  <2>3. m <= m /\ ~(m <= n)
    BY <1>3, <2>1
  <2>4. upTo(n) \in SUBSET upTo(m) /\ m \in upTo(m) /\ m \notin upTo(n)
    BY <2>2, <2>3
  <2>5. IsFiniteSet(upTo(m))
    BY FS_Subset
  <2> QED
    BY <2>4, <2>5, FS_Subset
<1>4. \A n, m \in S : Cardinality(upTo(n)) = Cardinality(upTo(m)) => n = m
  <2> SUFFICES ASSUME NEW n \in S, NEW m \in S, n # m
               PROVE  Cardinality(upTo(n)) # Cardinality(upTo(m))
    OBVIOUS
  <2>1. n < m \/ m < n
    OBVIOUS
  <2> QED
    BY <1>3, <2>1
<1> HIDE DEF upTo
<1>5. rank \in Injection(S, 1..Cardinality(S))
  BY <1>2, <1>4 DEF Injection, IsInjective
<1>6. IsFiniteSet(1..Cardinality(S)) /\ Cardinality(1..Cardinality(S)) = Cardinality(S)
  BY <1>1, FS_Interval
<1>7. rank \in Surjection(S, 1..Cardinality(S))
  BY <1>5, <1>6, FS_Injection
<1>8. \A j \in 1..Cardinality(S) : \E n \in S : Cardinality(upTo(n)) = j
  BY <1>7 DEF Surjection
<1>9. \A j \in 1..Cardinality(S) :
        InOrder(S)[j] \in S /\ Cardinality(upTo(InOrder(S)[j])) = j
  BY <1>8 DEF InOrder, upTo
<1>10. InOrder(S) = [j \in 1..Cardinality(S) |-> InOrder(S)[j]]
  BY DEF InOrder
<1>11. InOrder(S) \in [1..Cardinality(S) -> S]
  BY <1>9, <1>10
<1>12. \A n \in S : \E j \in 1..Cardinality(S) : InOrder(S)[j] = n
  BY <1>2, <1>4, <1>9
<1> QED
  BY <1>1, <1>9, <1>11, <1>12

LEMMA SortedRuns ==
  ASSUME NEW S \in SUBSET Run
  PROVE  /\ InOrder(S) \in Seq(Run) /\ ToSet(InOrder(S)) = S
         /\ \A i, j \in DOMAIN InOrder(S) : InOrder(S)[i] = InOrder(S)[j] => i = j
<1>1. S \in SUBSET Nat /\ IsFiniteSet(S)
  BY TeamRunsAssumption, FS_Subset
<1>2. /\ Cardinality(S) \in Nat /\ InOrder(S) \in [1..Cardinality(S) -> S]
      /\ \A n \in S : \E j \in 1..Cardinality(S) : InOrder(S)[j] = n
      /\ \A i, j \in 1..Cardinality(S) : InOrder(S)[i] = InOrder(S)[j] => i = j
  BY <1>1, Sorted
<1>3. DOMAIN InOrder(S) = 1..Cardinality(S)
  BY <1>2
<1>4. InOrder(S) \in Seq(Run)
  BY <1>2
<1>5. ToSet(InOrder(S)) = S
  BY <1>2, <1>3 DEF ToSet
<1> QED
  BY <1>2, <1>3, <1>4, <1>5

\* Taking runs out of the queue takes out those and no others.
LEMMA TakenOut ==
  ASSUME NEW q \in Seq(Run), NEW S
  PROVE  /\ Without(q, S) \in Seq(Run) /\ ToSet(Without(q, S)) = ToSet(q) \ S
         /\ (\A i, j \in DOMAIN q : q[i] = q[j] => i = j) =>
              \A i, j \in DOMAIN Without(q, S) : Without(q, S)[i] = Without(q, S)[j] => i = j
<1> DEFINE kept == {i \in DOMAIN q : q[i] \notin S}
           order == InOrder(kept)
           n == Cardinality(kept)
<1>1. DOMAIN q = 1..Len(q) /\ Len(q) \in Nat /\ \A i \in DOMAIN q : q[i] \in Run
  OBVIOUS
<1>2. kept \in SUBSET Nat /\ IsFiniteSet(kept)
  <2>1. IsFiniteSet(DOMAIN q)
    BY <1>1, FS_Interval
  <2> QED
    BY <1>1, <2>1, FS_Subset
<1>3. /\ n \in Nat /\ order \in [1..n -> kept]
      /\ \A i \in kept : \E j \in 1..n : order[j] = i
      /\ \A i, j \in 1..n : order[i] = order[j] => i = j
  BY <1>2, Sorted
<1>4. Without(q, S) = [j \in 1..n |-> q[order[j]]]
  <2>1. DOMAIN order = 1..n
    BY <1>3
  <2> QED
    BY <2>1 DEF Without
<1>5. \A i \in kept : i \in DOMAIN q /\ q[i] \notin S
  OBVIOUS
<1>6. \A i \in DOMAIN q : q[i] \notin S => i \in kept
  OBVIOUS
<1> HIDE DEF kept, order, n
<1>7. Without(q, S) \in Seq(Run)
  BY <1>1, <1>3, <1>4, <1>5
<1>8. ToSet(Without(q, S)) = ToSet(q) \ S
  <2>1. DOMAIN Without(q, S) = 1..n /\ \A j \in 1..n : Without(q, S)[j] = q[order[j]]
    BY <1>4
  <2>2. \A j \in 1..n : q[order[j]] \in ToSet(q) \ S
    BY <1>3, <1>5 DEF ToSet
  <2>3. ASSUME NEW r \in ToSet(q) \ S
        PROVE  \E j \in 1..n : q[order[j]] = r
    <3>1. PICK i \in DOMAIN q : q[i] = r
      BY DEF ToSet
    <3> QED
      BY <1>3, <1>6, <3>1
  <2> QED
    BY <2>1, <2>2, <2>3 DEF ToSet
<1>9. (\A i, j \in DOMAIN q : q[i] = q[j] => i = j) =>
         \A i, j \in DOMAIN Without(q, S) : Without(q, S)[i] = Without(q, S)[j] => i = j
  BY <1>3, <1>4, <1>5
<1> QED
  BY <1>7, <1>8, <1>9

-----------------------------------------------------------------------------
(* Dispatching.                                                             *)

\* The runs the loop starts are in the queue and wait.
LEMMA Picked ==
  ASSUME NEW runs \in [Run -> Records], NEW q \in Seq(Run)
  PROVE  /\ IsFiniteSet(Dispatchable(runs, q)) /\ Dispatchable(runs, q) \subseteq ToSet(q)
         /\ ToSet(q) \subseteq Run
         /\ \A r \in Picks(runs, q) :
              r \in Run /\ r \in ToSet(q) /\ runs[r].status = "queued"
<1>1. ToSet(q) \subseteq Run
  BY DEF ToSet
<1>2. Dispatchable(runs, q) \in SUBSET Run
  BY <1>1 DEF Dispatchable
<1>3. IsFiniteSet(Dispatchable(runs, q))
  BY <1>2, TeamRunsAssumption, FS_Subset
<1> QED
  BY <1>1, <1>3 DEF Picks, Dispatchable

\* A run of the queue has a place of its own.
LEMMA Places ==
  ASSUME NEW q \in Seq(Run), NEW r \in ToSet(q)
  PROVE  Place(q, r) \in Nat /\ q[Place(q, r)] = r
<1>1. \E i \in DOMAIN q : q[i] = r
  BY DEF ToSet
<1>2. Place(q, r) \in DOMAIN q /\ q[Place(q, r)] = r
  BY <1>1 DEF Place
<1> QED
  BY <1>2

\* The order of selection is a strict total order on the queue.
LEMMA SelectionOrder ==
  ASSUME NEW q \in Seq(Run), NEW x \in ToSet(q), NEW y \in ToSet(q)
  PROVE  /\ x # y => Before(q, x, y) \/ Before(q, y, x)
         /\ ~Before(q, x, x)
         /\ \A z \in ToSet(q) : Before(q, z, x) /\ Before(q, x, y) => Before(q, z, y)
<1>1. \A z \in ToSet(q) : Place(q, z) \in Nat /\ q[Place(q, z)] = z /\ Priority[z] \in Nat
  <2> SUFFICES ASSUME NEW z \in ToSet(q)
               PROVE  Place(q, z) \in Nat /\ q[Place(q, z)] = z /\ Priority[z] \in Nat
    OBVIOUS
  <2>1. z \in Run
    BY DEF ToSet
  <2> QED
    BY <2>1, Places, TeamRunsAssumption
<1>2. x # y => Place(q, x) # Place(q, y)
  BY <1>1
<1>3. x # y => Before(q, x, y) \/ Before(q, y, x)
  BY <1>1, <1>2 DEF Before
<1>4. ~Before(q, x, x)
  BY <1>1 DEF Before
<1>5. ASSUME NEW z \in ToSet(q), Before(q, z, x), Before(q, x, y)
      PROVE  Before(q, z, y)
  BY <1>1, <1>5 DEF Before
<1> QED
  BY <1>3, <1>4, <1>5

\* When there is capacity and a run that may be started, one is.
LEMMA SomePick ==
  ASSUME NEW runs \in [Run -> Records], NEW q \in Seq(Run),
         Capacity(runs) > 0, Dispatchable(runs, q) # {}
  PROVE  Picks(runs, q) # {}
<1> DEFINE D == Dispatchable(runs, q)
           ahead(r) == {x \in D : Before(q, x, r)}
           ranks == {Cardinality(ahead(r)) : r \in D}
<1>1. IsFiniteSet(D) /\ D \subseteq ToSet(q)
  BY Picked
<1>2. \A r \in D : IsFiniteSet(ahead(r)) /\ Cardinality(ahead(r)) \in Nat
  <2> SUFFICES ASSUME NEW r \in D
               PROVE  IsFiniteSet(ahead(r)) /\ Cardinality(ahead(r)) \in Nat
    OBVIOUS
  <2>1. ahead(r) \in SUBSET D
    OBVIOUS
  <2>2. IsFiniteSet(ahead(r))
    BY <1>1, <2>1, FS_Subset
  <2> QED
    BY <2>2, FS_CardinalityType
<1>3. ranks \subseteq Nat /\ ranks # {}
  BY <1>2
<1>4. PICK r \in D : \A x \in D : ~(Cardinality(ahead(x)) < Cardinality(ahead(r)))
  <2>1. IsWellFoundedOn({p \in Nat \X Nat : p[1] < p[2]}, Nat)
    BY NatLessThanWellFounded DEF OpToRel
  <2>2. PICK n \in ranks : \A m \in ranks : ~ (<<m, n>> \in {p \in Nat \X Nat : p[1] < p[2]})
    BY <1>3, <2>1, WFMin
  <2>3. \A m \in ranks : ~(m < n)
    BY <1>3, <2>2
  <2> QED
    BY <2>3
<1>5. ahead(r) = {}
  <2> SUFFICES ASSUME NEW x \in ahead(r)
               PROVE  FALSE
    OBVIOUS
  <2>1. x \in D /\ Before(q, x, r) /\ r \in ToSet(q) /\ x \in ToSet(q)
    BY <1>1
  <2>2. \A z \in ahead(x) : z \in ahead(r)
    BY <1>1, <2>1, SelectionOrder
  <2>3. x \notin ahead(x)
    BY <2>1, SelectionOrder
  <2>4. ahead(x) \in SUBSET ahead(r) /\ ahead(x) # ahead(r)
    BY <2>2, <2>3
  <2>5. /\ Cardinality(ahead(x)) <= Cardinality(ahead(r))
        /\ Cardinality(ahead(x)) # Cardinality(ahead(r))
    BY <1>2, <2>4, FS_Subset
  <2>6. Cardinality(ahead(x)) \in Nat /\ Cardinality(ahead(r)) \in Nat
    BY <1>2, <2>1
  <2>7. ~(Cardinality(ahead(x)) < Cardinality(ahead(r)))
    BY <1>4, <2>1
  <2> HIDE DEF ahead
  <2> QED
    BY <2>5, <2>6, <2>7
<1>6. Cardinality(ahead(r)) = 0
  BY <1>5, FS_EmptySet
<1> QED
  BY <1>6 DEF Picks

\* A teammate that is free is given one of the runs, and no other is given any.
LEMMA OneAccepted ==
  ASSUME NEW runs \in [Run -> Records], NEW q \in Seq(Run), NEW mem,
         NEW r \in Accepted(runs, q, mem)
  PROVE  /\ r \in Picks(runs, q) /\ ~mem[AgentOf[r]].busy
         /\ \A x \in Accepted(runs, q, mem) : AgentOf[x] = AgentOf[r] => x = r
<1>1. r \in Picks(runs, q) /\ ~mem[AgentOf[r]].busy
  BY DEF Accepted, Routable
<1>2. ASSUME NEW x \in Accepted(runs, q, mem), AgentOf[x] = AgentOf[r], x # r
      PROVE  FALSE
  <2>1. /\ x \in Picks(runs, q) /\ r \in Picks(runs, q)
        /\ ~Before(q, x, r) /\ ~Before(q, r, x)
    BY <1>2 DEF Accepted
  <2>2. x \in ToSet(q) /\ r \in ToSet(q)
    BY <2>1, Picked
  <2> QED
    BY <1>2, <2>1, <2>2, SelectionOrder
<1> QED
  BY <1>1, <1>2

\* What dispatching does to the runs, the queue and the teammates.
LEMMA Dispatched ==
  ASSUME NEW runs \in [Run -> Records], NEW q \in Seq(Run), NEW mem \in [Agent -> Members],
         Dispatch(runs, q, mem)
  PROVE  /\ run' \in [Run -> Records] /\ queue' \in Seq(Run) /\ timer' \in BOOLEAN
         /\ member' \in [Agent -> Members]
         /\ \A r \in Run : r \notin Picks(runs, q) => run'[r] = runs[r]
         /\ \A r \in Picks(runs, q) :
              /\ run'[r].status = "running"
              /\ run'[r].exec = IF r \in Accepted(runs, q, mem) THEN "working" ELSE "rejected"
         /\ \A a \in Agent :
              IF \E r \in Accepted(runs, q, mem) : AgentOf[r] = a
              THEN member'[a].count = mem[a].count + 1 /\ member'[a].busy
              ELSE member'[a] = mem[a]
<1>1. \A r \in Picks(runs, q) : r \in Run
  BY Picked
<1>2. run' = [r \in Run |-> IF r \notin Picks(runs, q) THEN runs[r]
                ELSE Started(runs[r],
                       IF r \in Accepted(runs, q, mem) THEN "working" ELSE "rejected")]
  BY DEF Dispatch
<1>3. \A record \in Records, e \in {"working", "rejected"} :
        /\ Started(record, e) \in Records
        /\ Started(record, e).status = "running" /\ Started(record, e).exec = e
  BY DEF Records, Statuses, Started
<1>4. \A r \in Run : runs[r] \in Records
  OBVIOUS
<1>5. ASSUME NEW r \in Picks(runs, q)
      PROVE  /\ run'[r] \in Records /\ run'[r].status = "running"
             /\ run'[r].exec = IF r \in Accepted(runs, q, mem) THEN "working" ELSE "rejected"
  <2>1. run'[r] = Started(runs[r],
                    IF r \in Accepted(runs, q, mem) THEN "working" ELSE "rejected")
    BY <1>1, <1>2
  <2>2. CASE r \in Accepted(runs, q, mem)
    BY <1>1, <1>3, <1>4, <2>1, <2>2
  <2>3. CASE r \notin Accepted(runs, q, mem)
    BY <1>1, <1>3, <1>4, <2>1, <2>3
  <2> QED
    BY <2>2, <2>3
<1>6. \A r \in Run : r \notin Picks(runs, q) => run'[r] = runs[r]
  BY <1>2
<1>7. run' \in [Run -> Records]
  BY <1>2, <1>4, <1>5, <1>6
<1>8. queue' \in Seq(Run) /\ timer' \in BOOLEAN
  BY TakenOut DEF Dispatch, Armed
<1>9. \A m \in Members : /\ Engaged(m) \in Members
                         /\ Engaged(m).count = m.count + 1 /\ Engaged(m).busy
  <2> SUFFICES ASSUME NEW m \in Members
               PROVE  /\ Engaged(m) \in Members
                      /\ Engaged(m).count = m.count + 1 /\ Engaged(m).busy
    OBVIOUS
  <2>1. m.count \in Nat
    BY DEF Members
  <2>2. Engaged(m) \in Members
    BY <2>1 DEF Members, Engaged
  <2>3. Engaged(m).count = m.count + 1
    BY DEF Members, Engaged
  <2>4. Engaged(m).busy
    BY DEF Members, Engaged
  <2> QED
    BY <2>2, <2>3, <2>4
<1>10. member' = [a \in Agent |-> IF \E r \in Accepted(runs, q, mem) : AgentOf[r] = a
                                  THEN Engaged(mem[a]) ELSE mem[a]]
  BY DEF Dispatch
<1>11. member' \in [Agent -> Members]
  BY <1>9, <1>10
<1>12. \A a \in Agent :
              IF \E r \in Accepted(runs, q, mem) : AgentOf[r] = a
              THEN member'[a].count = mem[a].count + 1 /\ member'[a].busy
              ELSE member'[a] = mem[a]
  BY <1>9, <1>10
<1> QED
  BY <1>5, <1>6, <1>7, <1>8, <1>11, <1>12

\* Dispatching keeps the queue, the executions and the teammates in order, whatever the
\* step did before it dispatched.
LEMMA DispatchKeeps ==
  ASSUME NEW runs \in [Run -> Records], NEW q \in Seq(Run), NEW mem \in [Agent -> Members],
         NEW syn, Queued(runs, q), Executed(runs), Booked(runs, mem, syn),
         Dispatch(runs, q, mem)
  PROVE  Queued(run', queue') /\ Executed(run') /\ Booked(run', member', syn)
<1>1. /\ run' \in [Run -> Records]
      /\ \A r \in Run : r \notin Picks(runs, q) => run'[r] = runs[r]
      /\ \A r \in Picks(runs, q) :
              /\ run'[r].status = "running"
              /\ run'[r].exec = IF r \in Accepted(runs, q, mem) THEN "working" ELSE "rejected"
  BY Dispatched
<1>2. \A r \in Picks(runs, q) : r \in Run /\ r \in ToSet(q) /\ runs[r].status = "queued"
  BY Picked
<1>3. Queued(run', queue')
  <2>1. /\ ToSet(queue') = ToSet(q) \ Picks(runs, q)
        /\ \A i, j \in DOMAIN queue' : queue'[i] = queue'[j] => i = j
    BY TakenOut DEF Dispatch, Queued
  <2>2. ToSet(q) \subseteq Run
    BY Picked
  <2>3. WithStatus(run', "queued") \subseteq ToSet(queue')
    BY <1>1, <1>2, <2>1 DEF Queued, WithStatus
  <2>4. \A r \in ToSet(queue') : run'[r].status \in {"queued", "interrupted"}
    BY <1>1, <2>1, <2>2 DEF Queued
  <2> QED
    BY <2>1, <2>3, <2>4 DEF Queued
<1>4. Executed(run')
  BY <1>1 DEF Executed
<1>5. ASSUME NEW a \in Agent
      PROVE  /\ \A r, x \in Run : /\ AgentOf[r] = a /\ run'[r].exec = "working"
                                  /\ AgentOf[x] = a /\ run'[x].exec = "working"
                                  => r = x /\ ~syn[a]
             /\ IF syn[a] \/ \E r \in Run : AgentOf[r] = a /\ run'[r].exec = "working"
                THEN member'[a].count = 1 /\ member'[a].busy ELSE member'[a].count = 0
  <2>1. \A r \in Picks(runs, q) : runs[r].exec # "working"
    BY <1>2 DEF Executed
  <2>2. \A r \in Run : run'[r].exec = "working" =>
          \/ r \in Accepted(runs, q, mem)
          \/ runs[r].exec = "working" /\ r \notin Picks(runs, q)
    <3>1. ASSUME NEW r \in Run, run'[r].exec = "working", r \notin Accepted(runs, q, mem)
          PROVE  runs[r].exec = "working" /\ r \notin Picks(runs, q)
      BY <1>1, <3>1
    <3> QED
      BY <3>1
  <2>3. \A r \in Run : runs[r].exec = "working" => run'[r].exec = "working"
    BY <1>1, <2>1
  <2>4. CASE \E r \in Accepted(runs, q, mem) : AgentOf[r] = a
    <3>1. PICK r \in Accepted(runs, q, mem) : AgentOf[r] = a
      BY <2>4
    <3>2. /\ r \in Picks(runs, q) /\ ~mem[a].busy
          /\ \A x \in Accepted(runs, q, mem) : AgentOf[x] = a => x = r
      BY <3>1, OneAccepted
    <3>3. /\ ~syn[a] /\ \A x \in Run : AgentOf[x] = a => runs[x].exec # "working"
          /\ mem[a].count = 0
      BY <3>2 DEF Booked
    <3>4. member'[a].count = 1 /\ member'[a].busy
      BY <2>4, <3>3, Dispatched
    <3>5. run'[r].exec = "working" /\ r \in Run
      BY <1>1, <1>2, <3>2
    <3> QED
      BY <2>2, <3>1, <3>2, <3>3, <3>4, <3>5
  <2>5. CASE ~\E r \in Accepted(runs, q, mem) : AgentOf[r] = a
    <3>1. member'[a] = mem[a]
      BY <2>5, Dispatched
    <3>2. \A r \in Run : AgentOf[r] = a =>
            (run'[r].exec = "working" <=> runs[r].exec = "working")
      BY <2>2, <2>3, <2>5
    <3> QED
      BY <3>1, <3>2 DEF Booked
  <2> QED
    BY <2>4, <2>5
<1>6. Booked(run', member', syn)
  BY <1>5 DEF Booked
<1> QED
  BY <1>3, <1>4, <1>6

\* After dispatching, a run that still waits is waited for: by the timer, or by an
\* execution that will dispatch when it ends.
LEMMA DispatchAwake ==
  ASSUME NEW runs \in [Run -> Records], NEW q \in Seq(Run), NEW mem \in [Agent -> Members],
         Queued(runs, q), Executed(runs), Dispatch(runs, q, mem)
  PROVE  Awake'
<1>1. /\ \A r \in Run : r \notin Picks(runs, q) => run'[r] = runs[r]
      /\ \A r \in Picks(runs, q) : run'[r].exec # "none" /\ run'[r].status = "running" /\ r \in Run
  BY Dispatched, Picked
<1>4. DOMAIN run' = Run
  BY Dispatched
<1> SUFFICES ASSUME NEW r \in Run, run'[r].status = "queued"
             PROVE  timer' \/ \E x \in Run : run'[x].exec # "none"
  BY <1>4 DEF Awake, WithStatus
<1>2. CASE Picks(runs, q) # {}
  BY <1>1, <1>2
<1>3. CASE Picks(runs, q) = {}
  <2>1. runs[r].status = "queued" /\ r \in ToSet(q)
    BY <1>1, <1>3 DEF Queued, WithStatus
  <2>2. CASE Capacity(runs) > 0
    <3>1. Dispatchable(runs, q) = {}
      BY <1>3, <2>2, SomePick
    <3>2. r \in Delayed(runs, q)
      BY <2>1, <3>1 DEF Dispatchable, Delayed
    <3>3. timer' <=> Armed(runs, q)
      BY DEF Dispatch
    <3> QED
      BY <2>2, <3>2, <3>3 DEF Armed
  <2>3. CASE ~(Capacity(runs) > 0)
    <3>1. WithStatus(runs, "running") \in SUBSET Run
      BY DEF WithStatus
    <3>2. IsFiniteSet(WithStatus(runs, "running"))
      BY <3>1, TeamRunsAssumption, FS_Subset
    <3>3. Cardinality(WithStatus(runs, "running")) \in Nat
      BY <3>2, FS_CardinalityType
    <3>4. Cardinality(WithStatus(runs, "running")) # 0
      BY <2>3, <3>3, TeamRunsAssumption DEF Capacity
    <3>5. WithStatus(runs, "running") # {}
      BY <3>4, FS_EmptySet
    <3>6. PICK x \in Run : runs[x].status = "running"
      BY <3>5 DEF WithStatus
    <3>7. run'[x].exec # "none"
      BY <1>1, <1>3, <3>6 DEF Executed
    <3> QED
      BY <3>7
  <2> QED
    BY <2>2, <2>3
<1> QED
  BY <1>2, <1>3

\* The lead's session hears of the runs that are started.
LEMMA DispatchHeard ==
  ASSUME NEW runs \in [Run -> Records], NEW q \in Seq(Run), NEW mem \in [Agent -> Members],
         NEW ids \in SUBSET Run, Dispatch(runs, q, mem), Heard(runs, q, ids),
         \A r \in ids : Live(runs[r]),
         \A r \in Run : Live(runs[r]) => r \in ids \/ r \in untracked'
  PROVE  active' \in SUBSET Run /\ SessionTracksRuns'
<1>1. /\ \A r \in Run : r \notin Picks(runs, q) => run'[r] = runs[r]
      /\ \A r \in Picks(runs, q) : run'[r].status = "running" /\ r \in Run
  BY Dispatched, Picked
<1>2. active' = ids \cup Picks(runs, q)
  BY DEF Heard
<1>3. \A r \in active' : Live(run'[r])
  BY <1>1, <1>2 DEF Live
<1>4. \A r \in Run : Live(run'[r]) => r \in active' \/ r \in untracked'
  BY <1>1, <1>2
<1> QED
  BY <1>1, <1>2, <1>3, <1>4 DEF SessionTracksRuns, Live

-----------------------------------------------------------------------------
(* The steps that dispatch.                                                 *)

\* A step that brings the runs, the queue and the teammates in order and then dispatches.
LEMMA DispatchStep ==
  ASSUME NEW runs \in [Run -> Records], NEW q \in Seq(Run), NEW mem \in [Agent -> Members],
         NEW ids \in SUBSET Run, Queued(runs, q), Executed(runs), Booked(runs, mem, sync'),
         Dispatch(runs, q, mem), Heard(runs, q, ids),
         \A r \in ids : Live(runs[r]),
         \A r \in Run : Live(runs[r]) => r \in ids \/ r \in untracked',
         sync' \in [Agent -> BOOLEAN], specs' \in SUBSET Agent, untracked' \in SUBSET Run,
         restarts' \in Nat
  PROVE  TeamInv'
<1>1. Queued(run', queue') /\ Executed(run') /\ Booked(run', member', sync')
  BY DispatchKeeps
<1>2. Awake'
  BY DispatchAwake
<1>3. active' \in SUBSET Run /\ SessionTracksRuns'
  BY DispatchHeard
<1>4. /\ run' \in [Run -> Records] /\ queue' \in Seq(Run) /\ timer' \in BOOLEAN
      /\ member' \in [Agent -> Members]
  BY Dispatched
<1>5. TypeOK'
  BY <1>3, <1>4 DEF TypeOK
<1> QED
  BY <1>1, <1>2, <1>3, <1>5 DEF TeamInv

\* A run that is not in the queue stays out of it, or joins it at its end.
LEMMA QueueLeft ==
  ASSUME TypeOK, Queued(run, queue), NEW r \in Run,
         run[r].status \notin {"queued", "interrupted"},
         NEW runs \in [Run -> Records], \A x \in Run \ {r} : runs[x] = run[x],
         runs[r].status # "queued"
  PROVE  Queued(runs, queue)
<1>1. ToSet(queue) \subseteq Run /\ r \notin ToSet(queue) /\ DOMAIN run = Run
  BY DEF Queued, ToSet, TypeOK
<1> QED
  BY <1>1 DEF Queued, WithStatus

LEMMA QueueJoined ==
  ASSUME TypeOK, Queued(run, queue), NEW r \in Run,
         run[r].status \notin {"queued", "interrupted"},
         NEW runs \in [Run -> Records], \A x \in Run \ {r} : runs[x] = run[x],
         runs[r].status = "queued"
  PROVE  Append(queue, r) \in Seq(Run) /\ Queued(runs, Append(queue, r))
<1> DEFINE q == Append(queue, r)
<1>1. ToSet(queue) \subseteq Run /\ r \notin ToSet(queue) /\ DOMAIN run = Run
  BY DEF Queued, ToSet, TypeOK
<1>2. /\ q \in Seq(Run) /\ DOMAIN q = 1..Len(queue) + 1 /\ DOMAIN queue = 1..Len(queue)
      /\ Len(queue) \in Nat /\ \A i \in 1..Len(queue) : q[i] = queue[i]
      /\ q[Len(queue) + 1] = r
  BY DEF TypeOK
<1> HIDE DEF q
<1>3. ToSet(q) = ToSet(queue) \cup {r}
  <2>1. \A i \in DOMAIN q : q[i] \in ToSet(queue) \cup {r}
    BY <1>2 DEF ToSet
  <2>2. \A x \in ToSet(queue) \cup {r} : \E i \in DOMAIN q : q[i] = x
    <3>1. \E i \in DOMAIN q : q[i] = r
      BY <1>2
    <3>2. \A x \in ToSet(queue) : \E i \in DOMAIN q : q[i] = x
      BY <1>2 DEF ToSet
    <3> QED
      BY <3>1, <3>2
  <2> QED
    BY <2>1, <2>2 DEF ToSet
<1>4. \A i, j \in DOMAIN q : q[i] = q[j] => i = j
  <2>1. \A i \in 1..Len(queue) : q[i] \in ToSet(queue)
    BY <1>2 DEF ToSet
  <2>2. \A i, j \in 1..Len(queue) : q[i] = q[j] => i = j
    BY <1>2 DEF Queued
  <2> QED
    BY <1>1, <1>2, <2>1, <2>2
<1>5. /\ WithStatus(runs, "queued") \subseteq ToSet(q)
      /\ \A x \in ToSet(q) : runs[x].status \in {"queued", "interrupted"}
  BY <1>1, <1>3 DEF Queued, WithStatus
<1> QED
  BY <1>2, <1>4, <1>5 DEF Queued, q

\* The teammate of an execution that ends is free again.
LEMMA ExecutionEnds ==
  ASSUME TypeOK, Executed(run), Booked(run, member, sync), NEW r \in Run,
         run[r].exec = "working", NEW stuck \in BOOLEAN, NEW mem,
         mem = [member EXCEPT ![AgentOf[r]] = Released(@, stuck)],
         NEW runs \in [Run -> Records], \A x \in Run \ {r} : runs[x] = run[x],
         runs[r].exec = "none", runs[r].status # "running"
  PROVE  mem \in [Agent -> Members] /\ Executed(runs) /\ Booked(runs, mem, sync)
<1> DEFINE a == AgentOf[r]
<1>1. a \in Agent
  BY TeamRunsAssumption
<1>2. /\ member[a] \in Members /\ member[a].count = 1 /\ ~sync[a]
      /\ \A x \in Run : AgentOf[x] = a /\ run[x].exec = "working" => x = r
  BY <1>1 DEF TypeOK, Booked
<1>3. Released(member[a], stuck) \in Members
  BY <1>2 DEF Members, Released
<1>4. Released(member[a], stuck).count = 0
  BY <1>2 DEF Released
<1>5. mem \in [Agent -> Members] /\ mem[a].count = 0 /\ \A b \in Agent \ {a} : mem[b] = member[b]
  BY <1>1, <1>3, <1>4 DEF TypeOK
<1>6. Executed(runs)
  BY DEF Executed
<1>7. \A x \in Run : AgentOf[x] = a => runs[x].exec # "working"
  BY <1>2
<1>8. \A x \in Run : AgentOf[x] # a => runs[x].exec = run[x].exec
  OBVIOUS
<1> HIDE DEF a
<1>9. Booked(runs, mem, sync)
  BY <1>2, <1>5, <1>7, <1>8 DEF Booked
<1> QED
  BY <1>5, <1>6, <1>9

\* A rejection frees nobody: the teammate was never engaged.
LEMMA RejectionEnds ==
  ASSUME TypeOK, Executed(run), Booked(run, member, sync), NEW r \in Run,
         run[r].exec = "rejected",
         NEW runs \in [Run -> Records], \A x \in Run \ {r} : runs[x] = run[x],
         runs[r].exec = "none", runs[r].status # "running"
  PROVE  Executed(runs) /\ Booked(runs, member, sync)
<1>1. Executed(runs)
  BY DEF Executed
<1>2. \A x \in Run : runs[x].exec = "working" <=> run[x].exec = "working"
  OBVIOUS
<1>3. Booked(runs, member, sync)
  BY <1>2 DEF Booked
<1> QED
  BY <1>1, <1>3

LEMMA FinishesStep ==
  ASSUME TeamInv, NEW r \in Run, NEW why \in {"finished", "aborted"}, Finishes(r, why)
  PROVE  TeamInv'
<1> USE DEF TeamInv
<1> DEFINE runs == [run EXCEPT ![r].exec = "none", ![r].status = "completed", ![r].reason = why]
           mem == [member EXCEPT ![AgentOf[r]] = Released(@, FALSE)]
<1>1. /\ run[r].exec = "working"
      /\ Dispatch(runs, queue, mem) /\ Heard(runs, queue, active \ {r})
      /\ UNCHANGED <<sync, specs, untracked, restarts>>
  BY DEF Finishes, SettleAndDispatch
<1>2. /\ runs \in [Run -> Records] /\ \A x \in Run \ {r} : runs[x] = run[x]
      /\ runs[r].exec = "none" /\ runs[r].status = "completed"
  BY DEF TypeOK, Records, Statuses, Settled
<1> HIDE DEF runs
<1>3. mem \in [Agent -> Members] /\ Executed(runs) /\ Booked(runs, mem, sync)
  BY <1>1, <1>2, ExecutionEnds
<1> HIDE DEF mem
<1>4. Queued(runs, queue)
  BY <1>1, <1>2, QueueLeft DEF Executed
<1>5. \A x \in active \ {r} : Live(runs[x])
  BY <1>2 DEF SessionTracksRuns, TypeOK
<1>6. \A x \in Run : Live(runs[x]) => x \in active \ {r} \/ x \in untracked'
  BY <1>1, <1>2 DEF SessionTracksRuns, Live
<1>7. /\ active \ {r} \in SUBSET Run /\ sync' \in [Agent -> BOOLEAN]
      /\ specs' \in SUBSET Agent /\ untracked' \in SUBSET Run /\ restarts' \in Nat
      /\ queue \in Seq(Run) /\ sync' = sync
  BY <1>1 DEF TypeOK
<1> QED
  BY <1>1, <1>2, <1>3, <1>4, <1>5, <1>6, <1>7, DispatchStep

\* The catch block: the run is cancelled, queued again or failed, whatever the teammate.
LEMMA CaughtStep ==
  ASSUME TeamInv, NEW r \in Run, run[r].exec # "none",
         NEW mem \in [Agent -> Members], NEW abortLike, Caught(r, abortLike, mem),
         \A runs \in [Run -> Records] :
           /\ \A x \in Run \ {r} : runs[x] = run[x]
           /\ runs[r].exec = "none" /\ runs[r].status # "running"
           => Executed(runs) /\ Booked(runs, mem, sync)
  PROVE  TeamInv'
<1> USE DEF TeamInv
<1> DEFINE To(status) == [run EXCEPT ![r].exec = "none", ![r].status = status]
           again == [run EXCEPT ![r] = Retried(@)]
<1>0. /\ active \in SUBSET Run /\ active \ {r} \in SUBSET Run /\ sync' \in [Agent -> BOOLEAN]
      /\ specs' \in SUBSET Agent /\ restarts' \in Nat /\ queue \in Seq(Run) /\ sync' = sync
      /\ untracked \in SUBSET Run
  BY DEF TypeOK, Caught
<1>1. run[r].status \notin {"queued", "interrupted"}
  BY DEF Executed
<1>2. ASSUME NEW s \in {"cancelled", "failed"}, SettleAndDispatch(To(s), queue, mem, active \ {r}),
             UNCHANGED untracked
      PROVE  TeamInv'
  <2> DEFINE runs == To(s)
  <2>1. /\ runs \in [Run -> Records] /\ \A x \in Run \ {r} : runs[x] = run[x]
        /\ runs[r].exec = "none" /\ runs[r].status = s
    BY DEF TypeOK, Records, Statuses, Settled
  <2>2. Dispatch(runs, queue, mem) /\ Heard(runs, queue, active \ {r})
    BY <1>2 DEF SettleAndDispatch
  <2> HIDE DEF runs
  <2>3. Executed(runs) /\ Booked(runs, mem, sync)
    BY <2>1
  <2>4. Queued(runs, queue)
    BY <1>1, <2>1, QueueLeft
  <2>5. \A x \in active \ {r} : Live(runs[x])
    BY <1>0, <2>1 DEF SessionTracksRuns
  <2>6. \A x \in Run : Live(runs[x]) => x \in active \ {r} \/ x \in untracked'
    BY <1>2, <2>1 DEF SessionTracksRuns, Live
  <2>7. untracked' \in SUBSET Run
    BY <1>0, <1>2
  <2> QED
    BY <1>0, <2>1, <2>2, <2>3, <2>4, <2>5, <2>6, <2>7, DispatchStep
<1>3. ASSUME SettleAndDispatch(again, Append(queue, r), mem, active),
             untracked' = IF r \in active THEN untracked ELSE untracked \cup {r}
      PROVE  TeamInv'
  <2>1. /\ again \in [Run -> Records] /\ \A x \in Run \ {r} : again[x] = run[x]
        /\ again[r].exec = "none" /\ again[r].status = "queued"
    <3>1. /\ Retried(run[r]) \in Records
          /\ Retried(run[r]).exec = "none" /\ Retried(run[r]).status = "queued"
      BY DEF TypeOK, Records, Statuses, Retried
    <3> QED
      BY <3>1 DEF TypeOK
  <2>2. Dispatch(again, Append(queue, r), mem) /\ Heard(again, Append(queue, r), active)
    BY <1>3 DEF SettleAndDispatch
  <2> HIDE DEF again
  <2>3. Executed(again) /\ Booked(again, mem, sync)
    BY <2>1
  <2>4. Append(queue, r) \in Seq(Run) /\ Queued(again, Append(queue, r))
    BY <1>1, <2>1, QueueJoined
  <2>5. \A x \in active : Live(again[x])
    BY <1>0, <2>1 DEF SessionTracksRuns, Live
  <2>6. \A x \in Run : Live(again[x]) => x \in active \/ x \in untracked'
    BY <1>3, <2>1 DEF SessionTracksRuns, Live
  <2>7. untracked' \in SUBSET Run
    BY <1>0, <1>3
  <2> QED
    BY <1>0, <2>1, <2>2, <2>3, <2>4, <2>5, <2>6, <2>7, DispatchStep
<1> QED
  BY <1>2, <1>3 DEF Caught

LEMMA RejectsStep ==
  ASSUME TeamInv, NEW r \in Run, Rejects(r)
  PROVE  TeamInv'
<1> USE DEF TeamInv
<1>1. run[r].exec = "working"
  BY DEF Rejects
<1>2. PICK stuck \in BOOLEAN, abortLike \in {FALSE, member[AgentOf[r]].aborted} :
        Caught(r, abortLike, [member EXCEPT ![AgentOf[r]] = Released(@, stuck)])
  BY DEF Rejects
<1> DEFINE mem == [member EXCEPT ![AgentOf[r]] = Released(@, stuck)]
<1>3. \A runs \in [Run -> Records] :
           /\ \A x \in Run \ {r} : runs[x] = run[x]
           /\ runs[r].exec = "none" /\ runs[r].status # "running"
           => mem \in [Agent -> Members] /\ Executed(runs) /\ Booked(runs, mem, sync)
  BY <1>1, ExecutionEnds
<1> DEFINE ended == [run EXCEPT ![r].exec = "none", ![r].status = "failed"]
<1>4. /\ ended \in [Run -> Records] /\ \A x \in Run \ {r} : ended[x] = run[x]
      /\ ended[r].exec = "none" /\ ended[r].status = "failed"
  BY DEF TypeOK, Records, Statuses, Settled
<1> HIDE DEF ended
<1>5. mem \in [Agent -> Members]
  BY <1>3, <1>4
<1> QED
  BY <1>1, <1>2, <1>3, <1>5, CaughtStep

LEMMA RefusedStep ==
  ASSUME TeamInv, NEW r \in Run, Refused(r)
  PROVE  TeamInv'
<1> USE DEF TeamInv
<1>1. run[r].exec = "rejected" /\ Caught(r, FALSE, member)
  BY DEF Refused
<1>2. \A runs \in [Run -> Records] :
           /\ \A x \in Run \ {r} : runs[x] = run[x]
           /\ runs[r].exec = "none" /\ runs[r].status # "running"
           => Executed(runs) /\ Booked(runs, member, sync)
  BY <1>1, RejectionEnds
<1>3. member \in [Agent -> Members]
  BY DEF TypeOK
<1> QED
  BY <1>1, <1>2, <1>3, CaughtStep

LEMMA StartStep ==
  ASSUME TeamInv, NEW r \in Run, StartTeammateRun(r)
  PROVE  TeamInv'
<1> USE DEF TeamInv
<1> DEFINE runs == [run EXCEPT ![r].status = "queued"]
           q == Append(queue, r)
<1>1. /\ run[r].status = "new" /\ Dispatch(runs, q, member)
      /\ Heard(runs, q, active \cup {r})
      /\ UNCHANGED <<sync, specs, untracked, restarts>>
  BY DEF StartTeammateRun
<1>2. /\ runs \in [Run -> Records] /\ \A x \in Run \ {r} : runs[x] = run[x]
      /\ runs[r].exec = run[r].exec /\ runs[r].status = "queued"
  BY DEF TypeOK, Records, Statuses
<1> HIDE DEF runs
<1>3. q \in Seq(Run) /\ Queued(runs, q)
  BY <1>1, <1>2, QueueJoined
<1> HIDE DEF q
<1>4. Executed(runs)
  BY <1>1, <1>2 DEF Executed
<1>5. \A x \in Run : runs[x].exec = run[x].exec
  BY <1>2
<1>6. Booked(runs, member, sync)
  BY <1>5 DEF Booked
<1>7. \A x \in active \cup {r} : Live(runs[x])
  BY <1>2 DEF SessionTracksRuns, Live, TypeOK
<1>8. \A x \in Run : Live(runs[x]) => x \in active \cup {r} \/ x \in untracked'
  BY <1>1, <1>2 DEF SessionTracksRuns, Live
<1>9. /\ active \cup {r} \in SUBSET Run /\ sync' \in [Agent -> BOOLEAN]
      /\ specs' \in SUBSET Agent /\ untracked' \in SUBSET Run /\ restarts' \in Nat
      /\ member \in [Agent -> Members] /\ sync' = sync
  BY <1>1 DEF TypeOK
<1> QED
  BY <1>1, <1>2, <1>3, <1>4, <1>6, <1>7, <1>8, <1>9, DispatchStep

LEMMA TimerStep ==
  ASSUME TeamInv, TimerFires
  PROVE  TeamInv'
<1> USE DEF TeamInv
<1>1. /\ Dispatch(run, queue, member) /\ Heard(run, queue, active)
      /\ UNCHANGED <<sync, specs, untracked, restarts>>
  BY DEF TimerFires
<1>2. \A x \in active : Live(run[x])
  BY DEF SessionTracksRuns
<1>3. \A x \in Run : Live(run[x]) => x \in active \/ x \in untracked'
  BY <1>1 DEF SessionTracksRuns
<1>4. /\ run \in [Run -> Records] /\ queue \in Seq(Run) /\ member \in [Agent -> Members]
      /\ active \in SUBSET Run /\ sync' \in [Agent -> BOOLEAN] /\ sync' = sync
      /\ specs' \in SUBSET Agent /\ untracked' \in SUBSET Run /\ restarts' \in Nat
  BY <1>1 DEF TypeOK
<1> QED
  BY <1>1, <1>2, <1>3, <1>4, DispatchStep

\* The restart: everybody is free, and of the live runs those go on whose teammate came
\* back.
LEMMA RestartStep ==
  ASSUME TeamInv, Restart
  PROVE  TeamInv'
<1> USE DEF TeamInv
<1> DEFINE runs == [r \in Run |->
        IF Recovered(r) THEN [run[r] EXCEPT !.status = "queued", !.exec = "none"]
        ELSE IF Live(run[r]) THEN [run[r] EXCEPT !.status = "interrupted", !.exec = "none"]
        ELSE [run[r] EXCEPT !.exec = "none"]]
           waiting == WithStatus(run, "queued")
           resumed == {r \in WithStatus(run, "running") : Recovered(r)}
           q == InOrder(waiting) \o InOrder(resumed)
           free == [a \in Agent |-> FALSE]
<1>1. /\ Dispatch(runs, q, Restored) /\ sync' = free /\ active' = {}
      /\ untracked' = {r \in Run : Recovered(r)} /\ UNCHANGED specs /\ restarts' \in Nat
  <2>1. Dispatch(runs, q, Restored) /\ sync' = free
    BY DEF Restart
  <2>2. /\ active' = {} /\ untracked' = {r \in Run : Recovered(r)} /\ UNCHANGED specs
    BY DEF Restart
  <2>3. restarts' = restarts + 1 /\ restarts \in Nat
    BY DEF Restart, TypeOK
  <2> HIDE DEF runs, q, free
  <2> QED
    BY <2>1, <2>2, <2>3
<1>2. \A r \in Run : /\ runs[r] \in Records /\ runs[r].exec = "none"
                     /\ Recovered(r) => runs[r].status = "queued"
                     /\ ~Recovered(r) /\ Live(run[r]) => runs[r].status = "interrupted"
                     /\ ~Live(run[r]) => runs[r].status = run[r].status
  BY DEF TypeOK, Records, Statuses, Settled, Recovered, Live
<1>3. runs \in [Run -> Records]
  BY <1>2
<1> HIDE DEF runs
<1>4. Executed(runs)
  BY <1>2 DEF Executed, Live, Recovered
<1>5. /\ Restored \in [Agent -> Members]
      /\ \A a \in Agent : Restored[a].count = 0
  BY DEF Restored, Spawned, NoMember, Members
<1>6. Booked(runs, Restored, free)
  BY <1>2, <1>5 DEF Booked
<1>7. /\ waiting \in SUBSET Run /\ resumed \in SUBSET Run
      /\ \A r \in waiting : r \in Run /\ run[r].status = "queued"
      /\ \A r \in resumed : r \in Run /\ run[r].status = "running" /\ Recovered(r)
      /\ \A r \in Run : Recovered(r) => r \in waiting \/ r \in resumed
  BY DEF WithStatus, TypeOK, Recovered, Live
<1> HIDE DEF waiting, resumed
<1>8. q \in Seq(Run) /\ Queued(runs, q)
  <2> DEFINE s == InOrder(waiting)
             t == InOrder(resumed)
  <2>1. /\ s \in Seq(Run) /\ ToSet(s) = waiting /\ \A i, j \in DOMAIN s : s[i] = s[j] => i = j
        /\ t \in Seq(Run) /\ ToSet(t) = resumed /\ \A i, j \in DOMAIN t : t[i] = t[j] => i = j
    BY <1>7, SortedRuns
  <2>2. q = s \o t
    OBVIOUS
  <2> HIDE DEF s, t, q
  <2>3. /\ q \in Seq(Run) /\ DOMAIN q = 1..Len(s) + Len(t) /\ Len(s) \in Nat /\ Len(t) \in Nat
        /\ DOMAIN s = 1..Len(s) /\ DOMAIN t = 1..Len(t)
        /\ \A i \in DOMAIN q : q[i] = IF i <= Len(s) THEN s[i] ELSE t[i - Len(s)]
    BY <2>1, <2>2
  <2>4. \A i \in DOMAIN q : /\ i <= Len(s) => i \in DOMAIN s /\ q[i] = s[i]
                            /\ ~(i <= Len(s)) => i - Len(s) \in DOMAIN t /\ q[i] = t[i - Len(s)]
    BY <2>3
  <2>5. \A i \in DOMAIN s : i \in DOMAIN q /\ q[i] = s[i]
    BY <2>3
  <2>6. \A i \in DOMAIN t : i + Len(s) \in DOMAIN q /\ q[i + Len(s)] = t[i]
    BY <2>3
  <2>7. /\ \A i \in DOMAIN s : s[i] \in waiting
        /\ \A i \in DOMAIN t : t[i] \in resumed
        /\ \A r \in waiting : \E i \in DOMAIN s : s[i] = r
        /\ \A r \in resumed : \E i \in DOMAIN t : t[i] = r
    BY <2>1 DEF ToSet
  <2>8. \A i \in DOMAIN q : q[i] \in waiting \cup resumed
    BY <2>4, <2>7
  <2>9. \A r \in waiting \cup resumed : \E i \in DOMAIN q : q[i] = r
    BY <2>5, <2>6, <2>7
  <2>10. ToSet(q) = waiting \cup resumed
    BY <2>8, <2>9 DEF ToSet
  <2>11. ASSUME NEW i \in DOMAIN q, NEW j \in DOMAIN q, q[i] = q[j]
         PROVE  i = j
    <3>1. \A r \in waiting : r \notin resumed
      BY <1>7
    <3>2. i <= Len(s) <=> j <= Len(s)
      BY <2>4, <2>7, <2>11, <3>1
    <3>3. CASE i <= Len(s)
      BY <2>1, <2>4, <2>11, <3>2, <3>3
    <3>4. CASE ~(i <= Len(s))
      <4>1. i - Len(s) = j - Len(s)
        BY <2>1, <2>4, <2>11, <3>2, <3>4
      <4> QED
        BY <2>3, <4>1
    <3> QED
      BY <3>3, <3>4
  <2>12. WithStatus(runs, "queued") \subseteq waiting \cup resumed
    <3> SUFFICES ASSUME NEW r \in Run, runs[r].status = "queued"
                 PROVE  r \in waiting \cup resumed
      BY <1>3 DEF WithStatus
    <3>1. Recovered(r) \/ run[r].status = "queued"
      BY <1>2
    <3> QED
      BY <1>2, <1>7, <3>1 DEF Live
  <2>13. \A r \in waiting \cup resumed : runs[r].status \in {"queued", "interrupted"}
    BY <1>2, <1>7 DEF Live
  <2> QED
    BY <2>3, <2>10, <2>11, <2>12, <2>13 DEF Queued
<1> HIDE DEF q
<1>9. Queued(run', queue') /\ Executed(run') /\ Booked(run', member', sync')
  BY <1>1, <1>3, <1>4, <1>5, <1>6, <1>8, DispatchKeeps
<1>10. Awake'
  BY <1>1, <1>3, <1>4, <1>5, <1>8, DispatchAwake
<1>11. TypeOK'
  <2>1. /\ run' \in [Run -> Records] /\ queue' \in Seq(Run) /\ timer' \in BOOLEAN
        /\ member' \in [Agent -> Members]
    BY <1>1, <1>3, <1>5, <1>8, Dispatched
  <2> QED
    BY <1>1, <2>1 DEF TypeOK
<1>12. SessionTracksRuns'
  <2>1. \A r \in Run : Live(run'[r]) => Live(runs[r])
    BY <1>1, <1>3, <1>5, <1>8, Dispatched, Picked DEF Live
  <2>2. \A r \in Run : Live(runs[r]) => Recovered(r)
    BY <1>2 DEF Live
  <2> QED
    BY <1>1, <2>1, <2>2 DEF SessionTracksRuns
<1> QED
  BY <1>9, <1>10, <1>11, <1>12

-----------------------------------------------------------------------------
(* The steps that do not dispatch.                                          *)

\* Teammates that change while no prompt of theirs begins or ends.
LEMMA MembersStep ==
  ASSUME TeamInv, UNCHANGED <<run, queue, timer, active, untracked, restarts>>,
         member' \in [Agent -> Members], sync' \in [Agent -> BOOLEAN], specs' \in SUBSET Agent,
         Booked(run, member', sync')
  PROVE  TeamInv'
<1> USE DEF TeamInv
<1>1. TypeOK'
  BY DEF TypeOK
<1>2. Queued(run', queue') /\ Executed(run') /\ Booked(run', member', sync')
  <2>1. run' = run /\ queue' = queue
    OBVIOUS
  <2> QED
    BY <2>1
<1>3. Awake' /\ SessionTracksRuns'
  BY DEF Awake, WithStatus, SessionTracksRuns, Live
<1> QED
  BY <1>1, <1>2, <1>3

LEMMA SpawnStep ==
  ASSUME TeamInv, NEW a \in Agent, SpawnTeammate(a)
  PROVE  TeamInv'
<1> USE DEF TeamInv
<1>1. /\ member[a].count = 0 /\ member' = [member EXCEPT ![a] = Spawned]
      /\ specs' = specs \cup {a}
      /\ UNCHANGED <<run, queue, timer, active, untracked, restarts>> /\ sync' = sync
  BY DEF SpawnTeammate, Respawnable
<1>2. Spawned \in Members /\ Spawned.count = 0
  BY DEF Spawned, NoMember, Members
<1>3. /\ member' \in [Agent -> Members] /\ sync' \in [Agent -> BOOLEAN]
      /\ specs' \in SUBSET Agent
  BY <1>1, <1>2 DEF TypeOK
<1>4. \A b \in Agent : IF b = a THEN member'[b].count = 0 ELSE member'[b] = member[b]
  BY <1>1, <1>2 DEF TypeOK
<1>5. ~sync[a] /\ \A r \in Run : AgentOf[r] = a => run[r].exec # "working"
  BY <1>1 DEF Booked
<1>6. Booked(run, member', sync')
  BY <1>1, <1>4, <1>5 DEF Booked
<1> QED
  BY <1>1, <1>3, <1>6, MembersStep

LEMMA ShutdownStep ==
  ASSUME TeamInv, NEW a \in Agent, NEW forGood \in BOOLEAN, ShutdownTeammate(a, forGood)
  PROVE  TeamInv'
<1> USE DEF TeamInv
<1>1. /\ member' = [member EXCEPT ![a].status = "stopped", ![a].aborted = member[a].agent]
      /\ specs' = IF forGood THEN specs \ {a} ELSE specs
      /\ UNCHANGED <<run, queue, timer, active, untracked, restarts>> /\ sync' = sync
  BY DEF ShutdownTeammate
<1>2. /\ member' \in [Agent -> Members] /\ sync' \in [Agent -> BOOLEAN]
      /\ specs' \in SUBSET Agent
  BY <1>1 DEF TypeOK, Members
<1>3. \A b \in Agent : /\ member'[b].count = member[b].count
                       /\ member'[b].busy <=> member[b].busy
  BY <1>1 DEF TypeOK, Members
<1>4. Booked(run, member', sync')
  <2>1. sync' = sync
    BY <1>1
  <2> QED
    BY <1>3, <2>1 DEF Booked
<1> QED
  BY <1>1, <1>2, <1>4, MembersStep

LEMMA RouteSyncStep ==
  ASSUME TeamInv, NEW a \in Agent, RouteSync(a)
  PROVE  TeamInv'
<1> USE DEF TeamInv
<1>1. /\ ~sync[a] /\ ~member[a].busy /\ sync' = [sync EXCEPT ![a] = TRUE]
      /\ member' = [member EXCEPT ![a] = Engaged(@)]
      /\ UNCHANGED <<run, queue, timer, active, untracked, restarts>> /\ specs' = specs
  BY DEF RouteSync, Routable
<1>2. member[a] \in Members /\ member[a].count \in Nat
  BY DEF TypeOK, Members
<1>3. /\ Engaged(member[a]) \in Members /\ Engaged(member[a]).count = member[a].count + 1
      /\ Engaged(member[a]).busy
  <2>1. Engaged(member[a]) \in Members
    BY <1>2 DEF Members, Engaged
  <2>2. Engaged(member[a]).count = member[a].count + 1
    BY DEF Engaged
  <2>3. Engaged(member[a]).busy
    BY DEF Engaged
  <2> QED
    BY <2>1, <2>2, <2>3
<1>4. /\ member' \in [Agent -> Members] /\ sync' \in [Agent -> BOOLEAN]
      /\ specs' \in SUBSET Agent
  BY <1>1, <1>3 DEF TypeOK
<1>5. member[a].count = 0 /\ \A r \in Run : AgentOf[r] = a => run[r].exec # "working"
  BY <1>1 DEF Booked
<1>6. member'[a].count = 1 /\ member'[a].busy /\ sync'[a]
  BY <1>1, <1>3, <1>5 DEF TypeOK
<1>7. \A b \in Agent \ {a} : member'[b] = member[b] /\ sync'[b] = sync[b]
  BY <1>1 DEF TypeOK
<1>8. Booked(run, member', sync')
  BY <1>5, <1>6, <1>7 DEF Booked
<1> QED
  BY <1>1, <1>4, <1>8, MembersStep

LEMMA SyncEndsStep ==
  ASSUME TeamInv, NEW a \in Agent, SyncEnds(a)
  PROVE  TeamInv'
<1> USE DEF TeamInv
<1>1. /\ sync[a] /\ sync' = [sync EXCEPT ![a] = FALSE]
      /\ \E stuck \in BOOLEAN : member' = [member EXCEPT ![a] = Released(@, stuck)]
      /\ UNCHANGED <<run, queue, timer, active, untracked, restarts>> /\ specs' = specs
  BY DEF SyncEnds
<1>2. PICK stuck \in BOOLEAN : member' = [member EXCEPT ![a] = Released(@, stuck)]
  BY <1>1
<1>3. /\ member[a] \in Members /\ member[a].count = 1
      /\ \A r \in Run : AgentOf[r] = a => run[r].exec # "working"
  BY <1>1 DEF TypeOK, Booked
<1>4. Released(member[a], stuck) \in Members
  BY <1>3 DEF Members, Released
<1>5. Released(member[a], stuck).count = 0
  BY <1>3 DEF Released
<1>6. /\ member' \in [Agent -> Members] /\ sync' \in [Agent -> BOOLEAN]
      /\ specs' \in SUBSET Agent
  BY <1>1, <1>2, <1>4 DEF TypeOK
<1>7. member'[a].count = 0 /\ ~sync'[a]
  BY <1>1, <1>2, <1>5 DEF TypeOK
<1>8. \A b \in Agent \ {a} : member'[b] = member[b] /\ sync'[b] = sync[b]
  BY <1>1, <1>2 DEF TypeOK
<1>9. Booked(run, member', sync')
  BY <1>3, <1>7, <1>8 DEF Booked
<1> QED
  BY <1>1, <1>6, <1>9, MembersStep

\* A cancelled run leaves the queue and the session; the teammate works on.
LEMMA CancelStep ==
  ASSUME TeamInv, NEW r \in Run, CancelRun(r)
  PROVE  TeamInv'
<1> USE DEF TeamInv
<1>1. /\ run' = [run EXCEPT ![r].status = "cancelled"] /\ queue' = Without(queue, {r})
      /\ active' = active \ {r}
      /\ UNCHANGED <<timer, member, sync, specs, untracked, restarts>>
  BY DEF CancelRun
<1>2. /\ run' \in [Run -> Records] /\ \A x \in Run \ {r} : run'[x] = run[x]
      /\ run'[r].exec = run[r].exec /\ run'[r].status = "cancelled"
  BY <1>1 DEF TypeOK, Records, Statuses, Settled
<1>3. /\ queue' \in Seq(Run) /\ ToSet(queue') = ToSet(queue) \ {r}
      /\ \A i, j \in DOMAIN queue' : queue'[i] = queue'[j] => i = j
  BY <1>1, TakenOut DEF TypeOK, Queued
<1>4. TypeOK'
  BY <1>1, <1>2, <1>3 DEF TypeOK
<1>5. ToSet(queue) \subseteq Run /\ DOMAIN run = Run /\ DOMAIN run' = Run
  BY <1>2 DEF TypeOK, ToSet
<1>6. Queued(run', queue')
  BY <1>2, <1>3, <1>5 DEF Queued, WithStatus
<1>7. \A x \in Run : run'[x].exec = run[x].exec
  BY <1>2
<1>8. Executed(run')
  BY <1>2 DEF Executed
<1>9. member' = member /\ sync' = sync
  BY <1>1
<1>10. Booked(run', member', sync')
  BY <1>7, <1>9 DEF Booked
<1>11. WithStatus(run, "queued") = {} => WithStatus(run', "queued") = {}
  BY <1>2, <1>5 DEF WithStatus
<1>12. Awake'
  BY <1>1, <1>7, <1>11 DEF Awake
<1>13. SessionTracksRuns'
  BY <1>1, <1>2 DEF SessionTracksRuns, Live, TypeOK
<1> QED
  BY <1>4, <1>6, <1>8, <1>10, <1>12, <1>13

LEMMA BackoffStep ==
  ASSUME TeamInv, NEW r \in Run, BackoffPasses(r)
  PROVE  TeamInv'
<1> USE DEF TeamInv
<1>1. /\ run' = [run EXCEPT ![r].due = TRUE]
      /\ UNCHANGED <<queue, timer, member, sync, specs, active, untracked, restarts>>
  BY DEF BackoffPasses
<1>2. /\ run' \in [Run -> Records]
      /\ \A x \in Run : run'[x].exec = run[x].exec /\ run'[x].status = run[x].status
  BY <1>1 DEF TypeOK, Records
<1>3. TypeOK'
  BY <1>1, <1>2 DEF TypeOK
<1>4. ToSet(queue) \subseteq Run /\ DOMAIN run = Run /\ DOMAIN run' = Run
  BY <1>2 DEF TypeOK, ToSet
<1>5. WithStatus(run', "queued") = WithStatus(run, "queued")
  BY <1>2, <1>4 DEF WithStatus
<1>6. Queued(run', queue')
  <2>1. queue' = queue
    BY <1>1
  <2> QED
    BY <1>2, <1>4, <1>5, <2>1 DEF Queued
<1>7. Executed(run')
  BY <1>2 DEF Executed
<1>8. Booked(run', member', sync')
  <2>1. member' = member /\ sync' = sync
    BY <1>1
  <2> QED
    BY <1>2, <2>1 DEF Booked
<1>9. Awake'
  BY <1>1, <1>2, <1>5 DEF Awake
<1>10. SessionTracksRuns'
  BY <1>1, <1>2 DEF SessionTracksRuns, Live
<1> QED
  BY <1>3, <1>6, <1>7, <1>8, <1>9, <1>10

\* Cleanup: nobody works and no run is live, so nothing is dropped that is under way.
LEMMA CleanupStep ==
  ASSUME TeamInv, Cleanup
  PROVE  TeamInv'
<1> USE DEF TeamInv
<1>1. /\ \A a \in Agent : member[a].count = 0
      /\ \A r \in Run : ~Live(run[r]) /\ run[r].exec # "rejected"
      /\ run' = [r \in Run |-> IF run[r].status = "new" THEN run[r]
                               ELSE [run[r] EXCEPT !.status = "gone"]]
      /\ queue' = <<>> /\ timer' = FALSE
      /\ member' = [a \in Agent |-> NoMember]
      /\ UNCHANGED <<sync, specs, active, untracked, restarts>>
  BY DEF Cleanup, CleanupAllowed, Quiet
<1>2. \A a \in Agent : ~sync[a] /\ \A r \in Run : AgentOf[r] = a => run[r].exec # "working"
  BY <1>1 DEF Booked
<1>3. \A r \in Run : run[r].exec = "none"
  <2> SUFFICES ASSUME NEW r \in Run PROVE run[r].exec = "none"
    OBVIOUS
  <2>1. run[r].exec \in {"none", "working", "rejected"} /\ AgentOf[r] \in Agent
    BY TeamRunsAssumption DEF TypeOK, Records
  <2> QED
    BY <1>1, <1>2, <2>1
<1>4. \A r \in Run : /\ run'[r] \in Records /\ run'[r].exec = "none"
                     /\ run'[r].status \in {"new", "gone"}
  BY <1>1, <1>3 DEF TypeOK, Records, Statuses
<1>5. NoMember \in Members /\ NoMember.count = 0
  BY DEF NoMember, Members
<1>6. run' \in [Run -> Records] /\ member' \in [Agent -> Members] /\ queue' \in Seq(Run)
  BY <1>1, <1>4, <1>5
<1>7. TypeOK'
  BY <1>1, <1>6 DEF TypeOK
<1>8. WithStatus(run', "queued") = {}
  BY <1>4, <1>6 DEF WithStatus
<1>9. Queued(run', queue')
  <2>1. DOMAIN queue' = {} /\ ToSet(queue') = {}
    BY <1>1 DEF ToSet
  <2> QED
    BY <1>8, <2>1 DEF Queued
<1>10. Executed(run')
  BY <1>4 DEF Executed
<1>11. Booked(run', member', sync')
  <2>1. sync' = sync /\ \A a \in Agent : member'[a].count = 0
    BY <1>1, <1>5
  <2> QED
    BY <1>2, <1>4, <2>1 DEF Booked
<1>12. Awake'
  BY <1>8 DEF Awake
<1>13. SessionTracksRuns'
  <2>1. active = {}
    BY <1>1 DEF SessionTracksRuns, TypeOK
  <2> QED
    BY <1>1, <1>4, <2>1 DEF SessionTracksRuns, Live
<1> QED
  BY <1>7, <1>9, <1>10, <1>11, <1>12, <1>13

-----------------------------------------------------------------------------
(* The theorems.                                                            *)

LEMMA InitInv == Init => TeamInv
<1> SUFFICES ASSUME Init PROVE TeamInv
  OBVIOUS
<1>1. \A r \in Run : /\ run[r] \in Records /\ run[r].status = "new" /\ run[r].exec = "none"
  BY DEF Init, Records, Statuses
<1>2. NoMember \in Members /\ NoMember.count = 0
  BY DEF NoMember, Members
<1>3. TypeOK
  <2>1. run \in [Run -> Records] /\ member \in [Agent -> Members]
    BY <1>1, <1>2 DEF Init
  <2>2. queue = <<>> /\ specs = {} /\ active = {} /\ untracked = {} /\ restarts \in Nat
    BY DEF Init
  <2>3. sync = [a \in Agent |-> FALSE]
    BY DEF Init
  <2>4. timer = FALSE
    BY DEF Init
  <2>5. queue \in Seq(Run)
    BY <2>2
  <2>6. sync \in [Agent -> BOOLEAN]
    BY <2>3
  <2>7. timer \in BOOLEAN
    BY <2>4
  <2> QED
    BY <2>1, <2>2, <2>5, <2>6, <2>7 DEF TypeOK
<1>4. WithStatus(run, "queued") = {}
  BY <1>1, <1>3 DEF WithStatus, TypeOK
<1>5. Queued(run, queue)
  <2>1. DOMAIN queue = {} /\ ToSet(queue) = {}
    BY DEF Init, ToSet
  <2> QED
    BY <1>4, <2>1 DEF Queued
<1>6. Executed(run)
  BY <1>1 DEF Executed
<1>7. Booked(run, member, sync)
  <2>1. \A a \in Agent : member[a].count = 0 /\ ~sync[a]
    BY <1>2 DEF Init
  <2> QED
    BY <1>1, <2>1 DEF Booked
<1>8. Awake /\ SessionTracksRuns
  BY <1>1, <1>4 DEF Awake, SessionTracksRuns, Live, Init
<1> QED
  BY <1>3, <1>5, <1>6, <1>7, <1>8 DEF TeamInv

\* A step that changes nothing.
LEMMA StutterStep ==
  ASSUME TeamInv, UNCHANGED vars
  PROVE  TeamInv'
<1> USE DEF TeamInv
<1>1. UNCHANGED <<run, queue, timer, member, sync, specs, active, untracked, restarts>>
  BY DEF vars
<1>2. member' \in [Agent -> Members] /\ sync' \in [Agent -> BOOLEAN] /\ specs' \in SUBSET Agent
  BY <1>1 DEF TypeOK
<1>3. Booked(run, member', sync')
  <2>1. member' = member /\ sync' = sync
    BY <1>1
  <2> QED
    BY <2>1
<1> QED
  BY <1>1, <1>2, <1>3, MembersStep

LEMMA NextInv ==
  ASSUME TeamInv, [Next]_vars
  PROVE  TeamInv'
<1>1. ASSUME NEW a \in Agent,
             \/ SpawnTeammate(a) \/ RouteSync(a) \/ SyncEnds(a)
             \/ \E forGood \in BOOLEAN : ShutdownTeammate(a, forGood)
      PROVE  TeamInv'
  BY <1>1, SpawnStep, RouteSyncStep, SyncEndsStep, ShutdownStep
<1>2. ASSUME NEW r \in Run,
             \/ StartTeammateRun(r) \/ Refused(r) \/ CancelRun(r) \/ BackoffPasses(r)
             \/ Rejects(r) \/ \E why \in {"finished", "aborted"} : Finishes(r, why)
      PROVE  TeamInv'
  BY <1>2, StartStep, RefusedStep, CancelStep, BackoffStep, RejectsStep, FinishesStep
<1>3. ASSUME TimerFires \/ Cleanup \/ Restart
      PROVE  TeamInv'
  BY <1>3, TimerStep, CleanupStep, RestartStep
<1> QED
  BY <1>1, <1>2, <1>3, StutterStep DEF Next

\* Whatever is started, retried, cancelled, shut down, cleaned up or recovered, the queue
\* has the runs that wait, the executions are those of the runs that run, every teammate
\* counts the one prompt it works on, the queue will be looked at again, and the session
\* knows the live runs.
THEOREM TeamInvariant == SafeTeamSpec => []TeamInv
<1>1. Init => TeamInv
  BY InitInv
<1>2. TeamInv /\ [Next]_vars => TeamInv'
  BY NextInv
<1> QED
  BY <1>1, <1>2, PTL DEF SafeTeamSpec

\* Every record keeps its type: no run leaves the statuses of TeamRunStatus.
THEOREM TypeCorrect == SafeTeamSpec => []TypeOK
<1>1. TeamInv => TypeOK
  BY DEF TeamInv
<1> QED
  BY <1>1, TeamInvariant, PTL

\* A teammate is given one prompt at a time, by the queue, by a sync call, after a
\* shutdown, a respawn, a cancellation or a restart, and runningCount counts it.
THEOREM OnePromptATime == SafeTeamSpec => []NoDoubleBooking
<1>1. ASSUME TeamInv
      PROVE  NoDoubleBooking
  <2> SUFFICES ASSUME NEW a \in Agent
               PROVE  /\ member[a].count = Cardinality(Working(a)) + (IF sync[a] THEN 1 ELSE 0)
                      /\ member[a].count <= 1
                      /\ member[a].count = 1 => member[a].busy
    BY DEF NoDoubleBooking
  <2>1. /\ \A r, x \in Working(a) : r = x /\ ~sync[a]
        /\ sync[a] \/ Working(a) # {} => member[a].count = 1 /\ member[a].busy
        /\ ~sync[a] /\ Working(a) = {} => member[a].count = 0
    BY <1>1 DEF TeamInv, Booked, Working
  <2>2. CASE Working(a) = {}
    <3>1. Cardinality(Working(a)) = 0
      BY <2>2, FS_EmptySet
    <3>2. CASE sync[a]
      BY <2>1, <3>1, <3>2
    <3>3. CASE ~sync[a]
      BY <2>1, <2>2, <3>1, <3>3
    <3> QED
      BY <3>2, <3>3
  <2>3. CASE Working(a) # {}
    <3>1. PICK r \in Working(a) : Working(a) = {r}
      BY <2>1, <2>3
    <3>2. Cardinality(Working(a)) = 1
      BY <3>1, FS_Singleton
    <3> QED
      BY <2>1, <2>3, <3>1, <3>2
  <2> QED
    BY <2>2, <2>3
<1> QED
  BY <1>1, TeamInvariant, PTL

\* A run that waits is in the queue once, and a timer or the end of an execution makes
\* dispatchQueuedRuns look at the queue again.
THEOREM WaitingRunsAreKept == SafeTeamSpec => []NobodyForgotten
<1>1. ASSUME TeamInv
      PROVE  NobodyForgotten
  <2> SUFFICES ASSUME NEW r \in WithStatus(run, "queued")
               PROVE  /\ Cardinality({i \in DOMAIN queue : queue[i] = r}) = 1
                      /\ timer \/ \E x \in Run : run[x].exec # "none"
    BY DEF NobodyForgotten
  <2>1. r \in ToSet(queue) /\ \A i, j \in DOMAIN queue : queue[i] = queue[j] => i = j
    BY <1>1 DEF TeamInv, Queued
  <2>2. PICK i \in DOMAIN queue : queue[i] = r
    BY <2>1 DEF ToSet
  <2>3. {j \in DOMAIN queue : queue[j] = r} = {i}
    BY <2>1, <2>2
  <2>4. Cardinality({j \in DOMAIN queue : queue[j] = r}) = 1
    BY <2>3, FS_Singleton
  <2>5. timer \/ \E x \in Run : run[x].exec # "none"
    BY <1>1 DEF TeamInv, Awake
  <2> QED
    BY <2>4, <2>5
<1> QED
  BY <1>1, TeamInvariant, PTL

\* The ids the lead's session waits for are live runs, and it knows every live run but
\* those it could not hear of.
THEOREM SessionKnowsTheRuns == SafeTeamSpec => []SessionTracksRuns
<1>1. TeamInv => SessionTracksRuns
  BY DEF TeamInv
<1> QED
  BY <1>1, TeamInvariant, PTL

\* Cleanup drops nothing that is still being executed.
THEOREM CleanedUpIsOver == SafeTeamSpec => []CleanupLeavesNothing
<1>1. TeamInv => CleanupLeavesNothing
  BY DEF TeamInv, Executed, CleanupLeavesNothing
<1> QED
  BY <1>1, TeamInvariant, PTL

-----------------------------------------------------------------------------
(* A settled run.                                                           *)

Over(record) == \/ record.status \in {"completed", "failed"}
                \/ record.status = "cancelled" /\ record.exec = "none"

Kept(r) == run'[r].status \in {run[r].status, "gone"}

\* Dispatching leaves a run that does not wait as it is.
LEMMA NotWaiting ==
  ASSUME NEW runs, NEW q, NEW mem, NEW r \in Run, Dispatch(runs, q, mem),
         runs[r].status # "queued"
  PROVE  run'[r] = runs[r]
<1>1. r \notin Picks(runs, q)
  BY DEF Picks, Dispatchable
<1> QED
  BY <1>1 DEF Dispatch

\* What ends an execution ends that of another run.
LEMMA CaughtKeeps ==
  ASSUME TeamInv, NEW r \in Run, Over(run[r]), NEW x \in Run, run[x].exec # "none",
         NEW abortLike, NEW mem, Caught(x, abortLike, mem)
  PROVE  Kept(r)
<1>1. x # r /\ run[r].status # "queued" /\ DOMAIN run = Run
  BY DEF Over, TeamInv, Executed, TypeOK
<1>2. ASSUME NEW runs, NEW q, NEW ids, runs[r] = run[r], SettleAndDispatch(runs, q, mem, ids)
      PROVE  Kept(r)
  BY <1>1, <1>2, NotWaiting DEF SettleAndDispatch, Kept
<1>3. ASSUME NEW s, SettleAndDispatch([run EXCEPT ![x].exec = "none", ![x].status = s],
                                      queue, mem, active \ {x})
      PROVE  Kept(r)
  <2> DEFINE runs == [run EXCEPT ![x].exec = "none", ![x].status = s]
  <2>1. runs[r] = run[r]
    BY <1>1
  <2>2. SettleAndDispatch(runs, queue, mem, active \ {x})
    BY <1>3
  <2> HIDE DEF runs
  <2> QED
    BY <1>2, <2>1, <2>2
<1>4. ASSUME SettleAndDispatch([run EXCEPT ![x] = Retried(@)], Append(queue, x), mem, active)
      PROVE  Kept(r)
  BY <1>1, <1>2, <1>4
<1> QED
  BY <1>3, <1>4 DEF Caught

LEMMA RunActionsKeep ==
  ASSUME TeamInv, NEW r \in Run, Over(run[r]), NEW x \in Run,
         \/ StartTeammateRun(x) \/ Refused(x) \/ CancelRun(x) \/ BackoffPasses(x)
         \/ Rejects(x) \/ \E why \in {"finished", "aborted"} : Finishes(x, why)
  PROVE  Kept(r)
<1>1. /\ run[r].status \in {"completed", "failed", "cancelled"} /\ run[r].exec = "none"
      /\ run \in [Run -> Records]
  BY DEF Over, TeamInv, Executed, TypeOK
<1>2. CASE StartTeammateRun(x)
  <2>1. x # r
    BY <1>1, <1>2 DEF StartTeammateRun
  <2> DEFINE runs == [run EXCEPT ![x].status = "queued"]
  <2>2. runs[r] = run[r]
    BY <1>1, <2>1
  <2>3. Dispatch(runs, Append(queue, x), member)
    BY <1>2 DEF StartTeammateRun
  <2> HIDE DEF runs
  <2> QED
    BY <1>1, <2>2, <2>3, NotWaiting DEF Kept
<1>3. CASE Refused(x) \/ Rejects(x)
  BY <1>3, CaughtKeeps DEF Refused, Rejects
<1>4. CASE CancelRun(x)
  BY <1>1, <1>4 DEF CancelRun, Cancellable, Kept
<1>5. CASE BackoffPasses(x)
  BY <1>1, <1>5 DEF BackoffPasses, Kept
<1>6. ASSUME NEW why, Finishes(x, why)
      PROVE  Kept(r)
  <2>1. x # r
    BY <1>1, <1>6 DEF Finishes
  <2> DEFINE runs == [run EXCEPT ![x].exec = "none", ![x].status = "completed",
                                 ![x].reason = why]
  <2>2. runs[r] = run[r]
    BY <1>1, <2>1
  <2>3. Dispatch(runs, queue, [member EXCEPT ![AgentOf[x]] = Released(@, FALSE)])
    BY <1>6 DEF Finishes, SettleAndDispatch
  <2> HIDE DEF runs
  <2> QED
    BY <1>1, <2>2, <2>3, NotWaiting DEF Kept
<1> QED
  BY <1>2, <1>3, <1>4, <1>5, <1>6

LEMMA OtherActionsKeep ==
  ASSUME TeamInv, NEW r \in Run, Over(run[r]), TimerFires \/ Cleanup \/ Restart
  PROVE  Kept(r)
<1>1. /\ run[r].status \in {"completed", "failed", "cancelled"} /\ run[r].exec = "none"
      /\ run \in [Run -> Records]
  BY DEF Over, TeamInv, Executed, TypeOK
<1>2. CASE TimerFires
  BY <1>1, <1>2, NotWaiting DEF TimerFires, Kept
<1>3. CASE Cleanup
  BY <1>1, <1>3 DEF Cleanup, Kept, Records
<1>4. CASE Restart
  <2> DEFINE runs == [x \in Run |->
        IF Recovered(x) THEN [run[x] EXCEPT !.status = "queued", !.exec = "none"]
        ELSE IF Live(run[x]) THEN [run[x] EXCEPT !.status = "interrupted", !.exec = "none"]
        ELSE [run[x] EXCEPT !.exec = "none"]]
             q == InOrder(WithStatus(run, "queued"))
                    \o InOrder({x \in WithStatus(run, "running") : Recovered(x)})
  <2>1. Dispatch(runs, q, Restored)
    BY <1>4 DEF Restart
  <2>2. runs[r].status = run[r].status
    BY <1>1 DEF Recovered, Live, Records
  <2> HIDE DEF runs, q
  <2> QED
    BY <1>1, <2>1, <2>2, NotWaiting DEF Kept
<1> QED
  BY <1>2, <1>3, <1>4

\* A completed or failed run stays so, and a cancelled one whose execution is over: no
\* retry, recovery, cancellation or late answer takes it up again.
THEOREM SettledRunsStay == SafeTeamSpec => SettledStays
<1> DEFINE Stays == \A r \in Run :
                      \/ run[r].status \in {"completed", "failed"}
                      \/ run[r].status = "cancelled" /\ run[r].exec = "none"
                      => run'[r].status \in {run[r].status, "gone"}
<1>1. ASSUME TeamInv, Next
      PROVE  Stays
  <2> SUFFICES ASSUME NEW r \in Run, Over(run[r])
               PROVE  Kept(r)
    BY DEF Over, Kept
  <2>1. ASSUME NEW a \in Agent,
               \/ SpawnTeammate(a) \/ RouteSync(a) \/ SyncEnds(a)
               \/ \E forGood \in BOOLEAN : ShutdownTeammate(a, forGood)
        PROVE  Kept(r)
    BY <2>1 DEF SpawnTeammate, RouteSync, SyncEnds, ShutdownTeammate, Kept
  <2>2. ASSUME NEW x \in Run,
               \/ StartTeammateRun(x) \/ Refused(x) \/ CancelRun(x) \/ BackoffPasses(x)
               \/ Rejects(x) \/ \E why \in {"finished", "aborted"} : Finishes(x, why)
        PROVE  Kept(r)
    BY <1>1, <2>2, RunActionsKeep
  <2>3. ASSUME TimerFires \/ Cleanup \/ Restart
        PROVE  Kept(r)
    BY <1>1, <2>3, OtherActionsKeep
  <2> QED
    BY <1>1, <2>1, <2>2, <2>3 DEF Next
<1>2. TeamInv /\ [Next]_vars => [Stays]_vars
  BY <1>1
<1> QED
  BY <1>2, TeamInvariant, PTL DEF SafeTeamSpec, SettledStays

=============================================================================
