--------------------------- MODULE CronSpecsProofs ---------------------------
(***************************************************************************)
(* TLAPS proofs about CronSpecs, for every set of paths and services,      *)
(* every schedule, and any number of edits and crashes.                    *)
(***************************************************************************)
EXTENDS CronSpecs, FiniteSetTheorems, SequenceTheorems, TLAPS

-----------------------------------------------------------------------------
(* Queues of work.                                                          *)

\* The order a listing or a walk returns its paths in holds paths of that set only.
LEMMA OrderOK ==
  ASSUME NEW S, IsFiniteSet(S)
  PROVE  /\ Cardinality(S) \in Nat
         /\ SetToSeq(S) \in [1..Cardinality(S) -> S]
<1>1. Cardinality(S) \in Nat /\ Bijection(1..Cardinality(S), S) # {}
  BY FS_CardinalityType DEF ExistsBijection
<1>2. \E f \in [1..Cardinality(S) -> S] : IsInjective(f)
  BY <1>1 DEF Bijection, Injection
<1> QED
  BY <1>1, <1>2 DEF SetToSeq

\* A function on 1..n is a sequence.
LEMMA SequenceOf ==
  ASSUME NEW n \in Nat, NEW T, NEW f \in [1..n -> T]
  PROVE  f \in Seq(T) /\ DOMAIN f = 1..n
  BY SeqDef

\* One item per path of a set of paths.
LEMMA ForEachOK ==
  ASSUME NEW what, NEW S \in SUBSET Path
  PROVE  ForEach(what, S) \in Seq([do : {what}, path : S])
<1>1. IsFiniteSet(S)
  BY FS_Subset, CronSpecsAssumption
<1> DEFINE n == Cardinality(S)
           T == [do : {what}, path : S]
<1>2. n \in Nat /\ SetToSeq(S) \in [1..n -> S]
  BY <1>1, OrderOK
<1>3. ForEach(what, S) = [i \in 1..n |-> [do |-> what, path |-> SetToSeq(S)[i]]]
  BY <1>2 DEF ForEach
<1>4. ForEach(what, S) \in [1..n -> T]
  BY <1>2, <1>3
<1> QED
  BY <1>2, <1>4, SequenceOf

\* A slot is written at once: it is the first thing the service does, and with Prompt
\* it has not come yet.
SlotFirst(w, t) ==
  \A i \in DOMAIN w : w[i].do = "next" =>
    i = 1 /\ (Prompt => w[i].slot = NoTime \/ t < w[i].slot)

WorkOK == \A p \in Service : SlotFirst(work[p], now)

WorkTypeOK == work \in [Service -> Seq(WorkItem)]

\* Replacing the head of a queue of work by what it expands to.
LEMMA BecomesOK ==
  ASSUME WorkTypeOK, WorkOK, NEW p \in Service, work[p] # <<>>,
         NEW items \in Seq(WorkItem), SlotFirst(items, now),
         Becomes(p, items), now' = now
  PROVE  WorkTypeOK' /\ WorkOK'
<1> DEFINE w == work[p]
           rest == Tail(w)
<1>1. w \in Seq(WorkItem) /\ SlotFirst(w, now)
  BY DEF WorkTypeOK, WorkOK
<1>2. /\ rest \in Seq(WorkItem)
      /\ Len(rest) = Len(w) - 1
      /\ \A i \in 1..Len(rest) : rest[i] = w[i + 1]
  BY <1>1, HeadTailProperties
<1>3. Len(w) \in Nat /\ DOMAIN w = 1..Len(w) /\ Len(rest) \in Nat
  BY <1>1, <1>2, LenProperties
<1>4. \A i \in 1..Len(rest) : rest[i].do # "next"
  BY <1>1, <1>2, <1>3 DEF SlotFirst
<1>5. Len(items) \in Nat /\ DOMAIN items = 1..Len(items)
  BY LenProperties
<1> DEFINE v == items \o rest
<1>6. /\ v \in Seq(WorkItem)
      /\ Len(v) = Len(items) + Len(rest)
      /\ \A i \in 1..Len(items) + Len(rest) :
           v[i] = IF i <= Len(items) THEN items[i] ELSE rest[i - Len(items)]
  BY <1>2, ConcatProperties
<1>7. DOMAIN v = 1..Len(items) + Len(rest)
  BY <1>6, LenProperties
<1>8. SlotFirst(v, now)
  <2> SUFFICES ASSUME NEW i \in 1..Len(items) + Len(rest), v[i].do = "next"
               PROVE  i = 1 /\ (Prompt => v[i].slot = NoTime \/ now < v[i].slot)
    BY <1>7 DEF SlotFirst
  <2>1. i <= Len(items)
    <3> SUFFICES ASSUME ~(i <= Len(items)) PROVE FALSE
      OBVIOUS
    <3>1. i - Len(items) \in 1..Len(rest) /\ v[i] = rest[i - Len(items)]
      BY <1>3, <1>5, <1>6
    <3> QED
      BY <1>4, <3>1
  <2>2. i \in DOMAIN items /\ v[i] = items[i]
    BY <1>5, <1>6, <2>1
  <2> QED
    BY <2>2 DEF SlotFirst
<1>9. work' = [work EXCEPT ![p] = v]
  BY DEF Becomes
<1>10. WorkTypeOK'
  BY <1>6, <1>9 DEF WorkTypeOK
<1>11. WorkOK'
  <2> SUFFICES ASSUME NEW q \in Service PROVE SlotFirst(work'[q], now)
    BY DEF WorkOK
  <2>1. CASE q = p
    BY <1>8, <1>9, <2>1 DEF WorkTypeOK
  <2>2. CASE q # p
    BY <1>9, <2>2 DEF WorkTypeOK, WorkOK
  <2> QED
    BY <2>1, <2>2
<1> QED
  BY <1>10, <1>11

-----------------------------------------------------------------------------
(* Items.                                                                   *)

\* The items that neither compute nor carry a slot.
PlainItem == {x \in WorkItem : x.do \notin {"compute", "next"}}

\* What an item of a queue carries, by what it does.
LEMMA ItemFields ==
  ASSUME NEW x \in WorkItem
  PROVE  /\ x.do = "read" => x.path \in Files
         /\ x.do = "sweep" => x.seen \in SUBSET Files
         /\ x.do = "select" => /\ x.path \in Path /\ x.says \in Content
                               /\ x.before \in Row
         /\ x.do = "write" => /\ x.path \in Path /\ x.says \in Content
                              /\ x.before \in Row /\ x.old \in Row
         /\ x.do = "reload" => x.path \in Scheduled /\ x.force \in BOOLEAN
         /\ x.do \in {"remove", "delete", "cancel"} => x.path \in Path
         /\ x.do \in {"compute", "fire"} => x.path \in Scheduled
         /\ x.do = "next" => /\ x.path \in Scheduled /\ x.slot \in Nat
                             /\ x.edited \in BOOLEAN
         /\ x.do \in {"once", "insert"} => /\ x.path \in Files \ Scheduled
                                           /\ x.revision \in Nat
  BY DEF WorkItem

\* The items the steps make.
LEMMA PlainShapes ==
  /\ \A w \in {"walk", "refresh", "list"} : [do |-> w] \in PlainItem
  /\ \A f \in Files : [do |-> "read", path |-> f] \in PlainItem
  /\ \A S \in SUBSET Files : [do |-> "sweep", seen |-> S] \in PlainItem
  /\ \A f \in Path, c \in Content, b \in Row :
       [do |-> "select", path |-> f, says |-> c, before |-> b] \in PlainItem
  /\ \A f \in Path, c \in Content, b, o \in Row :
       [do |-> "write", path |-> f, says |-> c, before |-> b, old |-> o] \in PlainItem
  /\ \A f \in Scheduled, b \in BOOLEAN :
       [do |-> "reload", path |-> f, force |-> b] \in PlainItem
  /\ \A w \in {"remove", "delete", "cancel"}, f \in Path :
       [do |-> w, path |-> f] \in PlainItem
  /\ \A f \in Scheduled : [do |-> "fire", path |-> f] \in PlainItem
  /\ \A w \in {"once", "insert"}, f \in Files \ Scheduled, n \in Nat :
       [do |-> w, path |-> f, revision |-> n] \in PlainItem
  BY DEF PlainItem, WorkItem

\* Work in which no slot waits to be computed or written.
NoSlots(w) == \A i \in DOMAIN w : w[i].do \notin {"compute", "next"}

\* Plain items are such work.
LEMMA PlainOK ==
  ASSUME NEW items \in Seq(PlainItem), NEW t
  PROVE  items \in Seq(WorkItem) /\ SlotFirst(items, t) /\ NoSlots(items)
<1>1. PlainItem \subseteq WorkItem
  BY DEF PlainItem
<1>2. items \in Seq(WorkItem)
  BY <1>1, SeqMonotonic
<1>3. \A i \in DOMAIN items : items[i] \in PlainItem
  BY LenProperties, ElementOfSeq
<1> QED
  BY <1>2, <1>3 DEF SlotFirst, NoSlots, PlainItem

\* No item, one item and two items.
LEMMA ShortSequences ==
  ASSUME NEW T
  PROVE  /\ <<>> \in Seq(T)
         /\ \A x \in T : <<x>> \in Seq(T)
         /\ \A x, y \in T : <<x, y>> \in Seq(T)
  OBVIOUS

-----------------------------------------------------------------------------
(* The invariant.                                                           *)

StoreTypeOK ==
  /\ row \in [Path -> Row]
  /\ runs \in [Path -> Seq(RunRow)]
  /\ now \in 0..MaxTime

EnvOK ==
  /\ file \in [Files -> Content \cup {Missing}]
  /\ mode \in [Service -> {"down", "starting", "serving", "failed"}]
  /\ events \in [Service -> SUBSET Files]
  /\ missed \in SUBSET Files
  /\ edits \in Nat /\ crashes \in Nat

\* Runs are inserted at an instant that has come.
RunsPast == \A f \in Path : \A i \in DOMAIN runs[f] : runs[f][i].at <= now

\* There is one service, and the work of no other comes between two items of its own.
OneService == \A p, q \in Service : p = q

\* A slot is computed and written with no slot fired in between.
Steady == Prompt \/ OneService

\* A schedule's next slot is later than the insertion of any run it has.
SlotsAhead ==
  Steady => \A f \in Scheduled : row[f].next # NoTime =>
              \A i \in DOMAIN runs[f] : runs[f][i].at < row[f].next

StoreInv ==
  StoreTypeOK /\ RunsPast /\ SlotsAhead /\ (Steady => CatchUpOnce) /\ OneRunPerRevision

WorkInv == WorkTypeOK /\ WorkOK

\* What waits in a queue of work to compute or write slots: each for a schedule that has
\* none, but for the slots an edit asks for, no two for one, in front of all other work;
\* and the slot to be written is later than the runs the schedule has.
Pending(w, rows, rs) ==
  /\ \A i \in DOMAIN w : w[i].do = "compute" =>
       /\ rows[w[i].path].next = NoTime
       /\ \A j \in 1..(i - 1) : w[j].do \in {"compute", "next"} /\ w[j].path # w[i].path
  /\ \A i \in DOMAIN w : w[i].do = "next" =>
       /\ w[i].edited \/ rows[w[i].path].next = NoTime
       /\ \/ w[i].slot = NoTime
          \/ \A k \in DOMAIN rs[w[i].path] : rs[w[i].path][k].at < w[i].slot

Undisturbed == OneService => \A p \in Service : Pending(work[p], row, runs)

SpecsInv == StoreInv /\ WorkInv /\ Undisturbed /\ EnvOK

\* A row of the table moves to a slot that has not come, or keeps the one it has.
LEMMA RowsMoved ==
  ASSUME StoreInv, row' \in [Path -> Row], runs' = runs, now' = now,
         \A f \in Path :
           \/ row'[f].next = row[f].next
           \/ Steady => \/ row'[f].next = NoTime
                        \/ \A i \in DOMAIN runs[f] : runs[f][i].at < row'[f].next
  PROVE  StoreInv'
<1>1. StoreTypeOK' /\ RunsPast'
  BY DEF StoreInv, StoreTypeOK, RunsPast
<1>2. CatchUpOnce' = CatchUpOnce /\ OneRunPerRevision' = OneRunPerRevision
  BY DEF CatchUpOnce, OneRunPerRevision
<1>3. SlotsAhead'
  BY DEF StoreInv, SlotsAhead, Steady, OneService, Scheduled
<1> QED
  BY <1>1, <1>2, <1>3 DEF StoreInv, Steady, OneService

\* A slot that has not come is later than the runs there are.
LEMMA SlotLater ==
  ASSUME StoreInv, NEW f \in Path, NEW slot \in Nat, now < slot
  PROVE  \A i \in DOMAIN runs[f] : runs[f][i].at < slot
<1> SUFFICES ASSUME NEW i \in DOMAIN runs[f]
             PROVE  runs[f][i].at < slot
  OBVIOUS
<1>1. runs[f] \in Seq(RunRow) /\ now \in 0..MaxTime
  BY DEF StoreInv, StoreTypeOK
<1>2. runs[f][i] \in RunRow
  BY <1>1, LenProperties, ElementOfSeq
<1>3. runs[f][i].at \in 0..MaxTime /\ runs[f][i].at <= now
  BY <1>2 DEF StoreInv, RunsPast, RunRow
<1> QED
  BY <1>1, <1>3, CronSpecsAssumption

\* The table stays as it is.
LEMMA StoreKept ==
  ASSUME StoreInv, row' = row, runs' = runs, now' = now
  PROVE  StoreInv'
<1>1. row' \in [Path -> Row]
  BY DEF StoreInv, StoreTypeOK
<1> QED
  BY <1>1, RowsMoved

\* Runs change their status only.
LEMMA RunsMarked ==
  ASSUME StoreInv, runs' \in [Path -> Seq(RunRow)], row' = row, now' = now,
         \A f \in Path :
           /\ DOMAIN runs'[f] = DOMAIN runs[f]
           /\ \A i \in DOMAIN runs[f] :
                runs'[f][i].key = runs[f][i].key /\ runs'[f][i].at = runs[f][i].at
  PROVE  StoreInv'
<1>1. Scheduled \subseteq Path /\ Files \subseteq Path
  BY DEF Scheduled, Files
<1>2. StoreTypeOK' /\ RunsPast' /\ SlotsAhead'
  BY <1>1 DEF StoreInv, StoreTypeOK, RunsPast, SlotsAhead
<1>3. OneRunPerRevision'
  BY <1>1 DEF StoreInv, OneRunPerRevision
<1>4. Steady => CatchUpOnce'
  BY <1>1 DEF StoreInv, CatchUpOnce
<1> QED
  BY <1>2, <1>3, <1>4 DEF StoreInv

\* One more run of a path, with a key no run of it has yet.
LEMMA RunInserted ==
  ASSUME StoreInv, NEW f \in Path, NEW key \in Nat,
         runs' = Inserted(f, key), row' \in [Path -> Row], now' = now,
         \A g \in Path \ {f} : row'[g].next = row[g].next,
         f \in Scheduled =>
           /\ key = row[f].next /\ key # NoTime /\ key <= now
           /\ Steady => row'[f].next = NoTime \/ now < row'[f].next,
         f \notin Scheduled => ~HasRun(f, key)
  PROVE  StoreInv'
<1> DEFINE r == runs[f]
           new == [key |-> key, at |-> now, status |-> "queued"]
           n == Len(r)
<1>1. r \in Seq(RunRow) /\ n \in Nat /\ DOMAIN r = 1..n /\ now \in 0..MaxTime
  BY LenProperties DEF StoreInv, StoreTypeOK
<1>2. new \in RunRow
  BY <1>1 DEF RunRow
<1>3. /\ Append(r, new) \in Seq(RunRow)
      /\ DOMAIN Append(r, new) = 1..(n + 1)
      /\ \A i \in 1..n : Append(r, new)[i] = r[i]
      /\ Append(r, new)[n + 1] = new
  BY <1>1, <1>2, AppendProperties, LenProperties
<1>4. /\ runs' = [runs EXCEPT ![f] = Append(r, new)]
      /\ runs \in [Path -> Seq(RunRow)]
  BY DEF Inserted, StoreInv, StoreTypeOK
<1>5. /\ runs' \in [Path -> Seq(RunRow)]
      /\ runs'[f] = Append(r, new)
      /\ \A g \in Path \ {f} : runs'[g] = runs[g]
  BY <1>3, <1>4
<1>6. /\ DOMAIN runs'[f] = 1..(n + 1)
      /\ \A i \in 1..n : runs'[f][i] = r[i]
      /\ runs'[f][n + 1].key = key /\ runs'[f][n + 1].at = now
  BY <1>3, <1>5
<1>7. StoreTypeOK'
  BY <1>1, <1>5 DEF StoreTypeOK
<1>8. \A i \in 1..n : r[i].key \in Nat /\ r[i].at \in Nat /\ r[i].at <= now
  <2> TAKE i \in 1..n
  <2>1. r[i] \in RunRow
    BY <1>1, ElementOfSeq
  <2>2. r[i].key \in Nat /\ r[i].at \in 0..MaxTime
    BY <2>1 DEF RunRow
  <2>3. r[i].at <= now
    BY <1>1 DEF StoreInv, RunsPast
  <2> QED
    BY <2>2, <2>3, CronSpecsAssumption
<1>9. now \in Nat
  BY <1>1, CronSpecsAssumption
<1>10. \A i \in 1..(n + 1) : i \in 1..n \/ i = n + 1
  BY <1>1
<1>11. Scheduled \subseteq Path /\ Files \subseteq Path
  BY DEF Scheduled, Files
<1>12. RunsPast'
  <2> SUFFICES ASSUME NEW g \in Path, NEW i \in DOMAIN runs'[g]
               PROVE  runs'[g][i].at <= now
    BY DEF RunsPast
  <2>1. CASE g # f
    BY <1>5, <2>1 DEF StoreInv, RunsPast
  <2>2. CASE g = f
    <3>1. i \in 1..n \/ i = n + 1
      BY <1>6, <1>10, <2>2
    <3> QED
      BY <1>6, <1>8, <1>9, <2>2, <3>1
  <2> QED
    BY <2>1, <2>2
<1>13. SlotsAhead'
  <2> SUFFICES ASSUME Steady, NEW g \in Scheduled, row'[g].next # NoTime,
                      NEW i \in DOMAIN runs'[g]
               PROVE  runs'[g][i].at < row'[g].next
    BY DEF SlotsAhead
  <2>1. CASE g # f
    BY <1>5, <1>11, <2>1 DEF StoreInv, SlotsAhead
  <2>2. CASE g = f
    <3>1. now < row'[f].next /\ row'[f].next \in Nat
      BY <2>2 DEF Row
    <3>2. runs'[f][i].at \in Nat /\ runs'[f][i].at <= now
      <4>1. i \in 1..n \/ i = n + 1
        BY <1>6, <1>10, <2>2
      <4> QED
        BY <1>6, <1>8, <1>9, <4>1
    <3> QED
      BY <1>9, <2>2, <3>1, <3>2
  <2> QED
    BY <2>1, <2>2
<1>14. Steady => CatchUpOnce'
  <2> SUFFICES ASSUME Steady, NEW g \in Scheduled,
                      NEW i \in DOMAIN runs'[g], NEW j \in DOMAIN runs'[g]
               PROVE  /\ runs'[g][i].key <= runs'[g][i].at
                      /\ i < j => runs'[g][i].at < runs'[g][j].key
    BY DEF CatchUpOnce
  <2>1. CASE g # f
    BY <1>5, <1>11, <2>1 DEF StoreInv, CatchUpOnce
  <2>2. CASE g = f
    <3>1. runs'[f][i].key <= runs'[f][i].at
      <4>1. CASE i \in 1..n
        BY <1>1, <1>6, <2>2, <4>1 DEF StoreInv, CatchUpOnce
      <4>2. CASE i = n + 1
        BY <1>6, <2>2, <4>2
      <4> QED
        BY <1>6, <1>10, <2>2, <4>1, <4>2
    <3>2. ASSUME i < j PROVE runs'[f][i].at < runs'[f][j].key
      <4>1. i \in 1..n
        BY <1>1, <1>6, <2>2, <3>2
      <4>2. CASE j \in 1..n
        BY <1>1, <1>6, <2>2, <3>2, <4>1, <4>2 DEF StoreInv, CatchUpOnce
      <4>3. CASE j = n + 1
        <5>1. r[i].at < row[f].next
          BY <1>1, <2>2, <4>1 DEF StoreInv, SlotsAhead
        <5> QED
          BY <1>6, <2>2, <4>1, <4>3, <5>1
      <4> QED
        BY <1>6, <1>10, <2>2, <4>2, <4>3
    <3> QED
      BY <2>2, <3>1, <3>2
  <2> QED
    BY <2>1, <2>2
<1>15. OneRunPerRevision'
  <2> SUFFICES ASSUME NEW g \in Files \ Scheduled,
                      NEW i \in DOMAIN runs'[g], NEW j \in DOMAIN runs'[g], i # j
               PROVE  runs'[g][i].key # runs'[g][j].key
    BY DEF OneRunPerRevision
  <2>1. CASE g # f
    BY <1>5, <1>11, <2>1 DEF StoreInv, OneRunPerRevision
  <2>2. CASE g = f
    <3>1. \A k \in 1..n : r[k].key # key
      BY <1>1, <2>2 DEF HasRun
    <3>2. \A k, m \in 1..n : k # m => r[k].key # r[m].key
      BY <1>1, <2>2 DEF StoreInv, OneRunPerRevision
    <3>3. (i \in 1..n \/ i = n + 1) /\ (j \in 1..n \/ j = n + 1)
      BY <1>6, <1>10, <2>2
    <3> QED
      BY <1>6, <2>2, <3>1, <3>2, <3>3
  <2> QED
    BY <2>1, <2>2
<1> QED
  BY <1>7, <1>12, <1>13, <1>14, <1>15 DEF StoreInv

-----------------------------------------------------------------------------
(* Steps that change the work only.                                         *)

\* The queue of a service is set to other work.
LEMMA QueueSet ==
  ASSUME WorkInv, NEW p \in Service, NEW items \in Seq(WorkItem),
         SlotFirst(items, now), work' = [work EXCEPT ![p] = items], now' = now
  PROVE  WorkInv'
<1>1. WorkTypeOK'
  BY DEF WorkInv, WorkTypeOK
<1>2. WorkOK'
  BY DEF WorkInv, WorkTypeOK, WorkOK
<1> QED
  BY <1>1, <1>2 DEF WorkInv

\* The item at the head of a queue.
LEMMA HeadOK ==
  ASSUME WorkInv, NEW p \in Service, work[p] # <<>>
  PROVE  /\ Item(p) \in WorkItem
         /\ Item(p).do = "next" =>
              (Prompt => Item(p).slot = NoTime \/ now < Item(p).slot)
<1>1. work[p] \in Seq(WorkItem) /\ SlotFirst(work[p], now)
  BY DEF WorkInv, WorkTypeOK, WorkOK
<1>2. 1 \in DOMAIN work[p] /\ Item(p) = work[p][1] /\ Item(p) \in WorkItem
  BY <1>1, EmptySeq, LenProperties, HeadTailProperties, ElementOfSeq DEF Item
<1> QED
  BY <1>1, <1>2 DEF SlotFirst

\* The items of a queue whose head was replaced.
LEMMA BecomesItems ==
  ASSUME WorkInv, NEW p \in Service, work[p] # <<>>, NEW items \in Seq(WorkItem),
         Becomes(p, items)
  PROVE  /\ Len(items) \in Nat /\ DOMAIN items = 1..Len(items)
         /\ Len(work[p]) \in Nat \ {0} /\ DOMAIN work[p] = 1..Len(work[p])
         /\ DOMAIN work'[p] = 1..(Len(items) + Len(work[p]) - 1)
         /\ \A i \in 1..Len(items) : work'[p][i] = items[i]
         /\ \A i \in (Len(items) + 1)..(Len(items) + Len(work[p]) - 1) :
              work'[p][i] = work[p][i - Len(items) + 1]
<1> DEFINE w == work[p]
           rest == Tail(w)
           v == items \o rest
<1>1. w \in Seq(WorkItem) /\ work \in [Service -> Seq(WorkItem)]
  BY DEF WorkInv, WorkTypeOK
<1>2. /\ rest \in Seq(WorkItem)
      /\ Len(rest) = Len(w) - 1
      /\ \A i \in 1..Len(rest) : rest[i] = w[i + 1]
  BY <1>1, HeadTailProperties
<1>3. /\ Len(w) \in Nat \ {0} /\ DOMAIN w = 1..Len(w) /\ Len(rest) \in Nat
      /\ Len(items) \in Nat /\ DOMAIN items = 1..Len(items)
  BY <1>1, <1>2, EmptySeq, LenProperties
<1>4. /\ v \in Seq(WorkItem)
      /\ Len(v) = Len(items) + Len(rest)
      /\ \A i \in 1..Len(items) + Len(rest) :
           v[i] = IF i <= Len(items) THEN items[i] ELSE rest[i - Len(items)]
  BY <1>2, ConcatProperties
<1>5. DOMAIN v = 1..Len(items) + Len(rest)
  BY <1>4, LenProperties
<1>6. work'[p] = v
  BY <1>1 DEF Becomes
<1> HIDE DEF v, rest
<1>7. \A i \in 1..Len(items) : v[i] = items[i]
  BY <1>3, <1>4
<1>8. ASSUME NEW i \in (Len(items) + 1)..(Len(items) + Len(w) - 1)
      PROVE  v[i] = w[i - Len(items) + 1]
  <2>1. /\ i - Len(items) \in 1..Len(rest) /\ i \in 1..Len(items) + Len(rest)
        /\ ~(i <= Len(items)) /\ i - Len(items) + 1 = (i - Len(items)) + 1
    BY <1>2, <1>3
  <2> QED
    BY <1>2, <1>4, <2>1
<1> QED
  BY <1>2, <1>3, <1>5, <1>6, <1>7, <1>8

\* With one service its queue is all the work there is.
LEMMA OnlyQueue ==
  ASSUME NEW p \in Service, OneService => Pending(work'[p], row', runs')
  PROVE  Undisturbed'
BY DEF Undisturbed, OneService, Pending

\* Work without a slot to compute or write.
LEMMA NothingPending ==
  ASSUME NEW w, NoSlots(w), NEW rows, NEW rs
  PROVE  Pending(w, rows, rs)
BY DEF NoSlots, Pending

\* Behind an item that is about no slot there is none that is.
LEMMA PlainRest ==
  ASSUME WorkInv, NEW p \in Service, work[p] # <<>>, Pending(work[p], row, runs),
         Item(p).do \notin {"compute", "next"}
  PROVE  NoSlots(work[p])
<1>1. work[p] \in Seq(WorkItem) /\ SlotFirst(work[p], now)
  BY DEF WorkInv, WorkTypeOK, WorkOK
<1>2. /\ DOMAIN work[p] = 1..Len(work[p]) /\ Len(work[p]) \in Nat /\ 1 \in DOMAIN work[p]
      /\ Item(p) = work[p][1]
  BY <1>1, EmptySeq, LenProperties, HeadTailProperties DEF Item
<1> SUFFICES ASSUME NEW i \in DOMAIN work[p], work[p][i].do \in {"compute", "next"}
             PROVE  FALSE
  BY DEF NoSlots
<1>3. i # 1
  BY <1>2
<1>4. work[p][i].do = "compute" /\ 1 \in 1..(i - 1)
  BY <1>1, <1>2, <1>3 DEF SlotFirst
<1> QED
  BY <1>2, <1>4 DEF Pending

\* A step of a service that leaves plain items at the head of its queue.
LEMMA PlainStep ==
  ASSUME SpecsInv, StoreInv', NEW p \in Service, work[p] # <<>>,
         Item(p).do \notin {"compute", "next"},
         NEW items \in Seq(PlainItem), Becomes(p, items), Unthrown
  PROVE  SpecsInv'
<1>1. items \in Seq(WorkItem) /\ SlotFirst(items, now) /\ NoSlots(items)
  BY PlainOK
<1>2. now' = now
  BY DEF Unthrown
<1>3. WorkInv'
  BY <1>1, <1>2, BecomesOK DEF SpecsInv, WorkInv
<1>4. EnvOK'
  BY DEF SpecsInv, EnvOK, Unthrown
<1>5. Undisturbed'
  <2> SUFFICES ASSUME OneService
               PROVE  Pending(work'[p], row', runs')
    BY OnlyQueue
  <2>1. NoSlots(work[p])
    BY PlainRest DEF SpecsInv, Undisturbed
  <2>2. NoSlots(work'[p])
    <3> DEFINE n == Len(items)
    <3>1. /\ n \in Nat /\ DOMAIN items = 1..n
          /\ Len(work[p]) \in Nat \ {0} /\ DOMAIN work[p] = 1..Len(work[p])
          /\ DOMAIN work'[p] = 1..(n + Len(work[p]) - 1)
          /\ \A i \in 1..n : work'[p][i] = items[i]
          /\ \A i \in (n + 1)..(n + Len(work[p]) - 1) : work'[p][i] = work[p][i - n + 1]
      BY <1>1, BecomesItems DEF SpecsInv
    <3> HIDE DEF n
    <3>2. ASSUME NEW i \in 1..n
          PROVE  work'[p][i].do \notin {"compute", "next"}
      BY <1>1, <3>1 DEF NoSlots
    <3>3. ASSUME NEW i \in (n + 1)..(n + Len(work[p]) - 1)
          PROVE  work'[p][i].do \notin {"compute", "next"}
      <4>1. i - n + 1 \in DOMAIN work[p]
        BY <3>1
      <4> QED
        BY <2>1, <3>1, <4>1 DEF NoSlots
    <3>4. \A i \in DOMAIN work'[p] : i \in 1..n \/ i \in (n + 1)..(n + Len(work[p]) - 1)
      BY <3>1
    <3> QED
      BY <3>2, <3>3, <3>4 DEF NoSlots
  <2> QED
    BY <2>2, NothingPending
<1> QED
  BY <1>3, <1>4, <1>5 DEF SpecsInv

\* A step of a service that goes on to write a slot.
LEMMA SlotStep ==
  ASSUME SpecsInv, row' = row, runs' = runs, NEW p \in Service, work[p] # <<>>,
         NEW f \in Scheduled, NEW slot \in Nat, NEW b \in BOOLEAN,
         slot = NoTime \/ now < slot, OneService => b \/ row[f].next = NoTime,
         Item(p).do # "next", Item(p).do = "compute" => Item(p).path = f,
         Becomes(p, <<SlotItem(f, slot, b)>>), Unthrown
  PROVE  SpecsInv'
<1>1. now' = now
  BY DEF Unthrown
<1>2. SlotItem(f, slot, b) \in WorkItem
  BY DEF SlotItem, WorkItem
<1>3. <<SlotItem(f, slot, b)>> \in Seq(WorkItem)
  BY <1>2, ShortSequences
<1>4. SlotFirst(<<SlotItem(f, slot, b)>>, now)
  BY DEF SlotFirst, SlotItem
<1>5. WorkInv'
  BY <1>1, <1>3, <1>4, BecomesOK DEF SpecsInv, WorkInv
<1>6. StoreInv' /\ EnvOK'
  BY <1>1, StoreKept DEF SpecsInv, EnvOK, Unthrown
<1>7. f \in Path
  BY DEF Scheduled
<1>8. slot = NoTime \/ \A k \in DOMAIN runs[f] : runs[f][k].at < slot
  BY <1>7, SlotLater DEF SpecsInv
<1>9. Undisturbed'
  <2> SUFFICES ASSUME OneService
               PROVE  Pending(work'[p], row, runs)
    BY OnlyQueue
  <2> DEFINE w == work[p]
             v == work'[p]
             x == SlotItem(f, slot, b)
  <2>1. w \in Seq(WorkItem) /\ SlotFirst(w, now) /\ Pending(w, row, runs)
    BY DEF SpecsInv, WorkInv, WorkTypeOK, WorkOK, Undisturbed
  <2>2. Len(<<x>>) = 1 /\ <<x>>[1] = x
    OBVIOUS
  <2>3. /\ Len(w) \in Nat \ {0} /\ DOMAIN w = 1..Len(w) /\ DOMAIN v = 1..Len(w)
        /\ v[1] = x /\ \A i \in 2..Len(w) : v[i] = w[i]
    <3>1. /\ DOMAIN v = 1..(1 + Len(w) - 1)
          /\ \A i \in 1..1 : v[i] = <<x>>[i]
          /\ \A i \in 2..(1 + Len(w) - 1) : v[i] = w[i - 1 + 1]
          /\ Len(w) \in Nat \ {0} /\ DOMAIN w = 1..Len(w)
      <4> DEFINE items == <<x>>
      <4>1. items \in Seq(WorkItem) /\ Len(items) = 1 /\ Becomes(p, items)
        BY <1>3, <2>2
      <4> HIDE DEF items
      <4>2. /\ DOMAIN v = 1..(Len(items) + Len(w) - 1)
            /\ \A i \in 1..Len(items) : v[i] = items[i]
            /\ \A i \in (Len(items) + 1)..(Len(items) + Len(w) - 1) :
                 v[i] = w[i - Len(items) + 1]
            /\ Len(w) \in Nat \ {0} /\ DOMAIN w = 1..Len(w)
        BY <4>1, BecomesItems DEF SpecsInv
      <4> HIDE DEF v, w, x
      <4> QED
        BY <4>1, <4>2 DEF items
    <3> HIDE DEF x, v, w
    <3>2. \A i \in 2..Len(w) : v[i] = w[i]
      <4> TAKE i \in 2..Len(w)
      <4>1. i \in 2..(1 + Len(w) - 1) /\ i - 1 + 1 = i
        BY <3>1
      <4> QED
        BY <3>1, <4>1
    <3> QED
      BY <2>2, <3>1, <3>2
  <2>4. w[1] = Item(p)
    BY <2>1, HeadTailProperties DEF Item
  <2>5. x.do = "next" /\ x.path = f /\ x.slot = slot /\ x.edited = b
    BY DEF SlotItem
  <2> HIDE DEF w, v, x
  <2>6. \A i \in DOMAIN v : v[i].do = "next" => i = 1
    BY <2>1, <2>3 DEF SlotFirst
  <2>7. ASSUME NEW i \in DOMAIN v, v[i].do = "compute"
        PROVE  /\ row[v[i].path].next = NoTime
               /\ \A j \in 1..(i - 1) : v[j].do \in {"compute", "next"}
                                        /\ v[j].path # v[i].path
    <3>1. i \in 2..Len(w) /\ i \in DOMAIN w /\ v[i] = w[i]
      BY <2>3, <2>5, <2>7
    <3>2. /\ row[w[i].path].next = NoTime
          /\ \A j \in 1..(i - 1) : w[j].do \in {"compute", "next"} /\ w[j].path # w[i].path
      BY <2>1, <2>7, <3>1 DEF Pending
    <3>3. w[1].do = "compute" /\ w[1].path = f /\ w[1].path # w[i].path
      BY <2>3, <2>4, <3>1, <3>2
    <3>4. \A j \in 1..(i - 1) : v[j].do \in {"compute", "next"} /\ v[j].path # v[i].path
      <4> TAKE j \in 1..(i - 1)
      <4>1. j = 1 \/ j \in 2..Len(w)
        BY <2>3, <3>1
      <4> QED
        BY <2>3, <2>5, <3>1, <3>2, <3>3, <4>1
    <3> QED
      BY <3>1, <3>2, <3>4
  <2>8. Pending(v, row, runs)
    BY <1>8, <2>3, <2>5, <2>6, <2>7 DEF Pending
  <2> QED
    BY <2>8 DEF v
<1> QED
  BY <1>5, <1>6, <1>9 DEF SpecsInv

\* An exception.
LEMMA ThrowStep ==
  ASSUME SpecsInv, NEW p \in Service, Throws(p)
  PROVE  SpecsInv'
<1>1. now' = now /\ row' = row /\ runs' = runs
  BY DEF Throws
<1>2. StoreInv'
  BY <1>1, StoreKept DEF SpecsInv
<1>3. WorkInv'
  <2>1. <<>> \in Seq(WorkItem) /\ SlotFirst(<<>>, now)
    BY ShortSequences DEF SlotFirst
  <2> QED
    BY <1>1, <2>1, QueueSet DEF Throws, SpecsInv
<1>4. EnvOK'
  BY DEF SpecsInv, EnvOK, Throws
<1>5. Undisturbed'
  <2>1. work'[p] = <<>>
    BY DEF SpecsInv, WorkInv, WorkTypeOK, Throws
  <2> QED
    BY <2>1, OnlyQueue, NothingPending DEF NoSlots
<1> QED
  BY <1>2, <1>3, <1>4, <1>5 DEF SpecsInv

-----------------------------------------------------------------------------
(* The statements of a service.                                             *)

\* The head of the queue of a service that is at work, and what it may turn into.
LEMMA DoingOK ==
  ASSUME SpecsInv, NEW p \in Service, NEW what, Doing(p, what)
  PROVE  /\ work[p] # <<>> /\ Item(p) \in WorkItem /\ Item(p).do = what
         /\ now \in 0..MaxTime /\ now \in Nat
         /\ NextSlot(now) \in Nat /\ NextSlot(now) > now /\ NextSlot(now) # NoTime
         /\ row \in [Path -> Row] /\ runs \in [Path -> Seq(RunRow)]
         /\ file \in [Files -> Content \cup {Missing}]
<1>1. work[p] # <<>> /\ Item(p).do = what
  BY DEF Doing
<1>2. Item(p) \in WorkItem
  BY <1>1, HeadOK DEF SpecsInv
<1>3. now \in 0..MaxTime /\ now \in Nat
  BY CronSpecsAssumption DEF SpecsInv, StoreInv, StoreTypeOK
<1>4. NextSlot(now) \in Nat /\ NextSlot(now) > now /\ NextSlot(now) # NoTime
  BY <1>3, CronSpecsAssumption DEF NoTime
<1> QED
  BY <1>1, <1>2, <1>3, <1>4 DEF SpecsInv, StoreInv, StoreTypeOK, EnvOK

\* A statement that reads.
LEMMA ReadStep ==
  ASSUME SpecsInv, NEW p \in Service, work[p] # <<>>, row' = row, runs' = runs,
         Item(p).do \notin {"compute", "next"},
         NEW items \in Seq(PlainItem), Becomes(p, items), Unthrown
  PROVE  SpecsInv'
<1>1. StoreInv'
  BY StoreKept DEF SpecsInv, Unthrown
<1> QED
  BY <1>1, PlainStep

\* Paths are taken one by one.
LEMMA EachPlain ==
  ASSUME NEW what, NEW S \in SUBSET Path,
         \A f \in S : [do |-> what, path |-> f] \in PlainItem
  PROVE  ForEach(what, S) \in Seq(PlainItem)
<1>1. ForEach(what, S) \in Seq([do : {what}, path : S])
  BY ForEachOK
<1>2. [do : {what}, path : S] \subseteq PlainItem
  <2> SUFFICES ASSUME NEW x \in [do : {what}, path : S] PROVE x \in PlainItem
    OBVIOUS
  <2>1. x = [do |-> what, path |-> x.path] /\ x.path \in S
    OBVIOUS
  <2> QED
    BY <2>1
<1> QED
  BY <1>1, <1>2, SeqMonotonic

\* The scan.
LEMMA WalkKeeps == ASSUME SpecsInv, NEW p \in Service, Walk(p) PROVE SpecsInv'
<1> DEFINE seen == {f \in Files : file[f] # Missing}
           items == ForEach("read", seen) \o <<[do |-> "sweep", seen |-> seen]>>
<1>1. work[p] # <<>> /\ Item(p).do \notin {"compute", "next"}
  BY DoingOK DEF Walk
<1>2. Files \subseteq Path
  BY DEF Files
<1>3. ForEach("read", seen) \in Seq(PlainItem)
  <2>1. seen \in SUBSET Path /\ seen \subseteq Files
    BY <1>2
  <2>2. \A f \in seen : [do |-> "read", path |-> f] \in PlainItem
    BY <2>1, PlainShapes
  <2> QED
    BY <2>1, <2>2, EachPlain
<1>4. <<[do |-> "sweep", seen |-> seen]>> \in Seq(PlainItem)
  <2>1. seen \in SUBSET Files
    OBVIOUS
  <2>2. [do |-> "sweep", seen |-> seen] \in PlainItem
    BY <2>1, PlainShapes
  <2> QED
    BY <2>2, ShortSequences
<1>5. items \in Seq(PlainItem)
  BY <1>3, <1>4, ConcatProperties
<1>6. Becomes(p, items) /\ row' = row /\ runs' = runs /\ Unthrown
  BY DEF Walk
<1> QED
  BY <1>1, <1>5, <1>6, ReadStep

\* A file is read, with the row its hash is compared to.
LEMMA ReadFileKeeps == ASSUME SpecsInv, NEW p \in Service, ReadFile(p) PROVE SpecsInv'
<1> DEFINE f == Item(p).path
           select == [do |-> "select", path |-> f, says |-> file[f], before |-> row[f]]
<1>1. /\ work[p] # <<>> /\ Item(p).do \notin {"compute", "next"}
      /\ f \in Files /\ f \in Path
      /\ row[f] \in Row /\ file[f] \in Content \cup {Missing}
  <2>1. /\ work[p] # <<>> /\ Item(p) \in WorkItem /\ Item(p).do = "read"
        /\ row \in [Path -> Row] /\ file \in [Files -> Content \cup {Missing}]
    BY DoingOK DEF ReadFile
  <2>2. f \in Files /\ f \in Path
    BY <2>1, ItemFields DEF Files
  <2> QED
    BY <2>1, <2>2
<1>2. row' = row /\ runs' = runs /\ Unthrown
  BY DEF ReadFile
<1>3. CASE file[f] = Missing
  <2>1. Becomes(p, <<>>) /\ <<>> \in Seq(PlainItem)
    BY <1>3, ShortSequences DEF ReadFile, Done
  <2> QED
    BY <1>1, <1>2, <2>1, ReadStep
<1>4. CASE file[f] # Missing
  <2>1. file[f] \in Content
    BY <1>1, <1>4
  <2>2. select \in PlainItem
    BY <1>1, <2>1, PlainShapes
  <2>3. Becomes(p, <<select>>) /\ <<select>> \in Seq(PlainItem)
    BY <1>4, <2>2, ShortSequences DEF ReadFile
  <2> QED
    BY <1>1, <1>2, <2>3, ReadStep
<1> QED
  BY <1>3, <1>4

\* The row is read for the statement that will write it.
LEMMA SelectRowKeeps == ASSUME SpecsInv, NEW p \in Service, SelectRow(p) PROVE SpecsInv'
<1> DEFINE write == [do |-> "write", path |-> Item(p).path, says |-> Item(p).says,
                     before |-> Item(p).before, old |-> row[Item(p).path]]
<1>1. /\ work[p] # <<>> /\ Item(p).do \notin {"compute", "next"}
      /\ Item(p).path \in Path /\ Item(p).says \in Content /\ Item(p).before \in Row
      /\ row[Item(p).path] \in Row
  BY DoingOK, ItemFields DEF SelectRow
<1>2. write \in PlainItem
  BY <1>1, PlainShapes
<1>3. Becomes(p, <<write>>) /\ <<write>> \in Seq(PlainItem)
  BY <1>2, ShortSequences DEF SelectRow
<1> QED
  BY <1>1, <1>3, ReadStep DEF SelectRow

\* INSERT or UPDATE of a row leaves its next slot.
LEMMA WriteRowKeeps == ASSUME SpecsInv, NEW p \in Service, WriteRow(p) PROVE SpecsInv'
<1> DEFINE f == Item(p).path
           c == Item(p).says
           old == Item(p).old
<1>1. /\ work[p] # <<>> /\ Item(p).do \notin {"compute", "next"}
      /\ f \in Path /\ c \in Content /\ old \in Row
      /\ row \in [Path -> Row]
  BY DoingOK, ItemFields DEF WriteRow
<1>2. CASE Throws(p)
  BY <1>2, ThrowStep
<1>3. CASE /\ row' = [row EXCEPT ![f] = Upserted(f, old, c)]
           /\ \E items \in Seq(PlainItem) : Becomes(p, items)
           /\ runs' = runs /\ Unthrown
  <2>1. Upserted(f, old, c) \in Row /\ Upserted(f, old, c).next = row[f].next
    <3> DEFINE on == c.state = "on"
               rev == IF old.revision = 0 THEN 1
                      ELSE IF Changed(old, c) THEN old.revision + 1 ELSE old.revision
               new == [row[f] EXCEPT !.hash = c, !.removed = FALSE, !.enabled = on,
                                     !.revision = rev]
    <3>1. on \in BOOLEAN
      OBVIOUS
    <3>2. old.revision \in Nat
      BY <1>1 DEF Row
    <3>3. rev \in Nat
      BY <3>2
    <3>4. Upserted(f, old, c) = new
      BY DEF Upserted
    <3> HIDE DEF on, rev
    <3> QED
      BY <1>1, <3>1, <3>3, <3>4 DEF Row
  <2>2. row' \in [Path -> Row]
    BY <1>1, <1>3, <2>1
  <2>3. \A g \in Path : row'[g].next = row[g].next
    BY <1>1, <1>3, <2>1
  <2>4. StoreInv'
    BY <1>3, <2>2, <2>3, RowsMoved DEF SpecsInv, Unthrown
  <2> QED
    BY <1>1, <1>3, <2>4, PlainStep
<1>4. ASSUME NEW newExpr \in BOOLEAN,
             Becomes(p, IF f \in Scheduled
                        THEN <<[do |-> "reload", path |-> f,
                                force |-> IF f \in Files
                                          THEN Forced(Item(p).before, c, newExpr)
                                          ELSE HubForced(Item(p).before, c, newExpr)]>>
                        ELSE <<>>)
      PROVE  \E items \in Seq(PlainItem) : Becomes(p, items)
  <2> DEFINE force == IF f \in Files THEN Forced(Item(p).before, c, newExpr)
                      ELSE HubForced(Item(p).before, c, newExpr)
             reload == [do |-> "reload", path |-> f, force |-> force]
  <2>1. force \in BOOLEAN
    <3>1. Forced(Item(p).before, c, newExpr) \in BOOLEAN
      BY DEF Forced
    <3>2. HubForced(Item(p).before, c, newExpr) \in BOOLEAN
      BY DEF HubForced
    <3> QED
      BY <3>1, <3>2
  <2>2. CASE f \in Scheduled
    <3> HIDE DEF force
    <3>1. reload \in PlainItem
      BY <2>1, <2>2, PlainShapes
    <3>2. <<reload>> \in Seq(PlainItem)
      BY <3>1, ShortSequences
    <3> QED
      BY <1>4, <2>2, <3>2 DEF force
  <2>3. CASE f \notin Scheduled
    BY <1>4, <2>3, ShortSequences
  <2> QED
    BY <2>2, <2>3
<1> QED
  BY <1>2, <1>3, <1>4 DEF WriteRow

\* A file's schedule goes on to its next slot, or has nothing to write.
LEMMA ReloadFileKeeps == ASSUME SpecsInv, NEW p \in Service, ReloadFile(p) PROVE SpecsInv'
<1> DEFINE f == Item(p).path
           slot == NextSlot(now)
<1>1. /\ work[p] # <<>> /\ Item(p).do \notin {"compute", "next"}
      /\ f \in Scheduled /\ Item(p).force \in BOOLEAN
      /\ slot \in Nat /\ now < slot
  BY DoingOK, ItemFields DEF ReloadFile
<1>2. row' = row /\ runs' = runs /\ Unthrown
  BY DEF ReloadFile
<1>3. CASE /\ Becomes(p, <<SlotItem(f, slot, Item(p).force)>>)
           /\ Item(p).force \/ row[f].next = NoTime
  BY <1>1, <1>2, <1>3, SlotStep
<1>4. CASE Becomes(p, <<>>)
  BY <1>1, <1>2, <1>4, ShortSequences, ReadStep
<1> QED
  BY <1>3, <1>4 DEF ReloadFile, Done

\* A programmatic schedule likewise; a paused one has no slot.
LEMMA ReloadHubKeeps == ASSUME SpecsInv, NEW p \in Service, ReloadHub(p) PROVE SpecsInv'
<1> DEFINE f == Item(p).path
           slot == IF row[f].enabled THEN NextSlot(now) ELSE NoTime
<1>1. /\ work[p] # <<>> /\ Item(p).do \notin {"compute", "next"}
      /\ f \in Scheduled
      /\ NextSlot(now) \in Nat /\ now < NextSlot(now)
  BY DoingOK, ItemFields DEF ReloadHub
<1>2. row' = row /\ runs' = runs /\ Unthrown
  BY DEF ReloadHub
<1>3. slot \in Nat /\ (slot = NoTime \/ now < slot)
  BY <1>1 DEF NoTime
<1>4. CASE Becomes(p, <<SlotItem(f, slot, TRUE)>>)
  BY <1>1, <1>2, <1>3, <1>4, SlotStep
<1>5. CASE Becomes(p, <<>>)
  BY <1>1, <1>2, <1>5, ShortSequences, ReadStep
<1> QED
  BY <1>4, <1>5 DEF ReloadHub, Done

\* Behind the item that writes a slot, the schedules that wait for theirs are others.
LEMMA RestPending ==
  ASSUME SpecsInv, OneService, NEW p \in Service, SetNext(p)
  PROVE  Pending(work'[p], row', runs')
<1> DEFINE w == work[p]
           v == work'[p]
           f == Item(p).path
<1>1. /\ w # <<>> /\ Item(p).do = "next" /\ f \in Path /\ row \in [Path -> Row]
  BY DoingOK, ItemFields DEF SetNext, Scheduled
<1>2. /\ Becomes(p, <<>>) /\ <<>> \in Seq(WorkItem) /\ Len(<<>>) = 0
      /\ row' = [row EXCEPT ![f].next = Item(p).slot]
  BY ShortSequences DEF SetNext, Done
<1>3. w \in Seq(WorkItem) /\ SlotFirst(w, now) /\ Pending(w, row, runs)
  BY DEF SpecsInv, WorkInv, WorkTypeOK, WorkOK, Undisturbed
<1>4. /\ DOMAIN v = 1..(0 + Len(w) - 1) /\ DOMAIN w = 1..Len(w) /\ Len(w) \in Nat \ {0}
      /\ \A i \in (0 + 1)..(0 + Len(w) - 1) : v[i] = w[i - 0 + 1]
  <2> DEFINE items == <<>>
  <2>1. items \in Seq(WorkItem) /\ Len(items) = 0 /\ Becomes(p, items)
    BY <1>2
  <2> HIDE DEF items
  <2>2. /\ DOMAIN v = 1..(Len(items) + Len(w) - 1) /\ DOMAIN w = 1..Len(w)
        /\ Len(w) \in Nat \ {0}
        /\ \A i \in (Len(items) + 1)..(Len(items) + Len(w) - 1) :
             v[i] = w[i - Len(items) + 1]
    BY <1>1, <2>1, BecomesItems DEF SpecsInv
  <2> QED
    BY <2>1, <2>2
<1>5. w[1] = Item(p)
  BY <1>1, <1>3, HeadTailProperties DEF Item
<1> HIDE DEF w, v
<1>6. \A i \in DOMAIN v : i + 1 \in DOMAIN w /\ v[i] = w[i + 1] /\ i \in 1..(Len(w) - 1)
  <2> TAKE i \in DOMAIN v
  <2>1. i \in (0 + 1)..(0 + Len(w) - 1) /\ i - 0 + 1 = i + 1
    BY <1>4
  <2> QED
    BY <1>4, <2>1
<1>7. \A i \in DOMAIN v : v[i].do # "next"
  BY <1>3, <1>6 DEF SlotFirst
<1>8. ASSUME NEW i \in DOMAIN v, v[i].do = "compute"
      PROVE  /\ row'[v[i].path].next = NoTime
             /\ \A j \in 1..(i - 1) : v[j].do \in {"compute", "next"}
                                      /\ v[j].path # v[i].path
  <2>1. /\ row[v[i].path].next = NoTime
        /\ \A j \in 1..i : w[j].do \in {"compute", "next"} /\ w[j].path # v[i].path
    <3>1. i + 1 \in DOMAIN w /\ v[i] = w[i + 1] /\ i \in Int /\ (i + 1) - 1 = i
      BY <1>6
    <3>2. /\ row[w[i + 1].path].next = NoTime
          /\ \A j \in 1..((i + 1) - 1) :
               w[j].do \in {"compute", "next"} /\ w[j].path # w[i + 1].path
      BY <1>3, <1>8, <3>1 DEF Pending
    <3> QED
      BY <3>1, <3>2
  <2>2. i \in 1..(Len(w) - 1)
    BY <1>6
  <2>3. f # v[i].path
    BY <1>4, <1>5, <2>1, <2>2
  <2>4. row'[v[i].path] = row[v[i].path]
    BY <1>1, <1>2, <2>3
  <2>5. ASSUME NEW j \in 1..(i - 1)
        PROVE  v[j].do \in {"compute", "next"} /\ v[j].path # v[i].path
    <3>1. j \in DOMAIN v /\ j + 1 \in 1..i
      BY <1>4, <2>2
    <3> QED
      BY <1>6, <2>1, <3>1
  <2> QED
    BY <2>1, <2>4, <2>5
<1>9. Pending(v, row', runs')
  BY <1>7, <1>8 DEF Pending
<1> QED
  BY <1>9 DEF v

\* The slot that is written has not come yet.
LEMMA SetNextKeeps == ASSUME SpecsInv, NEW p \in Service, SetNext(p) PROVE SpecsInv'
<1> DEFINE f == Item(p).path
           slot == Item(p).slot
<1>1. /\ work[p] # <<>> /\ f \in Scheduled /\ slot \in Nat
      /\ row \in [Path -> Row]
  BY DoingOK, ItemFields DEF SetNext
<1>2. f \in Path
  BY <1>1 DEF Scheduled
<1>3. Steady => slot = NoTime \/ \A i \in DOMAIN runs[f] : runs[f][i].at < slot
  <2>1. CASE Prompt
    <3>1. slot = NoTime \/ now < slot
      BY <2>1, DoingOK, HeadOK DEF SetNext, SpecsInv
    <3> QED
      BY <1>1, <1>2, <3>1, SlotLater DEF SpecsInv
  <2>2. CASE OneService
    <3>1. work[p] \in Seq(WorkItem) /\ Item(p).do = "next" /\ Pending(work[p], row, runs)
      BY <2>2 DEF SetNext, Doing, SpecsInv, WorkInv, WorkTypeOK, Undisturbed
    <3>2. 1 \in DOMAIN work[p] /\ Item(p) = work[p][1]
      BY <1>1, <3>1, EmptySeq, LenProperties, HeadTailProperties DEF Item
    <3> QED
      BY <3>1, <3>2 DEF Pending
  <2> QED
    BY <2>1, <2>2 DEF Steady
<1>4. /\ row' = [row EXCEPT ![f].next = slot]
      /\ Becomes(p, <<>>) /\ runs' = runs /\ now' = now /\ Unthrown
  BY DEF SetNext, Done, Unthrown
<1>5. row' \in [Path -> Row]
  BY <1>1, <1>2, <1>4 DEF Row
<1>6. \A g \in Path :
        \/ row'[g].next = row[g].next
        \/ Steady => \/ row'[g].next = NoTime
                     \/ \A i \in DOMAIN runs[g] : runs[g][i].at < row'[g].next
  <2> TAKE g \in Path
  <2>1. CASE g = f
    <3>1. row[f] \in Row /\ row'[f].next = slot
      BY <1>1, <1>2, <1>4 DEF Row
    <3> QED
      BY <1>3, <2>1, <3>1
  <2>2. CASE g # f
    BY <1>1, <1>2, <1>4, <2>2
  <2> QED
    BY <2>1, <2>2
<1>7. StoreInv'
  BY <1>4, <1>5, <1>6, RowsMoved DEF SpecsInv
<1>8. WorkInv'
  <2>1. <<>> \in Seq(WorkItem) /\ SlotFirst(<<>>, now)
    BY ShortSequences DEF SlotFirst
  <2> QED
    BY <1>1, <1>4, <2>1, BecomesOK DEF SpecsInv, WorkInv
<1>9. Undisturbed'
  BY RestPending, OnlyQueue
<1>10. EnvOK'
  BY <1>4 DEF SpecsInv, EnvOK, Unthrown
<1> QED
  BY <1>7, <1>8, <1>9, <1>10 DEF SpecsInv

\* What is gone will be removed.
LEMMA SweepKeeps == ASSUME SpecsInv, NEW p \in Service, Sweep(p) PROVE SpecsInv'
<1> DEFINE gone == {f \in Path : Known(f) /\ ~row[f].removed /\ f \notin Item(p).seen}
           items == ForEach("remove", gone) \o <<[do |-> "refresh"]>>
<1>1. work[p] # <<>> /\ Item(p).do \notin {"compute", "next"}
  BY DoingOK DEF Sweep
<1>2. \A f \in gone : [do |-> "remove", path |-> f] \in PlainItem
  BY PlainShapes
<1>3. ForEach("remove", gone) \in Seq(PlainItem)
  BY <1>2, EachPlain
<1>4. <<[do |-> "refresh"]>> \in Seq(PlainItem)
  BY PlainShapes, ShortSequences
<1>5. items \in Seq(PlainItem)
  BY <1>3, <1>4, ConcatProperties
<1>6. Becomes(p, items) /\ row' = row /\ runs' = runs /\ Unthrown
  BY DEF Sweep
<1> QED
  BY <1>1, <1>5, <1>6, ReadStep

\* A removal leaves the next slot.
LEMMA MarkRemovedKeeps ==
  ASSUME SpecsInv, NEW p \in Service, MarkRemoved(p) PROVE SpecsInv'
<1> DEFINE f == Item(p).path
<1>1. /\ work[p] # <<>> /\ Item(p).do \notin {"compute", "next"}
      /\ f \in Path /\ row \in [Path -> Row]
  BY DoingOK, ItemFields DEF MarkRemoved
<1>2. /\ row' = [row EXCEPT ![f].removed = TRUE, ![f].enabled = FALSE]
      /\ Becomes(p, <<[do |-> "cancel", path |-> f]>>) /\ runs' = runs /\ Unthrown
  BY DEF MarkRemoved
<1>3. row' \in [Path -> Row] /\ \A g \in Path : row'[g].next = row[g].next
  <2> DEFINE new == [row[f] EXCEPT !.removed = TRUE, !.enabled = FALSE]
  <2>1. row[f] \in Row /\ row' = [row EXCEPT ![f] = new]
    BY <1>1, <1>2
  <2>2. new \in Row /\ new.next = row[f].next
    BY <2>1 DEF Row
  <2> HIDE DEF new
  <2> QED
    BY <1>1, <2>1, <2>2
<1>4. StoreInv'
  BY <1>2, <1>3, RowsMoved DEF SpecsInv, Unthrown
<1>5. <<[do |-> "cancel", path |-> f]>> \in Seq(PlainItem)
  BY <1>1, PlainShapes, ShortSequences
<1> QED
  BY <1>1, <1>2, <1>4, <1>5, PlainStep

\* A cancellation keeps the keys and the instants of the runs.
LEMMA CancelQueuedKeeps ==
  ASSUME SpecsInv, NEW p \in Service, CancelQueued(p) PROVE SpecsInv'
<1> DEFINE f == Item(p).path
           r == runs[f]
           new == Cancelled(f)
<1>1. /\ work[p] # <<>> /\ Item(p).do \notin {"compute", "next"}
      /\ f \in Path /\ runs \in [Path -> Seq(RunRow)]
  BY DoingOK, ItemFields DEF CancelQueued
<1>2. /\ runs' = [runs EXCEPT ![f] = new]
      /\ Becomes(p, <<>>) /\ row' = row /\ Unthrown
  BY DEF CancelQueued, Done
<1>3. r \in Seq(RunRow) /\ Len(r) \in Nat /\ DOMAIN r = 1..Len(r)
  BY <1>1, LenProperties
<1>4. \A i \in 1..Len(r) : r[i] \in RunRow
  BY <1>3, ElementOfSeq
<1>5. DOMAIN new = 1..Len(r)
  BY <1>3 DEF Cancelled
<1>6. \A i \in 1..Len(r) :
        new[i] \in RunRow /\ new[i].key = r[i].key /\ new[i].at = r[i].at
  <2> TAKE i \in 1..Len(r)
  <2>1. new[i] = IF r[i].status = "queued" THEN [r[i] EXCEPT !.status = "cancelled"]
                 ELSE r[i]
    BY <1>3 DEF Cancelled
  <2> QED
    BY <1>4, <2>1 DEF RunRow
<1>7. new \in [1..Len(r) -> RunRow]
  BY <1>3, <1>5, <1>6 DEF Cancelled
<1>8. new \in Seq(RunRow)
  BY <1>3, <1>7, SequenceOf
<1> HIDE DEF new
<1>9. /\ runs' \in [Path -> Seq(RunRow)]
      /\ runs'[f] = new
      /\ \A g \in Path \ {f} : runs'[g] = runs[g]
  BY <1>1, <1>2, <1>8
<1>10. \A g \in Path :
         /\ DOMAIN runs'[g] = DOMAIN runs[g]
         /\ \A i \in DOMAIN runs[g] :
              runs'[g][i].key = runs[g][i].key /\ runs'[g][i].at = runs[g][i].at
  BY <1>3, <1>5, <1>6, <1>9
<1>11. StoreInv'
  BY <1>2, <1>9, <1>10, RunsMarked DEF SpecsInv, Unthrown
<1> QED
  BY <1>1, <1>2, <1>11, ShortSequences, PlainStep

\* One item per path, no path twice.
LEMMA EachOnce ==
  ASSUME NEW what, NEW S \in SUBSET Path
  PROVE  LET items == ForEach(what, S) IN
         /\ items \in Seq([do : {what}, path : S])
         /\ \A i \in DOMAIN items : items[i].do = what /\ items[i].path \in S
         /\ \A i, j \in DOMAIN items : items[i].path = items[j].path => i = j
<1> DEFINE n == Cardinality(S)
           order == SetToSeq(S)
<1>1. IsFiniteSet(S)
  BY FS_Subset, CronSpecsAssumption
<1>2. n \in Nat /\ Bijection(1..n, S) # {}
  BY <1>1, FS_CardinalityType DEF ExistsBijection
<1>3. \E g \in [1..n -> S] : IsInjective(g)
  BY <1>2 DEF Bijection, Injection
<1>4. order \in [1..n -> S] /\ IsInjective(order)
  BY <1>3 DEF SetToSeq
<1>5. ForEach(what, S) = [i \in 1..n |-> [do |-> what, path |-> order[i]]]
  BY <1>4 DEF ForEach
<1>6. \A i, j \in 1..n : order[i] = order[j] => i = j
  BY <1>4 DEF IsInjective
<1> DEFINE items == ForEach(what, S)
<1>7. items \in Seq([do : {what}, path : S])
  BY ForEachOK
<1> HIDE DEF order, n
<1>8. /\ DOMAIN items = 1..n
      /\ \A i \in 1..n : items[i].do = what /\ items[i].path = order[i] /\ order[i] \in S
  BY <1>4, <1>5
<1> HIDE DEF items
<1>9. \A i, j \in DOMAIN items : items[i].path = items[j].path => i = j
  BY <1>6, <1>8
<1> QED
  BY <1>7, <1>8, <1>9 DEF items

\* The schedules without a slot will get one.
LEMMA RefreshKeeps == ASSUME SpecsInv, NEW p \in Service, Refresh(p) PROVE SpecsInv'
<1> DEFINE S == {f \in Scheduled : Live(f) /\ row[f].next = NoTime}
           items == ForEach("compute", S)
           v == work'[p]
           w == work[p]
<1>1. work[p] # <<>> /\ Item(p).do \notin {"compute", "next"}
  BY DoingOK DEF Refresh
<1>2. /\ items \in Seq([do : {"compute"}, path : S])
      /\ \A i \in DOMAIN items : items[i].do = "compute" /\ items[i].path \in S
      /\ \A i, j \in DOMAIN items : items[i].path = items[j].path => i = j
  BY EachOnce DEF Scheduled
<1>3. items \in Seq(WorkItem)
  <2>1. [do : {"compute"}, path : S] \subseteq WorkItem
    BY DEF WorkItem
  <2> QED
    BY <1>2, <2>1, SeqMonotonic
<1>4. Becomes(p, items) /\ row' = row /\ runs' = runs /\ now' = now /\ Unthrown
  BY DEF Refresh, Unthrown
<1>5. \A f \in S : row[f].next = NoTime
  OBVIOUS
<1> HIDE DEF items, S
<1>6. StoreInv' /\ EnvOK'
  BY <1>4, StoreKept DEF SpecsInv, EnvOK, Unthrown
<1>7. WorkInv'
  BY <1>1, <1>2, <1>3, <1>4, BecomesOK DEF SpecsInv, WorkInv, SlotFirst
<1>8. Undisturbed'
  <2> SUFFICES ASSUME OneService
               PROVE  Pending(v, row, runs)
    BY <1>4, OnlyQueue
  <2>1. NoSlots(w)
    BY <1>1, PlainRest DEF SpecsInv, Undisturbed
  <2>2. /\ Len(items) \in Nat /\ DOMAIN items = 1..Len(items)
        /\ Len(w) \in Nat \ {0} /\ DOMAIN w = 1..Len(w)
        /\ DOMAIN v = 1..(Len(items) + Len(w) - 1)
        /\ \A i \in 1..Len(items) : v[i] = items[i]
        /\ \A i \in (Len(items) + 1)..(Len(items) + Len(w) - 1) :
             v[i] = w[i - Len(items) + 1]
    BY <1>1, <1>3, <1>4, BecomesItems DEF SpecsInv
  <2> HIDE DEF v, w
  <2>3. ASSUME NEW i \in (Len(items) + 1)..(Len(items) + Len(w) - 1)
        PROVE  v[i].do \notin {"compute", "next"}
    <3>1. i - Len(items) + 1 \in DOMAIN w
      BY <2>2
    <3> QED
      BY <2>1, <2>2, <3>1 DEF NoSlots
  <2>4. ASSUME NEW i \in DOMAIN v, v[i].do \in {"compute", "next"}
        PROVE  i \in DOMAIN items /\ v[i] = items[i]
    BY <2>2, <2>3, <2>4
  <2>5. ASSUME NEW i \in DOMAIN v, v[i].do = "compute"
        PROVE  /\ row[v[i].path].next = NoTime
               /\ \A j \in 1..(i - 1) : v[j].do \in {"compute", "next"}
                                        /\ v[j].path # v[i].path
    <3>1. i \in DOMAIN items /\ v[i] = items[i]
      BY <2>4, <2>5
    <3>2. \A j \in 1..(i - 1) : j \in DOMAIN items /\ v[j] = items[j] /\ j # i
      BY <2>2, <3>1
    <3> QED
      BY <1>2, <1>5, <3>1, <3>2
  <2>6. \A i \in DOMAIN v : v[i].do # "next"
    BY <1>2, <2>4
  <2> QED
    BY <2>5, <2>6 DEF Pending
<1> QED
  BY <1>6, <1>7, <1>8 DEF SpecsInv

\* The slot is computed.
LEMMA ComputeKeeps == ASSUME SpecsInv, NEW p \in Service, Compute(p) PROVE SpecsInv'
<1> DEFINE f == Item(p).path
<1>1. /\ work[p] # <<>> /\ Item(p).do = "compute" /\ f \in Scheduled
      /\ NextSlot(now) \in Nat /\ now < NextSlot(now)
  BY DoingOK, ItemFields DEF Compute
<1>2. OneService => row[f].next = NoTime
  <2>1. work[p] \in Seq(WorkItem) /\ (OneService => Pending(work[p], row, runs))
    BY DEF SpecsInv, WorkInv, WorkTypeOK, Undisturbed
  <2>2. 1 \in DOMAIN work[p] /\ Item(p) = work[p][1]
    BY <1>1, <2>1, EmptySeq, LenProperties, HeadTailProperties DEF Item
  <2> QED
    BY <1>1, <2>1, <2>2 DEF Pending
<1> QED
  BY <1>1, <1>2, SlotStep DEF Compute

\* The listing: one-offs with the revision they have now, then schedules.
LEMMA ListKeeps == ASSUME SpecsInv, NEW p \in Service, List(p) PROVE SpecsInv'
<1> DEFINE O == {f \in Files \ Scheduled : Live(f)}
           S == {f \in Scheduled : Live(f)}
           n == Cardinality(O)
           once == SetToSeq(O)
           first == [i \in DOMAIN once |-> [do |-> "once", path |-> once[i],
                                            revision |-> row[once[i]].revision]]
<1>1. /\ work[p] # <<>> /\ Item(p).do \notin {"compute", "next"}
      /\ row \in [Path -> Row]
  BY DoingOK DEF List
<1>2. O \in SUBSET Path /\ S \in SUBSET Path /\ IsFiniteSet(O)
  <2>1. O \in SUBSET Path /\ S \in SUBSET Path
    BY DEF Files, Scheduled
  <2> QED
    BY <2>1, FS_Subset, CronSpecsAssumption
<1>3. n \in Nat /\ once \in [1..n -> O]
  BY <1>2, OrderOK
<1>4. first \in Seq(PlainItem)
  <2> HIDE DEF once
  <2>1. \A i \in 1..n : first[i] \in PlainItem
    <3> TAKE i \in 1..n
    <3>1. once[i] \in O /\ once[i] \in Files \ Scheduled /\ once[i] \in Path
      BY <1>2, <1>3
    <3>2. row[once[i]].revision \in Nat
      BY <1>1, <3>1 DEF Row
    <3> QED
      BY <1>3, <3>1, <3>2, PlainShapes
  <2>2. first \in [1..n -> PlainItem]
    BY <1>3, <2>1
  <2> QED
    BY <1>3, <2>2, SequenceOf
<1>5. ForEach("fire", S) \in Seq(PlainItem)
  <2>1. \A f \in S : [do |-> "fire", path |-> f] \in PlainItem
    BY PlainShapes
  <2> QED
    BY <1>2, <2>1, EachPlain
<1>6. first \o ForEach("fire", S) \in Seq(PlainItem)
  <2> HIDE DEF first
  <2> QED
    BY <1>4, <1>5, ConcatProperties
<1>7. Becomes(p, first \o ForEach("fire", S)) /\ row' = row /\ runs' = runs /\ Unthrown
  BY DEF List
<1> HIDE DEF first, S
<1> QED
  BY <1>1, <1>6, <1>7, ReadStep

\* The check before the INSERT of a one-off's run.
LEMMA CheckOnceKeeps == ASSUME SpecsInv, NEW p \in Service, CheckOnce(p) PROVE SpecsInv'
<1> DEFINE insert == [Item(p) EXCEPT !.do = "insert"]
<1>1. /\ work[p] # <<>> /\ Item(p).do \notin {"compute", "next"}
      /\ Item(p) \in WorkItem /\ Item(p).do = "once"
  BY DoingOK DEF CheckOnce
<1>2. row' = row /\ runs' = runs /\ Unthrown
  BY DEF CheckOnce
<1>3. insert \in PlainItem
  BY <1>1 DEF PlainItem, WorkItem
<1>4. <<insert>> \in Seq(PlainItem) /\ <<>> \in Seq(PlainItem)
  BY <1>3, ShortSequences
<1>5. Becomes(p, <<insert>>) \/ Becomes(p, <<>>)
  BY DEF CheckOnce, Done
<1> QED
  BY <1>1, <1>2, <1>4, <1>5, ReadStep

\* The INSERT of a one-off's run, or its exception.
LEMMA InsertOnceKeeps == ASSUME SpecsInv, NEW p \in Service, InsertOnce(p) PROVE SpecsInv'
<1> DEFINE f == Item(p).path
           rev == Item(p).revision
<1>1. /\ work[p] # <<>> /\ Item(p).do \notin {"compute", "next"}
      /\ f \in Files \ Scheduled /\ f \in Path /\ rev \in Nat
      /\ row \in [Path -> Row]
  BY DoingOK, ItemFields DEF InsertOnce, Files
<1>2. CASE Throws(p)
  BY <1>2, ThrowStep
<1>3. CASE /\ ~HasRun(f, rev)
           /\ runs' = Inserted(f, rev)
           /\ Becomes(p, <<>>) /\ row' = row /\ Unthrown
  <2>1. StoreInv'
    BY <1>1, <1>3, RunInserted DEF SpecsInv, Unthrown
  <2> QED
    BY <1>1, <1>3, <2>1, ShortSequences, PlainStep
<1> QED
  BY <1>2, <1>3 DEF InsertOnce, Done

\* The run of a due slot and the slot after it.
LEMMA FireKeeps == ASSUME SpecsInv, NEW p \in Service, Fire(p) PROVE SpecsInv'
<1> DEFINE f == Item(p).path
           due == row[f].next
<1>1. /\ work[p] # <<>> /\ Item(p).do \notin {"compute", "next"}
      /\ f \in Scheduled /\ f \in Path
      /\ now \in Nat /\ NextSlot(now) \in Nat /\ now < NextSlot(now)
      /\ row \in [Path -> Row]
  BY DoingOK, ItemFields DEF Fire, Scheduled
<1>2. Becomes(p, <<>>) /\ Unthrown /\ now' = now
  BY DEF Fire, Done, Unthrown
<1>3. ASSUME row' = [row EXCEPT ![f].next = NextSlot(now)]
      PROVE  /\ row' \in [Path -> Row] /\ row'[f].next = NextSlot(now)
             /\ \A g \in Path \ {f} : row'[g].next = row[g].next
  BY <1>1, <1>3 DEF Row
<1>4. CASE row' = [row EXCEPT ![f].next = NextSlot(now)] /\ runs' = runs
  <2>1. \A i \in DOMAIN runs[f] : runs[f][i].at < NextSlot(now)
    BY <1>1, SlotLater DEF SpecsInv
  <2>2. StoreInv'
    BY <1>1, <1>2, <1>3, <1>4, <2>1, RowsMoved DEF SpecsInv
  <2> QED
    BY <1>1, <1>2, <1>4, <2>2, ShortSequences, PlainStep
<1>5. CASE /\ due # NoTime /\ due <= now
           /\ runs' = Inserted(f, due)
           /\ row' = [row EXCEPT ![f].next = NextSlot(now)]
  <2>1. due \in Nat
    BY <1>1 DEF Row
  <2>2. StoreInv'
    BY <1>1, <1>2, <1>3, <1>5, <2>1, RunInserted DEF SpecsInv
  <2> QED
    BY <1>1, <1>2, <2>2, ShortSequences, PlainStep
<1>6. CASE row' = row /\ runs' = runs
  BY <1>1, <1>2, <1>6, ShortSequences, ReadStep
<1> QED
  BY <1>4, <1>5, <1>6 DEF Fire

\* Any statement of a service.
LEMMA StatementKeeps == ASSUME SpecsInv, NEW p \in Service, Statement(p) PROVE SpecsInv'
BY WalkKeeps, ReadFileKeeps, SelectRowKeeps, WriteRowKeeps, ReloadFileKeeps,
   ReloadHubKeeps, SetNextKeeps, SweepKeeps, MarkRemovedKeeps, CancelQueuedKeeps,
   RefreshKeeps, ComputeKeeps, ListKeeps, CheckOnceKeeps, InsertOnceKeeps, FireKeeps
   DEF Statement

-----------------------------------------------------------------------------
(* What sets a service to work, and the world around.                       *)

\* A step that gives an idle service its items.
LEMMA SetsStep ==
  ASSUME SpecsInv, NEW p \in Service, NEW items \in Seq(PlainItem),
         work' = [work EXCEPT ![p] = items], EnvOK',
         row' = row, runs' = runs, now' = now
  PROVE  SpecsInv'
<1>1. items \in Seq(WorkItem) /\ SlotFirst(items, now) /\ NoSlots(items)
  BY PlainOK
<1>2. Undisturbed'
  <2>1. work'[p] = items
    BY DEF SpecsInv, WorkInv, WorkTypeOK
  <2> QED
    BY <1>1, <2>1, OnlyQueue, NothingPending
<1> QED
  BY <1>1, <1>2, QueueSet, StoreKept DEF SpecsInv

\* Starting, serving, ticking and stopping.
LEMMA ServiceKeeps ==
  ASSUME SpecsInv, NEW p \in Service,
         Start(p) \/ Serve(p) \/ Tick(p) \/ Crash(p)
  PROVE  SpecsInv'
<1>1. CASE Start(p)
  <2>1. EnvOK'
    BY <1>1 DEF Start, SpecsInv, EnvOK
  <2>2. <<Scan, Materialize>> \in Seq(PlainItem)
    BY PlainShapes, ShortSequences DEF Scan, Materialize
  <2> QED
    BY <1>1, <2>1, <2>2, SetsStep DEF Start, Sets
<1>2. CASE Serve(p)
  <2>1. EnvOK'
    BY <1>2 DEF Serve, SpecsInv, EnvOK
  <2>2. StoreInv'
    BY <1>2, StoreKept DEF Serve, SpecsInv
  <2>3. WorkInv'
    BY <1>2 DEF Serve, SpecsInv, WorkInv, WorkTypeOK, WorkOK
  <2>4. Undisturbed'
    BY <1>2 DEF Serve, SpecsInv, Undisturbed, OneService, Pending
  <2> QED
    BY <2>1, <2>2, <2>3, <2>4 DEF SpecsInv
<1>3. CASE Tick(p)
  <2>1. EnvOK'
    BY <1>3 DEF Tick, SpecsInv, EnvOK
  <2>2. <<Materialize>> \in Seq(PlainItem)
    BY PlainShapes, ShortSequences DEF Materialize
  <2> QED
    BY <1>3, <2>1, <2>2, SetsStep DEF Tick, Sets
<1>4. CASE Crash(p)
  <2>1. EnvOK'
    BY <1>4 DEF Crash, SpecsInv, EnvOK
  <2> QED
    BY <1>4, <2>1, ShortSequences, SetsStep DEF Crash
<1> QED
  BY <1>1, <1>2, <1>3, <1>4

\* A watcher event.
LEMMA WatchKeeps ==
  ASSUME SpecsInv, NEW p \in Service, NEW f \in Files, Watch(p, f)
  PROVE  SpecsInv'
<1> DEFINE first == IF file[f] = Missing THEN Scan ELSE [do |-> "read", path |-> f]
<1>1. EnvOK'
  BY DEF Watch, SpecsInv, EnvOK
<1>2. first \in PlainItem /\ Materialize \in PlainItem
  BY PlainShapes DEF Scan, Materialize
<1>3. <<first, Materialize>> \in Seq(PlainItem)
  <2> HIDE DEF first
  <2> QED
    BY <1>2, ShortSequences
<1> QED
  BY <1>1, <1>3, SetsStep DEF Watch, Sets

\* A request about a programmatic schedule.
LEMMA HubKeeps ==
  ASSUME SpecsInv, NEW p \in Service, NEW f \in Path,
         HubDelete(p, f) \/ \E c \in Content : HubWrite(p, f, c)
  PROVE  SpecsInv'
<1>1. CASE HubDelete(p, f)
  <2>1. EnvOK'
    BY <1>1 DEF HubDelete, SpecsInv, EnvOK
  <2>2. <<[do |-> "delete", path |-> f]>> \in Seq(PlainItem)
    BY PlainShapes, ShortSequences
  <2> QED
    BY <1>1, <2>1, <2>2, SetsStep DEF HubDelete, Sets
<1>2. ASSUME NEW c \in Content, HubWrite(p, f, c) PROVE SpecsInv'
  <2> DEFINE select == [do |-> "select", path |-> f, says |-> c, before |-> row[f]]
  <2>1. EnvOK'
    BY <1>2 DEF HubWrite, SpecsInv, EnvOK
  <2>2. row[f] \in Row
    BY DEF SpecsInv, StoreInv, StoreTypeOK
  <2>3. <<select>> \in Seq(PlainItem)
    BY <2>2, PlainShapes, ShortSequences
  <2> QED
    BY <1>2, <2>1, <2>3, SetsStep DEF HubWrite, Sets
<1> QED
  BY <1>1, <1>2

\* An edit of a file.
LEMMA EditKeeps ==
  ASSUME SpecsInv, NEW f \in Files, NEW c \in Content \cup {Missing}, Edit(f, c)
  PROVE  SpecsInv'
<1>1. row' = row /\ runs' = runs /\ now' = now /\ work' = work
  BY DEF Edit
<1>2. EnvOK'
  BY DEF Edit, SpecsInv, EnvOK
<1>3. WorkInv'
  BY <1>1 DEF SpecsInv, WorkInv, WorkTypeOK, WorkOK
<1>4. Undisturbed'
  BY <1>1 DEF SpecsInv, Undisturbed, OneService, Pending
<1> QED
  BY <1>1, <1>2, <1>3, <1>4, StoreKept DEF SpecsInv

\* The claim of a queued run.
LEMMA TakeKeeps ==
  ASSUME SpecsInv, NEW f \in Path, NEW i \in DOMAIN runs[f], Take(f, i)
  PROVE  SpecsInv'
<1> DEFINE r == runs[f]
           new == [r EXCEPT ![i].status = "taken"]
<1>1. runs \in [Path -> Seq(RunRow)] /\ runs' = [runs EXCEPT ![f] = new]
  BY DEF Take, SpecsInv, StoreInv, StoreTypeOK
<1>2. r \in Seq(RunRow) /\ Len(r) \in Nat /\ DOMAIN r = 1..Len(r)
  BY <1>1, LenProperties
<1>3. \A j \in 1..Len(r) : r[j] \in RunRow
  BY <1>2, ElementOfSeq
<1>4. DOMAIN new = 1..Len(r)
  BY <1>2
<1>5. \A j \in 1..Len(r) :
        new[j] \in RunRow /\ new[j].key = r[j].key /\ new[j].at = r[j].at
  <2> TAKE j \in 1..Len(r)
  <2>1. new[j] = IF j = i THEN [r[j] EXCEPT !.status = "taken"] ELSE r[j]
    BY <1>2
  <2> QED
    BY <1>3, <2>1 DEF RunRow
<1>6. new \in [1..Len(r) -> RunRow]
  BY <1>2, <1>4, <1>5
<1>7. new \in Seq(RunRow)
  BY <1>2, <1>6, SequenceOf
<1> HIDE DEF new
<1>8. /\ runs' \in [Path -> Seq(RunRow)]
      /\ runs'[f] = new
      /\ \A g \in Path \ {f} : runs'[g] = runs[g]
  BY <1>1, <1>7
<1>9. \A g \in Path :
        /\ DOMAIN runs'[g] = DOMAIN runs[g]
        /\ \A j \in DOMAIN runs[g] :
             runs'[g][j].key = runs[g][j].key /\ runs'[g][j].at = runs[g][j].at
  BY <1>2, <1>4, <1>5, <1>8
<1>10. StoreInv'
  BY <1>8, <1>9, RunsMarked DEF Take, SpecsInv
<1>11. WorkInv' /\ EnvOK'
  BY DEF Take, SpecsInv, WorkInv, WorkTypeOK, WorkOK, EnvOK
<1>12. Undisturbed'
  <2> SUFFICES ASSUME OneService, NEW p \in Service
               PROVE  Pending(work[p], row, runs')
    BY DEF Take, Undisturbed, OneService, Pending
  <2>1. work[p] \in Seq(WorkItem) /\ Pending(work[p], row, runs)
    BY DEF SpecsInv, WorkInv, WorkTypeOK, Undisturbed
  <2>2. \A j \in DOMAIN work[p] : work[p][j].do = "next" => work[p][j].path \in Path
    <3> TAKE j \in DOMAIN work[p]
    <3>1. work[p][j] \in WorkItem
      BY <2>1, LenProperties, ElementOfSeq
    <3> QED
      BY <3>1, ItemFields DEF Scheduled
  <2> QED
    BY <1>9, <2>1, <2>2 DEF Pending
<1> QED
  BY <1>10, <1>11, <1>12 DEF SpecsInv

\* Time passes while no slot waits to be written, or Prompt asks for nothing.
LEMMA PassKeeps == ASSUME SpecsInv, Pass PROVE SpecsInv'
<1>1. /\ row' = row /\ runs' = runs /\ work' = work
      /\ now \in 0..MaxTime /\ now < MaxTime /\ now' = now + 1
  BY DEF Pass, SpecsInv, StoreInv, StoreTypeOK
<1>2. now \in Nat /\ now' \in 0..MaxTime
  BY <1>1, CronSpecsAssumption
<1>3. StoreTypeOK' /\ SlotsAhead'
  BY <1>1, <1>2 DEF SpecsInv, StoreInv, StoreTypeOK, SlotsAhead
<1>4. RunsPast'
  <2> SUFFICES ASSUME NEW f \in Path, NEW i \in DOMAIN runs[f]
               PROVE  runs[f][i].at <= now + 1
    BY <1>1 DEF RunsPast
  <2>1. runs[f] \in Seq(RunRow)
    BY DEF SpecsInv, StoreInv, StoreTypeOK
  <2>2. runs[f][i] \in RunRow
    BY <2>1, LenProperties, ElementOfSeq
  <2>3. runs[f][i].at \in 0..MaxTime /\ runs[f][i].at <= now
    BY <2>2 DEF RunRow, SpecsInv, StoreInv, RunsPast
  <2> QED
    BY <1>2, <2>3, CronSpecsAssumption
<1>5. (Steady => CatchUpOnce') /\ OneRunPerRevision'
  BY <1>1 DEF SpecsInv, StoreInv, CatchUpOnce, OneRunPerRevision
<1>6. WorkInv'
  <2> SUFFICES ASSUME NEW p \in Service PROVE SlotFirst(work[p], now + 1)
    BY <1>1 DEF SpecsInv, WorkInv, WorkTypeOK, WorkOK
  <2> SUFFICES ASSUME NEW i \in DOMAIN work[p], work[p][i].do = "next"
               PROVE  i = 1 /\ ~Prompt
    BY DEF SlotFirst
  <2>1. work[p] \in Seq(WorkItem) /\ SlotFirst(work[p], now)
    BY DEF SpecsInv, WorkInv, WorkTypeOK, WorkOK
  <2>2. i = 1
    BY <2>1 DEF SlotFirst
  <2>3. work[p] # <<>> /\ Item(p) = work[p][1]
    BY <2>1, <2>2, EmptySeq, LenProperties, HeadTailProperties DEF Item
  <2>4. Doing(p, "next")
    BY <2>2, <2>3 DEF Doing
  <2> QED
    BY <2>2, <2>4 DEF Pass
<1>7. EnvOK'
  BY DEF Pass, SpecsInv, EnvOK
<1>8. Undisturbed'
  BY <1>1 DEF SpecsInv, Undisturbed, OneService, Pending
<1> QED
  BY <1>3, <1>4, <1>5, <1>6, <1>7, <1>8 DEF SpecsInv, StoreInv, Steady, OneService

-----------------------------------------------------------------------------
(* The theorems.                                                            *)

\* The empty tables.
LEMMA Initially == ASSUME Init PROVE SpecsInv
<1>1. NoRow \in Row /\ NoRow.next = NoTime
  BY DEF NoRow, Row, NoTime
<1>2. StoreTypeOK
  BY <1>1, ShortSequences, CronSpecsAssumption DEF Init, StoreTypeOK
<1>3. RunsPast /\ CatchUpOnce /\ OneRunPerRevision /\ SlotsAhead
  BY <1>1 DEF Init, RunsPast, CatchUpOnce, OneRunPerRevision, SlotsAhead, Scheduled, Files
<1>4. WorkInv
  BY ShortSequences DEF Init, WorkInv, WorkTypeOK, WorkOK, SlotFirst
<1>5. EnvOK
  BY DEF Init, EnvOK
<1>6. Undisturbed
  BY DEF Init, Undisturbed, Pending
<1> QED
  BY <1>2, <1>3, <1>4, <1>5, <1>6 DEF SpecsInv, StoreInv

\* Nothing happens.
LEMMA StutterKeeps == ASSUME SpecsInv, UNCHANGED vars PROVE SpecsInv'
<1>1. StoreInv'
  BY StoreKept DEF SpecsInv, vars
<1>2. WorkInv' /\ EnvOK'
  BY DEF SpecsInv, vars, WorkInv, WorkTypeOK, WorkOK, EnvOK
<1>3. Undisturbed'
  BY DEF SpecsInv, vars, Undisturbed, OneService, Pending
<1> QED
  BY <1>1, <1>2, <1>3 DEF SpecsInv

\* Every step keeps the invariant.
LEMMA Inductive == ASSUME SpecsInv, [Next]_vars PROVE SpecsInv'
BY StutterKeeps, StatementKeeps, ServiceKeeps, WatchKeeps, HubKeeps, EditKeeps,
   TakeKeeps, PassKeeps DEF Next

\* The invariant: the types, each slot written before anything else, each schedule's
\* next slot after the runs it has.
THEOREM Invariance == SafeSpec => []SpecsInv
<1>1. Init => SpecsInv
  BY Initially
<1>2. SpecsInv /\ [Next]_vars => SpecsInv'
  BY Inductive
<1> QED
  BY <1>1, <1>2, PTL DEF SafeSpec

\* The columns, the states of the services and every item of their work keep their
\* types (the rows of cron-schema.ts and the arguments of the statements).
THEOREM TypeCorrect == SafeSpec => []TypeOK
<1>1. SpecsInv => TypeOK
  BY DEF SpecsInv, StoreInv, StoreTypeOK, WorkInv, WorkTypeOK, EnvOK, TypeOK
<1> QED
  BY <1>1, Invariance, PTL

\* A one-off never gets two runs for a revision, however many services tick and
\* whatever stops (materializeOneOff and cron_runs_one_off_active_idx).
THEOREM OneOffsRunOnce == SafeSpec => []OneRunPerRevision
<1>1. SpecsInv => OneRunPerRevision
  BY DEF SpecsInv, StoreInv
<1> QED
  BY <1>1, Invariance, PTL

\* If no slot passes between its computation and its UPDATE, or one service only writes
\* slots, an overdue schedule is caught up by one run and no slot that passed until then
\* gets another (materializeDueScheduleRun).
THEOREM CaughtUpOnce == ASSUME Prompt \/ OneService PROVE SafeSpec => []CatchUpOnce
<1>1. SpecsInv => CatchUpOnce
  BY DEF SpecsInv, StoreInv, Steady
<1> QED
  BY <1>1, Invariance, PTL

\* Under the same assumption no key of a path, revision or slot, is queued twice.
THEOREM KeysRunOnce == ASSUME Prompt \/ OneService PROVE SafeSpec => []OneRunPerKey
<1>1. SpecsInv => OneRunPerKey
  <2> SUFFICES ASSUME SpecsInv, NEW f \in Path,
                      NEW i \in DOMAIN runs[f], NEW j \in DOMAIN runs[f], i # j
               PROVE  runs[f][i].key # runs[f][j].key
    BY DEF OneRunPerKey
  <2>1. runs[f] \in Seq(RunRow)
    BY DEF SpecsInv, StoreInv, StoreTypeOK
  <2>2. /\ i \in Nat /\ j \in Nat
        /\ runs[f][i] \in RunRow /\ runs[f][j] \in RunRow
    BY <2>1, LenProperties, ElementOfSeq
  <2>3. CASE f \in Scheduled
    <3>1. /\ runs[f][i].key <= runs[f][i].at
          /\ runs[f][j].key <= runs[f][j].at
          /\ i < j => runs[f][i].at < runs[f][j].key
          /\ j < i => runs[f][j].at < runs[f][i].key
      BY <2>3 DEF SpecsInv, StoreInv, CatchUpOnce, Steady
    <3>2. /\ runs[f][i].key \in Nat /\ runs[f][i].at \in Int
          /\ runs[f][j].key \in Nat /\ runs[f][j].at \in Int
      BY <2>2 DEF RunRow
    <3>3. i < j \/ j < i
      BY <2>2
    <3> QED
      BY <3>1, <3>2, <3>3
  <2>4. CASE f \notin Scheduled
    <3>1. f \in Files \ Scheduled
      BY <2>4 DEF Scheduled, Files
    <3> QED
      BY <3>1 DEF SpecsInv, StoreInv, OneRunPerRevision
  <2> QED
    BY <2>3, <2>4
<1> QED
  BY <1>1, Invariance, PTL

-----------------------------------------------------------------------------
(* What is due is not dropped.                                              *)

\* The statements that leave every next_run_at as it is.
LEMMA NextKept ==
  ASSUME SpecsInv, NEW p \in Service, Statement(p), ~SetNext(p), ~Fire(p), NEW f \in Path
  PROVE  row'[f].next = row[f].next
<1> USE DEF Throws
<1>1. row \in [Path -> Row]
  BY DEF SpecsInv, StoreInv, StoreTypeOK
<1>2. CASE WriteRow(p)
  <2>1. CASE row' = row
    BY <2>1
  <2>2. CASE row' = [row EXCEPT ![Item(p).path] = Upserted(Item(p).path, Item(p).old, Item(p).says)]
    <3>1. Item(p).path \in Path
      BY <1>2, DoingOK, ItemFields DEF WriteRow
    <3>2. Upserted(Item(p).path, Item(p).old, Item(p).says).next = row[Item(p).path].next
      BY <1>1, <3>1 DEF Upserted, Row
    <3> QED
      BY <1>1, <2>2, <3>1, <3>2
  <2> QED
    BY <1>2, <2>1, <2>2 DEF WriteRow
<1>3. CASE MarkRemoved(p)
  <2>1. Item(p).path \in Path
    BY <1>3, DoingOK, ItemFields DEF MarkRemoved
  <2> QED
    BY <1>1, <1>3, <2>1 DEF MarkRemoved, Row
<1>4. CASE ~WriteRow(p) /\ ~MarkRemoved(p)
  <2>1. row' = row
    BY <1>4 DEF Statement, Walk, ReadFile, SelectRow, ReloadFile, ReloadHub, Sweep,
                CancelQueued, Refresh, Compute, List, CheckOnce, InsertOnce
  <2> QED
    BY <2>1
<1> QED
  BY <1>2, <1>3, <1>4

\* Where one service writes slots, a slot that is due is replaced only together with the
\* INSERT of its run, or because an edit asked for the next one: neither a restart nor a
\* scan nor a tick loses it (refreshScheduleNextRunAt, applyScheduleNextRunAt,
\* materializeDueScheduleRun).
THEOREM OverdueNotLost == ASSUME OneService PROVE SafeSpec => OverdueKept
<1> DEFINE Kept(f) ==
      Live(f) /\ row[f].next \in 1..now /\ row'[f].next # row[f].next =>
        \/ runs'[f] # runs[f] /\ Last(runs'[f]).key = row[f].next
        \/ \E p \in Service : Doing(p, "next") /\ Item(p).path = f /\ Item(p).edited
<1>1. ASSUME SpecsInv, [Next]_vars, NEW f \in Scheduled
      PROVE  Kept(f)
  <2> SUFFICES ASSUME row[f].next \in 1..now, row'[f].next # row[f].next
               PROVE  \/ runs'[f] # runs[f] /\ Last(runs'[f]).key = row[f].next
                      \/ \E p \in Service :
                           Doing(p, "next") /\ Item(p).path = f /\ Item(p).edited
    OBVIOUS
  <2>1. /\ row \in [Path -> Row] /\ runs \in [Path -> Seq(RunRow)]
        /\ f \in Path /\ row[f].next # NoTime
    BY <1>1, CronSpecsAssumption DEF SpecsInv, StoreInv, StoreTypeOK, Scheduled, NoTime
  <2>2. PICK p \in Service : Statement(p)
    BY <1>1 DEF Next, vars, Start, Serve, Tick, Crash, Watch, HubDelete, HubWrite, Edit, Take, Pass
  <2>3. CASE SetNext(p)
    <3>1. /\ work[p] # <<>> /\ Item(p).do = "next" /\ Item(p).path \in Path
          /\ Doing(p, "next")
      BY <1>1, <2>3, DoingOK, ItemFields DEF SetNext, Scheduled
    <3>2. Item(p).path = f
      BY <2>1, <2>3, <3>1 DEF SetNext
    <3>3. work[p] \in Seq(WorkItem) /\ Pending(work[p], row, runs)
      BY <1>1 DEF SpecsInv, WorkInv, WorkTypeOK, Undisturbed
    <3>4. 1 \in DOMAIN work[p] /\ Item(p) = work[p][1]
      BY <3>1, <3>3, EmptySeq, LenProperties, HeadTailProperties DEF Item
    <3>5. Item(p).edited
      BY <2>1, <3>1, <3>2, <3>3, <3>4 DEF Pending
    <3> QED
      BY <3>1, <3>2, <3>5
  <2>4. CASE Fire(p)
    <3>1. Item(p).path \in Path
      BY <1>1, <2>4, DoingOK, ItemFields DEF Fire, Scheduled
    <3>2. Item(p).path = f /\ runs' = Inserted(f, row[f].next)
      BY <2>1, <2>4, <3>1 DEF Fire
    <3> DEFINE new == [key |-> row[f].next, at |-> now, status |-> "queued"]
    <3>3. new \in RunRow /\ runs[f] \in Seq(RunRow)
      BY <1>1, <2>1 DEF RunRow, Row, SpecsInv, StoreInv, StoreTypeOK
    <3>4. runs'[f] = Append(runs[f], new)
      BY <2>1, <3>2 DEF Inserted
    <3> DEFINE after == Append(runs[f], new)
    <3>5. Len(after) = Len(runs[f]) + 1 /\ after[Len(runs[f]) + 1] = new /\ Len(runs[f]) \in Nat
      BY <3>3, AppendProperties, LenProperties
    <3>6. after # runs[f]
      BY <3>5
    <3>7. Last(after) = new
      BY <3>5 DEF Last
    <3> QED
      BY <3>4, <3>6, <3>7
  <2>5. CASE ~SetNext(p) /\ ~Fire(p)
    BY <1>1, <2>1, <2>2, <2>5, NextKept
  <2> QED
    BY <2>3, <2>4, <2>5
<1>2. SpecsInv /\ [Next]_vars => [\A f \in Scheduled : Kept(f)]_vars
  BY <1>1
<1> QED
  BY <1>2, Invariance, PTL DEF SafeSpec, OverdueKept

=============================================================================
