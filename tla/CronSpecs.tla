------------------------------ MODULE CronSpecs ------------------------------
(***************************************************************************)
(* How specs reach cron_specs and how their runs reach cron_runs           *)
(* (packages/core/src/cron/specs, runner/cron-materializer.ts and the hub  *)
(* schedules of store/sqlite-cron-store.ts).                               *)
(*                                                                         *)
(* A cron service mirrors a directory of spec files into cron_specs: all   *)
(* of it when it starts or a file disappears, one file on a watcher event. *)
(* Every tick it inserts the runs that are due.  Programmatic schedules    *)
(* are rows of the same table.  A service is one event loop; its work is a *)
(* queue of items, each a read of a file or one SQL statement or           *)
(* transaction, and the items of several services interleave anywhere.     *)
(***************************************************************************)
EXTENDS Integers, Sequences, FiniteSets, SequencesExt

CONSTANTS
  Path,         \* source_path of a spec
  KindOf,       \* "one_off" and "schedule" are files, "hub" is a programmatic schedule
  Service,      \* processes that run the cron service on one cron.db
  Content,      \* what a file or a hub request may say: [body, state]
  Missing,      \* no file, no hash
  NextSlot(_),  \* getNextCronTime: the first slot after an instant
  Prompt,       \* no slot passes between computing a next_run_at and writing it
  MaxTime,      \* bound: clock
  MaxEdits,     \* bound: edits of files and hub requests
  MaxCrashes    \* bound: crashes and stops

ASSUME CronSpecsAssumption ==
  /\ KindOf \in [Path -> {"one_off", "schedule", "hub"}]
  /\ \A c \in Content : c.state \in {"on", "off", "bad"}
  /\ Missing \notin Content
  /\ IsFiniteSet(Path)
  /\ Prompt \in BOOLEAN
  /\ MaxTime \in Nat /\ MaxEdits \in Nat /\ MaxCrashes \in Nat
  /\ \A t \in 0..MaxTime : NextSlot(t) \in Nat /\ NextSlot(t) > t

VARIABLES
  file,      \* the spec directory
  row,       \* cron_specs, revision 0 before the INSERT
  runs,      \* cron_runs of a spec in the order of their INSERT
  now,       \* the clock
  mode,      \* the state of a service
  work,      \* what the event loop of a service has yet to do
  events,    \* paths whose watcher debounce timer is armed
  missed,    \* paths last edited after a service scanned and before it watched
  edits, crashes

vars == <<file, row, runs, now, mode, work, events, missed, edits, crashes>>

Files == {f \in Path : KindOf[f] # "hub"}
Scheduled == {f \in Path : KindOf[f] # "one_off"}
NoTime == 0
NoRow == [hash |-> Missing, removed |-> FALSE, enabled |-> FALSE, revision |-> 0,
          next |-> NoTime]

Known(f) == row[f].revision > 0
Valid(f) == Known(f) /\ row[f].hash.state # "bad"
Live(f) == row[f].enabled /\ ~row[f].removed /\ Valid(f)

Row == [hash : Content \cup {Missing}, removed : BOOLEAN, enabled : BOOLEAN,
        revision : Nat, next : Nat]
RunRow == [key : Nat, at : 0..MaxTime, status : {"queued", "taken", "cancelled"}]

\* What a service may have to do, with what it read on the way there.
WorkItem ==
  [do : {"walk", "refresh", "list"}] \cup
  [do : {"read"}, path : Files] \cup
  [do : {"sweep"}, seen : SUBSET Files] \cup
  [do : {"select"}, path : Path, says : Content, before : Row] \cup
  [do : {"write"}, path : Path, says : Content, before : Row, old : Row] \cup
  [do : {"reload"}, path : Scheduled, force : BOOLEAN] \cup
  [do : {"remove", "delete", "cancel"}, path : Path] \cup
  [do : {"compute", "fire"}, path : Scheduled] \cup
  [do : {"next"}, path : Scheduled, slot : Nat, edited : BOOLEAN] \cup
  [do : {"once", "insert"}, path : Files \ Scheduled, revision : Nat]

\* The types of the columns, of the services' fields and of their work.
TypeOK ==
  /\ file \in [Files -> Content \cup {Missing}]
  /\ row \in [Path -> Row]
  /\ runs \in [Path -> Seq(RunRow)]
  /\ now \in 0..MaxTime
  /\ mode \in [Service -> {"down", "starting", "serving", "failed"}]
  /\ work \in [Service -> Seq(WorkItem)]
  /\ events \in [Service -> SUBSET Files]
  /\ missed \in SUBSET Files
  /\ edits \in Nat /\ crashes \in Nat

Init ==
  /\ file = [f \in Files |-> Missing]
  /\ row = [f \in Path |-> NoRow]
  /\ runs = [f \in Path |-> <<>>]
  /\ now = 0
  /\ mode = [p \in Service |-> "down"]
  /\ work = [p \in Service |-> <<>>]
  /\ events = [p \in Service |-> {}]
  /\ missed = {}
  /\ edits = 0 /\ crashes = 0

-----------------------------------------------------------------------------
(* Rules the statements apply.                                              *)

\* The columns of MEANINGFUL_FIELD_KEYS; an invalid file has none of them.
Fields(c) == IF c = Missing \/ c.state = "bad" THEN <<>> ELSE <<c.body>>

\* hasMeaningfulChange behind the comparison of the hashes.
Changed(old, c) ==
  /\ old.hash # c
  /\ \/ Fields(old.hash) # Fields(c)
     \/ ~old.enabled /\ c.state = "on"

\* upsertSpec: what an INSERT, or an UPDATE after reading old, leaves in the row.
Upserted(f, old, c) ==
  [row[f] EXCEPT !.hash = c, !.removed = FALSE, !.enabled = (c.state = "on"),
                 !.revision = IF old.revision = 0 THEN 1
                              ELSE IF Changed(old, c) THEN old.revision + 1
                              ELSE old.revision]

\* A new row of cron_runs; key is the revision of a one-off, the slot of a schedule.
Inserted(f, key) ==
  [runs EXCEPT ![f] = Append(@, [key |-> key, at |-> now, status |-> "queued"])]

HasRun(f, key) == \E i \in DOMAIN runs[f] : runs[f][i].key = key

-----------------------------------------------------------------------------
(* The work of a service.                                                   *)

Item(p) == Head(work[p])
Doing(p, what) == work[p] # <<>> /\ Item(p).do = what

\* The item at the head is replaced by the items it expands to.
Becomes(p, items) == work' = [work EXCEPT ![p] = items \o Tail(@)]
Done(p) == Becomes(p, <<>>)

ForEach(what, paths) ==
  LET order == SetToSeq(paths) IN [i \in DOMAIN order |-> [do |-> what, path |-> order[i]]]

\* A statement threw: the rest of the work is lost, and start() rejects.
Throws(p) ==
  /\ work' = [work EXCEPT ![p] = <<>>]
  /\ mode' = [mode EXCEPT ![p] = IF @ = "starting" THEN "failed" ELSE @]
  /\ UNCHANGED <<file, row, runs, now, events, missed, edits, crashes>>

Unthrown == UNCHANGED <<file, now, mode, events, missed, edits, crashes>>

Scan == [do |-> "walk"]
Materialize == [do |-> "list"]

\* reconcileAll: the directory is read once, then each file, then what is gone.
Walk(p) ==
  LET seen == {f \in Files : file[f] # Missing} IN
  /\ Doing(p, "walk")
  /\ Becomes(p, ForEach("read", seen) \o <<[do |-> "sweep", seen |-> seen]>>)
  /\ UNCHANGED <<row, runs>> /\ Unthrown

\* reconcileFile: a file that cannot be read any more is skipped.
ReadFile(p) ==
  /\ Doing(p, "read")
  /\ LET f == Item(p).path IN
       IF file[f] = Missing THEN Done(p)
       ELSE Becomes(p, <<[do |-> "select", path |-> f, says |-> file[f], before |-> row[f]]>>)
  /\ UNCHANGED <<row, runs>> /\ Unthrown

\* upsertSpec reads the row the UPDATE will compute the revision from.
SelectRow(p) ==
  /\ Doing(p, "select")
  /\ Becomes(p, <<[do |-> "write", path |-> Item(p).path, says |-> Item(p).says,
                   before |-> Item(p).before, old |-> row[Item(p).path]]>>)
  /\ UNCHANGED <<row, runs>> /\ Unthrown

\* applyScheduleNextRunAt is forced for a spec that was not running this schedule;
\* the body of a content may or may not include another expression.
Forced(before, c, newExpr) ==
  \/ before.revision = 0 \/ before.removed \/ ~before.enabled
  \/ newExpr /\ Fields(before.hash) # Fields(c)

\* A hub schedule is initialized when created and when the request names the
\* pattern or enabled, whether or not that changes them.
HubForced(before, c, named) ==
  before.revision = 0 \/ before.enabled # (c.state = "on") \/ named

\* INSERT or UPDATE of cron_specs; source_path is UNIQUE.
WriteRow(p) ==
  /\ Doing(p, "write")
  /\ LET f == Item(p).path
         c == Item(p).says
         old == Item(p).old IN
       \/ old.revision = 0 /\ Known(f) /\ Throws(p)
       \/ /\ old.revision > 0 \/ ~Known(f)
          /\ row' = [row EXCEPT ![f] = Upserted(f, old, c)]
          /\ \E newExpr \in BOOLEAN :
               Becomes(p, IF f \in Scheduled
                          THEN <<[do |-> "reload", path |-> f,
                                  force |-> IF f \in Files
                                            THEN Forced(Item(p).before, c, newExpr)
                                            ELSE HubForced(Item(p).before, c, newExpr)]>>
                          ELSE <<>>)
          /\ UNCHANGED runs /\ Unthrown

SlotItem(f, slot, forced) == [do |-> "next", path |-> f, slot |-> slot, edited |-> forced]

\* The record upsertSpec returns decides whether applyScheduleNextRunAt writes a slot.
ReloadFile(p) ==
  /\ Doing(p, "reload") /\ Item(p).path \in Files
  /\ LET f == Item(p).path
         slot == NextSlot(now) IN
       IF Live(f) /\ (Item(p).force \/ row[f].next = NoTime) /\ row[f].next # slot
       THEN Becomes(p, <<SlotItem(f, slot, Item(p).force)>>)
       ELSE Done(p)
  /\ UNCHANGED <<row, runs>> /\ Unthrown

\* initializeScheduleNextRun, after an update of the pattern or of enabled.
ReloadHub(p) ==
  /\ Doing(p, "reload") /\ Item(p).path \notin Files
  /\ LET f == Item(p).path
         slot == IF row[f].enabled THEN NextSlot(now) ELSE NoTime IN
       IF Item(p).force THEN Becomes(p, <<SlotItem(f, slot, TRUE)>>) ELSE Done(p)
  /\ UNCHANGED <<row, runs>> /\ Unthrown

\* updateSpecNextRunAt writes what was computed, whatever the row says by now.
SetNext(p) ==
  /\ Doing(p, "next")
  /\ row' = [row EXCEPT ![Item(p).path].next = Item(p).slot]
  /\ Done(p)
  /\ UNCHANGED runs /\ Unthrown

\* Every spec whose source was not seen is removed, then missing next_run_at are set.
Sweep(p) ==
  LET gone == {f \in Path : Known(f) /\ ~row[f].removed /\ f \notin Item(p).seen} IN
  /\ Doing(p, "sweep")
  /\ Becomes(p, ForEach("remove", gone) \o <<[do |-> "refresh"]>>)
  /\ UNCHANGED <<row, runs>> /\ Unthrown

\* handleFileDeleted and deleteHubSchedule: markSpecRemoved, then the queued runs.
MarkRemoved(p) ==
  /\ Doing(p, "remove") \/ Doing(p, "delete")
  /\ row' = [row EXCEPT ![Item(p).path].removed = TRUE, ![Item(p).path].enabled = FALSE]
  /\ Becomes(p, <<[do |-> "cancel", path |-> Item(p).path]>>)
  /\ UNCHANGED runs /\ Unthrown

\* Variant: a status of its own for the runs of a removed spec.
CancelAsRemoved(p) ==
  /\ Doing(p, "cancel")
  /\ runs' = [runs EXCEPT ![Item(p).path] =
                [i \in DOMAIN @ |-> [@[i] EXCEPT !.status = "removed"]]]
  /\ Done(p)
  /\ UNCHANGED row /\ Unthrown

Cancelled(f) ==
  [i \in DOMAIN runs[f] |-> IF runs[f][i].status = "queued"
                            THEN [runs[f][i] EXCEPT !.status = "cancelled"]
                            ELSE runs[f][i]]

\* cancelQueuedRunsForSpec
CancelQueued(p) ==
  /\ Doing(p, "cancel")
  /\ runs' = [runs EXCEPT ![Item(p).path] = Cancelled(Item(p).path)]
  /\ Done(p)
  /\ UNCHANGED row /\ Unthrown

\* Variant: every schedule gets its next slot, the overdue ones too.
RefreshAll(p) ==
  /\ Doing(p, "refresh")
  /\ Becomes(p, ForEach("compute", {f \in Scheduled : Live(f)}))
  /\ UNCHANGED <<row, runs>> /\ Unthrown

\* refreshScheduleNextRunAt: only the live schedules without a next_run_at get one.
Refresh(p) ==
  /\ Doing(p, "refresh")
  /\ Becomes(p, ForEach("compute", {f \in Scheduled : Live(f) /\ row[f].next = NoTime}))
  /\ UNCHANGED <<row, runs>> /\ Unthrown

Compute(p) ==
  /\ Doing(p, "compute")
  /\ Becomes(p, <<SlotItem(Item(p).path, NextSlot(now), FALSE)>>)
  /\ UNCHANGED <<row, runs>> /\ Unthrown

\* materializeAll lists the live one-offs with their revisions, then the schedules.
List(p) ==
  LET once == SetToSeq({f \in Files \ Scheduled : Live(f)}) IN
  /\ Doing(p, "list")
  /\ Becomes(p, [i \in DOMAIN once |-> [do |-> "once", path |-> once[i],
                                        revision |-> row[once[i]].revision]]
                \o ForEach("fire", {f \in Scheduled : Live(f)}))
  /\ UNCHANGED <<row, runs>> /\ Unthrown

\* hasOneOffRunForRevision
CheckOnce(p) ==
  /\ Doing(p, "once")
  /\ IF HasRun(Item(p).path, Item(p).revision) THEN Done(p)
     ELSE Becomes(p, <<[Item(p) EXCEPT !.do = "insert"]>>)
  /\ UNCHANGED <<row, runs>> /\ Unthrown

\* Variant: no unique index on spec and revision.
InsertUnindexed(p) ==
  /\ Doing(p, "insert")
  /\ runs' = Inserted(Item(p).path, Item(p).revision)
  /\ Done(p)
  /\ UNCHANGED row /\ Unthrown

\* enqueueRun under cron_runs_one_off_active_idx
InsertOnce(p) ==
  /\ Doing(p, "insert")
  /\ LET f == Item(p).path
         rev == Item(p).revision IN
       \/ HasRun(f, rev) /\ Throws(p)
       \/ /\ ~HasRun(f, rev)
          /\ runs' = Inserted(f, rev)
          /\ Done(p)
          /\ UNCHANGED row /\ Unthrown

\* Variant: next_run_at advances slot by slot.
FireEverySlot(p) ==
  /\ Doing(p, "fire")
  /\ LET f == Item(p).path IN
       IF Live(f) /\ row[f].next # NoTime /\ row[f].next <= now
       THEN /\ runs' = Inserted(f, row[f].next)
            /\ row' = [row EXCEPT ![f].next = NextSlot(@)]
       ELSE UNCHANGED <<row, runs>>
  /\ Done(p)
  /\ Unthrown

\* materializeDueScheduleRun, one transaction: one catch-up run, then the next slot.
Fire(p) ==
  /\ Doing(p, "fire")
  /\ LET f == Item(p).path
         due == row[f].next IN
       \/ /\ Live(f) /\ due = NoTime
          /\ row' = [row EXCEPT ![f].next = NextSlot(now)]
          /\ UNCHANGED runs
       \/ /\ Live(f) /\ due # NoTime /\ due <= now
          /\ runs' = Inserted(f, due)
          /\ row' = [row EXCEPT ![f].next = NextSlot(now)]
       \/ /\ ~Live(f) \/ due > now
          /\ UNCHANGED <<row, runs>>
  /\ Done(p)
  /\ Unthrown

-----------------------------------------------------------------------------
(* What sets a service to work.                                             *)

Idle(p) == work[p] = <<>>

Sets(p, items) ==
  /\ Idle(p)
  /\ work' = [work EXCEPT ![p] = items]

\* start(): reconcileAll, then materializeAll, and only then the watcher.
Start(p) ==
  /\ mode[p] = "down"
  /\ mode' = [mode EXCEPT ![p] = "starting"]
  /\ Sets(p, <<Scan, Materialize>>)
  /\ missed' = {}
  /\ UNCHANGED <<file, row, runs, now, events, edits, crashes>>

Serve(p) ==
  /\ mode[p] = "starting" /\ Idle(p)
  /\ mode' = [mode EXCEPT ![p] = "serving"]
  /\ UNCHANGED <<file, row, runs, now, work, events, missed, edits, crashes>>

\* The runner's tick; what it claims is modelled in CronQueue.
Tick(p) ==
  /\ mode[p] = "serving"
  /\ Sets(p, <<Materialize>>)
  /\ UNCHANGED <<file, row, runs, now, mode, events, missed, edits, crashes>>

\* Variant: a deleted file is reconciled alone.
WatchAlone(p, f) ==
  /\ mode[p] = "serving" /\ f \in events[p]
  /\ events' = [events EXCEPT ![p] = @ \ {f}]
  /\ Sets(p, <<[do |-> "read", path |-> f], Materialize>>)
  /\ UNCHANGED <<file, row, runs, now, mode, missed, edits, crashes>>

\* The debounce timer fires: reconcileNow.
Watch(p, f) ==
  /\ mode[p] = "serving" /\ f \in events[p]
  /\ events' = [events EXCEPT ![p] = @ \ {f}]
  /\ Sets(p, <<IF file[f] = Missing THEN Scan ELSE [do |-> "read", path |-> f],
               Materialize>>)
  /\ UNCHANGED <<file, row, runs, now, mode, missed, edits, crashes>>

\* No service is at work on f.
Untouched(f) ==
  \A p \in Service : \A i \in DOMAIN work[p] :
    work[p][i].do \in {"select", "write"} => work[p][i].path # f

\* createHubSchedule under a fresh path, updateHubSchedule (an edit, a pause, a resume).
HubWrite(p, f, c) ==
  /\ mode[p] = "serving" /\ KindOf[f] = "hub" /\ c.state # "bad"
  /\ edits < MaxEdits /\ edits' = edits + 1
  /\ IF Known(f) THEN ~row[f].removed ELSE Untouched(f)
  /\ Sets(p, <<[do |-> "select", path |-> f, says |-> c, before |-> row[f]]>>)
  /\ UNCHANGED <<file, row, runs, now, mode, events, missed, crashes>>

HubDelete(p, f) ==
  /\ mode[p] = "serving" /\ KindOf[f] = "hub"
  /\ edits < MaxEdits /\ edits' = edits + 1
  /\ Known(f) /\ ~row[f].removed
  /\ Sets(p, <<[do |-> "delete", path |-> f]>>)
  /\ UNCHANGED <<file, row, runs, now, mode, events, missed, crashes>>

-----------------------------------------------------------------------------
(* The world around the services.                                           *)

\* A user edits, creates or deletes a file; fs.watch tells the watching services.
Edit(f, c) ==
  /\ edits < MaxEdits /\ edits' = edits + 1
  /\ file[f] # c
  /\ file' = [file EXCEPT ![f] = c]
  /\ events' = [p \in Service |-> IF mode[p] = "serving" THEN events[p] \cup {f}
                                  ELSE events[p]]
  /\ missed' = IF \E p \in Service : mode[p] = "starting" /\ ~Contains(work[p], Scan)
               THEN missed \cup {f} ELSE missed \ {f}
  /\ UNCHANGED <<row, runs, now, mode, work, crashes>>

\* A runner claims a queued run.
Take(f, i) ==
  /\ runs[f][i].status = "queued"
  /\ runs' = [runs EXCEPT ![f][i].status = "taken"]
  /\ UNCHANGED <<file, row, now, mode, work, events, missed, edits, crashes>>

Pass ==
  /\ now < MaxTime
  /\ Prompt => \A p \in Service : ~Doing(p, "next")
  /\ now' = now + 1
  /\ UNCHANGED <<file, row, runs, mode, work, events, missed, edits, crashes>>

\* A service stops or its process dies; a failed service never starts again.
Crash(p) ==
  /\ mode[p] # "down"
  /\ crashes < MaxCrashes /\ crashes' = crashes + 1
  /\ mode' = [mode EXCEPT ![p] = "down"]
  /\ work' = [work EXCEPT ![p] = <<>>]
  /\ events' = [events EXCEPT ![p] = {}]
  /\ UNCHANGED <<file, row, runs, now, missed, edits>>

Statement(p) ==
  \/ Walk(p) \/ ReadFile(p) \/ SelectRow(p) \/ WriteRow(p)
  \/ ReloadFile(p) \/ ReloadHub(p) \/ SetNext(p)
  \/ Sweep(p) \/ MarkRemoved(p) \/ CancelQueued(p) \/ Refresh(p) \/ Compute(p)
  \/ List(p) \/ CheckOnce(p) \/ InsertOnce(p) \/ Fire(p)

Next ==
  \/ \E p \in Service : Statement(p) \/ Start(p) \/ Serve(p) \/ Tick(p) \/ Crash(p)
  \/ \E p \in Service, f \in Files : Watch(p, f)
  \/ \E p \in Service, f \in Path :
       HubDelete(p, f) \/ \E c \in Content : HubWrite(p, f, c)
  \/ \E f \in Files, c \in Content \cup {Missing} : Edit(f, c)
  \/ \E f \in Path : \E i \in DOMAIN runs[f] : Take(f, i)
  \/ Pass

SafeSpec == Init /\ [][Next]_vars

\* Services are started again, their event loops run and their debounce timers fire.
Fairness ==
  \A p \in Service :
    /\ WF_vars(Statement(p)) /\ WF_vars(Start(p)) /\ WF_vars(Serve(p))
    /\ \A f \in Files : SF_vars(Watch(p, f))

FairSpec == SafeSpec /\ Fairness

-----------------------------------------------------------------------------
(* Properties.                                                              *)

\* However the services' ticks interleave, a revision of a one-off gets at most one
\* run, and a slot of a schedule is never queued twice (materializeOneOff and the
\* unique index, materializeDueScheduleRun).
OneRunPerKey ==
  \A f \in Path : \A i, j \in DOMAIN runs[f] :
    i # j => runs[f][i].key # runs[f][j].key

\* The part of it about one-offs, which holds without Prompt.
OneRunPerRevision ==
  \A f \in Files \ Scheduled : \A i, j \in DOMAIN runs[f] :
    i # j => runs[f][i].key # runs[f][j].key

\* An overdue schedule is caught up once: a run is queued for a slot that has come, and
\* the slots that passed until then never get a run of their own
\* (materializeDueScheduleRun computes the next slot from the clock).
CatchUpOnce ==
  \A f \in Scheduled : \A i, j \in DOMAIN runs[f] :
    /\ runs[f][i].key <= runs[f][i].at
    /\ i < j => runs[f][i].at < runs[f][j].key

\* A slot that is due is not lost by a restart or a scan: next_run_at moves on only
\* with the run of that slot, or because the spec was edited, resumed or restored
\* (refreshScheduleNextRunAt, applyScheduleNextRunAt).
OverdueKept ==
  [][\A f \in Scheduled :
       Live(f) /\ row[f].next \in 1..now /\ row'[f].next # row[f].next =>
         \/ runs'[f] # runs[f] /\ Last(runs'[f]).key = row[f].next
         \/ \E p \in Service :
              Doing(p, "next") /\ Item(p).path = f /\ Item(p).edited]_vars

\* The row of a file says what the file says.
Mirrored(f) ==
  IF file[f] = Missing THEN Known(f) => row[f].removed
  ELSE row[f].hash = file[f] /\ ~row[f].removed

\* What follows from the row: a live one-off has its run, a live schedule its next
\* slot, a removed spec no queued run (a crash may have come before the cancel).
Acted(f) ==
  /\ Live(f) /\ KindOf[f] = "one_off" => HasRun(f, row[f].revision)
  /\ Live(f) /\ KindOf[f] = "schedule" => row[f].next # NoTime
  /\ Known(f) /\ row[f].removed /\ crashes = 0 =>
       \A i \in DOMAIN runs[f] : runs[f][i].status # "queued"

\* Once the edits and the crashes end, the table mirrors the directory and what
\* follows from it is queued, but for a file edited after the scan of a start() and
\* before its watcher listens (CronService.start).
Converges == <>[](\A f \in Files \ missed : Mirrored(f) /\ Acted(f))

\* A programmatic schedule is removed by deleteSchedule and by nothing else.
HubSchedulesSurvive ==
  [][\A f \in Path \ Files :
       Known(f) /\ ~row[f].removed /\ row'[f].removed =>
         \E p \in Service : Doing(p, "delete") /\ Item(p).path = f]_vars

=============================================================================
