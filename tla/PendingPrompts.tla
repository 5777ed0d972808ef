---------------------------- MODULE PendingPrompts ----------------------------
(***************************************************************************)
(* The edits PendingPromptService makes to a session's list of prompts     *)
(* that wait for a turn (runtime/turn-queue/pending-prompt-service.ts).    *)
(* An entry is [text, delivery].  "steer" entries are meant for the turn   *)
(* that runs now and stand in front; "queue" entries each get a turn of    *)
(* their own.  The id names the position an edit finds; mode, images and   *)
(* files travel with an entry: all left out.                               *)
(***************************************************************************)
EXTENDS SequencesExt, Integers

Deliveries == {"queue", "steer"}

IsSteer(e) == e.delivery = "steer"

Insert(q, e) == IF IsSteer(e) THEN <<e>> \o q ELSE Append(q, e)

\* A prompt whose text already waits keeps its entry, moved; steer is never taken back.
Enqueue(q, text, d) ==
  LET i == SelectInSeq(q, LAMBDA e : e.text = text)
      steer == d = "steer" \/ IsSteer(q[i])
  IN  IF i = 0
      THEN Insert(q, [text |-> text, delivery |-> d])
      ELSE Insert(RemoveAt(q, i), [q[i] EXCEPT !.delivery = IF steer THEN "steer" ELSE "queue"])

\* Variant: an edited entry stays where it is.
UpdateInPlace(q, i, text, d) == [q EXCEPT ![i].text = text, ![i].delivery = d]

\* insertUpdatedPrompt: a steer entry goes to the front, a demoted one to the end, an
\* edited queue entry stays in place.
Update(q, i, text, d) ==
  LET e == [q[i] EXCEPT !.text = text, !.delivery = d]
      rest == RemoveAt(q, i)
  IN  IF IsSteer(e) \/ IsSteer(q[i]) THEN Insert(rest, e) ELSE InsertAt(rest, i, e)

FirstSteer(q) == SelectInSeq(q, IsSteer)

RequeueFront(q, e) == <<e>> \o q

\* Every steer entry stands before every queue entry.
Prioritised(q) ==
  \A i, j \in DOMAIN q : i < j /\ IsSteer(q[j]) => IsSteer(q[i])

=============================================================================
