---------------------------- MODULE RunLifecycle ----------------------------
(***************************************************************************)
(* What cron_runs promises about one run, without runners, tokens, leases  *)
(* or sessions: the run waits, is granted to an executor, each grant under *)
(* a new generation, is handed back or settled, and once settled it stays  *)
(* as it is.  Runs are independent; one transaction may move many of them. *)
(***************************************************************************)
EXTENDS Naturals

CONSTANT Run

VARIABLES state, generation

vars == <<state, generation>>

Outcomes == {"done", "failed", "cancelled"}

Init ==
  /\ state = [r \in Run |-> "absent"]
  /\ generation = [r \in Run |-> 0]

Keeps(r) == generation'[r] = generation[r]

Submit(r) == state[r] = "absent" /\ state'[r] = "queued" /\ Keeps(r)

\* Granted from the queue, on submission, or again after the executor was lost.
Grant(r) ==
  /\ state[r] \in {"absent", "queued", "running"} /\ state'[r] = "running"
  /\ generation'[r] = generation[r] + 1

HandBack(r) == state[r] = "running" /\ state'[r] = "queued" /\ Keeps(r)

Settle(r) == state[r] = "running" /\ state'[r] \in Outcomes /\ Keeps(r)

Withdraw(r) == state[r] = "queued" /\ state'[r] = "cancelled" /\ Keeps(r)

Stays(r) == state'[r] = state[r] /\ Keeps(r)

Step(r) == Submit(r) \/ Grant(r) \/ HandBack(r) \/ Settle(r) \/ Withdraw(r)

Next == \A r \in Run : Step(r) \/ Stays(r)

SafeSpec == Init /\ [][Next]_vars

=============================================================================
