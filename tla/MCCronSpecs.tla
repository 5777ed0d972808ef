---------------------------- MODULE MCCronSpecs ----------------------------
(* Small instances of CronSpecs for TLC.                                    *)
EXTENDS CronSpecs, TLC

CONSTANTS p1, p2, oneOff, sched, hub

On == [body |-> "a", state |-> "on"]
OtherOn == [body |-> "b", state |-> "on"]
Off == [body |-> "a", state |-> "off"]
Bad == [body |-> "a", state |-> "bad"]

AllContents == {On, OtherOn, Off, Bad}
OnOff == {On, Off}
MCKindOf ==
  [f \in Path |-> CASE f = oneOff -> "one_off"
                    [] f = sched -> "schedule"
                    [] f = hub -> "hub"]
EverySlot(t) == t + 1

ServiceSymmetry == Permutations(Service)

=============================================================================
