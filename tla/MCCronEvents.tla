---------------------------- MODULE MCCronEvents ----------------------------
EXTENDS CronEvents, TLC

CONSTANTS e1, e2, e3, hub, cli

IngressSymmetry == Permutations({hub, cli})

MCKeyOf == (e1 :> "pr12") @@ (e2 :> "pr12") @@ (e3 :> "pr13")
MCMatching == (1 :> {e1, e2}) @@ (2 :> {e2, e3})
MCDebounce == (1 :> 1) @@ (2 :> 0)
MCDedupeWindow == (1 :> 1) @@ (2 :> 0)
MCCooldown == (1 :> 0) @@ (2 :> 1)

=============================================================================
