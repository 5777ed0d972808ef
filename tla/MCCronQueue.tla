---------------------------- MODULE MCCronQueue ----------------------------
(* Small instances of CronQueue for TLC.                                    *)
EXTENDS CronQueue, TLC

CONSTANTS p1, p2, s1, s2

MCRun == 1..2
OneRun == 1..1
MCSpec == {s1, s2}
\* One spec owns both runs in the contended instance, each has its own otherwise.
SharedSpec == [r \in Run |-> s1]
OwnSpecs == [r \in Run |-> IF r = 1 THEN s1 ELSE s2]
RunnerSymmetry == Permutations(Runner)
MCMaxParallel == [s \in Spec |-> 1]

=============================================================================
