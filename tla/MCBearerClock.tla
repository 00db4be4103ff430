--------------------------- MODULE MCBearerClock ---------------------------
(* BearerClock with a second of two ticks and bearers of at most two seconds. *)
EXTENDS BearerClock, TLC

CONSTANTS t1, t2, k1

MCThread == {t1, t2}
MCToken == {k1}
(* One that is refused, and one for each bound that may be the least. *)
MCAsks == {[policy |-> 0, requested |-> 1], [policy |-> 1, requested |-> 2],
           [policy |-> 2, requested |-> 1], [policy |-> 3, requested |-> 3]}
MCSteps == {-3, 2}
Symmetry == Permutations(MCThread)
=============================================================================
