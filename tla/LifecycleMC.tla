---------------------------- MODULE LifecycleMC ----------------------------
(***************************************************************************)
(* Three calls, which two threads and a block need, on an object and its   *)
(* copy; four trees, one more than can race.  No call, object or tree is   *)
(* special, and nothing checked is a liveness property.                    *)
(***************************************************************************)
EXTENDS Lifecycle, TLC

CONSTANTS c1, c2, c3, o1, o2, t1, t2, t3, t4

Calls == {c1, c2, c3}
Objects == {o1, o2}
Trees == {t1, t2, t3, t4}

Alike == Permutations(Calls) \cup Permutations(Objects) \cup Permutations(Trees)
=============================================================================
