---------------------------- MODULE MCScheduler ----------------------------
(* Small instances of Scheduler for TLC. *)
EXTENDS Scheduler, TLC

CONSTANTS g1, g2, g3

T(n, l, o, s) == [name |-> n, labels |-> l, opts |-> o, secret |-> s]

\* Two names: a target with a relabelled variant beside a second target.
MCTwoNames == {T("a", "l1", "o1", "s1"), T("a", "l2", "o1", "s1"),
               T("b", "l1", "o1", "s1")}

\* One name in three variants that share their labels: the base, an option
\* change, and a rotated secret, which Equal does not see.
MCVariants == {T("a", "l1", "o1", "s1"), T("a", "l1", "o2", "s1"),
               T("a", "l1", "o1", "s2")}

GidSymmetry == Permutations(Gids)
=============================================================================
