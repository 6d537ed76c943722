----------------------------- MODULE TargetSet -----------------------------
(***************************************************************************)
(* What the scheduler promises its caller, without goroutines, channels or *)
(* series: a set of targets is probed, and a call replaces it by the       *)
(* configured one.  Targets are compared as TargetConfig.Equal does.       *)
(*                                                                         *)
(* A call is not atomic, and its order is part of the promise: unwanted    *)
(* targets end first, wanted ones that are probed already are never        *)
(* interrupted, and a new one begins only when nothing unwanted is left.   *)
(***************************************************************************)
CONSTANT Wanted     \* the configurations that can be applied, as sets of targets

VARIABLES
    mode,           \* "new", "applying", "applied", "stopping", "stopped"
    want,           \* the configuration of the latest Start or Reload
    probed          \* the targets that are being probed

vars == <<mode, want, probed>>

Init ==
    /\ mode = "new"
    /\ want = {}
    /\ probed = {}

\* Start or Reload is called.
Apply(W) ==
    /\ mode \in {"new", "applied"}
    /\ mode' = "applying"
    /\ want' = W
    /\ UNCHANGED probed

\* An unwanted target ends.
Withdraw(t) ==
    /\ mode = "applying"
    /\ t \in probed \ want
    /\ probed' = probed \ {t}
    /\ UNCHANGED <<mode, want>>

\* A wanted target begins, when no unwanted one is left.
Launch(t) ==
    /\ mode = "applying"
    /\ probed \subseteq want
    /\ t \in want \ probed
    /\ probed' = probed \union {t}
    /\ UNCHANGED <<mode, want>>

\* Start or Reload returns.
Applied ==
    /\ mode = "applying"
    /\ probed = want
    /\ mode' = "applied"
    /\ UNCHANGED <<want, probed>>

\* Stop is called, ends the targets and returns when none is left.
Stop ==
    /\ mode = "applied"
    /\ mode' = "stopping"
    /\ UNCHANGED <<want, probed>>

EndOne(t) ==
    /\ mode = "stopping"
    /\ t \in probed
    /\ probed' = probed \ {t}
    /\ UNCHANGED <<mode, want>>

Stopped ==
    /\ mode = "stopping"
    /\ probed = {}
    /\ mode' = "stopped"
    /\ UNCHANGED <<want, probed>>

Next ==
    \/ \E W \in Wanted : Apply(W)
    \/ \E t \in probed : Withdraw(t) \/ EndOne(t)
    \/ \E t \in want : Launch(t)
    \/ Applied \/ Stop \/ Stopped

Spec == Init /\ [][Next]_vars
=============================================================================
