----------------------------- MODULE MCProbers -----------------------------
(***************************************************************************)
(* Small instances of the MTU, ICMP and TCP probers and of the probers     *)
(* that go through a proxy, for one run of TLC.  A behaviour is one probe, *)
(* of the kind chosen at its start; the state of the other kinds keeps its *)
(* initial value.                                                          *)
(***************************************************************************)
EXTENDS MTU, ICMP, Dial, ProxyPath

CONSTANTS a1, a2, b1, b2

MCV4 == {a1, a2}
MCV6 == {b1, b2}
\* One family, both families in either order, several addresses in each.
MCTargetLists == {<<a1, a2>>, <<b1, a1>>, <<a1, b1, a2, b2>>, <<b1, b2, a1>>}

MCSizes == <<1472, 1392, 1072>>
\* Below the sanity echo, and at, between and above the configured sizes.
MCLimits == {0, 64, 1072, 1400, 1472, 9000}

VARIABLE kind

vars == <<kind, mtuVars, icmpVars, dialVars, proxyVars>>

Init ==
    /\ kind \in {"mtu", "icmp", "tcp", "proxy"}
    /\ MTUInit /\ ICMPInit /\ DialInit /\ ProxyInit
    /\ kind # "mtu" => limit = 0 /\ local = 0
    /\ kind # "tcp" => targets = <<a1, a2>>
    /\ kind # "proxy" => cfg = (CHOOSE c \in Options : TRUE) /\ scheme = "https"

Next ==
    \/ kind = "mtu" /\ MTUNext /\ UNCHANGED <<kind, icmpVars, dialVars, proxyVars>>
    \/ kind = "icmp" /\ ICMPNext /\ UNCHANGED <<kind, mtuVars, dialVars, proxyVars>>
    \/ kind = "tcp" /\ DialNext /\ UNCHANGED <<kind, mtuVars, icmpVars, proxyVars>>
    \/ kind = "proxy" /\ ProxyNext /\ UNCHANGED <<kind, mtuVars, icmpVars, dialVars>>

\* The fairness of the four modules, of the kind that runs.
Fairness ==
    /\ WF_mtuVars(kind = "mtu" /\ MTUStep) /\ WF_mtuVars(kind = "mtu" /\ AttemptDeadline)
    /\ WF_icmpVars(kind = "icmp" /\ ICMPStep) /\ SF_icmpVars(kind = "icmp" /\ Tick)
    /\ WF_dialVars(kind = "tcp" /\ Main) /\ WF_dialVars(kind = "tcp" /\ CloseLosers)
    /\ WF_dialVars(kind = "tcp" /\ DialExpires)
    /\ \A w \in Workers : WF_dialVars(kind = "tcp" /\ Worker(w))
    /\ WF_proxyVars(kind = "proxy" /\ Expire)
    /\ WF_proxyVars(kind = "proxy" /\ Released /\ ProxyStep)

FairSpec == Init /\ [][Next]_vars /\ Fairness

----------------------------------------------------------------------------
(* The liveness properties of the four modules, for the probe that runs *)

\* MTU: the probe returns (mtu.go:239-284).
MTUTerminates == kind = "mtu" => MTUReturns
\* ICMP: the probe returns, whatever is lost.
ICMPTerminates == kind = "icmp" => ICMPReturns
\* Dial: the probe returns and every connection gets closed.
DialSettles == kind = "tcp" => Settles
\* ProxyPath: every probe returns, however its proxy and target stall.
ProxyTerminates == kind = "proxy" => ProxyReturns
=============================================================================
