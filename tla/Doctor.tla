------------------------------- MODULE Doctor -------------------------------
(***************************************************************************)
(* The --doctor diagnostics (internal/doctor): checks of the host for what *)
(* the targets of a configuration need, each with a severity.  A host h is *)
(* what the checks find: credential sources, listen addresses in use,      *)
(* whether the groups can be read, which group ping_group_range admits,    *)
(* whether ping sockets and their PMTU options work, and resolv.conf.      *)
(* The address checked is the file's: --listen-addr is left out.  So are   *)
(* the warnings of checkICMP and checkMTU without a socket check           *)
(* (doctor.go:207-210, 255-258): doctor_linux.go provides both checks.     *)
(***************************************************************************)
EXTENDS Config

targetsOf(c, type) == {t \in c.targets : t.type = type}

checkProcess(h) == IF h.groups THEN "PASS" ELSE "WARN"

checkListenAddr(addr, h) == IF addr \in h.busy THEN "FAIL" ELSE "PASS"

\* The primary group, and the others if they can be read.
checkPingGroupRange(h) ==
    CASE h.pingRange = "unreadable"                 -> "WARN"
      [] h.pingRange = "primary"                    -> "PASS"
      [] h.pingRange = "supplementary" /\ h.groups  -> "PASS"
      [] OTHER                                      -> "FAIL"

checkICMP(c, h) ==
    IF targetsOf(c, "icmp") = {} THEN {"SKIP"}
    ELSE {checkPingGroupRange(h), IF h.pingSocket THEN "PASS" ELSE "FAIL"}

checkMTU(c, h) ==
    IF targetsOf(c, "mtu") = {} THEN {"SKIP"}
    ELSE {checkPingGroupRange(h), IF h.pingSocket /\ h.pmtu THEN "PASS" ELSE "FAIL"}

\* Mutant: one target with its own server excuses all others.
checkDNSAnyServer(c, h) ==
    CASE targetsOf(c, "dns") = {} -> "SKIP"
      [] h.nameservers            -> "PASS"
      [] OTHER -> IF \A t \in targetsOf(c, "dns") : t.opts.server = NoAddress
                    THEN "FAIL" ELSE "WARN"

\* Without a name server in resolv.conf: fatal for a target that asks the
\* system resolver.
checkDNS(c, h) ==
    CASE targetsOf(c, "dns") = {} -> "SKIP"
      [] h.nameservers            -> "PASS"
      [] OTHER -> IF \E t \in targetsOf(c, "dns") : t.opts.server = NoAddress
                    THEN "FAIL" ELSE "WARN"

\* RunWithOptions and Result.OK
doctorOK(f, h) ==
    Accepted(f, h) /\ LET c == LoadConfig(f, h) IN
        "FAIL" \notin {checkProcess(h), checkListenAddr(c.agent.listen, h), checkDNS(c, h)}
                        \union checkICMP(c, h) \union checkMTU(c, h)
=============================================================================
