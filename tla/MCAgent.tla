------------------------------ MODULE MCAgent ------------------------------
(* Small instances of Agent for TLC. *)
EXTENDS Agent

Base == [targets |-> {"t1"}, tagKeys |-> {"k1"}, logFormat |-> "text",
         listenAddr |-> ":9275", metricsPath |-> "/metrics",
         runtimeMetrics |-> FALSE, logLevel |-> "info"]

\* An invalid file, the base, new targets with another level, changed tag
\* keys (and level), and a changed listen address.
MCFiles == {Invalid, Base,
            [Base EXCEPT !.targets = {"t1", "t2"}, !.logLevel = "debug"],
            [Base EXCEPT !.targets = {"t2"}, !.tagKeys = {"k2"}, !.logLevel = "warn"],
            [Base EXCEPT !.listenAddr = ":9999"]}

\* Without the two rejected variants: for liveness.
MCFewFiles == {Invalid, Base, [Base EXCEPT !.targets = {"t1", "t2"}]}
=============================================================================
