----------------------------- MODULE MCStartup -----------------------------
EXTENDS Startup

\* One process without POD_NAME, the others with one of their own.
MCPodName == [p \in Procs |-> IF p = CHOOSE q \in Procs : TRUE THEN None ELSE p]

Good        == [read |-> "ok", cluster |-> TRUE, subnet |-> TRUE, interval |-> FALSE, pool |-> "valid"]
MCFiles     == {Good,
                [Good EXCEPT !.cluster = FALSE, !.pool = "none"],
                [Good EXCEPT !.pool = "invalid"],
                [Good EXCEPT !.subnet = FALSE],
                [Good EXCEPT !.read = "missing"],
                [Good EXCEPT !.read = "syntax"],
                [Good EXCEPT !.read = "type", !.cluster = FALSE],
                [Good EXCEPT !.read = "type", !.interval = TRUE]}
=============================================================================
