--------------------------- MODULE MCQuotaScaling ---------------------------
(* Amounts in units of 100m. *)
EXTENDS QuotaScaling, TLC

\* The quota of README.md:23-34, that of README.md:187-203 (limits only), and
\* two that leave room for the requests.
MCQuotas == {("limits.cpu" :> 5) @@ ("requests.cpu" :> 5),
             "limits.cpu" :> 5, "limits.cpu" :> 10,
             ("limits.cpu" :> 5) @@ ("requests.cpu" :> 40),
             ("limits.cpu" :> 5) @@ ("cpu" :> 12)}

\* The pods of README.md:84-109 and larger ones.
GradualLoad == {[requests |-> 4, limits |-> 4]}
MCPodSizes == GradualLoad \cup {[requests |-> 2, limits |-> 6],
                                [requests |-> 1, limits |-> 11]}
=============================================================================
