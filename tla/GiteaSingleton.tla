--------------------------- MODULE GiteaSingleton ---------------------------
(***************************************************************************)
(* What the handlers of the scaling server see of git.GetClient: one       *)
(* client for the whole process.  Whether it is usable is decided once,    *)
(* and every later caller is told the same, except that a caller may find  *)
(* a usable client not initialised yet.  GetClient of MgmtServer is the    *)
(* step Ask of this module; GiteaClient implements it with a mutex.        *)
(***************************************************************************)
CONSTANT Callers

VARIABLES
    gitea,      \* the client of the process: none yet, "ready" or "broken"
    told        \* told[c]: what c was told last, "nothing" while it waits

vars == <<gitea, told>>

Init ==
    /\ gitea = "none"
    /\ told = [c \in Callers |-> "nothing"]

\* One caller's start of the client succeeds or fails, for everybody.
Decide ==
    /\ gitea = "none"
    /\ gitea' \in {"ready", "broken"}
    /\ UNCHANGED told

Ask(c) ==
    /\ gitea # "none"
    /\ told' \in {[told EXCEPT ![c] = answer] :
                    answer \in {"noClient"} \cup ({gitea} \cap {"ready"})}
    /\ UNCHANGED gitea

\* A new request: what its goroutine is told is open again.
Come(c) ==
    /\ told' = [told EXCEPT ![c] = "nothing"]
    /\ UNCHANGED gitea

\* The process starts anew.
Restart ==
    /\ gitea' = "none"
    /\ told' = [c \in Callers |-> "nothing"]

Next == Decide \/ Restart \/ \E c \in Callers : Ask(c) \/ Come(c)

Spec == Init /\ [][Next]_vars
=============================================================================
