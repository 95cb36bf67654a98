--------------------------- MODULE RefreshLifecycle ---------------------------
(***************************************************************************)
(* What a refresh promises to whoever watches the service, whatever the    *)
(* requests, the goroutines and the teams do: refreshes run one at a time, *)
(* a refresh publishes at most once and all its data at once, it publishes *)
(* whole set types for every team, it is called completed only after it    *)
(* published and failed only if it published nothing.                      *)
(***************************************************************************)
EXTENDS Naturals

CONSTANTS Teams, SetTypes

VARIABLES status,     \* of the most recent refresh
          run,        \* its number
          published,  \* whether it has published
          data        \* per team and set type, the refreshes its periods are from

vars == <<status, run, published, data>>

Init ==
    /\ status = "idle"
    /\ run = 0
    /\ published = FALSE
    /\ data = [t \in Teams |-> [s \in SetTypes |-> {}]]

Start ==
    /\ status # "running"
    /\ status' = "running"
    /\ run' = run + 1
    /\ UNCHANGED <<published, data>>

Publish ==
    /\ status = "running"
    /\ ~published
    /\ published' = TRUE
    /\ \E types \in (SUBSET SetTypes) \ {{}} :
         data' = [t \in Teams |->
                    [s \in SetTypes |-> IF s \in types THEN {run} ELSE data[t][s]]]
    /\ UNCHANGED <<status, run>>

Complete ==
    /\ status = "running"
    /\ published
    /\ status' = "completed"
    /\ published' = FALSE
    /\ UNCHANGED <<run, data>>

Fail ==
    /\ status = "running"
    /\ ~published
    /\ status' = "failed"
    /\ UNCHANGED <<run, published, data>>

Next == Start \/ Publish \/ Complete \/ Fail

Spec == Init /\ [][Next]_vars /\ WF_vars(Publish \/ Complete \/ Fail)
=============================================================================
