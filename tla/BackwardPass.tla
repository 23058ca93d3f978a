---------------------------- MODULE BackwardPass ----------------------------
(***************************************************************************)
(* What a call of backward() or grad() promises its caller, whatever        *)
(* threads run it: the functions of the graph run in dependency order, each *)
(* at most once; the outcome is settled once, to a value only when every    *)
(* needed function ran; the call returns only when the outcome is settled.  *)
(* After a failure functions that were already started may still finish.    *)
(***************************************************************************)
CONSTANTS
    Nodes, GraphTasks,
    Needed,     \* Needed[g]: the nodes whose function the call has to run
    Inputs      \* Inputs[g][n]: the nodes whose function must run before n's

VARIABLES
    phase,      \* phase[g]: "idle", "running" or "returned"
    ran,        \* ran[g]: the nodes whose function returned
    outcome     \* outcome[g]: "none", "value" or "error"

bvars == <<phase, ran, outcome>>

BInit ==
    /\ phase = [g \in GraphTasks |-> "idle"]
    /\ ran = [g \in GraphTasks |-> {}]
    /\ outcome = [g \in GraphTasks |-> "none"]

Call(g) ==
    /\ phase[g] = "idle"
    /\ phase' = [phase EXCEPT ![g] = "running"]
    /\ UNCHANGED <<ran, outcome>>

Run(g, n) ==
    /\ phase[g] # "idle" /\ outcome[g] # "value"
    /\ n \in Needed[g] \ ran[g]
    /\ Inputs[g][n] \subseteq ran[g]
    /\ ran' = [ran EXCEPT ![g] = @ \cup {n}]
    /\ UNCHANGED <<phase, outcome>>

Settle(g) ==
    /\ phase[g] = "running" /\ outcome[g] = "none"
    /\ \/ outcome' = [outcome EXCEPT ![g] = "error"]
       \/ Needed[g] \subseteq ran[g] /\ outcome' = [outcome EXCEPT ![g] = "value"]
    /\ UNCHANGED <<phase, ran>>

Return(g) ==
    /\ phase[g] = "running" /\ outcome[g] # "none"
    /\ phase' = [phase EXCEPT ![g] = "returned"]
    /\ UNCHANGED <<ran, outcome>>

BNext == \E g \in GraphTasks :
            Call(g) \/ Settle(g) \/ Return(g) \/ \E n \in Nodes : Run(g, n)

BSpec == BInit /\ [][BNext]_bvars
=============================================================================
