----------------------------- MODULE JobPromise -----------------------------
(***************************************************************************)
(* What the provisioning API promises a user, without its tables, threads  *)
(* and flags: a request becomes a job at most once, the job touches the    *)
(* cloud only between its start and its close, and the user is told of the *)
(* outcome at most once, at the close, of a success only when something    *)
(* exists. ProvisioningJobs implements it.                                 *)
(***************************************************************************)
CONSTANT Jobs

VARIABLES
    phase,   \* life of each job
    effect,  \* what the job left at the cloud provider
    told     \* what its user was notified of

vars == <<phase, effect, told>>

Phases == {"absent", "pending", "working", "closed"}

Init ==
    /\ phase = [j \in Jobs |-> "absent"]
    /\ effect = [j \in Jobs |-> "nothing"]
    /\ told = [j \in Jobs |-> "nothing"]

(* The request is stored, to be executed or as a rejected one.             *)
Accept(j) ==
    /\ phase[j] = "absent"
    /\ \E p \in {"pending", "closed"} : phase' = [phase EXCEPT ![j] = p]
    /\ UNCHANGED <<effect, told>>

Begin(j) ==
    /\ phase[j] = "pending"
    /\ phase' = [phase EXCEPT ![j] = "working"]
    /\ UNCHANGED <<effect, told>>

Provide(j) ==
    /\ phase[j] = "working"
    /\ effect[j] = "nothing"
    /\ \E e \in {"exists", "simulated"} :
          effect' = [effect EXCEPT ![j] = e]
    /\ UNCHANGED <<phase, told>>

(* A job closes in silence when it was cancelled or its task died.         *)
Close(j, outcome) ==
    /\ phase[j] \in {"pending", "working"}
    /\ outcome = "success" => effect[j] \in {"exists", "simulated"}
    /\ outcome = "failed" => phase[j] = "working"
    /\ phase' = [phase EXCEPT ![j] = "closed"]
    /\ told' = [told EXCEPT ![j] = outcome]
    /\ UNCHANGED effect

(* An operator takes the resource of a successful job away.                *)
Destroy(j) ==
    /\ phase[j] = "closed"
    /\ told[j] = "success"
    /\ effect[j] \notin {"nothing", "simulated"}
    /\ effect' = [effect EXCEPT ![j] = "destroyed"]
    /\ UNCHANGED <<phase, told>>

(* Everything under way is dropped at once; a job that was working may     *)
(* have had its effect.                                                    *)
Restart ==
    /\ \E dropped \in SUBSET {j \in Jobs : phase[j] \in {"pending", "working"}} :
          phase' = [j \in Jobs |-> IF j \in dropped THEN "closed" ELSE phase[j]]
    /\ \E made \in SUBSET {j \in Jobs : phase[j] = "working"
                                         /\ effect[j] = "nothing"} :
          effect' = [j \in Jobs |-> IF j \in made THEN "exists" ELSE effect[j]]
    /\ UNCHANGED told

Next ==
    \/ \E j \in Jobs :
          \/ Accept(j) \/ Begin(j) \/ Provide(j) \/ Destroy(j)
          \/ \E outcome \in {"nothing", "success", "failed"} :
                Close(j, outcome)
    \/ Restart

Spec == Init /\ [][Next]_vars
=============================================================================
