------------------------------- MODULE Operator -------------------------------
(***************************************************************************)
(* The operator (operator/cmd/main.go): one process with two controllers,  *)
(* each with a queue and a worker of its own, which watch different kinds  *)
(* of objects and write different ones.  What happens to the process, that *)
(* it ends and is started again, may happen at any point of either, so     *)
(* each of their modules has it; the controllers are explored side by      *)
(* side, in each behaviour one of them while the other has nothing to do.  *)
(***************************************************************************)
EXTENDS SecretsController, TSymbioteController

VARIABLE controller     \* the one whose behaviour this is

operatorVars == <<controller, vars, ctrlVars>>

OperatorInit == controller \in {"secrets", "tsymbiote"} /\ Init /\ CtrlInit

OperatorNext ==
    /\ UNCHANGED controller
    /\ \/ controller = "secrets" /\ Next /\ UNCHANGED ctrlVars
       \/ controller = "tsymbiote" /\ CtrlNext /\ UNCHANGED vars

OperatorSpec == OperatorInit /\ [][OperatorNext]_operatorVars

FairOperator == OperatorSpec /\ Fairness /\ CtrlFairness
=============================================================================
