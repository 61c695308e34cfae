---------------------------- MODULE MCOperations ----------------------------
(***************************************************************************)
(* Instances of ApplyOrchestrator: an apply of three cells, or two reads   *)
(* of one device, or an identify beside one of them.                       *)
(***************************************************************************)
EXTENDS ApplyOrchestrator

CONSTANTS apply, read1, read2, identify

MCKind ==
    [c \in Op |-> CASE c = apply -> "apply" [] c = identify -> "identify" [] OTHER -> "read"]
MCResource == [c \in Op |-> CASE c = apply -> "matrix" [] OTHER -> "device"]
MCPlan == [c \in Op |-> IF c = apply THEN <<FALSE, FALSE, TRUE>> ELSE <<>>]

\* What is asked for: the other operations count as asked for already.
AskedFor == {{apply}, {read1}, {read1, read2}, {identify}}
MCOperationInit ==
    /\ TrackerInit
    /\ \E ops \in AskedFor : /\ requested = Op \ ops
                           /\ faultsLeft = IF Cardinality(ops) = 1 THEN MaxBusFaults ELSE 0
    /\ execs = <<>> /\ heard = <<>> /\ run = None /\ cellQueue = <<>>
    /\ job = [c \in Op |-> "none"] /\ strays = [c \in Op |-> 0]
    /\ disturbed = FALSE
MCOperationSpec == MCOperationInit /\ [][OperationNext]_operationVars /\ OperationFairness
=============================================================================
