------------------------------- MODULE MCA64 --------------------------------
(* A64Core on small instances.                                              *)
EXTENDS A64Core

MCPrio == [t \in Task |-> 10]     \* create_task and psci_vcpu_on both use 10
=============================================================================
