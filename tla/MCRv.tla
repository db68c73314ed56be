-------------------------------- MODULE MCRv --------------------------------
(* Two pCPUs and three vCPUs: pCPU 0 switches between vCPUs 0 and 2, pCPU 1 *)
(* runs vCPU 1.                                                             *)
EXTENDS RvCore
MCMenus == {{"ipi"}, {"fence"}, {"timer", "redirect"}, {"compute"}, {"uart", "plic"}}
Call(mask, base) == [mask |-> mask, base |-> base]
MCCalls == {Call({0, 1, 2, 3}, 0), Call({}, 15), Call({2, 4}, 14), Call({0, 3}, 1)}
=============================================================================
