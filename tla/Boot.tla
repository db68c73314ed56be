-------------------------------- MODULE Boot --------------------------------
(* The two machines the hypervisor is built for, each in a boot of its own. *)
EXTENDS A64Boot, RvBoot

VARIABLE machine        \* what this image was built for

allBootVars == <<machine, bootVars, rvVars>>

A64Next == machine = "a64" /\ BootNext /\ UNCHANGED <<machine, rvVars>>
RiscvNext == machine = "rv" /\ RvNext /\ UNCHANGED <<machine, bootVars>>

Init == machine \in {"a64", "rv"} /\ BootInit /\ RvInit

Next == A64Next \/ RiscvNext

Fairness ==
    /\ WF_allBootVars(machine = "a64" /\ BootStep /\ UNCHANGED <<machine, rvVars>>)
    /\ WF_allBootVars(machine = "a64" /\ BootTick /\ UNCHANGED <<machine, rvVars>>)
    /\ WF_allBootVars(machine = "rv" /\ RvStep /\ UNCHANGED <<machine, bootVars>>)
    /\ WF_allBootVars(machine = "rv" /\ RvTick /\ UNCHANGED <<machine, bootVars>>)

Spec == Init /\ [][Next]_allBootVars /\ Fairness

(* Boot comes to an end, whatever CPUs fail to start or come late: in the   *)
(* guest, in a stop of its own, or, by a tick at the wrong moment, in front *)
(* of an uninitialised list, inside the ready list's lock or away from what *)
(* was left to do.                                                          *)
BootEnds == <>(\/ machine = "a64" /\ (Ended \/ \E m \in Secondary : lock = {m})
               \/ machine = "rv" /\ RvEnded)
=============================================================================
