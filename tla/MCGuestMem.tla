----------------------------- MODULE MCGuestMem -----------------------------
(* Two vCPUs over nine pages in tables of three entries: the GIC's five,    *)
(* the UART's, a page of RAM, one mapped at boot, and a hole.               *)
EXTENDS GuestMem
=============================================================================
