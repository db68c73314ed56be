----------------------------- MODULE GuestView ------------------------------
(***************************************************************************)
(* What stage 2 promises the guest: its view of memory only ever grows, one *)
(* page at a time, and a page that is there leads where the memory regions  *)
(* of the vCPU say.  The tables behind it are in Stage2.                    *)
(***************************************************************************)
CONSTANTS
    Ipa,                \* the guest's pages
    Boot,               \* those that are mapped before the guest starts
    Translation(_),     \* where a page leads: a set of at most one entry
    Identity(_)         \* where a page mapped at boot leads

VARIABLE view           \* what the tables say of each page, such a set too

ViewInit == view = [i \in Ipa |-> IF i \in Boot THEN Identity(i) ELSE {}]

Appears(i) ==
    /\ view[i] = {} /\ Translation(i) # {}
    /\ view' = [view EXCEPT ![i] = Translation(i)]

ViewSpec == ViewInit /\ [][\E i \in Ipa : Appears(i)]_view
=============================================================================
