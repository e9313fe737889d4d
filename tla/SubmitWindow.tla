----------------------------- MODULE SubmitWindow -----------------------------
(***************************************************************************)
(* What the wallet lock promises to the deploys of one wallet: a submit    *)
(* window that one process at a time is in.  A process leaves the window   *)
(* by releasing the lock or by ending.                                     *)
(***************************************************************************)
CONSTANT Pids

VARIABLE inside   \* the live processes in the submit window

Init == inside = {}

Enter(p) ==
    /\ inside = {}
    /\ inside' = {p}

Leave(p) ==
    /\ p \in inside
    /\ inside' = inside \ {p}

Next == \E p \in Pids : Enter(p) \/ Leave(p)

Spec == Init /\ [][Next]_inside
===============================================================================
