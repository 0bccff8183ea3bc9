------------------------------- MODULE Grant -------------------------------
(***************************************************************************)
(* What an authorization promises to the requests that ask for it: while   *)
(* it is open it may be given to one of them, and it may close without     *)
(* being given (it expires, or the answer is lost).  Closed, it stays so.  *)
(***************************************************************************)

CONSTANT Caller

VARIABLES
    open,
    given   \* the requests it was given to

vars == <<open, given>>

Init == open = TRUE /\ given = {}

Give(c) ==
    /\ open
    /\ open' = FALSE
    /\ given' = given \cup {c}

Close ==
    /\ open
    /\ open' = FALSE
    /\ UNCHANGED given

Next == Close \/ \E c \in Caller : Give(c)

Spec == Init /\ [][Next]_vars
=============================================================================
