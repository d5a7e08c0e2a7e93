----------------------------- MODULE Sessions -----------------------------
(***************************************************************************)
(* What the token version of an account promises: sessions begin one at a  *)
(* time while the account is open, and end all at once. Accounts           *)
(* implements it with one number in the account's row.                     *)
(***************************************************************************)
VARIABLES open,  \* the account exists and is not disabled
          live   \* the tokens that authenticate a request

vars == <<open, live>>

Init == open = TRUE

Begin ==
    /\ open
    /\ \E t \in live' : live' = live \cup {t}
    /\ UNCHANGED open

(* A new password, an account switched off or on, a deletion. *)
Revoke ==
    /\ live' = {}
    /\ open' \in BOOLEAN

Next == Begin \/ Revoke

Spec == Init /\ [][Next]_vars
=============================================================================
