---------------------------- MODULE OneShotSlot ----------------------------
(***************************************************************************)
(* What a QR upload session promises, without phones, polls or files on    *)
(* disk: a slot that is filled at most once, whose content never changes   *)
(* afterwards, and that is taken at most once.                             *)
(***************************************************************************)
CONSTANTS Names,   \* what may be put into the slot
          NoName   \* nothing has been put

VARIABLES status, path

Init == status = "pending" /\ path = NoName

Put(n) == status = "pending" /\ status' = "uploaded" /\ path' = n

Take == status = "uploaded" /\ status' = "consumed" /\ UNCHANGED path

Next == Take \/ \E n \in Names : Put(n)

Spec == Init /\ [][Next]_<<status, path>>
=============================================================================
