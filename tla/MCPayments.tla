----------------------------- MODULE MCPayments -----------------------------
(* Small instances of Payments: who calls for which payment. *)
EXTENDS Payments

OneSub == [p \in Payment |-> 1]
OnePayment == [c \in Call |-> 1]
LastIsOther == [c \in Call |-> IF c = NCalls THEN NPayments ELSE 1]
DeliveriesAndConfirm ==
    [c \in Call |-> IF c = NCalls THEN "confirm" ELSE IF c = 1 THEN "pending" ELSE "completed"]
Confirms == [c \in Call |-> "confirm"]
LastConfirms == [c \in Call |-> IF c = NCalls THEN "confirm" ELSE "completed"]
AllPayments == Payment
=============================================================================
