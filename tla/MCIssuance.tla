----------------------------- MODULE MCIssuance -----------------------------
(* Small instances of Issuance: what the requests are and whom they are for. *)
EXTENDS Issuance

EachItsSub == [c \in Call |-> c]
OneSub == [c \in Call |-> 1]
TwoSubs == [c \in Call |-> IF c = 1 THEN 1 ELSE 2]
AllUser == [c \in Call |-> "user"]
OneOfEach == [c \in Call |-> IF c = 1 THEN "user" ELSE IF c = NCalls THEN "admin" ELSE "webapp"]
KeyForUsers == [c \in Call |-> IF KindOf[c] = "user" THEN 1 ELSE NoKey]
NoKeys == [c \in Call |-> NoKey]
=============================================================================
