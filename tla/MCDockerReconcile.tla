-------------------------- MODULE MCDockerReconcile --------------------------
(* Small instances of DockerReconcile. *)
EXTENDS DockerReconcile

OneSub == [c \in Call |-> 1]
LastIsAdmin == [c \in Call |-> IF c = NCalls THEN "admin" ELSE "user"]
NoKeys == [c \in Call |-> NoKey]
=============================================================================
