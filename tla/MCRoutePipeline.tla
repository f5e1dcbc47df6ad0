---------------------------- MODULE MCRoutePipeline ----------------------------
(* Small instances of RoutePipeline. *)
EXTENDS RoutePipeline, TLC

CONSTANTS r1, r2, u1, u2, s1

\* The client s1 has the token of u1; any other has none.
MCSocketUser == [s \in Sockets |-> IF s = s1 THEN u1 ELSE NoUser]

\* Every route tells everybody, but two tell a static room and one its owners' rooms.
MCAudiences ==
  [t \in RouteTypes |->
     IF t \in {"UpdateOne", "CreateOne"} THEN "lobby"
     ELSE IF t \in {"UpdateMany"} THEN "owner"
     ELSE IF t \in ReadRoutes THEN "off" ELSE "everyone"]

Symmetry == Permutations(Requests)
=============================================================================
