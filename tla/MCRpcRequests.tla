----------------------------- MODULE MCRpcRequests -----------------------------
(* A small instance of RpcRequests. *)
EXTENDS RpcRequests, TLC

CONSTANTS s1, s2, r1, r2, r3, r4

Shape(size, corr, topic, known, object) ==
  [size |-> size, corr |-> corr, topic |-> topic, known |-> known, object |-> object]

(* r1 fills the payload in up to two events and asks for an answer on its  *)
(* own topic; r2 is larger than a slot and names a foreign topic; r3 has   *)
(* no payload, no correlation and no topic; r4 names an unknown method,    *)
(* and its parameters are no object.                                       *)
MixedMsg ==
  r1 :> Shape(2, TRUE, "up", TRUE, TRUE)
  @@ r2 :> Shape(3, TRUE, "foreign", TRUE, TRUE)
  @@ r3 :> Shape(0, FALSE, "none", TRUE, FALSE)
  @@ r4 :> Shape(1, TRUE, "none", FALSE, FALSE)

================================================================================
