----------------------------- MODULE RequestService -----------------------------
(***************************************************************************)
(* What sc_rpc promises for the requests it accepts: they wait in arrival  *)
(* order, at most as many as there are slots, and each is settled once -   *)
(* with an answer, or without one when the answer cannot be published.     *)
(***************************************************************************)
EXTENDS Naturals, Sequences

CONSTANTS
  Requests,
  Capacity,  \* CONFIG_SOULCLOUD_RPC_QUEUE_LEN
  Valid      \* the requests a method can succeed on

VARIABLES
  pending,   \* the methods of accepted requests, oldest first
  replies    \* the answers given

vars == <<pending, replies>>

Init == pending = <<>> /\ replies = {}

Accept(r) ==
  /\ Len(pending) < Capacity
  /\ pending' = Append(pending, r)
  /\ UNCHANGED replies

Reply(r, ok) == ok => r \in Valid

Settle ==
  /\ pending # <<>>
  /\ pending' = Tail(pending)
  /\ \/ \E ok \in BOOLEAN :
           /\ Reply(Head(pending), ok)
           /\ replies' = replies \cup {[request |-> Head(pending), ok |-> ok]}
     \/ UNCHANGED replies

Next == Settle \/ \E r \in Requests : Accept(r)

Spec == Init /\ [][Next]_vars /\ WF_vars(Settle)

================================================================================
