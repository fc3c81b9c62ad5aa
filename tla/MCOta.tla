--------------------------------- MODULE MCOta ---------------------------------
(* A small instance of Ota: an update that fills the partition, a smaller  *)
(* one, and one that does not fit.                                         *)
EXTENDS Ota, TLC

CONSTANTS u1, u2, u3

Sizes == u1 :> 4 @@ u2 :> 3 @@ u3 :> 5

================================================================================
