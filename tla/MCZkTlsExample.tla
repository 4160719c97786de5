--------------------------- MODULE MCZkTlsExample ---------------------------
(***************************************************************************)
(* ZkTlsExample with an account on either side of the minimum.             *)
(***************************************************************************)
EXTENDS ZkTlsExample

MCFollowers == "small" :> 1 @@ "big" :> 3
=============================================================================
