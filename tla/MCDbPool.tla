------------------------------ MODULE MCDbPool -------------------------------
(* Instances of DbPool for TLC. *)
EXTENDS DbPool, TLC

CONSTANTS u1, u2, manager

TwoClients == {u1, u2}

\* Both clients share proxy 1; proxy 2 is only switched.
OneHandle == u1 :> 1 @@ u2 :> 1
=============================================================================
