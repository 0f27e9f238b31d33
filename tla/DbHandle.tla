------------------------------- MODULE DbHandle -------------------------------
(***************************************************************************)
(* What the database proxies of chain_proxy promise their users: a query   *)
(* runs from its beginning to its end on the database that is current for  *)
(* its proxy, and the database changes between queries, never under one.   *)
(***************************************************************************)
EXTENDS Naturals

CONSTANTS
    Clients,  \* the threads that send queries
    Proxies,  \* the proxies
    Handle,   \* the proxy each client uses
    Databases \* the databases, numbers in the order of their creation

VARIABLES
    current,  \* the database of each proxy, 0 for none
    running   \* the database the query of each client runs on, 0 for none

vars == <<current, running>>

Init ==
    /\ current = [p \in Proxies |-> 0]
    /\ running = [u \in Clients |-> 0]

\* A query starts on the current database.
Open(u) ==
    /\ running[u] = 0
    /\ current[Handle[u]] # 0
    /\ running' = [running EXCEPT ![u] = current[Handle[u]]]
    /\ UNCHANGED current

\* It ends, interrupted or not.
Done(u) ==
    /\ running[u] # 0
    /\ running' = [running EXCEPT ![u] = 0]
    /\ UNCHANGED current

\* A newer database, or none, takes the place of p's once no query of p runs.
Switch(p) ==
    /\ \A u \in Clients : Handle[u] = p => running[u] = 0
    /\ \E q \in Databases \cup {0} :
          /\ q = 0 \/ q > current[p]
          /\ current' = [current EXCEPT ![p] = q]
    /\ UNCHANGED running

Next ==
    \/ \E u \in Clients : Open(u) \/ Done(u)
    \/ \E p \in Proxies : Switch(p)

Spec == Init /\ [][Next]_vars
=============================================================================
