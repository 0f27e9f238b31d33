---------------------------- MODULE AccessorChain ----------------------------
(***************************************************************************)
(* languages/cxx/chain_proxy/10-manager.cpp and 11-functional.cpp: a user  *)
(* queries a database through the operator-> of Shared, Proxy, Pool,       *)
(* Exclusive and Lockable, each of which returns what the next one is      *)
(* called on; the manager replaces what the proxies refer to.  10 makes    *)
(* the connection when it activates a database, 11 when the pool is first  *)
(* used.  One thread; a database is the identifier of its MyDB.            *)
(***************************************************************************)
EXTENDS Integers, Sequences

CONSTANTS
    Ids,         \* identifiers that the manager activates
    MaxCalls     \* bound: calls of the manager and of the user

ProxyKeys == {1, 2}

ASSUME IdsAssumption == Ids \subseteq Nat \ {0}

VARIABLES
    edition,     \* "manager" (10) or "functional" (11)
    manager,     \* "alive" or "destroyed"
    proxies,     \* Proxy::m_a of each proxy: a Pool, or EmptyProxy
    user,        \* the proxy that the User's Shared keeps alive, NoUser before
    position,    \* the accessor whose operator-> is called next
    fetched,     \* the connection of the pool, then the one of the Lockable
    lockables,   \* the number of Lockables that exist
    lastId,      \* history: what was activated last, 0 if nothing is
    chainCalls   \* calls so far

chainVars == <<edition, manager, proxies, user, position, fetched, lockables, lastId, chainCalls>>

EmptyProxy == [id |-> 0, made |-> <<>>]
NoUser == 0
NoDb == 0

ChainInit ==
    /\ edition \in {"manager", "functional"}
    /\ manager = "alive"
    /\ proxies = [p \in ProxyKeys |-> EmptyProxy]
    /\ user = NoUser
    /\ position = "idle" /\ fetched = NoDb /\ lockables = 0
    /\ lastId = 0 /\ chainCalls = 0

CountCall ==
    /\ position = "idle" /\ chainCalls < MaxCalls
    /\ chainCalls' = chainCalls + 1

\* Proxy::use; a faulty variant first: only an empty proxy takes the pool.
UseOnce(p, pool) == IF proxies[p] = EmptyProxy \/ pool = EmptyProxy THEN pool ELSE proxies[p]
UsePool(p, pool) == pool

\* What Manager::activate makes for proxy p.
NewPool(id, p) ==
    [id |-> id, made |-> IF edition = "manager" THEN <<id + p>> ELSE <<>>]

ChainActivate(id) ==
    /\ CountCall
    /\ manager = "alive"
    /\ proxies' = [p \in ProxyKeys |-> UsePool(p, NewPool(id, p))]
    /\ lastId' = id
    /\ UNCHANGED <<edition, manager, user, position, fetched, lockables>>

\* ~Manager empties the proxies; the Shared of a user keeps its proxy.
DestroyManager ==
    /\ CountCall
    /\ manager = "alive" /\ manager' = "destroyed"
    /\ proxies' = [p \in ProxyKeys |-> UsePool(p, EmptyProxy)]
    /\ lastId' = 0
    /\ UNCHANGED <<edition, user, position, fetched, lockables>>

\* Manager::get and the construction of a User.
GetUser(p) ==
    /\ CountCall
    /\ manager = "alive"
    /\ user' = p
    /\ UNCHANGED <<edition, manager, proxies, position, fetched, lockables, lastId>>

\* User::f, up to Shared::operator->.
CallF ==
    /\ CountCall
    /\ user # NoUser
    /\ position' = "proxy"
    /\ UNCHANGED <<edition, manager, proxies, user, fetched, lockables, lastId>>

ChainSame == UNCHANGED <<edition, manager, user, lastId, chainCalls>>

\* An empty proxy throws, and nothing catches.
ProxyArrow ==
    /\ position = "proxy"
    /\ position' = IF proxies[user] = EmptyProxy THEN "terminated" ELSE "pool"
    /\ ChainSame /\ UNCHANGED <<proxies, fetched, lockables>>

\* The first connection, made now if there is none.
PoolArrow ==
    /\ position = "pool"
    /\ LET pool == proxies[user]
           made == IF pool.made = <<>> THEN <<pool.id>> ELSE pool.made
       IN /\ proxies' = [proxies EXCEPT ![user].made = made]
          /\ fetched' = Head(made)
    /\ position' = "exclusive"
    /\ ChainSame /\ UNCHANGED lockables

\* The lock is the Lockable, which the full expression keeps.
ExclusiveArrow ==
    /\ position = "exclusive"
    /\ lockables' = lockables + 1
    /\ position' = "exec"
    /\ ChainSame /\ UNCHANGED <<proxies, fetched>>

\* Lockable::operator-> casts the connection to its database; then ~Lockable.
ExecOnDb ==
    /\ position = "exec"
    /\ position' = "idle"
    /\ fetched' = NoDb
    /\ lockables' = lockables - 1
    /\ ChainSame /\ UNCHANGED proxies

ChainNext ==
    \/ \E id \in Ids : ChainActivate(id)
    \/ \E p \in ProxyKeys : GetUser(p)
    \/ DestroyManager \/ CallF \/ ProxyArrow \/ PoolArrow \/ ExclusiveArrow \/ ExecOnDb

ChainSpec == ChainInit /\ [][ChainNext]_chainVars

-----------------------------------------------------------------------------
\* A user queries the database activated last, under one lock, whatever was pooled
\* before, and is refused only if none is active: before the first activation and
\* after the end of the manager, which it may outlive (User::f, Manager::activate).
QueriesActiveDb ==
    /\ position = "exec" =>
           /\ lastId # 0
           /\ fetched = IF edition = "manager" THEN lastId + user ELSE lastId
           /\ lockables = 1
    /\ position = "terminated" => lastId = 0
=============================================================================
