--------------------------- MODULE ConnectionPool ---------------------------
(***************************************************************************)
(* The connection pool inside the one httpx.AsyncClient that all callers   *)
(* share (external code, modelled from the client's use of it): at most    *)
(* MaxConnections exchanges at a time, everybody else waits in line and is *)
(* served in order of arrival.                                             *)
(***************************************************************************)
EXTENDS Naturals, FiniteSets

CONSTANTS Callers,         \* the requests a server can be working on at once
          MaxConnections   \* httpx's limit on open connections

ASSUME CallersAssumption == IsFiniteSet(Callers)
ASSUME MaxConnectionsAssumption == MaxConnections \in Nat \ {0}

VARIABLES held,   \* the callers whose call has a connection
          line,   \* the callers waiting for one
          ahead   \* for a caller in line: those who were in line before it

poolVars == <<held, line, ahead>>

PoolInit ==
    /\ held = {}
    /\ line = {}
    /\ ahead = [c \in Callers |-> {}]

PoolTypeOK ==
    /\ held \subseteq Callers
    /\ line \subseteq Callers
    /\ ahead \in [Callers -> SUBSET Callers]

\* The line once c has left it.
Behind(c) == [d \in Callers |-> IF d = c THEN {} ELSE ahead[d] \ {c}]

JoinLine(c) ==
    /\ line' = line \cup {c}
    /\ ahead' = [ahead EXCEPT ![c] = line]
    /\ UNCHANGED held

TakeConnection(c) ==
    /\ c \in line
    /\ ahead[c] = {}
    /\ Cardinality(held) < MaxConnections
    /\ held' = held \cup {c}
    /\ line' = line \ {c}
    /\ ahead' = Behind(c)

\* An exchange is over, or is given up while still in line.
GiveUpPlace(c) ==
    /\ held' = held \ {c}
    /\ line' = line \ {c}
    /\ ahead' = Behind(c)
=============================================================================
