------------------------------ MODULE MCDaemon ------------------------------
(* Two agents that want the same id, two daemons, three connections.        *)
EXTENDS Daemon, TLC

CONSTANTS a1, a2, d1, d2, c1, c2, c3, openclaw

SameId == [a \in Agents |-> Ids]
AllModes == {"eager", "managed", "socket"}
SocketMode == {"socket"}

\* Agents, daemons and connections are interchangeable.
Alike == Permutations(Agents) \cup Permutations(Daemons) \cup Permutations(Conns)
=============================================================================
