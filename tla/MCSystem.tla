------------------------------ MODULE MCSystem ------------------------------
(* An instance of System for TLC. *)
EXTENDS System, TLC, FiniteSetsExt

\* No guard reads what a step sends, the players a client counts or whether it
\* takes itself for the master client: states that differ in these alone are
\* explored once.
StateView == <<backlog, c2s, eof, clients, Connected, TotalClients, MasterClient,
               Players, fdSet, failed, bIsConnected, command, LocalPlayer,
               PlayerConnected, Views, s2c, numbered, joins>>

\* bound: unread packets on all connections together.  One stream can be full, and
\* lose packets in a read, but not several at a time.
UnderWayBound ==
    MapThenSumSet(LAMBDA p : Len(c2s[p]) + Len(s2c[p]), Peers) <= 2

\* bound: a login sent a second time, to no effect, is the only packet under way.
RepeatAlone ==
    \A i \in Slots : Connected[i] =>
        LET login == {n \in DOMAIN c2s[clients[i]] : c2s[clients[i]][n] = C!LoginPacket}
        IN  login # {} => \A p \in Peers :
                Len(c2s[p]) + Len(s2c[p]) <= IF p = clients[i] THEN 1 ELSE 0

PeerSymmetry == Permutations(Peers)
=============================================================================
