------------------------------ MODULE MCServer ------------------------------
(***************************************************************************)
(* Instances of Server for TLC: which packets the peers send.               *)
(***************************************************************************)
EXTENDS Server, TLC

Login(genuine, current) ==
    [type |-> "Welcome", Flags |-> {}, guid |-> genuine, version |-> current]

Report(r, h) ==
    [type |-> "ActorUpdate", Flags |-> {1, 2}, refID |-> r, CellID |-> StartCell,
     Health |-> h]
FullReport(flags, r, h) ==
    [type |-> "FullStatUpdate", Flags |-> flags, refID |-> r, Health |-> h]

Ready == [type |-> "Welcome", Flags |-> {1}, guid |-> FALSE, version |-> FALSE]

\* Packets that open sessions, or are refused.
SessionPackets ==
    {Login(TRUE, TRUE), Login(TRUE, FALSE)}

\* The others, one for each handler.  A player's health is always 1 here.
TablePackets ==
    {Ready, Report(0, 1), Report(MAXCLIENTS, 1), FullReport({2}, 0, 1),
     [type |-> "Disconnect", PlayerID |-> 0], [type |-> "Chat", refID |-> 0],
     [type |-> "Event"], [type |-> "TimeUpdate"]}

AllPackets == SessionPackets \cup TablePackets

\* bound: a packet of the second kind is under way only while nothing else is, and
\* nobody is leaving or waits; where a report was stored, no accept has failed.
TablePacketsAlone ==
    /\ \A p, q \in Peers :
           (\E n \in 1 .. Len(c2s[p]) : c2s[p][n] \in TablePackets)
           => /\ Len(c2s[p]) = 1 /\ (p # q => c2s[q] = <<>>)
              /\ ~eof[q] /\ backlog = <<>>
    /\ (\E i \in Slots : Players[i].bStatsInitialized) => failed = 0

\* No guard reads `out`: states that differ in it alone are explored once (the
\* action properties are evaluated on every step all the same).
StateView == <<backlog, c2s, eof, clients, Connected, TotalClients,
               MasterClient, Players, fdSet, failed>>

PeerSymmetry == Permutations(Peers)
=============================================================================
