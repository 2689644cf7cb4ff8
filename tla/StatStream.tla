----------------------------- MODULE StatStream -----------------------------
(***************************************************************************)
(* Server, with the stats its peers make of what it sends them: stats are   *)
(* reported to the server as values and leave it as differences, with full  *)
(* values now and then for the differences to start from.                   *)
(*                                                                          *)
(* Every peer is a listener that reads each packet by itself (System has    *)
(* the packets a client loses in its reads) and makes of it what a client   *)
(* does, by the rules of Stats.  The steps are those of Server; the two     *)
(* variables added here only look on.                                       *)
(***************************************************************************)
EXTENDS Server, Stats

VARIABLES
    held,       \* per peer and player: what the peer's client knows of the player
    full        \* per peer: the players of whom it was told full values, and has
                \* been able to follow since (a history variable)

streamVars == <<vars, held, full>>

StreamTypeOK ==
    /\ held \in [Peers -> [Slots -> Status]]
    /\ full \in [Peers -> SUBSET Slots]

Blank == [r \in Slots |-> Unheard]

StreamInit ==
    /\ Init
    /\ held = [p \in Peers |-> Blank]
    /\ full = [p \in Peers |-> {}]

-----------------------------------------------------------------------------
(* What p makes of a step of the server. *)

\* The first packet p is sent in this step.  A second one is more initial data,
\* all under one number (PlayerRefID), and a client takes initial data once.
Heard(p) == IF out'[p] = <<>> THEN [type |-> "Nothing"] ELSE Head(out'[p])

HeardUpdate(p, r) == Heard(p).type = "ActorUpdate" /\ Heard(p).refID = r
HeardFullStat(p, r) == Heard(p).type = "FullStatUpdate" /\ Heard(p).refID = r
HeardLeave(p, r) == Heard(p).type = "Disconnect" /\ Heard(p).PlayerID = r

\* MPConnect clears the tables, a Disconnect those of its player; an update without
\* the flag 1 is taken for one of an NPC.  (Whether the actor is known matters for
\* sums below 0 only, which no listener that can follow comes to.)
Makes(p, r) ==
    CASE p \in Waiting' /\ p \notin Waiting -> Unheard
      [] HeardUpdate(p, r) /\ 1 \in Heard(p).Flags -> Updated(held[p][r], Heard(p), TRUE)
      [] HeardFullStat(p, r) -> FullyUpdated(held[p][r], Heard(p))
      [] HeardLeave(p, r)    -> Unheard
      [] OTHER               -> held[p][r]

\* In this step the server handles a packet of p: in p's turn, unless that found the
\* end of the connection.
Served(p) == p \in fdSet \ fdSet' /\ c2s[p] # <<>>

\* A report about player r that the server stores.
ReportAbout(pkt, r) ==
    pkt.type \in {"ActorUpdate", "FullStatUpdate"} /\ pkt.refID = r

\* p is told full values of r: by the initial data it has asked for, when it is told
\* of r and has no values yet (all of it goes under the number 0, beginning with player
\* 0's own, so that r is 0); or by the initial flag of a full stat update.
ToldFull(p, r) ==
    \/ /\ Served(p) /\ HeardUpdate(p, r)
       /\ \E i \in Slots : clients[i] = p /\ r \in InitSlots(i)
       /\ ~held[p][r].bStatsInitialized
    \/ HeardFullStat(p, r) /\ 8 \in Heard(p).Flags

\* p cannot follow r any further: it leaves; it reports about r, of which the server
\* tells only the others; r leaves; r's values are sent on with the initial flag, so
\* that p, which has values, ignores them, or without the flag of a player; or a value
\* below 0 is reported, which either end may clamp.
LosesTrack(p, r) ==
    \/ p \notin Open'
    \/ Served(p) /\ ReportAbout(Head(c2s[p]), r)
    \/ HeardLeave(p, r)
    \/ /\ ~Served(p) /\ HeardUpdate(p, r)
       /\ 8 \in Heard(p).Flags \/ 1 \notin Heard(p).Flags
    \/ \E q \in Peers : /\ Served(q) /\ ReportAbout(Head(c2s[q]), r)
                        /\ Head(c2s[q]).type = "ActorUpdate"
                        /\ Head(c2s[q]).Health < 0

Listen ==
    /\ held' = [p \in Peers |-> [r \in Slots |-> Makes(p, r)]]
    /\ full' = [p \in Peers |->
           {r \in Slots : ~LosesTrack(p, r) /\ (r \in full[p] \/ ToldFull(p, r))}]

StreamNext == Next /\ Listen

StreamSpec == StreamInit /\ [][StreamNext]_streamVars

-----------------------------------------------------------------------------

\* A listener that was told full values of a player has the server's value after
\* every later difference, although others report about the same player, join, ask
\* for initial data and leave in between: the full values fit the differences that
\* follow them, and no difference is missed, sent twice or taken for a value
\* (PacketHandler.cpp:34-66,222-283,405-468; OONetwork.cpp:414-433,533-584).  What
\* ends this is LosesTrack; what players hold when it has ended, or who never were
\* told full values, is the subject of DifferencesMakeSense in System.
FollowersAgree ==
    \A p \in Peers : \A r \in full[p] : held[p][r].Health = Players[r].Health
=============================================================================
