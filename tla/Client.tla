------------------------------- MODULE Client -------------------------------
(***************************************************************************)
(* The game clients: the network layer of OblivionOnline/OONetwork.cpp and  *)
(* the commands of OblivionOnline/main.cpp that use it, for every peer.     *)
(*                                                                          *)
(* A client has two threads.  The game thread runs script commands, one at  *)
(* a time; connecting and disconnecting are split where the other thread    *)
(* can run in between.  The receiving thread reads from the socket and      *)
(* handles the first packet of each read.  What a client sends in a step is *)
(* the value of `sends` after the step.                                     *)
(*                                                                          *)
(* Chat, requests of the time and changes of equipment are left out: they   *)
(* change no state that is modelled here, at either end.                    *)
(*                                                                          *)
(* Which actor stands for which player is the subject of SpawnList: here a  *)
(* report is about any player a script may have an actor of.                *)
(***************************************************************************)
EXTENDS Integers, Sequences, Stats

CONSTANTS
    MAXCLIENTS,     \* length of the player tables
    Peers,          \* the clients
    Healths,        \* the values an actor's health may have in the game
    Cell,           \* the cell the actors are in
    RecvBound       \* bound: whole packets one recv of 512 bytes can return

Slots == 0 .. MAXCLIENTS - 1

VARIABLES
    bIsConnected,
    command,            \* where the game thread is: connecting, leaving, or neither
    LocalPlayer,        \* our number; 0 until a welcome assigns it
    PlayerConnected,
    TotalPlayers,
    Players,            \* what we know of every player
    bIsMasterClient,
    s2c,                \* packets the server sent and we have not read
    sends               \* what the last step sent to the server

session == <<bIsConnected, command, bIsMasterClient>>
views == <<LocalPlayer, PlayerConnected, TotalPlayers, Players>>
vars == <<bIsConnected, command, LocalPlayer, PlayerConnected, TotalPlayers,
          Players, bIsMasterClient, s2c, sends>>

Blank == [i \in Slots |-> Unheard]
Nobody == [i \in Slots |-> FALSE]
Quiet == [p \in Peers |-> <<>>]
Sending(p, pkt) == [Quiet EXCEPT ![p] = <<pkt>>]

TypeOK ==
    /\ bIsConnected \in [Peers -> BOOLEAN]
    /\ command \in [Peers -> {"none", "welcome", "close"}]
    /\ LocalPlayer \in [Peers -> Slots]
    /\ PlayerConnected \in [Peers -> [Slots -> BOOLEAN]]
    /\ TotalPlayers \in [Peers -> Int]
    /\ Players \in [Peers -> [Slots -> Status]]
    /\ bIsMasterClient \in [Peers -> BOOLEAN]

Init ==
    /\ bIsConnected = [p \in Peers |-> FALSE]
    /\ command = [p \in Peers |-> "none"]
    /\ LocalPlayer = [p \in Peers |-> 0]
    /\ PlayerConnected = [p \in Peers |-> Nobody]
    /\ TotalPlayers = [p \in Peers |-> 0]
    /\ Players = [p \in Peers |-> Blank]
    /\ bIsMasterClient = [p \in Peers |-> FALSE]
    /\ s2c = Quiet
    /\ sends = Quiet

-----------------------------------------------------------------------------
(* Commands of the game thread. *)

\* OO_Initialize, connect and the start of the receiving thread.  TotalPlayers
\* and LocalPlayer keep what the last session left.
MPConnect(p) ==
    /\ ~bIsConnected[p] /\ command[p] = "none"
    /\ bIsConnected' = [bIsConnected EXCEPT ![p] = TRUE]
    /\ command' = [command EXCEPT ![p] = "welcome"]
    /\ PlayerConnected' = [PlayerConnected EXCEPT ![p] = Nobody]
    /\ Players' = [Players EXCEPT ![p] = Blank]
    /\ s2c' = [s2c EXCEPT ![p] = <<>>]
    /\ sends' = Quiet
    /\ UNCHANGED <<LocalPlayer, TotalPlayers, bIsMasterClient>>

\* No server of the list answers: only the tables have been reset.
MPConnectFails(p) ==
    /\ ~bIsConnected[p] /\ command[p] = "none"
    /\ PlayerConnected' = [PlayerConnected EXCEPT ![p] = Nobody]
    /\ Players' = [Players EXCEPT ![p] = Blank]
    /\ sends' = Quiet
    /\ UNCHANGED <<session, LocalPlayer, TotalPlayers, s2c>>

LoginPacket == [type |-> "Welcome", Flags |-> {}, guid |-> TRUE, version |-> TRUE]

NetWelcome(p) ==
    /\ command[p] = "welcome"
    /\ command' = [command EXCEPT ![p] = "none"]
    /\ sends' = Sending(p, LoginPacket)
    /\ UNCHANGED <<bIsConnected, views, bIsMasterClient, s2c>>

\* A mutant of NetDisconnect: player numbers are sent as they are shown, from 1.
NetDisconnectFromOne(p) ==
    /\ bIsConnected[p] /\ command[p] = "none"
    /\ command' = [command EXCEPT ![p] = "close"]
    /\ sends' = Sending(p, [type |-> "Disconnect", PlayerID |-> LocalPlayer[p] + 1])
    /\ UNCHANGED <<bIsConnected, views, bIsMasterClient, s2c>>

\* MPDisconnect, first half.
NetDisconnect(p) ==
    /\ bIsConnected[p] /\ command[p] = "none"
    /\ command' = [command EXCEPT ![p] = "close"]
    /\ sends' = Sending(p, [type |-> "Disconnect", PlayerID |-> LocalPlayer[p]])
    /\ UNCHANGED <<bIsConnected, views, bIsMasterClient, s2c>>

\* OO_Deinitialize, second half of MPDisconnect: the receiving thread is ended
\* and the socket closed.
OO_Deinitialize(p) ==
    /\ command[p] = "close"
    /\ command' = [command EXCEPT ![p] = "none"]
    /\ bIsConnected' = [bIsConnected EXCEPT ![p] = FALSE]
    /\ PlayerConnected' = [PlayerConnected EXCEPT ![p] = Nobody]
    /\ Players' = [Players EXCEPT ![p] = Blank]
    /\ TotalPlayers' = [TotalPlayers EXCEPT ![p] = 0]
    /\ s2c' = [s2c EXCEPT ![p] = <<>>]
    /\ sends' = Quiet
    /\ UNCHANGED <<LocalPlayer, bIsMasterClient>>

\* The flags of a report about player n, and the report: the first about
\* ourselves carries the initial flag, and counts as sent even when the limiter
\* of NetActorUpdate or NetFullStatUpdate holds it back.
InitialFlag(p, n) ==
    IF n = LocalPlayer[p] /\ ~Players[p][n].bStatsInitialized THEN {8} ELSE {}

ReportSent(p, n, pkt) ==
    /\ command[p] = "none" /\ PlayerConnected[p][n]
    /\ \/ sends' = Sending(p, pkt)
       \/ sends' = Quiet
    /\ Players' = IF n = LocalPlayer[p]
                  THEN [Players EXCEPT ![p][n].bStatsInitialized = TRUE]
                  ELSE Players
    /\ UNCHANGED <<session, LocalPlayer, PlayerConnected, TotalPlayers, s2c>>

MPSendActor(p, n, h) ==
    ReportSent(p, n, [type |-> "ActorUpdate", Flags |-> {1, 2} \cup InitialFlag(p, n),
                      refID |-> n, CellID |-> Cell, Health |-> h])

MPSendFullStat(p, n, h) ==
    ReportSent(p, n, [type |-> "FullStatUpdate",
                      Flags |-> {2} \cup (IF n = LocalPlayer[p] THEN {1} ELSE {})
                                    \cup InitialFlag(p, n),
                      refID |-> n, Health |-> h])

\* The command that makes the client build its cache by hand, which also makes it
\* a master client in its own eyes.
MPBuildCache(p) ==
    /\ bIsConnected[p] /\ command[p] = "none"
    /\ bIsMasterClient' = [bIsMasterClient EXCEPT ![p] = TRUE]
    /\ sends' = Quiet
    /\ UNCHANGED <<bIsConnected, command, views, s2c>>

\* The login command, by which a script can repeat a login that was lost.  A client
\* that is not connected sends nothing, unless its socket was left open.
MPLogin(p) ==
    /\ command[p] = "none"
    /\ \/ sends' = Sending(p, LoginPacket)
       \/ ~bIsConnected[p] /\ sends' = Quiet
    /\ TotalPlayers' = [TotalPlayers EXCEPT ![p] = 1]
    /\ UNCHANGED <<session, LocalPlayer, PlayerConnected, Players, s2c>>

\* The game crashes or is closed, and is started again.
Restart(p) ==
    /\ bIsConnected' = [bIsConnected EXCEPT ![p] = FALSE]
    /\ command' = [command EXCEPT ![p] = "none"]
    /\ LocalPlayer' = [LocalPlayer EXCEPT ![p] = 0]
    /\ PlayerConnected' = [PlayerConnected EXCEPT ![p] = Nobody]
    /\ TotalPlayers' = [TotalPlayers EXCEPT ![p] = 0]
    /\ Players' = [Players EXCEPT ![p] = Blank]
    /\ bIsMasterClient' = [bIsMasterClient EXCEPT ![p] = FALSE]
    /\ s2c' = [s2c EXCEPT ![p] = <<>>]
    /\ sends' = Quiet

-----------------------------------------------------------------------------
(* The receiving thread: recv returns the first packets of the stream, and   *)
(* NetReadBuffer handles the first of them.                                  *)

Read(p, pkt, count) ==
    /\ bIsConnected[p] /\ s2c[p] # <<>>
    /\ pkt = Head(s2c[p])
    /\ count \in 1 .. RecvBound /\ count <= Len(s2c[p])
    /\ s2c' = [s2c EXCEPT ![p] = SubSeq(@, count + 1, Len(@))]
    /\ UNCHANGED command

\* A mutant of NumberOf: numbers are shown, and so sent, from 1.
NumberFromOne(pkt) == pkt.PlayerID + 1

\* The number in the NickName of a welcome, where the server prints PlayerID.
NumberOf(pkt) == pkt.PlayerID

\* A welcome with flag 2 is read for its flags alone; any other one makes us the
\* player it names and asks for the initial data.
HandleWelcome(p, pkt, count) ==
    /\ Read(p, pkt, count) /\ pkt.type = "Welcome"
    /\ bIsMasterClient' = [bIsMasterClient EXCEPT ![p] = 4 \in pkt.Flags]
    /\ IF 2 \in pkt.Flags THEN sends' = Quiet /\ UNCHANGED views
       ELSE /\ LocalPlayer' = [LocalPlayer EXCEPT ![p] = NumberOf(pkt)]
            /\ PlayerConnected' = [PlayerConnected EXCEPT ![p][NumberOf(pkt)] = TRUE]
            /\ \E h \in Healths :
                   Players' = [Players EXCEPT ![p][NumberOf(pkt)].Health = h]
            /\ sends' = Sending(p, [type |-> "Welcome", Flags |-> {1},
                                    guid |-> FALSE, version |-> FALSE])
            /\ UNCHANGED TotalPlayers
    /\ UNCHANGED bIsConnected

HandleDisconnect(p, pkt, count) ==
    /\ Read(p, pkt, count) /\ pkt.type = "Disconnect"
    /\ PlayerConnected' = [PlayerConnected EXCEPT ![p][pkt.PlayerID] = FALSE]
    /\ TotalPlayers' = [TotalPlayers EXCEPT ![p] = @ - 1]
    /\ Players' = [Players EXCEPT ![p][pkt.PlayerID] = Blank[pkt.PlayerID]]
    /\ sends' = Quiet
    /\ UNCHANGED <<bIsConnected, LocalPlayer, bIsMasterClient>>

\* The number is our own and the flags, which the server does not set, happen to
\* be 1: the thread ends itself before it has closed the socket.
HandleOwnDisconnect(p, pkt, count) ==
    /\ Read(p, pkt, count) /\ pkt.type = "Disconnect"
    /\ pkt.PlayerID = LocalPlayer[p]
    /\ bIsConnected' = [bIsConnected EXCEPT ![p] = FALSE]
    /\ PlayerConnected' = [PlayerConnected EXCEPT ![p] = Nobody]
    /\ TotalPlayers' = [TotalPlayers EXCEPT ![p] = 1]
    /\ sends' = Quiet
    /\ UNCHANGED <<LocalPlayer, Players, bIsMasterClient>>

\* The first update of a player makes it connected, and is answered with our
\* equipment unless the limiter of NetEquipped holds that back.
HandleActorUpdate(p, pkt, count) ==
    /\ Read(p, pkt, count) /\ pkt.type = "ActorUpdate"
    /\ 1 \in pkt.Flags /\ pkt.refID < MAXCLIENTS
    /\ PlayerConnected' = [PlayerConnected EXCEPT ![p][pkt.refID] = TRUE]
    /\ IF PlayerConnected[p][pkt.refID]
       THEN sends' = Quiet /\ UNCHANGED TotalPlayers
       ELSE /\ TotalPlayers' = [TotalPlayers EXCEPT ![p] = @ + 1]
            /\ \/ sends' = Sending(p, [type |-> "Equipped", refID |-> LocalPlayer[p]])
               \/ sends' = Quiet
    /\ \E known \in {pkt.refID = LocalPlayer[p], TRUE} :
           Players' = [Players EXCEPT ![p][pkt.refID] = Updated(@, pkt, known)]
    /\ UNCHANGED <<bIsConnected, LocalPlayer, bIsMasterClient>>

\* A full stat update is handled when nothing was read with it.
HandleFullStatUpdate(p, pkt, count) ==
    /\ Read(p, pkt, count) /\ pkt.type = "FullStatUpdate"
    /\ Players' =
           IF count > 1 \/ pkt.refID >= MAXCLIENTS THEN Players
           ELSE [Players EXCEPT ![p][pkt.refID] = FullyUpdated(@, pkt)]
    /\ sends' = Quiet
    /\ UNCHANGED <<session, LocalPlayer, PlayerConnected, TotalPlayers>>

\* Chat, equipment, time and events change nothing that is modelled here; an
\* update of an NPC is the subject of MobSynch, and bytes that are no packet are
\* skipped.
HandleOther(p, pkt, count) ==
    /\ Read(p, pkt, count)
    /\ \/ pkt.type \notin {"Welcome", "Disconnect", "ActorUpdate", "FullStatUpdate"}
       \/ pkt.type = "ActorUpdate" /\ ~(1 \in pkt.Flags /\ pkt.refID < MAXCLIENTS)
    /\ sends' = Quiet
    /\ UNCHANGED <<bIsConnected, bIsMasterClient, views>>

-----------------------------------------------------------------------------

Reads(p) ==
    \E count \in 1 .. RecvBound :
        s2c[p] # <<>> /\
        LET pkt == Head(s2c[p])
        IN  \/ HandleWelcome(p, pkt, count)
            \/ HandleDisconnect(p, pkt, count) \/ HandleOwnDisconnect(p, pkt, count)
            \/ HandleActorUpdate(p, pkt, count) \/ HandleFullStatUpdate(p, pkt, count)
            \/ HandleOther(p, pkt, count)

Commands(p) ==
    \/ MPConnectFails(p) \/ NetWelcome(p) \/ NetDisconnect(p)
    \/ MPLogin(p) \/ MPBuildCache(p)
    \/ \E n \in Slots, h \in Healths : MPSendActor(p, n, h) \/ MPSendFullStat(p, n, h)
=============================================================================
