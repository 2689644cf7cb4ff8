------------------------------- MODULE Server -------------------------------
(***************************************************************************)
(* The OblivionOnline server: the main loop of GUI_Server/ConsoleServer.cpp *)
(* (select, accept, one recv per readable slot) and the packet handlers of  *)
(* GUI_Server/PacketHandler.cpp it dispatches to.                           *)
(*                                                                          *)
(* The server is one thread; its environment is a set of game clients       *)
(* ("peers") that connect, send packets, close and reset their connections  *)
(* at any moment between two steps of the loop.                             *)
(*                                                                          *)
(* What the server sends in a step is the value of `out` after the step: a  *)
(* sequence of packets per peer.  The network from the server to the peers  *)
(* is not part of this module; a composition appends out' to it.            *)
(***************************************************************************)
EXTENDS Integers, Sequences, FiniteSets

CONSTANTS
    MAXCLIENTS,     \* number of slots (12 in ConsoleServer.h)
    Peers,          \* the game clients; a peer has at most one connection
    NoSocket,       \* INVALID_SOCKET, the content of a free slot
    acceptSocket,   \* the listening socket, as a member of fdSet
    ClientPackets,  \* the packets a peer may send
    Cells,          \* cell identifiers (CellID)
    StartCell,      \* the cell every player starts in (0x2C16E)
    StreamBound,    \* bound: unread packets in one connection
    RecvBound,      \* bound: whole packets one recv of 256 bytes can return
    ResetBound      \* bound: accept calls that fail in a behaviour

Slots == 0 .. MAXCLIENTS - 1

\* A flag word is the set of the bit values that are set in it.
Bits == {1, 2, 4, 8}

\* What a peer can put on the wire, by packet type.  Position, rotation,
\* equipment and text are abstracted away; Health stands for the three basic
\* stats, which the code treats with three identical blocks.
WelcomePackets ==
    [type : {"Welcome"}, Flags : SUBSET {1}, guid : BOOLEAN, version : BOOLEAN]
ActorPackets ==
    [type : {"ActorUpdate"}, Flags : SUBSET Bits, refID : Nat,
     CellID : Cells, Health : Int]
FullStatPackets ==
    [type : {"FullStatUpdate"}, Flags : SUBSET Bits, refID : Nat, Health : Int]
DisconnectPackets == [type : {"Disconnect"}, PlayerID : Slots]
RelayedPackets == [type : {"Chat", "Equipped"}, refID : Nat]
OtherPackets == [type : {"Event", "EventRegister", "TimeUpdate", "AdminInfo"}]

PacketTypes ==
    WelcomePackets \cup ActorPackets \cup FullStatPackets
        \cup DisconnectPackets \cup RelayedPackets \cup OtherPackets

ASSUME MaxClientsAssumption == MAXCLIENTS \in Nat \ {0}
ASSUME PeersAssumption == /\ IsFiniteSet(Peers)
                          /\ NoSocket \notin Peers
                          /\ acceptSocket \notin Peers
                          /\ acceptSocket # NoSocket
ASSUME CellAssumption == StartCell \in Cells
ASSUME PacketAssumption == ClientPackets \subseteq PacketTypes
ASSUME BoundAssumption == /\ StreamBound \in Nat
                          /\ RecvBound \in Nat \ {0}
                          /\ ResetBound \in Nat

-----------------------------------------------------------------------------
VARIABLES
    backlog,        \* connections made but not accepted, oldest first
    c2s,            \* per peer: packets sent and not yet read by the server
    eof,            \* per peer: it has closed its end of the connection
    clients,        \* per slot: the peer connected there, or NoSocket
    Connected,      \* per slot: it was welcomed
    TotalClients,   \* the connection count shown to the server list
    MasterClient,   \* the slot of the master client, -1 for none
    Players,        \* per slot: what the server knows of the player
    fdSet,          \* sockets select reported readable, not yet served
    failed,         \* how many accept calls have failed (a ghost)
    out             \* per peer: what the last step sent it

network == <<backlog, c2s, eof>>
sessions == <<clients, Connected, TotalClients, MasterClient>>
vars == <<backlog, c2s, eof, clients, Connected, TotalClients, MasterClient,
          Players, fdSet, failed, out>>

PlayerStatus == [CellID : Cells, Health : Int, bStatsInitialized : BOOLEAN]

WelcomeReplies == [type : {"Welcome"}, Flags : SUBSET Bits, PlayerID : Slots]
MasterNotices == [type : {"Welcome"}, Flags : SUBSET Bits]
StrayBytes == [type : {"PointerBytes"}]
ServerPackets == PacketTypes \cup WelcomeReplies \cup MasterNotices \cup StrayBytes

TypeOK ==
    /\ backlog \in Seq(Peers)
    /\ c2s \in [Peers -> Seq(ClientPackets)]
    /\ eof \in [Peers -> BOOLEAN]
    /\ clients \in [Slots -> Peers \cup {NoSocket}]
    /\ Connected \in [Slots -> BOOLEAN]
    /\ TotalClients \in Int
    /\ MasterClient \in Slots \cup {-1}
    /\ Players \in [Slots -> PlayerStatus]
    /\ fdSet \subseteq Peers \cup {acceptSocket}
    /\ failed \in Nat
    /\ out \in [Peers -> Seq(ServerPackets)]

\* The peers whose connections the server holds, and those that wait.
Open == {clients[i] : i \in Slots} \ {NoSocket}
Waiting == {backlog[n] : n \in 1 .. Len(backlog)}

Silence == [p \in Peers |-> <<>>]
To(S, pkt) == [p \in Peers |-> IF p \in S THEN <<pkt>> ELSE <<>>]

\* A mutant of Others: it tests Connected in place of the socket.
OthersWelcomed(i) == {clients[j] : j \in {k \in Slots \ {i} : Connected[k]}} \ {NoSocket}

\* "cx != LocalPlayer && clients[cx]": INVALID_SOCKET is not 0, so the second
\* test never excludes a slot, and a send to a free slot fails without effect.
Others(i) == {clients[j] : j \in Slots \ {i}} \ {NoSocket}

Init ==
    /\ backlog = <<>>
    /\ c2s = [p \in Peers |-> <<>>]
    /\ eof = [p \in Peers |-> FALSE]
    /\ clients = [i \in Slots |-> NoSocket]
    /\ Connected = [i \in Slots |-> FALSE]
    /\ TotalClients = 0
    /\ MasterClient = -1
    /\ Players = [i \in Slots |-> [CellID |-> StartCell, Health |-> 1,
                                   bStatsInitialized |-> FALSE]]
    /\ fdSet = {}
    /\ failed = 0
    /\ out = Silence

-----------------------------------------------------------------------------
(* The peers. *)

Environment == UNCHANGED <<sessions, Players, fdSet, failed>> /\ out' = Silence

Connect(p) ==
    /\ p \notin Open \cup Waiting
    /\ backlog' = Append(backlog, p)
    /\ c2s' = [c2s EXCEPT ![p] = <<>>]
    /\ eof' = [eof EXCEPT ![p] = FALSE]
    /\ Environment

Send(p) ==
    /\ p \in Open \cup Waiting /\ ~eof[p]
    /\ Len(c2s[p]) < StreamBound
    /\ \E pkt \in ClientPackets : c2s' = [c2s EXCEPT ![p] = Append(@, pkt)]
    /\ UNCHANGED <<backlog, eof>>
    /\ Environment

\* The peer closes its connection: what it has sent is still delivered.
Close(p) ==
    /\ p \in Open \cup Waiting /\ ~eof[p]
    /\ eof' = [eof EXCEPT ![p] = TRUE]
    /\ UNCHANGED <<backlog, c2s>>
    /\ Environment

\* The connection is reset (the peer crashes, or closes with data unread):
\* what the server has not read is lost.
Reset(p) ==
    /\ p \in Open \cup Waiting /\ ~eof[p]
    /\ eof' = [eof EXCEPT ![p] = TRUE]
    /\ c2s' = [c2s EXCEPT ![p] = <<>>]
    /\ UNCHANGED backlog
    /\ Environment

-----------------------------------------------------------------------------
(* The main loop: select, accept at most one connection, then serve the     *)
(* slots select reported, in ascending order, one recv each.                *)

\* Mutants of Readable: a closed connection is not reported; a new connection
\* is reported only when no slot is readable.
ReadableData == {p \in Open : c2s[p] # <<>>}
                    \cup (IF backlog # <<>> THEN {acceptSocket} ELSE {})
ReadableFirst ==
    LET ready == {p \in Open : c2s[p] # <<>> \/ eof[p]}
    IN  IF ready = {} /\ backlog # <<>> THEN {acceptSocket} ELSE ready

Readable == {p \in Open : c2s[p] # <<>> \/ eof[p]}
                \cup (IF backlog # <<>> THEN {acceptSocket} ELSE {})

\* select() blocks until a socket is readable.
Select ==
    /\ fdSet = {}
    /\ Readable # {}
    /\ fdSet' = Readable
    /\ out' = Silence
    /\ UNCHANGED <<network, sessions, Players, failed>>

\* A mutant of FirstFree: it takes an unwelcomed slot to be a free one.
FirstUnwelcomed(i) == /\ ~Connected[i]
                      /\ \A j \in Slots : j < i => Connected[j]

FirstFree(i) == /\ clients[i] = NoSocket
                /\ \A j \in Slots : j < i => clients[j] # NoSocket

Accept(i) ==
    /\ acceptSocket \in fdSet
    /\ FirstFree(i)
    /\ clients' = [clients EXCEPT ![i] = Head(backlog)]
    /\ TotalClients' = TotalClients + 1
    /\ backlog' = Tail(backlog)
    /\ fdSet' = fdSet \ {acceptSocket}
    /\ out' = Silence
    /\ UNCHANGED <<c2s, eof, Connected, MasterClient, Players, failed>>

\* accept() returns INVALID_SOCKET for a connection its peer has given up:
\* the result is not checked, and the connection is counted all the same.
AcceptFails(i) ==
    /\ acceptSocket \in fdSet
    /\ FirstFree(i)
    /\ eof[Head(backlog)] /\ failed < ResetBound
    /\ clients' = [clients EXCEPT ![i] = NoSocket]
    /\ TotalClients' = TotalClients + 1
    /\ failed' = failed + 1
    /\ backlog' = Tail(backlog)
    /\ fdSet' = fdSet \ {acceptSocket}
    /\ out' = Silence
    /\ UNCHANGED <<c2s, eof, Connected, MasterClient, Players>>

\* Every slot is taken: the connection stays in the backlog.
AcceptNone ==
    /\ acceptSocket \in fdSet
    /\ \A i \in Slots : clients[i] # NoSocket
    /\ fdSet' = fdSet \ {acceptSocket}
    /\ out' = Silence
    /\ UNCHANGED <<network, sessions, Players, failed>>

\* Slot i is the next one the scan serves.
Turn(i) ==
    /\ acceptSocket \notin fdSet
    /\ clients[i] \in fdSet
    /\ \A j \in Slots : j < i => clients[j] \notin fdSet

\* A mutant of Recv: a slot that has been served is served again in the round.
RecvAgain(i, pkt) ==
    /\ Turn(i)
    /\ c2s[clients[i]] # <<>>
    /\ pkt = Head(c2s[clients[i]])
    /\ UNCHANGED <<fdSet, backlog, failed>>

\* recv() at slot i returns the first packets of the stream; ScanBuffer looks
\* at the first of them, pkt, and the loop drops the others.
Recv(i, pkt) ==
    /\ Turn(i)
    /\ c2s[clients[i]] # <<>>
    /\ pkt = Head(c2s[clients[i]])
    /\ fdSet' = fdSet \ {clients[i]}
    /\ UNCHANGED <<backlog, failed>>

DropRead(i) ==
    /\ \E k \in 1 .. RecvBound :
           /\ k <= Len(c2s[clients[i]])
           /\ c2s' = [c2s EXCEPT ![clients[i]] = SubSeq(@, k + 1, Len(@))]
    /\ UNCHANGED eof

\* closesocket(clients[i]): nothing of the connection is left.
CloseSocket(i) ==
    /\ clients' = [clients EXCEPT ![i] = NoSocket]
    /\ c2s' = [c2s EXCEPT ![clients[i]] = <<>>]
    /\ eof' = [eof EXCEPT ![clients[i]] = FALSE]

-----------------------------------------------------------------------------
(* OOPWelcome_Handler. *)

\* The RefID of Players[i], which no code of the server assigns: it keeps the
\* zero of static storage.
PlayerRefID(i) == 0

InitData(i) ==
    [type |-> "ActorUpdate", Flags |-> {1, 2, 4, 8}, refID |-> PlayerRefID(i),
     CellID |-> Players[i].CellID, Health |-> Players[i].Health]

\* The slots whose players the peer at slot i is told about.
InitSlots(i) ==
    {j \in Slots \ {i} : Connected[j] /\ Players[j].bStatsInitialized}

\* The elements of a set of slots, in the order of the loop over the slots.
Ascending(S) ==
    {s \in [1 .. Cardinality(S) -> S] :
        \A m, n \in 1 .. Cardinality(S) : m < n => s[m] < s[n]}

\* "I'm ready for init data".
WelcomeReady(i) ==
    \E pkt \in ClientPackets :
        /\ pkt.type = "Welcome" /\ 1 \in pkt.Flags
        /\ Recv(i, pkt) /\ DropRead(i)
        /\ \E told \in Ascending(InitSlots(i)) :
               out' = [Silence EXCEPT ![clients[i]] =
                           [n \in 1 .. Cardinality(InitSlots(i)) |-> InitData(told[n])]]
        /\ UNCHANGED <<sessions, Players>>

\* A peer that was welcomed before is not welcomed again.
WelcomeAgain(i) ==
    \E pkt \in ClientPackets :
        /\ pkt.type = "Welcome" /\ 1 \notin pkt.Flags /\ Connected[i]
        /\ Recv(i, pkt) /\ DropRead(i)
        /\ out' = Silence
        /\ UNCHANGED <<sessions, Players>>

\* A mutant of NumberGiven: players are numbered as they come.
NumberByCount(i) == TotalClients - 1

\* The number a welcome gives the player of slot i.
NumberGiven(i) == i

\* The first player welcomed becomes master client, flag 2 in its welcome.
WelcomePlayer(i) ==
    \E pkt \in ClientPackets :
        /\ pkt.type = "Welcome" /\ 1 \notin pkt.Flags /\ ~Connected[i]
        /\ pkt.guid /\ pkt.version
        /\ Recv(i, pkt) /\ DropRead(i)
        /\ Connected' = [Connected EXCEPT ![i] = TRUE]
        /\ MasterClient' = IF MasterClient = -1 THEN i ELSE MasterClient
        /\ out' = To({clients[i]},
                     [type |-> "Welcome", PlayerID |-> NumberGiven(i),
                      Flags |-> IF MasterClient = -1 THEN {1, 2} ELSE {1}])
        /\ UNCHANGED <<clients, TotalClients, Players>>

\* A mutant of WelcomeRejected: the connection is not counted out.
WelcomeRejectedUncounted(i) ==
    \E pkt \in ClientPackets :
        /\ pkt.type = "Welcome" /\ 1 \notin pkt.Flags /\ ~Connected[i]
        /\ ~(pkt.guid /\ pkt.version)
        /\ Recv(i, pkt)
        /\ CloseSocket(i)
        /\ out' = Silence
        /\ UNCHANGED <<Connected, TotalClients, MasterClient, Players>>

\* Another version, or another program: it is removed without an answer.
WelcomeRejected(i) ==
    \E pkt \in ClientPackets :
        /\ pkt.type = "Welcome" /\ 1 \notin pkt.Flags /\ ~Connected[i]
        /\ ~(pkt.guid /\ pkt.version)
        /\ Recv(i, pkt)
        /\ TotalClients' = TotalClients - 1
        /\ CloseSocket(i)
        /\ out' = Silence
        /\ UNCHANGED <<Connected, MasterClient, Players>>

-----------------------------------------------------------------------------
(* The other handlers. *)

\* OOPDisconnect_Handler sends (char *)&InPkgBuf, the bytes of its own pointer
\* and what follows it on the stack, in place of the packet.
RelayDisconnect(i) ==
    \E pkt \in ClientPackets :
        /\ pkt.type = "Disconnect"
        /\ Recv(i, pkt) /\ DropRead(i)
        /\ out' = IF Connected[i] THEN To(Others(i), [type |-> "PointerBytes"])
                                  ELSE Silence
        /\ UNCHANGED <<sessions, Players>>

\* A mutant of SentStat: the reported value goes out in place of the difference.
SentAbsolute(was, now) == now

\* The stored stat and the difference sent on when `now` is reported for a
\* player whose stored stat is `was`.  A report that changes nothing sends 0; a
\* sum below 0 is clamped, and added to the difference a second time.
Clamps(was, now) == now # was /\ was + (now - was) < 0
StoredStat(was, now) == IF Clamps(was, now) THEN 0 ELSE now
SentStat(was, now) ==
    IF Clamps(was, now) THEN (now - was) + now ELSE now - was

\* OOPActorUpdate_Handler for a player: whoever sends it, the update is about
\* player refID.
ActorUpdate(i) ==
    \E pkt \in ClientPackets :
        /\ pkt.type = "ActorUpdate" /\ pkt.refID < MAXCLIENTS
        /\ Recv(i, pkt) /\ DropRead(i)
        /\ LET player == Players[pkt.refID]
               flags == IF player.bStatsInitialized THEN pkt.Flags
                                                    ELSE pkt.Flags \cup {8}
           IN  /\ Players' = [Players EXCEPT ![pkt.refID] =
                     [CellID |-> pkt.CellID,
                      Health |-> StoredStat(player.Health, pkt.Health),
                      bStatsInitialized |-> TRUE]]
               /\ out' = To(Others(i),
                     [pkt EXCEPT !.Flags = flags,
                                 !.Health = SentStat(player.Health, pkt.Health)])
        /\ UNCHANGED sessions

\* "InPkgBuf->Flags | 1" is never 0, so the branch for NPCs is never taken and
\* an update of one is dropped.
NpcUpdate(i) ==
    \E pkt \in ClientPackets :
        /\ pkt.type = "ActorUpdate" /\ pkt.refID >= MAXCLIENTS
        /\ Recv(i, pkt) /\ DropRead(i)
        /\ out' = Silence
        /\ UNCHANGED <<sessions, Players>>

\* OOPFullStatUpdate_Handler: initial values are stored and sent on as they
\* are, later ones as the difference, never clamped.
FullStatUpdate(i) ==
    \E pkt \in ClientPackets :
        /\ pkt.type = "FullStatUpdate" /\ pkt.refID < MAXCLIENTS
        /\ Recv(i, pkt) /\ DropRead(i)
        /\ Players' = [Players EXCEPT ![pkt.refID].Health = pkt.Health]
        /\ out' = To(Others(i),
                     IF 8 \in pkt.Flags THEN pkt
                     ELSE [pkt EXCEPT !.Health = @ - Players[pkt.refID].Health])
        /\ UNCHANGED sessions

\* OOPChat_Handler and OOPEquipped_Handler.
Relay(i) ==
    \E pkt \in ClientPackets :
        /\ pkt.type \in {"Chat", "Equipped"}
        /\ Recv(i, pkt) /\ DropRead(i)
        /\ out' = To(Others(i), pkt)
        /\ UNCHANGED <<sessions, Players>>

\* OOPEvent_Handler, OOPEventRegister_Handler, and a full stat update of an NPC.
Ignore(i) ==
    \E pkt \in ClientPackets :
        /\ \/ pkt.type \in {"Event", "EventRegister"}
           \/ pkt.type = "FullStatUpdate" /\ pkt.refID >= MAXCLIENTS
        /\ Recv(i, pkt) /\ DropRead(i)
        /\ out' = Silence
        /\ UNCHANGED <<sessions, Players>>

\* OOPTimeUpdate_Handler, the default case of ScanBuffer: it answers every
\* peer, not only the one that asked, and serves the admin packets as well.
TimeUpdate(i) ==
    \E pkt \in ClientPackets :
        /\ pkt.type \in {"TimeUpdate", "AdminInfo"}
        /\ Recv(i, pkt) /\ DropRead(i)
        /\ out' = To(Open, [type |-> "TimeUpdate"])
        /\ UNCHANGED <<sessions, Players>>

-----------------------------------------------------------------------------
(* recv() returned 0 or an error: the peer is gone.  When it was the master *)
(* client, the loop assigns MasterClient once per connected slot -- the     *)
(* leaver, which is still marked connected, among them -- so the last one   *)
(* stands, and sends each notice to the leaver's socket.                    *)

Welcomed == {j \in Slots : Connected[j]}

\* Mutants of NewMaster: the loop variable is read after the loop has ended;
\* the master client is forgotten and not replaced.
NewMasterPastEnd(i) == IF i = MasterClient THEN {MAXCLIENTS} ELSE {MasterClient}
NewMasterNone(i) == IF i = MasterClient THEN {-1} ELSE {MasterClient}

\* The value left in MasterClient (the one element of the set).
NewMaster(i) ==
    IF i = MasterClient /\ Welcomed # {}
    THEN {j \in Welcomed : \A k \in Welcomed : k <= j}
    ELSE {MasterClient}

Notices(i) ==
    IF i = MasterClient
    THEN [n \in 1 .. Cardinality(Welcomed) |-> [type |-> "Welcome", Flags |-> {2, 4}]]
    ELSE <<>>

PeerGone(i) ==
    /\ Turn(i)
    /\ c2s[clients[i]] = <<>> /\ eof[clients[i]]
    /\ fdSet' = fdSet \ {clients[i]}
    /\ TotalClients' = TotalClients - 1
    /\ MasterClient' \in NewMaster(i)
    /\ Connected' = [Connected EXCEPT ![i] = FALSE]
    /\ CloseSocket(i)
    /\ out' = [To(Others(i), [type |-> "Disconnect", PlayerID |-> i])
                   EXCEPT ![clients[i]] = Notices(i)]
    /\ UNCHANGED <<backlog, Players, failed>>

-----------------------------------------------------------------------------

PeerStep == \E p \in Peers : Connect(p) \/ Send(p) \/ Close(p) \/ Reset(p)

Serve(i) ==
    \/ WelcomeReady(i) \/ WelcomeAgain(i) \/ WelcomePlayer(i) \/ WelcomeRejected(i)
    \/ RelayDisconnect(i)
    \/ ActorUpdate(i) \/ NpcUpdate(i) \/ FullStatUpdate(i)
    \/ Relay(i) \/ Ignore(i) \/ TimeUpdate(i)
    \/ PeerGone(i)

ServerStep ==
    \/ Select
    \/ \E i \in Slots : Accept(i) \/ AcceptFails(i)
    \/ AcceptNone
    \/ \E i \in Slots : Serve(i)

Next == PeerStep \/ ServerStep

Spec == Init /\ [][Next]_vars

\* The main loop keeps running: select is the only call it waits in (the peers
\* read fast enough for send not to block).  The peers promise nothing.
FairSpec == Spec /\ WF_vars(ServerStep)

-----------------------------------------------------------------------------
(* What must be true of it. *)

\* The number of connections published to the server list ("players=") and
\* logged ("We now have %d connections") is the number of taken slots, plus
\* one for every accept call that ever failed: no other path of accept, leave
\* or rejection miscounts (ConsoleServer.cpp:241,292, PacketHandler.cpp:129,153).
CountExact ==
    TotalClients = Cardinality({i \in Slots : clients[i] # NoSocket}) + failed

\* A master client is on record exactly when some player has been welcomed:
\* nobody plays before there is one (PacketHandler.cpp:95).
MasterOnRecord == MasterClient = -1 => Welcomed = {}

\* The loop never waits in accept or recv, where one silent peer would stop the
\* game for everybody: what select reported is still readable when it is used,
\* although a connection is accepted, others are closed and peers close and reset
\* theirs between the report and its use (ConsoleServer.cpp:215-270).
NeverBlocks == fdSet \subseteq Readable

\* The master client's part goes to a player who stays, whenever one in a higher
\* slot plays: only a master client above all others can leave the part to nobody
\* (ConsoleServer.cpp:299-313; the case it fails in is MasterIsPlaying's).
MasterHandedOver ==
    [][\A i \in Slots :
          /\ i = MasterClient /\ Connected[i] /\ ~Connected'[i]
          /\ \E j \in Welcomed : j > i
          => MasterClient' \in Welcomed']_vars

\* When a welcomed player's session ends, every peer connected at that moment
\* is sent a Disconnect with its number, whichever path ends the session
\* (ConsoleServer.cpp:275-282; PacketHandler.cpp:119-165 ends sessions too).
LeaversAnnounced ==
    [][\A i, j \in Slots :
          /\ Connected[i] /\ ~Connected'[i]
          /\ j # i /\ clients[j] # NoSocket
          => \E n \in 1 .. Len(out'[clients[j]]) :
                 out'[clients[j]][n] = [type |-> "Disconnect", PlayerID |-> i]]_vars

\* The slots are the seats of Sessions: lowest free slot first, no peer in two
\* slots, welcomed once per session, and a slot that is taken again starts
\* unwelcomed (ConsoleServer.cpp:225-257,319-321, PacketHandler.cpp:68-165).
SeatSpec == INSTANCE Sessions
                WITH Seats <- Slots, People <- Peers, Nobody <- NoSocket,
                     seat <- clients, welcomed <- Welcomed

ImplementsSessions == SeatSpec!Spec

\* A peer that has closed its connection does not keep its slot for ever: the
\* loop reads what it left, then frees the slot, however busy the others are
\* and even while a full server spins on its backlog (ConsoleServer.cpp:201-328).
DepartedPeerFreed ==
    \A p \in Peers : (p \in Open /\ eof[p]) ~> (p \notin Open)

\* A connection in the backlog is accepted or refused, unless the slots are
\* all taken (ConsoleServer.cpp:223-258).
WaitingPeerAccepted ==
    \A p \in Peers :
        p \in Waiting ~> (p \notin Waiting \/ \A i \in Slots : clients[i] # NoSocket)

\* The comment at ConsoleServer.cpp:301, "Remove him and select a new master
\* client": while anybody plays, the master client is one of the players.
MasterIsPlaying == Welcomed # {} => MasterClient \in Welcomed
=============================================================================
