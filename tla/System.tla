------------------------------- MODULE System -------------------------------
(***************************************************************************)
(* The server and its clients, joined by the connections between them.      *)
(*                                                                          *)
(* Server says what a server does with peers that may send anything at any  *)
(* time; here the peers are the game clients of Client.  What a client      *)
(* sends joins the stream the server reads, what the server sends joins the *)
(* stream the client reads; the receiver of a full stream makes the sender  *)
(* wait, which for the server means everybody.                              *)
(***************************************************************************)
EXTENDS Integers, Sequences, FiniteSets

CONSTANTS
    MAXCLIENTS, Peers, NoSocket, acceptSocket, Cell, Healths,
    StreamBound,    \* bound: unread packets from a client to the server
    InboxBound,     \* bound: unread packets from the server to a client
    RecvBound,      \* bound: whole packets one recv can return, on either side
    ResetBound,     \* bound: accept calls that fail in a behaviour
    JoinBound       \* bound: connections made in a behaviour

Slots == 0 .. MAXCLIENTS - 1

ASSUME SystemAssumption == /\ MAXCLIENTS \in Nat \ {0}
                           /\ Healths \subseteq Nat
                           /\ InboxBound \in Nat /\ StreamBound \in Nat
                           /\ RecvBound \in Nat \ {0}
                           /\ ResetBound \in Nat /\ JoinBound \in Nat
ASSUME SocketAssumption == /\ IsFiniteSet(Peers)
                           /\ NoSocket \notin Peers
                           /\ acceptSocket \notin Peers
                           /\ acceptSocket # NoSocket

VARIABLES
    (* of the server *)
    backlog, c2s, eof, clients, Connected, TotalClients, MasterClient, Players,
    fdSet, failed, out,
    (* of the clients *)
    bIsConnected, command, LocalPlayer, PlayerConnected, TotalPlayers,
    Views,          \* per client: its own Players
    bIsMasterClient, s2c, sends,
    (* of neither *)
    numbered,       \* per client: it took a number from a welcome since it connected
    joins           \* how many connections were made

\* What a client can send: its own login and answer to a welcome, reports about
\* any player, and the rest under the number it takes for its own.
ClientPackets ==
    {[type |-> "Welcome", Flags |-> {}, guid |-> TRUE, version |-> TRUE],
     [type |-> "Welcome", Flags |-> {1}, guid |-> FALSE, version |-> FALSE]}
    \cup [type : {"ActorUpdate"}, Flags : {{1, 2}, {1, 2, 8}}, refID : Slots,
          CellID : {Cell}, Health : Healths]
    \cup [type : {"FullStatUpdate"}, Flags : {{2}, {1, 2}, {1, 2, 8}},
          refID : Slots, Health : Healths]
    \cup [type : {"Disconnect"}, PlayerID : Slots]
    \cup [type : {"Equipped"}, refID : Slots]

S == INSTANCE Server WITH Cells <- {Cell}, StartCell <- Cell
C == INSTANCE Client WITH Players <- Views

server == <<backlog, c2s, eof, clients, Connected, TotalClients, MasterClient,
            Players, fdSet, failed, out>>
tables == <<bIsConnected, command, LocalPlayer, PlayerConnected, TotalPlayers, Views,
            bIsMasterClient>>
vars == <<server, tables, s2c, sends, numbered, joins>>

\* The server's part of the type is a consequence of ImplementsServer.
TypeOK ==
    /\ C!TypeOK
    /\ s2c \in [Peers -> Seq(S!ServerPackets)]
    /\ numbered \in [Peers -> BOOLEAN]
    /\ joins \in Nat

Init == S!Init /\ C!Init /\ numbered = [p \in Peers |-> FALSE] /\ joins = 0

-----------------------------------------------------------------------------

\* p has a socket that nothing has closed.
Attached(p) == p \in S!Open \cup S!Waiting /\ ~eof[p]

ServerMoves ==
    /\ S!ServerStep
    /\ s2c' = [p \in Peers |-> IF Attached(p) THEN s2c[p] \o out'[p] ELSE s2c[p]]
    /\ \A p \in Peers : out'[p] # <<>> => Len(s2c'[p]) <= InboxBound
    /\ sends' = C!Quiet
    /\ UNCHANGED <<tables, numbered, joins>>

Connects(p) ==
    /\ C!MPConnect(p)
    /\ S!Connect(p)
    /\ joins < JoinBound /\ joins' = joins + 1
    /\ numbered' = [numbered EXCEPT ![p] = FALSE]

\* What p sends in this step, if anything, joins its stream to the server.
Transmits(p) ==
    \/ sends'[p] = <<>> /\ UNCHANGED server
    \/ /\ sends'[p] # <<>>
       /\ Attached(p) /\ Len(c2s[p]) < StreamBound
       /\ c2s' = [c2s EXCEPT ![p] = @ \o sends'[p]]
       /\ UNCHANGED <<backlog, eof>>
       /\ S!Environment

Acts(p) == C!Commands(p) /\ Transmits(p) /\ UNCHANGED <<numbered, joins>>

Takes(p) ==
    /\ C!Reads(p)
    /\ Transmits(p)
    /\ numbered' = [numbered EXCEPT ![p] =
           @ \/ (Head(s2c[p]).type = "Welcome" /\ 2 \notin Head(s2c[p]).Flags)]
    /\ UNCHANGED joins

\* A client that leaves in order loses what the server has not read of it when it
\* has not read everything itself.
Leaves(p) ==
    /\ C!OO_Deinitialize(p)
    /\ S!Close(p) \/ S!Reset(p)
    /\ numbered' = [numbered EXCEPT ![p] = FALSE]
    /\ UNCHANGED joins

Crashes(p) ==
    /\ C!Restart(p)
    /\ S!Reset(p)
    /\ numbered' = [numbered EXCEPT ![p] = FALSE]
    /\ UNCHANGED joins

Next ==
    \/ ServerMoves
    \/ \E p \in Peers : Connects(p) \/ Acts(p) \/ Takes(p) \/ Leaves(p) \/ Crashes(p)

Spec == Init /\ [][Next]_vars

-----------------------------------------------------------------------------

\* The clients keep within what Server assumes of its peers, so that what holds of
\* Server with any peers holds of the system: counts, announcements, sessions
\* (OONetwork.cpp:54-76,290-345; main.cpp:115-155).
ImplementsServer == S!Spec

\* A client that has taken a number from a welcome goes by the slot it has on the
\* server until it leaves, whoever else joins, leaves, crashes or takes a slot again
\* in between, and whatever is lost in reads.  (Not so a client that has taken none
\* since it connected, above all the first one welcomed, which skips its number, see
\* MasterKnows: it acts under the 0 or the number that was left in LocalPlayer;
\* PacketHandler.cpp:95-118, OONetwork.cpp:297-301, ConsoleServer.cpp:225-241.)
NumberIsOurs ==
    \A p \in Peers :
        numbered[p] => /\ clients[LocalPlayer[p]] = p
                       /\ Connected[LocalPlayer[p]]

\* The server ends no session of a client that has not left: a connected client is
\* in the backlog or in a slot, also while it is not welcomed yet, while others
\* take and leave slots, and behind a login that was lost in a read
\* (ConsoleServer.cpp:225-322, PacketHandler.cpp:119-165).
NobodyThrownOut == \A p \in Peers : bIsConnected[p] => Attached(p)

\* The comment at PacketHandler.cpp:97, "This one will be master client": a player
\* that is master client on the server and has read all it was sent knows it is.
MasterKnows ==
    \A p \in Peers :
        /\ MasterClient \in Slots /\ clients[MasterClient] = p
        /\ Connected[MasterClient] /\ s2c[p] = <<>> /\ Attached(p)
        => bIsMasterClient[p]

\* The comment at PacketHandler.cpp:57, "we send the full values now , s that the
\* client can make sense out of the differences": a client that has read all it
\* was sent has the server's value of every player it has initial values of, and
\* goes on from there by differences.
DifferencesMakeSense ==
    \A p \in Peers, n \in Slots :
        /\ Attached(p) /\ s2c[p] = <<>>
        /\ Connected[n] /\ clients[n] # p
        /\ Players[n].bStatsInitialized /\ Views[p][n].bStatsInitialized
        => Views[p][n].Health = Players[n].Health
=============================================================================
