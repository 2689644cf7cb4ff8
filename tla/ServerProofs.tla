---------------------------- MODULE ServerProofs ----------------------------
(***************************************************************************)
(* Proofs about Server, for every number of slots, every finite set of      *)
(* peers, every set of packets and every bound.                             *)
(***************************************************************************)
EXTENDS Server, LeastNumber, SequenceTheorems, FiniteSetTheorems, TLAPS

-----------------------------------------------------------------------------
(* The slots. *)

LEMMA SlotsFinite == IsFiniteSet(Slots) /\ Slots \subseteq Nat /\ Slots \subseteq Int
<1>1. MAXCLIENTS - 1 \in Int
  BY MaxClientsAssumption
<1>2. IsFiniteSet(Slots)
  BY <1>1, FS_Interval DEF Slots
<1> QED
  BY <1>2, MaxClientsAssumption DEF Slots

-----------------------------------------------------------------------------
(* What the parts of a step do to the variables they assign. *)

\* The observable output of a step, whatever it sends to a set of peers.
LEMMA ToType ==
  ASSUME NEW S, NEW pkt \in ServerPackets
  PROVE  To(S, pkt) \in [Peers -> Seq(ServerPackets)]
  BY DEF To

LEMMA SilenceType == Silence \in [Peers -> Seq(ServerPackets)]
  BY DEF Silence

\* A client packet, by its type field.
LEMMA PacketByType ==
  ASSUME NEW pkt \in ClientPackets
  PROVE  /\ pkt \in ServerPackets
         /\ pkt.type = "Welcome" => pkt \in WelcomePackets
         /\ pkt.type = "ActorUpdate" => pkt \in ActorPackets
         /\ pkt.type = "FullStatUpdate" => pkt \in FullStatPackets
<1>1. pkt \in PacketTypes
  BY PacketAssumption
<1> QED
  BY <1>1 DEF PacketTypes, ServerPackets, WelcomePackets, ActorPackets,
     FullStatPackets, DisconnectPackets, RelayedPackets, OtherPackets

\* select reports the listening socket only when there is something to accept.
ReadyToAccept == acceptSocket \in fdSet => backlog # <<>>

TypeInv == TypeOK /\ ReadyToAccept

LEMMA RecvFacts ==
  ASSUME TypeInv, NEW i \in Slots, NEW pkt \in ClientPackets, Recv(i, pkt)
  PROVE  /\ clients[i] \in Peers
         /\ fdSet' \subseteq Peers \cup {acceptSocket}
         /\ acceptSocket \notin fdSet'
         /\ backlog' = backlog /\ failed' = failed
  BY PeersAssumption DEF TypeInv, TypeOK, Recv, Turn

LEMMA DropReadType ==
  ASSUME TypeInv, NEW i \in Slots, clients[i] \in Peers, DropRead(i)
  PROVE  /\ c2s' \in [Peers -> Seq(ClientPackets)]
         /\ eof' \in [Peers -> BOOLEAN]
<1> DEFINE stream == c2s[clients[i]]
<1>1. stream \in Seq(ClientPackets)
  BY DEF TypeInv, TypeOK
<1>2. PICK k \in 1 .. RecvBound :
         c2s' = [c2s EXCEPT ![clients[i]] = SubSeq(stream, k + 1, Len(stream))]
  BY DEF DropRead
<1>3. /\ Len(stream) \in Nat /\ k + 1 \in Int /\ k \in Nat
      /\ \A n \in k + 1 .. Len(stream) : n \in 1 .. Len(stream)
  BY <1>1, <1>2, LenProperties, BoundAssumption
<1>4. \A n \in k + 1 .. Len(stream) : stream[n] \in ClientPackets
  BY <1>1, <1>3, ElementOfSeq
<1>5. SubSeq(stream, k + 1, Len(stream)) \in Seq(ClientPackets)
  <2> HIDE DEF stream
  <2> QED
    BY <1>3, <1>4, SubSeqProperties
<1> QED
  BY <1>2, <1>5 DEF TypeInv, TypeOK, DropRead

LEMMA CloseSocketType ==
  ASSUME TypeInv, NEW i \in Slots, CloseSocket(i)
  PROVE  /\ c2s' \in [Peers -> Seq(ClientPackets)]
         /\ eof' \in [Peers -> BOOLEAN]
         /\ clients' \in [Slots -> Peers \cup {NoSocket}]
<1>1. <<>> \in Seq(ClientPackets)
  BY EmptySeq
<1> QED
  BY <1>1 DEF TypeInv, TypeOK, CloseSocket

LEMMA InitType == Init => TypeInv
<1> SUFFICES ASSUME Init PROVE TypeInv
  OBVIOUS
<1>1. /\ <<>> \in Seq(Peers) /\ <<>> \in Seq(ClientPackets)
  BY EmptySeq
<1>2. Players \in [Slots -> PlayerStatus]
  BY CellAssumption DEF Init, PlayerStatus
<1>3. out \in [Peers -> Seq(ServerPackets)]
  BY SilenceType DEF Init
<1>4. /\ backlog \in Seq(Peers) /\ c2s \in [Peers -> Seq(ClientPackets)]
      /\ eof \in [Peers -> BOOLEAN]
  BY <1>1 DEF Init
<1>5. /\ clients \in [Slots -> Peers \cup {NoSocket}]
      /\ Connected \in [Slots -> BOOLEAN]
  BY DEF Init
<1>6. /\ TotalClients \in Int /\ MasterClient \in Slots \cup {-1}
      /\ fdSet \subseteq Peers \cup {acceptSocket} /\ failed \in Nat
  BY DEF Init
<1>7. ReadyToAccept
  BY DEF Init, ReadyToAccept
<1> QED
  BY <1>2, <1>3, <1>4, <1>5, <1>6, <1>7 DEF TypeInv, TypeOK

-----------------------------------------------------------------------------
(* Type correctness, one lemma per group of actions. *)

LEMMA PeerStepType == TypeInv /\ PeerStep => TypeInv'
<1> SUFFICES ASSUME TypeInv, NEW p \in Peers, Connect(p) \/ Send(p) \/ Close(p) \/ Reset(p)
             PROVE  TypeInv'
  BY DEF PeerStep
<1>1. /\ <<>> \in Seq(ClientPackets)
      /\ backlog \in Seq(Peers) /\ c2s[p] \in Seq(ClientPackets)
  BY EmptySeq DEF TypeInv, TypeOK
<1>2. /\ backlog' \in Seq(Peers)
      /\ backlog # <<>> => backlog' # <<>>
  <2>1. CASE Connect(p)
    <3>1. Append(backlog, p) \in Seq(Peers) /\ Append(backlog, p) # <<>>
      BY <1>1, AppendProperties
    <3> QED
      BY <2>1, <3>1 DEF Connect
  <2>2. CASE Send(p) \/ Close(p) \/ Reset(p)
    BY <1>1, <2>2 DEF Send, Close, Reset
  <2> QED
    BY <2>1, <2>2
<1>3. c2s' \in [Peers -> Seq(ClientPackets)]
  <2>1. CASE Send(p)
    <3>1. PICK pkt \in ClientPackets : c2s' = [c2s EXCEPT ![p] = Append(c2s[p], pkt)]
      BY <2>1 DEF Send
    <3>2. Append(c2s[p], pkt) \in Seq(ClientPackets)
      BY <1>1
    <3> QED
      BY <3>1, <3>2 DEF TypeInv, TypeOK
  <2>2. CASE Connect(p) \/ Close(p) \/ Reset(p)
    BY <1>1, <2>2 DEF Connect, Close, Reset, TypeInv, TypeOK
  <2> QED
    BY <2>1, <2>2
<1>4. eof' \in [Peers -> BOOLEAN]
  BY DEF Connect, Send, Close, Reset, TypeInv, TypeOK
<1>5. UNCHANGED <<sessions, Players, fdSet, failed>> /\ out' = Silence
  BY DEF Connect, Send, Close, Reset, Environment
<1>6. ReadyToAccept'
  BY <1>2, <1>5 DEF ReadyToAccept, TypeInv
<1> QED
  BY <1>2, <1>3, <1>4, <1>5, <1>6, SilenceType DEF TypeInv, TypeOK, sessions

LEMMA LoopType ==
  TypeInv /\ (Select \/ AcceptNone \/ \E i \in Slots : Accept(i) \/ AcceptFails(i)) => TypeInv'
<1>1. TypeInv /\ Select => TypeInv'
  <2> SUFFICES ASSUME TypeInv, Select PROVE TypeInv'
    OBVIOUS
  <2>1. fdSet' \subseteq Peers \cup {acceptSocket} /\ ReadyToAccept'
    BY PeersAssumption DEF Select, Readable, Open, TypeInv, TypeOK, ReadyToAccept, network
  <2> QED
    BY <2>1, SilenceType DEF Select, TypeInv, TypeOK, network, sessions
<1>2. TypeInv /\ AcceptNone => TypeInv'
  <2> SUFFICES ASSUME TypeInv, AcceptNone PROVE TypeInv'
    OBVIOUS
  <2>1. fdSet' \subseteq Peers \cup {acceptSocket} /\ ReadyToAccept'
    BY DEF AcceptNone, TypeInv, TypeOK, ReadyToAccept
  <2> QED
    BY <2>1, SilenceType DEF AcceptNone, TypeInv, TypeOK, network, sessions
<1>3. ASSUME TypeInv, NEW i \in Slots, Accept(i) \/ AcceptFails(i)
      PROVE  TypeInv'
  <2>1. backlog \in Seq(Peers) /\ backlog # <<>>
    BY <1>3 DEF TypeInv, TypeOK, ReadyToAccept, Accept, AcceptFails
  <2>2. Head(backlog) \in Peers /\ Tail(backlog) \in Seq(Peers)
    BY <2>1, HeadTailProperties
  <2>3. clients' \in [Slots -> Peers \cup {NoSocket}]
    BY <1>3, <2>2 DEF Accept, AcceptFails, TypeInv, TypeOK
  <2>4. fdSet' \subseteq Peers \cup {acceptSocket} /\ ReadyToAccept'
    BY <1>3 DEF Accept, AcceptFails, TypeInv, TypeOK, ReadyToAccept
  <2>5. TotalClients' = TotalClients + 1 /\ (failed' = failed \/ failed' = failed + 1)
    BY <1>3 DEF Accept, AcceptFails
  <2>6. TotalClients' \in Int /\ failed' \in Nat
    BY <1>3, <2>5 DEF TypeInv, TypeOK
  <2>7. backlog' \in Seq(Peers)
    BY <1>3, <2>2 DEF Accept, AcceptFails
  <2> QED
    BY <1>3, <2>3, <2>4, <2>6, <2>7, SilenceType DEF Accept, AcceptFails, TypeInv, TypeOK
<1> QED
  BY <1>1, <1>2, <1>3

\* The handlers leave the loop's own variables to Recv; what remains to check
\* is what each of them assigns and sends.
LEMMA ServeType ==
  ASSUME TypeInv, NEW i \in Slots, NEW pkt \in ClientPackets,
         Recv(i, pkt), (DropRead(i) /\ UNCHANGED clients) \/ CloseSocket(i),
         Connected' \in [Slots -> BOOLEAN], TotalClients' \in Int,
         MasterClient' \in Slots \cup {-1}, Players' \in [Slots -> PlayerStatus],
         out' \in [Peers -> Seq(ServerPackets)]
  PROVE  TypeInv'
<1>1. /\ clients[i] \in Peers /\ acceptSocket \notin fdSet'
      /\ fdSet' \subseteq Peers \cup {acceptSocket}
      /\ backlog' = backlog /\ failed' = failed
  BY RecvFacts
<1>2. /\ c2s' \in [Peers -> Seq(ClientPackets)] /\ eof' \in [Peers -> BOOLEAN]
      /\ clients' \in [Slots -> Peers \cup {NoSocket}]
  <2>1. CASE DropRead(i) /\ UNCHANGED clients
    BY <1>1, <2>1, DropReadType DEF TypeInv, TypeOK
  <2>2. CASE CloseSocket(i)
    BY <2>2, CloseSocketType
  <2> QED
    BY <2>1, <2>2
<1>3. backlog' \in Seq(Peers) /\ failed' \in Nat
  BY <1>1 DEF TypeInv, TypeOK
<1>4. ReadyToAccept'
  BY <1>1 DEF ReadyToAccept
<1> QED
  BY <1>1, <1>2, <1>3, <1>4 DEF TypeInv, TypeOK

LEMMA WelcomeType ==
  ASSUME TypeInv, NEW i \in Slots,
         WelcomeReady(i) \/ WelcomeAgain(i) \/ WelcomePlayer(i) \/ WelcomeRejected(i)
  PROVE  TypeInv'
<1>1. CASE WelcomeReady(i)
  <2>1. PICK pkt \in ClientPackets :
          /\ Recv(i, pkt) /\ DropRead(i)
          /\ \E told \in Ascending(InitSlots(i)) :
                 out' = [Silence EXCEPT ![clients[i]] =
                           [n \in 1 .. Cardinality(InitSlots(i)) |-> InitData(told[n])]]
          /\ UNCHANGED <<sessions, Players>>
    BY <1>1 DEF WelcomeReady
  <2>2. PICK told \in Ascending(InitSlots(i)) :
          out' = [Silence EXCEPT ![clients[i]] =
                    [n \in 1 .. Cardinality(InitSlots(i)) |-> InitData(told[n])]]
    BY <2>1
  <2> DEFINE size == Cardinality(InitSlots(i))
             answer == [n \in 1 .. size |-> InitData(told[n])]
  <2>3. size \in Nat
    <3>1. InitSlots(i) \in SUBSET Slots
      BY DEF InitSlots
    <3>2. IsFiniteSet(InitSlots(i))
      BY <3>1, SlotsFinite, FS_Subset
    <3> QED
      BY <3>2, FS_CardinalityType
  <2>4. \A n \in 1 .. size : told[n] \in Slots
    BY DEF Ascending, InitSlots
  <2>5. \A j \in Slots : InitData(j) \in ServerPackets
    <3>1. \A j \in Slots : InitData(j) \in ActorPackets
      BY DEF InitData, PlayerRefID, ActorPackets, Bits, TypeInv, TypeOK, PlayerStatus
    <3> QED
      BY <3>1 DEF ServerPackets, PacketTypes
  <2>6. answer \in [1 .. size -> ServerPackets]
    BY <2>4, <2>5
  <2>7. answer \in Seq(ServerPackets)
    <3> HIDE DEF answer, size
    <3> QED
      BY <2>3, <2>6, SeqDef
  <2>8. out' \in [Peers -> Seq(ServerPackets)]
    BY <2>2, <2>7, SilenceType
  <2> QED
    BY <2>1, <2>8, ServeType DEF TypeInv, TypeOK, sessions
<1>2. CASE WelcomeAgain(i)
  <2>1. PICK pkt \in ClientPackets :
          Recv(i, pkt) /\ DropRead(i) /\ out' = Silence /\ UNCHANGED <<sessions, Players>>
    BY <1>2 DEF WelcomeAgain
  <2> QED
    BY <2>1, ServeType, SilenceType DEF TypeInv, TypeOK, sessions
<1>3. CASE WelcomePlayer(i)
  <2> DEFINE flags == IF MasterClient = -1 THEN {1, 2} ELSE {1}
             reply == [type |-> "Welcome", PlayerID |-> i, Flags |-> flags]
  <2>1. PICK pkt \in ClientPackets :
          /\ Recv(i, pkt) /\ DropRead(i)
          /\ Connected' = [Connected EXCEPT ![i] = TRUE]
          /\ MasterClient' = IF MasterClient = -1 THEN i ELSE MasterClient
          /\ out' = To({clients[i]}, reply)
          /\ UNCHANGED <<clients, TotalClients, Players>>
    BY <1>3 DEF WelcomePlayer, NumberGiven
  <2>2. reply \in ServerPackets
    <3>1. reply \in WelcomeReplies
      BY DEF WelcomeReplies, Bits
    <3> QED
      BY <3>1 DEF ServerPackets
  <2>3. out' \in [Peers -> Seq(ServerPackets)]
    BY <2>1, <2>2, ToType
  <2>4. /\ Connected' \in [Slots -> BOOLEAN] /\ MasterClient' \in Slots \cup {-1}
        /\ TotalClients' \in Int /\ Players' \in [Slots -> PlayerStatus]
    BY <2>1 DEF TypeInv, TypeOK
  <2> QED
    BY <2>1, <2>3, <2>4, ServeType
<1>4. CASE WelcomeRejected(i)
  <2>1. PICK pkt \in ClientPackets :
          /\ Recv(i, pkt) /\ CloseSocket(i)
          /\ TotalClients' = TotalClients - 1 /\ out' = Silence
          /\ UNCHANGED <<Connected, MasterClient, Players>>
    BY <1>4 DEF WelcomeRejected
  <2>2. /\ Connected' \in [Slots -> BOOLEAN] /\ MasterClient' \in Slots \cup {-1}
        /\ TotalClients' \in Int /\ Players' \in [Slots -> PlayerStatus]
    BY <2>1 DEF TypeInv, TypeOK
  <2> QED
    BY <2>1, <2>2, ServeType, SilenceType
<1> QED
  BY <1>1, <1>2, <1>3, <1>4

\* What the stat handlers compute from a stored and a reported value.
LEMMA StatType ==
  ASSUME NEW was \in Int, NEW now \in Int
  PROVE  StoredStat(was, now) \in Int /\ SentStat(was, now) \in Int
  BY DEF StoredStat, SentStat, Clamps

\* A peer that held the stored value and adds what it is sent holds the new stored
\* value, unless the sum was clamped: then it is off by twice the reported value,
\* whatever the stats (PacketHandler.cpp:234-283).
THEOREM DifferenceExact ==
  ASSUME NEW was \in Int, NEW now \in Int
  PROVE  was + SentStat(was, now) - StoredStat(was, now) =
             IF Clamps(was, now) THEN now + now ELSE 0
  BY DEF StoredStat, SentStat, Clamps

\* The sum is clamped exactly for a new report below 0.
LEMMA ClampedReports ==
  ASSUME NEW was \in Int, NEW now \in Int
  PROVE  Clamps(was, now) <=> now # was /\ now < 0
  BY DEF Clamps

LEMMA StatsType ==
  ASSUME TypeInv, NEW i \in Slots, ActorUpdate(i) \/ FullStatUpdate(i)
  PROVE  TypeInv'
<1>1. CASE ActorUpdate(i)
  <2> DEFINE old(pkt) == Players[pkt.refID]
             flags(pkt) == IF old(pkt).bStatsInitialized THEN pkt.Flags
                                                         ELSE pkt.Flags \cup {8}
             sent(pkt) == [pkt EXCEPT !.Flags = flags(pkt),
                                      !.Health = SentStat(old(pkt).Health, pkt.Health)]
             new(pkt) == [CellID |-> pkt.CellID,
                          Health |-> StoredStat(old(pkt).Health, pkt.Health),
                          bStatsInitialized |-> TRUE]
  <2>1. PICK pkt \in ClientPackets :
          /\ pkt.type = "ActorUpdate" /\ pkt.refID < MAXCLIENTS
          /\ Recv(i, pkt) /\ DropRead(i)
          /\ Players' = [Players EXCEPT ![pkt.refID] = new(pkt)]
          /\ out' = To(Others(i), sent(pkt))
          /\ UNCHANGED sessions
    BY <1>1 DEF ActorUpdate
  <2>2. pkt \in ActorPackets /\ pkt.refID \in Slots
    BY <2>1, PacketByType, MaxClientsAssumption DEF ActorPackets, Slots
  <2>3. /\ old(pkt) \in PlayerStatus /\ old(pkt).Health \in Int
        /\ pkt.Health \in Int /\ pkt.CellID \in Cells
    BY <2>2 DEF TypeInv, TypeOK, PlayerStatus, ActorPackets
  <2>4. /\ StoredStat(old(pkt).Health, pkt.Health) \in Int
        /\ SentStat(old(pkt).Health, pkt.Health) \in Int
    BY <2>3, StatType
  <2>5. new(pkt) \in PlayerStatus
    BY <2>3, <2>4 DEF PlayerStatus
  <2>6. sent(pkt) \in ServerPackets
    <3>1. flags(pkt) \in SUBSET Bits
      BY <2>2 DEF ActorPackets, Bits
    <3>2. sent(pkt) \in ActorPackets
      BY <2>2, <2>4, <3>1 DEF ActorPackets
    <3> QED
      BY <3>2 DEF ServerPackets, PacketTypes
  <2>7. out' \in [Peers -> Seq(ServerPackets)]
    BY <2>1, <2>6, ToType
  <2>8. Players' \in [Slots -> PlayerStatus]
    BY <2>1, <2>2, <2>5 DEF TypeInv, TypeOK
  <2> QED
    BY <2>1, <2>7, <2>8, ServeType DEF TypeInv, TypeOK, sessions
<1>2. CASE FullStatUpdate(i)
  <2> DEFINE sent(pkt) == IF 8 \in pkt.Flags THEN pkt
                          ELSE [pkt EXCEPT !.Health = @ - Players[pkt.refID].Health]
  <2>1. PICK pkt \in ClientPackets :
          /\ pkt.type = "FullStatUpdate" /\ pkt.refID < MAXCLIENTS
          /\ Recv(i, pkt) /\ DropRead(i)
          /\ Players' = [Players EXCEPT ![pkt.refID].Health = pkt.Health]
          /\ out' = To(Others(i), sent(pkt))
          /\ UNCHANGED sessions
    BY <1>2 DEF FullStatUpdate
  <2>2. pkt \in FullStatPackets /\ pkt.refID \in Slots /\ pkt.Health \in Int
    BY <2>1, PacketByType, MaxClientsAssumption DEF FullStatPackets, Slots
  <2>3. Players[pkt.refID] \in PlayerStatus /\ Players[pkt.refID].Health \in Int
    BY <2>2 DEF TypeInv, TypeOK, PlayerStatus
  <2>4. sent(pkt) \in FullStatPackets
    BY <2>2, <2>3 DEF FullStatPackets
  <2>5. out' \in [Peers -> Seq(ServerPackets)]
    BY <2>1, <2>4, ToType DEF ServerPackets, PacketTypes
  <2>6. [Players[pkt.refID] EXCEPT !.Health = pkt.Health] \in PlayerStatus
    BY <2>2, <2>3 DEF PlayerStatus
  <2>7. Players' \in [Slots -> PlayerStatus]
    BY <2>1, <2>2, <2>6 DEF TypeInv, TypeOK
  <2> QED
    BY <2>1, <2>5, <2>7, ServeType DEF TypeInv, TypeOK, sessions
<1> QED
  BY <1>1, <1>2

LEMMA RelayType ==
  ASSUME TypeInv, NEW i \in Slots,
         RelayDisconnect(i) \/ NpcUpdate(i) \/ Relay(i) \/ Ignore(i) \/ TimeUpdate(i)
  PROVE  TypeInv'
<1>1. PICK pkt \in ClientPackets :
        /\ Recv(i, pkt) /\ DropRead(i) /\ UNCHANGED <<sessions, Players>>
        /\ \/ out' = Silence
           \/ out' = To(Others(i), [type |-> "PointerBytes"])
           \/ out' = To(Others(i), pkt)
           \/ out' = To(Open, [type |-> "TimeUpdate"])
  BY DEF RelayDisconnect, NpcUpdate, Relay, Ignore, TimeUpdate
<1>2. /\ [type |-> "PointerBytes"] \in ServerPackets
      /\ [type |-> "TimeUpdate"] \in ServerPackets
      /\ pkt \in ServerPackets
  BY PacketByType DEF ServerPackets, PacketTypes, StrayBytes, OtherPackets
<1>3. out' \in [Peers -> Seq(ServerPackets)]
  BY <1>1, <1>2, ToType, SilenceType
<1> QED
  BY <1>1, <1>3, ServeType DEF TypeInv, TypeOK, sessions

LEMMA PeerGoneType ==
  ASSUME TypeInv, NEW i \in Slots, PeerGone(i)
  PROVE  TypeInv'
<1>1. /\ clients[i] \in Peers /\ acceptSocket \notin fdSet
  BY PeersAssumption DEF TypeInv, TypeOK, PeerGone, Turn
<1>2. /\ c2s' \in [Peers -> Seq(ClientPackets)] /\ eof' \in [Peers -> BOOLEAN]
      /\ clients' \in [Slots -> Peers \cup {NoSocket}]
  BY CloseSocketType DEF PeerGone
<1>3. Notices(i) \in Seq(ServerPackets)
  <2> DEFINE size == Cardinality(Welcomed)
             notice == [type |-> "Welcome", Flags |-> {2, 4}]
  <2>1. size \in Nat
    <3>1. Welcomed \in SUBSET Slots
      BY DEF Welcomed
    <3>2. IsFiniteSet(Welcomed)
      BY <3>1, SlotsFinite, FS_Subset
    <3> QED
      BY <3>2, FS_CardinalityType
  <2>2. notice \in ServerPackets
    <3>1. notice \in MasterNotices
      BY DEF MasterNotices, Bits
    <3> QED
      BY <3>1 DEF ServerPackets
  <2>3. [n \in 1 .. size |-> notice] \in Seq(ServerPackets)
    <3> HIDE DEF size, notice
    <3> QED
      BY <2>1, <2>2, SeqDef
  <2>4. <<>> \in Seq(ServerPackets)
    BY EmptySeq
  <2> QED
    BY <2>3, <2>4 DEF Notices
<1>4. out' \in [Peers -> Seq(ServerPackets)]
  <2> DEFINE goodbye == [type |-> "Disconnect", PlayerID |-> i]
  <2>1. goodbye \in ServerPackets
    BY DEF ServerPackets, PacketTypes, DisconnectPackets
  <2>2. To(Others(i), goodbye) \in [Peers -> Seq(ServerPackets)]
    BY <2>1, ToType
  <2>3. out' = [To(Others(i), goodbye) EXCEPT ![clients[i]] = Notices(i)]
    BY DEF PeerGone
  <2> QED
    BY <1>3, <2>2, <2>3
<1>5. MasterClient' \in Slots \cup {-1}
  BY DEF PeerGone, NewMaster, Welcomed, TypeInv, TypeOK
<1>6. /\ Connected' \in [Slots -> BOOLEAN] /\ TotalClients' \in Int
      /\ Players' \in [Slots -> PlayerStatus]
      /\ backlog' \in Seq(Peers) /\ failed' \in Nat
  BY DEF PeerGone, TypeInv, TypeOK
<1>7. fdSet' \subseteq Peers \cup {acceptSocket} /\ ReadyToAccept'
  BY <1>1 DEF PeerGone, TypeInv, TypeOK, ReadyToAccept
<1> QED
  BY <1>2, <1>4, <1>5, <1>6, <1>7 DEF TypeInv, TypeOK

LEMMA StepType == TypeInv /\ [Next]_vars => TypeInv'
<1>1. TypeInv /\ PeerStep => TypeInv'
  BY PeerStepType
<1>2. TypeInv /\ ServerStep => TypeInv'
  <2>1. ASSUME TypeInv, NEW i \in Slots, Serve(i)
        PROVE  TypeInv'
    BY <2>1, WelcomeType, StatsType, RelayType, PeerGoneType DEF Serve
  <2> QED
    BY <2>1, LoopType DEF ServerStep
<1>3. TypeInv /\ UNCHANGED vars => TypeInv'
  BY DEF vars, TypeInv, TypeOK, ReadyToAccept
<1> QED
  BY <1>1, <1>2, <1>3 DEF Next

\* In every reachable state the server's variables have their types: no handler
\* stores a value outside them, whatever the peers send (ConsoleServer.cpp:26-48).
THEOREM TypeCorrect == Spec => []TypeOK
<1>1. Init => TypeInv
  BY InitType
<1>2. TypeInv /\ [Next]_vars => TypeInv'
  BY StepType
<1>3. TypeInv => TypeOK
  BY DEF TypeInv
<1> QED
  BY <1>1, <1>2, <1>3, PTL DEF Spec

-----------------------------------------------------------------------------
(* Rounds: select, then one read per socket it reported. *)

\* What every handler does to the loop's own variables: the slot served was
\* reported, is not served again, and either has packets taken from its stream or
\* loses its socket.
LEMMA ServeReads ==
  ASSUME NEW i \in Slots, Serve(i)
  PROVE  /\ Turn(i)
         /\ fdSet' = fdSet \ {clients[i]}
         /\ UNCHANGED <<backlog, failed>>
         /\ \/ c2s[clients[i]] # <<>> /\ DropRead(i) /\ UNCHANGED clients
            \/ CloseSocket(i)
<1>1. CASE WelcomeReady(i) \/ WelcomeAgain(i) \/ WelcomePlayer(i) \/ WelcomeRejected(i)
  BY <1>1 DEF WelcomeReady, WelcomeAgain, WelcomePlayer, WelcomeRejected, Recv, sessions
<1>2. CASE RelayDisconnect(i) \/ NpcUpdate(i) \/ Relay(i) \/ Ignore(i) \/ TimeUpdate(i)
  BY <1>2 DEF RelayDisconnect, NpcUpdate, Relay, Ignore, TimeUpdate, Recv, sessions
<1>3. CASE ActorUpdate(i)
  BY <1>3 DEF ActorUpdate, Recv, sessions
<1>4. CASE FullStatUpdate(i)
  BY <1>4 DEF FullStatUpdate, Recv, sessions
<1>5. CASE PeerGone(i)
  BY <1>5 DEF PeerGone
<1> QED
  BY <1>1, <1>2, <1>3, <1>4, <1>5 DEF Serve

\* Serving one slot leaves the sockets and the streams of all others alone.
LEMMA ServeLeavesOthers ==
  ASSUME TypeInv, NEW i \in Slots, Serve(i), NEW p \in Open, p # clients[i]
  PROVE  p \in Open' /\ c2s'[p] = c2s[p] /\ eof'[p] = eof[p]
<1>1. PICK j \in Slots : p = clients[j] /\ j # i /\ p \in Peers
  BY DEF Open, TypeInv, TypeOK
<1>2. CASE DropRead(i) /\ UNCHANGED clients
  <2>1. PICK s : c2s' = [c2s EXCEPT ![clients[i]] = s]
    BY <1>2 DEF DropRead
  <2> QED
    BY <1>1, <1>2, <2>1 DEF DropRead, Open, TypeInv, TypeOK
<1>3. CASE CloseSocket(i)
  <2>1. clients'[j] = p
    BY <1>1, <1>3 DEF CloseSocket, TypeInv, TypeOK
  <2> QED
    BY <1>1, <1>3, <2>1 DEF CloseSocket, Open, TypeInv, TypeOK
<1> QED
  BY <1>2, <1>3, ServeReads

\* A peer with something to read, or at its end, stays so until it is served.
Ready(p) == p \in Open /\ (c2s[p] # <<>> \/ eof[p])

LEMMA PeerStepReady ==
  ASSUME TypeInv, PeerStep, NEW p, Ready(p)
  PROVE  Ready(p)'
<1>1. p \in Peers /\ clients' = clients
  BY DEF Ready, Open, TypeInv, TypeOK, PeerStep, Connect, Send, Close, Reset, Environment,
     sessions
<1>2. PICK q \in Peers : Connect(q) \/ Send(q) \/ Close(q) \/ Reset(q)
  BY DEF PeerStep
<1>3. CASE Connect(q)
  BY <1>1, <1>3 DEF Connect, Ready, Open, TypeInv, TypeOK
<1>4. CASE Send(q)
  <2>1. PICK pkt \in ClientPackets : c2s' = [c2s EXCEPT ![q] = Append(c2s[q], pkt)]
    BY <1>4 DEF Send
  <2>2. c2s[q] \in Seq(ClientPackets) /\ Append(c2s[q], pkt) # <<>>
    BY AppendProperties DEF TypeInv, TypeOK
  <2> QED
    BY <1>1, <1>4, <2>1, <2>2 DEF Send, Ready, Open, TypeInv, TypeOK
<1>5. CASE Close(q) \/ Reset(q)
  <2>1. /\ eof' = [eof EXCEPT ![q] = TRUE]
        /\ c2s' = c2s \/ c2s' = [c2s EXCEPT ![q] = <<>>]
    BY <1>5 DEF Close, Reset
  <2>2. CASE p = q
    BY <1>1, <2>1, <2>2 DEF Ready, Open, TypeInv, TypeOK
  <2>3. CASE p # q
    BY <1>1, <2>1, <2>3 DEF Ready, Open, TypeInv, TypeOK
  <2> QED
    BY <2>2, <2>3
<1> QED
  BY <1>2, <1>3, <1>4, <1>5

LEMMA StepReady ==
  ASSUME TypeInv, NeverBlocks, [Next]_vars
  PROVE  NeverBlocks'
<1>1. \A s \in fdSet : IF s = acceptSocket THEN backlog # <<>> ELSE Ready(s)
  BY DEF NeverBlocks, Readable, Ready, TypeInv, ReadyToAccept
<1>2. SUFFICES ASSUME NEW s \in fdSet', s # acceptSocket
               PROVE  Ready(s)'
  <2>1. ReadyToAccept'
    BY StepType DEF TypeInv
  <2> QED
    BY <1>2, <2>1 DEF NeverBlocks, Readable, Ready, ReadyToAccept
<1>3. CASE PeerStep
  <2>1. fdSet' = fdSet
    BY <1>3 DEF PeerStep, Connect, Send, Close, Reset, Environment
  <2> QED
    BY <1>1, <1>2, <1>3, <2>1, PeerStepReady
<1>4. CASE Select
  BY <1>2, <1>4 DEF Select, Readable, Ready, Open, network, sessions
<1>5. CASE AcceptNone \/ UNCHANGED vars
  BY <1>1, <1>2, <1>5 DEF AcceptNone, vars, Ready, Open, network, sessions
<1>6. ASSUME NEW i \in Slots, Accept(i) \/ AcceptFails(i)
      PROVE  Ready(s)'
  <2>1. s \in fdSet /\ Ready(s) /\ UNCHANGED <<c2s, eof>> /\ clients[i] = NoSocket
    BY <1>1, <1>2, <1>6 DEF Accept, AcceptFails, FirstFree
  <2>2. PICK j \in Slots : s = clients[j] /\ j # i
    BY <2>1 DEF Ready, Open
  <2>3. s = clients'[j] /\ s # NoSocket
    BY <1>6, <2>1, <2>2 DEF Accept, AcceptFails, TypeInv, TypeOK, Ready, Open
  <2> QED
    BY <2>1, <2>3 DEF Ready, Open
<1>7. ASSUME NEW i \in Slots, Serve(i)
      PROVE  Ready(s)'
  <2>1. s \in fdSet /\ s # clients[i]
    BY <1>7, <1>2, ServeReads
  <2> QED
    BY <1>1, <1>2, <1>7, <2>1, ServeLeavesOthers DEF Ready
<1> QED
  BY <1>3, <1>4, <1>5, <1>6, <1>7 DEF Next, ServerStep

LEMMA InitReady == Init => NeverBlocks
  BY DEF Init, NeverBlocks

\* What select reported is still true when the loop acts on it, for every number
\* of slots and peers: neither accept nor recv ever waits (ConsoleServer.cpp:215-270).
THEOREM NeverBlocksAlways == Spec => []NeverBlocks
  BY InitType, StepType, InitReady, StepReady, PTL DEF Spec

-----------------------------------------------------------------------------
(* Sessions.  For the slots, every step is one of five. *)

Idle == UNCHANGED <<clients, Connected, TotalClients, MasterClient, failed, backlog>>

Arrives(p) ==
    /\ p \notin Open \cup Waiting /\ backlog' = Append(backlog, p)
    /\ UNCHANGED <<clients, Connected, TotalClients, MasterClient, failed>>

Welcomes(i) ==
    /\ clients[i] \in Peers /\ ~Connected[i]
    /\ Connected' = [Connected EXCEPT ![i] = TRUE]
    /\ MasterClient' # -1
    /\ UNCHANGED <<clients, TotalClients, failed, backlog>>

Leaves(i) ==
    /\ clients[i] \in Peers
    /\ clients' = [clients EXCEPT ![i] = NoSocket]
    /\ Connected' = [Connected EXCEPT ![i] = FALSE]
    /\ TotalClients' = TotalClients - 1
    /\ MasterClient' = -1 => MasterClient = -1
    /\ UNCHANGED <<failed, backlog>>

LEMMA SessionSteps ==
  ASSUME TypeInv, [Next]_vars
  PROVE  \/ Idle
         \/ \E p \in Peers : Arrives(p)
         \/ \E i \in Slots : Accept(i) \/ AcceptFails(i) \/ Welcomes(i) \/ Leaves(i)
<1>1. CASE PeerStep
  BY <1>1 DEF PeerStep, Connect, Send, Close, Reset, Environment, sessions, Idle, Arrives
<1>2. CASE Select \/ AcceptNone \/ UNCHANGED vars
  BY <1>2 DEF Select, AcceptNone, vars, network, sessions, Idle
<1>3. ASSUME NEW i \in Slots, Serve(i)
      PROVE  Idle \/ Welcomes(i) \/ Leaves(i)
  <2>1. CASE \/ WelcomeReady(i) \/ WelcomeAgain(i) \/ RelayDisconnect(i)
             \/ ActorUpdate(i) \/ NpcUpdate(i) \/ FullStatUpdate(i)
             \/ Relay(i) \/ Ignore(i) \/ TimeUpdate(i)
    BY <2>1 DEF WelcomeReady, WelcomeAgain, RelayDisconnect, ActorUpdate, NpcUpdate,
       FullStatUpdate, Relay, Ignore, TimeUpdate, Recv, sessions, Idle
  <2>2. CASE WelcomePlayer(i)
    <3>1. PICK pkt \in ClientPackets :
            /\ Recv(i, pkt) /\ ~Connected[i]
            /\ Connected' = [Connected EXCEPT ![i] = TRUE]
            /\ MasterClient' = IF MasterClient = -1 THEN i ELSE MasterClient
            /\ UNCHANGED <<clients, TotalClients, Players>>
      BY <2>2 DEF WelcomePlayer, NumberGiven
    <3>2. MasterClient' # -1
      BY <3>1, SlotsFinite
    <3>3. clients[i] \in Peers /\ backlog' = backlog /\ failed' = failed
      BY <3>1, RecvFacts
    <3> QED
      BY <3>1, <3>2, <3>3 DEF Welcomes
  <2>3. CASE WelcomeRejected(i)
    <3>1. PICK pkt \in ClientPackets :
            /\ Recv(i, pkt) /\ CloseSocket(i) /\ ~Connected[i]
            /\ TotalClients' = TotalClients - 1
            /\ UNCHANGED <<Connected, MasterClient, Players>>
      BY <2>3 DEF WelcomeRejected
    <3>2. Connected' = [Connected EXCEPT ![i] = FALSE]
      BY <3>1 DEF TypeInv, TypeOK
    <3>3. clients[i] \in Peers /\ backlog' = backlog /\ failed' = failed
      BY <3>1, RecvFacts
    <3> QED
      BY <3>1, <3>2, <3>3 DEF Leaves, CloseSocket
  <2>4. CASE PeerGone(i)
    <3>1. clients[i] \in Peers
      BY <2>4, PeersAssumption DEF PeerGone, Turn, TypeInv, TypeOK
    <3>2. MasterClient' = -1 => MasterClient = -1
      BY <2>4, SlotsFinite DEF PeerGone, NewMaster, Welcomed
    <3> QED
      BY <2>4, <3>1, <3>2 DEF PeerGone, CloseSocket, Leaves
  <2> QED
    BY <1>3, <2>1, <2>2, <2>3, <2>4 DEF Serve
<1> QED
  BY <1>1, <1>2, <1>3 DEF Next, ServerStep

\* No peer is in two slots, twice in the backlog, or in both, and only a taken
\* slot is marked connected.
SeatInv ==
    /\ \A i, j \in Slots : i # j /\ clients[i] # NoSocket => clients[i] # clients[j]
    /\ \A m, n \in 1 .. Len(backlog) : m # n => backlog[m] # backlog[n]
    /\ \A i \in Slots, n \in 1 .. Len(backlog) : clients[i] # backlog[n]
    /\ \A i \in Slots : Connected[i] => clients[i] # NoSocket

\* accept takes the oldest waiting connection, which holds no slot.
LEMMA AcceptedFacts ==
  ASSUME TypeInv, SeatInv, NEW i \in Slots, Accept(i) \/ AcceptFails(i)
  PROVE  /\ Head(backlog) \in Peers /\ Head(backlog) = backlog[1]
         /\ Len(backlog) \in Nat \ {0} /\ Len(Tail(backlog)) = Len(backlog) - 1
         /\ \A n \in 1 .. Len(Tail(backlog)) :
                Tail(backlog)[n] = backlog[n + 1] /\ Tail(backlog)[n] # Head(backlog)
         /\ \A j \in Slots : clients[j] # Head(backlog)
<1>1. backlog \in Seq(Peers) /\ backlog # <<>>
  BY DEF TypeInv, TypeOK, ReadyToAccept, Accept, AcceptFails
<1>2. /\ Head(backlog) \in Peers /\ Head(backlog) = backlog[1]
      /\ Len(Tail(backlog)) = Len(backlog) - 1
      /\ \A n \in 1 .. Len(Tail(backlog)) : Tail(backlog)[n] = backlog[n + 1]
  BY <1>1, HeadTailProperties
<1>3. Len(backlog) \in Nat \ {0}
  BY <1>1, EmptySeq
<1>4. \A n \in 1 .. Len(Tail(backlog)) :
        n + 1 \in 1 .. Len(backlog) /\ 1 \in 1 .. Len(backlog) /\ n + 1 # 1
  BY <1>2, <1>3
<1> QED
  BY <1>2, <1>3, <1>4 DEF SeatInv

LEMMA StepSeats ==
  ASSUME TypeInv, SeatInv, [Next]_vars
  PROVE  SeatInv'
<1>1. CASE Idle
  BY <1>1 DEF Idle, SeatInv
<1>2. ASSUME NEW p \in Peers, Arrives(p)
      PROVE  SeatInv'
  <2>1. backlog \in Seq(Peers) /\ Len(backlog) \in Nat
    BY LenProperties DEF TypeInv, TypeOK
  <2>2. /\ Len(backlog') = Len(backlog) + 1
        /\ \A n \in 1 .. Len(backlog) : backlog'[n] = backlog[n]
        /\ backlog'[Len(backlog) + 1] = p
    BY <1>2, <2>1, AppendProperties DEF Arrives
  <2>3. /\ \A n \in 1 .. Len(backlog) : backlog[n] # p
        /\ \A i \in Slots : clients[i] # p
    BY <1>2, PeersAssumption DEF Arrives, Open, Waiting
  <2>4. \A n \in 1 .. Len(backlog') : n \in 1 .. Len(backlog) \/ n = Len(backlog) + 1
    BY <2>1, <2>2
  <2> QED
    BY <1>2, <2>2, <2>3, <2>4 DEF Arrives, SeatInv
<1>3. ASSUME NEW i \in Slots, Accept(i)
      PROVE  SeatInv'
  <2> DEFINE p == Head(backlog)
  <2>1. /\ backlog' = Tail(backlog) /\ Connected' = Connected
        /\ clients' = [clients EXCEPT ![i] = p]
    BY <1>3 DEF Accept
  <2>2. /\ p \in Peers /\ Len(backlog) \in Nat \ {0}
        /\ \A n \in 1 .. Len(backlog') :
             backlog'[n] = backlog[n + 1] /\ backlog'[n] # p /\ n + 1 \in 1 .. Len(backlog)
        /\ \A j \in Slots : clients[j] # p
    BY <1>3, <2>1, AcceptedFacts
  <2>3. \A j \in Slots : clients'[j] = IF j = i THEN p ELSE clients[j]
    BY <2>1 DEF TypeInv, TypeOK
  <2>4. \A m, n \in 1 .. Len(backlog') : m # n => backlog'[m] # backlog'[n]
    <3> SUFFICES ASSUME NEW m \in 1 .. Len(backlog'), NEW n \in 1 .. Len(backlog'), m # n
                 PROVE  backlog'[m] # backlog'[n]
      OBVIOUS
    <3>1. m + 1 # n + 1
      OBVIOUS
    <3> QED
      BY <2>2, <3>1 DEF SeatInv
  <2>5. p # NoSocket
    BY <2>2, PeersAssumption
  <2>6. \A j, k \in Slots : j # k /\ clients'[j] # NoSocket => clients'[j] # clients'[k]
    BY <2>2, <2>3, <2>5 DEF SeatInv
  <2>7. \A j \in Slots, n \in 1 .. Len(backlog') : clients'[j] # backlog'[n]
    BY <2>2, <2>3 DEF SeatInv
  <2>8. \A j \in Slots : Connected'[j] => clients'[j] # NoSocket
    BY <2>1, <2>3, <2>5 DEF SeatInv
  <2> QED
    BY <2>4, <2>6, <2>7, <2>8 DEF SeatInv
<1>4. ASSUME NEW i \in Slots, AcceptFails(i)
      PROVE  SeatInv'
  <2>1. /\ backlog' = Tail(backlog) /\ Connected' = Connected
        /\ clients' = clients
    BY <1>4 DEF AcceptFails, FirstFree, TypeInv, TypeOK
  <2>2. \A n \in 1 .. Len(backlog') :
          backlog'[n] = backlog[n + 1] /\ n + 1 \in 1 .. Len(backlog)
    BY <1>4, <2>1, AcceptedFacts
  <2>3. \A m, n \in 1 .. Len(backlog') : m # n => backlog'[m] # backlog'[n]
    <3> SUFFICES ASSUME NEW m \in 1 .. Len(backlog'), NEW n \in 1 .. Len(backlog'), m # n
                 PROVE  backlog'[m] # backlog'[n]
      OBVIOUS
    <3>1. m + 1 # n + 1
      OBVIOUS
    <3> QED
      BY <2>2, <3>1 DEF SeatInv
  <2> QED
    BY <2>1, <2>2, <2>3 DEF SeatInv
<1>5. ASSUME NEW i \in Slots, Welcomes(i)
      PROVE  SeatInv'
  <2>1. clients[i] # NoSocket
    BY <1>5, PeersAssumption DEF Welcomes
  <2>2. \A j \in Slots : Connected'[j] => Connected[j] \/ j = i
    BY <1>5 DEF Welcomes, TypeInv, TypeOK
  <2> QED
    BY <1>5, <2>1, <2>2 DEF Welcomes, SeatInv
<1>6. ASSUME NEW i \in Slots, Leaves(i)
      PROVE  SeatInv'
  <2>1. /\ \A j \in Slots : clients'[j] = IF j = i THEN NoSocket ELSE clients[j]
        /\ \A j \in Slots : Connected'[j] <=> Connected[j] /\ j # i
    BY <1>6 DEF Leaves, TypeInv, TypeOK
  <2>2. \A n \in 1 .. Len(backlog) : backlog[n] # NoSocket
    <3>1. backlog \in Seq(Peers)
      BY DEF TypeInv, TypeOK
    <3> QED
      BY <3>1, ElementOfSeq, PeersAssumption
  <2> QED
    BY <1>6, <2>1, <2>2 DEF Leaves, SeatInv
<1> QED
  BY <1>1, <1>2, <1>3, <1>4, <1>5, <1>6, SessionSteps

-----------------------------------------------------------------------------
(* The connection count. *)

Taken == {i \in Slots : clients[i] # NoSocket}

LEMMA TakenFinite == IsFiniteSet(Taken)
<1>1. Taken \in SUBSET Slots
  BY DEF Taken
<1> QED
  BY <1>1, SlotsFinite, FS_Subset

LEMMA StepCount ==
  ASSUME TypeInv, SeatInv, CountExact, [Next]_vars
  PROVE  CountExact'
<1>1. CASE Idle \/ (\E p \in Peers : Arrives(p)) \/ (\E i \in Slots : Welcomes(i))
  BY <1>1 DEF Idle, Arrives, Welcomes, CountExact
<1>2. /\ IsFiniteSet(Taken) /\ Cardinality(Taken) \in Nat /\ failed \in Nat
      /\ TotalClients = Cardinality(Taken) + failed
      /\ TotalClients' = Cardinality(Taken') + failed' => CountExact'
  BY TakenFinite, FS_CardinalityType DEF TypeInv, TypeOK, CountExact, Taken
<1>3. ASSUME NEW i \in Slots, Accept(i)
      PROVE  CountExact'
  <2>1. Head(backlog) # NoSocket
    BY <1>3, AcceptedFacts, PeersAssumption
  <2>2. i \notin Taken /\ Taken' = Taken \cup {i}
    BY <1>3, <2>1 DEF Accept, FirstFree, Taken, TypeInv, TypeOK
  <2>3. Cardinality(Taken') = Cardinality(Taken) + 1
    BY <1>2, <2>2, FS_AddElement
  <2>4. TotalClients' = TotalClients + 1 /\ failed' = failed
    BY <1>3 DEF Accept
  <2> QED
    BY <1>2, <2>3, <2>4 
<1>4. ASSUME NEW i \in Slots, AcceptFails(i)
      PROVE  CountExact'
  <2>1. Taken' = Taken
    BY <1>4 DEF AcceptFails, FirstFree, Taken, TypeInv, TypeOK
  <2>2. TotalClients' = TotalClients + 1 /\ failed' = failed + 1
    BY <1>4 DEF AcceptFails
  <2> QED
    BY <1>2, <2>1, <2>2
<1>5. ASSUME NEW i \in Slots, Leaves(i)
      PROVE  CountExact'
  <2>1. i \in Taken /\ Taken' = Taken \ {i}
    BY <1>5, PeersAssumption DEF Leaves, Taken, TypeInv, TypeOK
  <2>2. Cardinality(Taken') = Cardinality(Taken) - 1
    BY <1>2, <2>1, FS_RemoveElement
  <2>3. TotalClients' = TotalClients - 1 /\ failed' = failed
    BY <1>5 DEF Leaves
  <2> QED
    BY <1>2, <2>2, <2>3
<1> QED
  BY <1>1, <1>3, <1>4, <1>5, SessionSteps

-----------------------------------------------------------------------------
(* The master client. *)

LEMMA StepMaster ==
  ASSUME TypeInv, SeatInv, MasterOnRecord, [Next]_vars
  PROVE  MasterOnRecord'
<1>1. CASE Idle \/ \E p \in Peers : Arrives(p)
  BY <1>1 DEF Idle, Arrives, MasterOnRecord, Welcomed
<1>2. CASE \E i \in Slots : Accept(i) \/ AcceptFails(i)
  BY <1>2 DEF Accept, AcceptFails, MasterOnRecord, Welcomed
<1>3. CASE \E i \in Slots : Welcomes(i)
  BY <1>3 DEF Welcomes, MasterOnRecord
<1>4. CASE \E i \in Slots : Leaves(i)
  BY <1>4 DEF Leaves, MasterOnRecord, Welcomed, TypeInv, TypeOK
<1> QED
  BY <1>1, <1>2, <1>3, <1>4, SessionSteps

-----------------------------------------------------------------------------
(* The inductive invariant, and what follows from it. *)

Inv == TypeInv /\ SeatInv /\ CountExact /\ MasterOnRecord

LEMMA InitInv == Init => Inv
<1> SUFFICES ASSUME Init PROVE Inv
  OBVIOUS
<1>1. TypeInv
  BY InitType
<1>2. SeatInv
  <2>1. Len(backlog) = 0
    BY DEF Init
  <2> QED
    BY <2>1 DEF Init, SeatInv
<1>3. CountExact
  <2>1. {i \in Slots : clients[i] # NoSocket} = {}
    BY DEF Init
  <2>2. TotalClients = 0 /\ failed = 0
    BY DEF Init
  <2> QED
    BY <2>1, <2>2, FS_EmptySet DEF CountExact
<1>4. MasterOnRecord
  BY DEF Init, MasterOnRecord, Welcomed
<1> QED
  BY <1>1, <1>2, <1>3, <1>4 DEF Inv

LEMMA StepInv == Inv /\ [Next]_vars => Inv'
  BY StepType, StepSeats, StepCount, StepMaster DEF Inv

\* The connection count is exact up to failed accept calls, for every number
\* of slots and peers (ConsoleServer.cpp:241,292, PacketHandler.cpp:129,153).
THEOREM ConnectionsCounted == Spec => []CountExact
<1>1. Inv => CountExact
  BY DEF Inv
<1> QED
  BY <1>1, InitInv, StepInv, PTL DEF Spec

\* There is a master client on record whenever anybody plays
\* (PacketHandler.cpp:95-101, ConsoleServer.cpp:299-313).
THEOREM MasterRecorded == Spec => []MasterOnRecord
<1>1. Inv => MasterOnRecord
  BY DEF Inv
<1> QED
  BY <1>1, InitInv, StepInv, PTL DEF Spec

-----------------------------------------------------------------------------
(* The server implements Sessions. *)

LEMMA SeatInit == Init => SeatSpec!Init
  BY DEF Init, SeatSpec!Init, Welcomed

LEMMA SeatStep ==
  ASSUME Inv, [Next]_vars
  PROVE  [SeatSpec!Next]_<<clients, Welcomed>>
<1>1. CASE Idle \/ \E p \in Peers : Arrives(p)
  BY <1>1 DEF Idle, Arrives, Welcomed
<1>2. ASSUME NEW i \in Slots, Accept(i)
      PROVE  SeatSpec!Next
  <2> DEFINE p == Head(backlog)
  <2>1. p \in Peers /\ \A j \in Slots : clients[j] # p
    BY <1>2, AcceptedFacts DEF Inv
  <2>2. i \in SeatSpec!Free /\ \A j \in SeatSpec!Free : i <= j
    BY <1>2, SlotsFinite DEF Accept, FirstFree, SeatSpec!Free
  <2>3. clients' = [clients EXCEPT ![i] = p] /\ Welcomed' = Welcomed
    BY <1>2 DEF Accept, Welcomed
  <2>4. SeatSpec!Enter(p)
    BY <2>1, <2>2, <2>3 DEF SeatSpec!Enter
  <2> QED
    BY <2>1, <2>4 DEF SeatSpec!Next
<1>3. ASSUME NEW i \in Slots, AcceptFails(i)
      PROVE  UNCHANGED <<clients, Welcomed>>
  BY <1>3 DEF AcceptFails, FirstFree, Welcomed, Inv, TypeInv, TypeOK
<1>4. ASSUME NEW i \in Slots, Welcomes(i)
      PROVE  SeatSpec!Next
  <2>1. i \notin SeatSpec!Free \cup Welcomed
    BY <1>4, PeersAssumption DEF Welcomes, SeatSpec!Free, Welcomed
  <2>2. Welcomed' = Welcomed \cup {i} /\ UNCHANGED clients
    BY <1>4 DEF Welcomes, Welcomed, Inv, TypeInv, TypeOK
  <2>3. SeatSpec!Greet(i)
    BY <2>1, <2>2 DEF SeatSpec!Greet
  <2> QED
    BY <2>3 DEF SeatSpec!Next
<1>5. ASSUME NEW i \in Slots, Leaves(i)
      PROVE  SeatSpec!Next
  <2>1. i \notin SeatSpec!Free
    BY <1>5, PeersAssumption DEF Leaves, SeatSpec!Free
  <2>2. Welcomed' = Welcomed \ {i} /\ clients' = [clients EXCEPT ![i] = NoSocket]
    BY <1>5 DEF Leaves, Welcomed, Inv, TypeInv, TypeOK
  <2>3. SeatSpec!Leave(i)
    BY <2>1, <2>2 DEF SeatSpec!Leave
  <2> QED
    BY <2>3 DEF SeatSpec!Next
<1> QED
  BY <1>1, <1>2, <1>3, <1>4, <1>5, SessionSteps DEF Inv

\* The main loop and the handlers together do to the slots what Sessions allows
\* and nothing else: every step is one of its steps or changes no seat.
THEOREM SessionsImplemented == Spec => ImplementsSessions
<1>1. Inv /\ [Next]_vars => [SeatSpec!Next]_<<clients, Welcomed>>
  BY SeatStep
<1> QED
  BY <1>1, InitInv, StepInv, SeatInit, PTL DEF Spec, ImplementsSessions, SeatSpec!Spec

-----------------------------------------------------------------------------
(* Departures. *)

\* The only step that takes a player's mark away is the one that finds the peer gone.
LEMMA OnlyTheGoneStop ==
  ASSUME TypeInv, [Next]_vars, NEW i \in Slots, Connected[i], ~Connected'[i]
  PROVE  PeerGone(i)
<1>1. CASE PeerStep
  BY <1>1 DEF PeerStep, Connect, Send, Close, Reset, Environment, sessions
<1>2. CASE \/ Select \/ AcceptNone \/ UNCHANGED vars
           \/ \E k \in Slots : Accept(k) \/ AcceptFails(k)
  BY <1>2 DEF Select, AcceptNone, Accept, AcceptFails, vars, sessions
<1>3. ASSUME NEW k \in Slots, Serve(k), ~PeerGone(k)
      PROVE  FALSE
  <2>1. CASE WelcomePlayer(k)
    BY <2>1 DEF WelcomePlayer, NumberGiven, TypeInv, TypeOK
  <2>2. CASE ~WelcomePlayer(k)
    BY <1>3, <2>2 DEF Serve, WelcomeReady, WelcomeAgain, WelcomeRejected, RelayDisconnect,
       ActorUpdate, NpcUpdate, FullStatUpdate, Relay, Ignore, TimeUpdate, sessions
  <2> QED
    BY <2>1, <2>2
<1>4. ASSUME NEW k \in Slots, PeerGone(k), k # i
      PROVE  FALSE
  BY <1>4 DEF PeerGone, TypeInv, TypeOK
<1> QED
  BY <1>1, <1>2, <1>3, <1>4 DEF Next, ServerStep

LEMMA LeaverStep ==
  ASSUME Inv, [Next]_vars,
         NEW i \in Slots, NEW j \in Slots,
         Connected[i], ~Connected'[i], j # i, clients[j] # NoSocket
  PROVE  \E n \in 1 .. Len(out'[clients[j]]) :
             out'[clients[j]][n] = [type |-> "Disconnect", PlayerID |-> i]
<1> DEFINE goodbye == [type |-> "Disconnect", PlayerID |-> i]
<1>1. PeerGone(i)
  BY OnlyTheGoneStop DEF Inv
<1>2. clients[j] \in Peers /\ clients[j] # clients[i] /\ clients[j] \in Others(i)
  BY DEF Inv, TypeInv, TypeOK, SeatInv, Others
<1>3. out' = [To(Others(i), goodbye) EXCEPT ![clients[i]] = Notices(i)]
  BY <1>1 DEF PeerGone
<1>4. out'[clients[j]] = <<goodbye>>
  BY <1>2, <1>3 DEF To
<1> QED
  BY <1>4

\* Whoever stops being a player is announced to every peer connected at that
\* moment: the only path that ends a welcomed session is the one that sends
\* the Disconnect (ConsoleServer.cpp:272-322).
THEOREM LeaversHeard == Spec => LeaversAnnounced
<1>1. Inv /\ [Next]_vars =>
        \A i, j \in Slots :
          /\ Connected[i] /\ ~Connected'[i]
          /\ j # i /\ clients[j] # NoSocket
          => \E n \in 1 .. Len(out'[clients[j]]) :
                 out'[clients[j]][n] = [type |-> "Disconnect", PlayerID |-> i]
  BY LeaverStep
<1> QED
  BY <1>1, InitInv, StepInv, PTL DEF Spec, LeaversAnnounced

LEMMA HandOver ==
  ASSUME TypeInv, [Next]_vars, NEW i \in Slots, i = MasterClient,
         Connected[i], ~Connected'[i], NEW j \in Welcomed, j > i
  PROVE  MasterClient' \in Welcomed'
<1>1. PeerGone(i)
  BY OnlyTheGoneStop
<1>2. MasterClient' \in Welcomed /\ \A k \in Welcomed : k <= MasterClient'
  BY <1>1 DEF PeerGone, NewMaster
<1>3. i \in Int /\ j \in Int /\ MasterClient' \in Int
  BY <1>2, SlotsFinite DEF Welcomed
<1>4. j <= MasterClient'
  BY <1>2
<1>5. MasterClient' # i
  BY <1>3, <1>4
<1> QED
  BY <1>1, <1>2, <1>5 DEF PeerGone, Welcomed, TypeInv, TypeOK

\* For every number of slots and players: the slot the last assignment of the loop
\* leaves in MasterClient is one of a player who stays, whenever one plays in a
\* higher slot than the master client that goes (ConsoleServer.cpp:299-313).
THEOREM MasterAlwaysHandedOver == Spec => MasterHandedOver
<1>1. TypeInv /\ [Next]_vars =>
        \A i \in Slots :
          /\ i = MasterClient /\ Connected[i] /\ ~Connected'[i]
          /\ \E j \in Welcomed : j > i
          => MasterClient' \in Welcomed'
  BY HandOver
<1> QED
  BY <1>1, InitType, StepType, PTL DEF Spec, MasterHandedOver

-----------------------------------------------------------------------------
(* Why a departed peer is freed.  DepartedPeerFreed speaks of fairness and is    *)
(* TLC's; what it rests on is proved here: a round comes to an end, every round *)
(* serves every departed peer, and being served takes it nearer to its end.     *)

Departed(p) == p \in Open /\ eof[p]

\* Either a round starts, with all who have departed by now in it, or somebody's
\* turn in it is over.  Peers cannot prolong a round.
RoundStarts == fdSet = {} /\ \A p \in Peers : Departed(p) => p \in fdSet'
TurnEnds == fdSet' \subseteq fdSet /\ fdSet' # fdSet

RoundsAdvance ==
    [][IF ServerStep THEN RoundStarts \/ TurnEnds ELSE UNCHANGED fdSet]_vars

\* A departed peer stays departed and sends nothing more; being served takes
\* something from what it left, or frees its slot.
Drains(p) ==
    \/ p \notin Open'
    \/ /\ Departed(p)'
       /\ IF p \in fdSet \ fdSet' THEN Len(c2s'[p]) < Len(c2s[p]) ELSE c2s'[p] = c2s[p]

DepartedDrain == [][\A p \in Peers : Departed(p) => Drains(p)]_vars

\* A round that is not over has a next turn, and something to read in it.
RoundGoesOn ==
    fdSet # {} =>
        \/ acceptSocket \in fdSet /\ backlog # <<>>
        \/ \E i \in Slots : Turn(i) /\ (c2s[clients[i]] # <<>> \/ eof[clients[i]])

LEMMA RoundStep ==
  ASSUME TypeInv, NeverBlocks, Next
  PROVE  IF ServerStep THEN RoundStarts \/ TurnEnds ELSE UNCHANGED fdSet
<1>1. CASE PeerStep /\ ~ServerStep
  BY <1>1 DEF PeerStep, Connect, Send, Close, Reset, Environment
<1>2. CASE Select
  BY <1>2 DEF Select, RoundStarts, Departed, Readable, ServerStep
<1>3. CASE AcceptNone \/ \E i \in Slots : Accept(i) \/ AcceptFails(i)
  <2>1. acceptSocket \in fdSet /\ fdSet' = fdSet \ {acceptSocket}
    BY <1>3 DEF AcceptNone, Accept, AcceptFails
  <2> QED
    BY <1>3, <2>1 DEF TurnEnds, ServerStep
<1>4. ASSUME NEW i \in Slots, Serve(i)
      PROVE  ServerStep /\ TurnEnds
  <2>1. clients[i] \in fdSet /\ fdSet' = fdSet \ {clients[i]}
    BY <1>4, ServeReads DEF Turn
  <2> QED
    BY <1>4, <2>1 DEF TurnEnds, ServerStep
<1> QED
  BY <1>1, <1>2, <1>3, <1>4 DEF Next, ServerStep

\* Every round ends, for every number of slots and peers: each step of the server
\* takes somebody out of it and no peer comes in, and the next one has everybody in
\* it who has departed meanwhile (ConsoleServer.cpp:201-328).
THEOREM RoundsEnd == Spec => RoundsAdvance
<1>1. TypeInv /\ NeverBlocks /\ [Next]_vars =>
        [IF ServerStep THEN RoundStarts \/ TurnEnds ELSE UNCHANGED fdSet]_vars
  BY RoundStep
<1> QED
  BY <1>1, InitType, StepType, InitReady, StepReady, PTL DEF Spec, RoundsAdvance

LEMMA ServedDrains ==
  ASSUME TypeInv, SeatInv, NEW i \in Slots, Serve(i), NEW p \in Peers, Departed(p),
         p = clients[i]
  PROVE  Drains(p)
<1>1. p \in fdSet \ fdSet'
  BY ServeReads DEF Turn
<1>2. CASE c2s[p] # <<>> /\ DropRead(i) /\ UNCHANGED clients
  <2> DEFINE stream == c2s[p]
  <2>1. PICK k \in 1 .. RecvBound :
          /\ k <= Len(stream)
          /\ c2s' = [c2s EXCEPT ![p] = SubSeq(stream, k + 1, Len(stream))]
    BY <1>2 DEF DropRead
  <2>2. /\ stream \in Seq(ClientPackets) /\ Len(stream) \in Nat
        /\ k \in Nat /\ 1 <= k
    BY <2>1, LenProperties, BoundAssumption DEF TypeInv, TypeOK
  <2>3. \A n \in k + 1 .. Len(stream) : stream[n] \in ClientPackets
    <3>1. \A n \in k + 1 .. Len(stream) : n \in 1 .. Len(stream)
      BY <2>2
    <3> QED
      BY <2>2, <3>1, ElementOfSeq
  <2>4. Len(SubSeq(stream, k + 1, Len(stream))) < Len(stream)
    <3> HIDE DEF stream
    <3> QED
      BY <2>1, <2>2, <2>3, SubSeqProperties
  <2>5. Len(c2s'[p]) < Len(c2s[p])
    BY <2>1, <2>4 DEF TypeInv, TypeOK
  <2>6. Departed(p)'
    BY <1>2 DEF Departed, Open, DropRead
  <2> QED
    BY <1>1, <2>5, <2>6 DEF Drains
<1>3. CASE CloseSocket(i)
  <2>1. \A j \in Slots : clients'[j] # p
    BY <1>3, PeersAssumption DEF CloseSocket, SeatInv, TypeInv, TypeOK
  <2> QED
    BY <2>1 DEF Drains, Open
<1> QED
  BY <1>2, <1>3, ServeReads

LEMMA DrainStep ==
  ASSUME TypeInv, SeatInv, Next, NEW p \in Peers, Departed(p)
  PROVE  Drains(p)
<1>1. CASE PeerStep
  <2>1. UNCHANGED <<clients, fdSet>>
    BY <1>1 DEF PeerStep, Connect, Send, Close, Reset, Environment, sessions
  <2>2. c2s'[p] = c2s[p] /\ eof'[p] = eof[p]
    BY <1>1 DEF PeerStep, Connect, Send, Close, Reset, Departed, TypeInv, TypeOK
  <2> QED
    BY <2>1, <2>2 DEF Drains, Departed, Open
<1>2. CASE Select \/ AcceptNone
  <2>1. UNCHANGED <<clients, c2s, eof>> /\ p \notin fdSet \ fdSet'
    BY <1>2, PeersAssumption DEF Select, AcceptNone, network, sessions
  <2> QED
    BY <2>1 DEF Drains, Departed, Open
<1>3. ASSUME NEW i \in Slots, Accept(i) \/ AcceptFails(i)
      PROVE  Drains(p)
  <2>1. /\ UNCHANGED <<c2s, eof>> /\ p \notin fdSet \ fdSet' /\ clients[i] = NoSocket
        /\ \A j \in Slots : j # i => clients'[j] = clients[j]
    BY <1>3, PeersAssumption DEF Accept, AcceptFails, FirstFree, TypeInv, TypeOK
  <2>2. p \in Open'
    BY <2>1 DEF Departed, Open
  <2> QED
    BY <2>1, <2>2 DEF Drains, Departed
<1>4. ASSUME NEW i \in Slots, Serve(i), p # clients[i]
      PROVE  Drains(p)
  <2>1. p \in Open' /\ c2s'[p] = c2s[p] /\ eof'[p] = eof[p]
    BY <1>4, ServeLeavesOthers DEF Departed
  <2>2. p \notin fdSet \ fdSet'
    BY <1>4, ServeReads
  <2> QED
    BY <2>1, <2>2 DEF Drains, Departed
<1> QED
  BY <1>1, <1>2, <1>3, <1>4, ServedDrains DEF Next, ServerStep

\* A peer that has closed or lost its connection only gets nearer to being freed,
\* and strictly so in every turn of its own (ConsoleServer.cpp:264-322).
THEOREM DepartedDrained == Spec => DepartedDrain
<1>1. Inv /\ [Next]_vars => [\A p \in Peers : Departed(p) => Drains(p)]_vars
  BY DrainStep DEF Inv
<1> QED
  BY <1>1, InitInv, StepInv, PTL DEF Spec, DepartedDrain

LEMMA SomebodysTurn == TypeInv /\ NeverBlocks => RoundGoesOn
<1> SUFFICES ASSUME TypeInv, NeverBlocks, fdSet # {}, acceptSocket \notin fdSet
             PROVE  \E i \in Slots : Turn(i) /\ (c2s[clients[i]] # <<>> \/ eof[clients[i]])
  BY DEF RoundGoesOn, TypeInv, ReadyToAccept
<1> DEFINE T == {i \in Slots : clients[i] \in fdSet}
<1>1. \A s \in fdSet : s \in Open /\ (c2s[s] # <<>> \/ eof[s])
  BY DEF NeverBlocks, Readable
<1>2. T # {} /\ T \subseteq Nat
  BY <1>1, SlotsFinite DEF Open
<1>3. PICK i \in T : \A j \in T : i <= j
  BY <1>2, SmallestNat
<1>4. \A j \in Slots : j < i => clients[j] \notin fdSet
  <2>1. \A j \in T : ~ (j < i)
    BY <1>2, <1>3
  <2> QED
    BY <2>1
<1> QED
  BY <1>1, <1>3, <1>4 DEF Turn

\* The loop never stands in the middle of a round, for every number of slots and
\* peers: there is a connection to accept or a slot whose turn it is, and its recv
\* has something to return (ConsoleServer.cpp:223-322).
THEOREM RoundNeverStuck == Spec => []RoundGoesOn
  BY InitType, StepType, InitReady, StepReady, SomebodysTurn, PTL DEF Spec

-----------------------------------------------------------------------------
(* Why a waiting peer is accepted: the part of WaitingPeerAccepted that needs   *)
(* no fairness.                                                             *)

\* While somebody waits, a step of the server starts a round that has the listening
\* socket in it, or has its turn come, in which the head of the backlog leaves it
\* if a slot is free, or leaves the backlog alone after that turn.  Peers queue up
\* at the end and take nobody out.
QueueMoves ==
    IF ServerStep
    THEN \/ fdSet = {} /\ acceptSocket \in fdSet' /\ backlog' = backlog
         \/ /\ acceptSocket \in fdSet /\ acceptSocket \notin fdSet'
            /\ backlog' = IF \E i \in Slots : clients[i] = NoSocket THEN Tail(backlog)
                                                                    ELSE backlog
         \/ acceptSocket \notin fdSet /\ fdSet # {} /\ backlog' = backlog
    ELSE backlog' = backlog \/ \E p \in Peers : backlog' = Append(backlog, p)

QueueServed == [][Waiting # {} => QueueMoves]_vars

LEMMA QueueStep ==
  ASSUME TypeInv, Next, Waiting # {}
  PROVE  QueueMoves
<1>1. backlog # <<>>
  <2>1. backlog = <<>> => Waiting = {}
    BY EmptySeq DEF Waiting
  <2> QED
    BY <2>1
<1>2. CASE PeerStep /\ ~ServerStep
  BY <1>2 DEF PeerStep, Connect, Send, Close, Reset, QueueMoves
<1>3. CASE Select
  BY <1>1, <1>3 DEF Select, Readable, network, QueueMoves, ServerStep
<1>4. CASE AcceptNone
  BY <1>4 DEF AcceptNone, network, QueueMoves, ServerStep
<1>5. ASSUME NEW i \in Slots, Accept(i) \/ AcceptFails(i)
      PROVE  QueueMoves
  <2>1. /\ ServerStep /\ acceptSocket \in fdSet /\ acceptSocket \notin fdSet'
        /\ clients[i] = NoSocket /\ backlog' = Tail(backlog)
    BY <1>5 DEF Accept, AcceptFails, FirstFree, ServerStep
  <2> QED
    BY <2>1 DEF QueueMoves
<1>6. ASSUME NEW i \in Slots, Serve(i)
      PROVE  QueueMoves
  <2>1. /\ ServerStep /\ acceptSocket \notin fdSet /\ fdSet # {} /\ backlog' = backlog
    BY <1>6, ServeReads DEF Turn, ServerStep
  <2> QED
    BY <2>1 DEF QueueMoves
<1> QED
  BY <1>2, <1>3, <1>4, <1>5, <1>6 DEF Next, ServerStep

\* Whoever waits only moves up, and does so in every round while a slot is free,
\* for every number of slots and peers (ConsoleServer.cpp:205-258).
THEOREM BacklogServed == Spec => QueueServed
<1>1. TypeInv /\ [Next]_vars => [Waiting # {} => QueueMoves]_vars
  BY QueueStep
<1> QED
  BY <1>1, InitType, StepType, PTL DEF Spec, QueueServed

-----------------------------------------------------------------------------
(* What a peer that keeps to the protocol can rely on. *)

Attached(p) == p \in Open \cup Waiting /\ ~eof[p]

\* A number assigned to a peer by a packet of a step.
Assigns(pkt) == pkt.type = "Welcome" /\ 2 \notin pkt.Flags

\* What a step that handles an actor update sends.
LEMMA ActorUpdateSends ==
  ASSUME NEW i \in Slots, ActorUpdate(i)
  PROVE  \E pkt : pkt.type = "ActorUpdate" /\ out' = To(Others(i), pkt)
<1> DEFINE flags(pkt) == IF Players[pkt.refID].bStatsInitialized THEN pkt.Flags
                         ELSE pkt.Flags \cup {8}
           sent(pkt) == [pkt EXCEPT
               !.Flags = flags(pkt),
               !.Health = SentStat(Players[pkt.refID].Health, pkt.Health)]
<1>1. PICK pkt \in ClientPackets :
        pkt.type = "ActorUpdate" /\ out' = To(Others(i), sent(pkt))
  BY Zenon DEF ActorUpdate
<1>2. sent(pkt).type = "ActorUpdate"
  BY <1>1, PacketByType DEF ActorPackets
<1> HIDE DEF sent
<1> QED
  BY <1>1, <1>2

\* What a step sends that is no welcome of a player: nothing that a peer takes for
\* one, except the notices of a new master client, for the peer that is gone.
LEMMA QuietSteps ==
  ASSUME TypeInv, NEW i \in Slots, NEW p \in Peers, NEW n \in 1 .. Len(out'[p]),
         \/ Select \/ Accept(i) \/ AcceptFails(i) \/ AcceptNone
         \/ WelcomeReady(i) \/ WelcomeAgain(i) \/ WelcomeRejected(i)
         \/ RelayDisconnect(i) \/ ActorUpdate(i) \/ NpcUpdate(i) \/ FullStatUpdate(i)
         \/ Relay(i) \/ Ignore(i) \/ TimeUpdate(i) \/ PeerGone(i)
  PROVE  \/ out'[p][n].type # "Welcome"
         \/ eof[p] /\ 2 \in out'[p][n].Flags
<1>1. out' # Silence
  BY DEF Silence
<1>2. CASE WelcomeReady(i)
  <2>1. PICK told \in Ascending(InitSlots(i)) :
          out' = [Silence EXCEPT ![clients[i]] =
                    [m \in 1 .. Cardinality(InitSlots(i)) |-> InitData(told[m])]]
    BY <1>2 DEF WelcomeReady
  <2> DEFINE size == Cardinality(InitSlots(i))
             answer == [m \in 1 .. size |-> InitData(told[m])]
  <2>2. size \in Nat
    <3>1. InitSlots(i) \in SUBSET Slots
      BY DEF InitSlots
    <3> QED
      BY <3>1, SlotsFinite, FS_Subset, FS_CardinalityType
  <2>3. p = clients[i] /\ out'[p] = answer
    BY <2>1 DEF Silence
  <2>4. n \in 1 .. size
    <3>1. Len(answer) = size
      BY <2>2
    <3> QED
      BY <2>3, <3>1
  <2>5. out'[p][n].type = "ActorUpdate"
    BY <2>3, <2>4 DEF InitData
  <2> QED
    BY <2>5
<1>3. ASSUME NEW S, NEW m, out' = To(S, m)
      PROVE  out'[p][n] = m
  BY <1>3 DEF To
<1>4. CASE RelayDisconnect(i)
  BY <1>1, <1>3, <1>4 DEF RelayDisconnect
<1>5. CASE ActorUpdate(i)
  BY <1>3, <1>5, ActorUpdateSends
<1>6. CASE FullStatUpdate(i)
  <2> DEFINE sent(pkt) == IF 8 \in pkt.Flags THEN pkt
                          ELSE [pkt EXCEPT !.Health = @ - Players[pkt.refID].Health]
  <2>1. PICK pkt \in ClientPackets :
          pkt.type = "FullStatUpdate" /\ out' = To(Others(i), sent(pkt))
    BY <1>6 DEF FullStatUpdate
  <2>2. sent(pkt).type = "FullStatUpdate"
    BY <2>1, PacketByType DEF FullStatPackets
  <2> HIDE DEF sent
  <2> QED
    BY <1>3, <2>1, <2>2
<1>7. CASE Relay(i) \/ TimeUpdate(i)
  BY <1>3, <1>7 DEF Relay, TimeUpdate
<1>8. CASE PeerGone(i)
  <2>1. \/ p = clients[i] /\ out'[p] = Notices(i)
        \/ out'[p][n].type = "Disconnect"
    BY <1>8 DEF PeerGone, To
  <2>2. CASE p = clients[i] /\ out'[p] = Notices(i)
    <3>1. IsFiniteSet(Welcomed)
      BY SlotsFinite, FS_Subset DEF Welcomed
    <3>2. Cardinality(Welcomed) \in Nat
      BY <3>1, FS_CardinalityType
    <3> QED
      BY <1>8, <2>2, <3>2 DEF Notices, PeerGone
  <2> QED
    BY <2>1, <2>2
<1>9. CASE \/ Select \/ Accept(i) \/ AcceptFails(i) \/ AcceptNone
           \/ WelcomeAgain(i) \/ WelcomeRejected(i) \/ NpcUpdate(i) \/ Ignore(i)
  BY <1>1, <1>9 DEF Select, Accept, AcceptFails, AcceptNone, WelcomeAgain,
     WelcomeRejected, NpcUpdate, Ignore
<1> QED
  BY <1>2, <1>4, <1>5, <1>6, <1>7, <1>8, <1>9

\* A number is assigned to the peer of the slot it names, in the step that marks
\* the slot connected.
LEMMA NumbersAssigned ==
  ASSUME TypeInv, ServerStep, NEW p \in Peers, NEW n \in 1 .. Len(out'[p]),
         Assigns(out'[p][n])
  PROVE  /\ out'[p][n].PlayerID \in Slots
         /\ clients'[out'[p][n].PlayerID] = p
         /\ Connected'[out'[p][n].PlayerID]
<1>1. PICK i \in Slots : WelcomePlayer(i)
  BY QuietSteps, MaxClientsAssumption DEF ServerStep, Serve, Slots, Assigns
<1>2. PICK f :
        /\ out' = To({clients[i]}, [type |-> "Welcome", PlayerID |-> i, Flags |-> f])
        /\ Connected' = [Connected EXCEPT ![i] = TRUE]
        /\ clients' = clients
  BY <1>1 DEF WelcomePlayer, NumberGiven
<1>3. p = clients[i] /\ out'[p][n].PlayerID = i
  BY <1>2 DEF To
<1> QED
  BY <1>2, <1>3 DEF TypeInv, TypeOK

\* A packet that would make its reader a master client goes to a peer that has gone.
LEMMA NoticesLost ==
  ASSUME TypeInv, ServerStep, NEW p \in Peers, NEW n \in 1 .. Len(out'[p]),
         out'[p][n].type = "Welcome", 4 \in out'[p][n].Flags
  PROVE  eof[p]
<1>1. ASSUME NEW i \in Slots, WelcomePlayer(i)
      PROVE  FALSE
  <2>1. PICK f : /\ f = {1, 2} \/ f = {1}
                 /\ out' = To({clients[i]}, [type |-> "Welcome", PlayerID |-> i, Flags |-> f])
    BY <1>1 DEF WelcomePlayer, NumberGiven
  <2>2. out'[p][n].Flags = f
    BY <2>1 DEF To
  <2> QED
    BY <2>1, <2>2
<1> QED
  BY <1>1, QuietSteps, MaxClientsAssumption DEF ServerStep, Serve, Slots

\* The peers only ever log in with the guid and the version of the server.
LoginsRight ==
    \A pkt \in ClientPackets :
        pkt.type = "Welcome" /\ 1 \notin pkt.Flags => pkt.guid /\ pkt.version

\* The server keeps the connection of such a peer as long as the peer does, and
\* its player.
LEMMA SessionKept ==
  ASSUME TypeInv, LoginsRight, ServerStep, NEW p \in Peers, Attached(p)
  PROVE  /\ Attached(p)'
         /\ \A i \in Slots : clients[i] = p => clients'[i] = p
         /\ \A i \in Slots : clients[i] = p /\ Connected[i] => Connected'[i]
<1> DEFINE Kept == /\ Attached(p)'
                   /\ \A i \in Slots : clients[i] = p => clients'[i] = p
                   /\ \A i \in Slots : clients[i] = p /\ Connected[i] => Connected'[i]
<1>1. CASE Select \/ AcceptNone
  BY <1>1 DEF Select, AcceptNone, network, sessions, Attached, Open, Waiting
<1>2. ASSUME NEW i \in Slots, Accept(i) \/ AcceptFails(i)
      PROVE  Kept
  <2>1. /\ backlog # <<>> /\ backlog \in Seq(Peers)
        /\ Len(backlog) \in Nat \ {0}
    BY <1>2, EmptySeq, LenProperties DEF Accept, AcceptFails, TypeInv, TypeOK, ReadyToAccept
  <2>2. /\ Head(backlog) = backlog[1] /\ Head(backlog) \in Peers
        /\ Len(Tail(backlog)) = Len(backlog) - 1
        /\ \A n \in 1 .. Len(Tail(backlog)) : Tail(backlog)[n] = backlog[n + 1]
    BY <2>1, HeadTailProperties
  <2>3. /\ clients[i] = NoSocket /\ p # NoSocket
        /\ Connected' = Connected /\ eof' = eof /\ backlog' = Tail(backlog)
        /\ \A j \in Slots : j # i => clients'[j] = clients[j]
    BY <1>2, PeersAssumption DEF Accept, AcceptFails, FirstFree, TypeInv, TypeOK
  <2>4. CASE p \in Open
    BY <2>3, <2>4 DEF Attached, Open
  <2>5. CASE p = Head(backlog)
    <3>1. clients'[i] = p
      BY <1>2, <2>5 DEF Accept, AcceptFails, Attached, TypeInv, TypeOK
    <3> QED
      BY <2>3, <3>1 DEF Attached, Open
  <2>6. CASE p \in Waiting /\ p # Head(backlog)
    <3>1. PICK n \in 1 .. Len(backlog) : p = backlog[n]
      BY <2>6 DEF Waiting
    <3>2. n # 1
      BY <2>2, <2>6, <3>1
    <3>3. n - 1 \in 1 .. Len(Tail(backlog)) /\ Tail(backlog)[n - 1] = p
      BY <2>1, <2>2, <3>1, <3>2
    <3>4. p \in Waiting'
      BY <2>3, <3>3 DEF Waiting
    <3> QED
      BY <2>3, <3>4 DEF Attached
  <2> QED
    BY <2>4, <2>5, <2>6 DEF Attached
<1>3. ASSUME NEW i \in Slots, Serve(i)
      PROVE  Kept
  <2>1. CASE \/ WelcomeReady(i) \/ WelcomeAgain(i) \/ RelayDisconnect(i)
             \/ ActorUpdate(i) \/ NpcUpdate(i) \/ FullStatUpdate(i)
             \/ Relay(i) \/ Ignore(i) \/ TimeUpdate(i)
    <3>1. \E pkt \in ClientPackets : Recv(i, pkt) /\ DropRead(i) /\ UNCHANGED sessions
      <4>1. CASE ActorUpdate(i)
        BY <4>1 DEF ActorUpdate
      <4>2. CASE FullStatUpdate(i)
        BY <4>2 DEF FullStatUpdate
      <4>3. CASE WelcomeReady(i)
        BY <4>3 DEF WelcomeReady
      <4>4. CASE WelcomeAgain(i) \/ RelayDisconnect(i) \/ NpcUpdate(i)
        BY <4>4 DEF WelcomeAgain, RelayDisconnect, NpcUpdate
      <4>5. CASE Relay(i) \/ Ignore(i) \/ TimeUpdate(i)
        BY <4>5 DEF Relay, Ignore, TimeUpdate
      <4> QED
        BY <2>1, <4>1, <4>2, <4>3, <4>4, <4>5
    <3>2. UNCHANGED <<clients, Connected, backlog, eof>>
      BY <3>1 DEF Recv, DropRead, sessions
    <3> QED
      BY <3>2 DEF Attached, Open, Waiting
  <2>2. CASE WelcomePlayer(i)
    <3>1. /\ UNCHANGED <<clients, backlog, eof>>
          /\ Connected' = [Connected EXCEPT ![i] = TRUE]
      BY <2>2 DEF WelcomePlayer, Recv, DropRead
    <3> QED
      BY <3>1 DEF Attached, Open, Waiting, TypeInv, TypeOK
  <2>3. ~WelcomeRejected(i)
    BY DEF WelcomeRejected, LoginsRight
  <2>4. CASE PeerGone(i)
    <3>1. /\ clients[i] # p
          /\ clients' = [clients EXCEPT ![i] = NoSocket]
          /\ eof' = [eof EXCEPT ![clients[i]] = FALSE]
          /\ Connected' = [Connected EXCEPT ![i] = FALSE]
          /\ backlog' = backlog
      BY <2>4 DEF PeerGone, CloseSocket, Attached
    <3>2. \A j \in Slots : clients[j] = p => clients'[j] = p
      BY <3>1 DEF TypeInv, TypeOK
    <3>3. ~eof'[p]
      BY <3>1 DEF Attached, TypeInv, TypeOK
    <3> QED
      BY <3>1, <3>2, <3>3 DEF Attached, Open, Waiting, TypeInv, TypeOK
  <2> QED
    BY <1>3, <2>1, <2>2, <2>3, <2>4 DEF Serve
<1> QED
  BY <1>1, <1>2, <1>3 DEF ServerStep
=============================================================================
