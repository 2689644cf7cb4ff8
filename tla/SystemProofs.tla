---------------------------- MODULE SystemProofs ----------------------------
(***************************************************************************)
(* Proofs about System, for every number of slots and clients and every     *)
(* bound: the clients keep within what Server assumes of its peers, and the *)
(* number a client goes by is its slot.                                     *)
(*                                                                          *)
(* What ServerProofs shows of any peers is carried over by instantiation:   *)
(* SP is the instance of Server that System calls S, with its theorems.     *)
(***************************************************************************)
EXTENDS System, SequenceTheorems, TLAPS

SP == INSTANCE ServerProofs WITH Cells <- {Cell}, StartCell <- Cell

-----------------------------------------------------------------------------
(* The assumptions of Server hold of its instance in System. *)

LEMMA HealthsInt == \A h \in Healths : h \in Int
  BY SystemAssumption

LEMMA SlotsNat == Slots \subseteq Nat /\ 0 \in Slots /\ S!Slots = Slots /\ SP!Slots = Slots
  BY SystemAssumption DEF Slots, S!Slots, SP!Slots

LEMMA ServerAssumptions ==
  /\ SP!MaxClientsAssumption /\ SP!PeersAssumption /\ SP!CellAssumption
  /\ SP!PacketAssumption /\ SP!BoundAssumption
<1>1. SP!MaxClientsAssumption
  BY SystemAssumption DEF SP!MaxClientsAssumption
<1>2. SP!PeersAssumption
  BY SocketAssumption DEF SP!PeersAssumption, SP!IsFiniteSet, IsFiniteSet
<1>3. SP!CellAssumption
  BY DEF SP!CellAssumption
<1>4. SP!BoundAssumption
  BY SystemAssumption DEF SP!BoundAssumption
<1>5. SP!PacketAssumption
  <2> SUFFICES ASSUME NEW pkt \in ClientPackets PROVE pkt \in SP!PacketTypes
    BY DEF SP!PacketAssumption
  <2>1. CASE pkt.type = "Welcome"
    <3>1. \/ pkt = [type |-> "Welcome", Flags |-> {}, guid |-> TRUE, version |-> TRUE]
          \/ pkt = [type |-> "Welcome", Flags |-> {1}, guid |-> FALSE, version |-> FALSE]
      BY <2>1 DEF ClientPackets
    <3>2. \A f \in SUBSET {1}, g, v \in BOOLEAN :
            [type |-> "Welcome", Flags |-> f, guid |-> g, version |-> v]
                \in SP!WelcomePackets
      BY DEF SP!WelcomePackets
    <3>3. pkt \in SP!WelcomePackets
      BY <3>1, <3>2
    <3> QED
      BY <3>3 DEF SP!PacketTypes
  <2>2. CASE pkt.type = "ActorUpdate"
    <3>1. pkt \in [type : {"ActorUpdate"}, Flags : {{1, 2}, {1, 2, 8}}, refID : Slots,
                  CellID : {Cell}, Health : Healths]
      BY <2>2 DEF ClientPackets
    <3>2. pkt.Flags \in SUBSET SP!Bits
      BY <3>1 DEF SP!Bits
    <3>3. pkt.refID \in Nat /\ pkt.Health \in Int
      <4>1. pkt.refID \in Slots /\ pkt.Health \in Healths
        BY <3>1
      <4> QED
        BY <4>1, SlotsNat, HealthsInt
    <3>4. pkt = [type |-> "ActorUpdate", Flags |-> pkt.Flags, refID |-> pkt.refID,
                 CellID |-> Cell, Health |-> pkt.Health]
      BY <3>1
    <3>5. pkt \in SP!ActorPackets
      BY <3>2, <3>3, <3>4 DEF SP!ActorPackets
    <3> QED
      BY <3>5 DEF SP!PacketTypes
  <2>3. CASE pkt.type = "FullStatUpdate"
    <3>1. pkt \in [type : {"FullStatUpdate"}, Flags : {{2}, {1, 2}, {1, 2, 8}}, refID : Slots,
                  Health : Healths]
      BY <2>3 DEF ClientPackets
    <3>2. pkt.Flags \in SUBSET SP!Bits
      BY <3>1 DEF SP!Bits
    <3>3. pkt.refID \in Nat /\ pkt.Health \in Int
      <4>1. pkt.refID \in Slots /\ pkt.Health \in Healths
        BY <3>1
      <4> QED
        BY <4>1, SlotsNat, HealthsInt
    <3>4. pkt = [type |-> "FullStatUpdate", Flags |-> pkt.Flags, refID |-> pkt.refID,
                 Health |-> pkt.Health]
      BY <3>1
    <3>5. pkt \in SP!FullStatPackets
      BY <3>2, <3>3, <3>4 DEF SP!FullStatPackets
    <3> QED
      BY <3>5 DEF SP!PacketTypes
  <2>4. CASE pkt.type = "Disconnect"
    <3>1. pkt \in SP!DisconnectPackets
      BY <2>4, SlotsNat DEF ClientPackets, SP!DisconnectPackets
    <3> QED
      BY <3>1 DEF SP!PacketTypes
  <2>5. CASE pkt.type = "Equipped"
    <3>1. pkt \in [type : {"Equipped"}, refID : Slots]
      BY <2>5 DEF ClientPackets
    <3>2. pkt \in SP!RelayedPackets
      BY <3>1, SlotsNat DEF SP!RelayedPackets
    <3> QED
      BY <3>2 DEF SP!PacketTypes
  <2> QED
    BY <2>1, <2>2, <2>3, <2>4, <2>5 DEF ClientPackets
<1> QED
  BY <1>1, <1>2, <1>3, <1>4, <1>5

\* The clients log in with the guid and the version the server wants.
LEMMA LoginsAreRight == SP!LoginsRight
  BY DEF SP!LoginsRight, ClientPackets

-----------------------------------------------------------------------------
(* S and SP are two names of one instance: what S does, SP does. *)

LEMMA SameCardinality == \A T : S!Cardinality(T) = SP!Cardinality(T)
  BY DEF S!Cardinality, SP!Cardinality

LEMMA SamePeerSteps ==
  ASSUME NEW p \in Peers
  PROVE  /\ S!Connect(p) => SP!Connect(p)
         /\ S!Send(p) => SP!Send(p)
         /\ S!Close(p) => SP!Close(p)
         /\ S!Reset(p) => SP!Reset(p)
<1>1. ASSUME S!Connect(p) PROVE SP!Connect(p)
  BY <1>1
  DEF S!Connect, SP!Connect, S!Environment, SP!Environment, S!Open, SP!Open,
      S!Silence, SP!Silence, S!Slots, SP!Slots, S!Waiting, SP!Waiting, S!sessions,
      SP!sessions
<1>2. ASSUME S!Send(p) PROVE SP!Send(p)
  BY <1>2
  DEF S!Environment, SP!Environment, S!Open, SP!Open, S!Send, SP!Send, S!Silence,
      SP!Silence, S!Slots, SP!Slots, S!Waiting, SP!Waiting, S!sessions, SP!sessions
<1>3. ASSUME S!Close(p) PROVE SP!Close(p)
  BY <1>3
  DEF S!Close, SP!Close, S!Environment, SP!Environment, S!Open, SP!Open, S!Silence,
      SP!Silence, S!Slots, SP!Slots, S!Waiting, SP!Waiting, S!sessions, SP!sessions
<1>4. ASSUME S!Reset(p) PROVE SP!Reset(p)
  BY <1>4
  DEF S!Environment, SP!Environment, S!Open, SP!Open, S!Reset, SP!Reset, S!Silence,
      SP!Silence, S!Slots, SP!Slots, S!Waiting, SP!Waiting, S!sessions, SP!sessions
<1> QED
  BY <1>1, <1>2, <1>3, <1>4

LEMMA SameLoopSteps ==
  ASSUME NEW i \in S!Slots
  PROVE  /\ S!Select => SP!Select
         /\ S!Accept(i) => SP!Accept(i)
         /\ S!AcceptFails(i) => SP!AcceptFails(i)
         /\ S!AcceptNone => SP!AcceptNone
<1>1. ASSUME S!Select PROVE SP!Select
  BY <1>1
  DEF S!Open, SP!Open, S!Readable, SP!Readable, S!Select, SP!Select, S!Silence,
      SP!Silence, S!Slots, SP!Slots, S!network, SP!network, S!sessions, SP!sessions
<1>2. ASSUME S!Accept(i) PROVE SP!Accept(i)
  BY <1>2
  DEF S!Accept, SP!Accept, S!FirstFree, SP!FirstFree, S!Silence, SP!Silence,
      S!Slots, SP!Slots
<1>3. ASSUME S!AcceptFails(i) PROVE SP!AcceptFails(i)
  BY <1>3
  DEF S!AcceptFails, SP!AcceptFails, S!FirstFree, SP!FirstFree, S!Silence,
      SP!Silence, S!Slots, SP!Slots
<1>4. ASSUME S!AcceptNone PROVE SP!AcceptNone
  BY <1>4
  DEF S!AcceptNone, SP!AcceptNone, S!Silence, SP!Silence, S!Slots, SP!Slots,
      S!network, SP!network, S!sessions, SP!sessions
<1> QED
  BY <1>1, <1>2, <1>3, <1>4

LEMMA SameHandlers ==
  ASSUME NEW i \in S!Slots, S!Serve(i)
  PROVE  SP!Serve(i)
<1>1. ASSUME S!WelcomeReady(i) PROVE SP!WelcomeReady(i)
  <2>1. S!InitSlots(i) = SP!InitSlots(i)
    BY DEF S!InitSlots, SP!InitSlots, S!Slots, SP!Slots
  <2>3. \A T : S!Ascending(T) = SP!Ascending(T)
    BY SameCardinality DEF S!Ascending, SP!Ascending
  <2>4. \A j : S!InitData(j) = SP!InitData(j)
    BY DEF S!InitData, SP!InitData, S!PlayerRefID, SP!PlayerRefID
  <2>5. S!Silence = SP!Silence
    BY DEF S!Silence, SP!Silence
  <2>2. \A pkt : /\ S!Recv(i, pkt) => SP!Recv(i, pkt)
                 /\ S!DropRead(i) => SP!DropRead(i)
    BY DEF S!Recv, SP!Recv, S!DropRead, SP!DropRead, S!Turn, SP!Turn, S!Slots,
           SP!Slots
  <2>6. PICK pkt \in ClientPackets, told \in S!Ascending(S!InitSlots(i)) :
          /\ pkt.type = "Welcome" /\ 1 \in pkt.Flags
          /\ S!Recv(i, pkt) /\ S!DropRead(i)
          /\ out' = [S!Silence EXCEPT ![clients[i]] =
                [n \in 1 .. S!Cardinality(S!InitSlots(i)) |-> S!InitData(told[n])]]
          /\ UNCHANGED <<S!sessions, Players>>
    BY <1>1 DEF S!WelcomeReady
  <2>7. /\ told \in SP!Ascending(SP!InitSlots(i))
        /\ S!Cardinality(S!InitSlots(i)) = SP!Cardinality(SP!InitSlots(i))
    BY <2>1, <2>3, SameCardinality
  <2>8. out' = [SP!Silence EXCEPT ![clients[i]] =
            [n \in 1 .. SP!Cardinality(SP!InitSlots(i)) |-> SP!InitData(told[n])]]
    BY <2>4, <2>5, <2>6, <2>7
  <2> QED
    BY <2>2, <2>6, <2>7, <2>8 DEF SP!WelcomeReady, S!sessions, SP!sessions
<1>2. ASSUME S!WelcomeAgain(i) PROVE SP!WelcomeAgain(i)
  BY <1>2
  DEF S!DropRead, SP!DropRead, S!Recv, SP!Recv, S!Silence, SP!Silence, S!Slots,
      SP!Slots, S!Turn, SP!Turn, S!WelcomeAgain, SP!WelcomeAgain, S!sessions,
      SP!sessions
<1>3. ASSUME S!WelcomePlayer(i) PROVE SP!WelcomePlayer(i)
  BY <1>3
  DEF S!DropRead, SP!DropRead, S!NumberGiven, SP!NumberGiven, S!Recv, SP!Recv,
      S!Slots, SP!Slots, S!To, SP!To, S!Turn, SP!Turn, S!WelcomePlayer,
      SP!WelcomePlayer
<1>4. ASSUME S!WelcomeRejected(i) PROVE SP!WelcomeRejected(i)
  BY <1>4
  DEF S!CloseSocket, SP!CloseSocket, S!Recv, SP!Recv, S!Silence, SP!Silence,
      S!Slots, SP!Slots, S!Turn, SP!Turn, S!WelcomeRejected, SP!WelcomeRejected
<1>5. ASSUME S!RelayDisconnect(i) PROVE SP!RelayDisconnect(i)
  BY <1>5
  DEF S!DropRead, SP!DropRead, S!Others, SP!Others, S!Recv, SP!Recv,
      S!RelayDisconnect, SP!RelayDisconnect, S!Silence, SP!Silence, S!Slots,
      SP!Slots, S!To, SP!To, S!Turn, SP!Turn, S!sessions, SP!sessions
<1>6. ASSUME S!ActorUpdate(i) PROVE SP!ActorUpdate(i)
  BY <1>6
  DEF S!ActorUpdate, SP!ActorUpdate, S!Clamps, SP!Clamps, S!DropRead, SP!DropRead,
      S!Others, SP!Others, S!Recv, SP!Recv, S!SentStat, SP!SentStat, S!Slots,
      SP!Slots, S!StoredStat, SP!StoredStat, S!To, SP!To, S!Turn, SP!Turn,
      S!sessions, SP!sessions
<1>7. ASSUME S!NpcUpdate(i) PROVE SP!NpcUpdate(i)
  BY <1>7
  DEF S!ActorUpdate, SP!ActorUpdate, S!Clamps, SP!Clamps, S!DropRead, SP!DropRead,
      S!NpcUpdate, SP!NpcUpdate, S!Others, SP!Others, S!Recv, SP!Recv, S!SentStat,
      SP!SentStat, S!Silence, SP!Silence, S!Slots, SP!Slots, S!StoredStat,
      SP!StoredStat, S!To, SP!To, S!Turn, SP!Turn, S!sessions, SP!sessions
<1>8. ASSUME S!FullStatUpdate(i) PROVE SP!FullStatUpdate(i)
  BY <1>8
  DEF S!DropRead, SP!DropRead, S!FullStatUpdate, SP!FullStatUpdate, S!Others,
      SP!Others, S!Recv, SP!Recv, S!Slots, SP!Slots, S!To, SP!To, S!Turn, SP!Turn,
      S!sessions, SP!sessions
<1>9. ASSUME S!Relay(i) PROVE SP!Relay(i)
  BY <1>9
  DEF S!DropRead, SP!DropRead, S!Others, SP!Others, S!Recv, SP!Recv, S!Relay,
      SP!Relay, S!Slots, SP!Slots, S!To, SP!To, S!Turn, SP!Turn, S!sessions,
      SP!sessions
<1>10. ASSUME S!Ignore(i) PROVE SP!Ignore(i)
  BY <1>10
  DEF S!DropRead, SP!DropRead, S!FullStatUpdate, SP!FullStatUpdate, S!Ignore,
      SP!Ignore, S!Others, SP!Others, S!Recv, SP!Recv, S!Silence, SP!Silence,
      S!Slots, SP!Slots, S!To, SP!To, S!Turn, SP!Turn, S!sessions, SP!sessions
<1>11. ASSUME S!TimeUpdate(i) PROVE SP!TimeUpdate(i)
  BY <1>11
  DEF S!DropRead, SP!DropRead, S!Open, SP!Open, S!Recv, SP!Recv, S!Slots, SP!Slots,
      S!TimeUpdate, SP!TimeUpdate, S!To, SP!To, S!Turn, SP!Turn, S!sessions,
      SP!sessions
<1>12. ASSUME S!PeerGone(i) PROVE SP!PeerGone(i)
  <2>1. S!NewMaster(i) = SP!NewMaster(i)
    BY DEF S!NewMaster, SP!NewMaster, S!Welcomed, SP!Welcomed, S!Slots, SP!Slots
  <2>3. S!Notices(i) = SP!Notices(i)
    BY SameCardinality DEF S!Notices, SP!Notices, S!Welcomed, SP!Welcomed, S!Slots, SP!Slots
  <2>4. S!Others(i) = SP!Others(i)
    BY DEF S!Others, SP!Others, S!Slots, SP!Slots
  <2>5. \A T, m : S!To(T, m) = SP!To(T, m)
    BY DEF S!To, SP!To
  <2>2. /\ S!Turn(i) => SP!Turn(i)
        /\ S!CloseSocket(i) => SP!CloseSocket(i)
    BY DEF S!Turn, SP!Turn, S!CloseSocket, SP!CloseSocket, S!Slots, SP!Slots
  <2> QED
    BY <1>12, <2>1, <2>2, <2>3, <2>4, <2>5 DEF S!PeerGone, SP!PeerGone
<1> QED
  BY <1>1, <1>2, <1>3, <1>4, <1>5, <1>6, <1>7, <1>8, <1>9, <1>10, <1>11, <1>12
  DEF S!Serve, SP!Serve
LEMMA SameServer ==
  /\ S!Init => SP!Init
  /\ S!Next => SP!Next
  /\ S!ServerStep => SP!ServerStep
  /\ UNCHANGED S!vars => UNCHANGED SP!vars
<1>1. S!Init => SP!Init
  BY DEF S!Init, SP!Init, S!Slots, SP!Slots, S!Silence, SP!Silence
<1>2. S!PeerStep => SP!PeerStep
  BY SamePeerSteps DEF S!PeerStep, SP!PeerStep
<1>3. S!ServerStep => SP!ServerStep
  <2>1. ASSUME NEW i \in S!Slots, S!Accept(i) \/ S!AcceptFails(i) \/ S!Serve(i)
        PROVE  SP!ServerStep
    BY <2>1, SameLoopSteps, SameHandlers, SlotsNat DEF SP!ServerStep
  <2>2. S!Select \/ S!AcceptNone => SP!ServerStep
    BY SameLoopSteps, SlotsNat DEF SP!ServerStep
  <2> QED
    BY <2>1, <2>2 DEF S!ServerStep
<1>4. UNCHANGED S!vars => UNCHANGED SP!vars
  BY DEF S!vars, SP!vars
<1> QED
  BY <1>1, <1>2, <1>3, <1>4 DEF S!Next, SP!Next

\* The invariant of ServerProofs, for this instance.
LEMMA ServerInvariant ==
  /\ S!Init => SP!TypeInv
  /\ SP!TypeInv /\ [S!Next]_S!vars => SP!TypeInv'
<1>1. S!Init => SP!TypeInv
  BY SameServer, ServerAssumptions, SP!InitType
<1>2. SP!TypeInv /\ [SP!Next]_SP!vars => SP!TypeInv'
  BY ServerAssumptions, SP!StepType
<1> QED
  BY <1>1, <1>2, SameServer

-----------------------------------------------------------------------------
(* The packets the clients read, and the ones they send. *)

LEMMA SamePackets == S!ServerPackets = SP!ServerPackets
  BY DEF S!ServerPackets, SP!ServerPackets, S!PacketTypes, SP!PacketTypes,
         S!WelcomePackets, SP!WelcomePackets, S!ActorPackets, SP!ActorPackets,
         S!FullStatPackets, SP!FullStatPackets, S!DisconnectPackets, SP!DisconnectPackets,
         S!RelayedPackets, SP!RelayedPackets, S!OtherPackets, SP!OtherPackets,
         S!WelcomeReplies, SP!WelcomeReplies, S!MasterNotices, SP!MasterNotices,
         S!StrayBytes, SP!StrayBytes, S!Bits, SP!Bits, S!Slots, SP!Slots

LEMMA PacketRead ==
  ASSUME NEW pkt \in SP!ServerPackets
  PROVE  /\ pkt.type = "Disconnect" => pkt.PlayerID \in Slots
         /\ pkt.type = "ActorUpdate" => pkt.refID \in Nat /\ pkt.Health \in Int
         /\ pkt.type = "FullStatUpdate" => pkt.refID \in Nat /\ pkt.Health \in Int
<1>1. pkt.type = "Disconnect" => pkt \in SP!DisconnectPackets
  BY DEF SP!ServerPackets, SP!PacketTypes, SP!WelcomePackets, SP!ActorPackets,
     SP!FullStatPackets, SP!RelayedPackets, SP!OtherPackets, SP!WelcomeReplies,
     SP!MasterNotices, SP!StrayBytes
<1>2. pkt.type = "ActorUpdate" => pkt \in SP!ActorPackets
  BY DEF SP!ServerPackets, SP!PacketTypes, SP!WelcomePackets, SP!DisconnectPackets,
     SP!FullStatPackets, SP!RelayedPackets, SP!OtherPackets, SP!WelcomeReplies,
     SP!MasterNotices, SP!StrayBytes
<1>3. pkt.type = "FullStatUpdate" => pkt \in SP!FullStatPackets
  BY DEF SP!ServerPackets, SP!PacketTypes, SP!WelcomePackets, SP!DisconnectPackets,
     SP!ActorPackets, SP!RelayedPackets, SP!OtherPackets, SP!WelcomeReplies,
     SP!MasterNotices, SP!StrayBytes
<1> QED
  BY <1>1, <1>2, <1>3, SlotsNat DEF SP!DisconnectPackets, SP!ActorPackets, SP!FullStatPackets

LEMMA Sends ==
  ASSUME NEW p \in Peers
  PROVE  /\ C!Quiet[p] = <<>>
         /\ \A pkt : C!Sending(p, pkt)[p] = <<pkt>>
  BY DEF C!Quiet, C!Sending

LEMMA ClientSlots == C!Slots = Slots
  BY DEF C!Slots, Slots

\* A client sends nothing or one packet of those the server expects of it.
LEMMA ClientSends ==
  ASSUME C!TypeOK, NEW p \in Peers, C!Commands(p) \/ C!Reads(p)
  PROVE  sends'[p] = <<>> \/ \E pkt \in ClientPackets : sends'[p] = <<pkt>>
<1>0. LocalPlayer[p] \in Slots
  BY ClientSlots DEF C!TypeOK
<1>1. CASE sends' = C!Quiet
  BY <1>1, Sends
<1>2. ASSUME NEW pkt \in ClientPackets, sends' = C!Sending(p, pkt)
      PROVE  \E m \in ClientPackets : sends'[p] = <<m>>
  BY <1>2, Sends
<1>3. CASE C!MPConnectFails(p) \/ C!MPBuildCache(p)
  BY <1>1, <1>3 DEF C!MPConnectFails, C!MPBuildCache
<1>4. CASE C!NetWelcome(p) \/ C!MPLogin(p)
  <2>1. C!LoginPacket \in ClientPackets
    BY DEF ClientPackets, C!LoginPacket
  <2>2. sends' = C!Sending(p, C!LoginPacket) \/ sends' = C!Quiet
    BY <1>4 DEF C!NetWelcome, C!MPLogin
  <2> QED
    BY <1>1, <1>2, <2>1, <2>2
<1>5. CASE C!NetDisconnect(p)
  <2>1. [type |-> "Disconnect", PlayerID |-> LocalPlayer[p]] \in ClientPackets
    BY <1>0 DEF ClientPackets
  <2> QED
    BY <1>2, <1>5, <2>1 DEF C!NetDisconnect
<1>6. ASSUME NEW n \in C!Slots, NEW h \in Healths, C!MPSendActor(p, n, h)
      PROVE  sends'[p] = <<>> \/ \E m \in ClientPackets : sends'[p] = <<m>>
  <2> DEFINE f == {1, 2} \cup C!InitialFlag(p, n)
             pkt == [type |-> "ActorUpdate", Flags |-> f,
                     refID |-> n, CellID |-> Cell, Health |-> h]
  <2>1. f \in {{1, 2}, {1, 2, 8}}
    BY DEF C!InitialFlag
  <2>2. pkt \in ClientPackets
    <3> HIDE DEF f
    <3> QED
      BY <1>6, <2>1, ClientSlots DEF ClientPackets
  <2>3. sends' = C!Sending(p, pkt) \/ sends' = C!Quiet
    BY <1>6 DEF C!MPSendActor, C!ReportSent
  <2> HIDE DEF pkt
  <2> QED
    BY <1>1, <1>2, <2>2, <2>3, Sends
<1>7. ASSUME NEW n \in C!Slots, NEW h \in Healths, C!MPSendFullStat(p, n, h)
      PROVE  sends'[p] = <<>> \/ \E m \in ClientPackets : sends'[p] = <<m>>
  <2> DEFINE f == {2} \cup (IF n = LocalPlayer[p] THEN {1} ELSE {}) \cup C!InitialFlag(p, n)
             pkt == [type |-> "FullStatUpdate", Flags |-> f, refID |-> n, Health |-> h]
  <2>1. f \in {{2}, {1, 2}, {1, 2, 8}}
    BY DEF C!InitialFlag
  <2>2. pkt \in ClientPackets
    <3> HIDE DEF f
    <3> QED
      BY <1>7, <2>1, ClientSlots DEF ClientPackets
  <2>3. sends' = C!Sending(p, pkt) \/ sends' = C!Quiet
    BY <1>7 DEF C!MPSendFullStat, C!ReportSent
  <2> HIDE DEF pkt
  <2> QED
    BY <1>1, <1>2, <2>2, <2>3, Sends
<1>8. CASE C!Reads(p)
  <2>1. /\ [type |-> "Welcome", Flags |-> {1}, guid |-> FALSE, version |-> FALSE]
              \in ClientPackets
        /\ [type |-> "Equipped", refID |-> LocalPlayer[p]] \in ClientPackets
    BY <1>0 DEF ClientPackets
  <2>2. \/ sends' = C!Quiet
        \/ sends' = C!Sending(p, [type |-> "Welcome", Flags |-> {1},
                                  guid |-> FALSE, version |-> FALSE])
        \/ sends' = C!Sending(p, [type |-> "Equipped", refID |-> LocalPlayer[p]])
    BY <1>8 DEF C!Reads, C!HandleWelcome, C!HandleDisconnect, C!HandleOwnDisconnect,
       C!HandleActorUpdate, C!HandleFullStatUpdate, C!HandleOther
  <2> QED
    BY <1>1, <1>2, <2>1, <2>2
<1> QED
  BY <1>3, <1>4, <1>5, <1>6, <1>7, <1>8 DEF C!Commands

\* What a client sends is a packet of a peer, for the server.
LEMMA TransmitsMaps ==
  ASSUME SP!TypeInv, NEW p \in Peers, Transmits(p),
         sends'[p] = <<>> \/ \E pkt \in ClientPackets : sends'[p] = <<pkt>>
  PROVE  /\ [S!Next]_S!vars
         /\ UNCHANGED <<clients, Connected, backlog, eof>>
<1>1. CASE sends'[p] = <<>> /\ UNCHANGED server
  BY <1>1 DEF server, S!vars
<1>2. CASE sends'[p] # <<>>
  <2>1. PICK pkt \in ClientPackets : sends'[p] = <<pkt>>
    BY <1>2
  <2>2. /\ Attached(p) /\ Len(c2s[p]) < StreamBound
        /\ c2s' = [c2s EXCEPT ![p] = @ \o sends'[p]]
        /\ UNCHANGED <<backlog, eof>> /\ S!Environment
    BY <1>2 DEF Transmits
  <2>3. c2s[p] \in Seq(ClientPackets)
    BY DEF SP!TypeInv, SP!TypeOK
  <2>4. c2s' = [c2s EXCEPT ![p] = Append(@, pkt)]
    BY <2>1, <2>2, <2>3, AppendIsConcat
  <2>5. S!Send(p)
    BY <2>2, <2>4 DEF S!Send, Attached
  <2> QED
    BY <2>2, <2>5 DEF S!Next, S!PeerStep, S!Environment, S!sessions
<1> QED
  BY <1>1, <1>2 DEF Transmits

-----------------------------------------------------------------------------
(* The system implements the server. *)

\* Every step of the system is a step of the server and its peers, or none.
LEMMA StepMaps ==
  ASSUME SP!TypeInv, C!TypeOK, [Next]_vars
  PROVE  [S!Next]_S!vars
<1>1. CASE ServerMoves
  BY <1>1 DEF ServerMoves, S!Next
<1>2. ASSUME NEW p \in Peers, Connects(p) \/ Leaves(p) \/ Crashes(p)
      PROVE  S!Next
  BY <1>2 DEF Connects, Leaves, Crashes, S!Next, S!PeerStep
<1>3. ASSUME NEW p \in Peers, Acts(p) \/ Takes(p)
      PROVE  [S!Next]_S!vars
  BY <1>3, ClientSends, TransmitsMaps DEF Acts, Takes
<1>4. CASE UNCHANGED vars
  BY <1>4 DEF vars, server, S!vars
<1> QED
  BY <1>1, <1>2, <1>3, <1>4 DEF Next

-----------------------------------------------------------------------------
(* The invariant.  A client that is connected, has a number or has something *)
(* to read holds a connection; the numbers it has not read yet name its slot *)
(* as much as the one it goes by.                                            *)

Ours(p, i) == i \in Slots /\ clients[i] = p /\ Connected[i]

Held ==
    \A p \in Peers : bIsConnected[p] \/ numbered[p] \/ s2c[p] # <<>> => Attached(p)

NumbersTrue ==
    \A p \in Peers : \A n \in 1 .. Len(s2c[p]) :
        SP!Assigns(s2c[p][n]) => Ours(p, s2c[p][n].PlayerID)

Inv == SP!TypeInv /\ TypeOK /\ Held /\ NumbersTrue /\ NumberIsOurs

LEMMA InitInv == Init => Inv
<1> SUFFICES ASSUME Init PROVE Inv
  OBVIOUS
<1>1. SP!TypeInv
  BY ServerInvariant DEF Init
<1>2. C!TypeOK
  <2>1. /\ C!Blank \in [C!Slots -> C!Status]
        /\ C!Nobody \in [C!Slots -> BOOLEAN]
        /\ 0 \in C!Slots
    BY ClientSlots, SlotsNat DEF C!Blank, C!Nobody, C!Unheard, C!Status
  <2> QED
    BY <2>1 DEF Init, C!Init, C!TypeOK
<1>3. s2c = [p \in Peers |-> <<>>]
  BY DEF Init, C!Init, C!Quiet
<1>4. TypeOK
  BY <1>2, <1>3 DEF TypeOK, Init
<1>5. Held /\ NumbersTrue
  BY <1>3, EmptySeq DEF Held, NumbersTrue, Init, C!Init
<1>6. NumberIsOurs
  BY DEF NumberIsOurs, Init
<1> QED
  BY <1>1, <1>4, <1>5, <1>6 DEF Inv

-----------------------------------------------------------------------------
(* Steps of the server. *)

LEMMA AttachedSame ==
  /\ \A p : Attached(p) <=> SP!Attached(p)
  /\ \A p : Attached(p)' <=> SP!Attached(p)'
  BY DEF Attached, SP!Attached, S!Open, SP!Open, S!Waiting, SP!Waiting, S!Slots, SP!Slots

LEMMA ServerMovesInv ==
  ASSUME Inv, ServerMoves
  PROVE  Inv'
<1>1. SP!ServerStep /\ SP!TypeInv /\ SP!TypeInv'
  BY SameServer, ServerInvariant DEF ServerMoves, Inv, S!Next
<1>2. /\ UNCHANGED <<tables, numbered, joins>>
      /\ s2c' = [p \in Peers |-> IF Attached(p) THEN s2c[p] \o out'[p] ELSE s2c[p]]
  BY DEF ServerMoves
<1>3. \A p \in Peers : s2c[p] \in Seq(SP!ServerPackets) /\ out'[p] \in Seq(SP!ServerPackets)
  BY <1>1, SamePackets DEF Inv, TypeOK, SP!TypeInv, SP!TypeOK
<1>4. TypeOK'
  <2>1. s2c' \in [Peers -> Seq(SP!ServerPackets)]
    BY <1>2, <1>3, ConcatProperties
  <2>2. C!TypeOK'
    BY <1>2 DEF Inv, TypeOK, C!TypeOK, tables
  <2> QED
    BY <1>2, <2>1, <2>2, SamePackets DEF Inv, TypeOK
<1>5. ASSUME NEW p \in Peers, Attached(p)
      PROVE  /\ Attached(p)'
             /\ \A i : Ours(p, i) => Ours(p, i)'
  BY <1>1, <1>5, SP!SessionKept, ServerAssumptions, LoginsAreRight, AttachedSame, SlotsNat
  DEF Ours
<1>6. Held'
  BY <1>2, <1>5 DEF Held, Inv, tables
<1>7. NumberIsOurs'
  <2> SUFFICES ASSUME NEW p \in Peers, numbered[p]
               PROVE  Ours(p, LocalPlayer[p])'
    BY <1>2 DEF NumberIsOurs, Ours
  <2>1. Attached(p) /\ Ours(p, LocalPlayer[p])
    BY ClientSlots DEF Inv, Held, NumberIsOurs, Ours, TypeOK, C!TypeOK
  <2> QED
    BY <1>2, <1>5, <2>1 DEF Ours, tables
<1>8. NumbersTrue'
  <2> SUFFICES ASSUME NEW p \in Peers, NEW n \in 1 .. Len(s2c'[p]), SP!Assigns(s2c'[p][n])
               PROVE  Ours(p, s2c[p][n].PlayerID)'
    BY DEF NumbersTrue, Ours, SP!Assigns
  <2>1. CASE ~Attached(p)
    <3>1. s2c'[p] = s2c[p] /\ s2c[p] = <<>>
      BY <1>2, <2>1 DEF Inv, Held
    <3> QED
      BY <3>1, EmptySeq
  <2>2. CASE Attached(p)
    <3>1. s2c'[p] = s2c[p] \o out'[p]
      BY <1>2, <2>2
    <3>2. /\ Len(s2c[p]) \in Nat /\ Len(out'[p]) \in Nat
          /\ Len(s2c'[p]) = Len(s2c[p]) + Len(out'[p])
          /\ s2c'[p][n] = IF n <= Len(s2c[p]) THEN s2c[p][n] ELSE out'[p][n - Len(s2c[p])]
      BY <1>3, <3>1, ConcatProperties, LenProperties
    <3>3. CASE n <= Len(s2c[p])
      <4>1. n \in 1 .. Len(s2c[p]) /\ s2c'[p][n] = s2c[p][n]
        BY <3>2, <3>3
      <4>2. Ours(p, s2c[p][n].PlayerID)
        BY <4>1 DEF Inv, NumbersTrue
      <4> QED
        BY <1>5, <2>2, <4>1, <4>2 DEF Ours
    <3>4. CASE ~(n <= Len(s2c[p]))
      <4> DEFINE m == n - Len(s2c[p])
      <4>1. m \in 1 .. Len(out'[p]) /\ s2c'[p][n] = out'[p][m]
        <5>1. n \in 1 .. Len(s2c[p]) + Len(out'[p])
          BY <3>2
        <5>2. \A a, b \in Nat : \A k \in 1 .. a + b : ~(k <= a) => k - a \in 1 .. b
          OBVIOUS
        <5>3. m \in 1 .. Len(out'[p])
          BY <3>2, <3>4, <5>1, <5>2
        <5> QED
          BY <3>2, <3>4, <5>3
      <4>2. /\ out'[p][m].PlayerID \in SP!Slots
            /\ clients'[out'[p][m].PlayerID] = p
            /\ Connected'[out'[p][m].PlayerID]
        <5> HIDE DEF m
        <5> QED
          BY <1>1, <4>1, SP!NumbersAssigned, ServerAssumptions
      <4> QED
        BY <4>1, <4>2, SlotsNat DEF Ours
    <3> QED
      BY <3>3, <3>4
  <2> QED
    BY <2>1, <2>2
<1> QED
  BY <1>1, <1>4, <1>6, <1>7, <1>8 DEF Inv

-----------------------------------------------------------------------------
(* Steps of the clients: connecting, leaving, and the commands.               *)

LEMMA ClientConstants ==
  /\ C!Slots = Slots /\ 0 \in C!Slots
  /\ C!Blank \in [C!Slots -> C!Status] /\ C!Nobody \in [C!Slots -> BOOLEAN]
  /\ \A T : <<>> \in Seq(T) /\ Len(<<>>) = 0
<1>1. C!Slots = Slots /\ 0 \in C!Slots
  BY ClientSlots, SlotsNat
<1> QED
  BY <1>1, EmptySeq DEF C!Blank, C!Nobody, C!Unheard, C!Status

\* What the slots of the server are is not changed by a step of a client.
LEMMA SlotsStand ==
  ASSUME UNCHANGED <<clients, Connected>>
  PROVE  \A p, i : Ours(p, i) <=> Ours(p, i)'
  BY DEF Ours

LEMMA ConnectsInv ==
  ASSUME Inv, NEW q \in Peers, Connects(q)
  PROVE  Inv'
<1>1. SP!TypeInv'
  BY ServerInvariant DEF Connects, Inv, S!Next, S!PeerStep
<1>2. /\ q \notin S!Open \cup S!Waiting /\ backlog' = Append(backlog, q)
      /\ eof' = [eof EXCEPT ![q] = FALSE]
      /\ UNCHANGED <<clients, Connected>>
      /\ numbered' = [numbered EXCEPT ![q] = FALSE]
      /\ joins' = joins + 1
      /\ bIsConnected' = [bIsConnected EXCEPT ![q] = TRUE]
      /\ s2c' = [s2c EXCEPT ![q] = <<>>]
      /\ UNCHANGED LocalPlayer
  BY DEF Connects, C!MPConnect, S!Connect, S!Environment, S!sessions
<1>3. TypeOK'
  <2>1. C!TypeOK'
    BY ClientConstants DEF Inv, TypeOK, C!TypeOK, Connects, C!MPConnect
  <2> QED
    BY <1>2, <2>1, ClientConstants DEF Inv, TypeOK
<1>4. \A p \in Peers : p = q \/ Attached(p) => Attached(p)'
  <2>1. backlog \in Seq(Peers)
    BY DEF Inv, SP!TypeInv, SP!TypeOK
  <2>2. /\ Len(backlog) \in Nat /\ Len(backlog') = Len(backlog) + 1
        /\ \A n \in 1 .. Len(backlog) : backlog'[n] = backlog[n]
        /\ backlog'[Len(backlog) + 1] = q
    BY <1>2, <2>1, AppendProperties, LenProperties
  <2>3. S!Waiting \cup {q} \subseteq S!Waiting' /\ S!Open \subseteq S!Open'
    BY <1>2, <2>2 DEF S!Waiting, S!Open
  <2> QED
    BY <1>2, <2>3 DEF Attached, Inv, SP!TypeInv, SP!TypeOK
<1>5. Held'
  BY <1>2, <1>4 DEF Held, Inv, TypeOK, C!TypeOK
<1>6. NumbersTrue'
  BY <1>2, SlotsStand, ClientConstants DEF NumbersTrue, Inv, TypeOK, SP!Assigns
<1>7. NumberIsOurs'
  BY <1>2 DEF NumberIsOurs, Inv, TypeOK
<1> QED
  BY <1>1, <1>3, <1>5, <1>6, <1>7 DEF Inv

LEMMA LeavesInv ==
  ASSUME Inv, NEW q \in Peers, Leaves(q) \/ Crashes(q)
  PROVE  Inv'
<1>1. SP!TypeInv'
  BY ServerInvariant DEF Leaves, Crashes, Inv, S!Next, S!PeerStep
<1>2. /\ eof' = [eof EXCEPT ![q] = TRUE]
      /\ UNCHANGED <<clients, Connected, backlog>>
  BY DEF Leaves, Crashes, S!Close, S!Reset, S!Environment, S!sessions
<1>3. /\ numbered' = [numbered EXCEPT ![q] = FALSE]
      /\ UNCHANGED joins
      /\ bIsConnected' = [bIsConnected EXCEPT ![q] = FALSE]
      /\ s2c' = [s2c EXCEPT ![q] = <<>>]
      /\ \A p \in Peers : p # q => LocalPlayer'[p] = LocalPlayer[p]
  BY DEF Leaves, Crashes, C!OO_Deinitialize, C!Restart, Inv, TypeOK, C!TypeOK
<1>4. TypeOK'
  <2>1. CASE C!OO_Deinitialize(q)
    <3>1. C!TypeOK'
      BY <2>1, ClientConstants DEF Inv, TypeOK, C!TypeOK, C!OO_Deinitialize
    <3> QED
      BY <1>3, <3>1, ClientConstants DEF Inv, TypeOK
  <2>2. CASE C!Restart(q)
    <3>1. C!TypeOK'
      BY <2>2, ClientConstants DEF Inv, TypeOK, C!TypeOK, C!Restart
    <3> QED
      BY <1>3, <3>1, ClientConstants DEF Inv, TypeOK
  <2> QED
    BY <2>1, <2>2 DEF Leaves, Crashes
<1>5. \A p \in Peers : p # q /\ Attached(p) => Attached(p)'
  BY <1>2 DEF Attached, S!Open, S!Waiting, Inv, SP!TypeInv, SP!TypeOK
<1>6. Held'
  BY <1>3, <1>5 DEF Held, Inv, TypeOK, C!TypeOK
<1>7. NumbersTrue'
  BY <1>2, <1>3, SlotsStand, ClientConstants DEF NumbersTrue, Inv, TypeOK, SP!Assigns
<1>8. NumberIsOurs'
  BY <1>2, <1>3 DEF NumberIsOurs, Inv, TypeOK
<1> QED
  BY <1>1, <1>4, <1>6, <1>7, <1>8 DEF Inv

LEMMA AttachedStands ==
  ASSUME UNCHANGED <<clients, backlog, eof>>
  PROVE  \A p : Attached(p) <=> Attached(p)'
  BY DEF Attached, S!Open, S!Waiting

LEMMA CommandsType ==
  ASSUME C!TypeOK, NEW q \in Peers, C!Commands(q)
  PROVE  C!TypeOK' /\ UNCHANGED <<bIsConnected, LocalPlayer, s2c>>
<1>1. CASE C!MPConnectFails(q)
  BY <1>1, ClientConstants DEF C!MPConnectFails, C!TypeOK, C!session
<1>2. CASE C!NetWelcome(q) \/ C!NetDisconnect(q) \/ C!MPBuildCache(q)
  BY <1>2 DEF C!NetWelcome, C!NetDisconnect, C!MPBuildCache, C!TypeOK, C!views
<1>3. CASE C!MPLogin(q)
  BY <1>3 DEF C!MPLogin, C!TypeOK, C!session
<1>4. ASSUME NEW n \in C!Slots, NEW pkt, C!ReportSent(q, n, pkt)
      PROVE  C!TypeOK' /\ UNCHANGED <<bIsConnected, LocalPlayer, s2c>>
  <2>1. Views' \in [Peers -> [C!Slots -> C!Status]]
    <3>1. [Views[q][n] EXCEPT !.bStatsInitialized = TRUE] \in C!Status
      <4>1. Views[q][n] \in C!Status
        BY DEF C!TypeOK
      <4> QED
        BY <4>1 DEF C!Status
    <3>2. [Views EXCEPT ![q][n].bStatsInitialized = TRUE] \in [Peers -> [C!Slots -> C!Status]]
      BY <3>1 DEF C!TypeOK
    <3> QED
      BY <1>4, <3>2 DEF C!ReportSent, C!TypeOK
  <2> QED
    BY <1>4, <2>1 DEF C!ReportSent, C!TypeOK, C!session
<1> QED
  BY <1>1, <1>2, <1>3, <1>4 DEF C!Commands, C!MPSendActor, C!MPSendFullStat

LEMMA ActsInv ==
  ASSUME Inv, NEW q \in Peers, Acts(q)
  PROVE  Inv'
<1>1. SP!TypeInv'
  <2>1. [S!Next]_S!vars
    BY StepMaps DEF Inv, TypeOK, Next
  <2> QED
    BY <2>1, ServerInvariant DEF Inv
<1>2. /\ C!TypeOK' /\ UNCHANGED <<bIsConnected, LocalPlayer, s2c, numbered, joins>>
      /\ UNCHANGED <<clients, Connected, backlog, eof>>
  BY CommandsType, ClientSends, TransmitsMaps DEF Acts, Inv, TypeOK
<1>3. TypeOK'
  BY <1>2 DEF Inv, TypeOK
<1>4. Held'
  BY <1>2, AttachedStands DEF Held, Inv
<1>5. NumbersTrue'
  BY <1>2, SlotsStand DEF NumbersTrue, Inv, SP!Assigns
<1>6. NumberIsOurs'
  BY <1>2 DEF NumberIsOurs, Inv
<1> QED
  BY <1>1, <1>3, <1>4, <1>5, <1>6 DEF Inv

-----------------------------------------------------------------------------
(* Steps of the clients: the receiving thread.                                *)

\* What is left to read was there to read.
LEMMA ReadLeaves ==
  ASSUME s2c \in [Peers -> Seq(SP!ServerPackets)], NEW q \in Peers,
         NEW count \in 1 .. RecvBound, NEW pkt, C!Read(q, pkt, count)
  PROVE  /\ bIsConnected[q] /\ Len(s2c[q]) \in Nat \ {0}
         /\ pkt = s2c[q][1] /\ pkt \in SP!ServerPackets
         /\ s2c' \in [Peers -> Seq(SP!ServerPackets)]
         /\ \A p \in Peers : p # q => s2c'[p] = s2c[p]
         /\ \A n \in 1 .. Len(s2c'[q]) : \E m \in 1 .. Len(s2c[q]) : s2c'[q][n] = s2c[q][m]
<1> DEFINE stream == s2c[q]
           rest == SubSeq(stream, count + 1, Len(stream))
<1>1. /\ stream \in Seq(SP!ServerPackets) /\ stream # <<>>
      /\ bIsConnected[q] /\ pkt = Head(stream) /\ count <= Len(stream)
      /\ s2c' = [s2c EXCEPT ![q] = rest]
  BY DEF C!Read
<1>2. /\ Len(stream) \in Nat \ {0}
      /\ Head(stream) = stream[1] /\ Head(stream) \in SP!ServerPackets
  BY <1>1, EmptySeq, HeadTailProperties
<1>3. count \in Nat \ {0}
  BY SystemAssumption
<1>4. \A n \in count + 1 .. Len(stream) :
        n \in 1 .. Len(stream) /\ stream[n] \in SP!ServerPackets
  BY <1>1, <1>2, <1>3, ElementOfSeq
<1>5. /\ rest \in Seq(SP!ServerPackets)
      /\ Len(rest) = IF count + 1 <= Len(stream) THEN Len(stream) - count ELSE 0
      /\ \A n \in 1 .. Len(stream) - count : rest[n] = stream[count + n]
  <2> HIDE DEF stream
  <2> QED
    BY <1>2, <1>3, <1>4, SubSeqProperties
<1>6. \A n \in 1 .. Len(rest) : rest[n] = stream[count + n] /\ count + n \in 1 .. Len(stream)
  <2> HIDE DEF rest, stream
  <2> QED
    BY <1>2, <1>3, <1>5
<1>7. s2c'[q] = rest
  BY <1>1
<1> QED
  BY <1>1, <1>2, <1>5, <1>6, <1>7

LEMMA UpdatedType ==
  ASSUME NEW status \in C!Status, NEW pkt, pkt.Health \in Int, NEW known \in BOOLEAN
  PROVE  C!Updated(status, pkt, known) \in C!Status
  BY DEF C!Updated, C!Status

\* What the handlers leave of the tables of client q, and of the others.
LEMMA ReadsType ==
  ASSUME C!TypeOK, NEW q \in Peers, NEW count \in 1 .. RecvBound, NEW pkt \in SP!ServerPackets,
         SP!Assigns(pkt) => pkt.PlayerID \in Slots,
         \/ C!HandleWelcome(q, pkt, count) \/ C!HandleDisconnect(q, pkt, count)
         \/ C!HandleOwnDisconnect(q, pkt, count) \/ C!HandleActorUpdate(q, pkt, count)
         \/ C!HandleFullStatUpdate(q, pkt, count) \/ C!HandleOther(q, pkt, count)
  PROVE  /\ C!TypeOK' /\ C!Read(q, pkt, count)
         /\ \A p \in Peers : p # q => /\ bIsConnected'[p] = bIsConnected[p]
                                      /\ LocalPlayer'[p] = LocalPlayer[p]
         /\ LocalPlayer'[q] = IF SP!Assigns(pkt) THEN pkt.PlayerID ELSE LocalPlayer[q]
<1>1. CASE C!HandleWelcome(q, pkt, count)
  <2>1. CASE 2 \in pkt.Flags
    BY <1>1, <2>1 DEF C!HandleWelcome, C!Read, C!TypeOK, C!views, SP!Assigns
  <2>2. CASE 2 \notin pkt.Flags
    <3>1. PICK h \in Healths :
            /\ Views' = [Views EXCEPT ![q][pkt.PlayerID].Health = h]
            /\ LocalPlayer' = [LocalPlayer EXCEPT ![q] = pkt.PlayerID]
            /\ PlayerConnected' = [PlayerConnected EXCEPT ![q][pkt.PlayerID] = TRUE]
            /\ bIsMasterClient' = [bIsMasterClient EXCEPT ![q] = 4 \in pkt.Flags]
            /\ UNCHANGED <<TotalPlayers, bIsConnected, command>>
            /\ C!Read(q, pkt, count) /\ pkt.type = "Welcome"
      BY <1>1, <2>2 DEF C!HandleWelcome, C!NumberOf, C!Read
    <3>2. pkt.PlayerID \in C!Slots
      BY <2>2, <3>1, ClientSlots DEF SP!Assigns
    <3>3. [Views[q][pkt.PlayerID] EXCEPT !.Health = h] \in C!Status
      <4>1. Views[q][pkt.PlayerID] \in C!Status
        BY <3>2 DEF C!TypeOK
      <4> QED
        BY <4>1, HealthsInt DEF C!Status
    <3>4. Views' \in [Peers -> [C!Slots -> C!Status]]
      BY <3>1, <3>2, <3>3 DEF C!TypeOK
    <3> QED
      BY <2>2, <3>1, <3>2, <3>4 DEF C!TypeOK, SP!Assigns
  <2> QED
    BY <2>1, <2>2
<1>2. CASE C!HandleDisconnect(q, pkt, count)
  <2>1. pkt.type = "Disconnect" /\ pkt.PlayerID \in C!Slots
    BY <1>2, PacketRead, ClientSlots DEF C!HandleDisconnect
  <2>2. Views' \in [Peers -> [C!Slots -> C!Status]]
    BY <1>2, <2>1, ClientConstants DEF C!HandleDisconnect, C!TypeOK
  <2> QED
    BY <1>2, <2>1, <2>2 DEF C!HandleDisconnect, C!Read, C!TypeOK, SP!Assigns
<1>3. CASE C!HandleOwnDisconnect(q, pkt, count)
  BY <1>3, ClientConstants DEF C!HandleOwnDisconnect, C!Read, C!TypeOK, SP!Assigns
<1>4. CASE C!HandleActorUpdate(q, pkt, count)
  <2>1. /\ pkt.type = "ActorUpdate" /\ pkt.refID \in C!Slots /\ pkt.Health \in Int
        /\ C!Read(q, pkt, count)
    BY <1>4, PacketRead, ClientSlots, SystemAssumption DEF C!HandleActorUpdate, Slots
  <2>2. PICK known \in BOOLEAN :
          Views' = [Views EXCEPT ![q][pkt.refID] =
                        C!Updated(Views[q][pkt.refID], pkt, known)]
    BY <1>4 DEF C!HandleActorUpdate
  <2>3. C!Updated(Views[q][pkt.refID], pkt, known) \in C!Status
    BY <2>1, UpdatedType DEF C!TypeOK
  <2>4. Views' \in [Peers -> [C!Slots -> C!Status]]
    BY <2>1, <2>2, <2>3 DEF C!TypeOK
  <2> QED
    BY <1>4, <2>1, <2>4 DEF C!HandleActorUpdate, C!Read, C!TypeOK, SP!Assigns
<1>5. CASE C!HandleFullStatUpdate(q, pkt, count)
  <2>1. pkt.type = "FullStatUpdate" /\ C!Read(q, pkt, count)
    BY <1>5 DEF C!HandleFullStatUpdate
  <2>2. Views' \in [Peers -> [C!Slots -> C!Status]]
    <3>1. CASE count > 1 \/ pkt.refID >= MAXCLIENTS
      BY <1>5, <3>1 DEF C!HandleFullStatUpdate, C!TypeOK
    <3>2. CASE ~(count > 1 \/ pkt.refID >= MAXCLIENTS)
      <4> DEFINE new == C!FullyUpdated(Views[q][pkt.refID], pkt)
      <4>1. pkt.refID \in C!Slots /\ pkt.Health \in Int
        BY <2>1, <3>2, PacketRead, ClientSlots, SystemAssumption DEF Slots
      <4>2. new \in C!Status
        <5>1. Views[q][pkt.refID] \in C!Status
          BY <4>1 DEF C!TypeOK
        <5> QED
          BY <4>1, <5>1 DEF C!FullyUpdated, C!Status
      <4>3. Views' = [Views EXCEPT ![q][pkt.refID] = new]
        BY <1>5, <3>2 DEF C!HandleFullStatUpdate
      <4> HIDE DEF new
      <4> QED
        BY <4>1, <4>2, <4>3 DEF C!TypeOK
    <3> QED
      BY <3>1, <3>2
  <2> QED
    BY <1>5, <2>1, <2>2 DEF C!HandleFullStatUpdate, C!Read, C!session, C!TypeOK, SP!Assigns
<1>6. CASE C!HandleOther(q, pkt, count)
  <2>1. pkt.type # "Welcome" /\ C!Read(q, pkt, count)
    BY <1>6 DEF C!HandleOther
  <2> QED
    BY <1>6, <2>1 DEF C!HandleOther, C!Read, C!views, C!TypeOK, SP!Assigns
<1> QED
  BY <1>1, <1>2, <1>3, <1>4, <1>5, <1>6

\* What a step of the receiving thread of client q is, for everybody.
LEMMA TakesReads ==
  ASSUME Inv, NEW q \in Peers, Takes(q)
  PROVE  \E pkt :
           /\ bIsConnected[q] /\ s2c[q] # <<>> /\ pkt = s2c[q][1]
           /\ UNCHANGED <<clients, Connected, backlog, eof, joins>>
           /\ numbered' = [numbered EXCEPT ![q] = @ \/ SP!Assigns(pkt)]
           /\ s2c' \in [Peers -> Seq(SP!ServerPackets)]
           /\ \A p \in Peers : p # q => s2c'[p] = s2c[p]
           /\ \A n \in 1 .. Len(s2c'[q]) : \E m \in 1 .. Len(s2c[q]) : s2c'[q][n] = s2c[q][m]
           /\ SP!Assigns(pkt) => Ours(q, pkt.PlayerID)
           /\ C!TypeOK'
           /\ \A p \in Peers : p # q => /\ bIsConnected'[p] = bIsConnected[p]
                                        /\ LocalPlayer'[p] = LocalPlayer[p]
           /\ LocalPlayer'[q] = IF SP!Assigns(pkt) THEN pkt.PlayerID ELSE LocalPlayer[q]
<1>1. /\ UNCHANGED <<clients, Connected, backlog, eof, joins>>
      /\ numbered' = [numbered EXCEPT ![q] =
             @ \/ (Head(s2c[q]).type = "Welcome" /\ 2 \notin Head(s2c[q]).Flags)]
  BY ClientSends, TransmitsMaps DEF Takes, Inv, TypeOK
<1>2. s2c \in [Peers -> Seq(SP!ServerPackets)] /\ C!TypeOK
  BY SamePackets DEF Inv, TypeOK
<1> DEFINE pkt == s2c[q][1]
<1>3. PICK count \in 1 .. RecvBound :
        /\ s2c[q] # <<>> /\ Head(s2c[q]) = pkt
        /\ \/ C!HandleWelcome(q, pkt, count) \/ C!HandleDisconnect(q, pkt, count)
           \/ C!HandleOwnDisconnect(q, pkt, count) \/ C!HandleActorUpdate(q, pkt, count)
           \/ C!HandleFullStatUpdate(q, pkt, count) \/ C!HandleOther(q, pkt, count)
  <2>1. Head(s2c[q]) = pkt
    OBVIOUS
  <2> QED
    BY <2>1 DEF Takes, C!Reads
<1>4. C!Read(q, pkt, count)
  BY <1>3 DEF C!HandleWelcome, C!HandleDisconnect, C!HandleOwnDisconnect,
     C!HandleActorUpdate, C!HandleFullStatUpdate, C!HandleOther
<1>5. /\ bIsConnected[q] /\ pkt \in SP!ServerPackets /\ 1 \in 1 .. Len(s2c[q])
      /\ s2c' \in [Peers -> Seq(SP!ServerPackets)]
      /\ \A p \in Peers : p # q => s2c'[p] = s2c[p]
      /\ \A n \in 1 .. Len(s2c'[q]) : \E m \in 1 .. Len(s2c[q]) : s2c'[q][n] = s2c[q][m]
  BY <1>2, <1>4, ReadLeaves
<1>6. SP!Assigns(pkt) => Ours(q, pkt.PlayerID)
  BY <1>5 DEF Inv, NumbersTrue
<1>7. numbered' = [numbered EXCEPT ![q] = @ \/ SP!Assigns(pkt)]
  BY <1>1, <1>3 DEF SP!Assigns
<1>8. pkt = s2c[q][1]
  OBVIOUS
<1> HIDE DEF pkt
<1>9. /\ C!TypeOK'
      /\ \A p \in Peers : p # q => /\ bIsConnected'[p] = bIsConnected[p]
                                   /\ LocalPlayer'[p] = LocalPlayer[p]
      /\ LocalPlayer'[q] = IF SP!Assigns(pkt) THEN pkt.PlayerID ELSE LocalPlayer[q]
  BY <1>2, <1>3, <1>5, <1>6, ReadsType DEF Ours
<1> QED
  BY <1>1, <1>3, <1>5, <1>6, <1>7, <1>8, <1>9

LEMMA TakesInv ==
  ASSUME Inv, NEW q \in Peers, Takes(q)
  PROVE  Inv'
<1>1. SP!TypeInv'
  <2>1. [S!Next]_S!vars
    BY StepMaps DEF Inv, TypeOK, Next
  <2> QED
    BY <2>1, ServerInvariant DEF Inv
<1>2. PICK pkt :
        /\ bIsConnected[q]
        /\ UNCHANGED <<clients, Connected, backlog, eof, joins>>
        /\ numbered' = [numbered EXCEPT ![q] = @ \/ SP!Assigns(pkt)]
        /\ s2c' \in [Peers -> Seq(SP!ServerPackets)]
        /\ \A p \in Peers : p # q => s2c'[p] = s2c[p]
        /\ \A n \in 1 .. Len(s2c'[q]) : \E m \in 1 .. Len(s2c[q]) : s2c'[q][n] = s2c[q][m]
        /\ SP!Assigns(pkt) => Ours(q, pkt.PlayerID)
        /\ C!TypeOK'
        /\ \A p \in Peers : p # q => /\ bIsConnected'[p] = bIsConnected[p]
                                     /\ LocalPlayer'[p] = LocalPlayer[p]
        /\ LocalPlayer'[q] = IF SP!Assigns(pkt) THEN pkt.PlayerID ELSE LocalPlayer[q]
  BY TakesReads
<1>3. TypeOK'
  BY <1>2, SamePackets DEF Inv, TypeOK, SP!Assigns
<1>4. Held'
  <2>1. Attached(q) /\ UNCHANGED <<clients, backlog, eof>>
    BY <1>2 DEF Inv, Held
  <2>2. \A p \in Peers : Attached(p) => Attached(p)'
    BY <2>1, AttachedStands
  <2>3. ASSUME NEW p \in Peers, p # q, bIsConnected'[p] \/ numbered'[p] \/ s2c'[p] # <<>>
        PROVE  Attached(p)
    BY <1>2, <2>3 DEF Inv, Held, TypeOK
  <2> QED
    BY <2>1, <2>2, <2>3 DEF Held
<1>5. NumbersTrue'
  <2> SUFFICES ASSUME NEW p \in Peers, NEW n \in 1 .. Len(s2c'[p]), SP!Assigns(s2c'[p][n])
               PROVE  Ours(p, s2c[p][n].PlayerID)'
    BY DEF NumbersTrue, SP!Assigns
  <2>1. PICK m \in 1 .. Len(s2c[p]) : s2c'[p][n] = s2c[p][m]
    BY <1>2
  <2>2. Ours(p, s2c[p][m].PlayerID)
    BY <2>1 DEF Inv, NumbersTrue
  <2> QED
    BY <1>2, <2>1, <2>2 DEF Ours
<1>6. NumberIsOurs'
  <2>1. ASSUME NEW p \in Peers, p # q, numbered'[p]
        PROVE  Ours(p, LocalPlayer'[p])
    BY <1>2, <2>1, ClientSlots DEF Inv, NumberIsOurs, TypeOK, C!TypeOK, Ours
  <2>2. ASSUME numbered'[q]
        PROVE  Ours(q, LocalPlayer'[q])
    <3>1. CASE SP!Assigns(pkt)
      BY <1>2, <3>1
    <3>2. CASE ~SP!Assigns(pkt)
      BY <1>2, <2>2, <3>2, ClientSlots
      DEF Inv, NumberIsOurs, TypeOK, C!TypeOK, Ours
    <3> QED
      BY <3>1, <3>2
  <2> QED
    BY <1>2, <2>1, <2>2 DEF NumberIsOurs, Ours
<1> QED
  BY <1>1, <1>3, <1>4, <1>5, <1>6 DEF Inv

LEMMA StepInv == Inv /\ [Next]_vars => Inv'
<1>1. Inv /\ ServerMoves => Inv'
  BY ServerMovesInv
<1>2. ASSUME Inv, NEW p \in Peers,
             Connects(p) \/ Acts(p) \/ Takes(p) \/ Leaves(p) \/ Crashes(p)
      PROVE  Inv'
  BY <1>2, ConnectsInv, ActsInv, TakesInv, LeavesInv
<1>3. ASSUME Inv, UNCHANGED vars
      PROVE  Inv'
  <2>1. SP!TypeInv'
    BY <1>3, ServerInvariant DEF Inv, vars, server, S!vars
  <2>2. TypeOK'
    BY <1>3 DEF Inv, TypeOK, C!TypeOK, vars, tables
  <2>3. Held'
    BY <1>3, AttachedStands DEF Inv, Held, vars, server, tables
  <2>4. NumbersTrue' /\ NumberIsOurs'
    BY <1>3 DEF Inv, NumbersTrue, NumberIsOurs, Ours, SP!Assigns, vars, server, tables
  <2> QED
    BY <2>1, <2>2, <2>3, <2>4 DEF Inv
<1> QED
  BY <1>1, <1>2, <1>3 DEF Next

-----------------------------------------------------------------------------
(* The theorems. *)

\* The tables of the clients and the streams they read keep their types: whatever a
\* server sends, no handler indexes a table out of its range (OONetwork.cpp:274-520).
THEOREM TypeCorrect == Spec => []TypeOK
<1>1. Inv => TypeOK
  BY DEF Inv
<1> QED
  BY <1>1, InitInv, StepInv, PTL DEF Spec

\* The clients keep within what Server assumes of its peers, so that the system
\* does what Server does (OONetwork.cpp:54-76,290-345; main.cpp:115-155).
THEOREM ServerImplemented == Spec => ImplementsServer
<1>1. Init => S!Init
  BY DEF Init
<1>2. Inv /\ [Next]_vars => [S!Next]_S!vars
  BY StepMaps DEF Inv, TypeOK
<1> QED
  BY <1>1, <1>2, InitInv, StepInv, PTL DEF Spec, ImplementsServer, S!Spec

\* The server ends no session of a client that has not left, whatever the others
\* do (ConsoleServer.cpp:225-322, PacketHandler.cpp:119-165).
THEOREM NobodyIsThrownOut == Spec => []NobodyThrownOut
<1>1. Inv => NobodyThrownOut
  BY DEF Inv, Held, NobodyThrownOut
<1> QED
  BY <1>1, InitInv, StepInv, PTL DEF Spec

\* A client that has taken a number from a welcome goes by the number of its slot on
\* the server; the first player welcomed takes none (PacketHandler.cpp:95-118,
\* OONetwork.cpp:290-301).
THEOREM NumbersAreOurs == Spec => []NumberIsOurs
<1>1. Inv => NumberIsOurs
  BY DEF Inv
<1> QED
  BY <1>1, InitInv, StepInv, PTL DEF Spec

\* What ServerProofs shows of a server and any peers holds of the system.
LEMMA ServerKeeps ==
  /\ Init => SP!Inv /\ SP!NeverBlocks
  /\ Inv /\ SP!Inv /\ SP!NeverBlocks /\ [Next]_vars => SP!Inv' /\ SP!NeverBlocks'
<1>1. Init => SP!Inv /\ SP!NeverBlocks
  BY SameServer, ServerAssumptions, SP!InitInv, SP!InitReady DEF Init
<1>2. Inv /\ [Next]_vars => [SP!Next]_SP!vars
  BY StepMaps, SameServer DEF Inv, TypeOK
<1>3. SP!Inv /\ SP!NeverBlocks /\ [SP!Next]_SP!vars => SP!Inv' /\ SP!NeverBlocks'
  BY ServerAssumptions, SP!StepInv, SP!StepReady DEF SP!Inv
<1> QED
  BY <1>1, <1>2, <1>3

\* With real clients too the published count is the number of taken slots, there
\* is a master client on record whenever anybody plays, and the loop never waits
\* for a single client (ConsoleServer.cpp:215-322, PacketHandler.cpp:95-165).
THEOREM SystemKeeps == Spec => [](S!CountExact /\ S!MasterOnRecord /\ S!NeverBlocks)
<1>1. SP!Inv => S!CountExact
  BY SameCardinality DEF SP!Inv, SP!CountExact, S!CountExact, S!Slots, SP!Slots
<1>2. SP!Inv => S!MasterOnRecord
  BY DEF SP!Inv, SP!MasterOnRecord, S!MasterOnRecord, S!Welcomed, SP!Welcomed, S!Slots,
     SP!Slots
<1>3. SP!NeverBlocks => S!NeverBlocks
  BY DEF SP!NeverBlocks, S!NeverBlocks, S!Readable, SP!Readable, S!Open, SP!Open, S!Slots,
     SP!Slots
<1> QED
  BY <1>1, <1>2, <1>3, ServerKeeps, InitInv, StepInv, PTL DEF Spec

\* The two refinements compose: with real clients the slots are the seats of
\* Sessions, and every departure of a player is announced to all others
\* (ConsoleServer.cpp:225-322, PacketHandler.cpp:68-165).
THEOREM SystemSessions == Spec => SP!ImplementsSessions /\ SP!LeaversAnnounced
<1>1. S!Init => SP!Init
  BY SameServer
<1>2. [S!Next]_S!vars => [SP!Next]_SP!vars
  BY SameServer
<1>3. ImplementsServer => SP!Spec
  BY <1>1, <1>2, PTL DEF ImplementsServer, S!Spec, SP!Spec
<1>4. SP!Spec => SP!ImplementsSessions
  BY SP!SessionsImplemented, ServerAssumptions
<1>5. SP!Spec => SP!LeaversAnnounced
  BY SP!LeaversHeard, ServerAssumptions
<1> QED
  BY <1>3, <1>4, <1>5, ServerImplemented, PTL

-----------------------------------------------------------------------------
(* What reaches the clients. *)

\* Every client that still has a connection when a player's session ends finds the
\* Disconnect with its number in what it has to read.
DeparturesReach ==
    [][\A i, j \in Slots :
          /\ Connected[i] /\ ~Connected'[i] /\ j # i
          /\ clients[j] # NoSocket /\ Attached(clients[j])
          => \E n \in 1 .. Len(s2c'[clients[j]]) :
                 s2c'[clients[j]][n] = [type |-> "Disconnect", PlayerID |-> i]]_vars

LEMMA DepartureStep ==
  ASSUME Inv, SP!Inv, Next, NEW i \in Slots, NEW j \in Slots,
         Connected[i], ~Connected'[i], j # i, clients[j] # NoSocket, Attached(clients[j])
  PROVE  \E n \in 1 .. Len(s2c'[clients[j]]) :
             s2c'[clients[j]][n] = [type |-> "Disconnect", PlayerID |-> i]
<1> DEFINE p == clients[j]
<1>1. p \in Peers
  BY SlotsNat DEF Inv, SP!TypeInv, SP!TypeOK
<1>2. ServerMoves
  <2>1. ASSUME NEW q \in Peers, Connects(q) \/ Leaves(q) \/ Crashes(q)
        PROVE  Connected' = Connected
    BY <2>1 DEF Connects, Leaves, Crashes, S!Connect, S!Close, S!Reset, S!Environment,
       S!sessions
  <2>2. ASSUME NEW q \in Peers, Acts(q) \/ Takes(q)
        PROVE  Connected' = Connected
    BY <2>2, ClientSends, TransmitsMaps DEF Acts, Takes, Inv, TypeOK
  <2> QED
    BY <2>1, <2>2 DEF Next
<1>3. [SP!Next]_SP!vars
  BY <1>2, SameServer DEF ServerMoves, S!Next
<1>4. PICK n \in 1 .. Len(out'[p]) : out'[p][n] = [type |-> "Disconnect", PlayerID |-> i]
  BY <1>3, ServerAssumptions, SP!LeaverStep, SlotsNat
<1>5. s2c'[p] = s2c[p] \o out'[p]
  BY <1>1, <1>2 DEF ServerMoves
<1>6. s2c[p] \in Seq(SP!ServerPackets) /\ out'[p] \in Seq(SP!ServerPackets)
  <2>1. SP!TypeInv'
    BY <1>2, ServerInvariant DEF ServerMoves, S!Next, Inv
  <2> QED
    BY <1>1, <2>1, SamePackets DEF Inv, TypeOK, SP!TypeInv, SP!TypeOK
<1> HIDE DEF p
<1> DEFINE m == Len(s2c[p]) + n
<1>7. /\ Len(s2c[p]) \in Nat /\ Len(out'[p]) \in Nat
      /\ Len(s2c'[p]) = Len(s2c[p]) + Len(out'[p])
      /\ \A k \in 1 .. Len(s2c'[p]) :
            s2c'[p][k] = IF k <= Len(s2c[p]) THEN s2c[p][k] ELSE out'[p][k - Len(s2c[p])]
  <2>1. /\ Len(s2c[p]) \in Nat /\ Len(out'[p]) \in Nat
        /\ Len(s2c[p] \o out'[p]) = Len(s2c[p]) + Len(out'[p])
    BY <1>6, ConcatProperties, LenProperties
  <2>2. ASSUME NEW k \in 1 .. Len(s2c[p] \o out'[p])
        PROVE  (s2c[p] \o out'[p])[k] =
                   IF k <= Len(s2c[p]) THEN s2c[p][k] ELSE out'[p][k - Len(s2c[p])]
    BY <1>6, <2>1, ConcatProperties
  <2> QED
    BY <1>5, <2>1, <2>2
<1>8. \A a, b \in Nat : \A k \in 1 .. b :
        a + k \in 1 .. a + b /\ ~(a + k <= a) /\ (a + k) - a = k
  OBVIOUS
<1>9. m \in 1 .. Len(s2c'[p]) /\ s2c'[p][m] = out'[p][n]
  BY <1>4, <1>7, <1>8
<1> QED
  BY <1>4, <1>9 DEF p

\* No departure is lost on its way, for every number of slots and clients, but to a
\* client that has gone itself (ConsoleServer.cpp:272-322).
THEOREM DeparturesDelivered == Spec => DeparturesReach
<1>1. Inv /\ SP!Inv /\ [Next]_vars =>
        [\A i, j \in Slots :
          /\ Connected[i] /\ ~Connected'[i] /\ j # i
          /\ clients[j] # NoSocket /\ Attached(clients[j])
          => \E n \in 1 .. Len(s2c'[clients[j]]) :
                 s2c'[clients[j]][n] = [type |-> "Disconnect", PlayerID |-> i]]_vars
  BY DepartureStep
<1> QED
  BY <1>1, ServerKeeps, InitInv, StepInv, PTL DEF Spec, DeparturesReach

\* A client takes itself for the master client only when its own script says so: the
\* notices that would tell it are sent to the client that has just gone
\* (ConsoleServer.cpp:299-313, OONetwork.cpp:290-310).
NobodyAppointed ==
    [][\A p \in Peers : ~bIsMasterClient[p] /\ bIsMasterClient'[p] => C!MPBuildCache(p)]_vars

NoNotices ==
    \A p \in Peers : \A n \in 1 .. Len(s2c[p]) :
        s2c[p][n].type = "Welcome" => 4 \notin s2c[p][n].Flags

LEMMA InitNotices == Init => NoNotices
  BY EmptySeq DEF Init, C!Init, C!Quiet, NoNotices

LEMMA StepNotices ==
  ASSUME Inv, NoNotices, [Next]_vars
  PROVE  NoNotices'
<1>1. CASE ServerMoves
  <2>1. SP!ServerStep /\ SP!TypeInv /\ SP!TypeInv'
    BY <1>1, SameServer, ServerInvariant DEF ServerMoves, Inv, S!Next
  <2> SUFFICES ASSUME NEW p \in Peers, NEW n \in 1 .. Len(s2c'[p]),
                      s2c'[p][n].type = "Welcome"
               PROVE  4 \notin s2c'[p][n].Flags
    BY DEF NoNotices
  <2>2. s2c[p] \in Seq(SP!ServerPackets) /\ out'[p] \in Seq(SP!ServerPackets)
    BY <2>1, SamePackets DEF Inv, TypeOK, SP!TypeInv, SP!TypeOK
  <2>3. CASE ~Attached(p)
    <3>1. s2c'[p] = s2c[p]
      BY <1>1, <2>3 DEF ServerMoves
    <3> QED
      BY <3>1 DEF NoNotices
  <2>4. CASE Attached(p)
    <3>1. s2c'[p] = s2c[p] \o out'[p]
      BY <1>1, <2>4 DEF ServerMoves
    <3>2. /\ Len(s2c[p]) \in Nat /\ Len(out'[p]) \in Nat
          /\ Len(s2c'[p]) = Len(s2c[p]) + Len(out'[p])
          /\ s2c'[p][n] = IF n <= Len(s2c[p]) THEN s2c[p][n] ELSE out'[p][n - Len(s2c[p])]
      BY <2>2, <3>1, ConcatProperties, LenProperties
    <3>3. CASE n <= Len(s2c[p])
      <4>1. n \in 1 .. Len(s2c[p])
        BY <3>2, <3>3
      <4> QED
        BY <3>2, <3>3, <4>1 DEF NoNotices
    <3>4. CASE ~(n <= Len(s2c[p]))
      <4>1. \A a, b \in Nat : \A k \in 1 .. a + b : ~(k <= a) => k - a \in 1 .. b
        OBVIOUS
      <4>2. n - Len(s2c[p]) \in 1 .. Len(out'[p])
        BY <3>2, <3>4, <4>1
      <4>3. ~eof[p]
        BY <2>4 DEF Attached
      <4> QED
        BY <2>1, <3>2, <3>4, <4>2, <4>3, SP!NoticesLost, ServerAssumptions
    <3> QED
      BY <3>3, <3>4
  <2> QED
    BY <2>3, <2>4
<1>2. ASSUME NEW q \in Peers, Connects(q) \/ Leaves(q) \/ Crashes(q)
      PROVE  NoNotices'
  <2>1. s2c' = [s2c EXCEPT ![q] = <<>>]
    BY <1>2 DEF Connects, Leaves, Crashes, C!MPConnect, C!OO_Deinitialize, C!Restart
  <2> QED
    BY <2>1, EmptySeq DEF NoNotices, Inv, TypeOK
<1>3. ASSUME NEW q \in Peers, Acts(q)
      PROVE  NoNotices'
  BY <1>3, CommandsType DEF Acts, NoNotices, Inv, TypeOK
<1>4. ASSUME NEW q \in Peers, Takes(q)
      PROVE  NoNotices'
  <2>1. /\ \A p \in Peers : p # q => s2c'[p] = s2c[p]
        /\ \A n \in 1 .. Len(s2c'[q]) : \E m \in 1 .. Len(s2c[q]) : s2c'[q][n] = s2c[q][m]
    BY <1>4, TakesReads
  <2> QED
    BY <2>1 DEF NoNotices
<1>5. CASE UNCHANGED vars
  BY <1>5 DEF vars, NoNotices
<1> QED
  BY <1>1, <1>2, <1>3, <1>4, <1>5 DEF Next

LEMMA AppointedStep ==
  ASSUME Inv, NoNotices, Next, NEW p \in Peers, ~bIsMasterClient[p], bIsMasterClient'[p]
  PROVE  C!MPBuildCache(p)
<1>1. ~ServerMoves
  BY DEF ServerMoves, tables
<1>2. ASSUME NEW q \in Peers, Connects(q) \/ Leaves(q) \/ Crashes(q)
      PROVE  FALSE
  BY <1>2 DEF Connects, Leaves, Crashes, C!MPConnect, C!OO_Deinitialize, C!Restart, Inv,
     TypeOK, C!TypeOK
<1>3. ASSUME NEW q \in Peers, Acts(q)
      PROVE  C!MPBuildCache(p)
  <2>1. CASE C!MPBuildCache(q)
    BY <2>1 DEF C!MPBuildCache, Inv, TypeOK, C!TypeOK
  <2>2. CASE ~C!MPBuildCache(q)
    BY <1>3, <2>2 DEF Acts, C!Commands, C!MPConnectFails, C!NetWelcome, C!NetDisconnect,
       C!MPLogin, C!MPSendActor, C!MPSendFullStat, C!ReportSent, C!session
  <2> QED
    BY <2>1, <2>2
<1>4. ASSUME NEW q \in Peers, Takes(q)
      PROVE  FALSE
  <2>1. PICK count \in 1 .. RecvBound :
          /\ s2c[q] # <<>>
          /\ \/ C!HandleWelcome(q, Head(s2c[q]), count)
             \/ bIsMasterClient' = bIsMasterClient
    BY <1>4 DEF Takes, C!Reads, C!HandleDisconnect, C!HandleOwnDisconnect,
       C!HandleActorUpdate, C!HandleFullStatUpdate, C!HandleOther, C!session
  <2>2. /\ Head(s2c[q]).type = "Welcome"
        /\ bIsMasterClient' = [bIsMasterClient EXCEPT ![q] = 4 \in Head(s2c[q]).Flags]
    BY <2>1 DEF C!HandleWelcome
  <2>3. Head(s2c[q]) = s2c[q][1] /\ 1 \in 1 .. Len(s2c[q])
    <3>1. s2c[q] \in Seq(S!ServerPackets)
      BY DEF Inv, TypeOK
    <3> QED
      BY <2>1, <3>1, EmptySeq, LenProperties
  <2>4. ~(4 \in Head(s2c[q]).Flags)
    BY <2>2, <2>3 DEF NoNotices
  <2> QED
    BY <2>2, <2>4 DEF Inv, TypeOK, C!TypeOK
<1> QED
  BY <1>1, <1>2, <1>3, <1>4 DEF Next

\* Whatever clients join and leave, no client is ever made the master client by the
\* server: NPCs are reported by whoever asks to, or by nobody
\* (ConsoleServer.cpp:299-313, OONetwork.cpp:290-310).
THEOREM NobodyIsAppointed == Spec => NobodyAppointed
<1>1. Inv /\ NoNotices /\ [Next]_vars =>
        [\A p \in Peers : ~bIsMasterClient[p] /\ bIsMasterClient'[p] => C!MPBuildCache(p)]_vars
  BY AppointedStep
<1> QED
  BY <1>1, InitNotices, StepNotices, InitInv, StepInv, PTL DEF Spec, NobodyAppointed
=============================================================================
