-------------------------- MODULE StatStreamProofs --------------------------
(***************************************************************************)
(* Proofs about StatStream, for every number of slots, every finite set of  *)
(* peers and every set of packets: a listener that was told full values of  *)
(* a player follows the stats the server stores.                            *)
(***************************************************************************)
EXTENDS StatStream, ServerProofs

\* A listener of whom we say that it follows a player is connected, has the values
\* the server has, and will not take initial data again: without the last part a
\* second request for the data would replace its values in the middle of a stream.
Follows ==
    \A p \in Peers : \A r \in full[p] :
        /\ p \in Open
        /\ held[p][r].bStatsInitialized
        /\ held[p][r].Health = Players[r].Health

StreamInv == Inv /\ StreamTypeOK /\ Follows

-----------------------------------------------------------------------------
(* What is sent, by its type. *)

LEMMA SentByType ==
  ASSUME NEW pkt \in ServerPackets
  PROVE  /\ pkt.type = "ActorUpdate" => pkt \in ActorPackets
         /\ pkt.type = "FullStatUpdate" => pkt \in FullStatPackets
  BY DEF ServerPackets, PacketTypes, WelcomePackets, ActorPackets, FullStatPackets,
     DisconnectPackets, RelayedPackets, OtherPackets, WelcomeReplies, MasterNotices,
     StrayBytes

LEMMA HeardFacts ==
  ASSUME TypeInv', NEW p \in Peers
  PROVE  /\ out'[p] = <<>> => Heard(p).type = "Nothing"
         /\ out'[p] # <<>> => Heard(p) = out'[p][1] /\ Heard(p) \in ServerPackets
         /\ Heard(p).type \in {"ActorUpdate", "FullStatUpdate"} => Heard(p).Health \in Int
<1>1. out'[p] \in Seq(ServerPackets)
  BY DEF TypeInv, TypeOK
<1>2. CASE out'[p] = <<>>
  BY <1>2 DEF Heard
<1>3. CASE out'[p] # <<>>
  <2>1. Heard(p) = Head(out'[p])
    BY <1>3 DEF Heard
  <2>2. Head(out'[p]) = out'[p][1] /\ Head(out'[p]) \in ServerPackets
    BY <1>1, <1>3, HeadTailProperties
  <2>3. /\ Heard(p).type = "ActorUpdate" => Heard(p) \in ActorPackets
        /\ Heard(p).type = "FullStatUpdate" => Heard(p) \in FullStatPackets
    BY <2>1, <2>2, SentByType
  <2> QED
    BY <1>3, <2>1, <2>2, <2>3 DEF ActorPackets, FullStatPackets
<1> QED
  BY <1>2, <1>3

-----------------------------------------------------------------------------
(* Type correctness. *)

LEMMA StatusRules ==
  ASSUME NEW status \in Status, NEW pkt, pkt.Health \in Int, NEW known \in BOOLEAN
  PROVE  Updated(status, pkt, known) \in Status /\ FullyUpdated(status, pkt) \in Status
  BY DEF Updated, FullyUpdated, Status

LEMMA UnheardType == Unheard \in Status
  BY DEF Unheard, Status

LEMMA InitStream == StreamInit => StreamInv
<1> SUFFICES ASSUME StreamInit PROVE StreamInv
  OBVIOUS
<1>1. Inv
  BY InitInv DEF StreamInit
<1>2. StreamTypeOK
  BY UnheardType DEF StreamInit, StreamTypeOK, Blank
<1>3. Follows
  BY DEF StreamInit, Follows
<1> QED
  BY <1>1, <1>2, <1>3 DEF StreamInv

LEMMA StepStreamType ==
  ASSUME StreamTypeOK, TypeInv', Listen
  PROVE  StreamTypeOK'
<1>1. ASSUME NEW p \in Peers, NEW r \in Slots
      PROVE  Makes(p, r) \in Status
  <2>1. held[p][r] \in Status
    BY DEF StreamTypeOK
  <2>2. HeardUpdate(p, r) \/ HeardFullStat(p, r) => Heard(p).Health \in Int
    BY HeardFacts DEF HeardUpdate, HeardFullStat
  <2>3. HeardUpdate(p, r) => Updated(held[p][r], Heard(p), TRUE) \in Status
    BY <2>1, <2>2, StatusRules
  <2>4. HeardFullStat(p, r) => FullyUpdated(held[p][r], Heard(p)) \in Status
    BY <2>1, <2>2, StatusRules
  <2> QED
    BY <2>1, <2>3, <2>4, UnheardType DEF Makes
<1>2. held' \in [Peers -> [Slots -> Status]]
  BY <1>1 DEF Listen
<1>3. full' \in [Peers -> SUBSET Slots]
  BY DEF Listen
<1> QED
  BY <1>2, <1>3 DEF StreamTypeOK

-----------------------------------------------------------------------------
(* One step, for one listener p and one player r it can follow afterwards. *)

\* What is to be shown of p and r in a step.
Keeps(p, r) ==
    /\ p \in Open
    /\ Makes(p, r).bStatsInitialized
    /\ Makes(p, r).Health = Players'[r].Health

\* p hears nothing of r, and the stats of r do not change.
LEMMA NothingHeard ==
  ASSUME Follows, NEW p \in Peers, NEW r \in Slots, r \in full[p] \/ ToldFull(p, r),
         p \notin Waiting' \ Waiting,
         ~HeardUpdate(p, r), ~HeardFullStat(p, r), ~HeardLeave(p, r),
         Players'[r].Health = Players[r].Health
  PROVE  Keeps(p, r)
<1>1. r \in full[p]
  BY DEF ToldFull
<1>2. Makes(p, r) = held[p][r]
  BY DEF Makes
<1> QED
  BY <1>1, <1>2 DEF Follows, Keeps

LEMMA SilenceHeard ==
  ASSUME Follows, NEW p \in Peers, NEW r \in Slots, r \in full[p] \/ ToldFull(p, r),
         p \notin Waiting' \ Waiting, out'[p] = <<>>,
         Players'[r].Health = Players[r].Health
  PROVE  Keeps(p, r)
<1>1. Heard(p).type = "Nothing"
  BY DEF Heard
<1> QED
  BY <1>1, NothingHeard DEF HeardUpdate, HeardFullStat, HeardLeave

\* The steps of the peers and of the loop up to the scan send nothing.
LEMMA LoopKeeps ==
  ASSUME Inv, Follows, NEW p \in Peers, NEW r \in Slots, r \in full[p] \/ ToldFull(p, r),
         PeerStep \/ Select \/ AcceptNone \/ \E i \in Slots : Accept(i) \/ AcceptFails(i)
  PROVE  Keeps(p, r)
<1>1. UNCHANGED Players /\ out' = Silence
  BY DEF PeerStep, Connect, Send, Close, Reset, Environment, Select, AcceptNone, Accept,
     AcceptFails
<1>2. out'[p] = <<>>
  BY <1>1 DEF Silence
<1>3. p \in Open
  <2>1. ~ToldFull(p, r)
    BY <1>2 DEF ToldFull, HeardUpdate, HeardFullStat, Heard
  <2> QED
    BY <2>1 DEF Follows
<1>4. p \notin Waiting' \ Waiting
  <2>1. CASE backlog' = backlog
    BY <2>1 DEF Waiting
  <2>2. CASE \E i \in Slots : Accept(i) \/ AcceptFails(i)
    <3>1. \A n \in 1 .. Len(backlog') : \E m \in 1 .. Len(backlog) : backlog'[n] = backlog[m]
      <4>1. PICK i \in Slots : Accept(i) \/ AcceptFails(i)
        BY <2>2
      <4>2. backlog' = Tail(backlog)
        BY <4>1 DEF Accept, AcceptFails
      <4>3. /\ Len(backlog) \in Nat \ {0} /\ Len(Tail(backlog)) = Len(backlog) - 1
            /\ \A n \in 1 .. Len(Tail(backlog)) : Tail(backlog)[n] = backlog[n + 1]
        BY <4>1, AcceptedFacts DEF Inv
      <4> QED
        BY <4>2, <4>3
    <3> QED
      BY <3>1 DEF Waiting
  <2>3. ASSUME NEW q \in Peers, Connect(q)
        PROVE  p \notin Waiting' \ Waiting
    <3>1. p # q
      BY <1>3, <2>3 DEF Connect
    <3>2. backlog \in Seq(Peers) /\ backlog' = Append(backlog, q)
      BY <2>3 DEF Connect, Inv, TypeInv, TypeOK
    <3>3. \A n \in 1 .. Len(backlog') :
            backlog'[n] = q \/ \E m \in 1 .. Len(backlog) : backlog'[n] = backlog[m]
      BY <3>2, AppendProperties
    <3> QED
      BY <3>1, <3>3 DEF Waiting
  <2> QED
    BY <2>1, <2>2, <2>3 DEF PeerStep, Send, Close, Reset, Select, AcceptNone, network
<1> QED
  BY <1>1, <1>2, <1>4, SilenceHeard

\* The initial data begins with the lowest player it is about.
LEMMA LowestFirst ==
  ASSUME NEW S, S \subseteq Slots, 0 \in S, NEW told \in Ascending(S)
  PROVE  Cardinality(S) \in Nat \ {0} /\ told[1] = 0
<1> DEFINE size == Cardinality(S)
<1>1. IsFiniteSet(S) /\ size \in Nat
  BY SlotsFinite, FS_Subset, FS_CardinalityType
<1>2. size # 0
  BY <1>1, FS_EmptySet
<1>3. /\ told \in [1 .. size -> S]
      /\ \A m, n \in 1 .. size : m < n => told[m] < told[n]
  BY DEF Ascending
<1>4. /\ IsFiniteSet(S \ {0}) /\ Cardinality(S \ {0}) = size - 1
  BY <1>1, FS_RemoveElement
<1>5. IsFiniteSet(1 .. size) /\ Cardinality(1 .. size) = size
  BY <1>1, <1>2, FS_Interval
<1> HIDE DEF size
<1>6. \A n \in 1 .. size : n \in Nat /\ told[n] \in Nat
  <2>1. S \subseteq Nat
    BY SlotsFinite
  <2>2. \A n \in 1 .. size : told[n] \in S
    BY <1>3
  <2>3. \A n \in 1 .. size : n \in Nat
    BY <1>1
  <2> QED
    BY <2>1, <2>2, <2>3
<1>7. \E n \in 1 .. size : told[n] = 0
  <2> SUFFICES ASSUME \A n \in 1 .. size : told[n] # 0
               PROVE  FALSE
    OBVIOUS
  <2>1. told \in [1 .. size -> S \ {0}]
    BY <1>3
  <2>2. PICK m, n \in 1 .. size : m # n /\ told[m] = told[n]
    BY <1>1, <1>4, <1>5, <2>1, FS_PigeonHole
  <2>3. told[m] \in Nat /\ told[n] \in Nat /\ m \in Nat /\ n \in Nat
    BY <1>6, <2>2
  <2> QED
    BY <1>3, <2>2, <2>3
<1>8. PICK n \in 1 .. size : told[n] = 0
  BY <1>7
<1>9. 1 \in 1 .. size
  BY <1>1, <1>2
<1>10. ~(1 < n)
  BY <1>3, <1>6, <1>8, <1>9
<1>11. n = 1
  BY <1>1, <1>8, <1>10
<1> QED
  BY <1>1, <1>2, <1>8, <1>11 DEF size

-----------------------------------------------------------------------------
(* The handlers. *)

\* Initial data: p, which has asked for it, and is told first of player 0.
LEMMA ReadyKeeps ==
  ASSUME Inv, Inv', StreamTypeOK, Follows, NEW i \in Slots, WelcomeReady(i),
         NEW p \in Peers, NEW r \in Slots, r \in full[p] \/ ToldFull(p, r)
  PROVE  Keeps(p, r)
<1>1. UNCHANGED <<clients, backlog, Players>> /\ clients[i] \in Peers
  BY RecvFacts DEF WelcomeReady, Recv, sessions, Inv
<1>2. PICK told \in Ascending(InitSlots(i)) :
        out' = [Silence EXCEPT ![clients[i]] =
                  [n \in 1 .. Cardinality(InitSlots(i)) |-> InitData(told[n])]]
  BY DEF WelcomeReady
<1>3. p \notin Waiting' \ Waiting
  BY <1>1 DEF Waiting
<1>4. CASE p # clients[i]
  <2>1. out'[p] = <<>>
    BY <1>1, <1>2, <1>4 DEF Silence
  <2> QED
    BY <1>1, <1>3, <2>1, SilenceHeard
<1>5. CASE p = clients[i]
  <2> DEFINE size == Cardinality(InitSlots(i))
  <2>1. p \in Open
    BY <1>1, <1>5, PeersAssumption DEF Open
  <2>2. out'[p] = [n \in 1 .. size |-> InitData(told[n])]
    BY <1>2, <1>5 DEF Silence
  <2>3. InitSlots(i) \subseteq Slots /\ size \in Nat
    <3>1. InitSlots(i) \in SUBSET Slots
      BY DEF InitSlots
    <3> QED
      BY <3>1, SlotsFinite, FS_Subset, FS_CardinalityType
  <2>4. CASE size = 0
    <3>1. out'[p] = <<>>
      BY <2>2, <2>4
    <3> QED
      BY <1>1, <1>3, <3>1, SilenceHeard
  <2>5. CASE size # 0
    <3>1. Heard(p) = InitData(told[1])
      <4>1. 1 \in 1 .. size
        BY <2>3, <2>5
      <4>2. out'[p] # <<>> /\ out'[p][1] = InitData(told[1])
        <5> HIDE DEF size
        <5> QED
          BY <2>2, <4>1
      <4> QED
        BY <4>2, HeardFacts DEF Inv
    <3>2. /\ Heard(p).type = "ActorUpdate" /\ Heard(p).refID = 0
          /\ Heard(p).Flags = {1, 2, 4, 8} /\ Heard(p).Health = Players[told[1]].Health
      BY <3>1 DEF InitData, PlayerRefID
    <3>3. CASE r # 0
      BY <1>1, <1>3, <3>2, <3>3, NothingHeard DEF HeardUpdate, HeardFullStat, HeardLeave
    <3>4. CASE r = 0
      <4>1. Makes(p, r) = Updated(held[p][r], Heard(p), TRUE)
        BY <1>3, <3>2, <3>4 DEF Makes, HeardUpdate, HeardFullStat, HeardLeave
      <4>2. CASE held[p][r].bStatsInitialized
        <5>1. r \in full[p]
          BY <3>2, <4>2 DEF ToldFull, HeardFullStat
        <5> QED
          BY <1>1, <2>1, <3>2, <4>1, <4>2, <5>1 DEF Keeps, Follows, Updated
      <4>3. CASE ~held[p][r].bStatsInitialized
        <5>1. PICK j \in Slots : clients[j] = p /\ r \in InitSlots(j)
          BY <3>2, <4>3 DEF ToldFull, HeardFullStat, Follows
        <5>2. j = i
          BY <1>1, <1>5, <5>1, PeersAssumption DEF Inv, SeatInv
        <5>3. told[1] = 0
          BY <2>3, <3>4, <5>1, <5>2, LowestFirst
        <5> QED
          BY <1>1, <2>1, <3>2, <3>4, <4>1, <4>3, <5>3 DEF Keeps, Updated
      <4> QED
        BY <4>2, <4>3
    <3> QED
      BY <3>3, <3>4
  <2> QED
    BY <2>4, <2>5
<1> QED
  BY <1>4, <1>5

\* A report is sent to all but the peer that makes it, which is in one slot only.
LEMMA ReportHeard ==
  ASSUME Inv, NEW i \in Slots, NEW p \in Peers, NEW sent, NEW pkt \in ClientPackets,
         Recv(i, pkt), out' = To(Others(i), sent)
  PROVE  /\ Served(clients[i]) /\ Head(c2s[clients[i]]) = pkt
         /\ p # clients[i] => ~Served(p)
         /\ p = clients[i] \/ p \notin Open => out'[p] = <<>>
         /\ p # clients[i] /\ p \in Open => out'[p] = <<sent>> /\ Heard(p) = sent
<1>1. clients[i] \in Peers /\ clients[i] # NoSocket
  BY RecvFacts, PeersAssumption DEF Inv
<1>2. /\ clients[i] \in fdSet /\ fdSet' = fdSet \ {clients[i]}
      /\ c2s[clients[i]] # <<>> /\ Head(c2s[clients[i]]) = pkt
  BY DEF Recv, Turn
<1>3. clients[i] \notin Others(i)
  BY <1>1 DEF Others, Inv, SeatInv
<1>4. p # clients[i] => (p \in Others(i) <=> p \in Open)
  BY DEF Others, Open
<1> QED
  BY <1>2, <1>3, <1>4 DEF Served, To, Heard

LEMMA ActorKeeps ==
  ASSUME Inv, StreamTypeOK, Follows, NEW i \in Slots, ActorUpdate(i),
         NEW p \in Peers, NEW r \in Slots, r \in full[p] \/ ToldFull(p, r),
         ~LosesTrack(p, r)
  PROVE  Keeps(p, r)
<1> DEFINE was(pkt) == Players[pkt.refID].Health
           flags(pkt) == IF Players[pkt.refID].bStatsInitialized
                         THEN pkt.Flags ELSE pkt.Flags \cup {8}
           report(pkt) == [pkt EXCEPT !.Flags = flags(pkt),
                                      !.Health = SentStat(was(pkt), pkt.Health)]
           new(pkt) == [CellID |-> pkt.CellID,
                        Health |-> StoredStat(was(pkt), pkt.Health),
                        bStatsInitialized |-> TRUE]
<1>1. PICK pkt \in ClientPackets :
        /\ pkt.type = "ActorUpdate" /\ pkt.refID < MAXCLIENTS
        /\ Recv(i, pkt) /\ DropRead(i)
        /\ Players' = [Players EXCEPT ![pkt.refID] = new(pkt)]
        /\ out' = To(Others(i), report(pkt))
        /\ UNCHANGED sessions
  BY DEF ActorUpdate
<1>2. pkt \in ActorPackets /\ pkt.refID \in Slots /\ pkt.Health \in Int
  BY <1>1, PacketByType, MaxClientsAssumption DEF ActorPackets, Slots
<1>3. was(pkt) \in Int
  BY <1>2 DEF Inv, TypeInv, TypeOK, PlayerStatus
<1>4. /\ Players'[pkt.refID].Health = StoredStat(was(pkt), pkt.Health)
      /\ r # pkt.refID => Players'[r].Health = Players[r].Health
  BY <1>1, <1>2 DEF Inv, TypeInv, TypeOK
<1> DEFINE sent == report(pkt)
<1>5. /\ sent.type = "ActorUpdate" /\ sent.refID = pkt.refID
      /\ sent.Health = SentStat(was(pkt), pkt.Health)
  BY <1>1, <1>2 DEF ActorPackets
<1>6. out' = To(Others(i), sent) /\ Recv(i, pkt)
  BY <1>1
<1> HIDE DEF sent, was
<1>7. p \notin Waiting' \ Waiting /\ clients[i] \in Peers
  BY <1>1, RecvFacts DEF Waiting, Inv
<1>8. CASE p = clients[i] \/ p \notin Open
  <2>1. out'[p] = <<>>
    BY <1>6, <1>8, ReportHeard
  <2>2. r \in full[p] /\ p \in Open
    BY <2>1 DEF ToldFull, HeardUpdate, HeardFullStat, Heard, Follows
  <2>3. r # pkt.refID
    BY <1>1, <1>6, <1>8, <2>2, ReportHeard DEF LosesTrack, ReportAbout
  <2> QED
    BY <1>4, <1>7, <2>1, <2>3, SilenceHeard
<1>9. CASE p # clients[i] /\ p \in Open
  <2>1. Heard(p) = sent /\ ~Served(p)
    BY <1>6, <1>9, ReportHeard
  <2>2. r \in full[p]
    BY <1>5, <2>1 DEF ToldFull, HeardFullStat
  <2>3. CASE r # pkt.refID
    BY <1>4, <1>5, <1>7, <2>1, <2>3, NothingHeard DEF HeardUpdate, HeardFullStat, HeardLeave
  <2>4. CASE r = pkt.refID
    <3>1. HeardUpdate(p, r)
      BY <1>5, <2>1, <2>4 DEF HeardUpdate
    <3>2. 8 \notin sent.Flags /\ 1 \in sent.Flags
      BY <2>1, <3>1 DEF LosesTrack
    <3>3. ~(pkt.Health < 0)
      BY <1>1, <1>6, <1>7, <2>4, ReportHeard DEF LosesTrack, ReportAbout
    <3>4. /\ held[p][r].bStatsInitialized /\ held[p][r].Health = was(pkt)
          /\ held[p][r] \in Status
      BY <2>2, <2>4 DEF Follows, was, StreamTypeOK
    <3>5. /\ was(pkt) + sent.Health = StoredStat(was(pkt), pkt.Health)
          /\ StoredStat(was(pkt), pkt.Health) = pkt.Health
      <4>1. ~Clamps(was(pkt), pkt.Health)
        BY <1>2, <1>3, <3>3, ClampedReports
      <4>2. was(pkt) + SentStat(was(pkt), pkt.Health) - StoredStat(was(pkt), pkt.Health) = 0
        BY <1>2, <1>3, <4>1, DifferenceExact
      <4>3. StoredStat(was(pkt), pkt.Health) = pkt.Health
        BY <4>1 DEF StoredStat
      <4>4. SentStat(was(pkt), pkt.Health) \in Int
        BY <1>2, <1>3, StatType
      <4> QED
        BY <1>2, <1>3, <1>5, <4>2, <4>3, <4>4
    <3>6. Makes(p, r) = Updated(held[p][r], sent, TRUE)
      BY <1>5, <1>7, <2>1, <3>1, <3>2 DEF Makes, HeardUpdate, HeardFullStat, HeardLeave
    <3>7. /\ Makes(p, r).bStatsInitialized
          /\ Makes(p, r).Health = StoredStat(was(pkt), pkt.Health)
      BY <1>2, <3>2, <3>3, <3>4, <3>5, <3>6 DEF Updated, Status
    <3> QED
      BY <1>4, <1>9, <2>4, <3>7 DEF Keeps
  <2> QED
    BY <2>3, <2>4
<1> QED
  BY <1>8, <1>9

LEMMA FullStatKeeps ==
  ASSUME Inv, StreamTypeOK, Follows, NEW i \in Slots, FullStatUpdate(i),
         NEW p \in Peers, NEW r \in Slots, r \in full[p] \/ ToldFull(p, r),
         ~LosesTrack(p, r)
  PROVE  Keeps(p, r)
<1> DEFINE was(pkt) == Players[pkt.refID].Health
           report(pkt) == IF 8 \in pkt.Flags THEN pkt
                          ELSE [pkt EXCEPT !.Health = @ - was(pkt)]
<1>1. PICK pkt \in ClientPackets :
        /\ pkt.type = "FullStatUpdate" /\ pkt.refID < MAXCLIENTS
        /\ Recv(i, pkt) /\ DropRead(i)
        /\ Players' = [Players EXCEPT ![pkt.refID].Health = pkt.Health]
        /\ out' = To(Others(i), report(pkt))
        /\ UNCHANGED sessions
  BY DEF FullStatUpdate
<1>2. pkt \in FullStatPackets /\ pkt.refID \in Slots /\ pkt.Health \in Int
  BY <1>1, PacketByType, MaxClientsAssumption DEF FullStatPackets, Slots
<1>3. Players[pkt.refID] \in PlayerStatus /\ was(pkt) \in Int
  BY <1>2 DEF Inv, TypeInv, TypeOK, PlayerStatus
<1>4. /\ Players'[pkt.refID].Health = pkt.Health
      /\ r # pkt.refID => Players'[r].Health = Players[r].Health
  BY <1>1, <1>2, <1>3 DEF Inv, TypeInv, TypeOK, PlayerStatus
<1> DEFINE sent == report(pkt)
<1>5. /\ sent.type = "FullStatUpdate" /\ sent.refID = pkt.refID
      /\ sent.Flags = pkt.Flags
      /\ sent.Health = IF 8 \in pkt.Flags THEN pkt.Health ELSE pkt.Health - was(pkt)
  BY <1>1, <1>2 DEF FullStatPackets
<1>6. out' = To(Others(i), sent) /\ Recv(i, pkt)
  BY <1>1
<1> HIDE DEF sent, was
<1>7. p \notin Waiting' \ Waiting /\ clients[i] \in Peers
  BY <1>1, RecvFacts DEF Waiting, Inv
<1>8. CASE p = clients[i] \/ p \notin Open
  <2>1. out'[p] = <<>>
    BY <1>6, <1>8, ReportHeard
  <2>2. r \in full[p] /\ p \in Open
    BY <2>1 DEF ToldFull, HeardUpdate, HeardFullStat, Heard, Follows
  <2>3. r # pkt.refID
    BY <1>1, <1>6, <1>8, <2>2, ReportHeard DEF LosesTrack, ReportAbout
  <2> QED
    BY <1>4, <1>7, <2>1, <2>3, SilenceHeard
<1>9. CASE p # clients[i] /\ p \in Open
  <2>1. Heard(p) = sent
    BY <1>6, <1>9, ReportHeard
  <2>2. CASE r # pkt.refID
    BY <1>4, <1>5, <1>7, <2>1, <2>2, NothingHeard DEF HeardUpdate, HeardFullStat, HeardLeave
  <2>3. CASE r = pkt.refID
    <3>1. Makes(p, r) = FullyUpdated(held[p][r], sent)
      BY <1>5, <1>7, <2>1, <2>3 DEF Makes, HeardUpdate, HeardFullStat, HeardLeave
    <3>2. held[p][r] \in Status
      BY DEF StreamTypeOK
    <3>3. CASE 8 \in pkt.Flags
      BY <1>4, <1>5, <1>9, <2>3, <3>1, <3>3 DEF Keeps, FullyUpdated
    <3>4. CASE 8 \notin pkt.Flags
      <4>1. r \in full[p]
        BY <1>5, <2>1, <3>4 DEF ToldFull, HeardUpdate
      <4>2. held[p][r].bStatsInitialized /\ held[p][r].Health = was(pkt)
        BY <2>3, <4>1 DEF Follows, was
      <4>3. was(pkt) + (pkt.Health - was(pkt)) = pkt.Health
        BY <1>2, <1>3
      <4>4. Makes(p, r).bStatsInitialized /\ Makes(p, r).Health = pkt.Health
        BY <1>5, <3>1, <3>2, <3>4, <4>2, <4>3 DEF FullyUpdated, Status
      <4> QED
        BY <1>4, <1>9, <2>3, <4>4 DEF Keeps
    <3> QED
      BY <3>3, <3>4
  <2> QED
    BY <2>2, <2>3
<1> QED
  BY <1>8, <1>9

\* The handlers that store no stat send nothing a listener takes for one.
LEMMA OtherKeeps ==
  ASSUME Inv, Inv', Follows, NEW i \in Slots,
         \/ WelcomeAgain(i) \/ WelcomePlayer(i) \/ WelcomeRejected(i)
         \/ RelayDisconnect(i) \/ NpcUpdate(i) \/ Relay(i) \/ Ignore(i) \/ TimeUpdate(i),
         NEW p \in Peers, NEW r \in Slots, r \in full[p] \/ ToldFull(p, r)
  PROVE  Keeps(p, r)
<1>1. PICK pkt \in ClientPackets :
        /\ Recv(i, pkt) /\ UNCHANGED Players
        /\ \/ out' = Silence
           \/ out' = To(Others(i), [type |-> "PointerBytes"])
           \/ pkt.type \in {"Chat", "Equipped"} /\ out' = To(Others(i), pkt)
           \/ out' = To(Open, [type |-> "TimeUpdate"])
           \/ \E reply : reply.type = "Welcome" /\ out' = To({clients[i]}, reply)
  <2>1. CASE WelcomePlayer(i)
    <3> DEFINE reply == [type |-> "Welcome", PlayerID |-> i,
                         Flags |-> IF MasterClient = -1 THEN {1, 2} ELSE {1}]
    <3>1. PICK pkt \in ClientPackets :
            Recv(i, pkt) /\ UNCHANGED Players /\ out' = To({clients[i]}, reply)
      BY <2>1 DEF WelcomePlayer, NumberGiven
    <3>2. reply.type = "Welcome"
      OBVIOUS
    <3> HIDE DEF reply
    <3> QED
      BY <3>1, <3>2
  <2>2. CASE WelcomeAgain(i) \/ WelcomeRejected(i)
    BY <2>2 DEF WelcomeAgain, WelcomeRejected
  <2>3. CASE RelayDisconnect(i) \/ NpcUpdate(i) \/ Relay(i) \/ Ignore(i) \/ TimeUpdate(i)
    BY <2>3 DEF RelayDisconnect, NpcUpdate, Relay, Ignore, TimeUpdate
  <2> QED
    BY <2>1, <2>2, <2>3
<1>2. p \notin Waiting' \ Waiting
  BY <1>1 DEF Recv, Waiting
<1>3. \/ out'[p] = <<>>
      \/ \E m : /\ out'[p] = <<m>>
               /\ m.type \in {"PointerBytes", "Chat", "Equipped", "TimeUpdate", "Welcome"}
  BY <1>1 DEF Silence, To
<1>4. CASE out'[p] = <<>>
  BY <1>1, <1>2, <1>4, SilenceHeard
<1>5. CASE out'[p] # <<>>
  <2>1. Heard(p).type \in {"PointerBytes", "Chat", "Equipped", "TimeUpdate", "Welcome"}
    BY <1>3, <1>5 DEF Heard
  <2> QED
    BY <1>1, <1>2, <2>1, NothingHeard DEF HeardUpdate, HeardFullStat, HeardLeave
<1> QED
  BY <1>4, <1>5

\* A leaver is announced to the others and, if it was the master client, is sent the
\* notices itself.
LEMMA GoneKeeps ==
  ASSUME Inv, Inv', Follows, NEW i \in Slots, PeerGone(i), NEW p \in Peers, p \in Open',
         NEW r \in Slots, r \in full[p] \/ ToldFull(p, r), ~LosesTrack(p, r)
  PROVE  Keeps(p, r)
<1> DEFINE goodbye == [type |-> "Disconnect", PlayerID |-> i]
<1>1. /\ UNCHANGED <<backlog, Players>> /\ CloseSocket(i) /\ Turn(i)
      /\ out' = [To(Others(i), goodbye) EXCEPT ![clients[i]] = Notices(i)]
  BY DEF PeerGone
<1>2. p \notin Waiting' \ Waiting
  BY <1>1 DEF Waiting
<1>3. p # clients[i]
  <2>1. clients[i] # NoSocket
    BY <1>1, PeersAssumption DEF Turn, Inv, TypeInv, TypeOK
  <2>2. \A j \in Slots : clients'[j] = IF j = i THEN NoSocket ELSE clients[j]
    BY <1>1 DEF CloseSocket, Inv, TypeInv, TypeOK
  <2>3. clients[i] \notin Open'
    BY <2>1, <2>2 DEF Open, Inv, SeatInv
  <2> QED
    BY <2>3
<1>4. out'[p] = <<goodbye>> \/ out'[p] = <<>>
  BY <1>1, <1>3 DEF To
<1>5. CASE out'[p] = <<>>
  BY <1>1, <1>2, <1>5, SilenceHeard
<1>6. CASE out'[p] = <<goodbye>>
  <2>1. Heard(p).type = "Disconnect"
    BY <1>6 DEF Heard
  <2>2. ~HeardLeave(p, r)
    BY DEF LosesTrack
  <2> QED
    BY <1>1, <1>2, <2>1, <2>2, NothingHeard DEF HeardUpdate, HeardFullStat
<1> QED
  BY <1>4, <1>5, <1>6

-----------------------------------------------------------------------------
(* The invariant, and what follows from it. *)

LEMMA StepFollows ==
  ASSUME Inv, Inv', StreamTypeOK, Follows, StreamNext
  PROVE  Follows'
<1> SUFFICES ASSUME NEW p \in Peers, NEW r \in full'[p]
             PROVE  /\ p \in Open'
                    /\ held'[p][r].bStatsInitialized
                    /\ held'[p][r].Health = Players'[r].Health
  BY DEF Follows
<1>1. r \in Slots /\ ~LosesTrack(p, r) /\ (r \in full[p] \/ ToldFull(p, r))
  BY DEF StreamNext, Listen
<1>2. p \in Open'
  BY <1>1 DEF LosesTrack
<1>3. Keeps(p, r)
  <2>1. ASSUME NEW i \in Slots, Serve(i)
        PROVE  Keeps(p, r)
    BY <1>1, <1>2, <2>1, ReadyKeeps, ActorKeeps, FullStatKeeps, OtherKeeps, GoneKeeps
    DEF Serve
  <2> QED
    BY <1>1, <2>1, LoopKeeps DEF StreamNext, Next, ServerStep
<1>4. held'[p][r] = Makes(p, r)
  BY <1>1 DEF StreamNext, Listen
<1> QED
  BY <1>2, <1>3, <1>4 DEF Keeps

LEMMA StepStream == StreamInv /\ [StreamNext]_streamVars => StreamInv'
<1>1. ASSUME StreamInv, StreamNext
      PROVE  StreamInv'
  <2>1. Inv'
    BY <1>1, StepInv DEF StreamInv, StreamNext
  <2>2. StreamTypeOK'
    BY <1>1, <2>1, StepStreamType DEF StreamInv, StreamNext, Inv
  <2>3. Follows'
    BY <1>1, <2>1, StepFollows DEF StreamInv
  <2> QED
    BY <2>1, <2>2, <2>3 DEF StreamInv
<1>2. ASSUME StreamInv, UNCHANGED streamVars
      PROVE  StreamInv'
  <2>1. Inv'
    BY <1>2, StepInv DEF StreamInv, streamVars
  <2>2. StreamTypeOK' /\ Follows'
    BY <1>2 DEF StreamInv, StreamTypeOK, Follows, Open, streamVars, vars
  <2> QED
    BY <2>1, <2>2 DEF StreamInv
<1> QED
  BY <1>1, <1>2

\* A listener that was told full values of a player has the value the server has,
\* after any reports of any peers about any players, until it loses track of the
\* player.  One that joins a running game has them of player 0, under whose number
\* all initial data is sent, when player 0 is among the players it is told about; of
\* any player, from a full stat update with the initial flag (PacketHandler.cpp:34-66,
\* 222-283, 405-468; OONetwork.cpp:414-433, 533-584).
THEOREM FollowersAlwaysAgree == StreamSpec => []FollowersAgree
<1>1. StreamInv => FollowersAgree
  BY DEF StreamInv, Follows, FollowersAgree
<1> QED
  BY <1>1, InitStream, StepStream, PTL DEF StreamSpec

\* What a client makes of the packets keeps its type, whatever they are
\* (OONetwork.cpp:414-469, 533-601).
THEOREM ListenersTyped == StreamSpec => []StreamTypeOK
<1>1. StreamInv => StreamTypeOK
  BY DEF StreamInv
<1> QED
  BY <1>1, InitStream, StepStream, PTL DEF StreamSpec
=============================================================================
