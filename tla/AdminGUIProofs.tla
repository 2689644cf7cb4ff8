---------------------------- MODULE AdminGUIProofs ----------------------------
(***************************************************************************)
(* Proofs about AdminGUI, for every set of socket handles and every number  *)
(* of files.  What is invariant is, for each place where the network thread *)
(* can be ended, what it has made by then and which variable knows of it.   *)
(***************************************************************************)
EXTENDS AdminGUI, FiniteSetTheorems, TLAPS

Early == {"none", "start", "socket", "assign"}

\* Which places the other variables allow.
PlaceInv ==
    /\ thread = "none" <=> ~Started
    /\ thread = "reading" => files > 0
    /\ peer = "server" => thread \in {"login", "loop"}
    /\ thread \in {"close", "cleanup"} => peer = "closed"

\* What is open is known to one variable, and nothing is before the startup.
SocketInv ==
    /\ open \in SUBSET {made, ServerSocket}
    /\ thread \in Early => ServerSocket = INVALID_SOCKET
    /\ thread # "assign" => made = INVALID_SOCKET
    /\ thread \in {"none", "start"} => startups = 0
    /\ startups = 0 => open = {}
    /\ peer = "server" => ServerSocket \in open

IInv == TypeOK /\ PlaceInv /\ SocketInv

-----------------------------------------------------------------------------

LEMMA InitIInv == Init => IInv
<1> SUFFICES ASSUME Init PROVE IInv
  OBVIOUS
<1>1. TypeOK
  <2>1. Started \in BOOLEAN
    BY Zenon DEF Init
  <2> QED
    BY <2>1, FilesAssumption DEF Init, TypeOK
<1>2. PlaceInv
  BY DEF Init, PlaceInv
<1>3. SocketInv
  BY DEF Init, SocketInv, Early
<1> QED
  BY <1>1, <1>2, <1>3 DEF IInv

\* Whatever the thread has left, the window thread's cleaning up removes it.
LEMMA CleanUpLeavesNothing ==
    ASSUME IInv, CleanUp
    PROVE  /\ startups' = 0 /\ open' = {}
           /\ ServerSocket' = INVALID_SOCKET /\ made' = INVALID_SOCKET
           /\ peer' = "nobody"
BY DEF IInv, TypeOK, SocketInv, CleanUp, WSACleanup, OpenAfterClose

LEMMA MenuKeepsIInv == ASSUME IInv, Menu PROVE IInv'
<1>1. CASE Start
  BY <1>1 DEF IInv, TypeOK, PlaceInv, SocketInv, Early, Start, winsock
<1>2. CASE Stop
  <2>1. /\ startups' = 0 /\ open' = {} /\ peer' = "nobody"
        /\ ServerSocket' = INVALID_SOCKET /\ made' = INVALID_SOCKET
    BY <1>2, CleanUpLeavesNothing DEF Stop
  <2>2. thread' = "none" /\ Started' = FALSE /\ UNCHANGED <<settings, files>>
    BY <1>2 DEF Stop
  <2>3. TypeOK'
    <3>1. Started' \in BOOLEAN
      BY <2>2, Zenon
    <3> QED
      BY <2>1, <2>2, <3>1 DEF IInv, TypeOK
  <2>4. PlaceInv'
    BY <2>1, <2>2 DEF PlaceInv
  <2>5. SocketInv'
    BY <2>1, <2>2 DEF SocketInv
  <2> QED
    BY <2>3, <2>4, <2>5 DEF IInv
<1>3. CASE Restart
  <2>1. /\ startups' = 0 /\ open' = {} /\ peer' = "nobody"
        /\ ServerSocket' = INVALID_SOCKET /\ made' = INVALID_SOCKET
    BY <1>3, CleanUpLeavesNothing DEF Restart
  <2> QED
    BY <1>3, <2>1 DEF IInv, TypeOK, PlaceInv, SocketInv, Early, Restart
<1> QED
  BY <1>1, <1>2, <1>3 DEF Menu

LEMMA NetMainKeepsIInv == ASSUME IInv, NetMain PROVE IInv'
<1> USE HandleAssumption, FilesAssumption
        DEF IInv, TypeOK, PlaceInv, SocketInv, Early, From, winsock
<1>1. CASE StartNet
  BY <1>1 DEF StartNet
<1>2. CASE MakeSocket
  <2>1. open = {}
    BY <1>2 DEF MakeSocket
  <2>2. CASE \E s \in Handles \ open :
                 startups > 0 /\ made' = s /\ open' = open \cup {s}
    BY <1>2, <2>1, <2>2 DEF MakeSocket
  <2>3. CASE made' = INVALID_SOCKET /\ UNCHANGED open
    BY <1>2, <2>1, <2>3 DEF MakeSocket
  <2> QED
    BY <1>2, <2>2, <2>3 DEF MakeSocket
<1>3. CASE Assign
  BY <1>3 DEF Assign
<1>4. CASE OpenSettings
  BY <1>4 DEF OpenSettings
<1>5. CASE ReadSettings
  BY <1>5 DEF ReadSettings
<1>6. CASE Connect
  BY <1>6 DEF Connect
<1>7. CASE Login
  BY <1>7 DEF Login
<1>8. CASE Recv
  BY <1>8 DEF Recv
<1>9. CASE CloseSocket
  BY <1>9 DEF CloseSocket, OpenAfterClose
<1>10. CASE CleanUpSelf
  BY <1>10 DEF CleanUpSelf, WSACleanup
<1> QED
  BY <1>1, <1>2, <1>3, <1>4, <1>5, <1>6, <1>7, <1>8, <1>9, <1>10 DEF NetMain

LEMMA NextKeepsIInv == IInv /\ [Next]_vars => IInv'
<1> SUFFICES ASSUME IInv, [Next]_vars PROVE IInv'
  OBVIOUS
<1>1. CASE Menu
  BY <1>1, MenuKeepsIInv
<1>2. CASE NetMain
  BY <1>2, NetMainKeepsIInv
<1>3. CASE ServerCloses
  BY <1>3 DEF IInv, TypeOK, PlaceInv, SocketInv, Early, ServerCloses, winsock
<1>4. CASE UNCHANGED vars
  BY <1>4 DEF IInv, TypeOK, PlaceInv, SocketInv, Early, vars
<1> QED
  BY <1>1, <1>2, <1>3, <1>4 DEF Next

LEMMA IInvAlways == Spec => []IInv
BY InitIInv, NextKeepsIInv, PTL DEF Spec

-----------------------------------------------------------------------------

\* The variables keep their types; Winsock is never started twice.
THEOREM TypeCorrect == Spec => []TypeOK
<1>1. IInv => TypeOK
  BY DEF IInv
<1> QED
  BY <1>1, IInvAlways, PTL

\* Wherever the network thread is ended, Stop leaves no socket, no use of
\* Winsock and no handle of it.
THEOREM StopLeavesNothingAlways == Spec => []StopLeavesNothing
<1>1. IInv => StopLeavesNothing
  BY DEF IInv, PlaceInv, SocketInv, Early, StopLeavesNothing
<1> QED
  BY <1>1, IInvAlways, PTL

\* One socket at most is open, and a connection is the one ServerSocket names.
THEOREM OneConnectionAlways == Spec => []OneConnection
<1>1. ASSUME IInv PROVE OneConnection
  <2>1. CASE open = {}
    <3>1. Cardinality(open) = 0
      BY <2>1, FS_EmptySet
    <3> QED
      BY <1>1, <2>1, <3>1
      DEF IInv, SocketInv, Early, OneConnection
  <2>2. CASE open # {}
    <3>1. PICK s \in Handles : open = {s} /\ s \in {made, ServerSocket}
      BY <1>1, <2>2, HandleAssumption DEF IInv, TypeOK, SocketInv, Early
    <3>2. Cardinality(open) = 1
      BY <3>1, FS_Singleton
    <3> QED
      BY <1>1, <3>1, <3>2
      DEF IInv, SocketInv, Early, OneConnection
  <2> QED
    BY <2>1, <2>2
<1> QED
  BY <1>1, IInvAlways, PTL
=============================================================================
