------------------------------- MODULE AdminGUI -------------------------------
(***************************************************************************)
(* The admin console (GUI_Server/ServerAdminGUI.cpp): its window thread,    *)
(* which starts, stops and restarts the network thread from the menu, and   *)
(* the network thread (net_main), which connects to the server and shows    *)
(* what it is sent.  The window thread ends the other by TerminateThread,   *)
(* wherever it is, and cleans up after it without knowing how far it came.  *)
(*                                                                          *)
(* Winsock counts its users: what is open is closed for them when the last  *)
(* one cleans up.                                                           *)
(***************************************************************************)
EXTENDS Integers, FiniteSets

CONSTANTS
    Handles,        \* values a socket handle may take; closed ones come again
    INVALID_SOCKET,
    MaxFiles        \* files the C library keeps open at once (512)

ASSUME HandleAssumption == INVALID_SOCKET \notin Handles
ASSUME FilesAssumption == MaxFiles \in Nat \ {0}

VARIABLES
    settings,       \* AdminGUISettings.ini: missing, without a header, or fine
    Started, ServerSocket,
    thread,         \* where the network thread is; "none" when there is none
    made,           \* what socket() has returned to it
    startups,       \* how often Winsock was started and not cleaned up
    open,           \* the sockets that are open
    peer,           \* the other end of ServerSocket: nobody, the server, or how it ended
    files           \* settings files left open; the end of a thread closes none

winsock == <<startups, open>>
vars == <<settings, Started, ServerSocket, thread, made, startups, open, peer, files>>

TypeOK ==
    /\ settings \in {"missing", "headless", "fine"}
    /\ Started \in BOOLEAN
    /\ ServerSocket \in Handles \cup {INVALID_SOCKET}
    /\ thread \in {"none", "start", "socket", "assign", "settings", "reading",
                   "connect", "login", "loop", "close", "cleanup", "returned"}
    /\ made \in Handles \cup {INVALID_SOCKET}
    /\ startups \in 0 .. 1
    /\ open \in SUBSET Handles
    /\ peer \in {"nobody", "server", "closed", "reset"}
    /\ files \in 0 .. MaxFiles

\* ServerSocket is 0 before the first start, which is no socket either.
Init ==
    /\ settings \in {"missing", "headless", "fine"}
    /\ Started = FALSE
    /\ ServerSocket = INVALID_SOCKET /\ made = INVALID_SOCKET
    /\ thread = "none"
    /\ startups = 0 /\ open = {} /\ peer = "nobody" /\ files = 0

-----------------------------------------------------------------------------
(* Winsock. *)

\* closesocket(ServerSocket), which may be closed already or none.
OpenAfterClose == open \ {ServerSocket}

\* WSACleanup while `sockets` are open: that of the last user closes them, one
\* too many fails.
WSACleanup(sockets) ==
    /\ startups' = IF startups = 0 THEN 0 ELSE startups - 1
    /\ open' = IF startups <= 1 THEN {} ELSE sockets

-----------------------------------------------------------------------------
(* The window thread: the menu. *)

Start ==
    /\ ~Started
    /\ Started' = TRUE
    /\ thread' = "start"
    /\ UNCHANGED <<settings, ServerSocket, made, winsock, peer, files>>

\* A mutant of CleanUp: closing the socket is taken to be enough.
CleanUpSocket ==
    /\ open' = OpenAfterClose /\ UNCHANGED startups
    /\ ServerSocket' = INVALID_SOCKET /\ made' = INVALID_SOCKET
    /\ peer' = "nobody"

\* What the window thread does for a network thread it has just ended.
CleanUp ==
    /\ WSACleanup(OpenAfterClose)
    /\ ServerSocket' = INVALID_SOCKET /\ made' = INVALID_SOCKET
    /\ peer' = "nobody"

Stop ==
    /\ Started
    /\ CleanUp
    /\ thread' = "none"
    /\ Started' = FALSE
    /\ UNCHANGED <<settings, files>>

Restart ==
    /\ Started
    /\ CleanUp
    /\ thread' = "start"
    /\ UNCHANGED <<settings, Started, files>>

-----------------------------------------------------------------------------
(* The network thread. *)

\* It goes from one place to the next.
From(place, next) == thread = place /\ thread' = next /\ UNCHANGED <<settings, Started>>

\* WSAStartup; a failure is ignored.
StartNet ==
    /\ From("start", "socket")
    /\ startups' \in {startups, startups + 1}
    /\ UNCHANGED <<ServerSocket, made, open, peer, files>>

\* socket() fails when Winsock was not started, and may fail otherwise.
MakeSocket ==
    /\ From("socket", "assign")
    /\ \/ \E s \in Handles \ open :
              startups > 0 /\ made' = s /\ open' = open \cup {s}
       \/ made' = INVALID_SOCKET /\ UNCHANGED open
    /\ UNCHANGED <<ServerSocket, startups, peer, files>>

Assign ==
    /\ From("assign", "settings")
    /\ ServerSocket' = made /\ made' = INVALID_SOCKET
    /\ UNCHANGED <<winsock, peer, files>>

\* Without a settings file, or with too many open, it returns with its socket
\* open.
OpenSettings ==
    /\ IF settings = "missing" \/ files = MaxFiles
       THEN From("settings", "returned") /\ UNCHANGED files
       ELSE From("settings", "reading") /\ files' = files + 1
    /\ UNCHANGED <<ServerSocket, made, winsock, peer>>

\* A file without the headers is read for ever.
ReadSettings ==
    /\ settings = "fine"
    /\ From("reading", "connect")
    /\ files' = files - 1
    /\ UNCHANGED <<ServerSocket, made, winsock, peer>>

\* The result is not looked at.
Connect ==
    /\ From("connect", "login")
    /\ peer' \in IF ServerSocket \in open THEN {"server", "nobody"} ELSE {"nobody"}
    /\ UNCHANGED <<ServerSocket, made, winsock, files>>

Login ==
    /\ From("login", "loop")
    /\ UNCHANGED <<ServerSocket, made, winsock, peer, files>>

\* A mutant of Recv: an end of the connection is taken for a packet.
RecvOn ==
    /\ From("loop", "loop")
    /\ UNCHANGED <<ServerSocket, made, winsock, peer, files>>

\* recv returns a packet, and it is shown; 0, because the server has closed the
\* connection; or an error, without a connection or after a reset: that is not
\* tested, and what is in the buffer is shown again.
Recv ==
    /\ IF peer = "closed" THEN From("loop", "close") ELSE From("loop", "loop")
    /\ UNCHANGED <<ServerSocket, made, winsock, peer, files>>

CloseSocket ==
    /\ From("close", "cleanup")
    /\ open' = OpenAfterClose
    /\ UNCHANGED <<ServerSocket, made, startups, peer, files>>

\* The thread returns; for the menu it is still started.
CleanUpSelf ==
    /\ From("cleanup", "returned")
    /\ WSACleanup(open)
    /\ UNCHANGED <<ServerSocket, made, peer, files>>

\* The connection ends at the server's side.  The server never closes adminSocket
\* itself: its process ends, or the network does, so that the end is an orderly one
\* (closed) or, more often, a reset.
ServerCloses ==
    /\ peer = "server"
    /\ peer' \in {"closed", "reset"}
    /\ UNCHANGED <<settings, Started, ServerSocket, thread, made, winsock, files>>

-----------------------------------------------------------------------------
Menu == Start \/ Stop \/ Restart
NetMain ==
    \/ StartNet \/ MakeSocket \/ Assign \/ OpenSettings \/ ReadSettings
    \/ Connect \/ Login \/ Recv \/ CloseSocket \/ CleanUpSelf

Next == Menu \/ NetMain \/ ServerCloses

Spec == Init /\ [][Next]_vars

\* The network thread keeps running; the menu may never be used.
FairSpec == Spec /\ WF_vars(NetMain)

-----------------------------------------------------------------------------
(* What must be true of it. *)

\* A stopped console has nothing left of its network thread, wherever that was
\* when it was ended: between the startup of Winsock and its socket, between a
\* socket and the variable it goes to, or cleaning up after itself
\* (ServerAdminGUI.cpp:194-204,336-337,412-417).
StopLeavesNothing ==
    ~Started => /\ thread = "none"
                /\ startups = 0 /\ open = {}
                /\ ServerSocket = INVALID_SOCKET

\* However often it is restarted, the console has one socket at most, and a
\* command typed into it goes to that one or nowhere: ServerSocket never names a
\* socket of an earlier thread (ServerAdminGUI.cpp:205-216,271,311,337).
OneConnection ==
    /\ Cardinality(open) <= 1
    /\ peer = "server" => open = {ServerSocket}
    /\ thread \in {"start", "socket", "assign"} => ServerSocket = INVALID_SOCKET

\* An orderly end of the connection is noticed, and the socket closed.  A reset is
\* not: recv fails, only 0 is tested, and the thread goes round its loop with the
\* socket open until the menu ends it (ServerAdminGUI.cpp:411-430).
OrderlyEndNoticed == peer = "closed" ~> open = {}
=============================================================================
