---------------------------- MODULE ServerThreads ----------------------------
(***************************************************************************)
(* The three threads of the server process (GUI_Server/ConsoleServer.cpp):  *)
(* main, which reads the settings and then runs the loop of module Server,  *)
(* the admin thread, which serves one admin connection after the other, and *)
(* the list thread (info), which publishes the server.  They share, without *)
(* a lock, serverPort, ServerPassword, TotalClients, adminSocket and the    *)
(* log file easylog.                                                        *)
(*                                                                          *)
(* A thread runs a script of steps, one access to a shared variable each;   *)
(* the steps of two threads interleave in any order.  What the main loop    *)
(* does with its players is module Server; here it is one event after the   *)
(* other, each with the shared variables it touches, in the order of the    *)
(* code.                                                                    *)
(***************************************************************************)
EXTENDS Integers, Sequences, FiniteSets

CONSTANTS
    MAXCLIENTS,     \* number of slots
    PORT,           \* the default port (41805)
    LowestPort,     \* ports below it are refused (1024)
    OpenPassword,   \* "nopassword", the word for a server without one
    Passwords,      \* the words a settings file may give as password
    Unread,         \* ServerPassword before it is read (the empty string)
    Settings,       \* what a settings file may say of port and password
    NoFile,         \* there is no settings file
    SendBound,      \* messages a connection holds before send blocks
    AdminBound,     \* bound: connections admins make
    RequestBound,   \* bound: requests one admin has under way
    EventBound      \* bound: events the main loop goes through

ASSUME MaxClientsAssumption == MAXCLIENTS \in Nat \ {0}
ASSUME PortAssumption == /\ LowestPort \in Nat \ {0}
                         /\ PORT \in Nat /\ PORT >= LowestPort
ASSUME PasswordAssumption == Unread # OpenPassword
ASSUME FileAssumption == /\ Settings \subseteq [port : Nat, password : Passwords]
                         /\ NoFile \notin Settings
ASSUME BoundAssumption == /\ SendBound \in Nat \ {0}
                          /\ AdminBound \in Nat
                          /\ RequestBound \in Nat
                          /\ EventBound \in Nat

VARIABLES
    settings,       \* what ServerSettings.ini says
    phase,          \* per thread: where it is outside its script
    script,         \* per thread: the script it runs
    at,             \* per thread: its next step in the script
    serverPort, ServerPassword, TotalClients, adminSocket, easylog,
    seated,         \* how many entries of clients[] are taken
    adminPort,      \* the port the admin thread is bound to, -1 before
    HasPassword,    \* what the list thread publishes about the password
    streams,        \* the entries of the C library's table of open files
    arrived,        \* how many admins have connected
    accepted,       \* how many of them the admin thread has accepted
    gone,           \* the admins that have closed their end, or crashed
    requests,       \* per admin: requests the admin thread has not read
    inbox,          \* per admin: messages the admin has not read
    events,         \* how many events the main loop has taken up
    failures,       \* ghost: accepts that failed and were counted
    overlaps,       \* ghost: log sections entered while the other was in one
    lost            \* ghost: lines of log sections written to a closed file

startup == <<settings, serverPort, ServerPassword>>
running == <<script, at>>
counts == <<seated, TotalClients, events, failures>>
log == <<easylog, streams, overlaps, lost>>
admins == <<adminSocket, arrived, accepted, gone, requests, inbox>>
vars == <<settings, phase, script, at, serverPort, ServerPassword,
          TotalClients, adminSocket, easylog, seated, adminPort, HasPassword, streams,
          arrived, accepted, gone, requests, inbox, events, failures, overlaps, lost>>

\* Admin connections by the order in which they are made.  adminSocket is 0
\* before the first, and BadSocket (INVALID_SOCKET) after an accept that failed.
Admins == 1 .. AdminBound
NoAdmin == 0
BadSocket == -1

-----------------------------------------------------------------------------
(* The scripts. *)

\* A mutant of Script: the connection is counted before it is accepted, and
\* counted out after its socket is closed.
ScriptCountOutside ==
    [accept |-> <<"countIn", "seat", "tell", "open", "write", "close">>,
     fail   |-> <<"countIn", "tell", "open", "write", "close">>,
     leave  |-> <<"tell", "open", "write", "close", "unseat", "countOut">>,
     reject |-> <<"unseat", "countOut", "tell", "tell", "append">>,
     foreign |-> <<"unseat", "countOut", "tell", "append">>,
     talk   |-> <<"tell">>,
     note   |-> <<"open", "write", "close">>,
     idle   |-> <<>>]

\* A mutant of Script: the departure relies on the log being open.
ScriptNoOpen ==
    [accept |-> <<"seat", "countIn", "tell", "open", "write", "close">>,
     fail   |-> <<"countIn", "tell", "open", "write", "close">>,
     leave  |-> <<"countOut", "tell", "write", "close", "unseat">>,
     reject |-> <<"countOut", "tell", "tell", "append", "unseat">>,
     foreign |-> <<"countOut", "tell", "append", "unseat">>,
     talk   |-> <<"tell">>,
     note   |-> <<"open", "write", "close">>,
     idle   |-> <<>>]

\* The shared variables touched for a connection that is accepted, for one whose
\* accept fails (the result is not checked), for one that ends, for a client of
\* another version and for another program (their lines go to whatever easylog
\* holds), for a packet the admin is told about, and for a line in the log alone.
\* An idle thread runs none.
Script ==
    [accept |-> <<"seat", "countIn", "tell", "open", "write", "close">>,
     fail   |-> <<"countIn", "tell", "open", "write", "close">>,
     leave  |-> <<"countOut", "tell", "open", "write", "close", "unseat">>,
     reject |-> <<"countOut", "tell", "tell", "append", "unseat">>,
     foreign |-> <<"countOut", "tell", "append", "unseat">>,
     talk   |-> <<"tell">>,
     note   |-> <<"open", "write", "close">>,
     idle   |-> <<>>]

Scripts == {"accept", "fail", "leave", "reject", "foreign", "talk", "note", "idle"}
Workers == {"main", "admin"}

TypeOK ==
    /\ settings \in Settings \cup {NoFile}
    /\ phase \in [main : {"settings", "checkPort", "password", "start",
                          "loop", "ended"},
                  admin : {"wait", "accept", "serve", "ended"},
                  list : {"wait", "publish"}]
    /\ script \in [Workers -> Scripts]
    /\ at \in [Workers -> 1 .. 6]
    /\ serverPort \in Nat
    /\ ServerPassword \in Passwords \cup {Unread}
    /\ seated \in 0 .. MAXCLIENTS
    /\ TotalClients \in Int
    /\ adminPort \in Nat \cup {-1}
    /\ HasPassword \in BOOLEAN
    /\ streams \in SUBSET Nat /\ IsFiniteSet(streams)
    /\ easylog \in Nat
    /\ adminSocket \in Admins \cup {NoAdmin, BadSocket}
    /\ arrived \in 0 .. AdminBound /\ accepted \in 0 .. arrived
    /\ gone \in SUBSET Admins
    /\ requests \in [Admins -> 0 .. RequestBound]
    /\ inbox \in [Admins -> 0 .. SendBound]
    /\ events \in 0 .. EventBound
    /\ failures \in Nat /\ overlaps \in Nat /\ lost \in Nat

\* After the log was emptied ("w", then closed) and the threads were started.
Init ==
    /\ settings \in Settings \cup {NoFile}
    /\ phase = [main |-> "settings", admin |-> "wait", list |-> "wait"]
    /\ script = [t \in Workers |-> "idle"]
    /\ at = [t \in Workers |-> 1]
    /\ serverPort = 0
    /\ ServerPassword = Unread
    /\ seated = 0 /\ TotalClients = 0 /\ events = 0
    /\ adminPort = -1
    /\ HasPassword = FALSE
    /\ streams = {} /\ easylog = 0 /\ failures = 0 /\ overlaps = 0 /\ lost = 0
    /\ adminSocket = NoAdmin
    /\ arrived = 0 /\ accepted = 0 /\ gone = {}
    /\ requests = [a \in Admins |-> 0]
    /\ inbox = [a \in Admins |-> 0]

\* main returns from a failed start, and the process ends with it.
Alive == phase.main # "ended"

-----------------------------------------------------------------------------
(* main reads the settings.  The other two threads wait for serverPort to be *)
(* something else than 0: they may see it before it is checked.              *)

Starting == UNCHANGED <<running, counts, log, admins, HasPassword, adminPort, settings>>

\* A mutant of ReadPort: the default is in place while the file is read.
DefaultFirst ==
    /\ phase.main = "settings"
    /\ IF serverPort = 0
       THEN serverPort' = PORT /\ UNCHANGED phase
       ELSE /\ serverPort' = IF settings = NoFile THEN PORT ELSE settings.port
            /\ phase' = [phase EXCEPT !.main =
                            IF settings = NoFile THEN "start" ELSE "checkPort"]
    /\ Starting /\ UNCHANGED ServerPassword

ReadPort ==
    /\ phase.main = "settings"
    /\ IF settings = NoFile
       THEN /\ serverPort' = PORT
            /\ phase' = [phase EXCEPT !.main = "start"]
       ELSE /\ serverPort' = settings.port
            /\ phase' = [phase EXCEPT !.main = "checkPort"]
    /\ Starting /\ UNCHANGED ServerPassword

CheckPort ==
    /\ phase.main = "checkPort"
    /\ serverPort' = IF serverPort < LowestPort THEN PORT ELSE serverPort
    /\ phase' = [phase EXCEPT !.main = "password"]
    /\ Starting /\ UNCHANGED ServerPassword

ReadPassword ==
    /\ phase.main = "password"
    /\ ServerPassword' = settings.password
    /\ phase' = [phase EXCEPT !.main = "start"]
    /\ Starting /\ UNCHANGED serverPort

\* Thread t turns to a script.
Begin(t, name) == script' = [script EXCEPT ![t] = name] /\ at' = [at EXCEPT ![t] = 1]

\* socket, bind and listen; an error ends the process.
Listen ==
    /\ phase.main = "start"
    /\ \/ /\ phase' = [phase EXCEPT !.main = "loop"]
          /\ Begin("main", "note")
       \/ /\ phase' = [phase EXCEPT !.main = "ended"]
          /\ UNCHANGED running
    /\ UNCHANGED <<startup, counts, log, admins, HasPassword, adminPort>>

-----------------------------------------------------------------------------
(* The steps of a script. *)

\* The next step of thread t is `step`.
Before(t, step) == script[t] # "idle" /\ Script[script[t]][at[t]] = step

\* Thread t does it, and is idle after the last step of its script.
Does(t, step) ==
    /\ Alive
    /\ Before(t, step)
    /\ IF at[t] = Len(Script[script[t]])
       THEN Begin(t, "idle")
       ELSE at' = [at EXCEPT ![t] = @ + 1] /\ UNCHANGED script
    /\ UNCHANGED <<startup, phase, HasPassword, adminPort, arrived, accepted,
                   gone, adminSocket, requests, events>>

\* A mutant of Possible: the search for a free slot looks at one too many.
PossiblePastEnd(e) ==
    \/ e \in {"accept", "fail"} /\ seated <= MAXCLIENTS
    \/ e \in {"leave", "reject", "foreign", "talk"} /\ seated > 0

\* What can happen at the sockets depends on the connections alone.
Possible(e) ==
    \/ e \in {"accept", "fail"} /\ seated < MAXCLIENTS
    \/ e \in {"leave", "reject", "foreign", "talk"} /\ seated > 0

\* The main loop turns to the next socket.
Event(e) ==
    /\ phase.main = "loop" /\ script.main = "idle"
    /\ events < EventBound
    /\ Possible(e)
    /\ Begin("main", e)
    /\ events' = events + 1
    /\ UNCHANGED <<startup, phase, seated, TotalClients, failures, log, admins, HasPassword,
                   adminPort>>

\* clients[LocalPlayer] gets a socket, or INVALID_SOCKET again.
Seat(t) == /\ Does(t, "seat") /\ seated' = seated + 1
           /\ UNCHANGED <<TotalClients, failures, log, inbox>>
Unseat(t) == /\ Does(t, "unseat") /\ seated' = seated - 1
             /\ UNCHANGED <<TotalClients, failures, log, inbox>>
CountIn(t) == /\ Does(t, "countIn") /\ TotalClients' = TotalClients + 1
              /\ failures' = IF script[t] = "fail" THEN failures + 1 ELSE failures
              /\ UNCHANGED <<seated, log, inbox>>
CountOut(t) == /\ Does(t, "countOut") /\ TotalClients' = TotalClients - 1
               /\ UNCHANGED <<seated, failures, log, inbox>>

\* Whether a send to adminSocket has somebody at the other end: nobody reads
\* adminSocket again after its owner has gone, and it is never reset.
Reaches == adminSocket \in Admins \ gone

\* A mutant of Tell: a message that cannot be delivered is tried again.
TellAgain(t) ==
    /\ Does(t, "tell")
    /\ adminSocket # NoAdmin => Reaches /\ inbox[adminSocket] < SendBound
    /\ inbox' = [a \in Admins |-> IF a = adminSocket THEN inbox[a] + 1 ELSE inbox[a]]
    /\ UNCHANGED <<seated, TotalClients, failures, log>>

\* "if(adminSocket) SendAdminMessage(...)": send waits while the buffer of the
\* connection is full, and fails at once when the admin is gone.
Tell(t) ==
    /\ Does(t, "tell")
    /\ IF Reaches
       THEN /\ inbox[adminSocket] < SendBound
            /\ inbox' = [inbox EXCEPT ![adminSocket] = @ + 1]
       ELSE UNCHANGED inbox
    /\ UNCHANGED <<seated, TotalClients, failures, log>>

-----------------------------------------------------------------------------
(* The log.  A FILE * is an entry of the C library's table: fopen takes the  *)
(* lowest free one, a write through a free one is refused, a close of a free *)
(* one does nothing.                                                         *)

Other(t) == IF t = "main" THEN "admin" ELSE "main"

\* Thread t has opened the log and not closed it yet.
InSection(t) == Before(t, "write") \/ Before(t, "close")

Open(t) ==
    /\ Does(t, "open")
    /\ \E f \in 0 .. Cardinality(streams) :
           /\ f \notin streams /\ \A g \in 0 .. f - 1 : g \in streams
           /\ easylog' = f
           /\ streams' = streams \cup {f}
    /\ overlaps' = IF InSection(Other(t)) THEN overlaps + 1 ELSE overlaps
    /\ UNCHANGED <<seated, TotalClients, failures, inbox, lost>>

Write(t) ==
    /\ Does(t, "write")
    /\ lost' = IF easylog \in streams THEN lost ELSE lost + 1
    /\ UNCHANGED <<seated, TotalClients, failures, inbox, easylog, streams, overlaps>>

\* The handler of a rejected client writes to easylog without opening it: the
\* line is in the file only when the admin thread is in a section of its own.
AppendLine(t) ==
    /\ Does(t, "append")
    /\ UNCHANGED <<seated, TotalClients, failures, inbox, log>>

Close(t) ==
    /\ Does(t, "close")
    /\ streams' = streams \ {easylog}
    /\ UNCHANGED <<seated, TotalClients, failures, inbox, easylog, overlaps, lost>>

-----------------------------------------------------------------------------
(* The admin thread. *)

AdminWaits == UNCHANGED <<startup, counts, log, HasPassword, arrived, gone, inbox>>

\* It binds the port below the server's; when it cannot, it ends.
AdminBind ==
    /\ Alive
    /\ phase.admin = "wait" /\ serverPort # 0
    /\ \/ /\ adminPort' = serverPort - 1
          /\ phase' = [phase EXCEPT !.admin = "accept"]
       \/ /\ phase' = [phase EXCEPT !.admin = "ended"]
          /\ UNCHANGED adminPort
    /\ AdminWaits /\ UNCHANGED <<running, adminSocket, accepted, requests>>

\* The result of accept is not checked; a connection given up may yield
\* INVALID_SOCKET.
AdminAccept ==
    /\ Alive
    /\ phase.admin = "accept" /\ script.admin = "idle"
    /\ accepted < arrived
    /\ accepted' = accepted + 1
    /\ \/ adminSocket' = accepted + 1 /\ UNCHANGED requests
       \/ /\ accepted + 1 \in gone
          /\ adminSocket' = BadSocket
          /\ requests' = [requests EXCEPT ![accepted + 1] = 0]
    /\ phase' = [phase EXCEPT !.admin = "serve"]
    /\ Begin("admin", "note")
    /\ AdminWaits /\ UNCHANGED adminPort

\* recv returns a packet of the admin.  The admin console sends none but admin
\* information, which ScanBuffer takes for a request of the time; the answer
\* goes to the players.
AdminServe ==
    /\ Alive
    /\ phase.admin = "serve" /\ script.admin = "idle"
    /\ adminSocket \in Admins /\ requests[adminSocket] > 0
    /\ requests' = [requests EXCEPT ![adminSocket] = @ - 1]
    /\ AdminWaits /\ UNCHANGED <<phase, running, adminPort, adminSocket, accepted>>

\* A mutant of HangsUp: an error of recv does not end the loop.
HangsUpOrderly ==
    adminSocket \in gone /\ requests[adminSocket] = 0

\* A mutant of HangsUp: nothing to read is taken for the end.
HangsUpSilent ==
    adminSocket \in Admins => requests[adminSocket] = 0

\* recv on adminSocket returns 0 or an error.
HangsUp ==
    \/ adminSocket = BadSocket
    \/ adminSocket \in gone /\ requests[adminSocket] = 0

\* The thread notes the departure and goes back to accept; adminSocket keeps
\* its value and is not closed.
AdminLeaves ==
    /\ Alive
    /\ phase.admin = "serve" /\ script.admin = "idle"
    /\ HangsUp
    /\ phase' = [phase EXCEPT !.admin = "accept"]
    /\ Begin("admin", "note")
    /\ AdminWaits /\ UNCHANGED <<adminPort, adminSocket, accepted, requests>>

-----------------------------------------------------------------------------
(* The list thread.  It ends when there is no settings file; otherwise it    *)
(* looks at the password once and publishes the server again and again.      *)

\* A mutant of NeedsPassword: no password yet is taken for no password.
NeedsPasswordIfAny == ServerPassword \notin {Unread, OpenPassword}

\* Whether the server needs a password, as the list is told.
NeedsPassword == ServerPassword # OpenPassword

\* It waits for serverPort, reads its own settings and resolves the host, which
\* it tries until it succeeds; then it looks at the password.
ListPassword ==
    /\ Alive
    /\ phase.list = "wait" /\ settings # NoFile /\ serverPort # 0
    /\ HasPassword' = NeedsPassword
    /\ phase' = [phase EXCEPT !.list = "publish"]
    /\ UNCHANGED <<startup, running, counts, log, admins, adminPort>>

\* The request it sends, built from the variables as they are; whether it
\* arrives is not checked, and sending it changes nothing.
Request ==
    [port |-> serverPort, players |-> TotalClients, password |-> HasPassword]
Publishing == phase.list = "publish"

-----------------------------------------------------------------------------
(* The admins: consoles that connect, ask, read what they are sent, and      *)
(* leave or crash at any moment.                                             *)

Peer ==
    /\ Alive
    /\ UNCHANGED <<startup, phase, running, counts, log, HasPassword, adminPort,
                   adminSocket, accepted>>

\* The admins at the other end of a connection, accepted or not.
Online == 1 .. arrived \ gone

AdminConnect ==
    /\ arrived < AdminBound /\ phase.admin \in {"accept", "serve"}
    /\ arrived' = arrived + 1
    /\ Peer /\ UNCHANGED <<gone, requests, inbox>>

AdminAsks(a) ==
    /\ a \in Online /\ requests[a] < RequestBound
    /\ requests' = [requests EXCEPT ![a] = @ + 1]
    /\ Peer /\ UNCHANGED <<arrived, gone, inbox>>

AdminReads(a) ==
    /\ a \in Online /\ inbox[a] > 0
    /\ inbox' = [inbox EXCEPT ![a] = @ - 1]
    /\ Peer /\ UNCHANGED <<arrived, gone, requests>>

AdminCloses(a) ==
    /\ a \in Online
    /\ gone' = gone \cup {a}
    /\ inbox' = [inbox EXCEPT ![a] = 0]
    /\ Peer /\ UNCHANGED <<arrived, requests>>

-----------------------------------------------------------------------------
Step(t) ==
    \/ Seat(t) \/ Unseat(t) \/ CountIn(t) \/ CountOut(t) \/ Tell(t)
    \/ Open(t) \/ Write(t) \/ AppendLine(t) \/ Close(t)

StartUp == ReadPort \/ CheckPort \/ ReadPassword \/ Listen
MainLoop == \E e \in Scripts \ {"note", "idle"} : Event(e)
AdminThread == AdminBind \/ AdminAccept \/ AdminServe \/ AdminLeaves
AdminPeers ==
    \/ AdminConnect
    \/ \E a \in Admins : AdminAsks(a) \/ AdminReads(a) \/ AdminCloses(a)

Next ==
    \/ StartUp \/ MainLoop \/ Step("main")
    \/ AdminThread \/ Step("admin")
    \/ ListPassword
    \/ AdminPeers

Spec == Init /\ [][Next]_vars

\* The threads keep running, and an admin console reads what it is sent (it
\* waits in recv whenever it has shown a message) until it leaves: no two have
\* something to read at a time.
FairSpec ==
    /\ Spec
    /\ WF_vars(StartUp \/ Step("main"))
    /\ WF_vars(AdminThread \/ Step("admin"))
    /\ WF_vars(\E a \in Admins : AdminReads(a))

-----------------------------------------------------------------------------
(* What must be true of it. *)

\* The port the server opens, and whether the file names it as it is.
FinalPort == IF settings = NoFile THEN PORT
             ELSE IF settings.port < LowestPort THEN PORT ELSE settings.port
PortAccepted == settings # NoFile => settings.port = 0 \/ settings.port >= LowestPort

\* The admin port is the one below the server's, and the list is sent the
\* server's, although both threads go by a variable that main is still
\* working on: with a port the server accepts in the file, they never see
\* anything but 0 or the port the server opens (ConsoleServer.cpp:115-117,
\* 391,458,473).
PortsAgree ==
    PortAccepted => /\ adminPort # -1 => adminPort = FinalPort - 1
                    /\ Publishing => Request.port = FinalPort

\* A server whose settings name a password is never listed as open, however
\* early the list thread looks at the password (ConsoleServer.cpp:126,419).
NeverListedOpen ==
    Publishing /\ ~Request.password => settings.password = OpenPassword

\* The number published is that of the taken slots and the failed accepts, or
\* one less while a connection comes or goes: at no step of the main loop does
\* the list thread find another player who has no slot (ConsoleServer.cpp:239-241,292,318-319;
\* PacketHandler.cpp:129,147,153,163).
CountBehindSeats ==
    Publishing => Request.players - failures \in {seated - 1, seated}

\* Two threads in the log at a time cost no more than one of them its lines
\* and the table one entry: a line is lost and a stream stays open only where
\* two sections overlapped (ConsoleServer.cpp:251-254,315-317,503-505,525-527).
OverlapCost ==
    /\ lost <= overlaps
    /\ Cardinality(streams) <=
           overlaps + Cardinality({t \in Workers : InSection(t)})

\* adminSocket goes to the next admin only after the one it belongs to has gone:
\* main, which uses it without a lock and may wait in the middle of a send, never
\* has the connection of an admin replaced by another's (ConsoleServer.cpp:488-528,
\* 584-593).
NeverTakenOver == [][adminSocket' # adminSocket => ~Reaches]_vars

\* The main loop does not stay in SendAdminMessage: whatever admins do, short
\* of not reading, it comes back to its players (ConsoleServer.cpp:584-593).
MainComesBack == script.main # "idle" ~> (script.main = "idle" \/ ~Alive)

\* An admin in the queue is accepted once nobody is being served any more,
\* however the one before it has left (ConsoleServer.cpp:488-528).
Served == phase.admin = "serve" /\ adminSocket \in Admins \ gone
AdminAccepted ==
    \A a \in Admins :
        a \in accepted + 1 .. arrived ~> (a <= accepted \/ Served \/ ~Alive)
=============================================================================
