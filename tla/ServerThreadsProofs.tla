------------------------- MODULE ServerThreadsProofs -------------------------
(***************************************************************************)
(* Proofs about ServerThreads, for every number of slots, every port, every *)
(* settings file and every bound.                                           *)
(***************************************************************************)
EXTENDS ServerThreads, FiniteSetTheorems, TLAPS

\* Where the two threads can stand in their scripts.
AtInv ==
    /\ script["admin"] \in {"idle", "note"}
    /\ \A t \in Workers :
           \/ script[t] \in {"idle", "talk"} /\ at[t] = 1
           \/ script[t] = "note" /\ at[t] \in 1 .. 3
           \/ script[t] = "foreign" /\ at[t] \in 1 .. 4
           \/ script[t] = "reject" /\ at[t] \in 1 .. 5
           \/ script[t] = "fail" /\ at[t] \in 1 .. 5
           \/ script[t] = "accept" /\ at[t] \in 1 .. 6
           \/ script[t] = "leave" /\ at[t] \in 1 .. 6

LEMMA ScriptValues ==
  /\ Script["talk"] = <<"tell">>
  /\ Script["note"] = <<"open", "write", "close">>
  /\ Script["fail"] = <<"countIn", "tell", "open", "write", "close">>
  /\ Script["foreign"] = <<"countOut", "tell", "append", "unseat">>
  /\ Script["reject"] = <<"countOut", "tell", "tell", "append", "unseat">>
  /\ Script["accept"] = <<"seat", "countIn", "tell", "open", "write", "close">>
  /\ Script["leave"] = <<"countOut", "tell", "open", "write", "close", "unseat">>
  BY DEF Script

LEMMA ScriptLengths ==
  /\ Len(Script["talk"]) = 1
  /\ Len(Script["note"]) = 3
  /\ Len(Script["foreign"]) = 4
  /\ Len(Script["fail"]) = 5
  /\ Len(Script["reject"]) = 5
  /\ Len(Script["accept"]) = 6
  /\ Len(Script["leave"]) = 6
  BY ScriptValues

\* The steps a thread can do where it stands.
LEMMA Positions ==
  ASSUME AtInv, NEW t \in Workers
  PROVE  /\ Before(t, "seat") <=> script[t] = "accept" /\ at[t] = 1
         /\ Before(t, "countIn") <=> \/ script[t] = "accept" /\ at[t] = 2
                                     \/ script[t] = "fail" /\ at[t] = 1
         /\ Before(t, "countOut") <=> script[t] \in {"leave", "reject", "foreign"} /\ at[t] = 1
         /\ Before(t, "unseat") <=> \/ script[t] = "leave" /\ at[t] = 6
                                    \/ script[t] = "reject" /\ at[t] = 5
                                    \/ script[t] = "foreign" /\ at[t] = 4
         /\ Before(t, "tell") <=> \/ script[t] = "accept" /\ at[t] = 3
                                  \/ script[t] \in {"leave", "foreign", "fail"} /\ at[t] = 2
                                  \/ script[t] = "reject" /\ at[t] \in {2, 3}
                                  \/ script[t] = "talk"
         /\ Before(t, "append") <=> \/ script[t] = "reject" /\ at[t] = 4
                                    \/ script[t] = "foreign" /\ at[t] = 3
         /\ Before(t, "open") <=> \/ script[t] = "accept" /\ at[t] = 4
                                  \/ script[t] = "leave" /\ at[t] = 3
                                  \/ script[t] = "fail" /\ at[t] = 3
                                  \/ script[t] = "note" /\ at[t] = 1
         /\ Before(t, "write") <=> \/ script[t] = "accept" /\ at[t] = 5
                                   \/ script[t] = "leave" /\ at[t] = 4
                                   \/ script[t] = "fail" /\ at[t] = 4
                                   \/ script[t] = "note" /\ at[t] = 2
         /\ Before(t, "close") <=> \/ script[t] = "accept" /\ at[t] = 6
                                   \/ script[t] = "leave" /\ at[t] = 5
                                   \/ script[t] = "fail" /\ at[t] = 5
                                   \/ script[t] = "note" /\ at[t] = 3
<1> USE ScriptValues DEF Before
<1>1. CASE script[t] \in {"idle", "talk"}
  BY <1>1 DEF AtInv
<1>2. CASE script[t] = "note"
  BY <1>2 DEF AtInv
<1>3. CASE script[t] = "foreign"
  BY <1>3 DEF AtInv
<1>4. CASE script[t] = "reject"
  BY <1>4 DEF AtInv
<1>5. CASE script[t] = "accept"
  BY <1>5 DEF AtInv
<1>6. CASE script[t] = "leave"
  BY <1>6 DEF AtInv
<1>7. CASE script[t] = "fail"
  BY <1>7 DEF AtInv
<1> QED
  BY <1>1, <1>2, <1>3, <1>4, <1>5, <1>6, <1>7 DEF AtInv

\* A step leaves the other thread where it was and takes this one along.
LEMMA Moves ==
  ASSUME AtInv, script \in [Workers -> Scripts], at \in [Workers -> 1 .. 6],
         NEW t \in Workers, NEW step, Does(t, step)
  PROVE  /\ AtInv'
         /\ script' \in [Workers -> Scripts] /\ at' \in [Workers -> 1 .. 6]
         /\ \A u \in Workers \ {t} : script'[u] = script[u] /\ at'[u] = at[u]
         /\ \/ /\ script'[t] = script[t] /\ at'[t] = at[t] + 1
               /\ at[t] # Len(Script[script[t]])
            \/ /\ script'[t] = "idle" /\ at'[t] = 1
               /\ at[t] = Len(Script[script[t]])
<1>1. script[t] # "idle"
  BY DEF Does, Before
<1>2. CASE at[t] = Len(Script[script[t]])
  BY <1>1, <1>2 DEF Does, Begin, AtInv, Workers, Scripts
<1>3. CASE at[t] # Len(Script[script[t]])
  <2>1. script' = script /\ at' = [at EXCEPT ![t] = at[t] + 1]
    BY <1>3 DEF Does
  <2>2. CASE script[t] = "note"
    BY <1>3, <2>1, <2>2, ScriptLengths DEF AtInv, Workers
  <2>3. CASE script[t] = "foreign"
    BY <1>3, <2>1, <2>3, ScriptLengths DEF AtInv, Workers
  <2>4. CASE script[t] = "reject"
    BY <1>3, <2>1, <2>4, ScriptLengths DEF AtInv, Workers
  <2>5. CASE script[t] = "accept"
    BY <1>3, <2>1, <2>5, ScriptLengths DEF AtInv, Workers
  <2>6. CASE script[t] = "leave"
    BY <1>3, <2>1, <2>6, ScriptLengths DEF AtInv, Workers
  <2>7. CASE script[t] = "talk"
    BY <1>3, <2>7, ScriptLengths DEF AtInv
  <2>8. CASE script[t] = "fail"
    BY <1>3, <2>1, <2>8, ScriptLengths DEF AtInv, Workers
  <2> QED
    BY <1>1, <2>2, <2>3, <2>4, <2>5, <2>6, <2>7, <2>8 DEF AtInv
<1> QED
  BY <1>2, <1>3

-----------------------------------------------------------------------------
(* The inductive invariant. *)

\* The connections counted fall behind the slots taken only while the main loop
\* is between the two in its script.
Between == \/ script["main"] = "accept" /\ at["main"] = 2
           \/ script["main"] \in {"leave", "reject", "foreign"} /\ at["main"] > 1

SeatInv ==
    /\ seated = TotalClients - failures + (IF Between THEN 1 ELSE 0)
    /\ script["main"] = "accept" /\ at["main"] = 1 => seated < MAXCLIENTS
    /\ script["main"] \in {"leave", "reject", "foreign"} => seated > 0

\* How far main is with the settings, and what the others have made of it.
SettingsInv ==
    /\ phase.main \notin {"loop", "ended"} => script["main"] = "idle"
    /\ phase.main = "settings" => serverPort = 0
    /\ phase.main = "checkPort" => settings # NoFile /\ serverPort = settings.port
    /\ phase.main = "password" => settings # NoFile
    /\ phase.main \notin {"settings", "checkPort"} => serverPort = FinalPort
    /\ ServerPassword # Unread => settings # NoFile /\ ServerPassword = settings.password
    /\ serverPort = 0 => adminPort = -1 /\ phase.list = "wait"
    /\ PortAccepted /\ adminPort # -1 => adminPort = FinalPort - 1
    /\ Publishing => settings # NoFile
    /\ Publishing /\ ~HasPassword => settings.password = OpenPassword

\* The lines that will be lost if no other section is entered.
WillWrite(t) == IF Before(t, "write") THEN 1 ELSE 0
Doomed ==
    IF easylog \notin streams THEN WillWrite("main") + WillWrite("admin")
    ELSE IF /\ InSection("main") /\ InSection("admin")
            /\ Before("main", "write") \/ Before("admin", "write")
         THEN 1 ELSE 0

\* Every stream but the current one is the leak of an overlap, and so is every
\* line lost or doomed.
LogInv ==
    /\ Cardinality(streams \ {easylog}) <= overlaps
    /\ ~InSection("main") /\ ~InSection("admin") => easylog \notin streams
    /\ lost + Doomed <= overlaps

IInv == TypeOK /\ AtInv /\ SeatInv /\ SettingsInv /\ LogInv

LEMMA FinalPortType ==
  ASSUME settings \in Settings \cup {NoFile}
  PROVE  FinalPort \in Nat /\ FinalPort > 0
  BY PortAssumption, FileAssumption DEF FinalPort

LEMMA InitInv == Init => IInv
<1> SUFFICES ASSUME Init PROVE IInv
  OBVIOUS
<1> USE DEF Init
<1>1. AtInv
  BY DEF AtInv, Workers
<1>2. TypeOK
  <2>1. IsFiniteSet(streams) /\ streams \in SUBSET Nat
    BY FS_EmptySet
  <2>2. /\ seated \in 0 .. MAXCLIENTS /\ events \in 0 .. EventBound
        /\ arrived \in 0 .. AdminBound /\ accepted \in 0 .. arrived
    BY MaxClientsAssumption, BoundAssumption
  <2>3. /\ requests \in [Admins -> 0 .. RequestBound]
        /\ inbox \in [Admins -> 0 .. SendBound]
    BY BoundAssumption
  <2>4. phase \in [main : {"settings", "checkPort", "password", "start",
                         "loop", "ended"},
                 admin : {"wait", "accept", "serve", "ended"},
                 list : {"wait", "publish"}]
    OBVIOUS
  <2>5. script \in [Workers -> Scripts] /\ at \in [Workers -> 1 .. 6]
    BY DEF Scripts
  <2>6. /\ adminSocket \in Admins \cup {NoAdmin, BadSocket}
        /\ adminPort \in Nat \cup {-1} /\ HasPassword \in BOOLEAN
    OBVIOUS
  <2> HIDE DEF Init
  <2> QED
    BY <2>1, <2>2, <2>3, <2>4, <2>5, <2>6 DEF TypeOK, Init
<1>3. SeatInv
  BY DEF SeatInv, Between, Workers
<1>4. SettingsInv
  BY DEF SettingsInv, Publishing, Workers
<1>5. LogInv
  <2>1. \A t \in Workers : ~Before(t, "write") /\ ~InSection(t)
    BY DEF Before, InSection
  <2>2. streams \ {easylog} = {}
    OBVIOUS
  <2> QED
    BY <2>1, <2>2, FS_EmptySet DEF LogInv, Doomed, WillWrite, Workers
<1> QED
  BY <1>1, <1>2, <1>3, <1>4, <1>5 DEF IInv

\* What a step that stays out of the scripts and the log leaves alone.
LEMMA QuietInv ==
  ASSUME IInv, UNCHANGED running, UNCHANGED log
  PROVE  AtInv' /\ LogInv'
  BY DEF IInv, AtInv, LogInv, running, log, Doomed, WillWrite, InSection, Before

\* A thread that is idle turns to a script that starts outside a section.
LEMMA BeginInv ==
  ASSUME IInv, NEW t \in Workers, NEW name \in Scripts \ {"idle"},
         t = "admin" => name = "note", script[t] = "idle",
         Begin(t, name), UNCHANGED log
  PROVE  /\ AtInv' /\ LogInv'
         /\ script' \in [Workers -> Scripts] /\ at' \in [Workers -> 1 .. 6]
         /\ script'[t] = name /\ at'[t] = 1
         /\ \A u \in Workers \ {t} : script'[u] = script[u] /\ at'[u] = at[u]
<1>1. /\ script' \in [Workers -> Scripts] /\ at' \in [Workers -> 1 .. 6]
      /\ script'[t] = name /\ at'[t] = 1
      /\ \A u \in Workers \ {t} : script'[u] = script[u] /\ at'[u] = at[u]
  BY DEF Begin, IInv, TypeOK
<1>2. AtInv'
  BY <1>1 DEF AtInv, IInv, Workers, Scripts
<1>3. ASSUME NEW u \in Workers
      PROVE  /\ Before(u, "write")' <=> Before(u, "write")
             /\ InSection(u)' <=> InSection(u)
  <2>1. CASE u = t
    <3>1. ~Before(t, "write") /\ ~InSection(t)
      BY DEF Before, InSection
    <3>2. ~Before(t, "write")' /\ ~InSection(t)'
      BY <1>1 DEF Before, InSection, Script, Scripts
    <3> QED
      BY <2>1, <3>1, <3>2
  <2>2. CASE u # t
    BY <1>1, <2>2 DEF Before, InSection
  <2> QED
    BY <2>1, <2>2
<1>4. /\ Before("main", "write")' <=> Before("main", "write")
      /\ Before("admin", "write")' <=> Before("admin", "write")
      /\ InSection("main")' <=> InSection("main")
      /\ InSection("admin")' <=> InSection("admin")
  BY <1>3 DEF Workers
<1>5. LogInv'
  <2>1. Doomed' = Doomed
    BY <1>4 DEF Doomed, WillWrite, log
  <2> QED
    BY <1>4, <2>1 DEF IInv, LogInv, log
<1> QED
  BY <1>1, <1>2, <1>5

-----------------------------------------------------------------------------
(* The steps outside the scripts. *)

LEMMA StartUpInv ==
  ASSUME IInv, StartUp
  PROVE  IInv'
<1>0. FinalPort \in Nat /\ FinalPort > 0
  BY FinalPortType DEF IInv, TypeOK
<1>1. CASE ReadPort \/ CheckPort \/ ReadPassword
  <2> USE <1>1
  <2>1. AtInv' /\ LogInv'
    BY QuietInv DEF ReadPort, CheckPort, ReadPassword, Starting
  <2>2. SeatInv'
    BY DEF IInv, SeatInv, Between, ReadPort, CheckPort, ReadPassword, Starting,
       running, counts
  <2>3. TypeOK' /\ SettingsInv'
    <3> USE DEF IInv, TypeOK, SettingsInv, Starting, running, counts, log, admins,
            FinalPort, PortAccepted, Publishing
    <3>1. CASE ReadPort
      BY <1>0, <3>1, PortAssumption, FileAssumption DEF ReadPort
    <3>2. CASE CheckPort
      BY <1>0, <3>2, PortAssumption, FileAssumption DEF CheckPort
    <3>3. CASE ReadPassword
      BY <1>0, <3>3, PortAssumption, FileAssumption DEF ReadPassword
    <3> QED
      BY <1>1, <3>1, <3>2, <3>3
  <2> QED
    BY <2>1, <2>2, <2>3 DEF IInv
<1>2. CASE Listen
  <2>1. /\ UNCHANGED <<startup, counts, log, admins, HasPassword, adminPort>>
        /\ \/ phase' = [phase EXCEPT !.main = "loop"] /\ Begin("main", "note")
           \/ phase' = [phase EXCEPT !.main = "ended"] /\ UNCHANGED running
        /\ script["main"] = "idle" /\ phase.main = "start"
    BY <1>2 DEF Listen, IInv, SettingsInv
  <2>2. /\ AtInv' /\ LogInv'
        /\ script' \in [Workers -> Scripts] /\ at' \in [Workers -> 1 .. 6]
        /\ script'["main"] \in {"idle", "note"}
    <3>1. CASE Begin("main", "note")
      BY <2>1, <3>1, BeginInv DEF Workers, Scripts
    <3>2. CASE UNCHANGED running
      BY <2>1, <3>2, QuietInv DEF IInv, TypeOK, running
    <3> QED
      BY <2>1, <3>1, <3>2
  <2>3. SeatInv'
    BY <2>1, <2>2 DEF IInv, SeatInv, Between, counts
  <2>4. TypeOK' /\ SettingsInv'
    BY <2>1, <2>2 DEF IInv, TypeOK, SettingsInv, startup, counts, log, admins,
       FinalPort, PortAccepted, Publishing
  <2> QED
    BY <2>2, <2>3, <2>4 DEF IInv
<1> QED
  BY <1>1, <1>2 DEF StartUp

LEMMA EventInv ==
  ASSUME IInv, NEW e \in Scripts \ {"note", "idle"}, Event(e)
  PROVE  IInv'
<1>1. /\ UNCHANGED <<startup, phase, seated, TotalClients, failures, log, admins,
                     HasPassword, adminPort>>
      /\ events' \in 0 .. EventBound /\ script["main"] = "idle"
      /\ Possible(e) /\ phase.main = "loop"
  BY BoundAssumption DEF Event, IInv, TypeOK
<1>2. /\ AtInv' /\ LogInv'
      /\ script' \in [Workers -> Scripts] /\ at' \in [Workers -> 1 .. 6]
      /\ script'["main"] = e /\ at'["main"] = 1
  BY <1>1, BeginInv DEF Event, Workers, Scripts
<1>3. SeatInv'
  BY <1>1, <1>2 DEF IInv, SeatInv, Between, Possible
<1>4. TypeOK'
  BY <1>1, <1>2 DEF IInv, TypeOK, startup, log, admins
<1>5. SettingsInv'
  BY <1>1 DEF IInv, SettingsInv, startup, FinalPort, PortAccepted, Publishing
<1> QED
  BY <1>2, <1>3, <1>4, <1>5 DEF IInv

LEMMA AdminThreadInv ==
  ASSUME IInv, AdminThread
  PROVE  IInv'
<1>1. UNCHANGED <<startup, counts, log, HasPassword, arrived, gone, inbox>>
  BY DEF AdminThread, AdminBind, AdminAccept, AdminServe, AdminLeaves, AdminWaits
<1>2. CASE AdminBind \/ AdminServe
  <2>1. UNCHANGED running
    BY <1>2 DEF AdminBind, AdminServe
  <2>2. AtInv' /\ LogInv'
    BY <1>1, <2>1, QuietInv
  <2>3. SeatInv'
    BY <1>1, <2>1 DEF IInv, SeatInv, Between, counts, running
  <2>4. TypeOK' /\ SettingsInv'
    <3> USE <1>1, <2>1 DEF IInv, TypeOK, SettingsInv, startup, running, counts, log,
            FinalPort, PortAccepted, Publishing
    <3>1. CASE AdminBind
      BY <3>1, PortAssumption, FileAssumption DEF AdminBind
    <3>2. CASE AdminServe
      <4>1. requests' \in [Admins -> 0 .. RequestBound]
        BY <3>2, BoundAssumption DEF AdminServe
      <4> QED
        BY <3>2, <4>1 DEF AdminServe
    <3> QED
      BY <1>2, <3>1, <3>2
  <2> QED
    BY <2>2, <2>3, <2>4 DEF IInv
<1>3. CASE AdminAccept \/ AdminLeaves
  <2>1. /\ Begin("admin", "note") /\ script["admin"] = "idle"
        /\ phase'.main = phase.main /\ phase'.list = phase.list
        /\ UNCHANGED adminPort
    BY <1>3 DEF AdminAccept, AdminLeaves, IInv, TypeOK
  <2>2. /\ AtInv' /\ LogInv'
        /\ script' \in [Workers -> Scripts] /\ at' \in [Workers -> 1 .. 6]
        /\ script'["main"] = script["main"] /\ at'["main"] = at["main"]
    BY <1>1, <2>1, BeginInv DEF Workers, Scripts
  <2>3. SeatInv'
    BY <1>1, <2>2 DEF IInv, SeatInv, Between, counts
  <2>4. SettingsInv'
    BY <1>1, <2>1, <2>2 DEF IInv, SettingsInv, startup, FinalPort, PortAccepted,
       Publishing
  <2>5. TypeOK'
    <3> USE <1>1, <2>1, <2>2 DEF IInv, TypeOK, startup, counts, log
    <3>1. CASE AdminAccept
      <4>1. accepted + 1 \in Admins /\ accepted' \in 0 .. arrived
        BY <3>1, BoundAssumption DEF AdminAccept, Admins
      <4>2. adminSocket' \in Admins \cup {NoAdmin, BadSocket}
        BY <3>1, <4>1 DEF AdminAccept
      <4>3. requests' \in [Admins -> 0 .. RequestBound]
        BY <3>1, <4>1, BoundAssumption DEF AdminAccept
      <4> QED
        BY <3>1, <4>1, <4>2, <4>3 DEF AdminAccept
    <3>2. CASE AdminLeaves
      BY <3>2 DEF AdminLeaves
    <3> QED
      BY <1>3, <3>1, <3>2
  <2> QED
    BY <2>2, <2>3, <2>4, <2>5 DEF IInv
<1> QED
  BY <1>2, <1>3 DEF AdminThread

LEMMA ListPasswordInv ==
  ASSUME IInv, ListPassword
  PROVE  IInv'
<1>1. UNCHANGED <<startup, running, counts, log, admins, adminPort>>
  BY DEF ListPassword
<1>2. AtInv' /\ LogInv'
  BY <1>1, QuietInv
<1>3. SeatInv'
  BY <1>1 DEF IInv, SeatInv, Between, counts, running
<1>4. TypeOK'
  BY <1>1 DEF IInv, TypeOK, ListPassword, NeedsPassword, startup, running, counts,
     log, admins
<1>5. SettingsInv'
  BY <1>1, PasswordAssumption DEF IInv, TypeOK, SettingsInv, ListPassword,
     NeedsPassword, startup, running, FinalPort, PortAccepted, Publishing
<1> QED
  BY <1>2, <1>3, <1>4, <1>5 DEF IInv

LEMMA AdminPeersInv ==
  ASSUME IInv, AdminPeers
  PROVE  IInv'
<1>1. UNCHANGED <<startup, phase, running, counts, log, HasPassword, adminPort,
                  adminSocket, accepted>>
  BY DEF AdminPeers, AdminConnect, AdminAsks, AdminReads, AdminCloses, Peer
<1>2. AtInv' /\ LogInv'
  BY <1>1, QuietInv
<1>3. SeatInv'
  BY <1>1 DEF IInv, SeatInv, Between, counts, running
<1>4. TypeOK'
  <2>1. /\ arrived' \in 0 .. AdminBound /\ accepted \in 0 .. arrived'
        /\ gone' \in SUBSET Admins
    BY BoundAssumption DEF AdminPeers, AdminConnect, AdminAsks, AdminReads,
       AdminCloses, IInv, TypeOK
  <2>2. /\ requests' \in [Admins -> 0 .. RequestBound]
        /\ inbox' \in [Admins -> 0 .. SendBound]
    <3> USE BoundAssumption DEF IInv, TypeOK
    <3>1. CASE AdminConnect
      BY <3>1 DEF AdminConnect
    <3>2. ASSUME NEW a \in Admins, AdminAsks(a) \/ AdminReads(a) \/ AdminCloses(a)
          PROVE  /\ requests' \in [Admins -> 0 .. RequestBound]
                 /\ inbox' \in [Admins -> 0 .. SendBound]
      BY <3>2 DEF AdminAsks, AdminReads, AdminCloses
    <3> QED
      BY <3>1, <3>2 DEF AdminPeers
  <2> QED
    BY <1>1, <2>1, <2>2 DEF IInv, TypeOK, startup, running, counts, log
<1>5. SettingsInv'
  BY <1>1 DEF IInv, SettingsInv, startup, running, FinalPort, PortAccepted, Publishing
<1> QED
  BY <1>2, <1>3, <1>4, <1>5 DEF IInv

-----------------------------------------------------------------------------
(* The steps of the scripts. *)

\* What a step of a script leaves alone, and what it makes of the position.
LEMMA StepFacts ==
  ASSUME IInv, NEW t \in Workers, NEW step, Does(t, step)
  PROVE  /\ AtInv' /\ SettingsInv'
         /\ script' \in [Workers -> Scripts] /\ at' \in [Workers -> 1 .. 6]
         /\ UNCHANGED <<startup, phase, HasPassword, adminPort, arrived, accepted,
                        gone, adminSocket, requests, events>>
<1>1. UNCHANGED <<startup, phase, HasPassword, adminPort, arrived, accepted,
                  gone, adminSocket, requests, events>>
  BY DEF Does
<1>2. /\ AtInv'
      /\ script' \in [Workers -> Scripts] /\ at' \in [Workers -> 1 .. 6]
      /\ \A u \in Workers : script[u] = "idle" => script'[u] = "idle"
  BY Moves DEF IInv, TypeOK, Does, Before, Workers
<1>3. SettingsInv'
  BY <1>1, <1>2 DEF IInv, SettingsInv, startup, FinalPort, PortAccepted, Publishing,
     Workers
<1> QED
  BY <1>1, <1>2, <1>3

\* The steps that touch the connections and the count are those of main.
LEMMA SeatStep ==
  ASSUME IInv, NEW t \in Workers,
         Seat(t) \/ Unseat(t) \/ CountIn(t) \/ CountOut(t)
  PROVE  /\ SeatInv' /\ seated' \in 0 .. MAXCLIENTS
         /\ TotalClients' \in Int /\ failures' \in Nat
<1> USE MaxClientsAssumption DEF IInv, TypeOK, SeatInv, Between
<1>1. PICK step \in {"seat", "unseat", "countIn", "countOut"} : Does(t, step)
  BY DEF Seat, Unseat, CountIn, CountOut
<1>2. t = "main"
  BY <1>1, Positions DEF AtInv, Does, Workers
<1>3. /\ \/ script'["main"] = script["main"] /\ at'["main"] = at["main"] + 1
         \/ /\ script'["main"] = "idle" /\ at'["main"] = 1
            /\ at["main"] = Len(Script[script["main"]])
  BY <1>1, <1>2, Moves
<1>4. CASE Seat(t)
  <2>1. script["main"] = "accept" /\ at["main"] = 1
    BY <1>2, <1>4, Positions DEF Seat, Does
  <2> QED
    BY <1>3, <1>4, <2>1, ScriptLengths DEF Seat
<1>5. CASE CountIn(t)
  <2>1. \/ script["main"] = "accept" /\ at["main"] = 2
        \/ script["main"] = "fail" /\ at["main"] = 1
    BY <1>2, <1>5, Positions DEF CountIn, Does
  <2>2. CASE script["main"] = "accept" /\ at["main"] = 2
    <3>1. script'["main"] = "accept" /\ at'["main"] = 3
      BY <1>3, <2>2, ScriptLengths
    <3> QED
      BY <1>2, <1>5, <2>2, <3>1 DEF CountIn
  <2>3. CASE script["main"] = "fail" /\ at["main"] = 1
    BY <1>3, <1>5, <1>2, <2>3, ScriptLengths DEF CountIn
  <2> QED
    BY <2>1, <2>2, <2>3
<1>6. CASE CountOut(t)
  <2>1. script["main"] \in {"leave", "reject", "foreign"} /\ at["main"] = 1
    BY <1>2, <1>6, Positions DEF CountOut, Does
  <2> QED
    BY <1>3, <1>6, <2>1, ScriptLengths DEF CountOut
<1>7. CASE Unseat(t)
  <2>1. /\ script["main"] \in {"leave", "reject", "foreign"}
        /\ at["main"] = Len(Script[script["main"]]) /\ at["main"] > 1
    <3>1. Before("main", "unseat")
      BY <1>2, <1>7 DEF Unseat, Does
    <3>2. \/ script["main"] = "leave" /\ at["main"] = 6
          \/ script["main"] = "reject" /\ at["main"] = 5
          \/ script["main"] = "foreign" /\ at["main"] = 4
      BY <1>2, <3>1, Positions
    <3>3. CASE script["main"] = "leave"
      BY <3>2, <3>3, ScriptLengths
    <3>4. CASE script["main"] = "reject"
      BY <3>2, <3>4, ScriptLengths
    <3>5. CASE script["main"] = "foreign"
      BY <3>2, <3>5, ScriptLengths
    <3> QED
      BY <3>2, <3>3, <3>4, <3>5
  <2>2. script'["main"] = "idle" /\ at'["main"] = 1
    BY <1>2, <1>7, <2>1 DEF Unseat, Does, Begin
  <2> QED
    BY <1>7, <2>1, <2>2 DEF Unseat
<1> QED
  BY <1>4, <1>5, <1>6, <1>7

\* The other steps keep main on its side of the count.
LEMMA OtherStep ==
  ASSUME IInv, NEW t \in Workers,
         NEW step \in {"tell", "open", "write", "append", "close"}, Does(t, step),
         UNCHANGED <<seated, TotalClients, failures>>
  PROVE  SeatInv'
<1>1. CASE t = "admin"
  <2>1. script'["main"] = script["main"] /\ at'["main"] = at["main"]
    BY <1>1, Moves DEF IInv, TypeOK, Workers
  <2> QED
    BY <2>1 DEF IInv, SeatInv, Between
<1>2. CASE t = "main"
  <2>1. \/ script'["main"] = script["main"] /\ at'["main"] = at["main"] + 1
        \/ /\ script'["main"] = "idle" /\ at'["main"] = 1
           /\ at["main"] = Len(Script[script["main"]])
    BY <1>2, Moves DEF IInv, TypeOK
  <2>2. Before("main", step)
    BY <1>2 DEF Does
  <2>3. \/ script["main"] \in {"talk", "note"}
        \/ script["main"] = "accept" /\ at["main"] >= 3
        \/ script["main"] = "fail" /\ at["main"] >= 2
        \/ script["main"] = "leave" /\ at["main"] \in 2 .. 5
        \/ script["main"] = "reject" /\ at["main"] \in 2 .. 4
        \/ script["main"] = "foreign" /\ at["main"] \in 2 .. 3
    BY <1>2, <2>2, Positions DEF IInv, AtInv, Workers
  <2> QED
    <3> USE DEF IInv, SeatInv, Between
    <3>1. CASE script["main"] \in {"talk", "note"}
      BY <2>1, <3>1
    <3>2. CASE script["main"] = "accept" /\ at["main"] >= 3
      BY <2>1, <3>2 DEF TypeOK, Workers
    <3>3. CASE script["main"] = "leave" /\ at["main"] \in 2 .. 5
      BY <2>1, <3>3, ScriptLengths
    <3>4. CASE script["main"] = "reject" /\ at["main"] \in 2 .. 4
      BY <2>1, <3>4, ScriptLengths
    <3>5. CASE script["main"] = "foreign" /\ at["main"] \in 2 .. 3
      BY <2>1, <3>5, ScriptLengths
    <3>6. CASE script["main"] = "fail" /\ at["main"] >= 2
      BY <2>1, <3>6 DEF TypeOK, Workers
    <3> QED
      BY <2>3, <3>1, <3>2, <3>3, <3>4, <3>5, <3>6
<1> QED
  BY <1>1, <1>2 DEF Workers

\* The other thread stands before the same step after a step of thread t.
LEMMA OtherStands ==
  ASSUME IInv, NEW t \in Workers, NEW step, Does(t, step), NEW u \in Workers, u # t
  PROVE  /\ Before(u, "write")' <=> Before(u, "write")
         /\ InSection(u)' <=> InSection(u)
<1>1. script'[u] = script[u] /\ at'[u] = at[u]
  BY Moves DEF IInv, TypeOK
<1> QED
  BY <1>1 DEF Before, InSection

\* A section is open, write, close: where thread t stands after its step.
LEMMA SectionMoves ==
  ASSUME IInv, NEW t \in Workers, NEW step, Does(t, step)
  PROVE  /\ step = "open" => Before(t, "write")' /\ InSection(t)' /\ ~InSection(t)
         /\ step = "write" => /\ ~Before(t, "write")' /\ InSection(t)'
                              /\ Before(t, "write") /\ InSection(t)
         /\ step = "close" => /\ ~Before(t, "write")' /\ ~InSection(t)'
                              /\ ~Before(t, "write") /\ InSection(t)
         /\ step \in {"seat", "unseat", "countIn", "countOut", "tell", "append"} =>
                /\ ~Before(t, "write")' /\ ~InSection(t)'
                /\ ~Before(t, "write") /\ ~InSection(t)
<1>1. \/ /\ script'[t] = script[t] /\ at'[t] = at[t] + 1
         /\ at[t] # Len(Script[script[t]])
      \/ /\ script'[t] = "idle" /\ at'[t] = 1
         /\ at[t] = Len(Script[script[t]])
  BY Moves DEF IInv, TypeOK
<1>2. Before(t, step)
  BY DEF Does
<1>3. ASSUME step \in {"open", "write"}
      PROVE  script'[t] = script[t] /\ at'[t] = at[t] + 1
  <2>1. at[t] # Len(Script[script[t]])
    <3>1. CASE script[t] = "accept"
      BY <1>2, <1>3, <3>1, Positions, ScriptLengths DEF IInv
    <3>2. CASE script[t] = "leave"
      BY <1>2, <1>3, <3>2, Positions, ScriptLengths DEF IInv
    <3>3. CASE script[t] = "note"
      BY <1>2, <1>3, <3>3, Positions, ScriptLengths DEF IInv
    <3>4. CASE script[t] = "fail"
      BY <1>2, <1>3, <3>4, Positions, ScriptLengths DEF IInv
    <3> QED
      BY <1>2, <1>3, <3>1, <3>2, <3>3, <3>4, Positions DEF IInv
  <2> QED
    BY <1>1, <2>1
<1>4. CASE step = "open"
  <2>1. \/ script[t] = "accept" /\ at[t] = 4
        \/ script[t] = "leave" /\ at[t] = 3
        \/ script[t] = "fail" /\ at[t] = 3
        \/ script[t] = "note" /\ at[t] = 1
    BY <1>2, <1>4, Positions DEF IInv
  <2> QED
    BY <1>3, <1>4, <2>1 DEF Before, InSection, Script
<1>5. CASE step = "write"
  <2>1. \/ script[t] = "accept" /\ at[t] = 5
        \/ script[t] = "leave" /\ at[t] = 4
        \/ script[t] = "fail" /\ at[t] = 4
        \/ script[t] = "note" /\ at[t] = 2
    BY <1>2, <1>5, Positions DEF IInv
  <2> QED
    BY <1>3, <1>5, <2>1 DEF Before, InSection, Script
<1>6. CASE step = "close"
  <2>1. \/ script[t] = "accept" /\ at[t] = 6
        \/ script[t] = "leave" /\ at[t] = 5
        \/ script[t] = "fail" /\ at[t] = 5
        \/ script[t] = "note" /\ at[t] = 3
    BY <1>2, <1>6, Positions DEF IInv
  <2>2. \/ script'[t] = "idle"
        \/ script'[t] = "leave" /\ at'[t] = 6
    <3>1. CASE script[t] = "accept"
      BY <1>1, <2>1, <3>1, ScriptLengths
    <3>2. CASE script[t] = "leave"
      BY <1>1, <2>1, <3>2
    <3>3. CASE script[t] = "note"
      BY <1>1, <2>1, <3>3, ScriptLengths
    <3>4. CASE script[t] = "fail"
      BY <1>1, <2>1, <3>4, ScriptLengths
    <3> QED
      BY <2>1, <3>1, <3>2, <3>3, <3>4
  <2> QED
    BY <1>6, <2>1, <2>2 DEF Before, InSection, Script
<1>7. CASE step \in {"seat", "unseat", "countIn", "countOut", "tell", "append"}
  <2>1. \/ script[t] = "accept" /\ at[t] \in 1 .. 3
        \/ script[t] = "fail" /\ at[t] \in 1 .. 2
        \/ script[t] = "leave" /\ at[t] \in {1, 2, 6}
        \/ script[t] = "reject" /\ at[t] \in 1 .. 5
        \/ script[t] = "foreign" /\ at[t] \in 1 .. 4
        \/ script[t] = "talk" /\ at[t] = 1
    BY <1>2, <1>7, Positions DEF IInv, AtInv
  <2>2. ~Before(t, "write") /\ ~InSection(t)
    BY <2>1 DEF Before, InSection, Script
  <2>3. ~Before(t, "write")' /\ ~InSection(t)'
    <3> USE DEF Before, InSection
    <3>1. CASE script'[t] = "idle"
      BY <3>1
    <3>2. CASE script'[t] # "idle"
      <4>1. script'[t] = script[t] /\ at'[t] = at[t] + 1
        BY <1>1, <3>2
      <4>2. \/ script[t] = "accept" /\ at[t] \in 1 .. 3
            \/ script[t] = "fail" /\ at[t] \in 1 .. 2
            \/ script[t] = "leave" /\ at[t] \in 1 .. 2
            \/ script[t] = "reject" /\ at[t] \in 1 .. 4
            \/ script[t] = "foreign" /\ at[t] \in 1 .. 3
        <5>1. at[t] # Len(Script[script[t]])
          BY <1>1, <3>2
        <5>2. CASE script[t] = "leave"
          BY <2>1, <5>1, <5>2, ScriptLengths
        <5>3. CASE script[t] = "reject"
          BY <2>1, <5>1, <5>3, ScriptLengths
        <5>4. CASE script[t] = "foreign"
          BY <2>1, <5>1, <5>4, ScriptLengths
        <5>5. CASE script[t] = "talk"
          BY <2>1, <5>1, <5>5, ScriptLengths
        <5> QED
          BY <2>1, <5>2, <5>3, <5>4, <5>5
      <4> QED
        BY <4>1, <4>2 DEF Script
    <3> QED
      BY <3>1, <3>2
  <2> QED
    BY <1>7, <2>2, <2>3
<1> QED
  BY <1>4, <1>5, <1>6, <1>7

\* The two threads by name: t and the other one.
LEMMA TwoThreads ==
  ASSUME NEW t \in Workers
  PROVE  /\ Other(t) \in Workers \ {t}
         /\ {t, Other(t)} = {"main", "admin"}
  BY DEF Workers, Other

\* Doomed, seen from thread t.
LEMMA DoomedBy ==
  ASSUME NEW t \in Workers
  PROVE  Doomed = IF easylog \notin streams THEN WillWrite(t) + WillWrite(Other(t))
                  ELSE IF /\ InSection(t) /\ InSection(Other(t))
                          /\ Before(t, "write") \/ Before(Other(t), "write")
                       THEN 1 ELSE 0
<1>1. CASE t = "main"
  BY <1>1 DEF Doomed, Other, WillWrite
<1>2. CASE t = "admin"
  BY <1>2 DEF Doomed, Other, WillWrite
<1> QED
  BY <1>1, <1>2 DEF Workers

LEMMA DoomedByNext ==
  ASSUME NEW t \in Workers
  PROVE  Doomed' = IF easylog' \notin streams' THEN WillWrite(t)' + WillWrite(Other(t))'
                   ELSE IF /\ InSection(t)' /\ InSection(Other(t))'
                           /\ Before(t, "write")' \/ Before(Other(t), "write")'
                        THEN 1 ELSE 0
<1>1. CASE t = "main"
  BY <1>1 DEF Doomed, Other, WillWrite
<1>2. CASE t = "admin"
  BY <1>2 DEF Doomed, Other, WillWrite
<1> QED
  BY <1>1, <1>2 DEF Workers

LEMMA OpenLog ==
  ASSUME IInv, NEW t \in Workers, Open(t)
  PROVE  LogInv' /\ streams' \in SUBSET Nat /\ IsFiniteSet(streams') /\ easylog' \in Nat
<1>1. PICK f \in 0 .. Cardinality(streams) :
         f \notin streams /\ easylog' = f /\ streams' = streams \cup {f}
  BY DEF Open
<1>2. /\ IsFiniteSet(streams) /\ Cardinality(streams) \in Nat
      /\ streams \in SUBSET Nat /\ overlaps \in Nat /\ lost \in Nat
  BY FS_CardinalityType DEF IInv, TypeOK
<1>3. IsFiniteSet(streams') /\ streams' \in SUBSET Nat /\ easylog' \in Nat
  BY <1>1, <1>2, FS_AddElement
<1>4. /\ Before(t, "write")' /\ InSection(t)' /\ ~InSection(t)
      /\ Before(Other(t), "write")' <=> Before(Other(t), "write")
      /\ InSection(Other(t))' <=> InSection(Other(t))
  BY SectionMoves, OtherStands, TwoThreads DEF Open
<1>5. streams' \ {easylog'} = streams
  BY <1>1
<1>6. /\ Cardinality(streams) <= overlaps + 1
      /\ ~InSection(Other(t)) => Cardinality(streams) <= overlaps
  <2>1. /\ Cardinality(streams \ {easylog}) <= overlaps
        /\ ~InSection(t) /\ ~InSection(Other(t)) => easylog \notin streams
    BY TwoThreads DEF IInv, LogInv, Workers, Other
  <2>2. CASE easylog \in streams
    <3>1. Cardinality(streams \ {easylog}) = Cardinality(streams) - 1
      BY <1>2, <2>2, FS_RemoveElement
    <3> QED
      BY <1>2, <1>4, <2>1, <2>2, <3>1
  <2>3. CASE easylog \notin streams
    <3>1. streams \ {easylog} = streams
      BY <2>3
    <3> QED
      BY <1>2, <2>1, <3>1
  <2> QED
    BY <2>2, <2>3
<1>7. lost' + Doomed' <= overlaps'
  <2>1. lost + Doomed <= overlaps /\ Doomed >= 0 /\ Doomed \in Nat
    BY DEF IInv, LogInv, Doomed, WillWrite
  <2>2. lost' = lost
    BY DEF Open
  <2>3. CASE InSection(Other(t))
    <3>1. overlaps' = overlaps + 1
      BY <2>3 DEF Open
    <3>2. Doomed' = 1
      BY <1>1, <1>4, <2>3, DoomedByNext
    <3> QED
      BY <1>2, <2>1, <2>2, <3>1, <3>2
  <2>4. CASE ~InSection(Other(t))
    <3>1. overlaps' = overlaps
      BY <2>4 DEF Open
    <3>2. Doomed' = 0
      BY <1>1, <1>4, <2>4, DoomedByNext
    <3> QED
      BY <1>2, <2>1, <2>2, <3>1, <3>2
  <2> QED
    BY <2>3, <2>4
<1>8. Cardinality(streams' \ {easylog'}) <= overlaps'
  BY <1>2, <1>5, <1>6 DEF Open
<1>9. InSection("main")' \/ InSection("admin")'
  BY <1>4 DEF Workers
<1> QED
  BY <1>3, <1>7, <1>8, <1>9 DEF LogInv

LEMMA WriteLog ==
  ASSUME IInv, NEW t \in Workers, Write(t)
  PROVE  LogInv' /\ lost' \in Nat
<1>1. /\ UNCHANGED <<easylog, streams, overlaps>> /\ lost \in Nat /\ overlaps \in Nat
      /\ lost' = IF easylog \in streams THEN lost ELSE lost + 1
  BY DEF Write, IInv, TypeOK
<1>2. /\ ~Before(t, "write")' /\ InSection(t)' /\ Before(t, "write") /\ InSection(t)
      /\ Before(Other(t), "write")' <=> Before(Other(t), "write")
      /\ InSection(Other(t))' <=> InSection(Other(t))
  BY SectionMoves, OtherStands, TwoThreads DEF Write
<1>3. lost' + Doomed' <= overlaps
  <2>1. lost + Doomed <= overlaps
    BY DEF IInv, LogInv
  <2>2. WillWrite(Other(t))' = WillWrite(Other(t)) /\ WillWrite(Other(t)) \in {0, 1}
    BY <1>2 DEF WillWrite
  <2>3. WillWrite(t)' = 0 /\ WillWrite(t) = 1
    BY <1>2 DEF WillWrite
  <2>4. CASE easylog \in streams
    <3>1. Before(Other(t), "write") => InSection(Other(t))
      BY DEF InSection
    <3>2. Doomed' <= Doomed /\ Doomed \in {0, 1} /\ Doomed' \in {0, 1}
      BY <1>1, <1>2, <2>4, <3>1, DoomedBy, DoomedByNext
    <3>3. lost' = lost
      BY <1>1, <2>4
    <3>4. CASE Doomed' = 0
      BY <1>1, <2>1, <3>2, <3>3, <3>4
    <3>5. CASE Doomed' = 1
      <4>1. Doomed = 1
        BY <3>2, <3>5
      <4> QED
        BY <1>1, <2>1, <3>3, <3>5, <4>1
    <3> QED
      BY <3>2, <3>4, <3>5
  <2>5. CASE easylog \notin streams
    <3>1. Doomed = 1 + WillWrite(Other(t)) /\ Doomed' = WillWrite(Other(t))
      BY <1>1, <2>2, <2>3, <2>5, DoomedBy, DoomedByNext
    <3> QED
      BY <1>1, <2>1, <2>2, <2>5, <3>1
  <2> QED
    BY <2>4, <2>5
<1>4. InSection("main")' \/ InSection("admin")'
  BY <1>2 DEF Workers
<1> QED
  BY <1>1, <1>3, <1>4 DEF LogInv, IInv

LEMMA CloseLog ==
  ASSUME IInv, NEW t \in Workers, Close(t)
  PROVE  LogInv' /\ streams' \in SUBSET Nat /\ IsFiniteSet(streams')
<1>1. /\ streams' = streams \ {easylog} /\ UNCHANGED <<easylog, overlaps, lost>>
      /\ IsFiniteSet(streams) /\ streams \in SUBSET Nat
      /\ lost \in Nat /\ overlaps \in Nat
  BY DEF Close, IInv, TypeOK
<1>2. /\ ~Before(t, "write")' /\ ~InSection(t)' /\ ~Before(t, "write") /\ InSection(t)
      /\ Before(Other(t), "write")' <=> Before(Other(t), "write")
      /\ InSection(Other(t))' <=> InSection(Other(t))
  BY SectionMoves, OtherStands, TwoThreads DEF Close
<1>3. Doomed' <= Doomed /\ Doomed' \in {0, 1} /\ Doomed \in {0, 1}
  <2>1. WillWrite(Other(t))' = WillWrite(Other(t)) /\ WillWrite(Other(t)) \in {0, 1}
    BY <1>2 DEF WillWrite
  <2>2. WillWrite(t)' = 0 /\ WillWrite(t) = 0
    BY <1>2 DEF WillWrite
  <2>3. Doomed' = WillWrite(Other(t))
    BY <1>1, <2>1, <2>2, DoomedByNext
  <2>4. Before(Other(t), "write") => InSection(Other(t))
    BY DEF InSection
  <2>5. Doomed = WillWrite(Other(t))
    BY <1>2, <2>1, <2>2, <2>4, DoomedBy DEF WillWrite
  <2> QED
    BY <2>1, <2>3, <2>5
<1>4. lost' + Doomed' <= overlaps'
  <2>1. lost + Doomed <= overlaps
    BY DEF IInv, LogInv
  <2>2. lost' = lost /\ overlaps' = overlaps
    BY <1>1
  <2>3. CASE Doomed' = 0
    BY <1>1, <1>3, <2>1, <2>2, <2>3
  <2>4. CASE Doomed' = 1
    <3>1. Doomed = 1
      BY <1>3, <2>4
    <3> QED
      BY <1>1, <2>1, <2>2, <2>4, <3>1
  <2> QED
    BY <1>3, <2>3, <2>4
<1>5. streams' \ {easylog'} = streams \ {easylog} /\ easylog' \notin streams'
  BY <1>1
<1>6. IsFiniteSet(streams')
  BY <1>1, FS_RemoveElement
<1> QED
  BY <1>1, <1>4, <1>5, <1>6 DEF LogInv, IInv

\* A step outside the log leaves what will be lost as it was.
LEMMA OffLog ==
  ASSUME IInv, NEW t \in Workers,
         NEW step \in {"seat", "unseat", "countIn", "countOut", "tell", "append"},
         Does(t, step), UNCHANGED log
  PROVE  LogInv'
<1>1. /\ Before(t, "write")' <=> Before(t, "write")
      /\ InSection(t)' <=> InSection(t)
      /\ Before(Other(t), "write")' <=> Before(Other(t), "write")
      /\ InSection(Other(t))' <=> InSection(Other(t))
  BY SectionMoves, OtherStands, TwoThreads
<1>2. UNCHANGED <<easylog, streams, overlaps, lost>>
  BY DEF log
<1>3. Doomed' = Doomed
  BY <1>1, <1>2, DoomedBy, DoomedByNext DEF WillWrite
<1>4. /\ InSection("main")' <=> InSection("main")
      /\ InSection("admin")' <=> InSection("admin")
  BY <1>1 DEF Workers, Other
<1> QED
  BY <1>2, <1>3, <1>4 DEF IInv, LogInv

LEMMA StepInv ==
  ASSUME IInv, NEW t \in Workers, Step(t)
  PROVE  IInv'
<1>1. CASE Seat(t) \/ Unseat(t) \/ CountIn(t) \/ CountOut(t)
  <2>1. PICK step \in {"seat", "unseat", "countIn", "countOut"} : Does(t, step)
    BY <1>1 DEF Seat, Unseat, CountIn, CountOut
  <2>2. UNCHANGED log /\ UNCHANGED inbox
    BY <1>1 DEF Seat, Unseat, CountIn, CountOut
  <2>3. LogInv'
    BY <2>1, <2>2, OffLog
  <2>4. /\ SeatInv' /\ seated' \in 0 .. MAXCLIENTS
        /\ TotalClients' \in Int /\ failures' \in Nat
    BY <1>1, SeatStep
  <2>5. TypeOK'
    BY <2>1, <2>2, <2>4, StepFacts DEF IInv, TypeOK, startup, log
  <2> QED
    BY <2>1, <2>3, <2>4, <2>5, StepFacts DEF IInv
<1>2. CASE Tell(t) \/ AppendLine(t)
  <2>1. PICK step \in {"tell", "append"} : Does(t, step)
    BY <1>2 DEF Tell, AppendLine
  <2>2. UNCHANGED log /\ UNCHANGED <<seated, TotalClients, failures>>
    BY <1>2 DEF Tell, AppendLine
  <2>3. LogInv'
    BY <2>1, <2>2, OffLog
  <2>4. SeatInv'
    BY <2>1, <2>2, OtherStep
  <2>5. inbox' \in [Admins -> 0 .. SendBound]
    BY <1>2, BoundAssumption DEF Tell, AppendLine, Reaches, IInv, TypeOK
  <2>6. TypeOK'
    BY <2>1, <2>2, <2>5, StepFacts DEF IInv, TypeOK, startup, log
  <2> QED
    BY <2>1, <2>3, <2>4, <2>6, StepFacts DEF IInv
<1>3. CASE Open(t) \/ Write(t) \/ Close(t)
  <2>1. PICK step \in {"open", "write", "close"} : Does(t, step)
    BY <1>3 DEF Open, Write, Close
  <2>2. UNCHANGED <<seated, TotalClients, failures>> /\ UNCHANGED inbox
    BY <1>3 DEF Open, Write, Close
  <2>3. SeatInv'
    BY <2>1, <2>2, OtherStep
  <2>4. /\ LogInv' /\ streams' \in SUBSET Nat /\ IsFiniteSet(streams')
        /\ easylog' \in Nat /\ overlaps' \in Nat /\ lost' \in Nat
    <3>1. CASE Open(t)
      BY <3>1, OpenLog DEF Open, IInv, TypeOK
    <3>2. CASE Write(t)
      BY <3>2, WriteLog DEF Write, IInv, TypeOK
    <3>3. CASE Close(t)
      BY <3>3, CloseLog DEF Close, IInv, TypeOK
    <3> QED
      BY <1>3, <3>1, <3>2, <3>3
  <2>5. TypeOK'
    BY <2>1, <2>2, <2>4, StepFacts DEF IInv, TypeOK, startup
  <2> QED
    BY <2>1, <2>3, <2>4, <2>5, StepFacts DEF IInv
<1> QED
  BY <1>1, <1>2, <1>3 DEF Step

LEMMA NextInv == IInv /\ [Next]_vars => IInv'
<1> SUFFICES ASSUME IInv, [Next]_vars PROVE IInv'
  OBVIOUS
<1>1. CASE UNCHANGED vars
  <2>1. AtInv' /\ LogInv'
    BY <1>1, QuietInv DEF vars, running, log
  <2>2. SeatInv' /\ SettingsInv'
    BY <1>1 DEF vars, IInv, SeatInv, Between, SettingsInv, FinalPort, PortAccepted,
       Publishing
  <2>3. TypeOK'
    BY <1>1 DEF vars, IInv, TypeOK
  <2> QED
    BY <2>1, <2>2, <2>3 DEF IInv
<1>2. CASE MainLoop
  BY <1>2, EventInv DEF MainLoop
<1> QED
  BY <1>1, <1>2, StartUpInv, AdminThreadInv, ListPasswordInv, AdminPeersInv, StepInv
     DEF Next, Workers

LEMMA Invariance == Spec => []IInv
  BY InitInv, NextInv, PTL DEF Spec

-----------------------------------------------------------------------------
(* The theorems. *)

\* The state keeps its shape: the slots taken stay between 0 and MAXCLIENTS,
\* the table of streams stays finite, the admin thread never gets ahead of the
\* connections made (ConsoleServer.cpp:26-38).
THEOREM TypeCorrect == Spec => []TypeOK
<1>1. IInv => TypeOK
  BY DEF IInv
<1> QED
  BY <1>1, Invariance, PTL

\* With a port the server accepts, the admin thread is below the server's port
\* and the list is sent the server's (ConsoleServer.cpp:115-117,458,473).
THEOREM PortsAgreeAlways == Spec => []PortsAgree
<1>1. IInv => PortsAgree
  <2> SUFFICES ASSUME IInv, PortAccepted
               PROVE  /\ adminPort # -1 => adminPort = FinalPort - 1
                      /\ Publishing => serverPort = FinalPort
    BY DEF PortsAgree, Request
  <2>1. Publishing => serverPort # 0 /\ settings # NoFile
    BY DEF IInv, TypeOK, SettingsInv, Publishing
  <2>2. phase.main = "checkPort" /\ serverPort # 0 => serverPort = FinalPort
    BY PortAssumption, FileAssumption DEF IInv, TypeOK, SettingsInv, PortAccepted, FinalPort
  <2> QED
    BY <2>1, <2>2 DEF IInv, TypeOK, SettingsInv
<1> QED
  BY <1>1, Invariance, PTL

\* A server with a password is never listed as one without
\* (ConsoleServer.cpp:126,419).
THEOREM NeverListedOpenAlways == Spec => []NeverListedOpen
<1>1. IInv => NeverListedOpen
  BY DEF IInv, SettingsInv, NeverListedOpen, Request, Publishing
<1> QED
  BY <1>1, Invariance, PTL

\* The count the list is sent is never above the slots taken, and at most one
\* below (ConsoleServer.cpp:239-241,292,318-319).
THEOREM CountBehindSeatsAlways == Spec => []CountBehindSeats
<1>1. IInv => CountBehindSeats
  BY DEF IInv, TypeOK, SeatInv, CountBehindSeats, Request
<1> QED
  BY <1>1, Invariance, PTL

\* What the unprotected log costs is bounded by the sections that overlapped,
\* for any number of events and admins (ConsoleServer.cpp:251-254,503-505).
THEOREM OverlapCostAlways == Spec => []OverlapCost
<1>1. IInv => OverlapCost
  <2> SUFFICES ASSUME IInv PROVE OverlapCost
    OBVIOUS
  <2> DEFINE Inside == {t \in Workers : InSection(t)}
  <2>1. /\ lost \in Nat /\ overlaps \in Nat /\ IsFiniteSet(streams)
        /\ Cardinality(streams) \in Nat
        /\ Cardinality(streams \ {easylog}) <= overlaps
    BY FS_CardinalityType DEF IInv, TypeOK, LogInv
  <2>2. lost <= overlaps
    <3>1. lost + Doomed <= overlaps
      BY DEF IInv, LogInv
    <3>2. Doomed \in {0, 1, 2}
      BY DEF Doomed, WillWrite
    <3>3. CASE Doomed = 0
      BY <2>1, <3>1, <3>3
    <3>4. CASE Doomed = 1
      BY <2>1, <3>1, <3>4
    <3>5. CASE Doomed = 2
      BY <2>1, <3>1, <3>5
    <3> QED
      BY <3>2, <3>3, <3>4, <3>5
  <2>3. IsFiniteSet(Inside) /\ Cardinality(Inside) \in Nat
    <3>1. IsFiniteSet(Workers)
      <4>1. IsFiniteSet({"main"})
        BY FS_Singleton
      <4>2. IsFiniteSet({"main"} \cup {"admin"})
        BY <4>1, FS_AddElement
      <4>3. Workers = {"main"} \cup {"admin"}
        BY DEF Workers
      <4> QED
        BY <4>2, <4>3
    <3> QED
      BY <3>1, FS_Subset, FS_CardinalityType
  <2>4. Cardinality(streams) <= overlaps + Cardinality(Inside)
    <3>1. CASE Inside = {}
      <4>1. easylog \notin streams
        BY <3>1 DEF IInv, LogInv, Workers
      <4>2. streams \ {easylog} = streams
        BY <4>1
      <4> QED
        BY <2>1, <2>3, <4>2
    <3>2. CASE Inside # {}
      <4>1. Cardinality(Inside) >= 1
        BY <2>3, <3>2, FS_EmptySet
      <4>2. Cardinality(streams) <= Cardinality(streams \ {easylog}) + 1
        BY <2>1, FS_RemoveElement
      <4>3. Cardinality(streams \ {easylog}) \in Nat
        BY <2>1, FS_RemoveElement, FS_CardinalityType
      <4> HIDE DEF Inside
      <4> QED
        BY <2>1, <2>3, <4>1, <4>2, <4>3
    <3> QED
      BY <3>1, <3>2
  <2> QED
    BY <2>2, <2>4 DEF OverlapCost
<1> QED
  BY <1>1, Invariance, PTL
-----------------------------------------------------------------------------
(* What main can rely on while it sends to an admin.  MainComesBack speaks of  *)
(* fairness and is TLC's; these are the facts it rests on.                     *)

\* While the admin thread waits in accept, adminSocket is nobody's, or that of an
\* admin that has gone.
NobodyServed == phase.admin # "serve" => ~Reaches

LEMMA InitNobody == Init => NobodyServed
  BY DEF Init, NobodyServed, Reaches, Admins, NoAdmin

LEMMA StepNobody ==
  ASSUME IInv, NobodyServed, [Next]_vars
  PROVE  NobodyServed'
<1>1. CASE AdminThread
  <2>1. CASE AdminAccept \/ AdminServe
    BY <2>1 DEF AdminAccept, AdminServe, NobodyServed, IInv, TypeOK
  <2>2. CASE AdminBind
    BY <2>2 DEF AdminBind, AdminWaits, admins, NobodyServed, Reaches, IInv, TypeOK
  <2>3. CASE AdminLeaves
    BY <2>3 DEF AdminLeaves, AdminWaits, HangsUp, NobodyServed, Reaches, Admins, BadSocket
  <2> QED
    BY <1>1, <2>1, <2>2, <2>3 DEF AdminThread
<1>2. CASE ~AdminThread
  <2>1. /\ adminSocket' = adminSocket /\ gone \subseteq gone'
        /\ phase'.admin = phase.admin
    <3>1. CASE StartUp \/ MainLoop \/ ListPassword
      BY <3>1 DEF StartUp, ReadPort, CheckPort, ReadPassword, Listen, Starting, MainLoop,
         Event, ListPassword, admins, IInv, TypeOK
    <3>2. ASSUME NEW t \in Workers, Step(t)
          PROVE  UNCHANGED <<adminSocket, gone, phase>>
      BY <3>2 DEF Step, Seat, Unseat, CountIn, CountOut, Tell, Open, Write, AppendLine,
         Close, Does
    <3>3. CASE AdminPeers \/ UNCHANGED vars
      BY <3>3 DEF AdminPeers, AdminConnect, AdminAsks, AdminReads, AdminCloses, Peer, vars
    <3> QED
      BY <1>2, <3>1, <3>2, <3>3 DEF Next, Workers
  <2> QED
    BY <2>1 DEF NobodyServed, Reaches
<1> QED
  BY <1>1, <1>2

\* Of any number of admins, none has its connection replaced by the next one's
\* while it is there (ConsoleServer.cpp:488-528,584-593).
THEOREM NeverTakenOverAlways == Spec => NeverTakenOver
<1>1. IInv /\ NobodyServed /\ [Next]_vars => [adminSocket' # adminSocket => ~Reaches]_vars
  <2> SUFFICES ASSUME IInv, NobodyServed, Next, adminSocket' # adminSocket
               PROVE  ~Reaches
    OBVIOUS
  <2>1. ASSUME NEW t \in Workers, Step(t)
        PROVE  FALSE
    BY <2>1 DEF Step, Seat, Unseat, CountIn, CountOut, Tell, Open, Write, AppendLine,
       Close, Does
  <2>2. AdminAccept
    BY <2>1 DEF Next, Workers, StartUp, ReadPort, CheckPort, ReadPassword, Listen, Starting,
       MainLoop, Event, ListPassword, AdminThread, AdminBind, AdminServe, AdminLeaves,
       AdminPeers, AdminConnect, AdminAsks, AdminReads, AdminCloses, Peer, admins
  <2> QED
    BY <2>2 DEF AdminAccept, NobodyServed
<1> QED
  BY <1>1, InitInv, NextInv, InitNobody, StepNobody, PTL DEF Spec, NeverTakenOver

\* The steps a thread has still to do in its script.
Left(t) == Len(Script[script[t]]) + 1 - at[t]

\* A thread in a script either is not the one that moves, or has one step less to
\* do: nobody gives it more to do before it is done.
ScriptsShrink ==
    [][\A t \in Workers : script[t] # "idle" =>
           \/ script'[t] = script[t] /\ at'[t] = at[t]
           \/ Left(t) \in 1 .. 6 /\ Left(t)' = Left(t) - 1]_vars

LEMMA LeftType ==
  ASSUME IInv, NEW t \in Workers, script[t] # "idle"
  PROVE  at[t] \in Nat /\ Len(Script[script[t]]) \in Nat /\ Left(t) \in 1 .. 6
<1>1. /\ script[t] = "talk" => at[t] = 1
      /\ script[t] = "note" => at[t] \in 1 .. 3
      /\ script[t] = "foreign" => at[t] \in 1 .. 4
      /\ script[t] \in {"reject", "fail"} => at[t] \in 1 .. 5
      /\ script[t] \in {"accept", "leave"} => at[t] \in 1 .. 6
      /\ script[t] \in {"talk", "note", "foreign", "reject", "fail", "accept", "leave"}
  BY DEF IInv, AtInv
<1>2. \E n \in 1 .. 6 : Len(Script[script[t]]) = n /\ at[t] \in 1 .. n
  BY <1>1, ScriptLengths
<1> QED
  BY <1>2 DEF Left

LEMMA ShrinkStep ==
  ASSUME IInv, Next, NEW t \in Workers, script[t] # "idle"
  PROVE  \/ script'[t] = script[t] /\ at'[t] = at[t]
         \/ Left(t) \in 1 .. 6 /\ Left(t)' = Left(t) - 1
<1>1. CASE StartUp \/ MainLoop
  <2>1. \/ UNCHANGED running
        \/ script["main"] = "idle" /\ \E e \in Scripts : Begin("main", e)
    <3>1. CASE ReadPort \/ CheckPort \/ ReadPassword
      BY <3>1 DEF ReadPort, CheckPort, ReadPassword, Starting
    <3>2. CASE Listen
      <4>1. script["main"] = "idle"
        BY <3>2 DEF Listen, IInv, SettingsInv
      <4> QED
        BY <3>2, <4>1 DEF Listen, Scripts
    <3>3. CASE MainLoop
      BY <3>3 DEF MainLoop, Event
    <3> QED
      BY <1>1, <3>1, <3>2, <3>3 DEF StartUp
  <2> QED
    BY <2>1 DEF Begin, running, Workers, IInv, TypeOK
<1>2. CASE AdminThread
  <2>1. \/ UNCHANGED running
        \/ script["admin"] = "idle" /\ Begin("admin", "note")
    <3>1. AdminBind => UNCHANGED running
      BY DEF AdminBind
    <3>2. AdminServe => UNCHANGED running
      BY DEF AdminServe
    <3>3. AdminAccept \/ AdminLeaves => script["admin"] = "idle" /\ Begin("admin", "note")
      BY DEF AdminAccept, AdminLeaves
    <3> QED
      BY <1>2, <3>1, <3>2, <3>3 DEF AdminThread
  <2> QED
    BY <2>1 DEF Begin, running, Workers, IInv, TypeOK
<1>3. CASE ListPassword \/ AdminPeers
  BY <1>3 DEF ListPassword, AdminPeers, AdminConnect, AdminAsks, AdminReads, AdminCloses,
     Peer, running
<1>4. ASSUME NEW u \in Workers, Step(u)
      PROVE  \/ script'[t] = script[t] /\ at'[t] = at[t]
             \/ Left(t) \in 1 .. 6 /\ Left(t)' = Left(t) - 1
  <2>1. PICK step : Does(u, step)
    BY <1>4 DEF Step, Seat, Unseat, CountIn, CountOut, Tell, Open, Write, AppendLine, Close
  <2>2. AtInv /\ script \in [Workers -> Scripts] /\ at \in [Workers -> 1 .. 6]
    BY DEF IInv, TypeOK
  <2>3. CASE u # t
    BY <2>1, <2>2, <2>3, Moves
  <2>4. CASE u = t
    <3>1. \/ script'[t] = script[t] /\ at'[t] = at[t] + 1
          \/ script'[t] = "idle" /\ at'[t] = 1 /\ at[t] = Len(Script[script[t]])
      BY <2>1, <2>2, <2>4, Moves
    <3>2. Left(t)' = Len(Script[script'[t]]) + 1 - at'[t]
      BY DEF Left, Script
    <3>3. Len(Script["idle"]) = 0
      <4>1. Script["idle"] = <<>>
        BY DEF Script
      <4> QED
        BY <4>1
    <3>4. at[t] \in Nat /\ Len(Script[script[t]]) \in Nat /\ Left(t) \in 1 .. 6
      BY LeftType
    <3>5. CASE script'[t] = script[t] /\ at'[t] = at[t] + 1
      BY <3>2, <3>4, <3>5 DEF Left
    <3>6. CASE script'[t] = "idle" /\ at'[t] = 1 /\ at[t] = Len(Script[script[t]])
      BY <3>2, <3>3, <3>4, <3>6 DEF Left
    <3> QED
      BY <3>1, <3>5, <3>6
  <2> QED
    BY <2>3, <2>4
<1> QED
  BY <1>1, <1>2, <1>3, <1>4 DEF Next, Workers

\* For every number of slots, admins and events: what a thread does between two
\* looks at its sockets is over after at most six steps of its own, so that nothing
\* but the wait of a send can keep it (ConsoleServer.cpp:223-321).
THEOREM ScriptsEnd == Spec => ScriptsShrink
<1>1. IInv /\ [Next]_vars =>
        [\A t \in Workers : script[t] # "idle" =>
           \/ script'[t] = script[t] /\ at'[t] = at[t]
           \/ Left(t) \in 1 .. 6 /\ Left(t)' = Left(t) - 1]_vars
  BY ShrinkStep
<1> QED
  BY <1>1, InitInv, NextInv, PTL DEF Spec, ScriptsShrink

=============================================================================
