----------------------------- MODULE SpawnList -----------------------------
(***************************************************************************)
(* The spawn list of one game client: which actor of the local world stands *)
(* for which player of the server.  The list is written by script commands  *)
(* (OblivionOnline/main.cpp), the players' connections by the packet        *)
(* handlers of the receiving thread (OblivionOnline/OONetwork.cpp), and     *)
(* GetPlayerNumberFromRefID (OOFunctions.cpp), which every other command    *)
(* starts with, reads both.  A command and a handler are one step each.     *)
(*                                                                          *)
(* Player numbers skip the local player: spawn s stands for player s when   *)
(* s < LocalPlayer and for player s + 1 otherwise.                          *)
(***************************************************************************)
EXTENDS Integers

CONSTANTS
    MAXCLIENTS,     \* length of every array
    Actors,         \* reference IDs of the actors a script may spawn
    NoRef           \* 0, the content of a free entry

Slots == 0 .. MAXCLIENTS - 1

ASSUME MaxClientsAssumption == MAXCLIENTS \in Nat \ {0}
ASSUME NoRefAssumption == NoRef \notin Actors

VARIABLES
    bIsConnected,
    LocalPlayer,        \* our number; 0 until a welcome assigns it
    PlayerConnected,
    SpawnID,
    PlayerActorList     \* per player: the actor its stats are applied to

vars == <<bIsConnected, LocalPlayer, PlayerConnected, SpawnID, PlayerActorList>>

TypeOK ==
    /\ bIsConnected \in BOOLEAN
    /\ LocalPlayer \in Slots
    /\ PlayerConnected \in [Slots -> BOOLEAN]
    /\ SpawnID \in [Slots -> Actors \cup {NoRef}]
    /\ PlayerActorList \in [Slots -> Actors \cup {NoRef}]

Init ==
    /\ bIsConnected = FALSE
    /\ LocalPlayer = 0
    /\ PlayerConnected = [i \in Slots |-> FALSE]
    /\ SpawnID = [i \in Slots |-> NoRef]
    /\ PlayerActorList = [i \in Slots |-> NoRef]

-----------------------------------------------------------------------------
(* GetPlayerNumberFromRefID. *)

\* The first player the loop looks at; the last is MAXCLIENTS, one past the end
\* of PlayerConnected.
First == IF LocalPlayer = 0 THEN 1 ELSE 0

\* A mutant of currentspawn: the spawn advances with the player every time.
SpawnInStep == [c \in First .. MAXCLIENTS |-> c - First]

\* The spawn the loop compares when it looks at player c: it advances with the
\* player, but for the step that reaches LocalPlayer.
currentspawn ==
    LET spawn[c \in First .. MAXCLIENTS] ==
            IF c = First THEN 0
            ELSE spawn[c - 1] + (IF c = LocalPlayer THEN 0 ELSE 1)
    IN  spawn

\* The players the loop may return for an actor.  PlayerConnected[MAXCLIENTS]
\* is whatever lies behind the array.
Candidates(refID) ==
    {c \in First .. MAXCLIENTS :
        /\ currentspawn[c] < MAXCLIENTS
        /\ SpawnID[currentspawn[c]] = refID
        /\ c = MAXCLIENTS \/ PlayerConnected[c]}

\* The possible results for an actor that is not the player's own character:
\* the first candidate; none, or one that was read past the end, is -1 or
\* MAXCLIENTS.
PlayerNumbers(refID) ==
    IF Candidates(refID) \subseteq {MAXCLIENTS}
    THEN Candidates(refID) \cup {-1}
    ELSE {c \in Candidates(refID) : \A d \in Candidates(refID) : c <= d}

-----------------------------------------------------------------------------
(* The commands. *)

\* OO_Initialize and a connect that succeeds: LocalPlayer and PlayerActorList
\* keep what the last session left.
MPConnect ==
    /\ ~bIsConnected
    /\ bIsConnected' = TRUE
    /\ PlayerConnected' = [i \in Slots |-> FALSE]
    /\ SpawnID' = [i \in Slots |-> NoRef]
    /\ UNCHANGED <<LocalPlayer, PlayerActorList>>

\* OO_Deinitialize: the spawn list stays.
MPDisconnect ==
    /\ bIsConnected
    /\ bIsConnected' = FALSE
    /\ PlayerConnected' = [i \in Slots |-> FALSE]
    /\ UNCHANGED <<LocalPlayer, SpawnID, PlayerActorList>>

FirstFree(i) == /\ SpawnID[i] = NoRef
                /\ \A j \in Slots : j < i => SpawnID[j] # NoRef

\* A mutant of MPSpawned: a reference that is in the list is entered again.
MPSpawnedTwice(a) ==
    /\ \E i \in Slots : FirstFree(i) /\ SpawnID' = [SpawnID EXCEPT ![i] = a]
    /\ UNCHANGED <<bIsConnected, LocalPlayer, PlayerConnected>>
    /\ \E actorNum \in PlayerNumbers(a)' :
           PlayerActorList' = [i \in Slots |-> IF i = actorNum THEN a ELSE PlayerActorList[i]]

\* The actor goes to the first free entry, and its player's entry of
\* PlayerActorList points at it; a result of -1 or MAXCLIENTS writes outside of
\* that array, and of the variables of this module.
MPSpawned(a) ==
    /\ \A i \in Slots : SpawnID[i] # a
    /\ \E i \in Slots : FirstFree(i) /\ SpawnID' = [SpawnID EXCEPT ![i] = a]
    /\ UNCHANGED <<bIsConnected, LocalPlayer, PlayerConnected>>
    /\ \E actorNum \in PlayerNumbers(a)' :
           PlayerActorList' = [i \in Slots |-> IF i = actorNum THEN a ELSE PlayerActorList[i]]

MPClearSpawn(a) ==
    /\ \E i \in Slots : SpawnID[i] = a
    /\ SpawnID' = [i \in Slots |-> IF SpawnID[i] = a THEN NoRef ELSE SpawnID[i]]
    /\ UNCHANGED <<bIsConnected, LocalPlayer, PlayerConnected, PlayerActorList>>

-----------------------------------------------------------------------------
(* The handlers, as far as they write PlayerConnected and LocalPlayer; the   *)
(* receiving thread runs while bIsConnected.                                 *)

\* A mutant of OnWelcome: numbers are taken to start at 1.
OnWelcomeFromOne(n) ==
    /\ bIsConnected
    /\ LocalPlayer' = n + 1
    /\ PlayerConnected' = [PlayerConnected EXCEPT ![n] = TRUE]
    /\ UNCHANGED <<bIsConnected, SpawnID, PlayerActorList>>

OnWelcome(n) ==
    /\ bIsConnected
    /\ LocalPlayer' = n
    /\ PlayerConnected' = [PlayerConnected EXCEPT ![n] = TRUE]
    /\ UNCHANGED <<bIsConnected, SpawnID, PlayerActorList>>

OnActorUpdate(n) ==
    /\ bIsConnected /\ ~PlayerConnected[n]
    /\ PlayerConnected' = [PlayerConnected EXCEPT ![n] = TRUE]
    /\ UNCHANGED <<bIsConnected, LocalPlayer, SpawnID, PlayerActorList>>

OnDisconnect(n) ==
    /\ bIsConnected /\ PlayerConnected[n]
    /\ PlayerConnected' = [PlayerConnected EXCEPT ![n] = FALSE]
    /\ UNCHANGED <<bIsConnected, LocalPlayer, SpawnID, PlayerActorList>>

Next ==
    \/ MPConnect \/ MPDisconnect
    \/ \E a \in Actors : MPSpawned(a) \/ MPClearSpawn(a)
    \/ \E n \in Slots : OnWelcome(n) \/ OnActorUpdate(n) \/ OnDisconnect(n)

Spec == Init /\ [][Next]_vars

-----------------------------------------------------------------------------
(* What must be true of it. *)

\* The spawn that stands for player c.
SpawnOf(c) == IF c < LocalPlayer THEN c ELSE c - 1

\* No actor stands for two players, however spawning, clearing and reconnecting
\* follow each other (main.cpp:587-596,642-648).
SpawnsDistinct ==
    \A i, j \in Slots : i # j /\ SpawnID[i] = SpawnID[j] => SpawnID[i] = NoRef

\* The actor that stands for a connected remote player is resolved to that
\* player, whoever else is connected and whatever our own number
\* (OOFunctions.cpp:82-93).
ActorResolved ==
    \A c \in Slots \ {LocalPlayer} :
        LET actor == SpawnID[SpawnOf(c)]
        IN  PlayerConnected[c] /\ actor # NoRef => PlayerNumbers(actor) = {c}

\* The player that spawn s stands for; MAXCLIENTS is nobody.
PlayerOf(s) == IF s < LocalPlayer THEN s ELSE s + 1

\* An actor is never taken for a third player, one it does not stand for, whoever is
\* connected by now and whatever was spawned, cleared and renumbered before: the
\* search finds its player, nobody, or (LocalPlayerLeftOut) ourselves
\* (OOFunctions.cpp:65-96).
NeverSomebodyElse ==
    \A s \in Slots : SpawnID[s] # NoRef =>
        PlayerNumbers(SpawnID[s]) \subseteq {PlayerOf(s), LocalPlayer, -1}

\* An actor that was spawned for somebody else is never taken for the local
\* player ("leaving the localplayer out", OOFunctions.cpp:68).
LocalPlayerLeftOut ==
    \A i \in Slots : SpawnID[i] # NoRef => LocalPlayer \notin PlayerNumbers(SpawnID[i])
=============================================================================
