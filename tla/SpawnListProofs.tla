-------------------------- MODULE SpawnListProofs --------------------------
(***************************************************************************)
(* The spawn list never holds an actor twice, and the loop over the players  *)
(* finds the player an actor stands for, for every number of players and    *)
(* every set of actors.                                                     *)
(***************************************************************************)
EXTENDS SpawnList, LeastNumber, TLAPS

\* The invariant speaks of SpawnID alone: whatever the loop over the players
\* returns, no command writes the list through it.
Inv == /\ SpawnID \in [Slots -> Actors \cup {NoRef}]
       /\ SpawnsDistinct

LEMMA InitInv == Init => Inv
  BY DEF Init, Inv, SpawnsDistinct

\* A new actor is in no entry: the one entry that changes differs from all.
LEMMA SpawnedInv ==
  ASSUME Inv, NEW a \in Actors, MPSpawned(a)
  PROVE  Inv'
<1>1. PICK k \in Slots : SpawnID' = [SpawnID EXCEPT ![k] = a]
  BY DEF MPSpawned
<1>2. \A i \in Slots : SpawnID[i] # a
  BY DEF MPSpawned
<1>3. SpawnID' \in [Slots -> Actors \cup {NoRef}]
  BY <1>1 DEF Inv
<1>4. ASSUME NEW i \in Slots, NEW j \in Slots, i # j, SpawnID'[i] = SpawnID'[j]
      PROVE  SpawnID'[i] = NoRef
  <2>1. i # k /\ j # k
    BY <1>1, <1>2, <1>4 DEF Inv
  <2>2. SpawnID'[i] = SpawnID[i] /\ SpawnID'[j] = SpawnID[j]
    BY <1>1, <2>1 DEF Inv
  <2> QED
    BY <1>4, <2>2 DEF Inv, SpawnsDistinct
<1> QED
  BY <1>3, <1>4 DEF Inv, SpawnsDistinct

LEMMA ClearedInv ==
  ASSUME Inv, NEW a \in Actors, MPClearSpawn(a)
  PROVE  Inv'
  BY DEF Inv, SpawnsDistinct, MPClearSpawn

LEMMA StepInv == Inv /\ [Next]_vars => Inv'
<1> SUFFICES ASSUME Inv, [Next]_vars
             PROVE  Inv'
  OBVIOUS
<1>1. CASE MPConnect
  BY <1>1 DEF MPConnect, Inv, SpawnsDistinct
<1>2. CASE MPDisconnect
  BY <1>2 DEF MPDisconnect, Inv, SpawnsDistinct
<1>3. CASE \E a \in Actors : MPSpawned(a) \/ MPClearSpawn(a)
  BY <1>3, SpawnedInv, ClearedInv
<1>4. CASE \E n \in Slots : OnWelcome(n) \/ OnActorUpdate(n) \/ OnDisconnect(n)
  BY <1>4 DEF OnWelcome, OnActorUpdate, OnDisconnect, Inv, SpawnsDistinct
<1>5. CASE UNCHANGED vars
  BY <1>5 DEF vars, Inv, SpawnsDistinct
<1> QED
  BY <1>1, <1>2, <1>3, <1>4, <1>5 DEF Next

\* No actor stands for two players in any behaviour of commands and handlers.
THEOREM SpawnsNeverShared == Spec => []SpawnsDistinct
<1>1. Inv => SpawnsDistinct
  BY DEF Inv
<1> QED
  BY InitInv, StepInv, <1>1, PTL DEF Spec

\* One step of a command or a handler keeps the types of all variables.
LEMMA StepType == TypeOK /\ [Next]_vars => TypeOK'
<1> SUFFICES ASSUME TypeOK, [Next]_vars PROVE TypeOK'
  OBVIOUS
<1> USE DEF TypeOK
<1>1. CASE MPConnect
  BY <1>1 DEF MPConnect
<1>2. CASE MPDisconnect
  BY <1>2 DEF MPDisconnect
<1>3. ASSUME NEW a \in Actors, MPSpawned(a) PROVE TypeOK'
  BY <1>3 DEF MPSpawned
<1>4. ASSUME NEW a \in Actors, MPClearSpawn(a) PROVE TypeOK'
  BY <1>4 DEF MPClearSpawn
<1>5. ASSUME NEW n \in Slots, OnWelcome(n) \/ OnActorUpdate(n) \/ OnDisconnect(n)
      PROVE  TypeOK'
  BY <1>5 DEF OnWelcome, OnActorUpdate, OnDisconnect
<1>6. CASE UNCHANGED vars
  BY <1>6 DEF vars
<1> QED
  BY <1>1, <1>2, <1>3, <1>4, <1>5, <1>6 DEF Next

\* The arrays keep their types: what a command writes through the result of
\* GetPlayerNumberFromRefID is an actor, wherever it goes.
THEOREM TypeCorrect == Spec => []TypeOK
<1>1. Init => TypeOK
  <2> SUFFICES ASSUME Init PROVE TypeOK
    OBVIOUS
  <2>1. bIsConnected \in BOOLEAN
    BY Zenon DEF Init
  <2> QED
    BY <2>1, MaxClientsAssumption DEF Init, TypeOK, Slots
<1> QED
  BY <1>1, StepType, PTL DEF Spec
-----------------------------------------------------------------------------
(* What the loop of GetPlayerNumberFromRefID computes.  currentspawn is      *)
(* defined by recursion; that it is SpawnOf is an induction on the players   *)
(* the loop looks at, by the smallest one for which it would not be.         *)

\* The recursion of currentspawn, as an equation.
Recurs(f) ==
    f = [c \in First .. MAXCLIENTS |->
            IF c = First THEN 0
            ELSE f[c - 1] + (IF c = LocalPlayer THEN 0 ELSE 1)]

LEMMA FirstFacts ==
  ASSUME TypeOK
  PROVE  /\ LocalPlayer \in Nat /\ LocalPlayer < MAXCLIENTS /\ MAXCLIENTS \in Nat
         /\ First \in {0, 1} /\ First <= MAXCLIENTS
         /\ First = 1 <=> LocalPlayer = 0
  BY MaxClientsAssumption DEF TypeOK, Slots, First

LEMMA LoopUnfolds ==
  ASSUME TypeOK
  PROVE  Recurs(currentspawn)
<1> DEFINE closed == [c \in First .. MAXCLIENTS |-> SpawnOf(c)]
<1>1. currentspawn = CHOOSE f : Recurs(f)
  BY DEF currentspawn, Recurs
<1>2. Recurs(closed)
  <2>1. ASSUME NEW c \in First .. MAXCLIENTS
        PROVE  closed[c] = IF c = First THEN 0
                           ELSE closed[c - 1] + (IF c = LocalPlayer THEN 0 ELSE 1)
    <3>1. c \in Nat /\ (c # First => c - 1 \in First .. MAXCLIENTS)
      BY FirstFacts
    <3> QED
      BY <2>1, <3>1, FirstFacts DEF SpawnOf
  <2> QED
    BY <2>1 DEF Recurs
<1> QED
  BY <1>1, <1>2

LEMMA LoopComputes ==
  ASSUME TypeOK, NEW c \in First .. MAXCLIENTS
  PROVE  currentspawn[c] = SpawnOf(c)
<1> DEFINE T == {d \in First .. MAXCLIENTS : currentspawn[d] # SpawnOf(d)}
<1>1. T \subseteq Nat
  BY FirstFacts
<1>2. SUFFICES ASSUME T # {} PROVE FALSE
  OBVIOUS
<1>3. PICK d \in T : \A e \in T : d <= e
  BY <1>1, <1>2, SmallestNat
<1>4. /\ d \in Nat /\ First <= d /\ d <= MAXCLIENTS
      /\ currentspawn[d] # SpawnOf(d)
  BY <1>1, <1>3, FirstFacts
<1>5. currentspawn[d] = IF d = First THEN 0
                        ELSE currentspawn[d - 1] + (IF d = LocalPlayer THEN 0 ELSE 1)
  BY <1>3, LoopUnfolds DEF Recurs
<1>6. CASE d = First
  BY <1>4, <1>5, <1>6, FirstFacts DEF SpawnOf
<1>7. CASE d # First
  <2>1. d - 1 \in First .. MAXCLIENTS /\ d - 1 < d
    BY <1>4, <1>7, FirstFacts
  <2>2. d - 1 \notin T
    BY <1>3, <1>4, <2>1
  <2>3. currentspawn[d - 1] = SpawnOf(d - 1)
    BY <2>1, <2>2
  <2> HIDE DEF T
  <2> QED
    BY <1>4, <1>5, <1>7, <2>1, <2>3, FirstFacts DEF SpawnOf
<1> QED
  BY <1>6, <1>7

\* A player the loop stops at has the actor at its spawn.
LEMMA CandidateSpawn ==
  ASSUME TypeOK, NEW actor, NEW d \in Candidates(actor)
  PROVE  /\ d \in First .. MAXCLIENTS /\ d \in Nat
         /\ SpawnOf(d) \in Slots /\ SpawnID[SpawnOf(d)] = actor
<1>1. /\ d \in First .. MAXCLIENTS /\ d \in Nat
      /\ currentspawn[d] < MAXCLIENTS /\ SpawnID[currentspawn[d]] = actor
  BY FirstFacts DEF Candidates
<1>2. currentspawn[d] = SpawnOf(d)
  BY <1>1, LoopComputes
<1>3. SpawnOf(d) \in Slots
  BY <1>1, <1>2, FirstFacts DEF Slots, SpawnOf
<1> QED
  BY <1>1, <1>2, <1>3

\* The actor of a connected remote player is found at that player first: only the
\* local player can share its spawn, and comes after it.
LEMMA Resolves ==
  ASSUME TypeOK, SpawnsDistinct
  PROVE  ActorResolved
<1> SUFFICES ASSUME NEW c \in Slots \ {LocalPlayer}, PlayerConnected[c],
                    SpawnID[SpawnOf(c)] # NoRef
             PROVE  PlayerNumbers(SpawnID[SpawnOf(c)]) = {c}
  BY DEF ActorResolved
<1> DEFINE actor == SpawnID[SpawnOf(c)]
<1>1. /\ c \in Nat /\ c < MAXCLIENTS /\ c # LocalPlayer /\ c \in First .. MAXCLIENTS
      /\ SpawnOf(c) \in Slots
  BY FirstFacts DEF Slots, SpawnOf
<1>2. c \in Candidates(actor)
  <2>1. currentspawn[c] = SpawnOf(c) /\ SpawnOf(c) < MAXCLIENTS
    BY <1>1, LoopComputes, FirstFacts DEF Slots
  <2> QED
    BY <1>1, <2>1 DEF Candidates
<1>3. ASSUME NEW d \in Candidates(actor)
      PROVE  d \in Nat /\ c <= d
  <2>1. /\ d \in First .. MAXCLIENTS /\ d \in Nat
        /\ SpawnOf(d) \in Slots /\ SpawnID[SpawnOf(d)] = actor
    BY CandidateSpawn
  <2>2. SpawnOf(d) = SpawnOf(c)
    BY <1>1, <2>1 DEF SpawnsDistinct
  <2> QED
    BY <1>1, <2>1, <2>2, FirstFacts DEF SpawnOf
<1>4. c # MAXCLIENTS
  BY <1>1, FirstFacts
<1>5. PlayerNumbers(actor) = {e \in Candidates(actor) : \A d \in Candidates(actor) : e <= d}
  BY <1>2, <1>4 DEF PlayerNumbers
<1> HIDE DEF actor
<1>6. \A e \in Candidates(actor) : (\A d \in Candidates(actor) : e <= d) => e = c
  BY <1>1, <1>2, <1>3
<1> QED
  BY <1>2, <1>3, <1>5, <1>6 DEF actor

\* The actor that stands for a connected remote player is resolved to that player,
\* whoever else is connected and whatever our own number (OOFunctions.cpp:82-93).
THEOREM ActorsResolved == Spec => []ActorResolved
<1>1. Inv /\ TypeOK => ActorResolved
  BY Resolves DEF Inv
<1> QED
  BY <1>1, TypeCorrect, SpawnsNeverShared, InitInv, StepInv, PTL DEF Spec

\* The loop can stop at no player but the one the spawn stands for, and ourselves.
LEMMA SearchStays ==
  ASSUME TypeOK, SpawnsDistinct
  PROVE  NeverSomebodyElse
<1> SUFFICES ASSUME NEW s \in Slots, SpawnID[s] # NoRef,
                    NEW c \in PlayerNumbers(SpawnID[s])
             PROVE  c \in {PlayerOf(s), LocalPlayer, -1}
  BY DEF NeverSomebodyElse
<1>1. c \in Candidates(SpawnID[s]) \/ c = -1
  BY DEF PlayerNumbers
<1>2. ASSUME c \in Candidates(SpawnID[s])
      PROVE  c \in {PlayerOf(s), LocalPlayer}
  <2>1. /\ c \in First .. MAXCLIENTS /\ c \in Nat
        /\ SpawnOf(c) \in Slots /\ SpawnID[SpawnOf(c)] = SpawnID[s]
    BY <1>2, CandidateSpawn
  <2>2. SpawnOf(c) = s
    BY <2>1 DEF SpawnsDistinct
  <2>3. s \in Int /\ LocalPlayer \in Int
    BY <2>1, <2>2, FirstFacts DEF SpawnOf
  <2> QED
    BY <2>1, <2>2, <2>3 DEF SpawnOf, PlayerOf
<1> QED
  BY <1>1, <1>2

\* For every number of players and every set of actors: whatever was spawned,
\* cleared and renumbered before, an actor is taken for its own player, for
\* ourselves or for nobody, never for a third player (OOFunctions.cpp:65-96).
THEOREM NeverSomebodyElseAlways == Spec => []NeverSomebodyElse
<1>1. Inv /\ TypeOK => NeverSomebodyElse
  BY SearchStays DEF Inv
<1> QED
  BY <1>1, TypeCorrect, SpawnsNeverShared, InitInv, StepInv, PTL DEF Spec
=============================================================================
