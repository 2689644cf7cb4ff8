--------------------------- MODULE SendLimitsProofs ---------------------------
(***************************************************************************)
(* Proofs about SendLimits, for every width of the clock, every window and  *)
(* every length of a frame the assumptions allow, and any actors and looks. *)
(***************************************************************************)
EXTENDS SendLimits, TLAPS

USE ClockAssumption, LookAssumption

Reporting == {"check", "compare", "send"}

\* Which steps a kind of report has.
PlaceInv ==
    /\ pc.receiver # "call" => TwoThreads
    /\ pc.game = "findWeapon" => TwoThreads
    /\ TwoThreads => subject = Us

-----------------------------------------------------------------------------
(* Lemmas about the data. *)

\* The difference of two tick counts is one of two numbers.
LEMMA Difference ==
    ASSUME NEW a \in 0 .. W - 1, NEW b \in 0 .. W - 1
    PROVE  (a - b) % W = IF a < b THEN a - b + W ELSE a - b
<1>1. W \in Nat \ {0} /\ a - b \in -W .. W - 1
  OBVIOUS
<1>2. CASE a < b
  BY <1>1, <1>2
<1>3. CASE ~(a < b)
  <2>1. a - b \in 0 .. W - 1
    BY <1>3
  <2> QED
    BY <1>1, <2>1, <1>3
<1> QED
  BY <1>2, <1>3

\* The clock counts on or begins again.
LEMMA NextTick ==
    ASSUME NEW a \in 0 .. W - 1
    PROVE  (a + 1) % W = IF a = W - 1 THEN 0 ELSE a + 1
<1>1. CASE a = W - 1
  <2>1. a + 1 = W /\ W \in Nat \ {0}
    BY <1>1
  <2> QED
    BY <2>1, <1>1
<1>2. CASE a # W - 1
  <2>1. a + 1 \in 0 .. W - 1 /\ W \in Nat \ {0}
    BY <1>2
  <2> QED
    BY <2>1, <1>2
<1> QED
  BY <1>1, <1>2

\* A tick adds one to what has passed since a stamp, short of a full turn.
LEMMA OneLater ==
    ASSUME NEW a \in 0 .. W - 1, NEW b \in 0 .. W - 1, ((a - b) % W) + 1 < W
    PROVE  (((a + 1) % W) - b) % W = ((a - b) % W) + 1
<1>1. (a + 1) % W \in 0 .. W - 1
  BY NextTick
<1>2. (((a + 1) % W) - b) % W
        = IF (a + 1) % W < b THEN ((a + 1) % W) - b + W ELSE ((a + 1) % W) - b
  BY <1>1, Difference
<1>3. (a + 1) % W = IF a = W - 1 THEN 0 ELSE a + 1
  BY NextTick
<1>4. (a - b) % W = IF a < b THEN a - b + W ELSE a - b
  BY Difference
<1>5. CASE a = W - 1
  BY <1>2, <1>3, <1>4, <1>5
<1>6. CASE a # W - 1
  BY <1>2, <1>3, <1>4, <1>6
<1> QED
  BY <1>5, <1>6

\* A status is what its fields are.
LEMMA SameStatus ==
    ASSUME NEW r \in Status, NEW s \in Status, r.body = s.body, r.weapon = s.weapon
    PROVE  r = s
BY DEF Status

-----------------------------------------------------------------------------
(* Types and places. *)

Shape == TypeOK /\ PlaceInv

LEMMA InitShape == Init => Shape
<1> SUFFICES ASSUME Init PROVE Shape
  OBVIOUS
<1>1. Nothing \in Status
  BY DEF Nothing, Status
<1>2. TypeOK
  <2>1. raced \in BOOLEAN
    BY Zenon DEF Init
  <2> QED
    BY <1>1, <2>1 DEF Init, TypeOK, OldEnough, Actors, Threads
<1>3. PlaceInv
  BY DEF Init, PlaceInv
<1> QED
  BY <1>2, <1>3 DEF Shape

\* The parts of the type that the steps of a report touch together.
CallType ==
    /\ subject \in Actors /\ rest \in SUBSET Others
    /\ frame \in 0 .. FrameTicks
    /\ pc \in [game : {"find", "findWeapon", "call", "check", "compare", "send"},
               receiver : {"call", "check", "compare", "send"}]
    /\ tickBuf \in [Threads -> 0 .. W - 1]
    /\ pkgBuf \in [Threads -> Status]

LEMMA ReturnsShape ==
    ASSUME Shape, NEW t \in Threads, Returns(t), UNCHANGED kind
    PROVE  CallType' /\ PlaceInv'
<1>1. Nothing \in Status
  BY DEF Nothing, Status
<1>2. tickBuf' \in [Threads -> 0 .. W - 1] /\ pkgBuf' \in [Threads -> Status]
  BY <1>1 DEF Shape, TypeOK, Returns
<1>3. CASE t = "receiver"
  BY <1>2, <1>3 DEF Shape, TypeOK, PlaceInv, Returns, CallType, TwoThreads
<1>4. CASE t = "game"
  BY <1>2, <1>4 DEF Shape, TypeOK, PlaceInv, Returns, CallType, TwoThreads, Actors
<1> QED
  BY <1>3, <1>4 DEF Threads

LEMMA StepShape == Shape /\ [Next]_vars => Shape'
<1> SUFFICES ASSUME Shape, [Next]_vars PROVE Shape'
  OBVIOUS
<1> USE DEF Shape
<1>1. CASE Tick
  <2>1. now' \in 0 .. W - 1
    BY <1>1, NextTick DEF Tick, TypeOK
  <2>2. age' \in 0 .. OldEnough /\ held' \in 0 .. FrameTicks
    BY <1>1 DEF Tick, TypeOK, Older, OldEnough
  <2> QED
    BY <1>1, <2>1, <2>2
    DEF Tick, TypeOK, PlaceInv, call, record, TwoThreads
<1>2. CASE Find
  <2>1. status' \in [Actors -> Status]
    BY <1>2 DEF Find, TypeOK, Status
  <2> QED
    BY <1>2, <2>1 DEF Find, TypeOK, PlaceInv, clock, record, TwoThreads
<1>3. CASE FindWeapon
  <2>1. status' \in [Actors -> Status]
    BY <1>3 DEF FindWeapon, TypeOK, Status, Actors
  <2> QED
    BY <1>3, <2>1 DEF FindWeapon, TypeOK, PlaceInv, clock, record, TwoThreads
<1>4. ASSUME NEW t \in Threads, Call(t) PROVE Shape'
  <2>1. tickBuf' \in [Threads -> 0 .. W - 1]
    BY <1>4 DEF Call, TypeOK
  <2>2. pc' \in [game : {"find", "findWeapon", "call", "check", "compare", "send"},
                receiver : {"call", "check", "compare", "send"}]
    BY <1>4 DEF Call, TypeOK, Threads
  <2> QED
    BY <1>4, <2>1, <2>2 DEF Call, TypeOK, PlaceInv, record, TwoThreads, Threads
<1>5. ASSUME NEW t \in Threads, Check(t) PROVE Shape'
  <2>1. CASE Due(t)
    BY <1>5, <2>1 DEF Check, TypeOK, PlaceInv, record, TwoThreads, Threads
  <2>2. CASE ~Due(t)
    BY <1>5, <2>2, ReturnsShape DEF Check, TypeOK, record, CallType
  <2> QED
    BY <2>1, <2>2
<1>6. ASSUME NEW t \in Threads, Take(t) PROVE Shape'
  <2>1. Subject(t) \in Actors
    BY DEF Subject, TypeOK, Actors
  <2>2. pkgBuf' \in [Threads -> Status]
    BY <1>6, <2>1 DEF Take, TypeOK
  <2>3. last' \in [actor : Actors \cup {Blank}, body : Looks \cup Items \cup {Blank},
                  weapon : {Blank} \cup Items]
    <3>1. status[Subject(t)] \in Status /\ status[Us] \in Status
      BY <2>1 DEF TypeOK, Actors
    <3> QED
      BY <1>6, <2>1, <3>1 DEF Take, TypeOK, Stored, Status
  <2> QED
    BY <1>6, <2>2, <2>3 DEF Take, TypeOK, PlaceInv, clock, TwoThreads, Threads
<1>7. ASSUME NEW t \in Threads, Withhold(t) PROVE Shape'
  BY <1>7, ReturnsShape DEF Withhold, TypeOK, record, CallType
<1>8. ASSUME NEW t \in Threads, Send(t) PROVE Shape'
  BY <1>8, ReturnsShape DEF Send, TypeOK, CallType, OldEnough
<1>9. CASE UNCHANGED vars
  BY <1>9 DEF vars, TypeOK, PlaceInv, TwoThreads
<1> QED
  BY <1>1, <1>2, <1>3, <1>4, <1>5, <1>6, <1>7, <1>8, <1>9
  DEF Next, GameThread, Report, Threads

LEMMA ShapeAlways == Spec => []Shape
BY InitShape, StepShape, PTL DEF Spec

-----------------------------------------------------------------------------
(* The clock: what the stamps say of the true times. *)

ClockInv ==
    ~TwoThreads =>
        /\ age < OldEnough => (now - PacketTime) % W = age
        /\ pc.game \in Reporting =>
              /\ (now - tickBuf["game"]) % W = held
              /\ held <= frame /\ held <= age
        /\ pc.game \in {"compare", "send"} => age - held > RESEND

LEMMA InitClock == Init => ClockInv
BY DEF Init, ClockInv, Reporting, OldEnough

\* A report that is due by the stamps is due in true time.
LEMMA DueInTime ==
    ASSUME Shape, ClockInv, ~TwoThreads, pc.game = "check", Due("game")
    PROVE  age - held > RESEND
<1> USE DEF Shape, TypeOK, Threads
<1>1. CASE age = OldEnough
  BY <1>1 DEF OldEnough
<1>2. CASE age # OldEnough
  <2>1. /\ (now - PacketTime) % W = age
        /\ (now - tickBuf["game"]) % W = held
        /\ held <= age
    BY <1>2 DEF ClockInv, Reporting, OldEnough
  <2>2. (now - PacketTime) % W
          = IF now < PacketTime THEN now - PacketTime + W ELSE now - PacketTime
    BY Difference
  <2>3. (now - tickBuf["game"]) % W
          = IF now < tickBuf["game"] THEN now - tickBuf["game"] + W ELSE now - tickBuf["game"]
    BY Difference
  <2>4. (tickBuf["game"] - PacketTime) % W
          = IF tickBuf["game"] < PacketTime THEN tickBuf["game"] - PacketTime + W
            ELSE tickBuf["game"] - PacketTime
    BY Difference
  <2>5. (tickBuf["game"] - PacketTime) % W > RESEND
    BY DEF Due
  <2> QED
    BY <2>1, <2>2, <2>3, <2>4, <2>5
<1> QED
  BY <1>1, <1>2

LEMMA TickClock == ASSUME Shape, ClockInv, Tick PROVE ClockInv'
<1> SUFFICES ASSUME ~TwoThreads
             PROVE  /\ age' < OldEnough => (now' - PacketTime) % W = age'
                    /\ pc.game \in Reporting =>
                          /\ (now' - tickBuf["game"]) % W = held'
                          /\ held' <= frame' /\ held' <= age'
                    /\ pc.game \in {"compare", "send"} => age' - held' > RESEND
  BY DEF ClockInv, Tick, call, TwoThreads, OldEnough
<1> USE DEF Shape, TypeOK, Threads
<1>1. /\ now' = (now + 1) % W
      /\ frame < FrameTicks /\ frame' = frame + 1
      /\ age' = Older(age, OldEnough) /\ held' = Older(held, FrameTicks)
  BY DEF Tick
<1>2. ASSUME age' < OldEnough PROVE (now' - PacketTime) % W = age'
  <2>1. age' = age + 1 /\ age < OldEnough /\ age + 1 < W
    BY <1>1, <1>2 DEF Older, OldEnough
  <2>2. (now - PacketTime) % W = age
    BY <2>1 DEF ClockInv
  <2> QED
    BY <1>1, <2>1, <2>2, OneLater
<1>3. ASSUME pc.game \in Reporting
      PROVE  /\ (now' - tickBuf["game"]) % W = held'
             /\ held' <= frame' /\ held' <= age'
  <2>1. (now - tickBuf["game"]) % W = held /\ held <= frame /\ held <= age
    BY <1>3 DEF ClockInv
  <2>2. held' = held + 1 /\ held + 1 < W
    BY <1>1, <2>1 DEF Older
  <2>3. (now' - tickBuf["game"]) % W = held'
    BY <1>1, <2>1, <2>2, OneLater
  <2> QED
    BY <1>1, <2>1, <2>2, <2>3 DEF Older, OldEnough
<1>4. ASSUME pc.game \in {"compare", "send"} PROVE age' - held' > RESEND
  <2>1. age - held > RESEND /\ held <= frame
    BY <1>4 DEF ClockInv, Reporting
  <2> QED
    BY <1>1, <2>1 DEF Older, OldEnough
<1> QED
  BY <1>2, <1>3, <1>4

LEMMA StepClock == Shape /\ ClockInv /\ [Next]_vars => ClockInv'
<1> SUFFICES ASSUME Shape, ClockInv, [Next]_vars PROVE ClockInv'
  OBVIOUS
<1> USE DEF Shape, TypeOK, Threads
<1>1. CASE Tick
  BY <1>1, TickClock
<1>2. CASE Find \/ FindWeapon
  BY <1>2 DEF Find, FindWeapon, ClockInv, Reporting, TwoThreads, OldEnough, clock
<1>3. ASSUME NEW t \in Threads, Report(t), t = "receiver" PROVE ClockInv'
  <2>1. TwoThreads
    BY <1>3 DEF Report, Call, Check, Take, Withhold, Send, PlaceInv
  <2>2. kind' = kind
    BY <1>3 DEF Report, Call, Check, Take, Withhold, Send
  <2> QED
    BY <2>1, <2>2 DEF ClockInv, TwoThreads
<1>4. CASE Call("game")
  <2>1. (now - now) % W = 0
    BY Difference
  <2> QED
    BY <1>4, <2>1 DEF Call, ClockInv, Reporting, TwoThreads, OldEnough
<1>5. CASE Check("game")
  <2>1. CASE Due("game")
    BY <1>5, <2>1, DueInTime
    DEF Check, ClockInv, Reporting, TwoThreads, OldEnough
  <2>2. CASE ~Due("game")
    BY <1>5, <2>2
    DEF Check, Returns, ClockInv, Reporting, TwoThreads, OldEnough, record
  <2> QED
    BY <2>1, <2>2
<1>6. CASE Take("game")
  BY <1>6 DEF Take, ClockInv, Reporting, TwoThreads, OldEnough, clock
<1>7. CASE Withhold("game")
  BY <1>7 DEF Withhold, Returns, ClockInv, Reporting, TwoThreads, OldEnough
<1>8. CASE Send("game")
  BY <1>8 DEF Send, Returns, ClockInv, Reporting, TwoThreads, OldEnough
<1>9. CASE UNCHANGED vars
  BY <1>9 DEF vars, ClockInv, TwoThreads, OldEnough
<1> QED
  BY <1>1, <1>2, <1>3, <1>4, <1>5, <1>6, <1>7, <1>8, <1>9
  DEF Next, GameThread, Report

-----------------------------------------------------------------------------
(* The records: what they say of the packets that left. *)

\* NetActorUpdate's record is the packet that left last, or is about to.
ActorRecord ==
    kind = "ActorUpdate" =>
        /\ pc.game = "send" => last.actor = subject
        /\ last.actor = Us =>
              IF pc.game = "send"
              THEN pkgBuf["game"].body = last.body /\ pkgBuf["game"].weapon = Blank
              ELSE sent.body = last.body /\ sent.weapon = Blank

\* NetFullStatUpdate's record stays blank, and what is found never is.
StatRecord ==
    kind = "FullStatUpdate" =>
        /\ last.body = Blank
        /\ pc.game \in Reporting \cup {"call"} => status[subject].body # Blank

\* The thread that stored into NetEquipped's record is about to send what it
\* stored, or has: unless the other one sent after it.
EquipRecord ==
    kind = "Equipped" =>
        IF pc[taker] = "send"
        THEN pkgBuf[taker].body = last.body
        ELSE raced \/ sent.body = last.body

RecordInv ==
    /\ last.weapon = Blank
    /\ ~TwoThreads => \A a \in Actors : status[a].weapon = Blank
    /\ ActorRecord /\ StatRecord /\ EquipRecord

LEMMA InitRecord == Init => RecordInv
BY DEF Init, RecordInv, ActorRecord, StatRecord, EquipRecord, Nothing, Reporting

LEMMA StepRecord == Shape /\ RecordInv /\ [Next]_vars => RecordInv'
<1> SUFFICES ASSUME Shape, RecordInv, [Next]_vars PROVE RecordInv'
  OBVIOUS
<1> USE DEF Shape, TypeOK, Threads, RecordInv
<1>1. CASE Tick
  BY <1>1 DEF Tick, call, record, TwoThreads, ActorRecord, StatRecord, EquipRecord
<1>2. CASE Find
  <2>1. ~TwoThreads => \A a \in Actors : status'[a].weapon = Blank
    BY <1>2 DEF Find, TwoThreads
  <2>2. ActorRecord'
    BY <1>2 DEF Find, record, clock, ActorRecord
  <2>3. StatRecord'
    BY <1>2 DEF Find, record, clock, StatRecord, TwoThreads
  <2>4. EquipRecord'
    BY <1>2 DEF Find, record, clock, EquipRecord
  <2> QED
    BY <1>2, <2>1, <2>2, <2>3, <2>4 DEF Find, record, TwoThreads
<1>3. CASE FindWeapon
  BY <1>3 DEF FindWeapon, record, clock, ActorRecord, StatRecord, EquipRecord,
              TwoThreads, PlaceInv
<1>4. ASSUME NEW t \in Threads, Call(t) PROVE RecordInv'
  BY <1>4 DEF Call, record, ActorRecord, StatRecord, EquipRecord, TwoThreads, Reporting
<1>5. ASSUME NEW t \in Threads, Check(t) PROVE RecordInv'
  <2>1. CASE Due(t)
    BY <1>5, <2>1
    DEF Check, record, ActorRecord, StatRecord, EquipRecord, TwoThreads, Reporting
  <2>2. CASE ~Due(t)
    BY <1>5, <2>2
    DEF Check, Returns, record, ActorRecord, StatRecord, EquipRecord, TwoThreads, Reporting
  <2> QED
    BY <2>1, <2>2
<1>6. ASSUME NEW t \in Threads, Take(t) PROVE RecordInv'
  <2>1. status[Us] \in Status /\ status[Subject(t)] \in Status
    BY DEF Subject, Actors
  <2>2. kind = "Equipped" => Subject(t) = Us
    BY DEF Subject, PlaceInv, TwoThreads
  <2>3. last'.weapon = Blank
    BY <1>6, <2>1 DEF Take, Stored
  <2>4. ActorRecord'
    BY <1>6, <2>1, <2>2
    DEF Take, Stored, clock, ActorRecord, Subject, PlaceInv, TwoThreads, Actors
  <2>5. StatRecord'
    BY <1>6 DEF Take, Stored, clock, StatRecord, Reporting, PlaceInv, TwoThreads
  <2>6. EquipRecord'
    BY <1>6, <2>1, <2>2 DEF Take, Stored, clock, EquipRecord
  <2> QED
    BY <1>6, <2>3, <2>4, <2>5, <2>6 DEF Take, TwoThreads
<1>7. ASSUME NEW t \in Threads, Withhold(t) PROVE RecordInv'
  BY <1>7 DEF Withhold, Returns, record, ActorRecord, StatRecord, EquipRecord,
              TwoThreads, Reporting
<1>8. ASSUME NEW t \in Threads, Send(t) PROVE RecordInv'
  <2>1. ActorRecord'
    BY <1>8 DEF Send, Returns, ActorRecord, Subject, PlaceInv, TwoThreads
  <2>2. StatRecord'
    BY <1>8 DEF Send, Returns, StatRecord, Reporting, PlaceInv, TwoThreads
  <2>3. EquipRecord'
    BY <1>8 DEF Send, Returns, EquipRecord, Subject, PlaceInv, TwoThreads
  <2> QED
    BY <1>8, <2>1, <2>2, <2>3 DEF Send, TwoThreads
<1>9. CASE UNCHANGED vars
  BY <1>9 DEF vars, ActorRecord, StatRecord, EquipRecord, TwoThreads
<1> QED
  BY <1>1, <1>2, <1>3, <1>4, <1>5, <1>6, <1>7, <1>8, <1>9
  DEF Next, GameThread, Report

-----------------------------------------------------------------------------

IInv == Shape /\ ClockInv /\ RecordInv

LEMMA IInvAlways == Spec => []IInv
<1>1. Init => IInv
  BY InitShape, InitClock, InitRecord DEF IInv
<1>2. IInv /\ [Next]_vars => IInv'
  BY StepShape, StepClock, StepRecord DEF IInv
<1> QED
  BY <1>1, <1>2, PTL DEF Spec

\* The variables keep their types: the clock and the stamps stay below W.
THEOREM TypeCorrect == Spec => []TypeOK
<1>1. IInv => TypeOK
  BY DEF IInv, Shape
<1> QED
  BY <1>1, IInvAlways, PTL

\* Two packets of a kind the game thread alone reports are more than RESEND apart
\* in true time, for every width of the clock it is measured with.
THEOREM SpacedAlways == Spec => Spaced
<1>1. IInv /\ Send("game") /\ ~TwoThreads => age - held > RESEND
  BY DEF IInv, Shape, TypeOK, ClockInv, Send
<1>2. IInv /\ [Next]_vars
      => [Send("game") /\ ~TwoThreads => age - held > RESEND]_vars
  BY <1>1
<1> QED
  BY <1>2, IInvAlways, PTL DEF Spec, Spaced

\* What a report about us leaves out was in the last packet about us, but for a
\* weapon put away and equipment the two threads raced about.
THEOREM WithheldAlways == Spec => []Withheld
<1>1. ASSUME IInv PROVE Withheld
  <2> SUFFICES ASSUME pc.game = "compare", ~Changed("game"), subject = Us,
                      pc.receiver # "send", ~raced
               PROVE  \/ status[Us] = sent
                      \/ /\ kind = "Equipped" /\ status[Us].weapon = Blank
                         /\ status[Us].body = sent.body
    BY DEF Withheld
  <2> USE <1>1 DEF IInv, Shape, TypeOK, RecordInv
  <2>1. status[Us].body = last.body /\ status[Us].weapon = Blank
    BY DEF Changed, Subject
  <2>2. CASE kind = "ActorUpdate"
    <3>1. sent.body = last.body /\ sent.weapon = Blank
      BY <2>2 DEF Changed, Subject, ActorRecord
    <3>2. status[Us] \in Status /\ sent \in Status
      BY DEF Actors
    <3> QED
      BY <2>1, <3>1, <3>2, SameStatus
  <2>3. CASE kind = "Equipped"
    <3>1. pc[taker] # "send"
      BY DEF Threads
    <3> QED
      BY <2>1, <2>3, <3>1 DEF EquipRecord
  <2>4. CASE kind = "FullStatUpdate"
    BY <2>1, <2>4 DEF StatRecord, Reporting
  <2>5. CASE kind = "TimeUpdate"
    BY <2>5 DEF Changed
  <2> QED
    BY <2>2, <2>3, <2>4, <2>5 DEF Kinds
<1> QED
  BY <1>1, IInvAlways, PTL
=============================================================================
