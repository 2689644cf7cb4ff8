------------------------------ MODULE SendLimits ------------------------------
(***************************************************************************)
(* How often a game client reports (OblivionOnline/OONetwork.cpp:79-233,    *)
(* main.cpp:228-368,653-732).  Each kind of report has a limiter: the time  *)
(* of the last packet and, but for requests of the time, a static record to *)
(* compare with.  The game thread reports once a frame, our own character   *)
(* first and the actors of other players after it: so the scripts of        *)
(* OblivionOnline.esp call MPSendEquipped and MPSendActor.  MPSendFullStat   *)
(* and MPSyncTime, commands its scripts do not call by now (the call of the  *)
(* latter is commented out), are taken to be called in the same way.  Our    *)
(* equipment is reported by the receiving thread too, when it hears of a     *)
(* new player.                                                              *)
(*                                                                          *)
(* The limiters share nothing but the clock, so a behaviour is about one    *)
(* kind of report, for an initial choice of it.                             *)
(***************************************************************************)
EXTENDS Integers, FiniteSets

CONSTANTS
    W,              \* GetTickCount counts modulo W (2^32 milliseconds)
    RESEND,         \* NET_..._RESEND of the kind: ticks that must have passed
    FrameTicks,     \* bound: ticks the clock advances within a frame
    Us,             \* our own character
    Others,         \* the actors of other players
    Looks,          \* what MPSendActor and MPSendFullStat can find of an actor
    Items,          \* what we can wear
    Blank           \* 0: nothing worn, and what a static record starts with

ASSUME ClockAssumption == /\ RESEND \in Nat /\ FrameTicks \in Nat /\ W \in Nat
                          /\ RESEND + 2 * FrameTicks < W
ASSUME LookAssumption == Us \notin Others /\ Blank \notin Looks \cup Items

Actors == {Us} \cup Others
Threads == {"game", "receiver"}
Kinds == {"ActorUpdate", "FullStatUpdate", "TimeUpdate", "Equipped"}

VARIABLES
    kind,           \* the kind of report this behaviour is about
    now,            \* GetTickCount
    frame,          \* ticks since the frame began
    PacketTime,     \* of this kind
    subject,        \* the actor the game thread reports about
    rest,           \* the actors it has still to report about in this frame
    status,         \* per actor, what was found last: DummyStatus, Players[LocalPlayer]
    last,           \* LastPlayer, StatLastPlayer or EquipLastPlayer
    pc,             \* per thread: its next step
    tickBuf,        \* per thread
    pkgBuf,         \* per thread: what it is about to send
    sent,           \* ghost: what the last packet about us said
    age,            \* ghost: true age of PacketTime, up to OldEnough
    held,           \* ghost: true age of the game thread's tickBuf
    taker,          \* ghost: the thread that stored into `last` most recently
    raced           \* ghost: another thread did so while the last packet was sent

clock == <<now, frame, age, held>>
call == <<subject, rest, pc, tickBuf, pkgBuf>>
record == <<last, sent, taker, raced>>
vars == <<kind, now, frame, PacketTime, subject, rest, status, last, pc,
          tickBuf, pkgBuf, sent, age, held, taker, raced>>

\* The body stands for position, health or attributes, and for everything worn
\* but the weapon.
Status == [body : Looks \cup Items \cup {Blank}, weapon : Items \cup {Blank}]
Nothing == [body |-> Blank, weapon |-> Blank]
OldEnough == RESEND + FrameTicks + 1

TypeOK ==
    /\ kind \in Kinds
    /\ now \in 0 .. W - 1 /\ PacketTime \in 0 .. W - 1
    /\ frame \in 0 .. FrameTicks
    /\ subject \in Actors /\ rest \in SUBSET Others
    /\ status \in [Actors -> Status]
    /\ last \in [actor : Actors \cup {Blank}, body : Looks \cup Items \cup {Blank},
                 weapon : {Blank} \cup Items]
    /\ pc \in [game : {"find", "findWeapon", "call", "check", "compare", "send"},
               receiver : {"call", "check", "compare", "send"}]
    /\ tickBuf \in [Threads -> 0 .. W - 1]
    /\ pkgBuf \in [Threads -> Status] /\ sent \in Status
    /\ age \in 0 .. OldEnough /\ held \in 0 .. FrameTicks
    /\ taker \in Threads /\ raced \in BOOLEAN

Init ==
    /\ kind \in Kinds
    /\ now \in 0 .. W - 1 /\ frame = 0 /\ PacketTime = 0
    /\ subject = Us /\ rest = Others
    /\ status = [a \in Actors |-> Nothing]
    /\ last = [actor |-> Blank, body |-> Blank, weapon |-> Blank]
    /\ pc = [game |-> "find", receiver |-> "call"]
    /\ tickBuf = [t \in Threads |-> 0]
    /\ pkgBuf = [t \in Threads |-> Nothing] /\ sent = Nothing
    /\ age = OldEnough /\ held = 0 /\ taker = "game" /\ raced = FALSE

\* Two threads report our equipment; the true age of its reports is not kept.
TwoThreads == kind = "Equipped"

-----------------------------------------------------------------------------
(* Time. *)

Older(n, bound) == IF n < bound THEN n + 1 ELSE bound

\* A mutant of Tick: the clock does not wrap.
TickOn ==
    /\ frame < FrameTicks
    /\ now' = now + 1
    /\ frame' = frame + 1
    /\ age' = IF TwoThreads THEN age ELSE Older(age, OldEnough)
    /\ held' = IF TwoThreads THEN held ELSE Older(held, FrameTicks)
    /\ UNCHANGED <<kind, PacketTime, status, call, record>>

\* A frame lasts at most FrameTicks.
Tick ==
    /\ frame < FrameTicks
    /\ now' = (now + 1) % W
    /\ frame' = frame + 1
    /\ age' = IF TwoThreads THEN age ELSE Older(age, OldEnough)
    /\ held' = IF TwoThreads THEN held ELSE Older(held, FrameTicks)
    /\ UNCHANGED <<kind, PacketTime, status, call, record>>

-----------------------------------------------------------------------------
(* One report.  Each step reads or writes what the other thread can see.     *)

\* Whom thread t reports about.
Subject(t) == IF t = "game" THEN subject ELSE Us

\* Thread t is done with the report: the game thread turns to the next actor,
\* and begins a frame with our own character.
Returns(t) ==
    /\ tickBuf' = [tickBuf EXCEPT ![t] = 0]
    /\ pkgBuf' = [pkgBuf EXCEPT ![t] = Nothing]
    /\ IF t = "receiver"
       THEN /\ pc' = [pc EXCEPT ![t] = "call"]
            /\ UNCHANGED <<subject, rest, frame>>
       ELSE /\ pc' = [pc EXCEPT ![t] = "find"]
            /\ IF rest = {} \/ kind \in {"TimeUpdate", "Equipped"}
               THEN subject' = Us /\ rest' = Others /\ frame' = 0
               ELSE /\ subject' \in rest /\ rest' = rest \ {subject'}
                    /\ UNCHANGED frame

\* The command looks at the actor as it is by now.  What we wear is written to
\* Players item by item, where the receiving thread finds it; the rest is local
\* to the command.
Find ==
    /\ pc.game = "find"
    /\ \E look \in IF TwoThreads THEN Items \cup {Blank} ELSE Looks :
           status' = [status EXCEPT ![subject].body = look]
    /\ pc' = [pc EXCEPT !.game = IF TwoThreads THEN "findWeapon" ELSE "call"]
    /\ UNCHANGED <<kind, clock, PacketTime, subject, rest, tickBuf, pkgBuf, record>>

FindWeapon ==
    /\ pc.game = "findWeapon"
    /\ \E item \in Items \cup {Blank} :
           status' = [status EXCEPT ![Us].weapon = item]
    /\ pc' = [pc EXCEPT !.game = "call"]
    /\ UNCHANGED <<kind, clock, PacketTime, subject, rest, tickBuf, pkgBuf, record>>

\* tickBuf = GetTickCount().  The receiving thread begins when the first update
\* of a player arrives.
Call(t) ==
    /\ pc[t] = "call"
    /\ t = "receiver" => TwoThreads
    /\ tickBuf' = [tickBuf EXCEPT ![t] = now]
    /\ held' = 0
    /\ pc' = [pc EXCEPT ![t] = "check"]
    /\ UNCHANGED <<kind, now, frame, age, PacketTime, subject, rest, status, pkgBuf, record>>

\* Mutants of Due: the window is one tick short; time stamps are compared.
DueEarly(t) == (tickBuf[t] - PacketTime) % W >= RESEND
DueByStamp(t) == tickBuf[t] > PacketTime + RESEND

\* The difference of two tick counts, unsigned.
Due(t) == (tickBuf[t] - PacketTime) % W > RESEND

\* A mutant of Check: the record is brought up to date before the time is right.
CheckAndStore(t) ==
    /\ pc[t] = "check"
    /\ IF Due(t)
       THEN /\ pc' = [pc EXCEPT ![t] = "compare"]
            /\ UNCHANGED <<subject, rest, frame, tickBuf, pkgBuf, last>>
       ELSE /\ last' = [last EXCEPT !.body = status[Subject(t)].body]
            /\ Returns(t)
    /\ UNCHANGED <<kind, now, age, held, PacketTime, status, sent, taker, raced>>

Check(t) ==
    /\ pc[t] = "check"
    /\ IF Due(t)
       THEN /\ pc' = [pc EXCEPT ![t] = "compare"]
            /\ UNCHANGED <<subject, rest, frame, tickBuf, pkgBuf>>
       ELSE Returns(t)
    /\ UNCHANGED <<kind, now, age, held, PacketTime, status, record>>

\* What thread t has to say is not what the record holds.  A request of the time
\* is compared with nothing; the receiving thread always sends; only
\* NetActorUpdate finds in its record whom that was about.
Changed(t) ==
    \/ kind = "TimeUpdate"
    \/ t = "receiver"
    \/ status[Subject(t)].body # last.body
    \/ status[Subject(t)].weapon # last.weapon
    \/ kind = "ActorUpdate" /\ Subject(t) # last.actor

\* What the record holds after it: NetActorUpdate stores the whole status,
\* NetEquipped all but the weapon, NetFullStatUpdate nothing.
Stored(t) ==
    IF kind = "ActorUpdate"
    THEN [actor |-> Subject(t), body |-> status[Subject(t)].body, weapon |-> Blank]
    ELSE IF kind = "Equipped" THEN [last EXCEPT !.body = status[Us].body] ELSE last

\* memcmp also compares what the command leaves unset of a DummyStatus: a
\* status that is the same may be found to be another.
Take(t) ==
    /\ pc[t] = "compare"
    /\ Changed(t) \/ kind = "ActorUpdate"
    /\ pkgBuf' = [pkgBuf EXCEPT ![t] = status[Subject(t)]]
    /\ last' = Stored(t)
    /\ taker' = t
    /\ pc' = [pc EXCEPT ![t] = "send"]
    /\ UNCHANGED <<kind, clock, PacketTime, subject, rest, status, tickBuf, sent, raced>>

Withhold(t) ==
    /\ pc[t] = "compare"
    /\ ~Changed(t)
    /\ Returns(t)
    /\ UNCHANGED <<kind, now, age, held, PacketTime, status, record>>

\* The packet leaves, and PacketTime becomes the time the report began.
Send(t) ==
    /\ pc[t] = "send"
    /\ PacketTime' = tickBuf[t]
    /\ sent' = IF Subject(t) = Us THEN pkgBuf[t] ELSE sent
    /\ raced' = (taker # t)
    /\ age' = IF TwoThreads THEN age ELSE held
    /\ Returns(t)
    /\ UNCHANGED <<kind, now, held, status, last, taker>>

-----------------------------------------------------------------------------
Report(t) == Call(t) \/ Check(t) \/ Take(t) \/ Withhold(t) \/ Send(t)
GameThread == Find \/ FindWeapon \/ Report("game")

Next == Tick \/ GameThread \/ Report("receiver")

Spec == Init /\ [][Next]_vars

\* The clock goes on, a script calls the command of the kind in every frame, and
\* the receiving thread finishes what it has begun.
FairSpec ==
    /\ Spec
    /\ WF_vars(Tick)
    /\ WF_vars(GameThread)
    /\ WF_vars(pc.receiver # "call" /\ Report("receiver"))

-----------------------------------------------------------------------------
(* What must be true of it. *)

\* Two packets of a kind the game thread alone reports are more than RESEND apart
\* in true time, between the moments their reports began, also when the clock
\* wraps between them (OONetwork.cpp:85,202; main.cpp:360).
Spaced ==
    [][Send("game") /\ ~TwoThreads => age - held > RESEND]_vars

\* A report about us that is not sent although its time has come says nothing new:
\* what it leaves out is what the last packet about us said, after any reports
\* about others in between.  There are two exceptions: a weapon put away, because
\* the weapon is never stored, and equipment that one thread stored before and the
\* other sent after (OONetwork.cpp:87-89,120-134,156-169,204).
Withheld ==
    pc.game = "compare" /\ ~Changed("game") /\ subject = Us /\ pc.receiver # "send"
    => \/ raced
       \/ status[Us] = sent
       \/ /\ kind = "Equipped" /\ status[Us].weapon = Blank
          /\ status[Us].body = sent.body

\* There is something to tell about us that no exception of Withheld covers.
Owed ==
    \/ kind = "TimeUpdate"
    \/ status[Us].body # sent.body /\ ~raced
    \/ status[Us].weapon \notin {Blank, sent.weapon}

\* While something is owed, packets keep leaving: the limiter does not fall
\* silent, wherever the clock wraps and whatever the other reports do.  (They can
\* be about others: one timer serves all actors.)
NeverSilent == []<>~Owed \/ []<><<\E t \in Threads : Send(t)>>_vars
=============================================================================
