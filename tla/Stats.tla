-------------------------------- MODULE Stats --------------------------------
(***************************************************************************)
(* What a client makes of the stat packets it reads about a player: the     *)
(* stat blocks of OOPActorUpdate_Handler and OOPFullStatUpdate_Handler.     *)
(* Health stands for health, magicka and fatigue, which the code treats     *)
(* alike.  The nine other stats of a full stat update are left out: the     *)
(* server neither reads nor sets them, and sends on what its stack holds.   *)
(***************************************************************************)
EXTENDS Integers

Status == [Health : Int, bStatsInitialized : BOOLEAN]

\* What a client knows of a player it has heard nothing of.
Unheard == [Health |-> 1, bStatsInitialized |-> FALSE]

\* The status of a player after an update of it: initial values are taken once,
\* differences are added, and a sum below 0 is set to 0 when the actor is known.
Updated(status, pkt, known) ==
    IF 8 \in pkt.Flags
    THEN [Health |-> IF status.bStatsInitialized THEN status.Health ELSE pkt.Health,
          bStatsInitialized |-> TRUE]
    ELSE [status EXCEPT !.Health =
              IF known /\ @ + pkt.Health < 0 THEN 0 ELSE @ + pkt.Health]

\* The same for a full stat update: initial values are always taken, and no sum is
\* set to 0.
FullyUpdated(status, pkt) ==
    IF 8 \in pkt.Flags
    THEN [Health |-> pkt.Health, bStatsInitialized |-> TRUE]
    ELSE [status EXCEPT !.Health = @ + pkt.Health]
=============================================================================
