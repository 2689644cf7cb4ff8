---------------------------- MODULE MCStatStream ----------------------------
(***************************************************************************)
(* An instance of StatStream for TLC: the packets that concern stats, and   *)
(* who is there to hear of them.                                            *)
(***************************************************************************)
EXTENDS StatStream, MCServer

\* Health 1 is the value the server starts with, 0 the boundary of the clamp, which
\* -1 is below.
PlayPackets ==
    {Login(TRUE, TRUE), Ready,
     Report(0, -1), Report(0, 3), Report(1, 3),
     FullReport({2}, 0, 0), FullReport({1, 2, 8}, 0, 3)}

\* What a listener that was not told full values holds is overwritten before it
\* matters: states that differ in it alone are explored once.
FollowedView ==
    <<StateView, full,
      [p \in Peers |-> [r \in Slots |->
           <<held[p][r].bStatsInitialized,
             IF r \in full[p] THEN held[p][r].Health ELSE 0>>]]>>
=============================================================================
