------------------------------ MODULE Sessions ------------------------------
(***************************************************************************)
(* What the server promises about sessions, without sockets, streams or a   *)
(* main loop: a fixed number of seats; a peer takes the lowest free seat,   *)
(* may be welcomed there once, keeps that seat (its player number) until    *)
(* it leaves, and leaves nothing behind for the next peer in the seat.      *)
(***************************************************************************)
EXTENDS Integers

CONSTANTS Seats,    \* the player numbers, a set of integers
          People,   \* who may sit
          Nobody    \* the content of a free seat

VARIABLES seat,     \* per seat: who sits there, or Nobody
          welcomed  \* the seats whose peer was welcomed

Free == {i \in Seats : seat[i] = Nobody}

Init == /\ seat = [i \in Seats |-> Nobody]
        /\ welcomed = {}

\* p, who sits nowhere, takes the lowest free seat.
Enter(p) ==
    /\ \A i \in Seats : seat[i] # p
    /\ \E i \in Free : /\ \A j \in Free : i <= j
                       /\ seat' = [seat EXCEPT ![i] = p]
    /\ UNCHANGED welcomed

Greet(i) ==
    /\ i \notin Free \cup welcomed
    /\ welcomed' = welcomed \cup {i}
    /\ UNCHANGED seat

Leave(i) ==
    /\ i \notin Free
    /\ seat' = [seat EXCEPT ![i] = Nobody]
    /\ welcomed' = welcomed \ {i}

Next == \/ \E p \in People : Enter(p)
        \/ \E i \in Seats : Greet(i) \/ Leave(i)

Spec == Init /\ [][Next]_<<seat, welcomed>>
=============================================================================
