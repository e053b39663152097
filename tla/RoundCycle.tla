------------------------------ MODULE RoundCycle ------------------------------
(***************************************************************************)
(* What the rounds of AnonCred promise, without any data.  Three parties   *)
(* take turns: the coordinator's main goroutine, the chain of servers, and *)
(* the listener goroutine that is about to declare a round over.  Only the *)
(* party whose turn it is moves the phase, so the coordinator needs        *)
(* neither locks nor round numbers.  A turn that is lost on the chain is   *)
(* lost for good: then nobody moves again.                                 *)
(***************************************************************************)

VARIABLES
    phase,   \* "CONFIGURATION", "READY_FOR_NEW_ROUND", "ANNOUNCE", "MESSAGE"
    turn     \* "main", "chain", "listener", or "nobody" once it is lost

Init == phase = "CONFIGURATION" /\ turn = "main"

\* A party hands over: the phase and the turn go from one pair to the next.
Hand(phase1, turn1, phase2, turn2) ==
    /\ phase = phase1 /\ turn = turn1
    /\ phase' = phase2 /\ turn' = turn2

\* The operator's ok.
Configure == Hand("CONFIGURATION", "main", "READY_FOR_NEW_ROUND", "main")

BeginRound == Hand("READY_FOR_NEW_ROUND", "main", "ANNOUNCE", "main")

\* The reputation list leaves, or there is no server to give it to.
Announce ==
    \/ Hand("ANNOUNCE", "main", "ANNOUNCE", "chain")
    \/ Hand("ANNOUNCE", "main", "MESSAGE", "main")

\* The list is back: messages and votes may come.
AnnouncementBack == Hand("ANNOUNCE", "chain", "MESSAGE", "main")

\* The lists of the round's end leave, or there is no server to give them to.
EndRound ==
    \/ Hand("MESSAGE", "main", "MESSAGE", "chain")
    \/ Hand("MESSAGE", "main", "READY_FOR_NEW_ROUND", "main")

\* The list is back and stored; the listener waits before it says so.
RoundEndBack == Hand("MESSAGE", "chain", "MESSAGE", "listener")

RoundOver == Hand("MESSAGE", "listener", "READY_FOR_NEW_ROUND", "main")

\* A datagram is lost, or a server dies of it.
LoseTurn ==
    /\ turn = "chain"
    /\ turn' = "nobody"
    /\ UNCHANGED phase

Next ==
    \/ Configure \/ BeginRound \/ Announce \/ AnnouncementBack
    \/ EndRound \/ RoundEndBack \/ RoundOver \/ LoseTurn

Spec == Init /\ [][Next]_<<phase, turn>>
=============================================================================
