------------------------------- MODULE MCClaims -------------------------------
(***************************************************************************)
(* What the repository's README, comments and texts say of the program and *)
(* the code does not keep.  TLC finds a behaviour against each of these.   *)
(*                                                                         *)
(* Two history variables: ballots, who voted on which message this round,   *)
(* and shown, the author under each number a terminal was sent.            *)
(***************************************************************************)
EXTENDS MCAnonCred

VARIABLES ballots, shown

\* The vote the coordinator counts in this step, if it counts one.
Counted ==
    {m \in net \ net' : /\ m.type = "VOTE"
                        /\ m.to = Coord
                        /\ DecryptedReputationMap' # DecryptedReputationMap}

Ballot(m) == <<m.from, m.msgID>>

\* What was delivered to a client in this step: number and author.
Shown == {<<m.to, m.msgID, m.nym>> :
             m \in {n \in net \ net' : n.type = "MESSAGE" /\ n.to \in Addr}}

ClaimsInit == Init /\ ballots = {} /\ shown = {}

ClaimsNext ==
    /\ Next
    /\ ballots' = IF Status' = "ANNOUNCE" THEN {}
                  ELSE ballots \cup {Ballot(m) : m \in Counted}
    /\ shown' = shown \cup Shown

ClaimsSpec == ClaimsInit /\ [][ClaimsNext]_<<vars, ballots, shown>>

-----------------------------------------------------------------------------
\* CoordinatorHandler.go:160: a new client is kept in the buffer and sent to the
\* servers "when finishing this round".  clearBuffer() forgets those that came
\* before the first round or after the lists of the round were sent.
ConfirmedIsEnrolled ==
    [][\A k \in InBuffer \ InBuffer' : Member(k.base)']_NewClientsBuffer

\* README.md:52: the reputation changes at the end of a round and every client
\* gets the new one.  A negative one comes back from the servers as a large one.
ReputationKept ==
    [][\A k \in DecryptedKeysMap' : \E j \in DOMAIN keysAndVals :
          /\ j.base = k.base
          /\ DecryptedReputationMap'[k] = keysAndVals[j]]_G

\* ClientHandler.go:79: a "Duplicate vote" is refused; handleVote has the
\* comment "avoid duplicate vote" and a todo.
DuplicateVoteRefused ==
    [][\A m \in Counted : Ballot(m) \notin ballots]_DecryptedReputationMap

\* CoordinatorHandler.go:207: "verify the vote and reply to client".  When the
\* verification fails handleVote returns before it sends the reply.
VoteAnswered ==
    [][\A m \in net \ net' :
          m.type = "VOTE" /\ m.to = Coord /\ coordState' = "running"
          => \E r \in net' : r.type = "VOTE_REPLY" /\ r.to = m.from]_net

\* ClientHandler.go:76 tells the voter "Voting success!" and README.md:52 that
\* the reputation changes at the end of the round.  From the end of the announcement
\* until roundEnd() has read the map a vote is in the lists of the round, also
\* before main has noticed that the announcement is over.  A vote that comes when
\* the lists are already on their way is acknowledged and then overwritten.
AcknowledgedVoteCounts ==
    [][Counted # {} =>
        \/ mainPc \in {"message_phase", "vote", "vote_phase", "round_end"}
        \/ mainPc = "await_message" /\ Status = "MESSAGE"]_DecryptedReputationMap

\* README.md:18 lets users vote on a message by its number.  Numbers begin at 1
\* again each round: a vote on a number of the terminal may be counted for the
\* author of another message, one the voter was never shown.
VoteReachesAuthor ==
    [][\A m \in Counted : <<m.from, m.msgID, MsgLog[m.msgID]>> \in shown]_DecryptedReputationMap
=============================================================================
