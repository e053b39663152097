---------------------------- MODULE DissentClient -----------------------------
(***************************************************************************)
(* The clients (DissentClient.go and client/): a main goroutine that       *)
(* registers, waits for the first round and then sends the user's commands,*)
(* and a listener goroutine whose handlers set Status, G and               *)
(* OnetimePseudoNym, which main reads without any lock.                    *)
(***************************************************************************)
EXTENDS Network

CONSTANTS
    MaxCommands,   \* bound: the commands each user types
    Commands,      \* the kinds of command users type: "msg", "vote", "exit"
    TypedVotes     \* the numbers users type as a vote

ASSUME ClientAssumption ==
    /\ MaxCommands \in Nat
    /\ Commands \subseteq {"msg", "vote", "exit"}
    /\ TypedVotes \subseteq Int

VARIABLES
    clientPc,          \* main: "off", "waiting", "command", "signed", "exited"
    clientStatus,
    clientG,           \* nil is StdBase
    OnetimePseudoNym,
    storing,           \* listener: what handleAnnouncement has still to store
    request,           \* main: the request sendSigRequest is building
    printed,           \* the message numbers handleMsg has printed
    typed              \* commands typed so far

clientVars == <<clientPc, clientStatus, clientG, OnetimePseudoNym, storing,
                request, printed, typed>>

\* ClientStatus.go; VOTE is never set.
ClientStatuses == {"CONFIGURATION", "CONNECTED", "MESSAGE"}

ClientPcs == {"off", "waiting", "command", "signed", "exited"}

NoRequest == [type |-> "none"]

Nothing == [field |-> "none"]

Request ==
    [type : {"MESSAGE"}, g : Point]
    \cup [type : {"VOTE"}, g : Point, msgID : Nat, vote : {-1, 1}]

ClientTypeOK ==
    /\ clientPc \in [Client -> ClientPcs]
    /\ clientStatus \in [Client -> ClientStatuses]
    /\ clientG \in [Client -> Point]
    /\ OnetimePseudoNym \in [Client -> Point]
    /\ storing \in [Client -> {Nothing} \cup
                        [field : {"G", "OnetimePseudoNym"}, g : Point]]
    /\ request \in [Client -> {NoRequest} \cup Request]
    /\ \A c \in Client : clientPc[c] = "signed" <=> request[c] # NoRequest
    /\ printed \in [Client -> SUBSET Nat]
    /\ typed \in [Client -> Nat]

ClientInit ==
    /\ clientPc = [c \in Client |-> "off"]
    /\ clientStatus = [c \in Client |-> "CONFIGURATION"]
    /\ clientG = [c \in Client |-> StdBase]
    /\ OnetimePseudoNym = [c \in Client |-> Unset]
    /\ storing = [c \in Client |-> Nothing]
    /\ request = [c \in Client |-> NoRequest]
    /\ printed = [c \in Client |-> {}]
    /\ typed = [c \in Client |-> 0]

Alive(c) == clientPc[c] \notin {"off", "exited"}

ClientGoto(c, pc) == clientPc' = [clientPc EXCEPT ![c] = pc]

-----------------------------------------------------------------------------
(* main. *)

\* A socket address is free once the process that had it is gone.
Register(c) ==
    /\ clientPc[c] = "off"
    /\ \A d \in Client : Alive(d) => AddrOf[d] # AddrOf[c]
    /\ ClientGoto(c, "waiting")
    /\ Send({ClientRegisterControllerSide(c)})
    /\ UNCHANGED <<clientStatus, clientG, OnetimePseudoNym, storing, request,
                   printed, typed>>

\* Polls Status every half second until it is MESSAGE.
AwaitFirstRound(c) ==
    /\ clientPc[c] = "waiting"
    /\ clientStatus[c] = "MESSAGE"
    /\ ClientGoto(c, "command")
    /\ UNCHANGED <<clientStatus, clientG, OnetimePseudoNym, storing, request,
                   printed, typed, net>>

\* The user types a command.
Types(c, command) ==
    /\ clientPc[c] = "command"
    /\ command \in Commands
    /\ typed[c] < MaxCommands
    /\ typed' = [typed EXCEPT ![c] = @ + 1]

\* sendSigRequest, first half: the signature, over the generator of now.
Sign(c, req) ==
    /\ request' = [request EXCEPT ![c] = req]
    /\ ClientGoto(c, "signed")
    /\ UNCHANGED <<clientStatus, clientG, OnetimePseudoNym, storing, printed,
                   net>>

SendMsg(c) ==
    /\ Types(c, "msg")
    /\ Sign(c, [type |-> "MESSAGE", g |-> clientG[c]])

\* Mutant: the number goes out as it was typed.
RawVote(number) == number

\* Anything that is not positive counts as -1.
VoteOf(number) == IF number > 0 THEN 1 ELSE -1

\* The user votes on a message the terminal shows, in whatever phase.
SendVote(c) ==
    /\ Types(c, "vote")
    /\ \E msgID \in printed[c], number \in TypedVotes :
          Sign(c, [type |-> "VOTE", g |-> clientG[c], msgID |-> msgID,
                   vote |-> VoteOf(number)])

\* sendSigRequest, second half: the nym of now goes into the request.
SendRequest(c) ==
    /\ clientPc[c] = "signed"
    /\ LET req == request[c]
           nym == OnetimePseudoNym[c]
           sig == ElGamalSign(c, req.g)
       IN  Send({IF req.type = "MESSAGE"
                 THEN SignedMsg(AddrOf[c], nym, sig, typed[c])
                 ELSE SignedVote(AddrOf[c], nym, sig, req.msgID, req.vote,
                                 typed[c])})
    /\ request' = [request EXCEPT ![c] = NoRequest]
    /\ ClientGoto(c, "command")
    /\ UNCHANGED <<clientStatus, clientG, OnetimePseudoNym, storing, printed,
                   typed>>

Exit(c) ==
    /\ Types(c, "exit")
    /\ ClientGoto(c, "exited")
    /\ UNCHANGED <<clientStatus, clientG, OnetimePseudoNym, storing, request,
                   printed, net>>

-----------------------------------------------------------------------------
(* The listener. *)

ClientHandles(type, c, m) ==
    /\ Alive(c)
    /\ storing[c] = Nothing
    /\ m.to = AddrOf[c]
    /\ m.type = type

ClientHandleRegisterConfirmation(c, m) ==
    /\ ClientHandles("CLIENT_REGISTER_CONFIRMATION", c, m)
    /\ clientStatus' = [clientStatus EXCEPT ![c] = "CONNECTED"]
    /\ Reply(m, {})
    /\ UNCHANGED <<clientPc, clientG, OnetimePseudoNym, storing, request,
                   printed, typed>>

\* handleAnnouncement stores Status, then G, then OnetimePseudoNym.
ClientHandleAnnouncement(c, m) ==
    /\ ClientHandles("ANNOUNCEMENT", c, m)
    /\ clientStatus' = [clientStatus EXCEPT ![c] = "MESSAGE"]
    /\ storing' = [storing EXCEPT ![c] = [field |-> "G", g |-> m.g]]
    /\ Reply(m, {})
    /\ UNCHANGED <<clientPc, clientG, OnetimePseudoNym, request, printed, typed>>

ClientStoreG(c) ==
    /\ Alive(c)
    /\ storing[c].field = "G"
    /\ clientG' = [clientG EXCEPT ![c] = storing[c].g]
    /\ storing' = [storing EXCEPT ![c].field = "OnetimePseudoNym"]
    /\ UNCHANGED <<clientPc, clientStatus, OnetimePseudoNym, request, printed,
                   typed, net>>

ClientStoreNym(c) ==
    /\ Alive(c)
    /\ storing[c].field = "OnetimePseudoNym"
    /\ OnetimePseudoNym' =
          [OnetimePseudoNym EXCEPT ![c] = Pseudonym(storing[c].g, c)]
    /\ storing' = [storing EXCEPT ![c] = Nothing]
    /\ UNCHANGED <<clientPc, clientStatus, clientG, request, printed, typed, net>>

\* The client's own messages are not printed.
ClientHandleMsg(c, m) ==
    /\ ClientHandles("MESSAGE", c, m)
    /\ printed' = [printed EXCEPT ![c] =
                      IF m.nym = OnetimePseudoNym[c] THEN @
                      ELSE @ \cup {m.msgID}]
    /\ Reply(m, {})
    /\ UNCHANGED <<clientPc, clientStatus, clientG, OnetimePseudoNym, storing,
                   request, typed>>

ClientHandleRoundEnd(c, m) ==
    /\ ClientHandles("ROUND_END", c, m)
    /\ clientStatus' = [clientStatus EXCEPT ![c] = "CONNECTED"]
    /\ Reply(m, {})
    /\ UNCHANGED <<clientPc, clientG, OnetimePseudoNym, storing, request,
                   printed, typed>>

\* handleVotePhaseStart, handleVoteReply and handleMsgReply only print.
ClientPrints(c, m) ==
    /\ \/ ClientHandles("VOTE", c, m)
       \/ ClientHandles("VOTE_REPLY", c, m)
       \/ ClientHandles("MSG_REPLY", c, m)
    /\ Reply(m, {})
    /\ UNCHANGED clientVars

ClientMainNext(c) ==
    \/ AwaitFirstRound(c) \/ SendRequest(c)
    \/ SendMsg(c) \/ SendVote(c) \/ Exit(c)

ClientListenerNext(c) ==
    \/ \E m \in net :
          \/ ClientHandleRegisterConfirmation(c, m)
          \/ ClientHandleAnnouncement(c, m)
          \/ ClientHandleMsg(c, m)
          \/ ClientHandleRoundEnd(c, m)
          \/ ClientPrints(c, m)
    \/ ClientStoreG(c)
    \/ ClientStoreNym(c)

ClientNext == \E c \in Client : ClientMainNext(c) \/ ClientListenerNext(c)
=============================================================================
