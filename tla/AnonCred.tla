------------------------------- MODULE AnonCred -------------------------------
(***************************************************************************)
(* The whole system: the coordinator, the servers and the clients on one   *)
(* network.  A step is a step of one goroutine of one process.             *)
(*                                                                         *)
(* README.md tells the operator to launch the coordinator, then the        *)
(* servers, to type "ok" when all of them are up, and then the clients.    *)
(* The program checks none of this: three constants say how far the        *)
(* people who launch it keep to that order.                                *)
(***************************************************************************)
EXTENDS Coordinator, AnonServer, DissentClient, SequencesExt

CONSTANTS
    PatientOperator,   \* is "ok" typed only when the server chain is linked?
    LateServers,       \* may servers be launched after "ok"?
    EarlyClients       \* may clients be launched before "ok"?

ASSUME OperatorAssumption ==
    /\ PatientOperator \in BOOLEAN
    /\ LateServers \in BOOLEAN
    /\ EarlyClients \in BOOLEAN

vars == <<net, coordVars, serverVars, clientVars>>

Init == NetInit /\ CoordInit /\ ServerInit /\ ClientInit

-----------------------------------------------------------------------------
(* The people who launch and configure the processes. *)

LaunchServer(s) ==
    /\ LateServers \/ mainPc = "read_ok"
    /\ ServerStart(s)
    /\ UNCHANGED <<coordVars, clientVars>>

LaunchClient(c) ==
    /\ EarlyClients \/ mainPc # "read_ok"
    /\ Register(c)
    /\ UNCHANGED <<coordVars, serverVars>>

\* Every server says "Register success" and the changes of the next hops have
\* had the time to arrive.
ChainLinked ==
    /\ \A s \in Server : serverState[s] = "running" /\ IsConnected[s]
    /\ ~ \E m \in net : m.type = "UPDATE_NEXT_HOP"

EndConfiguration ==
    /\ PatientOperator => ChainLinked
    /\ ReadOk
    /\ UNCHANGED <<serverVars, clientVars>>

-----------------------------------------------------------------------------
LaunchNext ==
    \/ \E s \in Server : LaunchServer(s)
    \/ \E c \in Client : LaunchClient(c)
    \/ EndConfiguration

CoordStep == CoordNext /\ UNCHANGED <<serverVars, clientVars>>

ServerStep == ServerNext /\ UNCHANGED <<coordVars, clientVars>>

ClientStep == ClientNext /\ UNCHANGED <<coordVars, serverVars>>

NetStep == Lose /\ UNCHANGED <<coordVars, serverVars, clientVars>>

Next == LaunchNext \/ CoordStep \/ ServerStep \/ ClientStep \/ NetStep

Spec == Init /\ [][Next]_vars

\* Goroutines are scheduled and datagrams that are not lost arrive; nobody has
\* to launch a client or type a command, and a request half built is sent.
Fairness ==
    /\ \A s \in Server : WF_vars(LaunchServer(s))
    /\ WF_vars(EndConfiguration)
    /\ WF_vars(MainNext /\ UNCHANGED <<serverVars, clientVars>>)
    /\ WF_vars(ListenerNext /\ UNCHANGED <<serverVars, clientVars>>)
    /\ \A s \in Server :
          WF_vars(ServerListenerNext(s) /\ UNCHANGED <<coordVars, clientVars>>)
    /\ \A c \in Client :
          /\ WF_vars(ClientListenerNext(c) /\ UNCHANGED <<coordVars, serverVars>>)
          /\ WF_vars(SendRequest(c) /\ UNCHANGED <<coordVars, serverVars>>)

FairSpec == Spec /\ Fairness

-----------------------------------------------------------------------------
(* Safety. *)

\* Every variable holds what the code's declarations and handlers allow; the
\* datagrams in flight are those the constructors of Network build.
TypeOK ==
    /\ net \subseteq Datagram
    /\ CoordTypeOK
    /\ ServerTypeOK
    /\ ClientTypeOK

\* Everything that is on its way between coordinator and servers for a round.
RoundDatagrams ==
    {m \in net : /\ m.type \in {"ANNOUNCEMENT", "ROUND_END"}
                 /\ m.to \in Server \cup {Coord}}

\* Main is waiting for the round to be over or has just begun the next.
BetweenRounds == {"await_ready", "clear_buffer", "check_ready"}

\* Nobody numbers the rounds: main, the listener and the servers stay in step
\* because at most one announcement or round end is on the chain, none while the
\* listener has yet to write Status, and main is where it waits for just that one
\* (Coordinator.go:167-205, CoordinatorHandler.go:272).
PhaseInv ==
    /\ \A m1, m2 \in RoundDatagrams : m1 = m2
    /\ \A m \in RoundDatagrams :
          IF m.type = "ANNOUNCEMENT"
          THEN mainPc = "await_message" /\ Status = "ANNOUNCE"
          ELSE mainPc \in BetweenRounds /\ Status = "MESSAGE"
    /\ listenerPc = "sleeping" =>
          mainPc \in BetweenRounds /\ Status = "MESSAGE" /\ RoundDatagrams = {}
    /\ mainPc = "read_ok" => Status = "CONFIGURATION"
    /\ mainPc \in BetweenRounds => Status \in {"READY_FOR_NEW_ROUND", "MESSAGE"}
    /\ mainPc = "announce" => Status = "ANNOUNCE"
    /\ mainPc = "await_message" => Status \in {"ANNOUNCE", "MESSAGE"}
    /\ mainPc \in {"message_phase", "vote", "vote_phase", "round_end"} =>
          Status = "MESSAGE"

\* Servers are linked in the order they registered, in both directions; where a
\* hop is not yet stored the datagram that will store it is on its way and no
\* later one can overtake it (handleServerRegister, handleUpdateNextHop).
ChainFollowsServerList ==
    LET n == Len(ServerList)
        hop(i) == IF i \in 1 .. n THEN ServerList[i] ELSE Coord
    IN  \A i \in 1 .. n :
          LET s == ServerList[i]
          IN  /\ \/ /\ NextHop[s] = hop(i + 1)
                    /\ ~ \E m \in net : m.type = "UPDATE_NEXT_HOP" /\ m.to = s
                 \/ NextHop[s] = Coord /\ i < n /\ UpdateNextHop(s, hop(i + 1)) \in net
              /\ \/ IsConnected[s] /\ PreviousHop[s] = hop(i - 1)
                 \/ ~ IsConnected[s] /\ ServerRegisterReply(s, hop(i - 1)) \in net

\* The way back undoes the way there: what the coordinator stores at the end of
\* a round are long-term keys, raised to nothing, each with a value that is
\* encrypted for every server, the first server's layer outermost, although the
\* secrets of the servers changed under the list while it passed.
UnwoundByRoundEnd ==
    \A k \in DOMAIN ReputationMap :
        /\ k.exps = <<>>
        /\ ReputationMap[k].layers = Reverse(ServerList)

\* An announcement meets the servers in the order of its layers and comes home
\* plain: the anon.Decrypt of a server fails on nothing but its own layer and
\* ByteToInt would read anything else as a number (AnonServerHandler.go:253).
AnnouncementPeels ==
    \A m \in RoundDatagrams : m.type = "ANNOUNCEMENT" =>
        \A e \in m.entries :
            IF m.to = Coord THEN e.val.layers = <<>> ELSE CanDecrypt(e.val, m.to)

\* A list dies on a broken chain, it does not come home damaged.  Whatever was
\* launched late, lost or not yet linked when a list left, and whichever servers it
\* bypassed in either direction: if the coordinator gets lines of an announcement,
\* it can read their values, and their keys are the pseudonyms their owners will
\* compute from the generator next to them (AnonServerHandler.go:101, 237, 253).
ComesHomeWhole ==
    \A m \in RoundDatagrams : m.type = "ANNOUNCEMENT" /\ m.to = Coord =>
        \A e \in m.entries :
            /\ e.val.layers = <<>>
            /\ e.key = Pseudonym(m.g, e.key.base)

\* A pseudonym of one round says nothing about the next: the generator under
\* way shares no secret of any server with the one clients use now.
FreshRoundkeys ==
    \A m \in RoundDatagrams : m.type = "ANNOUNCEMENT" =>
        \A i \in DOMAIN m.g.exps, j \in DOMAIN G.exps : m.g.exps[i] # G.exps[j]

Member(c) == PublicKey(c) \in DOMAIN ReputationMap

\* A member who works with the coordinator's generator computes the pseudonym
\* the servers computed: by registration, by announcement and by
\* client.handleAnnouncement the same point comes out, so reputation finds it.
AgreeOnNym ==
    \A c \in Client :
        /\ Member(c) /\ storing[c] = Nothing
        /\ clientG[c] = G /\ OnetimePseudoNym[c] # Unset
        => OnetimePseudoNym[c] \in DecryptedKeysMap

-----------------------------------------------------------------------------
(* The rounds as RoundCycle has them. *)

\* Whose turn it is.  While main waits for the chain and nothing is on it, the
\* datagram of the round is gone.
Turn ==
    IF RoundDatagrams # {} THEN "chain"
    ELSE IF listenerPc = "sleeping" THEN "listener"
    ELSE IF \/ mainPc = "await_message" /\ Status = "ANNOUNCE"
            \/ mainPc \in BetweenRounds /\ Status = "MESSAGE"
    THEN "nobody" ELSE "main"

Cycle == INSTANCE RoundCycle WITH phase <- Status, turn <- Turn

\* The coordinator's goroutines and the servers take turns: whatever is delayed,
\* lost or launched late, Status is only written by the party whose turn it is,
\* and each answer of the chain is taken for the phase that asked for it.
TakesTurns == Cycle!Spec

-----------------------------------------------------------------------------
(* What a step may never do. *)

\* Status goes round in one order, whichever goroutine writes it and however
\* late a datagram arrives: no handler puts a finished phase back.
StatusOrder ==
    {<<"CONFIGURATION", "READY_FOR_NEW_ROUND">>,
     <<"READY_FOR_NEW_ROUND", "ANNOUNCE">>,
     <<"ANNOUNCE", "MESSAGE">>,
     <<"MESSAGE", "READY_FOR_NEW_ROUND">>}

StatusCycle == [][(<<Status, Status'>> \in StatusOrder)]_Status

\* Who is once in the reputation map stays there: no interleaving of
\* registrations, votes and round ends drops a member from the list the
\* coordinator stores.
MembersStay == [][\A c \in Client : Member(c) => Member(c)']_ReputationMap

\* The reputations of a round are those of the end of the round before, owner
\* by owner, although keys and values were raised, encrypted and shuffled
\* twice on the way (as the 32-bit words they travel as).
ReputationCarriedOver ==
    [][G' # G =>
        /\ \A k \in DecryptedKeysMap' : \E j \in DOMAIN keysAndVals :
              /\ j.base = k.base
              /\ DecryptedReputationMap'[k] = IntToByte(keysAndVals[j])
        /\ \A j \in DOMAIN keysAndVals :
              \E k \in DecryptedKeysMap' : j.base = k.base]_G

-----------------------------------------------------------------------------
(* Liveness, under FairSpec. *)

ProcessDied ==
    \/ coordState # "running"
    \/ \E s \in Server : serverState[s] \notin {"off", "running"}

\* A client that registered hears of it.
RegistrationAnswered ==
    \A c \in Client :
        clientPc[c] = "waiting"
            ~> clientStatus[c] # "CONFIGURATION" \/ ProcessDied

\* An announcement that left comes home and the message phase begins, also when
\* there is no client or no server.
AnnouncementEnds == Status = "ANNOUNCE" ~> Status = "MESSAGE" \/ ProcessDied

\* The end of a round is followed by readiness for the next one.
RoundEnds == mainPc = "round_end" ~> ReadyForNewRound \/ ProcessDied
=============================================================================
