----------------------------- MODULE Coordinator ------------------------------
(***************************************************************************)
(* The coordinator (Coordinator.go and coordinator/): a main goroutine that*)
(* drives the rounds and a listener goroutine that runs one handler per    *)
(* datagram.  They share the fields of anonCoordinator without any lock.   *)
(*                                                                         *)
(* Handlers are atomic steps of the listener, except handleRoundEnd, which *)
(* sleeps before it changes Status.  The main goroutine moves from one     *)
(* access of shared state to the next.  Where a handler and main touch the *)
(* same map or slice at the same time the outcome is a choice over what    *)
(* the race can produce.                                                   *)
(***************************************************************************)
EXTENDS Network

CONSTANTS
    MaxRounds,        \* bound: the rounds main begins
    Timeouts          \* may 100 polls of one second run out?

ASSUME CoordinatorAssumption ==
    /\ MaxRounds \in Nat
    /\ Timeouts \in BOOLEAN

VARIABLES
    coordState,       \* "running", or what the process died of
    Status,
    ServerList,
    Clients,          \* public key -> client address
    G,                \* generator of the round; nil is StdBase
    ReputationMap,    \* long-term key -> encrypted reputation
    DecryptedReputationMap,   \* nym -> reputation (may hold nyms without key)
    DecryptedKeysMap,         \* the nyms whose point is stored
    NewClientsBuffer,
    MsgLog,           \* nyms of the message senders; message n is MsgLog[n]
    mainPc,           \* where main is
    listenerPc,       \* "receiving", or "sleeping" inside handleRoundEnd
    round,            \* rounds begun: a counter of main's loop
    keysAndVals,      \* the reputations roundEnd() last put into its lists
    lastServer        \* roundEnd()'s local of that name; Coord outside of it

chainVars == <<ServerList>>
mapVars == <<ReputationMap, DecryptedReputationMap, DecryptedKeysMap>>
logVars == <<NewClientsBuffer, MsgLog>>
mainVars == <<mainPc, round, keysAndVals, lastServer>>
coordVars == <<coordState, Status, chainVars, Clients, G, mapVars, logVars,
               listenerPc, mainVars>>

CoordStates == {"running", "timeout", "no_server", "index", "race",
                "bad_point"}

\* CoordinatorStatus.go; VOTE, SERVER_CONFIGURATION and UNKNOWN are never set.
Statuses == {"CONFIGURATION", "READY_FOR_NEW_ROUND", "ANNOUNCE", "MESSAGE"}

MainPcs == {"read_ok", "await_ready", "clear_buffer", "check_ready", "announce",
            "await_message", "message_phase", "vote", "vote_phase",
            "round_end"}

CoordTypeOK ==
    /\ coordState \in CoordStates
    /\ Status \in Statuses
    /\ ServerList \in Seq(Server)
    /\ IsMap(Clients, Point, Addr)
    /\ G \in Point
    /\ IsMap(ReputationMap, Point, Onion)
    /\ IsMap(DecryptedReputationMap, Point, Int)
    /\ DecryptedKeysMap \subseteq Point
    /\ NewClientsBuffer \in Seq(Point)
    /\ MsgLog \in Seq(Point)
    /\ mainPc \in MainPcs
    /\ listenerPc \in {"receiving", "sleeping"}
    /\ round \in Nat
    /\ IsMap(keysAndVals, Point, Int)
    /\ lastServer \in IF mainPc = "round_end" THEN Server ELSE {Coord}

CoordInit ==
    /\ coordState = "running"
    /\ Status = "CONFIGURATION"
    /\ ServerList = <<>>
    /\ Clients = NoEntries
    /\ G = StdBase
    /\ ReputationMap = NoEntries
    /\ DecryptedReputationMap = NoEntries
    /\ DecryptedKeysMap = {}
    /\ NewClientsBuffer = <<>>
    /\ MsgLog = <<>>
    /\ mainPc = "read_ok"
    /\ listenerPc = "receiving"
    /\ round = 0
    /\ keysAndVals = NoEntries
    /\ lastServer = Coord

-----------------------------------------------------------------------------
(* Methods of Coordinator. *)

GetFirstServer == ServerList[1]

GetLastServer == ServerList[Len(ServerList)]

\* Mutant: the client with the same address is not looked for.
AddClientOnly(key, addr) ==
    [k \in DOMAIN Clients \cup {key} |-> IF k = key THEN addr ELSE Clients[k]]

\* Deletes one entry with the same address, if there is one, then stores.
AddClient(key, addr) ==
    LET same == {k \in DOMAIN Clients : Clients[k] = addr}
        kept == IF same = {} THEN DOMAIN Clients
                ELSE DOMAIN Clients \ {CHOOSE k \in same : TRUE}
    IN  [k \in kept \cup {key} |-> IF k = key THEN addr ELSE Clients[k]]

ClientAddrs == {Clients[k] : k \in DOMAIN Clients}

\* A missing key reads as the zero value.
GetReputation(nym) ==
    IF nym \in DOMAIN DecryptedReputationMap
    THEN DecryptedReputationMap[nym] ELSE 0

Put(map, key, val) ==
    [k \in DOMAIN map \cup {key} |-> IF k = key THEN val ELSE map[k]]

InBuffer == {NewClientsBuffer[i] : i \in DOMAIN NewClientsBuffer}

\* A received list as the map it is stored into.
MapOf(entries) ==
    [k \in KeysOf(entries) |-> (CHOOSE e \in entries : e.key = k).val]

-----------------------------------------------------------------------------
(* The main goroutine. *)

MainAt(pc) == coordState = "running" /\ mainPc = pc

MainGoto(pc) == mainPc' = pc /\ UNCHANGED <<round, keysAndVals, lastServer>>

\* The operator types "ok".
ReadOk ==
    /\ MainAt("read_ok")
    /\ Status' = "READY_FOR_NEW_ROUND"
    /\ MainGoto("await_ready")
    /\ UNCHANGED <<coordState, chainVars, Clients, G, mapVars, logVars,
                   listenerPc, net>>

\* Mutant: the end of the round is not waited for.
NotAnnouncing == Status # "ANNOUNCE"

ReadyForNewRound == Status = "READY_FOR_NEW_ROUND"

\* Polls Status up to 100 times; leaves the loop either way.
AwaitReady ==
    /\ MainAt("await_ready")
    /\ round < MaxRounds
    /\ ReadyForNewRound \/ Timeouts
    /\ MainGoto("clear_buffer")
    /\ UNCHANGED <<coordState, Status, chainVars, Clients, G, mapVars, logVars,
                   listenerPc, net>>

ClearBuffer ==
    /\ MainAt("clear_buffer")
    /\ NewClientsBuffer' = <<>>
    /\ MsgLog' = <<>>
    /\ MainGoto("check_ready")
    /\ UNCHANGED <<coordState, Status, chainVars, Clients, G, mapVars,
                   listenerPc, net>>

\* Dies if the round is still not over, else enters the announcement phase.
CheckReady ==
    /\ MainAt("check_ready")
    /\ \/ /\ ReadyForNewRound
          /\ Status' = "ANNOUNCE"
          /\ mainPc' = "announce"
          /\ round' = round + 1
          /\ UNCHANGED <<coordState, keysAndVals, lastServer>>
       \/ /\ ~ ReadyForNewRound
          /\ coordState' = "timeout"
          /\ UNCHANGED <<Status, mainVars>>
    /\ UNCHANGED <<chainVars, Clients, G, mapVars, logVars, listenerPc, net>>

\* Mutant: announce() returns without a server, but leaves Status alone.
SkipAnnouncementOnly == UNCHANGED <<Status, net>>

SkipAnnouncement == Status' = "MESSAGE" /\ UNCHANGED net

\* announce(): the encrypted reputation list goes to the first server.
Announce ==
    /\ MainAt("announce")
    /\ \/ /\ ServerList = <<>>
          /\ SkipAnnouncement
       \/ /\ ServerList # <<>>
          /\ Send({Announcement(GetFirstServer,
                      {[key |-> k, val |-> ReputationMap[k]] :
                          k \in DOMAIN ReputationMap}, StdBase)})
          /\ UNCHANGED Status
    /\ MainGoto("await_message")
    /\ UNCHANGED <<coordState, chainVars, Clients, G, mapVars, logVars,
                   listenerPc>>

AwaitMessage ==
    /\ MainAt("await_message")
    /\ \/ /\ Status = "MESSAGE"
          /\ MainGoto("message_phase")
          /\ UNCHANGED coordState
       \/ /\ Status # "MESSAGE"
          /\ Timeouts
          /\ coordState' = "timeout"
          /\ UNCHANGED mainVars
    /\ UNCHANGED <<Status, chainVars, Clients, G, mapVars, logVars, listenerPc,
                   net>>

\* Ten seconds of messages are over; vote() begins to range over Clients.
BeginVote ==
    /\ MainAt("message_phase")
    /\ MainGoto("vote")
    /\ UNCHANGED <<coordState, Status, chainVars, Clients, G, mapVars, logVars,
                   listenerPc, net>>

Vote ==
    /\ MainAt("vote")
    /\ Send({ClientVotePhase(a, round) : a \in ClientAddrs})
    /\ MainGoto("vote_phase")
    /\ UNCHANGED <<coordState, Status, chainVars, Clients, G, mapVars, logVars,
                   listenerPc>>

\* Mutant: the list of a round's end is made of the new clients alone.
OnlyNewClients == [k \in InBuffer |-> 0]

\* AddIntoDecryptedMap(nym, 0) for every nym of the buffer.
WithNewClients ==
    [k \in DOMAIN DecryptedReputationMap \cup InBuffer |->
        IF k \in InBuffer THEN 0 ELSE DecryptedReputationMap[k]]

\* roundEnd(), first half: the buffered clients enter the maps.
AddNewClients ==
    /\ MainAt("vote_phase")
    /\ \/ /\ ServerList = <<>>
          /\ Status' = "READY_FOR_NEW_ROUND"
          /\ MainGoto("await_ready")
          /\ UNCHANGED mapVars
       \/ /\ ServerList # <<>>
          /\ DecryptedKeysMap' = DecryptedKeysMap \cup InBuffer
          /\ DecryptedReputationMap' = WithNewClients
          /\ mainPc' = "round_end"
          /\ lastServer' = GetLastServer
          /\ UNCHANGED <<round, keysAndVals>>
          /\ UNCHANGED <<Status, ReputationMap>>
    /\ UNCHANGED <<coordState, chainVars, Clients, G, logVars, listenerPc, net>>

\* roundEnd(), second half: the lists are built from the maps and sent to the
\* last server.  A nym without a stored point gives a nil point, which the
\* encoding of the key list skips: its value is one value too many.
SendRoundEnd ==
    /\ MainAt("round_end")
    /\ LET listed == DOMAIN DecryptedReputationMap \cap DecryptedKeysMap
           nil == DOMAIN DecryptedReputationMap \ DecryptedKeysMap
       IN  /\ keysAndVals' = [k \in listed |-> DecryptedReputationMap[k]]
           /\ Send({RoundEnd(lastServer,
                        {[key |-> k, val |-> Plain(DecryptedReputationMap[k])] :
                            k \in listed},
                        nil # {}, TRUE)})
    /\ mainPc' = "await_ready"
    /\ lastServer' = Coord
    /\ UNCHANGED <<coordState, Status, chainVars, Clients, G, mapVars, logVars,
                   listenerPc, round>>

MainNext ==
    \/ AwaitReady \/ ClearBuffer \/ CheckReady \/ Announce
    \/ AwaitMessage \/ BeginVote \/ Vote \/ AddNewClients \/ SendRoundEnd

-----------------------------------------------------------------------------
(* The listener goroutine. *)

\* The listener takes m out of the socket and calls the handler of its type.
Handles(type, m) ==
    /\ coordState = "running"
    /\ listenerPc = "receiving"
    /\ m.to = Coord
    /\ m.type = type

\* The handler panics: the process is gone.
CoordDies(m, cause) ==
    /\ coordState' = cause
    /\ Reply(m, {})
    /\ UNCHANGED <<Status, chainVars, Clients, G, mapVars, logVars, listenerPc,
                   mainVars>>

\* The handler writes what main is reading inside the call at pc.
DiesOfRace(m, pc) == mainPc = pc /\ CoordDies(m, "race")

\* Mutant: the first server is relinked, not the last.
RelinkFirst(s) ==
    IF ServerList = <<>> THEN {ServerRegisterReply(s, Coord)}
    ELSE {UpdateNextHop(GetFirstServer, s), ServerRegisterReply(s, GetLastServer)}

\* What tells the new server and the last one that they are neighbours.
Relink(s) ==
    IF ServerList = <<>> THEN {ServerRegisterReply(s, Coord)}
    ELSE {UpdateNextHop(GetLastServer, s), ServerRegisterReply(s, GetLastServer)}

CoordHandleServerRegister(m) ==
    /\ Handles("SERVER_REGISTER", m)
    /\ Reply(m, Relink(m.from))
    /\ ServerList' = Append(ServerList, m.from)
    /\ UNCHANGED <<coordState, Status, Clients, G, mapVars, logVars, listenerPc,
                   mainVars>>

\* Without a server the address to send to is nil and Send panics.
CoordHandleClientRegisterControllerSide(m) ==
    /\ Handles("CLIENT_REGISTER_CONTROLLERSIDE", m)
    /\ \/ DiesOfRace(m, "vote")
       \/ /\ Clients' = AddClient(m.public_key, m.from)
          /\ \/ /\ ServerList = <<>>
                /\ coordState' = "no_server"
                /\ Reply(m, {})
             \/ /\ ServerList # <<>>
                /\ Reply(m, {ClientRegisterServerSide(GetFirstServer,
                                m.public_key, m.from)})
                /\ UNCHANGED coordState
          /\ UNCHANGED <<Status, chainVars, G, mapVars, logVars, listenerPc,
                         mainVars>>

\* Mutant: the client is buffered but not told.
ConfirmNothing(m) == {}

Confirm(m) == {ClientRegisterConfirmation(m.addr, m.public_key)}

\* The nym came back from the last server: confirm it and buffer it for the
\* end of the round.  The append stores the new length before the element, so
\* roundEnd() may read a nil nym and panic.  If main is just then clearing the
\* buffer, the store of either goroutine may be the last one.
CoordHandleClientRegisterServerSide(m) ==
    /\ Handles("CLIENT_REGISTER_SERVERSIDE", m)
    /\ \/ DiesOfRace(m, "round_end")
       \/ /\ NewClientsBuffer' = Append(NewClientsBuffer, m.public_key)
          /\ Reply(m, Confirm(m))
          /\ \/ UNCHANGED <<MsgLog, mainVars>>
             \/ /\ MainAt("clear_buffer")
                /\ MsgLog' = <<>>
                /\ MainGoto("check_ready")
          /\ UNCHANGED <<coordState, Status, chainVars, Clients, G, mapVars,
                         listenerPc>>

\* The keys of a list whose values are still encrypted for some server.
Unread(entries) == {k \in KeysOf(entries) : MapOf(entries)[k].layers # <<>>}

\* The first four bytes of each value as an integer.  Of a value that is still
\* encrypted these are bytes of the ciphertext, any word.
Decrypted(entries, garbled) ==
    [k \in KeysOf(entries) |->
        IF k \in Unread(entries) THEN garbled[k]
        ELSE ByteToInt(MapOf(entries)[k].rep)]

\* Mutant: an empty list is ignored altogether.
IgnoreEmptyList(m) ==
    /\ m.entries = {}
    /\ Reply(m, {})
    /\ UNCHANGED <<Status, mapVars, G>>

\* There is no member yet: only Status moves.
FinishEmptyList(m) ==
    /\ m.entries = {}
    /\ Reply(m, {})
    /\ Status' = "MESSAGE"
    /\ UNCHANGED <<mapVars, G>>

\* The servers are done: rebuild the decrypted maps, tell every client the
\* generator of the round.
FinishAnnouncement(m) ==
    /\ m.entries # {}
    /\ DecryptedKeysMap' = KeysOf(m.entries)
    /\ \E garbled \in [Unread(m.entries) -> 0 .. Modulus - 1] :
          DecryptedReputationMap' = Decrypted(m.entries, garbled)
    /\ Reply(m, {ClientAnnouncement(a, m.g) : a \in ClientAddrs})
    /\ G' = m.g
    /\ Status' = "MESSAGE"
    /\ UNCHANGED ReputationMap

CoordHandleAnnouncement(m) ==
    /\ Handles("ANNOUNCEMENT", m)
    /\ FinishEmptyList(m) \/ FinishAnnouncement(m)
    /\ UNCHANGED <<coordState, chainVars, Clients, logVars, listenerPc, mainVars>>

\* The request is signed over the coordinator's present generator.
Verified(m) == ElGamalVerify(m.nym, m.signature, G)

\* Unset is no element of the group: UnmarshalBinary fails and CheckErr panics.
CoordHandleMsg(m) ==
    /\ Handles("MESSAGE", m)
    /\ \/ /\ m.nym = Unset
          /\ CoordDies(m, "bad_point")
       \/ /\ m.nym # Unset
          /\ ~ Verified(m)
          /\ Reply(m, {})
          /\ UNCHANGED coordVars
       \/ /\ Verified(m)
          /\ NewClientsBuffer # <<>>
          /\ DiesOfRace(m, "round_end")
       \/ /\ Verified(m)
          /\ MsgLog' = Append(MsgLog, m.nym)
          /\ Reply(m, {ClientMessage(a, m.nym, GetReputation(m.nym),
                            Len(MsgLog) + 1, round) : a \in ClientAddrs}
                      \cup {MsgReply(m.from, m.n)})
          /\ \/ UNCHANGED <<NewClientsBuffer, mainVars>>
             \/ /\ MainAt("clear_buffer")
                /\ NewClientsBuffer' = <<>>
                /\ MainGoto("check_ready")
          /\ UNCHANGED <<coordState, Status, chainVars, Clients, G, mapVars,
                         listenerPc>>

\* No reply when the signature is wrong; a second vote is counted again; a
\* message number outside the log panics.  The target need not be in the map.
CoordHandleVote(m) ==
    /\ Handles("VOTE", m)
    /\ \/ /\ m.nym = Unset
          /\ CoordDies(m, "bad_point")
       \/ /\ m.nym # Unset
          /\ ~ Verified(m)
          /\ Reply(m, {})
          /\ UNCHANGED coordVars
       \/ /\ Verified(m)
          /\ m.msgID \notin DOMAIN MsgLog
          /\ CoordDies(m, "index")
       \/ /\ Verified(m)
          /\ m.msgID \in DOMAIN MsgLog
          /\ DiesOfRace(m, "round_end")
       \/ /\ Verified(m)
          /\ m.msgID \in DOMAIN MsgLog
          /\ LET target == MsgLog[m.msgID]
             IN  DecryptedReputationMap' =
                    Put(DecryptedReputationMap, target,
                        GetReputation(target) + m.vote)
          /\ Reply(m, {VoteReply(m.from, m.n)})
          /\ UNCHANGED <<coordState, Status, chainVars, Clients, G,
                         ReputationMap, DecryptedKeysMap, logVars, listenerPc,
                         mainVars>>

\* Stores the encrypted list, tells the clients, then sleeps half a second.
CoordHandleRoundEnd(m) ==
    /\ Handles("ROUND_END", m)
    /\ ReputationMap' = MapOf(m.entries)
    /\ Reply(m, {ClientRoundEnd(a, round) : a \in ClientAddrs})
    /\ listenerPc' = "sleeping"
    /\ UNCHANGED <<coordState, Status, chainVars, Clients, G,
                   DecryptedReputationMap, DecryptedKeysMap, logVars, mainVars>>

\* Mutant: the handler forgets to declare the round over.
WakeOnly == UNCHANGED Status

RoundOver == Status' = "READY_FOR_NEW_ROUND"

CoordRoundEndAwake ==
    /\ coordState = "running"
    /\ listenerPc = "sleeping"
    /\ RoundOver
    /\ listenerPc' = "receiving"
    /\ UNCHANGED <<coordState, chainVars, Clients, G, mapVars, logVars, mainVars,
                   net>>

ListenerNext ==
    \/ \E m \in net :
          \/ CoordHandleServerRegister(m)
          \/ CoordHandleClientRegisterControllerSide(m)
          \/ CoordHandleClientRegisterServerSide(m)
          \/ CoordHandleAnnouncement(m)
          \/ CoordHandleMsg(m)
          \/ CoordHandleVote(m)
          \/ CoordHandleRoundEnd(m)
    \/ CoordRoundEndAwake

CoordNext == MainNext \/ ListenerNext

-----------------------------------------------------------------------------
\* However often processes register from one address, Clients holds that
\* address once, so nobody is sent a notice twice (Coordinator.go:61, AddClient).
OneClientPerAddress ==
    \A k1, k2 \in DOMAIN Clients : Clients[k1] = Clients[k2] => k1 = k2
=============================================================================
