---------------------------- MODULE AnonCredProofs ----------------------------
(***************************************************************************)
(* Theorems about the whole system, for any number of servers and clients, *)
(* with or without loss, timeouts, late servers and early clients.         *)
(***************************************************************************)
EXTENDS AnonCred, ProcessProofs

(* The clients: their steps preserve the types of their state and of the network. *)

ClientsTyped == ClientTypeOK /\ net \subseteq Datagram

\* A client that is asked for the field it is storing is storing one.
LEMMA StoringTypes ==
    ASSUME ClientTypeOK, NEW c \in Client, storing[c] # Nothing
    PROVE  /\ storing[c].field \in {"G", "OnetimePseudoNym"}
           /\ storing[c].g \in Point
BY DEF ClientTypeOK

\* The steps of main keep the types.
LEMMA ClientMainKeepsTypes ==
    ASSUME ClientsTyped, NEW c \in Client, ClientMainNext(c) \/ Register(c)
    PROVE  ClientsTyped'
<1> USE DEF ClientsTyped, ClientTypeOK, ClientPcs, ClientGoto, Types, Sign,
            NoRequest
<1>0. ASSUME NEW r \in Request PROVE r # NoRequest
  BY <1>0 DEF Request
<1>1. CASE Register(c)
  BY <1>1, RegistrationDatagrams DEF Register, Send
<1>2. CASE AwaitFirstRound(c)
  BY <1>2 DEF AwaitFirstRound
<1>3. CASE SendMsg(c)
  <2>1. [type |-> "MESSAGE", g |-> clientG[c]] \in Request
    BY DEF Request
  <2> QED
    BY <1>0, <1>3, <2>1 DEF SendMsg
<1>4. CASE SendVote(c)
  <2>1. PICK msgID \in printed[c], number \in TypedVotes :
           Sign(c, [type |-> "VOTE", g |-> clientG[c], msgID |-> msgID,
                    vote |-> VoteOf(number)])
    BY <1>4 DEF SendVote
  <2> DEFINE req == [type |-> "VOTE", g |-> clientG[c], msgID |-> msgID,
                     vote |-> VoteOf(number)]
  <2>2. req \in Request
    <3>1. VoteOf(number) \in {-1, 1}
      BY DEF VoteOf
    <3> QED
      BY <3>1 DEF Request
  <2>3. /\ Sign(c, req)
        /\ typed' = [typed EXCEPT ![c] = @ + 1]
        /\ clientPc[c] = "command"
    BY <1>4, <2>1 DEF SendVote
  <2> HIDE DEF req
  <2> QED
    BY <1>0, <2>2, <2>3
<1>5. CASE Exit(c)
  BY <1>5 DEF Exit
<1>6. CASE SendRequest(c)
  <2> DEFINE req == request[c]
             sig == ElGamalSign(c, req.g)
             out == IF req.type = "MESSAGE"
                    THEN SignedMsg(AddrOf[c], OnetimePseudoNym[c], sig, typed[c])
                    ELSE SignedVote(AddrOf[c], OnetimePseudoNym[c], sig,
                                    req.msgID, req.vote, typed[c])
  <2>1. req \in Request
    BY <1>6 DEF SendRequest
  <2>2. /\ AddrOf[c] \in Addr /\ OnetimePseudoNym[c] \in Point
        /\ typed[c] \in Nat /\ sig \in Signature
    BY <2>1, AddressAssumption DEF ElGamalSign, Signature, Request
  <2>3. out \in Datagram
    <3>1. req.type # "MESSAGE" => req.msgID \in Nat /\ req.vote \in {-1, 1}
      BY <2>1 DEF Request
    <3> HIDE DEF req, sig
    <3> QED
      BY <2>2, <3>1, RequestDatagrams
  <2>4. net' = net \cup {out}
    BY <1>6 DEF SendRequest, Send
  <2> HIDE DEF out
  <2> QED
    BY <1>6, <2>3, <2>4 DEF SendRequest
<1> QED
  BY <1>1, <1>2, <1>3, <1>4, <1>5, <1>6 DEF ClientMainNext

\* And so do those of the listener.
LEMMA ClientListenerKeepsTypes ==
    ASSUME ClientsTyped, NEW c \in Client, ClientListenerNext(c)
    PROVE  ClientsTyped'
<1> USE DEF ClientsTyped, ClientTypeOK, ClientHandles, ClientStatuses, Reply
<1>1. ASSUME NEW m \in net, ClientHandleRegisterConfirmation(c, m)
      PROVE  ClientsTyped'
  BY <1>1 DEF ClientHandleRegisterConfirmation
<1>2. ASSUME NEW m \in net, ClientHandleAnnouncement(c, m)
      PROVE  ClientsTyped'
  <2>1. m.g \in Point
    BY <1>2, AddressAssumption, AtClient DEF ClientHandleAnnouncement
  <2> QED
    BY <1>2, <2>1 DEF ClientHandleAnnouncement
<1>3. CASE ClientStoreG(c)
  <2>1. storing[c] # Nothing
    BY <1>3 DEF ClientStoreG, Nothing
  <2>2. storing[c] \in [field : {"G", "OnetimePseudoNym"}, g : Point]
    BY <2>1
  <2>3. [storing[c] EXCEPT !.field = "OnetimePseudoNym"]
           \in [field : {"G", "OnetimePseudoNym"}, g : Point]
    BY <2>2
  <2>4. storing[c].g \in Point
    BY <2>2
  <2>5. storing' = [storing EXCEPT ![c] =
                       [storing[c] EXCEPT !.field = "OnetimePseudoNym"]]
    BY <1>3 DEF ClientStoreG
  <2> QED
    BY <1>3, <2>3, <2>4, <2>5 DEF ClientStoreG
<1>4. CASE ClientStoreNym(c)
  <2>1. storing[c] # Nothing
    BY <1>4 DEF ClientStoreNym, Nothing
  <2>2. Pseudonym(storing[c].g, c) \in Point
    BY <2>1, StoringTypes, PointTypes
  <2> QED
    BY <1>4, <2>2 DEF ClientStoreNym
<1>5. ASSUME NEW m \in net, ClientHandleMsg(c, m)
      PROVE  ClientsTyped'
  <2>1. m.msgID \in Nat
    BY <1>5, AddressAssumption, AtClient DEF ClientHandleMsg
  <2> QED
    BY <1>5, <2>1 DEF ClientHandleMsg
<1>6. ASSUME NEW m \in net, ClientHandleRoundEnd(c, m)
      PROVE  ClientsTyped'
  BY <1>6 DEF ClientHandleRoundEnd
<1>7. ASSUME NEW m \in net, ClientPrints(c, m)
      PROVE  ClientsTyped'
  BY <1>7 DEF ClientPrints, clientVars
<1> QED
  BY <1>1, <1>2, <1>3, <1>4, <1>5, <1>6, <1>7 DEF ClientListenerNext

\* Every step of a client, its launch included, keeps the types of the clients.
LEMMA ClientKeepsTypes ==
    ASSUME ClientsTyped, ClientNext \/ \E c \in Client : Register(c)
    PROVE  ClientsTyped'
BY ClientMainKeepsTypes, ClientListenerKeepsTypes DEF ClientNext

-----------------------------------------------------------------------------
(* The system. *)

\* A step of the whole system is a step of one part; the others stutter.
LEMMA StepCases ==
    ASSUME Next
    PROVE  \/ /\ CoordNext \/ ReadOk
              /\ UNCHANGED <<serverVars, clientVars>>
           \/ /\ ServerNext \/ \E s \in Server : ServerStart(s)
              /\ UNCHANGED <<coordVars, clientVars>>
           \/ /\ ClientNext \/ \E c \in Client : Register(c)
              /\ UNCHANGED <<coordVars, serverVars>>
           \/ /\ \E m \in net : net' = net \ {m}
              /\ UNCHANGED <<coordVars, serverVars, clientVars>>
BY DEF Next, LaunchNext, LaunchServer, LaunchClient, EndConfiguration, CoordStep,
       ServerStep, ClientStep, NetStep, Lose

-----------------------------------------------------------------------------
(* Types. *)

\* Before any process is launched, every variable has its type.
LEMMA InitTypes == Init => TypeOK
<1> SUFFICES ASSUME Init PROVE TypeOK
  OBVIOUS
<1>1. \A K, V : IsMap(NoEntries, K, V)
  BY DEF IsMap, NoEntries
<1>2. CoordTypeOK
  BY <1>1, PointTypes
     DEF Init, CoordInit, CoordTypeOK, CoordStates, Statuses, MainPcs
<1>3. ServerTypeOK
  BY <1>1 DEF Init, ServerInit, ServerTypeOK, ServerStates
<1>4. ClientTypeOK
  BY PointTypes DEF Init, ClientInit, ClientTypeOK, ClientPcs, ClientStatuses
<1>5. net \subseteq Datagram
  BY DEF Init, NetInit
<1> QED
  BY <1>2, <1>3, <1>4, <1>5 DEF TypeOK

\* No step of any process gives a variable or a datagram a value of another type.
LEMMA StepTypes == TypeOK /\ [Next]_vars => TypeOK'
<1> SUFFICES ASSUME TypeOK, [Next]_vars PROVE TypeOK'
  OBVIOUS
<1>1. UNCHANGED coordVars => UNCHANGED CoordTypeOK
  BY DEF coordVars, chainVars, mapVars, logVars, mainVars, CoordTypeOK
<1>2. UNCHANGED serverVars => UNCHANGED ServerTypeOK
  BY DEF serverVars, ServerTypeOK
<1>3. UNCHANGED clientVars => UNCHANGED ClientTypeOK
  BY DEF clientVars, ClientTypeOK
<1>4. CASE UNCHANGED vars
  BY <1>1, <1>2, <1>3, <1>4 DEF vars, TypeOK
<1>5. CASE /\ CoordNext \/ ReadOk
           /\ UNCHANGED <<serverVars, clientVars>>
  BY <1>2, <1>3, <1>5, CoordKeepsTypes DEF TypeOK, Typed
<1>6. CASE /\ ServerNext \/ \E s \in Server : ServerStart(s)
           /\ UNCHANGED <<coordVars, clientVars>>
  BY <1>1, <1>3, <1>6, ServerKeepsTypes DEF TypeOK, ServersTyped
<1>7. CASE /\ ClientNext \/ \E c \in Client : Register(c)
           /\ UNCHANGED <<coordVars, serverVars>>
  BY <1>1, <1>2, <1>7, ClientKeepsTypes DEF TypeOK, ClientsTyped
<1>8. CASE /\ \E m \in net : net' = net \ {m}
           /\ UNCHANGED <<coordVars, serverVars, clientVars>>
  BY <1>1, <1>2, <1>3, <1>8 DEF TypeOK
<1> QED
  BY <1>4, <1>5, <1>6, <1>7, <1>8, StepCases

\* All variables and datagrams keep their types.
THEOREM TypeCorrect == Spec => []TypeOK
BY InitTypes, StepTypes, PTL DEF Spec

-----------------------------------------------------------------------------
(* The maps of the servers and of the coordinator. *)

\* In every behaviour KeyMap inverts the raising with the present Roundkey.
THEOREM KeyMapCorrect == Spec => []KeyMapMatchesRoundkey
<1>1. Init => KeyMapMatchesRoundkey
  BY DEF Init, ServerInit, KeyMapMatchesRoundkey, NoEntries
<1>2. ASSUME TypeOK, KeyMapMatchesRoundkey, [Next]_vars
      PROVE  KeyMapMatchesRoundkey'
  <2>1. CASE UNCHANGED serverVars
    BY <1>2, <2>1 DEF serverVars, KeyMapMatchesRoundkey, Roundkey
  <2>2. CASE ServerNext \/ \E s \in Server : ServerStart(s)
    BY <1>2, <2>2, ServerKeepsKeyMap DEF TypeOK
  <2> QED
    BY <1>2, <2>1, <2>2, StepCases DEF vars
<1> QED
  BY <1>1, <1>2, TypeCorrect, PTL DEF Spec

\* No address is ever listed for two clients.
THEOREM OneClient == Spec => []OneClientPerAddress
<1>1. Init => OneClientPerAddress
  BY DEF Init, CoordInit, OneClientPerAddress, NoEntries
<1>2. ASSUME OneClientPerAddress, [Next]_vars
      PROVE  OneClientPerAddress'
  <2>1. CASE UNCHANGED coordVars
    BY <1>2, <2>1 DEF coordVars, OneClientPerAddress
  <2>2. CASE CoordNext \/ ReadOk
    BY <1>2, <2>2, CoordKeepsOneClient
  <2> QED
    BY <1>2, <2>1, <2>2, StepCases DEF vars
<1> QED
  BY <1>1, <1>2, PTL DEF Spec

-----------------------------------------------------------------------------
(* The phases of a round. *)

\* Which datagrams belong to a round.
IsRound(m) == /\ m.type \in {"ANNOUNCEMENT", "ROUND_END"}
              /\ m.to \in Server \cup {Coord}

\* The datagrams of a round, by the test IsRound.
LEMMA RoundDatagramsAre == RoundDatagrams = {m \in net : IsRound(m)}
BY DEF RoundDatagrams, IsRound

\* What a step does to the phase and to whose turn it is, if it does anything.
CycleStep == [Cycle!Next]_<<Status, Turn>>

\* A step that neither touches the phase nor adds a datagram of a round keeps
\* PhaseInv; if it takes such a datagram away, the turn is lost.
LEMMA QuietStep ==
    ASSUME PhaseInv, UNCHANGED <<Status, mainPc, listenerPc>>,
           \A m \in net' : IsRound(m) => m \in net
    PROVE  PhaseInv' /\ CycleStep
<1>1. RoundDatagrams' \subseteq RoundDatagrams
  BY DEF RoundDatagrams, IsRound
<1>2. PhaseInv'
  BY <1>1 DEF PhaseInv, BetweenRounds
<1>3. CASE RoundDatagrams' = RoundDatagrams
  BY <1>2, <1>3 DEF CycleStep, Turn, BetweenRounds
<1>4. CASE RoundDatagrams' # RoundDatagrams
  <2>1. PICK m \in RoundDatagrams : m \notin RoundDatagrams'
    BY <1>1, <1>4
  <2>2. RoundDatagrams' = {}
    BY <1>1, <2>1 DEF PhaseInv
  <2>3. Turn = "chain"
    BY <2>1 DEF Turn
  <2>4. listenerPc # "sleeping"
    BY <2>1 DEF PhaseInv
  <2>5. \/ mainPc = "await_message" /\ Status = "ANNOUNCE"
        \/ mainPc \in BetweenRounds /\ Status = "MESSAGE"
    BY <2>1 DEF PhaseInv
  <2>6. Turn' = "nobody"
    BY <2>2, <2>4, <2>5 DEF Turn, BetweenRounds
  <2> QED
    BY <1>2, <2>3, <2>6 DEF CycleStep, Cycle!Next, Cycle!LoseTurn
<1> QED
  BY <1>2, <1>3, <1>4

\* Notices to clients, replies and registrations are no datagrams of a round.
LEMMA NotOfARound ==
    /\ \A s : ~ IsRound(ServerRegister(s))
    /\ \A s, t : ~ IsRound(ServerRegisterReply(s, t))
    /\ \A s, t : ~ IsRound(UpdateNextHop(s, t))
    /\ \A c : ~ IsRound(ClientRegisterControllerSide(c))
    /\ \A d, k, a : ~ IsRound(ClientRegisterServerSide(d, k, a))
    /\ \A a, k : ~ IsRound(ClientRegisterConfirmation(a, k))
    /\ \A a \in Addr : \A g : ~ IsRound(ClientAnnouncement(a, g))
    /\ \A a, k, r, i, n : ~ IsRound(ClientMessage(a, k, r, i, n))
    /\ \A a, n : ~ IsRound(ClientVotePhase(a, n))
    /\ \A a \in Addr : \A n : ~ IsRound(ClientRoundEnd(a, n))
    /\ \A a, n : ~ IsRound(MsgReply(a, n)) /\ ~ IsRound(VoteReply(a, n))
    /\ \A a, k, s, n : ~ IsRound(SignedMsg(a, k, s, n))
    /\ \A a, k, s, i, v, n : ~ IsRound(SignedVote(a, k, s, i, v, n))
BY AddressAssumption
   DEF IsRound, ServerRegister, ServerRegisterReply, UpdateNextHop,
       ClientRegisterControllerSide, ClientRegisterServerSide,
       ClientRegisterConfirmation, ClientAnnouncement, ClientMessage,
       ClientVotePhase, ClientRoundEnd, MsgReply, VoteReply, SignedMsg, SignedVote

\* Clients never send a datagram of a round.
LEMMA ClientKeepsPhase ==
    ASSUME PhaseInv, UNCHANGED coordVars,
           ClientNext \/ \E c \in Client : Register(c)
    PROVE  PhaseInv' /\ CycleStep
<1>1. UNCHANGED <<Status, mainPc, listenerPc>>
  BY DEF coordVars, mainVars
<1>2. ASSUME NEW c \in Client, NEW m \in net' PROVE IsRound(m) /\ Register(c) => m \in net
  BY NotOfARound DEF Register, Send
<1>3. ASSUME NEW c \in Client, NEW m \in net'
      PROVE  IsRound(m) /\ ClientMainNext(c) => m \in net
  BY NotOfARound
     DEF ClientMainNext, AwaitFirstRound, SendRequest, SendMsg, SendVote, Exit, Sign,
         Send
<1>4. ASSUME NEW c \in Client, NEW m \in net'
      PROVE  ClientListenerNext(c) => m \in net
  BY DEF ClientListenerNext, ClientHandleRegisterConfirmation,
         ClientHandleAnnouncement, ClientHandleMsg, ClientHandleRoundEnd,
         ClientPrints, ClientStoreG, ClientStoreNym, Reply
<1> QED
  BY <1>1, <1>2, <1>3, <1>4, QuietStep DEF ClientNext

\* A server turns the one datagram of the round into the next one of its kind,
\* or dies of it.
LEMMA ServerKeepsPhase ==
    ASSUME PhaseInv, UNCHANGED coordVars,
           ServerNext \/ \E s \in Server : ServerStart(s)
    PROVE  PhaseInv' /\ CycleStep
<1>1. UNCHANGED <<Status, mainPc, listenerPc>>
  BY DEF coordVars, mainVars
<1>2. ASSUME NEW s \in Server, ServerStart(s) \/ ServerGivesUp(s)
      PROVE  PhaseInv' /\ CycleStep
  BY <1>1, <1>2, NotOfARound, QuietStep DEF ServerStart, ServerGivesUp, Send
<1>3. ASSUME NEW s \in Server, NEW m \in net,
             \/ ServerHandleRegisterReply(s, m)
             \/ ServerHandleUpdateNextHop(s, m)
             \/ ServerHandleClientRegister(s, m)
             \/ \E cause \in ServerStates : ServerDies(s, m, cause)
      PROVE  PhaseInv' /\ CycleStep
  BY <1>1, <1>3, NotOfARound, QuietStep
     DEF ServerHandleRegisterReply, ServerHandleUpdateNextHop,
         ServerHandleClientRegister, ServerDies, Reply
<1>4. ASSUME NEW m \in RoundDatagrams, NEW r, r.type = m.type, Reply(m, {r})
      PROVE  PhaseInv' /\ CycleStep
  <2>1. RoundDatagrams = {m}
    BY DEF PhaseInv
  <2>2. RoundDatagrams' \subseteq {r}
    BY <1>4, <2>1 DEF RoundDatagrams, Reply
  <2>3. m \in net /\ r \in net' /\ m.to \in Server \cup {Coord}
    BY <1>4 DEF RoundDatagrams, Reply
  <2>4. PhaseInv'
    BY <1>1, <1>4, <2>1, <2>2 DEF PhaseInv, BetweenRounds
  <2>5. Turn = "chain"
    BY <2>1 DEF Turn
  <2>6. CASE r \in RoundDatagrams'
    BY <1>1, <2>4, <2>5, <2>6 DEF CycleStep, Turn
  <2>7. CASE r \notin RoundDatagrams'
    <3>1. RoundDatagrams' = {}
      BY <2>2, <2>7
    <3>2. \A q \in net' : IsRound(q) => q \in net
      BY <3>1 DEF RoundDatagrams, IsRound
    <3> QED
      BY <1>1, <3>2, QuietStep
  <2> QED
    BY <2>4, <2>6, <2>7
<1>5. ASSUME NEW s \in Server, NEW m \in net, ServerHandleAnnouncement(s, m)
      PROVE  PhaseInv' /\ CycleStep
  <2>1. m \in RoundDatagrams /\ m.type = "ANNOUNCEMENT"
    BY <1>5 DEF ServerHandleAnnouncement, ServerHandles, RoundDatagrams
  <2> DEFINE r == Announcement(NextHop[s], Raised(s, m.entries), RaisedG(s, m.g))
  <2>2. r.type = "ANNOUNCEMENT"
    BY DEF Announcement
  <2>3. ServerDies(s, m, "decrypt") \/ Reply(m, {r})
    BY <1>5 DEF ServerHandleAnnouncement
  <2> HIDE DEF r
  <2> QED
    BY <1>3, <1>4, <2>1, <2>2, <2>3 DEF ServerStates
<1>6. ASSUME NEW s \in Server, NEW m \in net, ServerHandleRoundEnd(s, m)
      PROVE  PhaseInv' /\ CycleStep
  <2>1. m \in RoundDatagrams /\ m.type = "ROUND_END"
    BY <1>6 DEF ServerHandleRoundEnd, ServerHandles, RoundDatagrams
  <2> DEFINE known == {e \in Words(m) : e.key \in DOMAIN KeyMap[s]}
             missing == ~ KeysOf(m.entries) \subseteq DOMAIN KeyMap[s]
             r == RoundEnd(PreviousHop[s], Restored(s, known), missing, FALSE)
  <2>2. r.type = "ROUND_END"
    BY DEF RoundEnd
  <2>3. \/ ServerDies(s, m, "index")
        \/ ServerDies(s, m, "nil_key")
        \/ Reply(m, {r})
    BY <1>6 DEF ServerHandleRoundEnd
  <2> HIDE DEF r
  <2> QED
    BY <1>3, <1>4, <2>1, <2>2, <2>3 DEF ServerStates
<1> QED
  BY <1>2, <1>3, <1>5, <1>6 DEF ServerNext, ServerListenerNext

\* main moves on only in the phase PhaseInv gives it, and starts a datagram of a
\* round only when there is none.
LEMMA MainKeepsPhase ==
    ASSUME TypeOK, PhaseInv, MainNext \/ ReadOk
    PROVE  PhaseInv' /\ CycleStep
<1> USE DEF MainAt, MainGoto, BetweenRounds, ReadyForNewRound, mainVars, CycleStep,
            Turn, Cycle!Next, Cycle!Hand, Cycle!Configure, Cycle!BeginRound,
            Cycle!Announce, Cycle!EndRound
<1>1. CASE ReadOk
  BY <1>1 DEF ReadOk, PhaseInv, RoundDatagrams
<1>2. CASE AwaitReady
  BY <1>2 DEF AwaitReady, PhaseInv, RoundDatagrams
<1>3. CASE ClearBuffer
  BY <1>3 DEF ClearBuffer, PhaseInv, RoundDatagrams
<1>4. CASE CheckReady
  BY <1>4 DEF CheckReady, PhaseInv, RoundDatagrams
<1>5. CASE Announce
  <2>1. RoundDatagrams = {} /\ Status = "ANNOUNCE" /\ mainPc' = "await_message"
        /\ UNCHANGED listenerPc /\ listenerPc # "sleeping"
    BY <1>5 DEF Announce, PhaseInv
  <2>2. CASE ServerList = <<>>
    BY <1>5, <2>1, <2>2 DEF Announce, SkipAnnouncement, PhaseInv, RoundDatagrams
  <2>3. CASE ServerList # <<>>
    <3>0. GetFirstServer \in Server
      BY <2>3 DEF TypeOK, CoordTypeOK, GetFirstServer
    <3>1. PICK r : /\ r.type = "ANNOUNCEMENT" /\ r.to \in Server
                   /\ net' = net \cup {r}
      BY <1>5, <2>3, <3>0 DEF Announce, Send, Announcement
    <3>2. RoundDatagrams' = {r}
      BY <2>1, <3>1 DEF RoundDatagrams
    <3> QED
      BY <1>5, <2>1, <2>3, <3>1, <3>2 DEF Announce, PhaseInv
  <2> QED
    BY <2>2, <2>3
<1>6. CASE AwaitMessage
  BY <1>6 DEF AwaitMessage, PhaseInv, RoundDatagrams
<1>7. CASE BeginVote
  BY <1>7 DEF BeginVote, PhaseInv, RoundDatagrams
<1>8. CASE Vote
  <2>1. \A m \in net' : IsRound(m) => m \in net
    BY <1>8, NotOfARound DEF Vote, Send
  <2>2. RoundDatagrams' \subseteq RoundDatagrams
    BY <2>1 DEF RoundDatagrams, IsRound
  <2>3. RoundDatagrams = {}
    BY <1>8 DEF Vote, PhaseInv
  <2> QED
    BY <1>8, <2>2, <2>3 DEF Vote, PhaseInv
<1>9. CASE AddNewClients
  BY <1>9 DEF AddNewClients, PhaseInv, RoundDatagrams
<1>10. CASE SendRoundEnd
  <2> DEFINE listed == DOMAIN DecryptedReputationMap \cap DecryptedKeysMap
             nil == DOMAIN DecryptedReputationMap \ DecryptedKeysMap
             r == RoundEnd(lastServer,
                     {[key |-> k, val |-> Plain(DecryptedReputationMap[k])] :
                         k \in listed}, nil # {}, TRUE)
  <2>0. r.type = "ROUND_END" /\ r.to \in Server
    BY <1>10 DEF SendRoundEnd, RoundEnd, TypeOK, CoordTypeOK
  <2>4. net' = net \cup {r}
    BY <1>10 DEF SendRoundEnd, Send
  <2> HIDE DEF r
  <2>1. r.type = "ROUND_END" /\ r.to \in Server /\ net' = net \cup {r}
    BY <2>0, <2>4
  <2>2. RoundDatagrams = {}
    BY <1>10 DEF SendRoundEnd, PhaseInv
  <2>3. RoundDatagrams' = {r}
    BY <2>1, <2>2 DEF RoundDatagrams
  <2> QED
    BY <1>10, <2>1, <2>3 DEF SendRoundEnd, PhaseInv
<1> QED
  BY <1>1, <1>2, <1>3, <1>4, <1>5, <1>6, <1>7, <1>8, <1>9, <1>10 DEF MainNext

\* The listener ends a phase only with the datagram of that phase.
LEMMA ListenerKeepsPhase ==
    ASSUME TypeOK, PhaseInv, ListenerNext
    PROVE  PhaseInv' /\ CycleStep
<1> DEFINE Goal == PhaseInv' /\ CycleStep
<1>0. ClientAddrs \subseteq Addr
  BY CoordHelperTypes DEF TypeOK
<1>1. ASSUME NEW m \in net, NEW cause, CoordDies(m, cause)
      PROVE  Goal
  BY <1>1, QuietStep DEF CoordDies, Reply, mainVars
<1>2. ASSUME NEW m \in net,
             \/ CoordHandleServerRegister(m)
             \/ CoordHandleClientRegisterControllerSide(m)
             \/ CoordHandleClientRegisterServerSide(m)
             \/ CoordHandleMsg(m)
             \/ CoordHandleVote(m)
      PROVE  Goal
  <2>1. CASE \E cause : CoordDies(m, cause)
    BY <1>1, <2>1
  <2>2. CASE ~ \E cause : CoordDies(m, cause)
    <3>0. ~ IsRound(m)
      BY <1>2
         DEF IsRound, Handles, CoordHandleServerRegister,
             CoordHandleClientRegisterControllerSide,
             CoordHandleClientRegisterServerSide, CoordHandleMsg, CoordHandleVote
    <3>1. /\ \A r \in net' : IsRound(r) => r \in net
          /\ net \ {m} \subseteq net'
          /\ UNCHANGED <<Status, listenerPc>>
          /\ \/ UNCHANGED mainPc
             \/ mainPc = "clear_buffer" /\ mainPc' = "check_ready"
      <4>1. CASE CoordHandleServerRegister(m)
        BY <4>1, NotOfARound
           DEF CoordHandleServerRegister, Relink, Reply, mainVars
      <4>2. CASE CoordHandleClientRegisterControllerSide(m)
        BY <2>2, <4>2, NotOfARound
           DEF CoordHandleClientRegisterControllerSide, DiesOfRace, Reply, mainVars
      <4>3. CASE CoordHandleClientRegisterServerSide(m)
        BY <2>2, <4>3, NotOfARound
           DEF CoordHandleClientRegisterServerSide, DiesOfRace, Reply, Confirm,
               mainVars, MainAt, MainGoto
      <4>4. CASE CoordHandleMsg(m)
        BY <2>2, <4>4, NotOfARound
           DEF CoordHandleMsg, DiesOfRace, Reply, coordVars, mainVars, MainAt,
               MainGoto
      <4>5. CASE CoordHandleVote(m)
        BY <2>2, <4>5, NotOfARound
           DEF CoordHandleVote, DiesOfRace, Reply, coordVars, mainVars
      <4> QED
        BY <1>2, <4>1, <4>2, <4>3, <4>4, <4>5
    <3>2. RoundDatagrams' = RoundDatagrams
      BY <3>0, <3>1, RoundDatagramsAre DEF RoundDatagrams, IsRound
    <3> QED
      BY <3>1, <3>2 DEF PhaseInv, BetweenRounds, CycleStep, Turn
  <2> QED
    BY <2>1, <2>2
<1>3. ASSUME NEW m \in net, CoordHandleAnnouncement(m)
      PROVE  Goal
  <2>1. /\ m \in RoundDatagrams /\ m.type = "ANNOUNCEMENT"
        /\ listenerPc = "receiving"
    BY <1>3 DEF CoordHandleAnnouncement, Handles, RoundDatagrams
  <2>2. RoundDatagrams = {m} /\ mainPc = "await_message" /\ Status = "ANNOUNCE"
    BY <2>1 DEF PhaseInv
  <2>3. PICK out : Reply(m, out) /\ \A r \in out : ~ IsRound(r)
    <3>1. CASE FinishEmptyList(m)
      BY <3>1 DEF FinishEmptyList
    <3>2. CASE FinishAnnouncement(m)
      BY <1>0, <3>2, NotOfARound DEF FinishAnnouncement
    <3> QED
      BY <1>3, <3>1, <3>2 DEF CoordHandleAnnouncement
  <2>4. RoundDatagrams' = {}
    BY <2>2, <2>3 DEF RoundDatagrams, IsRound, Reply
  <2>5. Status' = "MESSAGE" /\ UNCHANGED <<mainPc, listenerPc>>
    BY <1>3 DEF CoordHandleAnnouncement, FinishEmptyList, FinishAnnouncement, mainVars
  <2> QED
    BY <2>1, <2>2, <2>4, <2>5
       DEF PhaseInv, BetweenRounds, CycleStep, Turn, Cycle!Next, Cycle!Hand,
           Cycle!AnnouncementBack
<1>4. ASSUME NEW m \in net, CoordHandleRoundEnd(m)
      PROVE  Goal
  <2>1. m \in RoundDatagrams /\ m.type = "ROUND_END"
    BY <1>4 DEF CoordHandleRoundEnd, Handles, RoundDatagrams
  <2>2. RoundDatagrams = {m} /\ mainPc \in BetweenRounds /\ Status = "MESSAGE"
    BY <2>1 DEF PhaseInv
  <2>3. \A r \in net' : IsRound(r) => r \in net /\ r # m
    BY <1>0, <1>4, NotOfARound DEF CoordHandleRoundEnd, Reply
  <2>4. RoundDatagrams' = {}
    BY <2>2, <2>3 DEF RoundDatagrams, IsRound
  <2>5. listenerPc' = "sleeping" /\ UNCHANGED <<mainPc, Status>>
    BY <1>4 DEF CoordHandleRoundEnd, mainVars
  <2> QED
    BY <2>2, <2>4, <2>5
       DEF PhaseInv, BetweenRounds, CycleStep, Turn, Cycle!Next, Cycle!Hand,
           Cycle!RoundEndBack
<1>5. CASE CoordRoundEndAwake
  <2>1. /\ RoundDatagrams = {} /\ mainPc \in BetweenRounds /\ Status = "MESSAGE"
        /\ listenerPc = "sleeping" /\ Status' = "READY_FOR_NEW_ROUND" /\ listenerPc' = "receiving"
        /\ UNCHANGED <<mainPc, net>>
    BY <1>5 DEF CoordRoundEndAwake, RoundOver, PhaseInv, mainVars
  <2>2. RoundDatagrams' = {}
    BY <2>1 DEF RoundDatagrams
  <2> QED
    BY <2>1, <2>2
       DEF PhaseInv, BetweenRounds, CycleStep, Turn, Cycle!Next, Cycle!Hand,
           Cycle!RoundOver
<1>6. CASE \E m \in net :
             \/ CoordHandleServerRegister(m)
             \/ CoordHandleClientRegisterControllerSide(m)
             \/ CoordHandleClientRegisterServerSide(m)
             \/ CoordHandleMsg(m)
             \/ CoordHandleVote(m)
  BY <1>2, <1>6
<1>7. CASE \E m \in net : CoordHandleAnnouncement(m)
  BY <1>3, <1>7
<1>8. CASE \E m \in net : CoordHandleRoundEnd(m)
  BY <1>4, <1>8
<1> QED
  BY <1>5, <1>6, <1>7, <1>8 DEF ListenerNext

\* Before the operator types ok there is no datagram of a round.
LEMMA InitPhase == Init => PhaseInv
BY DEF Init, NetInit, CoordInit, PhaseInv, RoundDatagrams, BetweenRounds

\* Every step of the system keeps the phases and the order of Status.
LEMMA StepPhase ==
    ASSUME TypeOK, PhaseInv, [Next]_vars
    PROVE  PhaseInv' /\ CycleStep
<1>1. CASE UNCHANGED vars
  BY <1>1, QuietStep DEF vars, coordVars, mainVars
<1>2. CASE CoordNext \/ ReadOk
  BY <1>2, MainKeepsPhase, ListenerKeepsPhase DEF CoordNext
<1>3. CASE UNCHANGED coordVars /\ (ServerNext \/ \E s \in Server : ServerStart(s))
  BY <1>3, ServerKeepsPhase DEF coordVars
<1>4. CASE UNCHANGED coordVars /\ (ClientNext \/ \E c \in Client : Register(c))
  BY <1>4, ClientKeepsPhase DEF coordVars
<1>5. CASE UNCHANGED coordVars /\ \E m \in net : net' = net \ {m}
  BY <1>5, QuietStep DEF coordVars, mainVars
<1> QED
  BY <1>1, <1>2, <1>3, <1>4, <1>5, StepCases

\* main, the listener and the datagram of the round are in the same phase.
THEOREM PhaseCorrect == Spec => []PhaseInv
BY InitPhase, StepPhase, TypeCorrect, PTL DEF Spec

\* The goroutines and the servers take turns as RoundCycle says.
THEOREM TurnsTaken == Spec => TakesTurns
<1>1. Init => Cycle!Init
  BY DEF Init, NetInit, CoordInit, Cycle!Init, Turn, RoundDatagrams, BetweenRounds
<1>2. ASSUME TypeOK, PhaseInv, [Next]_vars
      PROVE  [Cycle!Next]_<<Status, Turn>>
  BY <1>2, StepPhase DEF CycleStep
<1> QED
  BY <1>1, <1>2, TypeCorrect, PhaseCorrect, PTL DEF Spec, TakesTurns, Cycle!Spec

\* Status only ever moves to the next phase.
THEOREM StatusInOrder == Spec => StatusCycle
<1>1. ASSUME TypeOK, PhaseInv, [Next]_vars
      PROVE  [(<<Status, Status'>> \in StatusOrder)]_Status
  <2>1. CycleStep
    BY <1>1, StepPhase
  <2> QED
    BY <2>1 DEF CycleStep, StatusOrder, Cycle!Next, Cycle!Hand, Cycle!Configure,
          Cycle!BeginRound, Cycle!Announce, Cycle!AnnouncementBack,
          Cycle!EndRound, Cycle!RoundEndBack, Cycle!RoundOver, Cycle!LoseTurn
<1> QED
  BY <1>1, TypeCorrect, PhaseCorrect, PTL DEF Spec, StatusCycle
=============================================================================
