---------------------------- MODULE ProcessProofs -----------------------------
(***************************************************************************)
(* Lemmas about the operators of the processes and what their steps        *)
(* preserve: the types of their state and of the network, one client per   *)
(* address at the coordinator, and at every server the agreement of KeyMap *)
(* with Roundkey.                                                          *)
(***************************************************************************)
EXTENDS Coordinator, AnonServer, TLAPS

(* Points, maps and datagrams. *)

\* The operations on points give points.
LEMMA PointTypes ==
    /\ StdBase \in Point
    /\ Unset \in Point
    /\ \A c \in Client : PublicKey(c) \in Point
    /\ \A p \in Point, k \in Secret : Mul(p, k) \in Point
    /\ \A g \in Point, c \in Client : Pseudonym(g, c) \in Point
BY DEF Point, StdBase, Unset, PublicKey, Mul, Pseudonym

\* Encrypting and, where it succeeds, decrypting a reputation gives one.
LEMMA OnionTypes ==
    /\ \A n \in Int : Plain(n) \in Onion
    /\ \A v \in Onion, s \in Server : Encrypt(v, s) \in Onion
    /\ \A v \in Onion, s \in Server : CanDecrypt(v, s) => Decrypt(v) \in Onion
<1>1. \A n \in Int : Plain(n) \in Onion
  BY DEF Plain, Onion
<1>2. \A v \in Onion, s \in Server : Encrypt(v, s) \in Onion
  BY DEF Encrypt, Onion
<1>3. ASSUME NEW v \in Onion, NEW s \in Server, CanDecrypt(v, s)
      PROVE  Decrypt(v) \in Onion
  <2>1. v.layers \in Seq(Server) /\ v.layers # <<>>
    BY <1>3 DEF CanDecrypt, Onion
  <2>2. SubSeq(v.layers, 1, Len(v.layers) - 1) \in Seq(Server)
    BY <2>1
  <2> QED
    BY <2>2 DEF Decrypt, Onion
<1> QED
  BY <1>1, <1>2, <1>3

\* The datagrams of the topology and of registration are of their type.
LEMMA RegistrationDatagrams ==
    /\ \A s \in Server : ServerRegister(s) \in Datagram
    /\ \A s \in Server, p \in Server \cup {Coord} :
          ServerRegisterReply(s, p) \in Datagram
    /\ \A s, t \in Server : UpdateNextHop(s, t) \in Datagram
    /\ \A c \in Client : ClientRegisterControllerSide(c) \in Datagram
    /\ \A d \in Server \cup {Coord}, k \in Point, a \in Addr :
          ClientRegisterServerSide(d, k, a) \in Datagram
    /\ \A a \in Addr, k \in Point : ClientRegisterConfirmation(a, k) \in Datagram
BY PointTypes, AddressAssumption
   DEF Datagram, ToServers, ToClients, ToCoordinator, OnChain, ServerRegister,
       ServerRegisterReply, UpdateNextHop, ClientRegisterControllerSide,
       ClientRegisterServerSide, ClientRegisterConfirmation

\* So are those of a round.
LEMMA RoundDatagramTypes ==
    /\ \A d \in Server \cup {Coord}, E \in SUBSET Entry, g \in Point :
          Announcement(d, E, g) \in Datagram
    /\ \A d \in Server \cup {Coord}, E \in SUBSET Entry, b1, b2 \in BOOLEAN :
          RoundEnd(d, E, b1, b2) \in Datagram
    /\ \A a \in Addr, g \in Point : ClientAnnouncement(a, g) \in Datagram
    /\ \A a \in Addr, k \in Point, r \in Int, i \in Nat, n \in Nat :
          ClientMessage(a, k, r, i, n) \in Datagram
    /\ \A a \in Addr, n \in Nat :
          /\ ClientVotePhase(a, n) \in Datagram
          /\ ClientRoundEnd(a, n) \in Datagram
          /\ MsgReply(a, n) \in Datagram
          /\ VoteReply(a, n) \in Datagram
BY DEF Datagram, ToServers, ToClients, ToCoordinator, OnChain, Announcement,
       RoundEnd, ClientAnnouncement, ClientMessage, ClientVotePhase,
       ClientRoundEnd, MsgReply, VoteReply

\* And the signed requests.
LEMMA RequestDatagrams ==
    ASSUME NEW a \in Addr, NEW k \in Point, NEW sig \in Signature, NEW n \in Nat
    PROVE  /\ SignedMsg(a, k, sig, n) \in Datagram
           /\ \A i \in Nat, v \in {-1, 1} :
                 SignedVote(a, k, sig, i, v, n) \in Datagram
BY DEF Datagram, ToCoordinator, SignedMsg, SignedVote

\* What a handler may assume of the datagram it was called for: the coordinator.
LEMMA AtCoordinator ==
    ASSUME NEW m \in Datagram, m.to = Coord
    PROVE  /\ m.type = "SERVER_REGISTER" => m.from \in Server
           /\ m.type = "CLIENT_REGISTER_CONTROLLERSIDE" =>
                 m.from \in Addr /\ m.public_key \in Point
           /\ m.type = "CLIENT_REGISTER_SERVERSIDE" =>
                 m.addr \in Addr /\ m.public_key \in Point
           /\ m.type = "ANNOUNCEMENT" => m.entries \subseteq Entry /\ m.g \in Point
           /\ m.type = "ROUND_END" => m.entries \subseteq Entry
           /\ m.type = "MESSAGE" => /\ m.from \in Addr /\ m.nym \in Point
                                    /\ m.n \in Nat
           /\ m.type = "VOTE" => /\ m.from \in Addr /\ m.nym \in Point
                                 /\ m.n \in Nat /\ m.msgID \in Nat
                                 /\ m.vote \in {-1, 1}
BY AddressAssumption DEF Datagram, ToServers, ToClients, ToCoordinator, OnChain

\* A server.
LEMMA AtServer ==
    ASSUME NEW m \in Datagram, m.to \in Server
    PROVE  /\ m.type = "SERVER_REGISTER_REPLY" =>
                 m.prev_server \in Server \cup {Coord}
           /\ m.type = "UPDATE_NEXT_HOP" => m.next_hop \in Server
           /\ m.type = "CLIENT_REGISTER_SERVERSIDE" =>
                 m.addr \in Addr /\ m.public_key \in Point
           /\ m.type = "ANNOUNCEMENT" => m.entries \subseteq Entry /\ m.g \in Point
           /\ m.type = "ROUND_END" => /\ m.entries \subseteq Entry
                                      /\ m.surplus \in BOOLEAN
                                      /\ m.is_start \in BOOLEAN
BY AddressAssumption DEF Datagram, ToServers, ToClients, ToCoordinator, OnChain

\* A client.
LEMMA AtClient ==
    ASSUME NEW m \in Datagram, m.to \in Addr
    PROVE  /\ m.type = "ANNOUNCEMENT" => m.g \in Point
           /\ m.type = "MESSAGE" => m.msgID \in Nat
BY AddressAssumption DEF Datagram, ToServers, ToClients, ToCoordinator, OnChain

-----------------------------------------------------------------------------
(* The coordinator. *)

\* A list that was received becomes a map of the same keys.
LEMMA MapOfType ==
    ASSUME NEW E \in SUBSET Entry
    PROVE  /\ IsMap(MapOf(E), Point, Onion)
           /\ \A garbled \in [Unread(E) -> 0 .. Modulus - 1] :
                 IsMap(Decrypted(E, garbled), Point, Int)
           /\ KeysOf(E) \subseteq Point
<1>1. ASSUME NEW k \in KeysOf(E)
      PROVE  k \in Point /\ (CHOOSE e \in E : e.key = k) \in E
  BY <1>1 DEF KeysOf, Entry
<1>2. \A k \in KeysOf(E) : MapOf(E)[k] \in Onion
  BY <1>1 DEF MapOf, Entry
<1>3. IsMap(MapOf(E), Point, Onion)
  BY <1>1, <1>2 DEF IsMap, MapOf
<1>4. ASSUME NEW garbled \in [Unread(E) -> 0 .. Modulus - 1]
      PROVE  IsMap(Decrypted(E, garbled), Point, Int)
  <2>1. \A k \in KeysOf(E) : Decrypted(E, garbled)[k] \in Int
    BY <1>2, ModulusAssumption DEF Decrypted, ByteToInt, Onion
  <2> QED
    BY <1>1, <2>1 DEF IsMap, Decrypted
<1> QED
  BY <1>1, <1>3, <1>4

\* AddClient keeps Clients a map, and if no two keys had the same address, none
\* have afterwards.
LEMMA AddClientKeepsMap ==
    ASSUME IsMap(Clients, Point, Addr), NEW key \in Point, NEW addr \in Addr
    PROVE  IsMap(AddClient(key, addr), Point, Addr)
BY DEF IsMap, AddClient

\* No two keys of the map have the same value.
Injective(map) == \A k1, k2 \in DOMAIN map : map[k1] = map[k2] => k1 = k2

\* AddClient looks for one entry with the address; as there never are two, one is
\* enough to keep addresses apart.
LEMMA AddClientKeepsInjective ==
    ASSUME Injective(Clients), NEW key, NEW addr
    PROVE  Injective(AddClient(key, addr))
<1> DEFINE same == {k \in DOMAIN Clients : Clients[k] = addr}
           kept == IF same = {} THEN DOMAIN Clients
                   ELSE DOMAIN Clients \ {CHOOSE k \in same : TRUE}
           new == AddClient(key, addr)
<1>1. /\ DOMAIN new = kept \cup {key}
      /\ \A k \in DOMAIN new : new[k] = IF k = key THEN addr ELSE Clients[k]
  BY DEF AddClient
<1>2. kept \subseteq DOMAIN Clients
  OBVIOUS
<1>3. ASSUME NEW k \in kept PROVE Clients[k] # addr
  <2>1. CASE same = {}
    BY <1>3, <2>1
  <2>2. CASE same # {}
    <3>1. PICK d \in same : d = CHOOSE x \in same : TRUE
      BY <2>2
    <3>2. k # d /\ k \in DOMAIN Clients
      BY <1>3, <2>2, <3>1
    <3> QED
      BY <3>1, <3>2 DEF Injective
  <2> QED
    BY <2>1, <2>2
<1> HIDE DEF kept, new
<1>4. ASSUME NEW k1 \in DOMAIN new, NEW k2 \in DOMAIN new, new[k1] = new[k2]
      PROVE  k1 = k2
  BY <1>1, <1>2, <1>3, <1>4 DEF Injective
<1> QED
  BY <1>4 DEF Injective, new

-----------------------------------------------------------------------------
(* Types. *)

Typed == CoordTypeOK /\ net \subseteq Datagram

\* The addresses notices go to, and the maps vote and AddNewClients make.
LEMMA CoordHelperTypes ==
    ASSUME CoordTypeOK
    PROVE  /\ ClientAddrs \subseteq Addr
           /\ InBuffer \subseteq Point
           /\ IsMap(WithNewClients, Point, Int)
           /\ \A k \in Point : GetReputation(k) \in Int
           /\ \A k \in Point, v \in Int :
                 IsMap(Put(DecryptedReputationMap, k, v), Point, Int)
           /\ ServerList # <<>> => GetFirstServer \in Server /\ GetLastServer \in Server
<1> USE DEF CoordTypeOK
<1>1. ClientAddrs \subseteq Addr
  BY DEF ClientAddrs, IsMap
<1>2. InBuffer \subseteq Point
  BY DEF InBuffer
<1>3. IsMap(WithNewClients, Point, Int)
  BY <1>2 DEF WithNewClients, IsMap
<1>4. \A k \in Point : GetReputation(k) \in Int
  BY DEF GetReputation, IsMap
<1>5. \A k \in Point, v \in Int :
         IsMap(Put(DecryptedReputationMap, k, v), Point, Int)
  BY DEF Put, IsMap
<1>6. ServerList # <<>> => GetFirstServer \in Server /\ GetLastServer \in Server
  BY DEF GetFirstServer, GetLastServer
<1> QED
  BY <1>1, <1>2, <1>3, <1>4, <1>5, <1>6

\* Every step of main keeps the types.
LEMMA MainKeepsTypes ==
    ASSUME Typed, MainNext \/ ReadOk
    PROVE  Typed'
<1> USE DEF Typed, CoordTypeOK, MainAt, MainGoto, CoordStates, Statuses, MainPcs,
            chainVars, mapVars, logVars, mainVars, ReadyForNewRound
<1>1. CASE ReadOk
  BY <1>1 DEF ReadOk
<1>2. CASE AwaitReady
  BY <1>2 DEF AwaitReady
<1>3. CASE ClearBuffer
  BY <1>3 DEF ClearBuffer
<1>4. CASE CheckReady
  BY <1>4 DEF CheckReady
<1>5. CASE Announce
  <2> DEFINE list == {[key |-> k, val |-> ReputationMap[k]] :
                         k \in DOMAIN ReputationMap}
  <2>1. list \in SUBSET Entry
    BY DEF IsMap, Entry
  <2>2. ServerList # <<>> => Announcement(GetFirstServer, list, StdBase) \in Datagram
    BY <2>1, PointTypes, RoundDatagramTypes, CoordHelperTypes
  <2> QED
    BY <1>5, <2>2 DEF Announce, SkipAnnouncement, Send
<1>6. CASE AwaitMessage
  BY <1>6 DEF AwaitMessage
<1>7. CASE BeginVote
  BY <1>7 DEF BeginVote
<1>8. CASE Vote
  BY <1>8, CoordHelperTypes, RoundDatagramTypes DEF Vote, Send
<1>9. CASE AddNewClients
  BY <1>9, CoordHelperTypes DEF AddNewClients
<1>10. CASE SendRoundEnd
  <2> DEFINE listed == DOMAIN DecryptedReputationMap \cap DecryptedKeysMap
             list == {[key |-> k, val |-> Plain(DecryptedReputationMap[k])] :
                         k \in listed}
             nil == DOMAIN DecryptedReputationMap \ DecryptedKeysMap
  <2>1. list \in SUBSET Entry
    BY OnionTypes DEF IsMap, Entry
  <2>2. lastServer \in Server
    BY <1>10 DEF SendRoundEnd
  <2>3. RoundEnd(lastServer, list, nil # {}, TRUE) \in Datagram
    BY <2>1, <2>2, RoundDatagramTypes
  <2>4. IsMap([k \in listed |-> DecryptedReputationMap[k]], Point, Int)
    BY DEF IsMap
  <2> QED
    BY <1>10, <2>3, <2>4 DEF SendRoundEnd, Send
<1> QED
  BY <1>1, <1>2, <1>3, <1>4, <1>5, <1>6, <1>7, <1>8, <1>9, <1>10 DEF MainNext

\* A handler that dies changes nothing but coordState.
LEMMA DyingKeepsTypes ==
    ASSUME Typed, NEW m \in net, NEW cause \in CoordStates, CoordDies(m, cause)
    PROVE  Typed'
BY DEF Typed, CoordTypeOK, CoordDies, Reply, chainVars, mapVars, logVars, mainVars

\* So do the handlers that deal with registrations ...
LEMMA RegistrationKeepsTypes ==
    ASSUME Typed, NEW m \in net,
           \/ CoordHandleServerRegister(m)
           \/ CoordHandleClientRegisterControllerSide(m)
           \/ CoordHandleClientRegisterServerSide(m)
    PROVE  Typed'
<1> USE DEF Typed, CoordTypeOK, Handles, CoordStates, chainVars, mapVars, logVars,
            mainVars
<1>1. m \in Datagram
  OBVIOUS
<1>2. CASE CoordHandleServerRegister(m)
  <2>1. m.from \in Server
    BY <1>1, <1>2, AtCoordinator DEF CoordHandleServerRegister
  <2>2. Relink(m.from) \subseteq Datagram
    BY <2>1, RegistrationDatagrams, CoordHelperTypes DEF Relink
  <2>3. Append(ServerList, m.from) \in Seq(Server)
    BY <2>1
  <2> QED
    BY <1>2, <2>2, <2>3 DEF CoordHandleServerRegister, Reply
<1>3. CASE CoordHandleClientRegisterControllerSide(m)
  <2>1. m.from \in Addr /\ m.public_key \in Point
    BY <1>1, <1>3, AtCoordinator DEF CoordHandleClientRegisterControllerSide
  <2>2. IsMap(AddClient(m.public_key, m.from), Point, Addr)
    BY <2>1, AddClientKeepsMap
  <2>3. ServerList # <<>> =>
           ClientRegisterServerSide(GetFirstServer, m.public_key, m.from)
              \in Datagram
    BY <2>1, RegistrationDatagrams, CoordHelperTypes
  <2>4. CASE CoordDies(m, "race")
    BY <2>4, DyingKeepsTypes
  <2> QED
    BY <1>3, <2>2, <2>3, <2>4
       DEF CoordHandleClientRegisterControllerSide, DiesOfRace, Reply
<1>4. CASE CoordHandleClientRegisterServerSide(m)
  <2>1. m.addr \in Addr /\ m.public_key \in Point
    BY <1>1, <1>4, AtCoordinator DEF CoordHandleClientRegisterServerSide
  <2>2. Confirm(m) \subseteq Datagram
    BY <2>1, RegistrationDatagrams DEF Confirm
  <2>3. Append(NewClientsBuffer, m.public_key) \in Seq(Point)
    BY <2>1
  <2>4. CASE CoordDies(m, "race")
    BY <2>4, DyingKeepsTypes
  <2>5. CASE ~ CoordDies(m, "race")
    <3>1. /\ NewClientsBuffer' = Append(NewClientsBuffer, m.public_key)
          /\ Reply(m, Confirm(m))
          /\ MsgLog' = MsgLog \/ MsgLog' = <<>>
          /\ UNCHANGED <<coordState, Status, ServerList, Clients, G,
                         ReputationMap, DecryptedReputationMap,
                         DecryptedKeysMap, listenerPc>>
      BY <1>4, <2>5 DEF CoordHandleClientRegisterServerSide, DiesOfRace
    <3>2. \/ UNCHANGED mainVars
          \/ mainPc = "clear_buffer" /\ MainGoto("check_ready")
      BY <1>4, <2>5 DEF CoordHandleClientRegisterServerSide, DiesOfRace, MainAt
    <3>3. /\ mainPc' \in MainPcs
          /\ round' \in Nat
          /\ IsMap(keysAndVals', Point, Int)
          /\ lastServer' \in IF mainPc' = "round_end" THEN Server ELSE {Coord}
      BY <3>2 DEF MainGoto, MainPcs
    <3>4. <<>> \in Seq(Point)
      OBVIOUS
    <3> QED
      BY <2>2, <2>3, <3>1, <3>3, <3>4 DEF Reply
  <2> QED
    BY <2>4, <2>5
<1> QED
  BY <1>2, <1>3, <1>4

\* ... with requests of clients ...
LEMMA RequestKeepsTypes ==
    ASSUME Typed, NEW m \in net, CoordHandleMsg(m) \/ CoordHandleVote(m)
    PROVE  Typed'
<1> USE DEF Typed, CoordTypeOK, Handles, CoordStates, coordVars, chainVars,
            mapVars, logVars, mainVars
<1>1. m \in Datagram
  OBVIOUS
<1>2. /\ m.from \in Addr /\ m.nym \in Point /\ m.n \in Nat
      /\ m.type = "VOTE" => m.vote \in {-1, 1}
  BY <1>1, AtCoordinator DEF CoordHandleMsg, CoordHandleVote
<1>3. CASE \E cause \in CoordStates : CoordDies(m, cause)
  BY <1>3, DyingKeepsTypes
<1>4. CASE CoordHandleMsg(m)
  <2> DEFINE out == {ClientMessage(a, m.nym, GetReputation(m.nym),
                                   Len(MsgLog) + 1, round) : a \in ClientAddrs}
                    \cup {MsgReply(m.from, m.n)}
  <2>1. GetReputation(m.nym) \in Int /\ Len(MsgLog) + 1 \in Nat /\ ClientAddrs \subseteq Addr
    BY <1>2, CoordHelperTypes
  <2>2. out \subseteq Datagram
    <3>1. \A a \in ClientAddrs :
             ClientMessage(a, m.nym, GetReputation(m.nym), Len(MsgLog) + 1, round)
                \in Datagram
      BY <1>2, <2>1, RoundDatagramTypes
    <3>2. MsgReply(m.from, m.n) \in Datagram
      BY <1>2, RoundDatagramTypes
    <3> QED
      BY <3>1, <3>2
  <2>3. Append(MsgLog, m.nym) \in Seq(Point)
    BY <1>2
  <2>4. CASE ~ \E cause \in CoordStates : CoordDies(m, cause)
    <3> HIDE DEF out
    <3>1. /\ Reply(m, {}) \/ Reply(m, out)
          /\ NewClientsBuffer' = NewClientsBuffer \/ NewClientsBuffer' = <<>>
          /\ MsgLog' = MsgLog \/ MsgLog' = Append(MsgLog, m.nym)
          /\ UNCHANGED <<coordState, Status, ServerList, Clients, G,
                         ReputationMap, DecryptedReputationMap,
                         DecryptedKeysMap, listenerPc>>
      BY <1>4, <2>4 DEF CoordHandleMsg, DiesOfRace, out
    <3>2. \/ UNCHANGED mainVars
          \/ mainPc = "clear_buffer" /\ MainGoto("check_ready")
      BY <1>4, <2>4 DEF CoordHandleMsg, DiesOfRace, MainAt
    <3>3. /\ mainPc' \in MainPcs
          /\ round' \in Nat
          /\ IsMap(keysAndVals', Point, Int)
          /\ lastServer' \in IF mainPc' = "round_end" THEN Server ELSE {Coord}
      BY <3>2 DEF MainGoto, MainPcs
    <3>4. <<>> \in Seq(Point)
      OBVIOUS
    <3> QED
      BY <2>2, <2>3, <3>1, <3>3, <3>4 DEF Reply
  <2> QED
    BY <1>3, <2>4
<1>5. CASE CoordHandleVote(m)
  <2>1. VoteReply(m.from, m.n) \in Datagram
    BY <1>2, RoundDatagramTypes
  <2>2. m.vote \in Int
    BY <1>2, <1>5 DEF CoordHandleVote
  <2>3. ASSUME m.msgID \in DOMAIN MsgLog
        PROVE  LET target == MsgLog[m.msgID]
               IN  IsMap(Put(DecryptedReputationMap, target,
                             GetReputation(target) + m.vote), Point, Int)
    <3>1. MsgLog[m.msgID] \in Point
      BY <2>3
    <3>2. GetReputation(MsgLog[m.msgID]) + m.vote \in Int
      BY <3>1, <2>2, CoordHelperTypes
    <3> QED
      BY <3>1, <3>2, CoordHelperTypes
  <2> QED
    BY <1>3, <1>5, <2>1, <2>3 DEF CoordHandleVote, DiesOfRace, Reply
<1> QED
  BY <1>4, <1>5

\* ... and with the rounds.
LEMMA RoundKeepsTypes ==
    ASSUME Typed,
           \/ \E m \in net : CoordHandleAnnouncement(m) \/ CoordHandleRoundEnd(m)
           \/ CoordRoundEndAwake
    PROVE  Typed'
<1> USE DEF Typed, CoordTypeOK, Handles, Statuses, chainVars, mapVars, logVars,
            mainVars
<1>1. ASSUME NEW m \in net, CoordHandleAnnouncement(m)
      PROVE  Typed'
  <2>1. m.entries \in SUBSET Entry /\ m.g \in Point
    BY <1>1, AtCoordinator DEF CoordHandleAnnouncement
  <2>2. {ClientAnnouncement(a, m.g) : a \in ClientAddrs} \subseteq Datagram
    BY <2>1, CoordHelperTypes, RoundDatagramTypes
  <2>3. CASE FinishEmptyList(m)
    BY <1>1, <2>3 DEF CoordHandleAnnouncement, FinishEmptyList, Reply
  <2>4. CASE FinishAnnouncement(m)
    BY <1>1, <2>1, <2>2, <2>4, MapOfType
       DEF CoordHandleAnnouncement, FinishAnnouncement, Reply
  <2> QED
    BY <1>1, <2>3, <2>4 DEF CoordHandleAnnouncement
<1>2. ASSUME NEW m \in net, CoordHandleRoundEnd(m)
      PROVE  Typed'
  <2>1. m.entries \in SUBSET Entry
    BY <1>2, AtCoordinator DEF CoordHandleRoundEnd
  <2>2. {ClientRoundEnd(a, round) : a \in ClientAddrs} \subseteq Datagram
    BY CoordHelperTypes, RoundDatagramTypes
  <2> QED
    BY <1>2, <2>1, <2>2, MapOfType DEF CoordHandleRoundEnd, Reply
<1>3. CASE CoordRoundEndAwake
  BY <1>3 DEF CoordRoundEndAwake, RoundOver
<1> QED
  BY <1>1, <1>2, <1>3

\* Every step of the coordinator, and the operator's "ok", keeps the types.
LEMMA CoordKeepsTypes ==
    ASSUME Typed, CoordNext \/ ReadOk
    PROVE  Typed'
BY MainKeepsTypes, RegistrationKeepsTypes, RequestKeepsTypes, RoundKeepsTypes
   DEF CoordNext, ListenerNext

\* Clients is written by AddClient alone.
LEMMA CoordKeepsOneClient ==
    ASSUME OneClientPerAddress, CoordNext \/ ReadOk
    PROVE  OneClientPerAddress'
<1> USE DEF OneClientPerAddress
<1>1. CASE UNCHANGED Clients
  BY <1>1 DEF Injective
<1>2. ASSUME NEW m \in net, CoordHandleClientRegisterControllerSide(m)
      PROVE  OneClientPerAddress'
  <2>1. \/ UNCHANGED Clients
        \/ Clients' = AddClient(m.public_key, m.from)
    BY <1>2 DEF CoordHandleClientRegisterControllerSide, DiesOfRace, CoordDies
  <2>2. CASE Clients' = AddClient(m.public_key, m.from)
    <3>1. Injective(AddClient(m.public_key, m.from))
      <4>1. Injective(Clients)
        BY DEF Injective
      <4> QED
        BY <4>1, AddClientKeepsInjective
    <3> QED
      BY <2>2, <3>1 DEF Injective
  <2> QED
    BY <1>1, <2>1, <2>2
<1>3. CASE MainNext \/ ReadOk
  BY <1>1, <1>3
     DEF MainNext, ReadOk, AwaitReady, ClearBuffer, CheckReady, Announce,
         AwaitMessage, BeginVote, Vote, AddNewClients, SendRoundEnd
<1>4. ASSUME NEW m \in net,
             \/ CoordHandleServerRegister(m)
             \/ CoordHandleClientRegisterServerSide(m)
             \/ CoordHandleAnnouncement(m)
             \/ CoordHandleMsg(m)
             \/ CoordHandleVote(m)
             \/ CoordHandleRoundEnd(m)
      PROVE  OneClientPerAddress'
  BY <1>1, <1>4
     DEF CoordHandleServerRegister, CoordHandleClientRegisterServerSide,
         CoordHandleAnnouncement, CoordHandleMsg, CoordHandleVote,
         CoordHandleRoundEnd, DiesOfRace, CoordDies, coordVars
<1>5. CASE CoordRoundEndAwake
  BY <1>1, <1>5 DEF CoordRoundEndAwake
<1> QED
  BY <1>2, <1>3, <1>4, <1>5 DEF CoordNext, ListenerNext

-----------------------------------------------------------------------------
(* The servers. *)

ServersTyped == ServerTypeOK /\ net \subseteq Datagram

\* The lists and maps the handlers make.
LEMMA ServerHelperTypes ==
    ASSUME ServerTypeOK, NEW s \in Server
    PROVE  /\ Roundkey(s) \in Secret
           /\ \A S \in SUBSET Point : IsMap(Recorded(s, S), Point, Point)
           /\ \A E \in SUBSET Entry :
                 /\ KeysOf(E) \subseteq Point
                 /\ (\A e \in E : CanDecrypt(e.val, s)) =>
                       Raised(s, E) \in SUBSET Entry
                 /\ KeysOf(E) \subseteq DOMAIN KeyMap[s] =>
                       Restored(s, E) \in SUBSET Entry
<1> USE DEF ServerTypeOK
<1>1. Roundkey(s) \in Secret
  BY DEF Roundkey, Secret
<1>2. ASSUME NEW S \in SUBSET Point
      PROVE  IsMap(Recorded(s, S), Point, Point)
  <2> DEFINE raised == {Mul(k, Roundkey(s)) : k \in S}
  <2>1. raised \subseteq Point
    BY <1>1, PointTypes
  <2>2. ASSUME NEW k \in raised
        PROVE  (CHOOSE p \in S : Mul(p, Roundkey(s)) = k) \in Point
    OBVIOUS
  <2>3. IsMap(KeyMap[s], Point, Point)
    OBVIOUS
  <2> HIDE DEF raised
  <2>4. Recorded(s, S) =
           [k \in DOMAIN KeyMap[s] \cup raised |->
               IF k \in raised THEN CHOOSE p \in S : Mul(p, Roundkey(s)) = k
               ELSE KeyMap[s][k]]
    BY DEF Recorded, raised
  <2> QED
    BY <2>1, <2>2, <2>3, <2>4 DEF IsMap
<1>3. ASSUME NEW E \in SUBSET Entry
      PROVE  KeysOf(E) \subseteq Point
  BY DEF KeysOf, Entry
<1>4. ASSUME NEW E \in SUBSET Entry, \A e \in E : CanDecrypt(e.val, s)
      PROVE  Raised(s, E) \in SUBSET Entry
  <2>1. \A e \in E : Mul(e.key, Roundkey(s)) \in Point /\ Decrypt(e.val) \in Onion
    BY <1>1, <1>4, PointTypes, OnionTypes DEF Entry
  <2> QED
    BY <2>1 DEF Raised, Entry
<1>5. ASSUME NEW E \in SUBSET Entry, KeysOf(E) \subseteq DOMAIN KeyMap[s]
      PROVE  Restored(s, E) \in SUBSET Entry
  <2>1. \A e \in E : KeyMap[s][e.key] \in Point /\ Encrypt(e.val, s) \in Onion
    BY <1>5, OnionTypes DEF Entry, KeysOf, IsMap
  <2> QED
    BY <2>1 DEF Restored, Entry
<1> QED
  BY <1>1, <1>2, <1>3, <1>4, <1>5

\* Every step of a server keeps the types.
LEMMA ServerKeepsTypes ==
    ASSUME ServersTyped, ServerNext \/ \E s \in Server : ServerStart(s)
    PROVE  ServersTyped'
<1> USE DEF ServersTyped, ServerTypeOK, ServerHandles, ServerStates
<1>1. ASSUME NEW s \in Server, ServerStart(s) PROVE ServersTyped'
  BY <1>1, RegistrationDatagrams DEF ServerStart, Send
<1>2. ASSUME NEW s \in Server, ServerGivesUp(s) PROVE ServersTyped'
  BY <1>2 DEF ServerGivesUp
<1>3. ASSUME NEW s \in Server, NEW m \in net, ServerHandleRegisterReply(s, m)
      PROVE  ServersTyped'
  <2>1. m.prev_server \in Server \cup {Coord}
    BY <1>3, AtServer DEF ServerHandleRegisterReply
  <2> QED
    BY <1>3, <2>1 DEF ServerHandleRegisterReply, Reply
<1>4. ASSUME NEW s \in Server, NEW m \in net, ServerHandleUpdateNextHop(s, m)
      PROVE  ServersTyped'
  <2>1. m.next_hop \in Server
    BY <1>4, AtServer DEF ServerHandleUpdateNextHop
  <2> QED
    BY <1>4, <2>1 DEF ServerHandleUpdateNextHop, Reply
<1>5. ASSUME NEW s \in Server, NEW m \in net, ServerHandleClientRegister(s, m)
      PROVE  ServersTyped'
  <2>1. m.addr \in Addr /\ m.public_key \in Point
    BY <1>5, AtServer DEF ServerHandleClientRegister
  <2>2. ClientRegisterServerSide(NextHop[s], Mul(m.public_key, Roundkey(s)), m.addr)
           \in Datagram
    BY <2>1, ServerHelperTypes, PointTypes, RegistrationDatagrams
  <2>3. IsMap(Recorded(s, {m.public_key}), Point, Point)
    BY <2>1, ServerHelperTypes
  <2> QED
    BY <1>5, <2>2, <2>3 DEF ServerHandleClientRegister, Reply
<1>6. ASSUME NEW s \in Server, NEW m \in net, NEW cause \in ServerStates,
             ServerDies(s, m, cause)
      PROVE  ServersTyped'
  BY <1>6 DEF ServerDies, Reply
<1>7. ASSUME NEW s \in Server, NEW m \in net, ServerHandleAnnouncement(s, m)
      PROVE  ServersTyped'
  <2>1. m.entries \in SUBSET Entry /\ m.g \in Point
    BY <1>7, AtServer DEF ServerHandleAnnouncement
  <2>2. CASE ServerDies(s, m, "decrypt")
    BY <1>6, <2>2
  <2>3. CASE ~ ServerDies(s, m, "decrypt")
    <3>1. \A e \in m.entries : CanDecrypt(e.val, s)
      BY <1>7, <2>3 DEF ServerHandleAnnouncement
    <3>2. Announcement(NextHop[s], Raised(s, m.entries), RaisedG(s, m.g)) \in Datagram
      BY <2>1, <3>1, ServerHelperTypes, PointTypes, RoundDatagramTypes DEF RaisedG
    <3>3. IsMap(Recorded(s, KeysOf(m.entries)), Point, Point)
      BY <2>1, ServerHelperTypes
    <3> QED
      BY <1>7, <2>3, <3>2, <3>3 DEF ServerHandleAnnouncement, Reply
  <2> QED
    BY <2>2, <2>3
<1>8. ASSUME NEW s \in Server, NEW m \in net, ServerHandleRoundEnd(s, m)
      PROVE  ServersTyped'
  <2> DEFINE known == {e \in Words(m) : e.key \in DOMAIN KeyMap[s]}
             missing == ~ KeysOf(m.entries) \subseteq DOMAIN KeyMap[s]
             out == RoundEnd(PreviousHop[s], Restored(s, known), missing, FALSE)
  <2>1. m.entries \in SUBSET Entry
    BY <1>8, AtServer DEF ServerHandleRoundEnd
  <2>2. Words(m) \in SUBSET Entry
    <3>1. \A n \in Int : IntToByte(n) \in Int
      BY ModulusAssumption DEF IntToByte
    <3>2. \A e \in Entry : Plain(IntToByte(e.val.rep)) \in Onion
      BY <3>1, OnionTypes DEF Entry, Onion
    <3>3. \A e \in Entry : [e EXCEPT !.val = Plain(IntToByte(e.val.rep))] \in Entry
      BY <3>2 DEF Entry
    <3> QED
      BY <2>1, <3>3 DEF Words
  <2>3. out \in Datagram
    <3>1. known \in SUBSET Entry /\ KeysOf(known) \subseteq DOMAIN KeyMap[s]
      BY <2>2 DEF KeysOf
    <3>2. Restored(s, known) \in SUBSET Entry
      BY <3>1, ServerHelperTypes
    <3> QED
      BY <3>2, RoundDatagramTypes
  <2>4. CASE ServerDies(s, m, "index") \/ ServerDies(s, m, "nil_key")
    BY <1>6, <2>4
  <2>5. CASE ~ (ServerDies(s, m, "index") \/ ServerDies(s, m, "nil_key"))
    <3>1. /\ Reply(m, {out})
          /\ PickRoundkey(s)
          /\ ForgetKeys(s)
          /\ UNCHANGED <<serverState, IsConnected, NextHop, PreviousHop>>
      BY <1>8, <2>5 DEF ServerHandleRoundEnd
    <3>2. IsMap(NoEntries, Point, Point)
      BY DEF IsMap, NoEntries
    <3> HIDE DEF out
    <3> QED
      BY <2>3, <3>1, <3>2 DEF Reply, PickRoundkey, ForgetKeys
  <2> QED
    BY <2>4, <2>5
<1> QED
  BY <1>1, <1>2, <1>3, <1>4, <1>5, <1>7, <1>8 DEF ServerNext, ServerListenerNext

-----------------------------------------------------------------------------
(* KeyMap and Roundkey. *)

\* Recording keys adds pairs that the round key relates and keeps the others.
LEMMA RecordedUndone ==
    ASSUME NEW s \in Server, NEW S,
           \A k \in DOMAIN KeyMap[s] : k = Mul(KeyMap[s][k], Roundkey(s))
    PROVE  \A k \in DOMAIN Recorded(s, S) :
              k = Mul(Recorded(s, S)[k], Roundkey(s))
<1> DEFINE raised == {Mul(k, Roundkey(s)) : k \in S}
<1>1. ASSUME NEW k \in raised
      PROVE  Mul(CHOOSE p \in S : Mul(p, Roundkey(s)) = k, Roundkey(s)) = k
  OBVIOUS
<1> HIDE DEF raised
<1>2. Recorded(s, S) =
         [k \in DOMAIN KeyMap[s] \cup raised |->
             IF k \in raised THEN CHOOSE p \in S : Mul(p, Roundkey(s)) = k
             ELSE KeyMap[s][k]]
  BY DEF Recorded, raised
<1> QED
  BY <1>1, <1>2

\* Every step of a server keeps them together: the handlers that fill KeyMap
\* leave the round key alone, the one that picks a round key empties KeyMap.
LEMMA ServerKeepsKeyMap ==
    ASSUME ServerTypeOK, KeyMapMatchesRoundkey,
           ServerNext \/ \E s \in Server : ServerStart(s)
    PROVE  KeyMapMatchesRoundkey'
<1>1. CASE UNCHANGED <<KeyMap, epoch>>
  BY <1>1 DEF KeyMapMatchesRoundkey, Roundkey
<1>2. ASSUME NEW s \in Server, NEW S,
             KeyMap' = [KeyMap EXCEPT ![s] = Recorded(s, S)], UNCHANGED epoch
      PROVE  KeyMapMatchesRoundkey'
  <2>1. \A k \in DOMAIN Recorded(s, S) : k = Mul(Recorded(s, S)[k], Roundkey(s))
    BY RecordedUndone DEF KeyMapMatchesRoundkey
  <2>2. ASSUME NEW t \in Server
        PROVE  /\ Roundkey(t)' = Roundkey(t)
               /\ KeyMap'[t] = IF t = s THEN Recorded(s, S) ELSE KeyMap[t]
    BY <1>2 DEF Roundkey, ServerTypeOK
  <2> QED
    BY <2>1, <2>2 DEF KeyMapMatchesRoundkey
<1>3. ASSUME NEW s \in Server, PickRoundkey(s), ForgetKeys(s)
      PROVE  KeyMapMatchesRoundkey'
  <2>1. ASSUME NEW t \in Server
        PROVE  \/ DOMAIN KeyMap'[t] = {}
               \/ KeyMap'[t] = KeyMap[t] /\ Roundkey(t)' = Roundkey(t)
    BY <1>3 DEF PickRoundkey, ForgetKeys, Roundkey, ServerTypeOK, NoEntries
  <2> QED
    BY <2>1 DEF KeyMapMatchesRoundkey
<1>4. ASSUME NEW s \in Server, ServerStart(s) \/ ServerGivesUp(s)
      PROVE  KeyMapMatchesRoundkey'
  BY <1>1, <1>4 DEF ServerStart, ServerGivesUp
<1>5. ASSUME NEW s \in Server, NEW m \in net,
             ServerHandleRegisterReply(s, m) \/ ServerHandleUpdateNextHop(s, m)
      PROVE  KeyMapMatchesRoundkey'
  BY <1>1, <1>5 DEF ServerHandleRegisterReply, ServerHandleUpdateNextHop
<1>6. ASSUME NEW s \in Server, NEW m \in net, ServerHandleClientRegister(s, m)
      PROVE  KeyMapMatchesRoundkey'
  BY <1>2, <1>6 DEF ServerHandleClientRegister
<1>7. ASSUME NEW s \in Server, NEW m \in net, ServerHandleAnnouncement(s, m)
      PROVE  KeyMapMatchesRoundkey'
  BY <1>1, <1>2, <1>7 DEF ServerHandleAnnouncement, ServerDies
<1>8. ASSUME NEW s \in Server, NEW m \in net, ServerHandleRoundEnd(s, m)
      PROVE  KeyMapMatchesRoundkey'
  BY <1>1, <1>3, <1>8 DEF ServerHandleRoundEnd, ServerDies
<1> QED
  BY <1>4, <1>5, <1>6, <1>7, <1>8 DEF ServerNext, ServerListenerNext
=============================================================================
