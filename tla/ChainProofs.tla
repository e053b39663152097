------------------------------ MODULE ChainProofs ------------------------------
(***************************************************************************)
(* The chain of servers and what travels it.  Without loss the hops follow *)
(* the list of servers; and if people keep to the order of launching that  *)
(* README.md tells them, every list is where its keys and its layers say   *)
(* it is, for any number of servers and clients and any delays.            *)
(***************************************************************************)
EXTENDS AnonCredProofs

\* The registrations of servers and what answers them.
IsTopology(m) ==
    m.type \in {"SERVER_REGISTER", "SERVER_REGISTER_REPLY", "UPDATE_NEXT_HOP"}

Topology == {m \in net : IsTopology(m)}

Places == 1 .. Len(ServerList)

\* The i-th process along the chain; the coordinator is at both ends.
Hop(i) == IF i \in Places THEN ServerList[i] ELSE Coord

Listed(s) == \E i \in Places : ServerList[i] = s

\* The links of the i-th server are stored, or what will store them is under way.
LinkedForward(i) ==
    LET s == ServerList[i]
    IN  \/ /\ NextHop[s] = Hop(i + 1)
           /\ \A m \in Topology : m.type = "UPDATE_NEXT_HOP" => m.to # s
        \/ /\ NextHop[s] = Coord /\ i < Len(ServerList)
           /\ UpdateNextHop(s, Hop(i + 1)) \in Topology

LinkedBackward(i) ==
    LET s == ServerList[i]
    IN  \/ IsConnected[s] /\ PreviousHop[s] = Hop(i - 1)
        \/ ~ IsConnected[s] /\ ServerRegisterReply(s, Hop(i - 1)) \in Topology

\* A server registers once, and what is under way for it is the truth.
ChainInv ==
    /\ \A i, j \in Places : ServerList[i] = ServerList[j] => i = j
    /\ \A m \in Topology :
          /\ m.type = "SERVER_REGISTER" =>
                serverState[m.from] # "off" /\ ~ Listed(m.from)
          /\ m.type = "SERVER_REGISTER_REPLY" =>
                \E i \in Places : /\ m.to = ServerList[i] /\ m.prev_server = Hop(i - 1)
                                  /\ ~ IsConnected[ServerList[i]]
          /\ m.type = "UPDATE_NEXT_HOP" =>
                \E i \in Places : /\ i + 1 \in Places
                                  /\ m.to = ServerList[i] /\ m.next_hop = ServerList[i + 1]
    /\ \A s \in Server : ~ Listed(s) => NextHop[s] = Coord /\ ~ IsConnected[s]
    /\ \A i \in Places : /\ serverState[ServerList[i]] # "off"
                         /\ LinkedForward(i) /\ LinkedBackward(i)

\* The chain once the careful operator has typed ok: it does not change again.
Linked ==
    /\ Topology = {}
    /\ \A s \in Server : Listed(s) /\ serverState[s] # "off"
    /\ \A i \in Places : /\ NextHop[ServerList[i]] = Hop(i + 1)
                         /\ PreviousHop[ServerList[i]] = Hop(i - 1)

LinkedInv == mainPc # "read_ok" => Linked

\* A value under the layers of the servers from the i-th to the l-th, the i-th
\* one's outermost.
Under(v, i, l) ==
    /\ Len(v.layers) = l + 1 - i
    /\ \A j \in 1 .. l + 1 - i : v.layers[j] = ServerList[l + 1 - j]

\* A value under the layers of the servers from the i-th to the last.
Sealed(v, i) == Under(v, i, Len(ServerList))

\* What the chain passes on.
OnTheWay == {m \in net : m.type = "CLIENT_REGISTER_SERVERSIDE" \/ IsRound(m)}

\* m is on its way to the i-th process, and its keys and values look like that.
InPlace(m, i) ==
    /\ m.to = Hop(i)
    /\ m.type = "CLIENT_REGISTER_SERVERSIDE" =>
          i >= 1 /\ Len(m.public_key.exps) = i - 1
    /\ m.type = "ANNOUNCEMENT" =>
          /\ i >= 1
          /\ \A e \in m.entries : Len(e.key.exps) = i - 1 /\ Sealed(e.val, i)
    /\ m.type = "ROUND_END" =>
          /\ i <= Len(ServerList)
          /\ m.is_start => i = Len(ServerList)
          /\ \A e \in m.entries : Len(e.key.exps) = i /\ Sealed(e.val, i + 1)

AllInPlace == \A m \in OnTheWay : \E i \in 0 .. Len(ServerList) + 1 : InPlace(m, i)

ListInv ==
    /\ AllInPlace
    /\ \A m \in net : m.type = "CLIENT_REGISTER_CONTROLLERSIDE" =>
          m.public_key.exps = <<>>
    /\ \A k \in DOMAIN ReputationMap : k.exps = <<>> /\ Sealed(ReputationMap[k], 1)
    /\ \A k \in DecryptedKeysMap \cup InBuffer : Len(k.exps) = Len(ServerList)
    /\ mainPc = "round_end" => lastServer = Hop(Len(ServerList))
    /\ mainPc = "read_ok" =>
          /\ OnTheWay = {} /\ DOMAIN ReputationMap = {}
          /\ DecryptedKeysMap = {} /\ NewClientsBuffer = <<>>
          /\ ~ \E m \in net : m.type = "CLIENT_REGISTER_CONTROLLERSIDE"

\* The secret sec is not in use any more: its server has picked another.
Spent(sec) == sec[2] < epoch[sec[1]]

AllSpent == \A j \in DOMAIN G.exps : Spent(G.exps[j])

\* The servers behind the i-th have reset the secrets of the round.
SpentBehind(i) ==
    \A j \in DOMAIN G.exps :
        (\E l \in Places : l > i /\ G.exps[j][1] = ServerList[l]) => Spent(G.exps[j])

\* What a datagram of a round says of the secrets.
Tells(m) ==
    /\ m.type = "ANNOUNCEMENT" =>
          \A j \in DOMAIN m.g.exps : m.g.exps[j][2] = epoch[m.g.exps[j][1]]
    /\ m.type = "ROUND_END" =>
          \E i \in 0 .. Len(ServerList) : m.to = Hop(i) /\ SpentBehind(i)

\* The generator clients use is made of secrets that are in use only until the
\* end of the round has passed their server.
SecretInv ==
    /\ \A m \in RoundDatagrams : Tells(m)
    /\ \A j \in DOMAIN G.exps : G.exps[j][2] <= epoch[G.exps[j][1]]
    /\ Status # "MESSAGE" \/ listenerPc = "sleeping" => AllSpent

-----------------------------------------------------------------------------
(* The chain. *)

\* A step that has nothing to do with the chain.
ChainQuiet ==
    /\ UNCHANGED <<ServerList, IsConnected, NextHop, PreviousHop>>
    /\ Topology' = Topology
    /\ \A s \in Server : serverState[s] # "off" => serverState'[s] # "off"

\* Neither what registers clients nor what a round sends is of the topology.
LEMMA NotTopology ==
    /\ \A c : ~ IsTopology(ClientRegisterControllerSide(c))
    /\ \A d, k, a : ~ IsTopology(ClientRegisterServerSide(d, k, a))
    /\ \A a, k : ~ IsTopology(ClientRegisterConfirmation(a, k))
    /\ \A d, e, g : ~ IsTopology(Announcement(d, e, g))
    /\ \A d, e, b1, b2 : ~ IsTopology(RoundEnd(d, e, b1, b2))
    /\ \A a, g : ~ IsTopology(ClientAnnouncement(a, g))
    /\ \A a, k, r, i, n : ~ IsTopology(ClientMessage(a, k, r, i, n))
    /\ \A a, n : ~ IsTopology(ClientVotePhase(a, n)) /\ ~ IsTopology(ClientRoundEnd(a, n))
    /\ \A a, n : ~ IsTopology(MsgReply(a, n)) /\ ~ IsTopology(VoteReply(a, n))
    /\ \A a, k, s, n : ~ IsTopology(SignedMsg(a, k, s, n))
    /\ \A a, k, s, i, v, n : ~ IsTopology(SignedVote(a, k, s, i, v, n))
BY DEF IsTopology, ClientRegisterControllerSide, ClientRegisterServerSide,
       ClientRegisterConfirmation, Announcement, RoundEnd, ClientAnnouncement,
       ClientMessage, ClientVotePhase, ClientRoundEnd, MsgReply, VoteReply,
       SignedMsg, SignedVote

\* Main has no hand in the chain.
LEMMA MainChainQuiet ==
    ASSUME MainNext \/ ReadOk, UNCHANGED serverVars
    PROVE  ChainQuiet
<1>1. UNCHANGED ServerList
  BY DEF MainNext, ReadOk, AwaitReady, ClearBuffer, CheckReady, Announce,
         AwaitMessage, BeginVote, Vote, AddNewClients, SendRoundEnd, chainVars
<1>2. net \subseteq net' /\ \A r \in net' : IsTopology(r) => r \in net
  <2>1. CASE Announce
    BY <2>1, NotTopology DEF Announce, SkipAnnouncement, Send
  <2>2. CASE Vote
    BY <2>2, NotTopology DEF Vote, Send
  <2>3. CASE SendRoundEnd
    BY <2>3, NotTopology DEF SendRoundEnd, Send
  <2> QED
    BY <2>1, <2>2, <2>3
       DEF MainNext, ReadOk, AwaitReady, ClearBuffer, CheckReady, AwaitMessage,
           BeginVote, AddNewClients
<1>3. Topology' = Topology
  BY <1>2 DEF Topology, IsTopology
<1> QED
  BY <1>1, <1>3 DEF ChainQuiet, serverVars

\* A handler of the coordinator, except that of a server's registration.
LEMMA ListenerChainQuiet ==
    ASSUME ListenerNext, UNCHANGED serverVars,
           ~ \E m \in net : CoordHandleServerRegister(m)
    PROVE  ChainQuiet
<1>1. ASSUME NEW m \in net, NEW out, Reply(m, out), UNCHANGED ServerList,
             ~ IsTopology(m), \A r \in out : ~ IsTopology(r)
      PROVE  ChainQuiet
  <2>1. Topology' = Topology
    BY <1>1 DEF Topology, Reply, IsTopology
  <2> QED
    BY <1>1, <2>1 DEF ChainQuiet, serverVars
<1>2. ASSUME NEW m \in net, NEW cause, CoordDies(m, cause), ~ IsTopology(m)
      PROVE  ChainQuiet
  BY <1>1, <1>2 DEF CoordDies, chainVars
<1>3. ASSUME NEW m \in net, CoordHandleClientRegisterControllerSide(m)
      PROVE  ChainQuiet
  BY <1>1, <1>2, <1>3, NotTopology
     DEF CoordHandleClientRegisterControllerSide, Handles, IsTopology, DiesOfRace,
         chainVars
<1>4. ASSUME NEW m \in net, CoordHandleClientRegisterServerSide(m)
      PROVE  ChainQuiet
  BY <1>1, <1>2, <1>4, NotTopology
     DEF CoordHandleClientRegisterServerSide, Handles, IsTopology, DiesOfRace,
         Confirm, chainVars
<1>5. ASSUME NEW m \in net, CoordHandleAnnouncement(m)
      PROVE  ChainQuiet
  <2>1. ~ IsTopology(m) /\ UNCHANGED ServerList
    BY <1>5 DEF CoordHandleAnnouncement, Handles, IsTopology, chainVars
  <2>2. CASE FinishEmptyList(m)
    BY <1>1, <2>1, <2>2 DEF FinishEmptyList
  <2>3. CASE FinishAnnouncement(m)
    BY <1>1, <2>1, <2>3, NotTopology DEF FinishAnnouncement
  <2> QED
    BY <1>5, <2>2, <2>3 DEF CoordHandleAnnouncement
<1>6. ASSUME NEW m \in net, CoordHandleMsg(m)
      PROVE  ChainQuiet
  <2>1. ~ IsTopology(m)
    BY <1>6 DEF CoordHandleMsg, Handles, IsTopology
  <2>2. CASE \E cause : CoordDies(m, cause)
    BY <1>2, <2>1, <2>2
  <2>3. CASE ~ \E cause : CoordDies(m, cause)
    BY <1>1, <1>6, <2>1, <2>3, NotTopology
       DEF CoordHandleMsg, DiesOfRace, coordVars, chainVars
  <2> QED
    BY <2>2, <2>3
<1>7. ASSUME NEW m \in net, CoordHandleVote(m)
      PROVE  ChainQuiet
  <2>1. ~ IsTopology(m)
    BY <1>7 DEF CoordHandleVote, Handles, IsTopology
  <2>2. CASE \E cause : CoordDies(m, cause)
    BY <1>2, <2>1, <2>2
  <2>3. CASE ~ \E cause : CoordDies(m, cause)
    BY <1>1, <1>7, <2>1, <2>3, NotTopology
       DEF CoordHandleVote, DiesOfRace, coordVars, chainVars
  <2> QED
    BY <2>2, <2>3
<1>8. ASSUME NEW m \in net, CoordHandleRoundEnd(m)
      PROVE  ChainQuiet
  BY <1>1, <1>8, NotTopology
     DEF CoordHandleRoundEnd, Handles, IsTopology, chainVars
<1>9. CASE CoordRoundEndAwake
  BY <1>9 DEF CoordRoundEndAwake, ChainQuiet, Topology, serverVars, chainVars
<1> QED
  BY <1>3, <1>4, <1>5, <1>6, <1>7, <1>8, <1>9 DEF ListenerNext

\* What a server does with keys and lists, and a server that gives up.
LEMMA ServerChainQuiet ==
    ASSUME TypeOK, ServerNext, UNCHANGED coordVars,
           ~ \E s \in Server, m \in net : \/ ServerHandleRegisterReply(s, m)
                                          \/ ServerHandleUpdateNextHop(s, m)
    PROVE  ChainQuiet
<1> USE DEF TypeOK, ServerTypeOK
<1>1. ASSUME NEW s \in Server, ServerGivesUp(s)
      PROVE  ChainQuiet
  BY <1>1 DEF ServerGivesUp, ChainQuiet, Topology, coordVars, chainVars
<1>2. ASSUME NEW m \in net, NEW out, Reply(m, out), ~ IsTopology(m),
             \A r \in out : ~ IsTopology(r),
             UNCHANGED <<IsConnected, NextHop, PreviousHop>>,
             \A s \in Server : serverState[s] # "off" => serverState'[s] # "off"
      PROVE  ChainQuiet
  <2>1. Topology' = Topology
    BY <1>2 DEF Topology, Reply, IsTopology
  <2> QED
    BY <1>2, <2>1 DEF ChainQuiet, coordVars, chainVars
<1>3. ASSUME NEW s \in Server, NEW m \in net, NEW cause, cause # "off",
             ServerDies(s, m, cause), ~ IsTopology(m)
      PROVE  ChainQuiet
  BY <1>2, <1>3 DEF ServerDies
<1>4. ASSUME NEW s \in Server, NEW m \in net, ServerHandleClientRegister(s, m)
      PROVE  ChainQuiet
  BY <1>2, <1>4, NotTopology
     DEF ServerHandleClientRegister, ServerHandles, IsTopology
<1>5. ASSUME NEW s \in Server, NEW m \in net, ServerHandleAnnouncement(s, m)
      PROVE  ChainQuiet
  <2>1. ~ IsTopology(m)
    BY <1>5 DEF ServerHandleAnnouncement, ServerHandles, IsTopology
  <2> QED
    BY <1>2, <1>3, <1>5, <2>1, NotTopology DEF ServerHandleAnnouncement
<1>6. ASSUME NEW s \in Server, NEW m \in net, ServerHandleRoundEnd(s, m)
      PROVE  ChainQuiet
  <2>1. ~ IsTopology(m)
    BY <1>6 DEF ServerHandleRoundEnd, ServerHandles, IsTopology
  <2> DEFINE known == {e \in Words(m) : e.key \in DOMAIN KeyMap[s]}
             missing == ~ KeysOf(m.entries) \subseteq DOMAIN KeyMap[s]
             out == RoundEnd(PreviousHop[s], Restored(s, known), missing, FALSE)
  <2>2. \/ ServerDies(s, m, "index")
        \/ ServerDies(s, m, "nil_key")
        \/ /\ Reply(m, {out})
           /\ UNCHANGED <<serverState, IsConnected, NextHop, PreviousHop>>
    BY <1>6 DEF ServerHandleRoundEnd
  <2>3. ~ IsTopology(out)
    BY NotTopology
  <2> HIDE DEF out
  <2> QED
    BY <1>2, <1>3, <2>1, <2>2, <2>3
<1> QED
  BY <1>1, <1>4, <1>5, <1>6 DEF ServerNext, ServerListenerNext

\* Clients have no hand in the chain.
LEMMA ClientChainQuiet ==
    ASSUME TypeOK, ClientNext \/ \E c \in Client : Register(c),
           UNCHANGED <<coordVars, serverVars>>
    PROVE  ChainQuiet
<1>1. ASSUME NEW out, Send(out), \A r \in out : ~ IsTopology(r)
      PROVE  Topology' = Topology
  BY <1>1 DEF Send, Topology, IsTopology
<1>2. ASSUME NEW c \in Client, Register(c)
      PROVE  Topology' = Topology
  BY <1>1, <1>2, NotTopology DEF Register
<1>3. ASSUME NEW c \in Client, SendRequest(c)
      PROVE  Topology' = Topology
  BY <1>1, <1>3, NotTopology DEF SendRequest
<1>4. ASSUME NEW c \in Client, AwaitFirstRound(c) \/ SendMsg(c) \/ SendVote(c) \/ Exit(c)
      PROVE  Topology' = Topology
  BY <1>4 DEF AwaitFirstRound, SendMsg, SendVote, Exit, Sign, Topology
<1>5. ASSUME NEW c \in Client, ClientStoreG(c) \/ ClientStoreNym(c)
      PROVE  Topology' = Topology
  BY <1>5 DEF ClientStoreG, ClientStoreNym, Topology
<1>6. ASSUME NEW c \in Client, NEW m \in net,
             \/ ClientHandleRegisterConfirmation(c, m)
             \/ ClientHandleAnnouncement(c, m)
             \/ ClientHandleMsg(c, m)
             \/ ClientHandleRoundEnd(c, m)
             \/ ClientPrints(c, m)
      PROVE  Topology' = Topology
  <2>1. net' = net \ {m} /\ ~ IsTopology(m)
    BY <1>6 DEF ClientHandleRegisterConfirmation, ClientHandleAnnouncement,
         ClientHandleMsg, ClientHandleRoundEnd, ClientPrints, ClientHandles, Reply,
         IsTopology
  <2> QED
    BY <2>1 DEF Topology, IsTopology
<1>7. Topology' = Topology
  BY <1>2, <1>3, <1>4, <1>5, <1>6
     DEF ClientNext, ClientMainNext, ClientListenerNext
<1> QED
  BY <1>7 DEF ChainQuiet, coordVars, serverVars, chainVars

\* The steps that touch the chain.
LEMMA ChainCases ==
    ASSUME TypeOK, Next, ~ ChainQuiet
    PROVE  \/ NetStep
           \/ \E s \in Server : LaunchServer(s)
           \/ /\ \E m \in net : CoordHandleServerRegister(m)
              /\ UNCHANGED serverVars
           \/ /\ \E s \in Server, m \in net : \/ ServerHandleRegisterReply(s, m)
                                              \/ ServerHandleUpdateNextHop(s, m)
              /\ UNCHANGED coordVars
<1>1. CASE \E s \in Server : LaunchServer(s)
  BY <1>1
<1>2. CASE \E c \in Client : LaunchClient(c)
  BY <1>2, ClientChainQuiet DEF LaunchClient
<1>3. CASE EndConfiguration
  BY <1>3, MainChainQuiet DEF EndConfiguration
<1>4. CASE CoordStep
  BY <1>4, MainChainQuiet, ListenerChainQuiet DEF CoordStep, CoordNext
<1>5. CASE ServerStep
  BY <1>5, ServerChainQuiet DEF ServerStep
<1>6. CASE ClientStep
  BY <1>6, ClientChainQuiet DEF ClientStep
<1> QED
  BY <1>1, <1>2, <1>3, <1>4, <1>5, <1>6 DEF Next, LaunchNext

\* Two datagrams of the topology with the same fields are the same.
LEMMA SameTopology ==
    ASSUME net \subseteq Datagram, NEW m1 \in Topology, NEW m2 \in Topology,
           m1.type = m2.type, m1.to = m2.to
    PROVE  /\ m1.type = "SERVER_REGISTER" => m1.from \in Server /\ m1.to = Coord
           /\ m1.type = "SERVER_REGISTER_REPLY" => m1.to \in Server
           /\ m1.type = "UPDATE_NEXT_HOP" => m1.to \in Server
           /\ m1.type = "SERVER_REGISTER" /\ m1.from = m2.from => m1 = m2
           /\ m1.type = "SERVER_REGISTER_REPLY" /\ m1.prev_server = m2.prev_server
                 => m1 = m2
           /\ m1.type = "UPDATE_NEXT_HOP" /\ m1.next_hop = m2.next_hop => m1 = m2
BY AddressAssumption
   DEF Topology, IsTopology, Datagram, ToServers, ToClients, ToCoordinator, OnChain

\* A server is launched.
LEMMA StartKeepsChain ==
    ASSUME TypeOK, ChainInv, NEW s \in Server, ServerStart(s), UNCHANGED coordVars
    PROVE  ChainInv'
<1>1. /\ UNCHANGED <<ServerList, IsConnected, NextHop, PreviousHop>>
      /\ Topology' = Topology \cup {ServerRegister(s)}
      /\ serverState[s] = "off"
      /\ \A t \in Server : serverState'[t] = IF t = s THEN "running" ELSE serverState[t]
  BY DEF ServerStart, Send, Topology, IsTopology, ServerRegister, coordVars,
         chainVars, TypeOK, ServerTypeOK
<1>2. \A i \in Places : ServerList[i] \in Server
  BY DEF TypeOK, CoordTypeOK, Places
<1>3. ~ Listed(s)
  BY <1>1 DEF Listed, ChainInv
<1>4. Places' = Places /\ (\A i : Hop(i)' = Hop(i)) /\ (\A t : Listed(t)' = Listed(t))
  BY <1>1 DEF Places, Hop, Listed
<1>5. ServerRegister(s).type = "SERVER_REGISTER" /\ ServerRegister(s).from = s
  BY DEF ServerRegister
<1>6. ASSUME NEW m \in Topology, m.type = "SERVER_REGISTER"
      PROVE  m.from \in Server
  BY <1>6, SameTopology DEF TypeOK
<1>7. ASSUME NEW m \in Topology', m.type = "SERVER_REGISTER"
      PROVE  serverState'[m.from] # "off" /\ ~ Listed(m.from)
  BY <1>1, <1>3, <1>5, <1>6, <1>7 DEF ChainInv
<1>8. \A i \in Places : serverState'[ServerList[i]] # "off"
  BY <1>1, <1>2 DEF ChainInv
<1>9. \A i \in Places : LinkedForward(i)' /\ LinkedBackward(i)'
  BY <1>1, <1>4, <1>5 DEF ChainInv, LinkedForward, LinkedBackward
<1> QED
  BY <1>1, <1>4, <1>5, <1>7, <1>8, <1>9 DEF ChainInv

\* The coordinator lists a server and tells it and the one before it.
LEMMA ListingKeepsChain ==
    ASSUME TypeOK, ChainInv, NEW m \in net, CoordHandleServerRegister(m),
           UNCHANGED serverVars
    PROVE  ChainInv'
<1> DEFINE n == Len(ServerList)
           s == m.from
           last == UpdateNextHop(ServerList[n], s)
           reply == ServerRegisterReply(s, Hop(n))
<1>1. m \in Topology /\ m.type = "SERVER_REGISTER" /\ s \in Server
  BY SameTopology DEF CoordHandleServerRegister, Handles, Topology, IsTopology, TypeOK
<1>2. /\ n \in Nat /\ ServerList \in Seq(Server)
      /\ \A i \in Places : ServerList[i] \in Server /\ i \in 1 .. n
      /\ UNCHANGED <<serverState, IsConnected, NextHop, PreviousHop>>
  BY DEF TypeOK, CoordTypeOK, Places, serverVars
<1>3. /\ Len(ServerList') = n + 1 /\ Places' = 1 .. n + 1
      /\ \A i \in Places : ServerList'[i] = ServerList[i]
      /\ ServerList'[n + 1] = s
  BY <1>1, <1>2 DEF CoordHandleServerRegister, Places
<1>4. /\ \A i \in 0 .. n + 2 : Hop(i)' = IF i = n + 1 THEN s ELSE Hop(i)
      /\ n > 0 => Hop(n) = ServerList[n]
      /\ n = 0 => Hop(n) = Coord
      /\ \A i \in {n + 1, n + 2} : Hop(i) = Coord
  <2>1. Places = 1 .. n
    BY DEF Places
  <2>2. ASSUME NEW i \in 0 .. n + 2
        PROVE  Hop(i)' = IF i = n + 1 THEN s ELSE Hop(i)
    BY <1>2, <1>3, <2>1 DEF Hop
  <2>3. /\ n > 0 => Hop(n) = ServerList[n]
        /\ n = 0 => Hop(n) = Coord
        /\ \A i \in {n + 1, n + 2} : Hop(i) = Coord
    BY <1>2, <2>1 DEF Hop
  <2> QED
    BY <2>2, <2>3
<1>5. ~ Listed(s) /\ NextHop[s] = Coord /\ ~ IsConnected[s] /\ serverState[s] # "off"
  BY <1>1 DEF ChainInv
<1>6. \A t : Listed(t)' <=> Listed(t) \/ t = s
  BY <1>2, <1>3 DEF Listed, Places
<1>7. Topology' = (Topology \ {m}) \cup {reply} \cup (IF n = 0 THEN {} ELSE {last})
  <2>1. Relink(s) = {reply} \cup (IF n = 0 THEN {} ELSE {last})
    BY <1>2, <1>4 DEF Relink, GetLastServer
  <2>2. IsTopology(reply) /\ IsTopology(last)
    BY DEF IsTopology, ServerRegisterReply, UpdateNextHop
  <2>3. net' = (net \ {m}) \cup {reply} \cup (IF n = 0 THEN {} ELSE {last})
    BY <2>1 DEF CoordHandleServerRegister, Reply
  <2> HIDE DEF reply, last
  <2> QED
    BY <2>2, <2>3 DEF Topology, IsTopology
<1>8. /\ reply.type = "SERVER_REGISTER_REPLY" /\ reply.to = s
      /\ reply.prev_server = Hop(n)
      /\ last.type = "UPDATE_NEXT_HOP" /\ last.to = ServerList[n] /\ last.next_hop = s
  BY DEF ServerRegisterReply, UpdateNextHop
<1>9. UpdateNextHop(ServerList[n], s) = last /\ ServerRegisterReply(s, Hop(n)) = reply
  OBVIOUS
<1> HIDE DEF reply, last
<1>10. ASSUME NEW r \in Topology', r.type = "SERVER_REGISTER"
       PROVE  serverState[r.from] # "off" /\ ~ Listed(r.from)'
  <2>1. r \in Topology /\ r # m
    BY <1>7, <1>8, <1>10
  <2>2. r.from # s
    BY <1>1, <1>10, <2>1, SameTopology DEF TypeOK
  <2> QED
    BY <1>6, <1>10, <2>1, <2>2 DEF ChainInv
<1>11. ASSUME NEW r \in Topology', r.type = "SERVER_REGISTER_REPLY"
       PROVE  \E i \in Places' : /\ r.to = ServerList'[i] /\ r.prev_server = Hop(i - 1)'
                                 /\ ~ IsConnected[ServerList'[i]]
  <2>1. CASE r \in Topology
    <3>1. PICK i \in Places : /\ r.to = ServerList[i] /\ r.prev_server = Hop(i - 1)
                              /\ ~ IsConnected[ServerList[i]]
      BY <1>11, <2>1 DEF ChainInv
    <3>2. i \in Places' /\ i - 1 \in 0 .. n
      BY <1>2, <1>3
    <3> QED
      BY <1>3, <1>4, <3>1, <3>2
  <2>2. CASE r = reply
    BY <1>2, <1>3, <1>4, <1>5, <1>8, <2>2
  <2> QED
    BY <1>7, <1>8, <1>11, <2>1, <2>2
<1>12. ASSUME NEW r \in Topology', r.type = "UPDATE_NEXT_HOP"
       PROVE  \E i \in Places' : /\ i + 1 \in Places'
                                 /\ r.to = ServerList'[i]
                                 /\ r.next_hop = ServerList'[i + 1]
  <2>1. CASE r \in Topology
    <3>1. PICK i \in Places : /\ i + 1 \in Places /\ r.to = ServerList[i]
                              /\ r.next_hop = ServerList[i + 1]
      BY <1>12, <2>1 DEF ChainInv
    <3>2. i \in Places' /\ i + 1 \in Places'
      BY <1>2, <1>3, <3>1
    <3> QED
      BY <1>3, <3>1, <3>2
  <2>2. CASE r = last /\ n # 0
    <3>1. n \in Places /\ n \in Places' /\ n + 1 \in Places'
      BY <1>2, <1>3, <2>2 DEF Places
    <3> QED
      BY <1>3, <1>8, <2>2, <3>1
  <2> QED
    BY <1>7, <1>8, <1>12, <2>1, <2>2
<1>13. \A i \in Places : ServerList[i] # s
  BY <1>5 DEF Listed
<1>14. ASSUME NEW i \in Places'
       PROVE  LinkedForward(i)'
  <2>1. CASE i < n
    <3>1. i \in Places /\ n \in Places /\ i + 1 \in 0 .. n /\ ServerList[i] # ServerList[n]
      BY <1>2, <1>3, <2>1 DEF ChainInv, Places
    <3>2. LinkedForward(i)
      BY <3>1 DEF ChainInv
    <3>3. \A r \in Topology' : r.type = "UPDATE_NEXT_HOP" =>
             r \in Topology \/ r.to # ServerList[i]
      BY <1>7, <1>8, <3>1
    <3>4. ASSUME NEW r \in Topology, r.type = "UPDATE_NEXT_HOP" PROVE r \in Topology'
      BY <1>1, <1>7, <3>4
    <3>5. UpdateNextHop(ServerList[i], Hop(i + 1)).type = "UPDATE_NEXT_HOP"
      BY DEF UpdateNextHop
    <3> QED
      BY <1>2, <1>3, <1>4, <2>1, <3>1, <3>2, <3>3, <3>4, <3>5 DEF LinkedForward
  <2>2. CASE i = n
    <3>1. n \in Places /\ n > 0
      BY <1>2, <1>3, <2>2 DEF Places
    <3>2. NextHop[ServerList[n]] = Coord
      BY <1>4, <3>1 DEF ChainInv, LinkedForward
    <3>3. last \in Topology'
      BY <1>7, <3>1
    <3>4. Hop(i + 1)' = s /\ ServerList'[i] = ServerList[n]
      BY <1>2, <1>3, <1>4, <2>2, <3>1
    <3> QED
      BY <1>2, <1>3, <1>9, <2>2, <3>2, <3>3, <3>4 DEF LinkedForward
  <2>3. CASE i = n + 1
    <3>1. ASSUME NEW r \in Topology', r.type = "UPDATE_NEXT_HOP" PROVE r.to # s
      <4>1. CASE r \in Topology
        <5>1. PICK j \in Places : r.to = ServerList[j]
          BY <3>1, <4>1 DEF ChainInv
        <5> QED
          BY <1>13, <5>1
      <4>2. CASE r = last /\ n # 0
        BY <1>2, <1>8, <1>13, <4>2 DEF Places
      <4> QED
        BY <1>7, <1>8, <3>1, <4>1, <4>2
    <3>2. Hop(i + 1)' = Coord /\ ServerList'[i] = s
      BY <1>2, <1>3, <1>4, <2>3
    <3> QED
      BY <1>2, <1>5, <3>1, <3>2 DEF LinkedForward
  <2> QED
    BY <1>2, <1>3, <2>1, <2>2, <2>3
<1>15. ASSUME NEW i \in Places'
       PROVE  LinkedBackward(i)'
  <2>1. CASE i \in Places
    <3>1. LinkedBackward(i) /\ i - 1 \in 0 .. n
      BY <1>2, <2>1 DEF ChainInv
    <3>2. ServerRegisterReply(ServerList[i], Hop(i - 1)).type = "SERVER_REGISTER_REPLY"
      BY DEF ServerRegisterReply
    <3>3. ASSUME NEW r \in Topology, r.type = "SERVER_REGISTER_REPLY" PROVE r \in Topology'
      BY <1>1, <1>7, <3>3
    <3> QED
      BY <1>2, <1>3, <1>4, <2>1, <3>1, <3>2, <3>3 DEF LinkedBackward
  <2>2. CASE i = n + 1
    <3>1. /\ Hop(i - 1)' = Hop(n) /\ ServerList'[i] = s
          /\ reply \in Topology'
      BY <1>2, <1>3, <1>4, <1>7, <2>2
    <3> QED
      BY <1>2, <1>5, <1>9, <3>1 DEF LinkedBackward
  <2> QED
    BY <1>2, <1>3, <2>1, <2>2 DEF Places
<1>16. \A i, j \in Places' : ServerList'[i] = ServerList'[j] => i = j
  BY <1>2, <1>3, <1>13 DEF ChainInv, Places
<1>17. \A i \in Places' : serverState[ServerList'[i]] # "off"
  BY <1>2, <1>3, <1>5 DEF ChainInv, Places
<1>18. \A t \in Server : ~ Listed(t)' => NextHop[t] = Coord /\ ~ IsConnected[t]
  BY <1>6 DEF ChainInv
<1> QED
  BY <1>2, <1>10, <1>11, <1>12, <1>14, <1>15, <1>16, <1>17, <1>18 DEF ChainInv

\* A server learns who is before it.
LEMMA ReplyKeepsChain ==
    ASSUME TypeOK, ChainInv, NEW s \in Server, NEW m \in net,
           ServerHandleRegisterReply(s, m), UNCHANGED coordVars
    PROVE  ChainInv'
<1>1. /\ m \in Topology /\ m.type = "SERVER_REGISTER_REPLY" /\ m.to = s
      /\ UNCHANGED <<ServerList, NextHop, serverState>>
      /\ Topology' = Topology \ {m}
  BY DEF ServerHandleRegisterReply, ServerHandles, Topology, IsTopology, Reply,
         coordVars, chainVars
<1>2. /\ IsConnected' = [IsConnected EXCEPT ![s] = TRUE]
      /\ PreviousHop' = [PreviousHop EXCEPT ![s] = m.prev_server]
      /\ IsConnected \in [Server -> BOOLEAN]
      /\ PreviousHop \in [Server -> Server \cup {Coord}]
  BY DEF ServerHandleRegisterReply, TypeOK, ServerTypeOK
<1>3. PICK i0 \in Places : s = ServerList[i0] /\ m.prev_server = Hop(i0 - 1)
  BY <1>1 DEF ChainInv
<1>4. Places' = Places /\ (\A i : Hop(i)' = Hop(i)) /\ (\A t : Listed(t)' = Listed(t))
  BY <1>1 DEF Places, Hop, Listed
<1>5. \A i \in Places : ServerList[i] \in Server /\ (ServerList[i] = s => i = i0)
  <2>1. \A i \in Places : ServerList[i] \in Server
    BY DEF TypeOK, CoordTypeOK, Places
  <2>2. \A i \in Places : ServerList[i] = ServerList[i0] => i = i0
    BY DEF ChainInv
  <2> QED
    BY <1>3, <2>1, <2>2
<1>6. ASSUME NEW r \in Topology', r.type = "SERVER_REGISTER_REPLY", r.to = s
      PROVE  FALSE
  <2>1. r \in Topology /\ r # m
    BY <1>1
  <2>2. PICK i \in Places : r.to = ServerList[i] /\ r.prev_server = Hop(i - 1)
    BY <1>6, <2>1 DEF ChainInv
  <2>3. r.prev_server = m.prev_server
    BY <1>3, <1>5, <1>6, <2>2
  <2> QED
    BY <1>1, <1>6, <2>1, <2>3, SameTopology DEF TypeOK
<1>7. ASSUME NEW r \in Topology', r.type = "SERVER_REGISTER_REPLY"
      PROVE  \E i \in Places : /\ r.to = ServerList[i] /\ r.prev_server = Hop(i - 1)
                               /\ ~ IsConnected'[ServerList[i]]
  <2>1. PICK i \in Places : /\ r.to = ServerList[i] /\ r.prev_server = Hop(i - 1)
                            /\ ~ IsConnected[ServerList[i]]
    BY <1>1, <1>7 DEF ChainInv
  <2> QED
    BY <1>2, <1>5, <1>6, <1>7, <2>1
<1>8. ASSUME NEW i \in Places
      PROVE  LinkedForward(i)' /\ LinkedBackward(i)'
  <2>1. LinkedForward(i) /\ LinkedBackward(i)
    BY DEF ChainInv
  <2>2. /\ UpdateNextHop(ServerList[i], Hop(i + 1)).type = "UPDATE_NEXT_HOP"
        /\ ServerRegisterReply(ServerList[i], Hop(i - 1)).to = ServerList[i]
    BY DEF UpdateNextHop, ServerRegisterReply
  <2>3. LinkedForward(i)'
    BY <1>1, <1>4, <2>1, <2>2 DEF LinkedForward
  <2>4. CASE i = i0
    BY <1>1, <1>2, <1>3, <1>4, <2>3, <2>4 DEF LinkedBackward
  <2>5. CASE i # i0
    BY <1>1, <1>2, <1>3, <1>4, <1>5, <2>1, <2>2, <2>3, <2>5 DEF LinkedBackward
  <2> QED
    BY <2>4, <2>5
<1>9. \A t \in Server : ~ Listed(t) => NextHop[t] = Coord /\ ~ IsConnected'[t]
  BY <1>2, <1>3 DEF ChainInv, Listed
<1> QED
  BY <1>1, <1>4, <1>7, <1>8, <1>9 DEF ChainInv

\* A server learns who is behind it.
LEMMA UpdateKeepsChain ==
    ASSUME TypeOK, ChainInv, NEW s \in Server, NEW m \in net,
           ServerHandleUpdateNextHop(s, m), UNCHANGED coordVars
    PROVE  ChainInv'
<1>1. /\ m \in Topology /\ m.type = "UPDATE_NEXT_HOP" /\ m.to = s
      /\ UNCHANGED <<ServerList, IsConnected, PreviousHop, serverState>>
      /\ Topology' = Topology \ {m}
  BY DEF ServerHandleUpdateNextHop, ServerHandles, Topology, IsTopology, Reply,
         coordVars, chainVars
<1>2. /\ NextHop' = [NextHop EXCEPT ![s] = m.next_hop]
      /\ NextHop \in [Server -> Server \cup {Coord}]
  BY DEF ServerHandleUpdateNextHop, TypeOK, ServerTypeOK
<1>3. PICK i0 \in Places : /\ s = ServerList[i0] /\ m.next_hop = ServerList[i0 + 1]
                           /\ i0 + 1 \in Places
  BY <1>1 DEF ChainInv
<1>4. Places' = Places /\ (\A i : Hop(i)' = Hop(i)) /\ (\A t : Listed(t)' = Listed(t))
  BY <1>1 DEF Places, Hop, Listed
<1>5. \A i \in Places : ServerList[i] \in Server /\ (ServerList[i] = s => i = i0)
  <2>1. \A i \in Places : ServerList[i] \in Server
    BY DEF TypeOK, CoordTypeOK, Places
  <2>2. \A i \in Places : ServerList[i] = ServerList[i0] => i = i0
    BY DEF ChainInv
  <2> QED
    BY <1>3, <2>1, <2>2
<1>6. ASSUME NEW r \in Topology', r.type = "UPDATE_NEXT_HOP", r.to = s
      PROVE  FALSE
  <2>1. r \in Topology /\ r # m
    BY <1>1
  <2>2. PICK i \in Places : r.to = ServerList[i] /\ r.next_hop = ServerList[i + 1]
    BY <1>6, <2>1 DEF ChainInv
  <2>3. r.next_hop = m.next_hop
    BY <1>3, <1>5, <1>6, <2>2
  <2> QED
    BY <1>1, <1>6, <2>1, <2>3, SameTopology DEF TypeOK
<1>7. ASSUME NEW i \in Places
      PROVE  LinkedForward(i)' /\ LinkedBackward(i)'
  <2>1. LinkedForward(i) /\ LinkedBackward(i)
    BY DEF ChainInv
  <2>2. /\ UpdateNextHop(ServerList[i], Hop(i + 1)).to = ServerList[i]
        /\ ServerRegisterReply(ServerList[i], Hop(i - 1)).type = "SERVER_REGISTER_REPLY"
    BY DEF UpdateNextHop, ServerRegisterReply
  <2>3. LinkedBackward(i)'
    BY <1>1, <1>4, <2>1, <2>2 DEF LinkedBackward
  <2>4. CASE i = i0
    <3>1. Hop(i + 1) = m.next_hop
      BY <1>3, <2>4 DEF Hop
    <3> QED
      BY <1>1, <1>2, <1>3, <1>4, <1>6, <2>3, <2>4, <3>1 DEF LinkedForward
  <2>5. CASE i # i0
    BY <1>1, <1>2, <1>4, <1>5, <2>1, <2>2, <2>3, <2>5 DEF LinkedForward
  <2> QED
    BY <2>4, <2>5
<1>8. \A t \in Server : ~ Listed(t) => NextHop'[t] = Coord /\ ~ IsConnected[t]
  BY <1>2, <1>3 DEF ChainInv, Listed
<1> QED
  BY <1>1, <1>4, <1>7, <1>8 DEF ChainInv

\* No step breaks the chain; only loss could.
LEMMA StepKeepsChain ==
    ASSUME ~ Lossy, TypeOK, ChainInv, [Next]_vars
    PROVE  ChainInv'
<1>1. CASE ChainQuiet
  <2>1. Places' = Places /\ (\A i : Hop(i)' = Hop(i)) /\ (\A t : Listed(t)' = Listed(t))
    BY <1>1 DEF Places, Hop, Listed, ChainQuiet
  <2>2. \A i \in Places : ServerList[i] \in Server
    BY DEF TypeOK, CoordTypeOK, Places
  <2>3. \A m \in Topology : m.type = "SERVER_REGISTER" => m.from \in Server
    BY SameTopology DEF TypeOK
  <2>4. \A i \in Places : LinkedForward(i)' /\ LinkedBackward(i)'
    BY <1>1, <2>1 DEF ChainInv, ChainQuiet, LinkedForward, LinkedBackward
  <2> QED
    BY <1>1, <2>1, <2>2, <2>3, <2>4 DEF ChainInv, ChainQuiet
<1>2. CASE ~ ChainQuiet
  <2>1. Next
    BY <1>2 DEF vars, ChainQuiet, coordVars, chainVars, serverVars, Topology
  <2> QED
    BY <1>2, <2>1, ChainCases, StartKeepsChain, ListingKeepsChain, ReplyKeepsChain,
       UpdateKeepsChain DEF LaunchServer, NetStep, Lose
<1> QED
  BY <1>1, <1>2

\* Every behaviour keeps the links as ChainInv says.
LEMMA ChainCorrect ==
    ASSUME ~ Lossy
    PROVE  Spec => []ChainInv
<1>1. Init => ChainInv
  <2> SUFFICES ASSUME Init PROVE ChainInv
    OBVIOUS
  <2>1. Places = {} /\ Topology = {}
    BY DEF Init, NetInit, CoordInit, Places, Topology
  <2> QED
    BY <2>1 DEF ChainInv, Init, ServerInit
<1> QED
  BY <1>1, StepKeepsChain, TypeCorrect, PTL DEF Spec

\* Without loss the hops follow the coordinator's list, whoever is launched when
\* and however the replies and updates overtake each other (handleServerRegister
\* of the coordinator, handleServerRegisterReply and handleUpdateNextHop of a
\* server).
THEOREM HopsFollowList ==
    ASSUME ~ Lossy
    PROVE  Spec => []ChainFollowsServerList
<1>1. ASSUME TypeOK, ChainInv PROVE ChainFollowsServerList
  <2> DEFINE n == Len(ServerList)
  <2>1. Places = 1 .. n
    BY DEF Places
  <2>2. \A i \in 1 .. n : LinkedForward(i) /\ LinkedBackward(i)
    BY <1>1, <2>1 DEF ChainInv
  <2>3. \A m \in net : m.type = "UPDATE_NEXT_HOP" => m \in Topology
    BY DEF Topology, IsTopology
  <2>4. Topology \subseteq net
    BY DEF Topology
  <2> HIDE DEF n
  <2> QED
    BY <2>1, <2>2, <2>3, <2>4
       DEF ChainFollowsServerList, LinkedForward, LinkedBackward, Hop, n
<1> QED
  BY <1>1, ChainCorrect, TypeCorrect, PTL

-----------------------------------------------------------------------------
(* The chain of a careful operator. *)

\* The order of launching in README.md, and a network that loses nothing.
Careful == PatientOperator /\ ~ LateServers /\ ~ EarlyClients /\ ~ Lossy

\* main never returns to the question it asked first.
LEMMA OkOnce ==
    ASSUME [Next]_vars, mainPc' = "read_ok"
    PROVE  mainPc = "read_ok" /\ ~ EndConfiguration
<1>1. ~ ReadOk
  BY DEF ReadOk, MainGoto
<1>2. CASE UNCHANGED mainPc
  BY <1>1, <1>2 DEF EndConfiguration
<1>3. CASE MainNext
  BY <1>3 DEF MainNext, AwaitReady, ClearBuffer, CheckReady, Announce, AwaitMessage,
       BeginVote, Vote, AddNewClients, SendRoundEnd, MainGoto, MainAt, mainVars
<1>4. CASE ListenerNext
  BY <1>1, <1>4
     DEF ListenerNext, CoordHandleServerRegister, CoordHandleClientRegisterControllerSide,
         CoordHandleClientRegisterServerSide, CoordHandleAnnouncement, CoordHandleMsg,
         CoordHandleVote, CoordHandleRoundEnd, CoordRoundEndAwake, DiesOfRace,
         CoordDies, mainVars, coordVars, MainGoto, MainAt, EndConfiguration
<1> QED
  BY <1>1, <1>2, <1>3, <1>4, StepCases DEF vars, coordVars, mainVars, CoordNext

\* Once every server has its neighbours, nothing is under way to change them.
LEMMA OkLinks ==
    ASSUME Careful, TypeOK, ChainInv, EndConfiguration
    PROVE  Linked'
<1>1. /\ \A s \in Server : serverState[s] = "running" /\ IsConnected[s]
      /\ ~ \E m \in net : m.type = "UPDATE_NEXT_HOP"
  BY DEF Careful, EndConfiguration, ChainLinked
<1>2. UNCHANGED <<net, ServerList, serverVars>>
  BY DEF EndConfiguration, ReadOk, chainVars
<1>3. \A s \in Server : Listed(s)
  BY <1>1 DEF ChainInv
<1>4. \A i \in Places : ServerList[i] \in Server
  BY DEF TypeOK, CoordTypeOK, Places
<1>5. Topology = {}
  <2> SUFFICES ASSUME NEW m \in Topology PROVE FALSE
    OBVIOUS
  <2>1. CASE m.type = "SERVER_REGISTER"
    BY <1>3, <2>1, SameTopology DEF ChainInv, TypeOK
  <2>2. CASE m.type = "SERVER_REGISTER_REPLY"
    BY <1>1, <1>4, <2>2 DEF ChainInv
  <2>3. CASE m.type = "UPDATE_NEXT_HOP"
    BY <1>1, <2>3 DEF Topology
  <2> QED
    BY <2>1, <2>2, <2>3 DEF Topology, IsTopology
<1>6. \A i \in Places : /\ NextHop[ServerList[i]] = Hop(i + 1)
                        /\ PreviousHop[ServerList[i]] = Hop(i - 1)
  BY <1>5 DEF ChainInv, LinkedForward, LinkedBackward
<1>7. \A s \in Server : serverState[s] # "off"
  BY <1>1
<1> QED
  BY <1>2, <1>3, <1>5, <1>6, <1>7 DEF Linked, Topology, IsTopology, Places, Hop, Listed,
     serverVars

\* After the ok no step changes a link.
LEMMA StepKeepsLinked ==
    ASSUME Careful, TypeOK, ChainInv, LinkedInv, [Next]_vars
    PROVE  LinkedInv'
<1> SUFFICES ASSUME mainPc' # "read_ok" PROVE Linked'
  BY DEF LinkedInv
<1>1. CASE EndConfiguration
  BY <1>1, OkLinks
<1>2. CASE mainPc # "read_ok"
  <2>1. Linked
    BY <1>2 DEF LinkedInv
  <2>2. ChainQuiet
    <3>1. CASE UNCHANGED vars
      BY <3>1 DEF vars, ChainQuiet, coordVars, chainVars, serverVars, Topology
    <3>2. CASE Next /\ ~ ChainQuiet
      <4>1. ASSUME NEW s \in Server, LaunchServer(s) PROVE FALSE
        BY <2>1, <4>1 DEF LaunchServer, ServerStart, Linked
      <4>2. ASSUME NEW m \in net, CoordHandleServerRegister(m) PROVE FALSE
        BY <2>1, <4>2 DEF CoordHandleServerRegister, Handles, Linked, Topology, IsTopology
      <4>3. ASSUME NEW s \in Server, NEW m \in net,
                   ServerHandleRegisterReply(s, m) \/ ServerHandleUpdateNextHop(s, m)
            PROVE  FALSE
        BY <2>1, <4>3 DEF ServerHandleRegisterReply, ServerHandleUpdateNextHop,
             ServerHandles, Linked, Topology, IsTopology
      <4> QED
        BY <3>2, <4>1, <4>2, <4>3, ChainCases DEF Careful, NetStep, Lose
    <3> QED
      BY <3>1, <3>2
  <2> QED
    BY <2>1, <2>2 DEF Linked, ChainQuiet, Places, Hop, Listed
<1>3. CASE mainPc = "read_ok" /\ ~ EndConfiguration
  <2>1. UNCHANGED mainPc
    <3>1. ~ MainNext
      BY <1>3 DEF MainNext, AwaitReady, ClearBuffer, CheckReady, Announce, AwaitMessage,
         BeginVote, Vote, AddNewClients, SendRoundEnd, MainAt
    <3>2. CASE ListenerNext
      BY <1>3, <3>2
         DEF ListenerNext, CoordHandleServerRegister,
             CoordHandleClientRegisterControllerSide,
             CoordHandleClientRegisterServerSide, CoordHandleAnnouncement,
             CoordHandleMsg, CoordHandleVote, CoordHandleRoundEnd,
             CoordRoundEndAwake, DiesOfRace, CoordDies, mainVars, coordVars, MainAt
    <3> QED
      BY <1>3, <3>1, <3>2
         DEF Next, LaunchNext, LaunchServer, LaunchClient, CoordStep, CoordNext,
             ServerStep, ClientStep, NetStep, vars, coordVars, mainVars
  <2> QED
    BY <1>3, <2>1
<1> QED
  BY <1>1, <1>2, <1>3

\* Every behaviour of a careful operator has the chain linked from the ok on.
LEMMA LinkedCorrect ==
    ASSUME Careful
    PROVE  Spec => []LinkedInv
<1>1. Init => LinkedInv
  BY DEF Init, CoordInit, LinkedInv
<1>2. ~ Lossy
  BY DEF Careful
<1> QED
  BY <1>1, <1>2, StepKeepsLinked, ChainCorrect, TypeCorrect, PTL DEF Spec

-----------------------------------------------------------------------------
(* Keys and layers by position. *)

\* What enters the chain or travels it.
IsFlow(m) ==
    \/ m.type \in {"CLIENT_REGISTER_CONTROLLERSIDE", "CLIENT_REGISTER_SERVERSIDE"}
    \/ IsRound(m)

\* A datagram is as ListInv says.
Good(m) ==
    IF m.type = "CLIENT_REGISTER_CONTROLLERSIDE" THEN m.public_key.exps = <<>>
    ELSE \E i \in 0 .. Len(ServerList) + 1 : InPlace(m, i)

\* Notices, replies, requests and the topology are no part of what the chain
\* passes on.
LEMMA NotFlow ==
    /\ \A s : ~ IsFlow(ServerRegister(s))
    /\ \A s, t : ~ IsFlow(ServerRegisterReply(s, t))
    /\ \A s, t : ~ IsFlow(UpdateNextHop(s, t))
    /\ \A a, k : ~ IsFlow(ClientRegisterConfirmation(a, k))
    /\ \A a \in Addr : \A g : ~ IsFlow(ClientAnnouncement(a, g))
    /\ \A a, k, r, i, n : ~ IsFlow(ClientMessage(a, k, r, i, n))
    /\ \A a, n : ~ IsFlow(ClientVotePhase(a, n))
    /\ \A a \in Addr : \A n : ~ IsFlow(ClientRoundEnd(a, n))
    /\ \A a, n : ~ IsFlow(MsgReply(a, n)) /\ ~ IsFlow(VoteReply(a, n))
    /\ \A a, k, s, n : ~ IsFlow(SignedMsg(a, k, s, n))
    /\ \A a, k, s, i, v, n : ~ IsFlow(SignedVote(a, k, s, i, v, n))
BY NotOfARound
   DEF IsFlow, ServerRegister, ServerRegisterReply, UpdateNextHop,
       ClientRegisterConfirmation, ClientAnnouncement, ClientMessage,
       ClientVotePhase, ClientRoundEnd, MsgReply, VoteReply, SignedMsg, SignedVote

\* The positions along the chain.
LEMMA Positions ==
    ASSUME TypeOK
    PROVE  /\ Len(ServerList) \in Nat /\ Places = 1 .. Len(ServerList)
           /\ \A i \in Places : ServerList[i] \in Server /\ Hop(i) = ServerList[i]
           /\ \A i \in 0 .. Len(ServerList) + 1 :
                 /\ Hop(i) = Coord <=> i = 0 \/ i = Len(ServerList) + 1
                 /\ Hop(i) \in Server <=> i \in Places
<1>1. Len(ServerList) \in Nat /\ Places = 1 .. Len(ServerList)
  BY DEF TypeOK, CoordTypeOK, Places
<1>2. \A i \in Places : ServerList[i] \in Server
  BY <1>1 DEF TypeOK, CoordTypeOK
<1>3. \A i \in Places : Hop(i) = ServerList[i]
  BY DEF Hop
<1>4. ASSUME NEW i \in 0 .. Len(ServerList) + 1
      PROVE  /\ Hop(i) = Coord <=> i = 0 \/ i = Len(ServerList) + 1
             /\ Hop(i) \in Server <=> i \in Places
  BY <1>1, <1>2, AddressAssumption DEF Hop
<1> QED
  BY <1>1, <1>2, <1>3, <1>4

\* Who can take a layer off is the i-th server, and the next layer is that of
\* the (i+1)-th.
LEMMA UnderPeel ==
    ASSUME TypeOK, NEW i \in Places, NEW l \in Places, i <= l,
           NEW v \in Onion, Under(v, i, l)
    PROVE  /\ \A s : CanDecrypt(v, s) <=> s = ServerList[i]
           /\ Under(Decrypt(v), i + 1, l)
<1> DEFINE t == Decrypt(v).layers
<1>1. i \in Nat /\ l \in Nat /\ i >= 1 /\ v.layers \in Seq(Server)
  BY Positions DEF Onion
<1>2. Len(v.layers) = l + 1 - i /\ \A j \in 1 .. l + 1 - i : v.layers[j] = ServerList[l + 1 - j]
  BY DEF Under
<1>3. v.layers # <<>> /\ v.layers[l + 1 - i] = ServerList[i]
  BY <1>1, <1>2
<1>4. t = SubSeq(v.layers, 1, l - i)
  BY <1>1, <1>2 DEF Decrypt, Onion
<1>5. Len(t) = l - i /\ \A j \in 1 .. l - i : t[j] = v.layers[j]
  BY <1>1, <1>2, <1>4
<1> HIDE DEF t
<1>6. l + 1 - (i + 1) = l - i
  BY <1>1
<1>7. ASSUME NEW j \in 1 .. l - i PROVE t[j] = ServerList[l + 1 - j]
  <2>1. j \in 1 .. l + 1 - i
    BY <1>1
  <2> QED
    BY <1>2, <1>5, <2>1
<1> QED
  BY <1>2, <1>3, <1>5, <1>6, <1>7 DEF CanDecrypt, Under, t

\* The i-th server puts its layer on top of those of the servers behind it.
LEMMA UnderWrap ==
    ASSUME TypeOK, NEW i \in Places, NEW l \in Places, i <= l,
           NEW v \in Onion, Under(v, i + 1, l)
    PROVE  Under(Encrypt(v, ServerList[i]), i, l)
<1> DEFINE t == Encrypt(v, ServerList[i]).layers
<1>1. i \in Nat /\ l \in Nat /\ i >= 1 /\ v.layers \in Seq(Server)
  BY Positions DEF Onion
<1>2. Len(v.layers) = l - i /\ \A j \in 1 .. l - i : v.layers[j] = ServerList[l + 1 - j]
  BY <1>1 DEF Under
<1>3. t = Append(v.layers, ServerList[i])
  BY DEF Encrypt, Onion
<1>4. Len(t) = l - i + 1 /\ (\A j \in 1 .. l - i : t[j] = v.layers[j])
      /\ t[l - i + 1] = ServerList[i]
  BY <1>1, <1>2, <1>3
<1> HIDE DEF t
<1>5. Len(t) = l + 1 - i
  BY <1>1, <1>4
<1>6. ASSUME NEW j \in 1 .. l + 1 - i PROVE t[j] = ServerList[l + 1 - j]
  <2>1. CASE j \in 1 .. l - i
    BY <1>2, <1>4, <2>1
  <2>2. CASE j = l - i + 1
    <3>1. l + 1 - j = i
      BY <1>1, <2>2
    <3> QED
      BY <1>4, <2>2, <3>1
  <2> QED
    BY <1>1, <2>1, <2>2
<1> QED
  BY <1>5, <1>6 DEF Under, t

\* The same for a list that goes to all servers.
LEMMA SealedPeel ==
    ASSUME TypeOK, NEW i \in Places, NEW v \in Onion, Sealed(v, i)
    PROVE  CanDecrypt(v, ServerList[i]) /\ Sealed(Decrypt(v), i + 1)
<1>1. Len(ServerList) \in Places /\ i <= Len(ServerList)
  BY Positions
<1> QED
  BY <1>1, UnderPeel DEF Sealed

LEMMA SealedWrap ==
    ASSUME TypeOK, NEW i \in Places, NEW v \in Onion, Sealed(v, i + 1)
    PROVE  Sealed(Encrypt(v, ServerList[i]), i)
<1>1. Len(ServerList) \in Places /\ i <= Len(ServerList)
  BY Positions
<1> QED
  BY <1>1, UnderWrap DEF Sealed

\* A step is harmless if what it sends and stores is as ListInv says.
LEMMA ListFrom ==
    ASSUME ListInv, UNCHANGED ServerList, mainPc' # "read_ok",
           \A r \in net' : IsFlow(r) => r \in net \/ Good(r),
           \A k \in DOMAIN ReputationMap' :
              k.exps = <<>> /\ Sealed(ReputationMap'[k], 1),
           \A k \in DecryptedKeysMap' \cup InBuffer' : Len(k.exps) = Len(ServerList),
           mainPc' = "round_end" => lastServer' = Hop(Len(ServerList))
    PROVE  ListInv'
<1>1. /\ \A i : Hop(i)' = Hop(i)
      /\ \A m, i : InPlace(m, i)' <=> InPlace(m, i)
      /\ \A v, i : Sealed(v, i)' <=> Sealed(v, i)
  BY DEF Hop, Places, InPlace, Sealed, Under
<1>2. \A m \in net : IsFlow(m) => Good(m)
  BY DEF ListInv, AllInPlace, OnTheWay, IsFlow, Good
<1>3. \A m \in net' : IsFlow(m) => Good(m)
  BY <1>2
<1>4. \A m \in OnTheWay' : IsFlow(m) /\ m \in net'
                           /\ m.type # "CLIENT_REGISTER_CONTROLLERSIDE"
  BY DEF OnTheWay, IsFlow, IsRound
<1>5. AllInPlace'
  BY <1>1, <1>3, <1>4 DEF AllInPlace, Good
<1>6. \A m \in net' : m.type = "CLIENT_REGISTER_CONTROLLERSIDE" => m.public_key.exps = <<>>
  BY <1>3 DEF IsFlow, Good
<1>7. \A k \in DOMAIN ReputationMap' : k.exps = <<>> /\ Sealed(ReputationMap[k], 1)'
  BY DEF Sealed, Under
<1> QED
  BY <1>1, <1>5, <1>6, <1>7 DEF ListInv

\* main after the ok.
LEMMA MainKeepsLists ==
    ASSUME TypeOK, ListInv, mainPc # "read_ok", mainPc' # "read_ok",
           UNCHANGED ServerList, MainNext
    PROVE  ListInv'
<1> DEFINE n == Len(ServerList)
<1>1. /\ \A k \in DOMAIN ReputationMap : k.exps = <<>> /\ Sealed(ReputationMap[k], 1)
      /\ \A k \in DecryptedKeysMap \cup InBuffer : Len(k.exps) = n
  BY DEF ListInv
<1>2. n \in Nat /\ (ServerList # <<>> => n > 0 /\ 1 \in Places /\ n \in Places)
  BY DEF TypeOK, CoordTypeOK, Places
<1>3. ServerList # <<>> => GetFirstServer = Hop(1) /\ GetLastServer = Hop(n)
  BY <1>2, Positions DEF GetFirstServer, GetLastServer
<1>4. ASSUME UNCHANGED <<net, ReputationMap, DecryptedKeysMap>>,
             NewClientsBuffer' \in {NewClientsBuffer, <<>>}, mainPc' # "round_end"
      PROVE  ListInv'
  <2>1. InBuffer' \subseteq InBuffer
    BY <1>4 DEF InBuffer
  <2> QED
    BY <1>1, <1>4, <2>1, ListFrom
<1>5. CASE AwaitReady \/ ClearBuffer \/ CheckReady \/ AwaitMessage \/ BeginVote
  BY <1>4, <1>5
     DEF AwaitReady, ClearBuffer, CheckReady, AwaitMessage, BeginVote, MainGoto,
         MainAt, mainVars, mapVars, logVars
<1>6. CASE Announce
  <2> DEFINE list == {[key |-> k, val |-> ReputationMap[k]] : k \in DOMAIN ReputationMap}
             r == Announcement(GetFirstServer, list, StdBase)
  <2>1. UNCHANGED <<ReputationMap, DecryptedKeysMap, NewClientsBuffer>>
        /\ mainPc' # "round_end"
    BY <1>6 DEF Announce, MainGoto, mapVars, logVars
  <2>2. CASE ServerList = <<>>
    BY <1>4, <1>6, <2>1, <2>2 DEF Announce, SkipAnnouncement
  <2>3. CASE ServerList # <<>>
    <3>1. net' = net \cup {r}
      BY <1>6, <2>3 DEF Announce, Send
    <3>2. /\ r.type = "ANNOUNCEMENT" /\ r.to = Hop(1)
          /\ \A e \in r.entries : Len(e.key.exps) = 0 /\ Sealed(e.val, 1)
      BY <1>1, <1>3, <2>3 DEF Announcement
    <3> HIDE DEF r
    <3>3. InPlace(r, 1)
      BY <3>2 DEF InPlace
    <3>4. Good(r)
      BY <1>2, <3>2, <3>3 DEF Good
    <3> QED
      BY <1>1, <2>1, <3>1, <3>4, ListFrom DEF InBuffer
  <2> QED
    BY <2>2, <2>3
<1>7. CASE Vote
  <2>1. \A r \in net' : IsFlow(r) => r \in net
    BY <1>7, NotFlow DEF Vote, Send
  <2>2. UNCHANGED <<ReputationMap, DecryptedKeysMap, NewClientsBuffer>>
        /\ mainPc' # "round_end"
    BY <1>7 DEF Vote, MainGoto, mapVars, logVars
  <2> QED
    BY <1>1, <2>1, <2>2, ListFrom DEF InBuffer
<1>8. CASE AddNewClients
  <2>1. UNCHANGED <<net, ReputationMap, NewClientsBuffer>>
        /\ DecryptedKeysMap' \subseteq DecryptedKeysMap \cup InBuffer
    BY <1>8 DEF AddNewClients, mapVars, logVars
  <2>2. InBuffer' = InBuffer
    BY <2>1 DEF InBuffer
  <2>3. mainPc' = "round_end" => lastServer' = Hop(n)
    BY <1>3, <1>8 DEF AddNewClients, MainGoto
  <2> QED
    BY <1>1, <2>1, <2>2, <2>3, ListFrom
<1>9. CASE SendRoundEnd
  <2> DEFINE listed == DOMAIN DecryptedReputationMap \cap DecryptedKeysMap
             nil == DOMAIN DecryptedReputationMap \ DecryptedKeysMap
             list == {[key |-> k, val |-> Plain(DecryptedReputationMap[k])] : k \in listed}
             r == RoundEnd(lastServer, list, nil # {}, TRUE)
  <2>1. UNCHANGED <<ReputationMap, DecryptedKeysMap, NewClientsBuffer>>
        /\ mainPc' # "round_end" /\ lastServer = Hop(n)
    BY <1>9 DEF SendRoundEnd, MainAt, mapVars, logVars, ListInv
  <2>2. net' = net \cup {r}
    BY <1>9 DEF SendRoundEnd, Send
  <2>3. \A x : Sealed(Plain(x), n + 1)
    BY <1>2 DEF Plain, Sealed, Under
  <2>4. \A e \in list : Len(e.key.exps) = n /\ Sealed(e.val, n + 1)
    BY <1>1, <2>3
  <2> HIDE DEF list, nil
  <2>5. /\ r.type = "ROUND_END" /\ r.to = Hop(n) /\ r.entries = list
    BY <2>1 DEF RoundEnd
  <2> HIDE DEF r
  <2>6. InPlace(r, n)
    BY <1>2, <2>4, <2>5 DEF InPlace
  <2>7. Good(r)
    BY <1>2, <2>5, <2>6 DEF Good
  <2> QED
    BY <1>1, <2>1, <2>2, <2>7, ListFrom DEF InBuffer
<1> QED
  BY <1>5, <1>6, <1>7, <1>8, <1>9 DEF MainNext

\* The listener after the ok.
LEMMA ListenerKeepsLists ==
    ASSUME TypeOK, ListInv, mainPc # "read_ok", mainPc' # "read_ok",
           UNCHANGED ServerList, ListenerNext
    PROVE  ListInv'
<1> DEFINE n == Len(ServerList)
<1>0. /\ ClientAddrs \subseteq Addr
      /\ n \in Nat /\ (ServerList # <<>> => 1 \in Places /\ GetFirstServer = Hop(1))
  BY CoordHelperTypes, Positions DEF TypeOK, CoordTypeOK, Places, GetFirstServer
<1>1. /\ \A k \in DOMAIN ReputationMap : k.exps = <<>> /\ Sealed(ReputationMap[k], 1)
      /\ \A k \in DecryptedKeysMap \cup InBuffer : Len(k.exps) = n
      /\ mainPc = "round_end" => lastServer = Hop(n)
  BY DEF ListInv
<1>2. ASSUME \A r \in net' : IsFlow(r) => r \in net \/ Good(r),
             UNCHANGED <<ReputationMap, DecryptedKeysMap>>,
             NewClientsBuffer' \in {NewClientsBuffer, <<>>},
             mainPc' # "round_end" \/ UNCHANGED <<mainPc, lastServer>>
      PROVE  ListInv'
  <2>1. InBuffer' \subseteq InBuffer
    BY <1>2 DEF InBuffer
  <2> QED
    BY <1>1, <1>2, <2>1, ListFrom
<1>3. ASSUME NEW m \in net, NEW cause, CoordDies(m, cause)
      PROVE  ListInv'
  BY <1>2, <1>3 DEF CoordDies, Reply, mapVars, logVars, mainVars
<1>4. ASSUME NEW m \in net, CoordHandleServerRegister(m)
      PROVE  ListInv'
  BY <1>2, <1>4, NotFlow
     DEF CoordHandleServerRegister, Relink, Reply, mapVars, logVars, mainVars
<1>5. ASSUME NEW m \in net, CoordHandleClientRegisterControllerSide(m)
      PROVE  ListInv'
  <2>1. CASE DiesOfRace(m, "vote")
    BY <1>3, <2>1 DEF DiesOfRace
  <2>2. CASE ~ DiesOfRace(m, "vote")
    <3> DEFINE r == ClientRegisterServerSide(GetFirstServer, m.public_key, m.from)
    <3>1. m.public_key.exps = <<>>
      BY <1>5 DEF CoordHandleClientRegisterControllerSide, Handles, ListInv
    <3>2. UNCHANGED <<ReputationMap, DecryptedKeysMap, NewClientsBuffer, mainPc, lastServer>>
      BY <1>5, <2>2
         DEF CoordHandleClientRegisterControllerSide, mapVars, logVars, mainVars
    <3>3. net' \subseteq net \/ (ServerList # <<>> /\ net' \subseteq net \cup {r})
      BY <1>5, <2>2 DEF CoordHandleClientRegisterControllerSide, Reply
    <3>4. ServerList # <<>> => Good(r)
      <4>1. /\ r.type = "CLIENT_REGISTER_SERVERSIDE" /\ r.public_key = m.public_key
            /\ r.to = GetFirstServer
        BY DEF ClientRegisterServerSide
      <4> HIDE DEF r
      <4>2. ServerList # <<>> => InPlace(r, 1)
        BY <1>0, <3>1, <4>1 DEF InPlace
      <4> QED
        BY <1>0, <4>1, <4>2 DEF Good
    <3> HIDE DEF r
    <3> QED
      BY <1>2, <3>2, <3>3, <3>4
  <2> QED
    BY <2>1, <2>2
<1>6. ASSUME NEW m \in net, CoordHandleClientRegisterServerSide(m)
      PROVE  ListInv'
  <2>1. CASE DiesOfRace(m, "round_end")
    BY <1>3, <2>1 DEF DiesOfRace
  <2>2. CASE ~ DiesOfRace(m, "round_end")
    <3>1. m \in OnTheWay /\ m.type = "CLIENT_REGISTER_SERVERSIDE" /\ m.to = Coord
      BY <1>6 DEF CoordHandleClientRegisterServerSide, Handles, OnTheWay
    <3>2. PICK i \in 0 .. n + 1 : InPlace(m, i)
      BY <3>1 DEF ListInv, AllInPlace
    <3>3. i = n + 1
      BY <3>1, <3>2, Positions DEF InPlace
    <3>4. Len(m.public_key.exps) = n
      BY <1>0, <3>1, <3>2, <3>3 DEF InPlace
    <3>5. NewClientsBuffer' = Append(NewClientsBuffer, m.public_key)
          /\ UNCHANGED <<ReputationMap, DecryptedKeysMap>>
          /\ (mainPc' # "round_end" \/ UNCHANGED <<mainPc, lastServer>>)
      BY <1>6, <2>2
         DEF CoordHandleClientRegisterServerSide, mapVars, mainVars, MainGoto
    <3>6. \A k \in InBuffer' : k \in InBuffer \/ k = m.public_key
      BY <3>5 DEF InBuffer, TypeOK, CoordTypeOK
    <3>7. \A r \in net' : IsFlow(r) => r \in net
      BY <1>6, <2>2, NotFlow DEF CoordHandleClientRegisterServerSide, Reply, Confirm
    <3> QED
      BY <1>1, <3>4, <3>5, <3>6, <3>7, ListFrom
  <2> QED
    BY <2>1, <2>2
<1>7. ASSUME NEW m \in net, CoordHandleAnnouncement(m)
      PROVE  ListInv'
  <2>1. m \in OnTheWay /\ m.type = "ANNOUNCEMENT" /\ m.to = Coord
    BY <1>7 DEF CoordHandleAnnouncement, Handles, OnTheWay, IsRound
  <2>2. PICK i \in 0 .. n + 1 : InPlace(m, i)
    BY <2>1 DEF ListInv, AllInPlace
  <2>3. i = n + 1
    BY <2>1, <2>2, Positions DEF InPlace
  <2>4. \A e \in m.entries : Len(e.key.exps) = n
    BY <1>0, <2>1, <2>2, <2>3 DEF InPlace
  <2>5. \A r \in net' : IsFlow(r) => r \in net
    BY <1>0, <1>7, NotFlow
       DEF CoordHandleAnnouncement, FinishEmptyList, FinishAnnouncement, Reply
  <2>6. /\ UNCHANGED <<ReputationMap, NewClientsBuffer, mainPc, lastServer>>
        /\ UNCHANGED DecryptedKeysMap \/ DecryptedKeysMap' = KeysOf(m.entries)
    BY <1>7 DEF CoordHandleAnnouncement, FinishEmptyList, FinishAnnouncement,
         mapVars, logVars, mainVars
  <2>7. \A k \in DecryptedKeysMap' \cup InBuffer' : Len(k.exps) = n
    BY <1>1, <2>4, <2>6 DEF KeysOf, InBuffer
  <2> QED
    BY <1>1, <2>5, <2>6, <2>7, ListFrom
<1>8. ASSUME NEW m \in net, CoordHandleMsg(m)
      PROVE  ListInv'
  <2>1. CASE \E cause : CoordDies(m, cause)
    BY <1>3, <2>1
  <2>2. CASE ~ \E cause : CoordDies(m, cause)
    <3>1. \A r \in net' : IsFlow(r) => r \in net
      BY <1>8, <2>2, NotFlow DEF CoordHandleMsg, DiesOfRace, Reply
    <3>2. /\ UNCHANGED <<ReputationMap, DecryptedKeysMap>>
          /\ NewClientsBuffer' \in {NewClientsBuffer, <<>>}
          /\ (mainPc' # "round_end" \/ UNCHANGED <<mainPc, lastServer>>)
      BY <1>8, <2>2
         DEF CoordHandleMsg, DiesOfRace, coordVars, mapVars, logVars, mainVars, MainGoto
    <3> QED
      BY <1>2, <3>1, <3>2
  <2> QED
    BY <2>1, <2>2
<1>9. ASSUME NEW m \in net, CoordHandleVote(m)
      PROVE  ListInv'
  <2>1. CASE \E cause : CoordDies(m, cause)
    BY <1>3, <2>1
  <2>2. CASE ~ \E cause : CoordDies(m, cause)
    <3>1. \A r \in net' : IsFlow(r) => r \in net
      BY <1>9, <2>2, NotFlow DEF CoordHandleVote, DiesOfRace, Reply
    <3>2. UNCHANGED <<ReputationMap, DecryptedKeysMap, NewClientsBuffer, mainPc, lastServer>>
      BY <1>9, <2>2
         DEF CoordHandleVote, DiesOfRace, coordVars, mapVars, logVars, mainVars
    <3> QED
      BY <1>2, <3>1, <3>2
  <2> QED
    BY <2>1, <2>2
<1>10. ASSUME NEW m \in net, CoordHandleRoundEnd(m)
       PROVE  ListInv'
  <2>1. m \in OnTheWay /\ m.type = "ROUND_END" /\ m.to = Coord
    BY <1>10 DEF CoordHandleRoundEnd, Handles, OnTheWay, IsRound
  <2>2. PICK i \in 0 .. n + 1 : InPlace(m, i)
    BY <2>1 DEF ListInv, AllInPlace
  <2>3. i = 0
    BY <1>0, <2>1, <2>2, Positions DEF InPlace
  <2>4. \A e \in m.entries : Len(e.key.exps) = 0 /\ Sealed(e.val, 1)
    BY <2>1, <2>2, <2>3 DEF InPlace
  <2>5. m.entries \subseteq Entry
    BY <2>1, AtCoordinator DEF TypeOK, OnTheWay
  <2>6. \A e \in m.entries : e.key.exps = <<>>
    BY <2>4, <2>5 DEF Entry, Point
  <2>7. ASSUME NEW k \in DOMAIN ReputationMap'
        PROVE  k.exps = <<>> /\ Sealed(ReputationMap'[k], 1)
    <3>1. ReputationMap' = MapOf(m.entries)
      BY <1>10 DEF CoordHandleRoundEnd
    <3>2. k \in KeysOf(m.entries)
      BY <3>1 DEF MapOf
    <3>3. PICK e \in m.entries : e.key = k /\ ReputationMap'[k] = e.val
      BY <3>1, <3>2 DEF MapOf, KeysOf
    <3> QED
      BY <2>4, <2>6, <3>3
  <2>8. \A r \in net' : IsFlow(r) => r \in net
    BY <1>0, <1>10, NotFlow DEF CoordHandleRoundEnd, Reply
  <2>9. UNCHANGED <<DecryptedKeysMap, NewClientsBuffer, mainPc, lastServer>>
    BY <1>10 DEF CoordHandleRoundEnd, logVars, mainVars
  <2> QED
    BY <1>1, <2>7, <2>8, <2>9, ListFrom DEF InBuffer
<1>11. CASE CoordRoundEndAwake
  BY <1>2, <1>11 DEF CoordRoundEndAwake, mapVars, logVars, mainVars
<1> QED
  BY <1>4, <1>5, <1>6, <1>7, <1>8, <1>9, <1>10, <1>11 DEF ListenerNext

\* Where a server stands, and what it therefore makes of a datagram.
LEMMA ServerKeepsLists ==
    ASSUME TypeOK, KeyMapMatchesRoundkey, Linked, ListInv, mainPc # "read_ok",
           UNCHANGED coordVars, ServerNext
    PROVE  ListInv'
<1> DEFINE n == Len(ServerList)
<1>0. /\ UNCHANGED <<ServerList, ReputationMap, DecryptedKeysMap, NewClientsBuffer,
                     mainPc, lastServer>>
      /\ n \in Nat /\ Places = 1 .. n
  BY Positions DEF coordVars, chainVars, mapVars, logVars, mainVars
<1>1. ASSUME \A r \in net' : IsFlow(r) => r \in net \/ Good(r)
      PROVE  ListInv'
  BY <1>0, <1>1, ListFrom DEF ListInv, InBuffer
<1>2. ASSUME NEW s \in Server, NEW m \in net, m.to = s, m \in OnTheWay
      PROVE  \E i \in Places : /\ InPlace(m, i) /\ ServerList[i] = s
                               /\ NextHop[s] = Hop(i + 1) /\ PreviousHop[s] = Hop(i - 1)
                               /\ i - 1 \in 0 .. n + 1 /\ i + 1 \in 0 .. n + 1
  <2>1. PICK i \in 0 .. n + 1 : InPlace(m, i)
    BY <1>2 DEF ListInv, AllInPlace
  <2>2. Hop(i) = s /\ i \in Places
    BY <1>2, <2>1, Positions DEF InPlace
  <2>3. ServerList[i] = s
    BY <2>2, Positions
  <2>4. NextHop[s] = Hop(i + 1) /\ PreviousHop[s] = Hop(i - 1)
    BY <2>2, <2>3 DEF Linked
  <2> QED
    BY <1>0, <2>1, <2>2, <2>3, <2>4
<1>3. ASSUME NEW m \in net, NEW r, Reply(m, {r}), NEW i \in 0 .. n + 1, InPlace(r, i),
             r.type # "CLIENT_REGISTER_CONTROLLERSIDE"
      PROVE  ListInv'
  BY <1>1, <1>3 DEF Reply, Good
<1>4. ASSUME NEW m \in net, Reply(m, {})
      PROVE  ListInv'
  BY <1>1, <1>4 DEF Reply
<1>5. ASSUME NEW s \in Server, ServerGivesUp(s)
      PROVE  ListInv'
  BY <1>1, <1>5 DEF ServerGivesUp
<1>6. ASSUME NEW s \in Server, NEW m \in net,
             ServerHandleRegisterReply(s, m) \/ ServerHandleUpdateNextHop(s, m)
      PROVE  ListInv'
  BY <1>4, <1>6 DEF ServerHandleRegisterReply, ServerHandleUpdateNextHop
<1>7. ASSUME NEW s \in Server, NEW m \in net, ServerHandleClientRegister(s, m)
      PROVE  ListInv'
  <2> DEFINE r == ClientRegisterServerSide(NextHop[s], Mul(m.public_key, Roundkey(s)),
                                           m.addr)
  <2>1. m.to = s /\ m.type = "CLIENT_REGISTER_SERVERSIDE" /\ m \in OnTheWay /\ Reply(m, {r})
    BY <1>7 DEF ServerHandleClientRegister, ServerHandles, OnTheWay
  <2>2. PICK i \in Places : InPlace(m, i) /\ NextHop[s] = Hop(i + 1) /\ i + 1 \in 0 .. n + 1
    BY <1>2, <2>1
  <2>3. m.public_key \in Point /\ Len(m.public_key.exps) = i - 1
    BY <2>1, <2>2, AtServer DEF InPlace, TypeOK
  <2>4. Len(Mul(m.public_key, Roundkey(s)).exps) = i
    BY <1>0, <2>3 DEF Mul, Point
  <2>5. /\ r.type = "CLIENT_REGISTER_SERVERSIDE" /\ r.to = Hop(i + 1)
        /\ r.public_key = Mul(m.public_key, Roundkey(s))
    BY <2>2 DEF ClientRegisterServerSide
  <2> HIDE DEF r
  <2>6. InPlace(r, i + 1)
    BY <1>0, <2>4, <2>5 DEF InPlace
  <2> QED
    BY <1>3, <2>1, <2>2, <2>5, <2>6
<1>8. ASSUME NEW s \in Server, NEW m \in net, ServerHandleAnnouncement(s, m)
      PROVE  ListInv'
  <2> DEFINE list == Raised(s, m.entries)
             r == Announcement(NextHop[s], list, RaisedG(s, m.g))
  <2>1. m.to = s /\ m.type = "ANNOUNCEMENT" /\ m \in OnTheWay
    BY <1>8 DEF ServerHandleAnnouncement, ServerHandles, OnTheWay, IsRound
  <2>2. PICK i \in Places : /\ InPlace(m, i) /\ ServerList[i] = s
                            /\ NextHop[s] = Hop(i + 1) /\ i + 1 \in 0 .. n + 1
    BY <1>2, <2>1
  <2>3. m.entries \subseteq Entry
        /\ \A e \in m.entries : Len(e.key.exps) = i - 1 /\ Sealed(e.val, i)
    BY <2>1, <2>2, AtServer DEF InPlace, TypeOK
  <2>4. ASSUME NEW e \in m.entries
        PROVE  /\ CanDecrypt(e.val, s)
               /\ Len(Mul(e.key, Roundkey(s)).exps) = i /\ Sealed(Decrypt(e.val), i + 1)
    <3>1. e.key \in Point /\ e.val \in Onion /\ Len(e.key.exps) = i - 1 /\ Sealed(e.val, i)
      BY <2>3 DEF Entry
    <3>2. CanDecrypt(e.val, s) /\ Sealed(Decrypt(e.val), i + 1)
      BY <2>2, <3>1, SealedPeel
    <3>3. Len(Mul(e.key, Roundkey(s)).exps) = i
      BY <1>0, <3>1 DEF Mul, Point
    <3> QED
      BY <3>2, <3>3
  <2>5. Reply(m, {r})
    BY <1>8, <2>4 DEF ServerHandleAnnouncement
  <2>6. \A e \in list : Len(e.key.exps) = i /\ Sealed(e.val, i + 1)
    BY <2>4 DEF Raised
  <2> HIDE DEF list
  <2>7. r.type = "ANNOUNCEMENT" /\ r.to = Hop(i + 1) /\ r.entries = list
    BY <2>2 DEF Announcement
  <2> HIDE DEF r
  <2>8. InPlace(r, i + 1)
    <3>1. i + 1 >= 1 /\ i + 1 - 1 = i
      BY <1>0
    <3> QED
      BY <2>6, <2>7, <3>1 DEF InPlace
  <2> QED
    BY <1>3, <2>2, <2>5, <2>7, <2>8
<1>9. ASSUME NEW s \in Server, NEW m \in net, ServerHandleRoundEnd(s, m)
      PROVE  ListInv'
  <2> DEFINE known == {e \in Words(m) : e.key \in DOMAIN KeyMap[s]}
             missing == ~ KeysOf(m.entries) \subseteq DOMAIN KeyMap[s]
             list == Restored(s, known)
             r == RoundEnd(PreviousHop[s], list, missing, FALSE)
  <2>1. m.to = s /\ m.type = "ROUND_END" /\ m \in OnTheWay
    BY <1>9 DEF ServerHandleRoundEnd, ServerHandles, OnTheWay, IsRound
  <2>2. PICK i \in Places : /\ InPlace(m, i) /\ ServerList[i] = s
                            /\ PreviousHop[s] = Hop(i - 1) /\ i - 1 \in 0 .. n + 1
    BY <1>2, <2>1
  <2>3. /\ m.entries \subseteq Entry /\ (m.is_start => i = n)
        /\ \A e \in m.entries : Len(e.key.exps) = i /\ Sealed(e.val, i + 1)
    BY <2>1, <2>2, AtServer DEF InPlace, TypeOK
  <2>4. ASSUME NEW w \in Words(m)
        PROVE  /\ w.key \in Point /\ w.val \in Onion
               /\ Len(w.key.exps) = i /\ Sealed(w.val, i + 1)
    <3>1. CASE m.is_start
      <4>1. PICK e \in m.entries : w = [e EXCEPT !.val = Plain(IntToByte(e.val.rep))]
        BY <3>1 DEF Words
      <4>2. e \in Entry /\ Len(e.key.exps) = i
        BY <2>3
      <4>3. w.key = e.key /\ w.val = Plain(IntToByte(e.val.rep))
        BY <4>1, <4>2 DEF Entry
      <4>4. w.key \in Point /\ IntToByte(e.val.rep) \in Int
        BY <4>2, <4>3, ModulusAssumption DEF Entry, Onion, IntToByte
      <4>5. Sealed(w.val, i + 1)
        BY <1>0, <2>3, <3>1, <4>3 DEF Plain, Sealed, Under
      <4> QED
        BY <4>2, <4>3, <4>4, <4>5, OnionTypes
    <3>2. CASE ~ m.is_start
      BY <2>3, <3>2 DEF Words, Entry
    <3> QED
      BY <3>1, <3>2
  <2>5. ASSUME NEW w \in known
        PROVE  /\ Len(KeyMap[s][w.key].exps) = i - 1
               /\ Sealed(Encrypt(w.val, s), i)
    <3>1. KeyMap[s][w.key] \in Point
      BY <2>5 DEF TypeOK, ServerTypeOK, IsMap
    <3>2. w.key = Mul(KeyMap[s][w.key], Roundkey(s))
      BY <2>5 DEF KeyMapMatchesRoundkey
    <3>3. Len(w.key.exps) = i
      BY <2>4, <2>5
    <3> DEFINE p == KeyMap[s][w.key]
    <3>4. p \in Point /\ Len(Mul(p, Roundkey(s)).exps) = i
      BY <3>1, <3>2, <3>3
    <3>5. Len(p.exps) = i - 1
      <4> HIDE DEF p
      <4> QED
        BY <1>0, <3>4 DEF Mul, Point
    <3> QED
      BY <2>2, <2>4, <2>5, <3>5, SealedWrap
  <2>6. \A e \in list : Len(e.key.exps) = i - 1 /\ Sealed(e.val, i)
    BY <2>5 DEF Restored
  <2>7. Reply(m, {r}) \/ Reply(m, {})
    BY <1>9 DEF ServerHandleRoundEnd, ServerDies
  <2> HIDE DEF list, missing
  <2>8. /\ r.type = "ROUND_END" /\ r.to = Hop(i - 1) /\ r.entries = list
        /\ r.is_start = FALSE
    BY <2>2 DEF RoundEnd
  <2> HIDE DEF r
  <2>9. InPlace(r, i - 1)
    <3>1. i - 1 <= n /\ i - 1 + 1 = i
      BY <1>0
    <3> QED
      BY <2>6, <2>8, <3>1 DEF InPlace
  <2> QED
    BY <1>3, <1>4, <2>2, <2>7, <2>8, <2>9
<1> QED
  BY <1>5, <1>6, <1>7, <1>8, <1>9 DEF ServerNext, ServerListenerNext

\* A client only puts something into the chain when it registers.
LEMMA ClientFlow ==
    ASSUME ClientNext \/ \E c \in Client : Register(c)
    PROVE  /\ \A r \in net' : IsFlow(r) => r \in net \/ Good(r)
           /\ ClientNext => \A r \in net' : IsFlow(r) => r \in net
<1>1. ASSUME NEW c \in Client, Register(c)
      PROVE  \A r \in net' : IsFlow(r) => r \in net \/ Good(r)
  <2>1. Good(ClientRegisterControllerSide(c))
    BY DEF Good, ClientRegisterControllerSide, PublicKey
  <2> QED
    BY <1>1, <2>1 DEF Register, Send
<1>2. ASSUME NEW c \in Client, SendRequest(c)
      PROVE  \A r \in net' : IsFlow(r) => r \in net
  BY <1>2, NotFlow DEF SendRequest, Send
<1>3. ASSUME NEW c \in Client,
             \/ AwaitFirstRound(c) \/ SendMsg(c) \/ SendVote(c) \/ Exit(c)
             \/ ClientListenerNext(c)
      PROVE  net' \subseteq net
  BY <1>3
     DEF AwaitFirstRound, SendMsg, SendVote, Exit, Sign, ClientListenerNext,
         ClientStoreG, ClientStoreNym, ClientHandleRegisterConfirmation,
         ClientHandleAnnouncement, ClientHandleMsg, ClientHandleRoundEnd,
         ClientPrints, Reply
<1> QED
  BY <1>1, <1>2, <1>3 DEF ClientNext, ClientMainNext

\* Before the ok nothing travels the chain and the maps are empty.
LEMMA EmptyLists ==
    ASSUME mainPc' # "round_end", \A r \in net' : ~ IsFlow(r),
           DOMAIN ReputationMap' = {}, DecryptedKeysMap' = {}, NewClientsBuffer' = <<>>
    PROVE  ListInv'
<1>1. OnTheWay' = {}
  BY DEF OnTheWay, IsFlow, IsRound
<1>2. InBuffer' = {}
  BY DEF InBuffer
<1> QED
  BY <1>1, <1>2 DEF ListInv, AllInPlace, IsFlow

\* No step before the ok fills a map or sends a datagram along the chain.
LEMMA QuietBeforeOk ==
    ASSUME Careful, TypeOK, ListInv, mainPc = "read_ok", Next
    PROVE  ListInv'
<1>1. /\ DOMAIN ReputationMap = {} /\ DecryptedKeysMap = {} /\ NewClientsBuffer = <<>>
      /\ \A r \in net : ~ IsFlow(r)
  BY DEF ListInv, OnTheWay, IsFlow
<1>2. ASSUME \A r \in net' : IsFlow(r) => r \in net,
             UNCHANGED <<ReputationMap, DecryptedKeysMap, NewClientsBuffer>>,
             UNCHANGED mainPc
      PROVE  ListInv'
  BY <1>1, <1>2, EmptyLists
<1>3. ASSUME NEW s \in Server, LaunchServer(s) PROVE ListInv'
  BY <1>2, <1>3, NotFlow
     DEF LaunchServer, ServerStart, Send, coordVars, mapVars, logVars, mainVars
<1>4. ~ \E c \in Client : LaunchClient(c)
  BY DEF LaunchClient, Careful
<1>5. CASE EndConfiguration
  BY <1>1, <1>5, EmptyLists DEF EndConfiguration, ReadOk, MainGoto, mapVars, logVars
<1>6. CASE ListenerNext /\ UNCHANGED <<serverVars, clientVars>>
  <2>1. ASSUME NEW m \in net, NEW cause, CoordDies(m, cause) PROVE ListInv'
    BY <1>2, <2>1 DEF CoordDies, Reply, mapVars, logVars, mainVars
  <2>2. ASSUME NEW m \in net, CoordHandleServerRegister(m) PROVE ListInv'
    BY <1>2, <2>2, NotFlow
       DEF CoordHandleServerRegister, Relink, Reply, mapVars, logVars, mainVars
  <2>3. ASSUME NEW m \in net,
               \/ CoordHandleClientRegisterControllerSide(m)
               \/ CoordHandleClientRegisterServerSide(m)
               \/ CoordHandleAnnouncement(m)
               \/ CoordHandleRoundEnd(m)
        PROVE  FALSE
    BY <1>1, <2>3
       DEF CoordHandleClientRegisterControllerSide, CoordHandleClientRegisterServerSide,
           CoordHandleAnnouncement, CoordHandleRoundEnd, Handles, IsFlow, IsRound
  <2>4. ASSUME NEW m \in net, CoordHandleMsg(m) \/ CoordHandleVote(m),
               ~ \E cause : CoordDies(m, cause)
        PROVE  ListInv'
    <3>1. \A r \in net' : IsFlow(r) => r \in net
      BY <2>4, NotFlow DEF CoordHandleMsg, CoordHandleVote, DiesOfRace, Reply
    <3>2. UNCHANGED <<ReputationMap, DecryptedKeysMap, NewClientsBuffer, mainPc>>
      BY <2>4
         DEF CoordHandleMsg, CoordHandleVote, DiesOfRace, coordVars, mapVars, logVars,
             mainVars, MainAt
    <3> QED
      BY <1>2, <3>1, <3>2
  <2>5. CASE CoordRoundEndAwake
    BY <1>2, <2>5 DEF CoordRoundEndAwake, mapVars, logVars, mainVars
  <2> QED
    BY <1>6, <2>1, <2>2, <2>3, <2>4, <2>5 DEF ListenerNext
<1>7. ~ MainNext
  BY DEF MainNext, AwaitReady, ClearBuffer, CheckReady, Announce, AwaitMessage,
         BeginVote, Vote, AddNewClients, SendRoundEnd, MainAt
<1>8. CASE ServerStep
  <2>1. \A r \in net' : IsFlow(r) => r \in net
    <3>1. ASSUME NEW s \in Server, NEW m \in net,
                 \/ ServerHandleClientRegister(s, m)
                 \/ ServerHandleAnnouncement(s, m)
                 \/ ServerHandleRoundEnd(s, m)
          PROVE  FALSE
      BY <1>1, <3>1
         DEF ServerHandleClientRegister, ServerHandleAnnouncement,
             ServerHandleRoundEnd, ServerHandles, IsFlow, IsRound
    <3> QED
      BY <1>8, <3>1
         DEF ServerStep, ServerNext, ServerGivesUp, ServerListenerNext,
             ServerHandleRegisterReply, ServerHandleUpdateNextHop, Reply
  <2> QED
    BY <1>2, <1>8, <2>1 DEF ServerStep, coordVars, mapVars, logVars, mainVars
<1>9. CASE ClientStep
  BY <1>2, <1>9, ClientFlow DEF ClientStep, coordVars, mapVars, logVars, mainVars
<1>10. ~ NetStep
  BY DEF NetStep, Lose, Careful
<1> QED
  BY <1>3, <1>4, <1>5, <1>6, <1>7, <1>8, <1>9, <1>10
     DEF Next, LaunchNext, CoordStep, CoordNext

\* Every step of the system of a careful operator.
LEMMA StepKeepsLists ==
    ASSUME Careful, TypeOK, KeyMapMatchesRoundkey, LinkedInv, ListInv, [Next]_vars
    PROVE  ListInv'
<1>1. CASE UNCHANGED vars
  BY <1>1
     DEF vars, coordVars, chainVars, mapVars, logVars, mainVars, ListInv, AllInPlace,
         OnTheWay, InPlace, Sealed, Under, Hop, Places, InBuffer
<1>2. CASE Next /\ mainPc = "read_ok"
  BY <1>2, QuietBeforeOk
<1>3. CASE Next /\ mainPc # "read_ok"
  <2>1. Linked /\ mainPc' # "read_ok"
    BY <1>3, OkOnce DEF LinkedInv
  <2>2. ASSUME NEW m \in net PROVE ~ CoordHandleServerRegister(m)
    BY <2>1 DEF CoordHandleServerRegister, Handles, Linked, Topology, IsTopology
  <2>3. ASSUME NEW s \in Server PROVE ~ LaunchServer(s)
    BY <2>1 DEF LaunchServer, ServerStart, Linked
  <2>4. ~ EndConfiguration /\ ~ NetStep
    BY <1>3 DEF EndConfiguration, ReadOk, MainAt, NetStep, Lose, Careful
  <2>5. CASE MainNext
    <3>1. UNCHANGED ServerList
      BY <2>5 DEF MainNext, AwaitReady, ClearBuffer, CheckReady, Announce,
           AwaitMessage, BeginVote, Vote, AddNewClients, SendRoundEnd, chainVars
    <3> QED
      BY <1>3, <2>1, <2>5, <3>1, MainKeepsLists
  <2>6. CASE ListenerNext
    <3>1. UNCHANGED ServerList
      BY <2>2, <2>6
         DEF ListenerNext, CoordHandleClientRegisterControllerSide,
             CoordHandleClientRegisterServerSide, CoordHandleAnnouncement,
             CoordHandleMsg, CoordHandleVote, CoordHandleRoundEnd,
             CoordRoundEndAwake, DiesOfRace, CoordDies, coordVars, chainVars
    <3> QED
      BY <1>3, <2>1, <2>6, <3>1, ListenerKeepsLists
  <2>7. CASE ServerStep
    BY <1>3, <2>1, <2>7, ServerKeepsLists DEF ServerStep
  <2>8. CASE UNCHANGED coordVars /\ (ClientNext \/ \E c \in Client : Register(c))
    <3>1. \A r \in net' : IsFlow(r) => r \in net \/ Good(r)
      BY <2>8, ClientFlow
    <3>2. UNCHANGED <<ServerList, ReputationMap, DecryptedKeysMap, NewClientsBuffer,
                      mainPc, lastServer>>
      BY <2>8 DEF coordVars, chainVars, mapVars, logVars, mainVars
    <3> QED
      BY <2>1, <3>1, <3>2, ListFrom DEF ListInv, InBuffer
  <2> QED
    BY <1>3, <2>3, <2>4, <2>5, <2>6, <2>7, <2>8
       DEF Next, LaunchNext, LaunchClient, CoordStep, CoordNext, ClientStep
<1> QED
  BY <1>1, <1>2, <1>3

\* Every list of a careful operator's behaviour is as ListInv says.
LEMMA ListsCorrect ==
    ASSUME Careful
    PROVE  Spec => []ListInv
<1>1. Init => ListInv
  <2> SUFFICES ASSUME Init PROVE ListInv
    OBVIOUS
  <2> QED
    BY DEF Init, CoordInit, NetInit, NoEntries, ListInv, AllInPlace, OnTheWay, InBuffer
<1> QED
  BY <1>1, StepKeepsLists, LinkedCorrect, KeyMapCorrect, TypeCorrect, PTL DEF Spec

\* What the coordinator stores at the end of a round are long-term keys with
\* values encrypted for every server, whatever the servers made of the list on its
\* way back (CoordinatorHandler.go:259, ReputationMap in handleRoundEnd).
THEOREM ListsUnwound ==
    ASSUME Careful
    PROVE  Spec => []UnwoundByRoundEnd
<1>1. ASSUME TypeOK, ListInv PROVE UnwoundByRoundEnd
  <2> SUFFICES ASSUME NEW k \in DOMAIN ReputationMap
               PROVE  k.exps = <<>> /\ ReputationMap[k].layers = Reverse(ServerList)
    BY DEF UnwoundByRoundEnd
  <2> DEFINE n == Len(ServerList)
             t == ReputationMap[k].layers
  <2>1. k.exps = <<>> /\ Sealed(ReputationMap[k], 1)
    BY <1>1 DEF ListInv
  <2>2. t \in Seq(Server) /\ n \in Nat
    BY <1>1 DEF TypeOK, CoordTypeOK, IsMap, Onion
  <2>3. Len(t) = n /\ \A j \in 1 .. n : t[j] = ServerList[n - j + 1]
    <3>1. n + 1 - 1 = n /\ \A j \in 1 .. n : n + 1 - j = n - j + 1
      BY <2>2
    <3> QED
      BY <2>1, <3>1 DEF Sealed, Under
  <2> HIDE DEF t
  <2>4. t = [j \in 1 .. n |-> ServerList[n - j + 1]]
    BY <2>2, <2>3
  <2> QED
    BY <2>1, <2>4 DEF Reverse, t
<1> QED
  BY <1>1, ListsCorrect, TypeCorrect, PTL

\* The anon.Decrypt of a server fails on no value of an announcement, and the
\* coordinator reads them plain (AnonServerHandler.go:253).
THEOREM LayersPeel ==
    ASSUME Careful
    PROVE  Spec => []AnnouncementPeels
<1>1. ASSUME TypeOK, ListInv PROVE AnnouncementPeels
  <2> SUFFICES ASSUME NEW m \in RoundDatagrams, m.type = "ANNOUNCEMENT",
                      NEW e \in m.entries
               PROVE  IF m.to = Coord THEN e.val.layers = <<>> ELSE CanDecrypt(e.val, m.to)
    BY DEF AnnouncementPeels
  <2> DEFINE n == Len(ServerList)
  <2>0. n \in Nat
    BY <1>1 DEF TypeOK, CoordTypeOK
  <2>1. m \in OnTheWay /\ m \in Datagram /\ m.to \in Server \cup {Coord}
    BY <1>1 DEF RoundDatagrams, OnTheWay, IsRound, TypeOK
  <2>2. PICK i \in 0 .. n + 1 : InPlace(m, i)
    BY <1>1, <2>1 DEF ListInv, AllInPlace
  <2>3. i >= 1 /\ Sealed(e.val, i) /\ m.to = Hop(i)
    BY <2>2 DEF InPlace
  <2>4. e.val \in Onion
    BY <2>1, AtServer, AtCoordinator DEF Entry
  <2>5. CASE m.to = Coord
    <3>1. i = n + 1
      <4>1. Hop(i) = Coord
        BY <2>3, <2>5
      <4>2. i = 0 \/ i = n + 1
        BY <1>1, <4>1, Positions
      <4> QED
        BY <2>3, <4>2
    <3>2. Len(e.val.layers) = 0
      BY <2>0, <2>3, <3>1 DEF Sealed, Under
    <3> QED
      BY <2>4, <2>5, <3>2 DEF Onion
  <2>6. CASE m.to # Coord
    <3>1. i \in Places /\ ServerList[i] = m.to
      BY <1>1, <2>1, <2>3, <2>6, Positions
    <3> QED
      BY <1>1, <2>3, <2>4, <2>6, <3>1, SealedPeel
  <2> QED
    BY <2>5, <2>6
<1> QED
  BY <1>1, ListsCorrect, TypeCorrect, PTL

-----------------------------------------------------------------------------
(* The secrets. *)

\* A step is harmless if what it sends tells the truth, and a phase it ends
\* leaves no secret in use.
LEMMA SecretsFrom ==
    ASSUME SecretInv, UNCHANGED <<G, epoch, ServerList>>,
           \A r \in net' : IsRound(r) => r \in net \/ Tells(r),
           (Status' # "MESSAGE" \/ listenerPc' = "sleeping")
              => (Status # "MESSAGE" \/ listenerPc = "sleeping") \/ AllSpent
    PROVE  SecretInv'
<1>1. /\ \A m : Tells(m)' <=> Tells(m)
      /\ AllSpent' <=> AllSpent
  BY DEF Tells, SpentBehind, AllSpent, Spent, Hop, Places
<1>2. \A m \in RoundDatagrams' : Tells(m)
  BY RoundDatagramsAre DEF SecretInv, RoundDatagrams, IsRound
<1> QED
  BY <1>1, <1>2 DEF SecretInv

\* main sends the standard base, and round ends to the last server.
LEMMA MainKeepsSecrets ==
    ASSUME TypeOK, PhaseInv, LinkedInv, ListInv, SecretInv, MainNext \/ ReadOk,
           UNCHANGED serverVars
    PROVE  SecretInv'
<1> DEFINE n == Len(ServerList)
<1>0. UNCHANGED <<G, epoch, ServerList, listenerPc>>
  BY DEF MainNext, ReadOk, AwaitReady, ClearBuffer, CheckReady, Announce,
         AwaitMessage, BeginVote, Vote, AddNewClients, SendRoundEnd, chainVars,
         serverVars
<1>1. ASSUME \A r \in net' : IsRound(r) => r \in net \/ Tells(r),
             Status' # "MESSAGE" => Status # "MESSAGE"
      PROVE  SecretInv'
  BY <1>0, <1>1, SecretsFrom
<1>2. CASE \/ ReadOk \/ AwaitReady \/ ClearBuffer \/ CheckReady \/ AwaitMessage
           \/ BeginVote
  <2>1. UNCHANGED net
    BY <1>2 DEF ReadOk, AwaitReady, ClearBuffer, CheckReady, AwaitMessage, BeginVote
  <2>2. Status' # "MESSAGE" => Status # "MESSAGE" \/ AllSpent
    BY <1>2
       DEF ReadOk, AwaitReady, ClearBuffer, CheckReady, AwaitMessage, BeginVote,
           ReadyForNewRound, MainAt, PhaseInv
  <2> QED
    BY <1>0, <2>1, <2>2, SecretsFrom
<1>3. CASE Announce
  <2>1. Tells(Announcement(GetFirstServer,
                  {[key |-> k, val |-> ReputationMap[k]] : k \in DOMAIN ReputationMap},
                  StdBase))
    BY DEF Tells, Announcement, StdBase
  <2> QED
    BY <1>1, <1>3, <2>1 DEF Announce, SkipAnnouncement, Send
<1>4. CASE Vote
  BY <1>1, <1>4, NotOfARound DEF Vote, Send
<1>5. CASE AddNewClients
  <2>1. UNCHANGED net
    BY <1>5 DEF AddNewClients
  <2>2. CASE ServerList = <<>>
    <3>1. mainPc # "read_ok"
      BY <1>5 DEF AddNewClients, MainAt
    <3>2. Server = {}
      BY <2>2, <3>1 DEF LinkedInv, Linked, Listed, Places
    <3>3. DOMAIN G.exps = {}
      <4>1. G.exps \in Seq(Secret) /\ Secret = {}
        BY <3>2 DEF TypeOK, CoordTypeOK, Point, Secret
      <4>2. Len(G.exps) \in Nat /\ DOMAIN G.exps = 1 .. Len(G.exps)
            /\ \A j \in 1 .. Len(G.exps) : G.exps[j] \in Secret
        BY <4>1
      <4> QED
        BY <4>1, <4>2
    <3> QED
      BY <1>0, <2>1, <3>3, SecretsFrom DEF AllSpent
  <2>3. CASE ServerList # <<>>
    BY <1>1, <1>5, <2>1, <2>3 DEF AddNewClients
  <2> QED
    BY <2>2, <2>3
<1>6. CASE SendRoundEnd
  <2> DEFINE listed == DOMAIN DecryptedReputationMap \cap DecryptedKeysMap
             nil == DOMAIN DecryptedReputationMap \ DecryptedKeysMap
             list == {[key |-> k, val |-> Plain(DecryptedReputationMap[k])] : k \in listed}
             r == RoundEnd(lastServer, list, nil # {}, TRUE)
  <2>1. lastServer = Hop(n) /\ n \in Nat /\ Places = 1 .. n
    BY <1>6, Positions DEF SendRoundEnd, MainAt, ListInv
  <2>2. net' = net \cup {r}
    BY <1>6 DEF SendRoundEnd, Send
  <2> HIDE DEF list, nil
  <2>3. r.type = "ROUND_END" /\ r.to = Hop(n)
    BY <2>1 DEF RoundEnd
  <2> HIDE DEF r
  <2>4. SpentBehind(n)
    BY <2>1 DEF SpentBehind
  <2>5. Tells(r)
    BY <2>1, <2>3, <2>4 DEF Tells
  <2> QED
    BY <1>1, <1>6, <2>2, <2>5 DEF SendRoundEnd
<1> QED
  BY <1>2, <1>3, <1>4, <1>5, <1>6 DEF MainNext

\* The listener takes over a generator of present secrets, and ends a round
\* when every server has reset its own.
LEMMA ListenerKeepsSecrets ==
    ASSUME TypeOK, PhaseInv, LinkedInv, SecretInv, ListenerNext, UNCHANGED serverVars
    PROVE  SecretInv'
<1> DEFINE n == Len(ServerList)
<1>0. ClientAddrs \subseteq Addr /\ UNCHANGED epoch
  BY CoordHelperTypes DEF TypeOK, serverVars
<1>1. ASSUME NEW m \in net, NEW cause, CoordDies(m, cause)
      PROVE  SecretInv'
  BY <1>0, <1>1, SecretsFrom DEF CoordDies, Reply, chainVars
<1>2. ASSUME NEW m \in net, CoordHandleServerRegister(m)
      PROVE  SecretInv'
  <2>1. CASE RoundDatagrams = {}
    <3>1. \A r \in net' : IsRound(r) => r \in net
      BY <1>2, NotOfARound DEF CoordHandleServerRegister, Relink, Reply
    <3>2. RoundDatagrams' = {}
      BY <2>1, <3>1 DEF RoundDatagrams, IsRound
    <3>3. UNCHANGED <<G, epoch, Status, listenerPc>>
      BY <1>0, <1>2 DEF CoordHandleServerRegister
    <3> QED
      BY <3>2, <3>3 DEF SecretInv, AllSpent, Spent
  <2>2. CASE RoundDatagrams # {}
    <3>1. mainPc # "read_ok"
      BY <2>2 DEF PhaseInv, BetweenRounds
    <3>2. FALSE
      BY <1>2, <3>1
         DEF LinkedInv, Linked, CoordHandleServerRegister, Handles, Topology, IsTopology
    <3> QED
      BY <3>2
  <2> QED
    BY <2>1, <2>2
<1>3. ASSUME NEW m \in net,
             \/ CoordHandleClientRegisterControllerSide(m)
             \/ CoordHandleClientRegisterServerSide(m)
             \/ CoordHandleMsg(m)
             \/ CoordHandleVote(m),
             ~ \E cause : CoordDies(m, cause)
      PROVE  SecretInv'
  <2>1. \A r \in net' : IsRound(r) => r \in net
    <3>1. CASE CoordHandleClientRegisterControllerSide(m)
      BY <1>3, <3>1, NotOfARound
         DEF CoordHandleClientRegisterControllerSide, DiesOfRace, Reply
    <3>2. CASE CoordHandleClientRegisterServerSide(m)
      BY <1>3, <3>2, NotOfARound
         DEF CoordHandleClientRegisterServerSide, DiesOfRace, Reply, Confirm
    <3>3. CASE CoordHandleMsg(m)
      BY <1>3, <3>3, NotOfARound DEF CoordHandleMsg, DiesOfRace, Reply
    <3>4. CASE CoordHandleVote(m)
      BY <1>3, <3>4, NotOfARound DEF CoordHandleVote, DiesOfRace, Reply
    <3> QED
      BY <1>3, <3>1, <3>2, <3>3, <3>4
  <2>2. UNCHANGED <<G, ServerList, Status, listenerPc>>
    BY <1>3
       DEF CoordHandleClientRegisterControllerSide, CoordHandleClientRegisterServerSide,
           CoordHandleMsg, CoordHandleVote, DiesOfRace, coordVars, chainVars
  <2> QED
    BY <1>0, <2>1, <2>2, SecretsFrom
<1>4. ASSUME NEW m \in net, CoordHandleAnnouncement(m)
      PROVE  SecretInv'
  <2>1. m \in RoundDatagrams /\ m.type = "ANNOUNCEMENT" /\ listenerPc = "receiving"
    BY <1>4 DEF CoordHandleAnnouncement, Handles, RoundDatagrams
  <2>2. RoundDatagrams = {m}
    BY <2>1 DEF PhaseInv
  <2>3. PICK out : Reply(m, out) /\ \A r \in out : ~ IsRound(r)
    <3>1. CASE FinishEmptyList(m)
      BY <3>1 DEF FinishEmptyList
    <3>2. CASE FinishAnnouncement(m)
      BY <1>0, <3>2, NotOfARound DEF FinishAnnouncement
    <3> QED
      BY <1>4, <3>1, <3>2 DEF CoordHandleAnnouncement
  <2>4. RoundDatagrams' = {}
    BY <2>2, <2>3 DEF RoundDatagrams, IsRound, Reply
  <2>5. Status' = "MESSAGE" /\ listenerPc' = "receiving" /\ (G' = m.g \/ UNCHANGED G)
    BY <1>4, <2>1 DEF CoordHandleAnnouncement, FinishEmptyList, FinishAnnouncement
  <2>6. \A j \in DOMAIN m.g.exps : m.g.exps[j][2] = epoch[m.g.exps[j][1]]
    BY <2>1 DEF SecretInv, Tells
  <2>7. \A j \in DOMAIN m.g.exps : m.g.exps[j][2] <= epoch[m.g.exps[j][1]]
    <3>1. m.g.exps \in Seq(Secret) /\ epoch \in [Server -> Nat]
      BY <1>4, AtCoordinator
         DEF CoordHandleAnnouncement, Handles, TypeOK, ServerTypeOK, Point
    <3>2. \A j \in DOMAIN m.g.exps : m.g.exps[j][2] \in Nat
      BY <3>1 DEF Secret
    <3> QED
      BY <2>6, <3>2
  <2> QED
    BY <1>0, <2>4, <2>5, <2>7 DEF SecretInv
<1>5. ASSUME NEW m \in net, CoordHandleRoundEnd(m)
      PROVE  SecretInv'
  <2>1. m \in RoundDatagrams /\ m.type = "ROUND_END" /\ m.to = Coord
    BY <1>5 DEF CoordHandleRoundEnd, Handles, RoundDatagrams
  <2>2. PICK i \in 0 .. n : m.to = Hop(i) /\ SpentBehind(i)
    BY <2>1 DEF SecretInv, Tells
  <2>3. n \in Nat /\ Places = 1 .. n
    BY Positions
  <2>4. i = 0
    <3>1. i \in 0 .. n + 1 /\ Hop(i) = Coord
      BY <2>1, <2>2, <2>3
    <3>2. i = 0 \/ i = n + 1
      BY <3>1, Positions
    <3> QED
      BY <2>2, <2>3, <3>2
  <2>5. mainPc # "read_ok"
    BY <2>1 DEF PhaseInv, BetweenRounds
  <2>6. ASSUME NEW j \in DOMAIN G.exps PROVE Spent(G.exps[j])
    <3>1. G.exps[j][1] \in Server
      BY DEF TypeOK, CoordTypeOK, Point, Secret
    <3>2. PICK l \in Places : ServerList[l] = G.exps[j][1]
      BY <2>5, <3>1 DEF LinkedInv, Linked, Listed
    <3>3. l > 0
      BY <2>3
    <3> QED
      BY <2>2, <2>4, <3>2, <3>3 DEF SpentBehind
  <2>7. AllSpent
    BY <2>6 DEF AllSpent
  <2>8. \A r \in net' : IsRound(r) => r \in net
    BY <1>0, <1>5, NotOfARound DEF CoordHandleRoundEnd, Reply
  <2>9. UNCHANGED <<G, ServerList>>
    BY <1>5 DEF CoordHandleRoundEnd, chainVars
  <2> QED
    BY <1>0, <2>7, <2>8, <2>9, SecretsFrom
<1>6. CASE CoordRoundEndAwake
  BY <1>0, <1>6, SecretsFrom DEF CoordRoundEndAwake, chainVars
<1>7. CASE \E m \in net : \E cause : CoordDies(m, cause)
  BY <1>1, <1>7
<1> QED
  BY <1>2, <1>3, <1>4, <1>5, <1>6, <1>7 DEF ListenerNext

\* A server raises the generator to its present secret, and the end of the round
\* passes it only when it has picked another.
LEMMA ServerKeepsSecrets ==
    ASSUME TypeOK, PhaseInv, LinkedInv, SecretInv, UNCHANGED coordVars,
           ServerNext \/ \E s \in Server : ServerStart(s)
    PROVE  SecretInv'
<1> DEFINE n == Len(ServerList)
<1>0. /\ UNCHANGED <<G, ServerList, Status, listenerPc>>
      /\ n \in Nat /\ Places = 1 .. n
      /\ epoch \in [Server -> Nat] /\ G.exps \in Seq(Secret)
  BY Positions DEF coordVars, chainVars, TypeOK, ServerTypeOK, CoordTypeOK, Point
<1>1. ASSUME UNCHANGED epoch, \A r \in net' : IsRound(r) => r \in net \/ Tells(r)
      PROVE  SecretInv'
  BY <1>0, <1>1, SecretsFrom
<1>2. ASSUME NEW s \in Server, ServerStart(s) \/ ServerGivesUp(s)
      PROVE  SecretInv'
  BY <1>1, <1>2, NotOfARound DEF ServerStart, ServerGivesUp, Send
<1>3. ASSUME NEW s \in Server, NEW m \in net,
             \/ ServerHandleRegisterReply(s, m)
             \/ ServerHandleUpdateNextHop(s, m)
             \/ ServerHandleClientRegister(s, m)
             \/ \E cause \in ServerStates : ServerDies(s, m, cause)
      PROVE  SecretInv'
  BY <1>1, <1>3, NotOfARound
     DEF ServerHandleRegisterReply, ServerHandleUpdateNextHop,
         ServerHandleClientRegister, ServerDies, Reply
<1>4. ASSUME NEW s \in Server, NEW m \in net, ServerHandleAnnouncement(s, m)
      PROVE  SecretInv'
  <2>1. CASE ServerDies(s, m, "decrypt")
    BY <1>3, <2>1 DEF ServerStates
  <2>2. CASE ~ ServerDies(s, m, "decrypt")
    <3> DEFINE g == RaisedG(s, m.g)
               r == Announcement(NextHop[s], Raised(s, m.entries), g)
    <3>1. m \in RoundDatagrams /\ m.type = "ANNOUNCEMENT" /\ m.to = s
      BY <1>4 DEF ServerHandleAnnouncement, ServerHandles, RoundDatagrams
    <3>2. Reply(m, {r}) /\ UNCHANGED epoch
      BY <1>4, <2>2 DEF ServerHandleAnnouncement
    <3>3. m.g \in Point /\ \A j \in DOMAIN m.g.exps : m.g.exps[j][2] = epoch[m.g.exps[j][1]]
      BY <3>1, AtServer DEF SecretInv, Tells, RoundDatagrams, TypeOK
    <3>4. g.exps = Append(m.g.exps, Roundkey(s))
      BY <3>3 DEF RaisedG, Mul, Point
    <3>5. m.g.exps \in Seq(Secret)
      BY <3>3 DEF Point
    <3>6. Roundkey(s)[1] = s /\ Roundkey(s)[2] = epoch[s]
      BY DEF Roundkey
    <3>7. ASSUME NEW j \in DOMAIN g.exps PROVE g.exps[j][2] = epoch[g.exps[j][1]]
      <4>1. \/ j \in DOMAIN m.g.exps /\ g.exps[j] = m.g.exps[j]
            \/ g.exps[j] = Roundkey(s)
        BY <3>4, <3>5, <3>7
      <4> QED
        BY <3>3, <3>6, <4>1
    <3> HIDE DEF g
    <3>8. r.type = "ANNOUNCEMENT" /\ r.g = g
      BY DEF Announcement
    <3> HIDE DEF r
    <3>9. Tells(r)
      BY <3>7, <3>8 DEF Tells
    <3> QED
      BY <1>1, <3>2, <3>9 DEF Reply
  <2> QED
    BY <2>1, <2>2
<1>5. ASSUME NEW s \in Server, NEW m \in net, ServerHandleRoundEnd(s, m)
      PROVE  SecretInv'
  <2> DEFINE known == {e \in Words(m) : e.key \in DOMAIN KeyMap[s]}
             missing == ~ KeysOf(m.entries) \subseteq DOMAIN KeyMap[s]
             r == RoundEnd(PreviousHop[s], Restored(s, known), missing, FALSE)
  <2>1. m \in RoundDatagrams /\ m.type = "ROUND_END" /\ m.to = s
    BY <1>5 DEF ServerHandleRoundEnd, ServerHandles, RoundDatagrams
  <2>2. PICK i \in 0 .. n : m.to = Hop(i) /\ SpentBehind(i)
    BY <2>1 DEF SecretInv, Tells
  <2>3. i \in Places /\ ServerList[i] = s
    <3>1. i \in 0 .. n + 1 /\ Hop(i) \in Server
      BY <1>0, <2>1, <2>2
    <3>2. i \in Places
      BY <3>1, Positions
    <3> QED
      BY <2>1, <2>2, <3>2, Positions
  <2>4. RoundDatagrams = {m} /\ mainPc # "read_ok"
    BY <2>1 DEF PhaseInv, BetweenRounds
  <2>5. PreviousHop[s] = Hop(i - 1)
    BY <2>3, <2>4 DEF LinkedInv, Linked
  <2>6. CASE ServerDies(s, m, "index") \/ ServerDies(s, m, "nil_key")
    BY <1>3, <2>6 DEF ServerStates
  <2>7. CASE ~ (ServerDies(s, m, "index") \/ ServerDies(s, m, "nil_key"))
    <3>1. Reply(m, {r}) /\ epoch' = [epoch EXCEPT ![s] = @ + 1]
      BY <1>5, <2>7 DEF ServerHandleRoundEnd, PickRoundkey
    <3> HIDE DEF missing
    <3>2. r.type = "ROUND_END" /\ r.to = Hop(i - 1)
      BY <2>5 DEF RoundEnd
    <3> HIDE DEF r
    <3>3. RoundDatagrams' \subseteq {r}
      BY <2>4, <3>1 DEF RoundDatagrams, Reply
    <3>4. ASSUME NEW j \in DOMAIN G.exps
          PROVE  /\ G.exps[j] \in Secret
                 /\ G.exps[j][2] <= epoch[G.exps[j][1]]
                 /\ epoch[G.exps[j][1]] <= epoch'[G.exps[j][1]]
                 /\ G.exps[j][1] = s => epoch[s] < epoch'[s]
      <4>1. G.exps[j] \in Secret
        BY <1>0
      <4>2. G.exps[j][1] \in Server
        BY <4>1 DEF Secret
      <4> QED
        BY <1>0, <3>1, <4>1, <4>2 DEF SecretInv
    <3>5. ASSUME NEW j \in DOMAIN G.exps
          PROVE  /\ G.exps[j][2] <= epoch'[G.exps[j][1]]
                 /\ Spent(G.exps[j]) => Spent(G.exps[j])'
                 /\ G.exps[j][1] = s => Spent(G.exps[j])'
      <4>1. /\ G.exps[j][1] \in Server /\ G.exps[j][2] \in Nat
            /\ epoch[G.exps[j][1]] \in Nat /\ epoch'[G.exps[j][1]] \in Nat
        BY <1>0, <3>1, <3>4 DEF Secret
      <4> QED
        BY <1>0, <3>4, <4>1 DEF Spent
    <3>6. Hop(i - 1)' = Hop(i - 1) /\ i - 1 \in 0 .. n
      BY <1>0, <2>3 DEF Hop, Places
    <3>7. SpentBehind(i - 1)'
      <4> SUFFICES ASSUME NEW j \in DOMAIN G.exps, NEW l \in Places, l > i - 1,
                          G.exps[j][1] = ServerList[l]
                   PROVE  Spent(G.exps[j])'
        BY <1>0 DEF SpentBehind, Places
      <4>1. CASE l = i
        BY <2>3, <3>5, <4>1
      <4>2. CASE l > i
        BY <2>2, <3>5, <4>2 DEF SpentBehind
      <4> QED
        BY <1>0, <4>1, <4>2
    <3>8. \A q \in RoundDatagrams' : Tells(q)'
      <4> SUFFICES ASSUME NEW q \in RoundDatagrams' PROVE Tells(q)'
        OBVIOUS
      <4>1. q.type = "ROUND_END" /\ q.to = Hop(i - 1)'
        BY <3>2, <3>3, <3>6
      <4> QED
        BY <1>0, <3>6, <3>7, <4>1 DEF Tells
    <3>9. AllSpent => AllSpent'
      BY <1>0, <3>5 DEF AllSpent
    <3> QED
      BY <1>0, <3>5, <3>8, <3>9 DEF SecretInv
  <2> QED
    BY <2>6, <2>7
<1> QED
  BY <1>2, <1>3, <1>4, <1>5 DEF ServerNext, ServerListenerNext

\* Every step of the system of a careful operator.
LEMMA StepKeepsSecrets ==
    ASSUME Careful, TypeOK, PhaseInv, LinkedInv, ListInv, SecretInv, [Next]_vars
    PROVE  SecretInv'
<1>1. CASE UNCHANGED vars
  BY <1>1, SecretsFrom DEF vars, coordVars, chainVars, serverVars
<1>2. CASE /\ CoordNext \/ ReadOk
           /\ UNCHANGED <<serverVars, clientVars>>
  BY <1>2, MainKeepsSecrets, ListenerKeepsSecrets DEF CoordNext
<1>3. CASE /\ ServerNext \/ \E s \in Server : ServerStart(s)
           /\ UNCHANGED <<coordVars, clientVars>>
  BY <1>3, ServerKeepsSecrets
<1>4. CASE /\ ClientNext \/ \E c \in Client : Register(c)
           /\ UNCHANGED <<coordVars, serverVars>>
  <2>1. ASSUME NEW c \in Client, NEW r \in net', IsRound(r) PROVE Register(c) => r \in net
    BY <2>1, NotOfARound DEF Register, Send
  <2>2. ClientNext => \A r \in net' : IsRound(r) => r \in net
    BY ClientFlow DEF IsFlow
  <2> QED
    BY <1>4, <2>1, <2>2, SecretsFrom DEF coordVars, chainVars, serverVars
<1>5. CASE /\ \E m \in net : net' = net \ {m}
           /\ UNCHANGED <<coordVars, serverVars, clientVars>>
  BY <1>5, SecretsFrom DEF coordVars, chainVars, serverVars
<1> QED
  BY <1>1, <1>2, <1>3, <1>4, <1>5, StepCases

\* Every behaviour of a careful operator keeps SecretInv.
LEMMA SecretsCorrect ==
    ASSUME Careful
    PROVE  Spec => []SecretInv
<1>1. Init => SecretInv
  <2> SUFFICES ASSUME Init PROVE SecretInv
    OBVIOUS
  <2>1. RoundDatagrams = {} /\ G.exps = <<>>
    BY DEF Init, NetInit, CoordInit, RoundDatagrams, StdBase
  <2> QED
    BY <2>1 DEF SecretInv, AllSpent
<1> QED
  BY <1>1, StepKeepsSecrets, ListsCorrect, LinkedCorrect, PhaseCorrect, TypeCorrect, PTL
     DEF Spec

\* The generator under way shares no secret of any server with the one clients
\* use: a server picks another at the end of every round and no announcement
\* passes it before that (AnonServerHandler.go:120 and 164).
THEOREM SecretsAreFresh ==
    ASSUME Careful
    PROVE  Spec => []FreshRoundkeys
<1>1. ASSUME TypeOK, PhaseInv, SecretInv PROVE FreshRoundkeys
  <2> SUFFICES ASSUME NEW m \in RoundDatagrams, m.type = "ANNOUNCEMENT",
                      NEW i \in DOMAIN m.g.exps, NEW j \in DOMAIN G.exps,
                      m.g.exps[i] = G.exps[j]
               PROVE  FALSE
    BY DEF FreshRoundkeys
  <2>1. Status = "ANNOUNCE"
    BY <1>1 DEF PhaseInv
  <2>2. Spent(G.exps[j]) /\ m.g.exps[i][2] = epoch[m.g.exps[i][1]]
    BY <1>1, <2>1 DEF SecretInv, AllSpent, Tells
  <2>3. G.exps[j] \in Secret /\ epoch \in [Server -> Nat]
    BY <1>1 DEF TypeOK, CoordTypeOK, ServerTypeOK, Point
  <2>4. G.exps[j][2] \in Nat /\ epoch[G.exps[j][1]] = G.exps[j][2]
    BY <2>2, <2>3 DEF Secret
  <2> QED
    BY <2>2, <2>4 DEF Spent
<1> QED
  BY <1>1, SecretsCorrect, PhaseCorrect, TypeCorrect, PTL
=============================================================================
