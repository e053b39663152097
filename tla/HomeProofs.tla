------------------------------ MODULE HomeProofs ------------------------------
(***************************************************************************)
(* Lists on a broken chain.  Whatever is lost, delayed or launched late, a *)
(* link is never wrong, only missing; so a list that bypasses servers on   *)
(* one way meets one that cannot decrypt it on the other, and what does    *)
(* come home is whole.                                                     *)
(***************************************************************************)
EXTENDS ChainProofs

\* A server is linked to its neighbours of the list or to the coordinator, and
\* what is under way for it is the truth.
LinksTrue ==
    /\ \A i, j \in Places : ServerList[i] = ServerList[j] => i = j
    /\ \A m \in Topology :
          /\ m.type = "SERVER_REGISTER" =>
                serverState[m.from] # "off" /\ ~ Listed(m.from)
          /\ m.type = "SERVER_REGISTER_REPLY" =>
                \E i \in Places : m.to = ServerList[i] /\ m.prev_server = Hop(i - 1)
          /\ m.type = "UPDATE_NEXT_HOP" =>
                \E i \in Places : /\ i + 1 \in Places
                                  /\ m.to = ServerList[i] /\ m.next_hop = ServerList[i + 1]
    /\ \A s \in Server : ~ Listed(s) => NextHop[s] = Coord /\ PreviousHop[s] = Coord
    /\ \A i \in Places : /\ serverState[ServerList[i]] # "off"
                         /\ NextHop[ServerList[i]] \in {Coord, Hop(i + 1)}
                         /\ PreviousHop[ServerList[i]] \in {Coord, Hop(i - 1)}

\* The links from the first server on lead to the i-th; they will stay.
Reached(i) == \A j \in 1 .. i - 1 : NextHop[ServerList[j]] = ServerList[j + 1]

\* A key that the i-th server and those behind it, up to the l-th, have undone,
\* and its value under the layers of just these.
Wound(k, v, i, l) ==
    i <= l /\ Reached(l) /\ Under(v, i, l) /\ Len(k.exps) = i - 1

\* A key raised to the secrets in g, and its value under the layers of the
\* servers from the i-th on, up to some that g would reach.
Unwinding(k, v, g, i) ==
    /\ k.exps = g.exps
    /\ \E l \in Places : i <= l + 1 /\ Reached(l) /\ Under(v, i, l)

\* What a datagram on the chain says of the servers it has met.
Whole(m) ==
    /\ m.type = "CLIENT_REGISTER_CONTROLLERSIDE" => m.public_key.exps = <<>>
    /\ m.type = "CLIENT_REGISTER_SERVERSIDE" /\ m.to # Coord =>
          \E i \in Places :
             m.to = ServerList[i] /\ Reached(i) /\ Len(m.public_key.exps) = i - 1
    /\ m.type = "ANNOUNCEMENT" =>
          IF m.to = Coord
          THEN \A e \in m.entries : e.val.layers = <<>> /\ e.key.exps = m.g.exps
          ELSE \E i \in Places :
                  /\ m.to = ServerList[i] /\ Reached(i) /\ Len(m.g.exps) = i - 1
                  /\ \A e \in m.entries :
                        IF i = 1 THEN \E h, l \in Places : Wound(e.key, e.val, h, l)
                        ELSE Unwinding(e.key, e.val, m.g, i)
    /\ m.type = "ROUND_END" =>
          IF m.is_start THEN m.to # Coord
          ELSE \A e \in m.entries : \E i, l \in Places :
                  /\ Wound(e.key, e.val, i, l)
                  /\ m.to = Coord \/ (i > 1 /\ m.to = ServerList[i - 1])

\* The i-th server remembers keys that i servers raised.
Remembers(s, k) ==
    \E i \in Places : s = ServerList[i] /\ Reached(i) /\ Len(k.exps) = i

HomeInv ==
    /\ \A m \in net : IsFlow(m) => Whole(m)
    /\ \A k \in DOMAIN ReputationMap : \E i, l \in Places : Wound(k, ReputationMap[k], i, l)
    /\ \A s \in Server : \A k \in DOMAIN KeyMap[s] : Remembers(s, k)

-----------------------------------------------------------------------------
(* The links. *)

\* What the links are made of does not change; datagrams may get lost.
LinksQuiet ==
    /\ UNCHANGED <<ServerList, NextHop, PreviousHop>>
    /\ Topology' \subseteq Topology
    /\ \A s \in Server : serverState[s] # "off" => serverState'[s] # "off"

\* A server is launched.
LEMMA StartKeepsLinks ==
    ASSUME TypeOK, LinksTrue, NEW s \in Server, ServerStart(s), UNCHANGED coordVars
    PROVE  LinksTrue'
<1>1. /\ UNCHANGED <<ServerList, NextHop, PreviousHop>>
      /\ Topology' = Topology \cup {ServerRegister(s)}
      /\ serverState[s] = "off"
      /\ \A t \in Server : serverState'[t] = IF t = s THEN "running" ELSE serverState[t]
  BY DEF ServerStart, Send, Topology, IsTopology, ServerRegister, coordVars,
         chainVars, TypeOK, ServerTypeOK
<1>2. \A i \in Places : ServerList[i] \in Server
  BY Positions
<1>3. ~ Listed(s)
  BY <1>1 DEF Listed, LinksTrue
<1>4. Places' = Places /\ (\A i : Hop(i)' = Hop(i)) /\ (\A t : Listed(t)' = Listed(t))
  BY <1>1 DEF Places, Hop, Listed
<1>5. ServerRegister(s).type = "SERVER_REGISTER" /\ ServerRegister(s).from = s
  BY DEF ServerRegister
<1>6. ASSUME NEW m \in Topology', m.type = "SERVER_REGISTER"
      PROVE  serverState'[m.from] # "off" /\ ~ Listed(m.from)
  <2>1. \A r \in Topology : r.type = "SERVER_REGISTER" => r.from \in Server
    BY SameTopology DEF TypeOK
  <2> QED
    BY <1>1, <1>3, <1>5, <1>6, <2>1 DEF LinksTrue
<1>7. \A i \in Places : serverState'[ServerList[i]] # "off"
  BY <1>1, <1>2 DEF LinksTrue
<1> QED
  BY <1>1, <1>4, <1>5, <1>6, <1>7 DEF LinksTrue

\* The coordinator lists a server.
LEMMA ListingKeepsLinks ==
    ASSUME TypeOK, LinksTrue, NEW m \in net, CoordHandleServerRegister(m),
           UNCHANGED serverVars
    PROVE  LinksTrue'
<1> DEFINE n == Len(ServerList)
           s == m.from
           last == UpdateNextHop(ServerList[n], s)
           reply == ServerRegisterReply(s, Hop(n))
<1>1. m \in Topology /\ m.type = "SERVER_REGISTER" /\ s \in Server
  BY SameTopology DEF CoordHandleServerRegister, Handles, Topology, IsTopology, TypeOK
<1>2. /\ n \in Nat /\ ServerList \in Seq(Server) /\ Places = 1 .. n
      /\ \A i \in Places : ServerList[i] \in Server
      /\ UNCHANGED <<serverState, NextHop, PreviousHop>>
  BY Positions DEF TypeOK, CoordTypeOK, serverVars
<1>3. /\ Places' = 1 .. n + 1
      /\ \A i \in Places : ServerList'[i] = ServerList[i]
      /\ ServerList'[n + 1] = s
  BY <1>1, <1>2 DEF CoordHandleServerRegister, Places
<1>4. \A i \in 0 .. n + 2 : Hop(i)' = IF i = n + 1 THEN s ELSE Hop(i)
  BY <1>2, <1>3 DEF Hop
<1>5. /\ n > 0 => Hop(n) = ServerList[n]
      /\ n = 0 => Hop(n) = Coord
      /\ Hop(n + 1) = Coord
  BY <1>2 DEF Hop
<1>6. ~ Listed(s) /\ NextHop[s] = Coord /\ PreviousHop[s] = Coord /\ serverState[s] # "off"
  BY <1>1 DEF LinksTrue
<1>7. \A t : Listed(t)' <=> Listed(t) \/ t = s
  BY <1>2, <1>3 DEF Listed
<1>8. Topology' = (Topology \ {m}) \cup {reply} \cup (IF n = 0 THEN {} ELSE {last})
  <2>1. Relink(s) = {reply} \cup (IF n = 0 THEN {} ELSE {last})
    BY <1>2, <1>5 DEF Relink, GetLastServer
  <2>2. IsTopology(reply) /\ IsTopology(last)
    BY DEF IsTopology, ServerRegisterReply, UpdateNextHop
  <2>3. net' = (net \ {m}) \cup {reply} \cup (IF n = 0 THEN {} ELSE {last})
    BY <2>1 DEF CoordHandleServerRegister, Reply
  <2> HIDE DEF reply, last
  <2> QED
    BY <2>2, <2>3 DEF Topology, IsTopology
<1>9. /\ reply.type = "SERVER_REGISTER_REPLY" /\ reply.to = s
      /\ reply.prev_server = Hop(n)
      /\ last.type = "UPDATE_NEXT_HOP" /\ last.to = ServerList[n] /\ last.next_hop = s
  BY DEF ServerRegisterReply, UpdateNextHop
<1> HIDE DEF reply, last
<1>10. ASSUME NEW r \in Topology', r.type = "SERVER_REGISTER"
       PROVE  serverState[r.from] # "off" /\ ~ Listed(r.from)'
  <2>1. r \in Topology /\ r # m
    BY <1>8, <1>9, <1>10
  <2>2. r.from # s
    BY <1>1, <1>10, <2>1, SameTopology DEF TypeOK
  <2> QED
    BY <1>7, <1>10, <2>1, <2>2 DEF LinksTrue
<1>11. ASSUME NEW r \in Topology', r.type = "SERVER_REGISTER_REPLY"
       PROVE  \E i \in Places' : r.to = ServerList'[i] /\ r.prev_server = Hop(i - 1)'
  <2>1. CASE r \in Topology
    <3>1. PICK i \in Places : r.to = ServerList[i] /\ r.prev_server = Hop(i - 1)
      BY <1>11, <2>1 DEF LinksTrue
    <3>2. i \in Places' /\ i - 1 \in 0 .. n
      BY <1>2, <1>3
    <3> QED
      BY <1>3, <1>4, <3>1, <3>2
  <2>2. CASE r = reply
    <3>1. PICK i \in Places' : i = n + 1
      BY <1>2, <1>3
    <3>2. i - 1 = n /\ i - 1 \in 0 .. n + 2 /\ n # n + 1
      BY <1>2, <3>1
    <3>3. Hop(i - 1)' = Hop(n)
      BY <1>4, <3>2
    <3> QED
      BY <1>3, <1>9, <2>2, <3>1, <3>3
  <2> QED
    BY <1>8, <1>9, <1>11, <2>1, <2>2
<1>12. ASSUME NEW r \in Topology', r.type = "UPDATE_NEXT_HOP"
       PROVE  \E i \in Places' : /\ i + 1 \in Places'
                                 /\ r.to = ServerList'[i]
                                 /\ r.next_hop = ServerList'[i + 1]
  <2>1. CASE r \in Topology
    <3>1. PICK i \in Places : /\ i + 1 \in Places /\ r.to = ServerList[i]
                              /\ r.next_hop = ServerList[i + 1]
      BY <1>12, <2>1 DEF LinksTrue
    <3>2. i \in Places' /\ i + 1 \in Places'
      BY <1>2, <1>3, <3>1
    <3> QED
      BY <1>3, <3>1, <3>2
  <2>2. CASE r = last /\ n # 0
    <3>1. n \in Places /\ n \in Places' /\ n + 1 \in Places'
      BY <1>2, <1>3, <2>2
    <3> QED
      BY <1>3, <1>9, <2>2, <3>1
  <2> QED
    BY <1>8, <1>9, <1>12, <2>1, <2>2
<1>13. ASSUME NEW i \in Places'
       PROVE  /\ serverState[ServerList'[i]] # "off"
              /\ NextHop[ServerList'[i]] \in {Coord, Hop(i + 1)'}
              /\ PreviousHop[ServerList'[i]] \in {Coord, Hop(i - 1)'}
  <2>1. CASE i \in Places
    <3>1. i - 1 \in 0 .. n + 2 /\ i + 1 \in 0 .. n + 2 /\ i - 1 # n + 1
      BY <1>2, <2>1
    <3>2. Hop(i + 1) \in {Coord, Hop(i + 1)'} /\ Hop(i - 1)' = Hop(i - 1)
      BY <1>4, <1>5, <3>1
    <3> QED
      BY <1>3, <2>1, <3>2 DEF LinksTrue
  <2>2. CASE i = n + 1
    BY <1>3, <1>6, <2>2
  <2> QED
    BY <1>2, <1>3, <2>1, <2>2
<1>14. \A i, j \in Places' : ServerList'[i] = ServerList'[j] => i = j
  <2>1. \A i \in Places : ServerList[i] # s
    BY <1>6 DEF Listed
  <2>2. \A i \in Places' : i \in Places \/ i = n + 1
    BY <1>2, <1>3
  <2> QED
    BY <1>3, <2>1, <2>2 DEF LinksTrue
<1>15. \A t \in Server : ~ Listed(t)' => NextHop[t] = Coord /\ PreviousHop[t] = Coord
  BY <1>7 DEF LinksTrue
<1> QED
  BY <1>2, <1>10, <1>11, <1>12, <1>13, <1>14, <1>15 DEF LinksTrue

\* A server learns who is before it, or who is behind it.
LEMMA LearningKeepsLinks ==
    ASSUME TypeOK, LinksTrue, NEW s \in Server, NEW m \in net,
           ServerHandleRegisterReply(s, m) \/ ServerHandleUpdateNextHop(s, m),
           UNCHANGED coordVars
    PROVE  LinksTrue'
<1>1. /\ UNCHANGED <<ServerList, serverState>> /\ Topology' \subseteq Topology
      /\ m \in Topology /\ m.to = s
      /\ NextHop \in [Server -> Server \cup {Coord}]
      /\ PreviousHop \in [Server -> Server \cup {Coord}]
  BY DEF ServerHandleRegisterReply, ServerHandleUpdateNextHop, ServerHandles, Reply,
         Topology, IsTopology, coordVars, chainVars, TypeOK, ServerTypeOK
<1>2. Places' = Places /\ (\A i : Hop(i)' = Hop(i)) /\ (\A t : Listed(t)' = Listed(t))
  BY <1>1 DEF Places, Hop, Listed
<1>3. \A i \in Places : ServerList[i] \in Server /\ Hop(i) = ServerList[i]
  BY Positions
<1>4. /\ \A i \in Places : /\ NextHop'[ServerList[i]] \in {Coord, Hop(i + 1)}
                           /\ PreviousHop'[ServerList[i]] \in {Coord, Hop(i - 1)}
      /\ \A t \in Server : ~ Listed(t) => NextHop'[t] = Coord /\ PreviousHop'[t] = Coord
  <2>1. CASE ServerHandleRegisterReply(s, m)
    <3>1. /\ NextHop' = NextHop
          /\ PreviousHop' = [PreviousHop EXCEPT ![s] = m.prev_server]
          /\ m.type = "SERVER_REGISTER_REPLY"
      BY <2>1 DEF ServerHandleRegisterReply, ServerHandles
    <3>2. PICK h \in Places : s = ServerList[h] /\ m.prev_server = Hop(h - 1)
      BY <1>1, <3>1 DEF LinksTrue
    <3>3. \A i \in Places : ServerList[i] = s => i = h
      BY <3>2 DEF LinksTrue
    <3> QED
      BY <1>1, <1>3, <3>1, <3>2, <3>3 DEF LinksTrue, Listed
  <2>2. CASE ServerHandleUpdateNextHop(s, m)
    <3>1. /\ PreviousHop' = PreviousHop
          /\ NextHop' = [NextHop EXCEPT ![s] = m.next_hop]
          /\ m.type = "UPDATE_NEXT_HOP"
      BY <2>2 DEF ServerHandleUpdateNextHop, ServerHandles
    <3>2. PICK h \in Places : /\ s = ServerList[h] /\ h + 1 \in Places
                              /\ m.next_hop = ServerList[h + 1]
      BY <1>1, <3>1 DEF LinksTrue
    <3>3. /\ \A i \in Places : ServerList[i] = s => i = h
          /\ m.next_hop = Hop(h + 1)
      BY <1>3, <3>2 DEF LinksTrue
    <3> QED
      BY <1>1, <1>3, <3>1, <3>2, <3>3 DEF LinksTrue, Listed
  <2> QED
    BY <2>1, <2>2
<1> QED
  BY <1>1, <1>2, <1>4 DEF LinksTrue

\* The steps that touch the links.
LEMMA LinkCases ==
    ASSUME TypeOK, [Next]_vars, ~ LinksQuiet
    PROVE  \/ \E s \in Server : ServerStart(s) /\ UNCHANGED coordVars
           \/ /\ \E m \in net : CoordHandleServerRegister(m)
              /\ UNCHANGED serverVars
           \/ /\ \E s \in Server, m \in net : \/ ServerHandleRegisterReply(s, m)
                                              \/ ServerHandleUpdateNextHop(s, m)
              /\ UNCHANGED coordVars
<1>1. ~ ChainQuiet
  BY DEF ChainQuiet, LinksQuiet
<1>2. ~ NetStep
  BY DEF NetStep, Lose, LinksQuiet, Topology, coordVars, chainVars, serverVars
<1>3. Next
  BY DEF vars, LinksQuiet, coordVars, chainVars, serverVars, Topology
<1> QED
  BY <1>1, <1>2, <1>3, ChainCases DEF LaunchServer

\* No step sets a link wrong.
LEMMA StepKeepsLinks ==
    ASSUME TypeOK, LinksTrue, [Next]_vars
    PROVE  LinksTrue'
<1>1. CASE LinksQuiet
  <2>1. Places' = Places /\ (\A i : Hop(i)' = Hop(i)) /\ (\A t : Listed(t)' = Listed(t))
    BY <1>1 DEF Places, Hop, Listed, LinksQuiet
  <2>2. \A i \in Places : ServerList[i] \in Server
    BY Positions
  <2>3. \A m \in Topology : m.type = "SERVER_REGISTER" => m.from \in Server
    BY SameTopology DEF TypeOK
  <2>4. /\ UNCHANGED <<ServerList, NextHop, PreviousHop>> /\ Topology' \subseteq Topology
        /\ \A s \in Server : serverState[s] # "off" => serverState'[s] # "off"
    BY <1>1 DEF LinksQuiet
  <2> QED
    BY <2>1, <2>2, <2>3, <2>4 DEF LinksTrue
<1>2. CASE ~ LinksQuiet
  BY <1>2, LinkCases, StartKeepsLinks, ListingKeepsLinks, LearningKeepsLinks
<1> QED
  BY <1>1, <1>2

LEMMA LinksCorrect == Spec => []LinksTrue
<1>1. Init => LinksTrue
  <2> SUFFICES ASSUME Init PROVE LinksTrue
    OBVIOUS
  <2>1. Places = {} /\ Topology = {}
    BY DEF Init, NetInit, CoordInit, Places, Topology
  <2> QED
    BY <2>1 DEF LinksTrue, Init, ServerInit
<1> QED
  BY <1>1, StepKeepsLinks, TypeCorrect, PTL DEF Spec

\* The list of servers only grows, and what is linked stays linked.
Onward ==
    \A i \in Places : /\ i \in Places' /\ ServerList'[i] = ServerList[i]
                      /\ Reached(i) => Reached(i)'

LEMMA StepIsOnward ==
    ASSUME TypeOK, LinksTrue, [Next]_vars
    PROVE  Onward
<1>0. /\ Len(ServerList) \in Nat /\ Places = 1 .. Len(ServerList)
      /\ \A i \in Places : ServerList[i] \in Server
  BY Positions
<1>1. ASSUME UNCHANGED <<ServerList, NextHop>> PROVE Onward
  BY <1>1 DEF Onward, Reached, Places
<1>2. ASSUME NEW m \in net, CoordHandleServerRegister(m), UNCHANGED serverVars
      PROVE  Onward
  <2>1. ServerList' = Append(ServerList, m.from) /\ m.from \in Server
        /\ ServerList \in Seq(Server) /\ NextHop' = NextHop
    <3>1. m \in Topology /\ m.type = "SERVER_REGISTER"
      BY <1>2 DEF CoordHandleServerRegister, Handles, Topology, IsTopology
    <3> QED
      BY <1>2, <3>1, SameTopology DEF CoordHandleServerRegister, serverVars, TypeOK, CoordTypeOK
  <2>2. \A i \in Places : i \in Places' /\ ServerList'[i] = ServerList[i]
    BY <1>0, <2>1 DEF Places
  <2>3. ASSUME NEW i \in Places, Reached(i), NEW j \in 1 .. i - 1
        PROVE  NextHop'[ServerList'[j]] = ServerList'[j + 1]
    <3>1. j \in Places /\ j + 1 \in Places
      BY <1>0
    <3> QED
      BY <2>1, <2>2, <2>3, <3>1 DEF Reached
  <2> QED
    BY <2>2, <2>3 DEF Onward, Reached
<1>3. ASSUME NEW s \in Server, NEW m \in net, ServerHandleUpdateNextHop(s, m),
             UNCHANGED coordVars
      PROVE  Onward
  <2>1. /\ ServerList' = ServerList /\ Places' = Places
        /\ m \in Topology /\ m.type = "UPDATE_NEXT_HOP" /\ m.to = s
        /\ NextHop' = [NextHop EXCEPT ![s] = m.next_hop]
        /\ NextHop \in [Server -> Server \cup {Coord}]
    BY <1>3 DEF ServerHandleUpdateNextHop, ServerHandles, Topology, IsTopology,
         coordVars, chainVars, Places, TypeOK, ServerTypeOK
  <2>2. PICK h \in Places : s = ServerList[h] /\ m.next_hop = ServerList[h + 1]
    BY <2>1 DEF LinksTrue
  <2>3. \A i \in Places : ServerList[i] = s => i = h
    BY <2>2 DEF LinksTrue
  <2>4. ASSUME NEW i \in Places, Reached(i), NEW j \in 1 .. i - 1
        PROVE  NextHop'[ServerList[j]] = ServerList[j + 1]
    <3>1. j \in Places /\ NextHop[ServerList[j]] = ServerList[j + 1]
      BY <1>0, <2>4 DEF Reached
    <3> QED
      BY <1>0, <2>1, <2>2, <2>3, <3>1
  <2> QED
    BY <2>1, <2>4 DEF Onward, Reached
<1>4. CASE LinksQuiet
  BY <1>1, <1>4 DEF LinksQuiet
<1>5. CASE ~ LinksQuiet
  <2>1. ASSUME NEW s \in Server, ServerStart(s), UNCHANGED coordVars
        PROVE  Onward
    BY <1>1, <2>1 DEF ServerStart, coordVars, chainVars
  <2>2. ASSUME NEW s \in Server, NEW m \in net, ServerHandleRegisterReply(s, m),
               UNCHANGED coordVars
        PROVE  Onward
    BY <1>1, <2>2 DEF ServerHandleRegisterReply, coordVars, chainVars
  <2> QED
    BY <1>2, <1>3, <1>5, <2>1, <2>2, LinkCases
<1> QED
  BY <1>4, <1>5

-----------------------------------------------------------------------------
(* The lists. *)

\* What was true of a key, a value or a datagram stays true.
LEMMA WoundStays ==
    ASSUME TypeOK, Onward
    PROVE  /\ \A k, v : \A i, l \in Places : Wound(k, v, i, l) => Wound(k, v, i, l)'
           /\ \A k, v, g : \A i \in Places : Unwinding(k, v, g, i) => Unwinding(k, v, g, i)'
           /\ \A s, k : Remembers(s, k) => Remembers(s, k)'
<1>1. Len(ServerList) \in Nat /\ Places = 1 .. Len(ServerList)
  BY Positions
<1>2. ASSUME NEW v, NEW i \in Places, NEW l \in Places, Under(v, i, l)
      PROVE  Under(v, i, l)'
  <2>1. \A j \in 1 .. l + 1 - i : l + 1 - j \in Places
    BY <1>1
  <2> QED
    BY <1>2, <2>1 DEF Under, Onward
<1>3. \A k, v : \A i, l \in Places : Wound(k, v, i, l) => Wound(k, v, i, l)'
  BY <1>2 DEF Wound, Onward
<1>4. \A k, v, g : \A i \in Places : Unwinding(k, v, g, i) => Unwinding(k, v, g, i)'
  BY <1>2 DEF Unwinding, Onward
<1>5. \A s, k : Remembers(s, k) => Remembers(s, k)'
  BY DEF Remembers, Onward
<1> QED
  BY <1>3, <1>4, <1>5

LEMMA WholeStays ==
    ASSUME TypeOK, Onward, NEW m, Whole(m)
    PROVE  Whole(m)'
<1>1. Places = 1 .. Len(ServerList) /\ Len(ServerList) \in Nat
  BY Positions
<1>2. ASSUME m.type = "CLIENT_REGISTER_SERVERSIDE", m.to # Coord
      PROVE  \E i \in Places' : /\ m.to = ServerList'[i] /\ Reached(i)'
                                /\ Len(m.public_key.exps) = i - 1
  BY <1>2 DEF Whole, Onward
<1>3. ASSUME m.type = "ANNOUNCEMENT", m.to # Coord
      PROVE  \E i \in Places' :
                /\ m.to = ServerList'[i] /\ Reached(i)' /\ Len(m.g.exps) = i - 1
                /\ \A e \in m.entries :
                      IF i = 1 THEN \E h, l \in Places' : Wound(e.key, e.val, h, l)'
                      ELSE Unwinding(e.key, e.val, m.g, i)'
  <2>1. PICK i \in Places :
            /\ m.to = ServerList[i] /\ Reached(i) /\ Len(m.g.exps) = i - 1
            /\ \A e \in m.entries :
                  IF i = 1 THEN \E h, l \in Places : Wound(e.key, e.val, h, l)
                  ELSE Unwinding(e.key, e.val, m.g, i)
    BY <1>3 DEF Whole
  <2>2. \A e \in m.entries : IF i = 1 THEN \E h, l \in Places' : Wound(e.key, e.val, h, l)'
                             ELSE Unwinding(e.key, e.val, m.g, i)'
    BY <2>1, WoundStays DEF Onward
  <2> QED
    BY <2>1, <2>2 DEF Onward
<1>4. ASSUME m.type = "ROUND_END", ~ m.is_start, NEW e \in m.entries
      PROVE  \E i, l \in Places' : /\ Wound(e.key, e.val, i, l)'
                                   /\ m.to = Coord \/ (i > 1 /\ m.to = ServerList'[i - 1])
  <2>1. PICK i \in Places, l \in Places :
            /\ Wound(e.key, e.val, i, l)
            /\ m.to = Coord \/ (i > 1 /\ m.to = ServerList[i - 1])
    BY <1>4 DEF Whole
  <2>2. i > 1 => i - 1 \in Places
    BY <1>1
  <2> QED
    BY <2>1, <2>2, WoundStays DEF Onward
<1>5. /\ m.type = "CLIENT_REGISTER_CONTROLLERSIDE" => m.public_key.exps = <<>>
      /\ m.type = "ANNOUNCEMENT" /\ m.to = Coord =>
            \A e \in m.entries : e.val.layers = <<>> /\ e.key.exps = m.g.exps
      /\ m.type = "ROUND_END" /\ m.is_start => m.to # Coord
  BY DEF Whole
<1> QED
  BY <1>2, <1>3, <1>4, <1>5 DEF Whole

\* A step is harmless if what it sends and stores is whole.
LEMMA HomeFrom ==
    ASSUME TypeOK, HomeInv, Onward,
           \A r \in net' : IsFlow(r) => r \in net \/ Whole(r),
           \A k \in DOMAIN ReputationMap' :
              \E i, l \in Places : Wound(k, ReputationMap'[k], i, l),
           \A s \in Server : \A k \in DOMAIN KeyMap'[s] : Remembers(s, k)
    PROVE  HomeInv'
<1>1. \A r \in net' : IsFlow(r) => Whole(r)'
  BY WholeStays DEF HomeInv
<1>2. ASSUME NEW k \in DOMAIN ReputationMap'
      PROVE  \E i, l \in Places' : Wound(k, ReputationMap[k], i, l)'
  <2>1. PICK i \in Places, l \in Places : Wound(k, ReputationMap'[k], i, l)
    BY <1>2
  <2>2. Wound(k, ReputationMap[k], i, l)'
    BY <2>1, WoundStays
  <2> QED
    BY <2>2 DEF Onward
<1>3. \A s \in Server : \A k \in DOMAIN KeyMap'[s] : Remembers(s, k)'
  BY WoundStays
<1> QED
  BY <1>1, <1>2, <1>3 DEF HomeInv

\* main: what it announces goes to the first server.
LEMMA MainKeepsHome ==
    ASSUME TypeOK, HomeInv, Onward, MainNext \/ ReadOk, UNCHANGED serverVars
    PROVE  HomeInv'
<1>1. UNCHANGED <<ReputationMap, KeyMap>>
  BY DEF MainNext, ReadOk, AwaitReady, ClearBuffer, CheckReady, Announce, AwaitMessage,
         BeginVote, Vote, AddNewClients, SendRoundEnd, mapVars, serverVars
<1>2. ASSUME \A r \in net' : IsFlow(r) => r \in net \/ Whole(r)
      PROVE  HomeInv'
  BY <1>1, <1>2, HomeFrom DEF HomeInv
<1>3. CASE Announce
  <2> DEFINE list == {[key |-> k, val |-> ReputationMap[k]] : k \in DOMAIN ReputationMap}
             r == Announcement(GetFirstServer, list, StdBase)
  <2>1. CASE ServerList = <<>>
    BY <1>2, <1>3, <2>1 DEF Announce, SkipAnnouncement
  <2>2. CASE ServerList # <<>>
    <3>1. net' = net \cup {r}
      BY <1>3, <2>2 DEF Announce, Send
    <3>2. /\ 1 \in Places /\ GetFirstServer = ServerList[1] /\ GetFirstServer # Coord
          /\ Reached(1)
      BY <2>2, Positions, AddressAssumption
         DEF TypeOK, CoordTypeOK, GetFirstServer, Reached
    <3>3. \A e \in list : \E h, l \in Places : Wound(e.key, e.val, h, l)
      BY DEF HomeInv
    <3> HIDE DEF list
    <3>4. /\ r.type = "ANNOUNCEMENT" /\ r.to = GetFirstServer /\ r.entries = list
          /\ r.g.exps = <<>>
      BY DEF Announcement, StdBase
    <3> HIDE DEF r
    <3>5. Whole(r)
      BY <3>2, <3>3, <3>4 DEF Whole
    <3> QED
      BY <1>2, <3>1, <3>5
  <2> QED
    BY <2>1, <2>2
<1>4. CASE SendRoundEnd
  <2> DEFINE nil == DOMAIN DecryptedReputationMap \ DecryptedKeysMap
             list == {[key |-> k, val |-> Plain(DecryptedReputationMap[k])] :
                        k \in DOMAIN DecryptedReputationMap \cap DecryptedKeysMap}
             r == RoundEnd(lastServer, list, nil # {}, TRUE)
  <2>1. net' = net \cup {r}
    BY <1>4 DEF SendRoundEnd, Send
  <2>2. lastServer # Coord
    BY <1>4, AddressAssumption DEF SendRoundEnd, MainAt, TypeOK, CoordTypeOK
  <2> HIDE DEF list, nil
  <2>3. r.type = "ROUND_END" /\ r.to = lastServer /\ r.is_start = TRUE
    BY DEF RoundEnd
  <2> HIDE DEF r
  <2>4. Whole(r)
    BY <2>2, <2>3 DEF Whole
  <2> QED
    BY <1>2, <2>1, <2>4
<1>5. CASE Vote
  BY <1>2, <1>5, NotFlow DEF Vote, Send
<1>6. CASE ~ Announce /\ ~ SendRoundEnd /\ ~ Vote
  <2>1. net' = net
    BY <1>6 DEF MainNext, ReadOk, AwaitReady, ClearBuffer, CheckReady, AwaitMessage,
         BeginVote, AddNewClients
  <2> QED
    BY <1>2, <2>1
<1> QED
  BY <1>3, <1>4, <1>5, <1>6

\* The listener: what it stores at the end of a round was undone by its servers.
LEMMA ListenerKeepsHome ==
    ASSUME TypeOK, HomeInv, Onward, ListenerNext, UNCHANGED serverVars
    PROVE  HomeInv'
<1>0. UNCHANGED KeyMap /\ ClientAddrs \subseteq Addr
  BY CoordHelperTypes DEF serverVars, TypeOK, CoordTypeOK
<1>1. ASSUME \A r \in net' : IsFlow(r) => r \in net \/ Whole(r), UNCHANGED ReputationMap
      PROVE  HomeInv'
  BY <1>0, <1>1, HomeFrom DEF HomeInv
<1>2. ASSUME NEW m \in net, NEW cause, CoordDies(m, cause)
      PROVE  HomeInv'
  BY <1>1, <1>2 DEF CoordDies, Reply, mapVars
<1>3. ASSUME NEW m \in net, CoordHandleServerRegister(m)
      PROVE  HomeInv'
  BY <1>1, <1>3, NotFlow DEF CoordHandleServerRegister, Relink, Reply, mapVars
<1>4. ASSUME NEW m \in net, CoordHandleClientRegisterControllerSide(m)
      PROVE  HomeInv'
  <2>1. CASE DiesOfRace(m, "vote")
    BY <1>2, <2>1 DEF DiesOfRace
  <2>2. CASE ~ DiesOfRace(m, "vote")
    <3> DEFINE r == ClientRegisterServerSide(GetFirstServer, m.public_key, m.from)
    <3>1. m.public_key.exps = <<>>
      BY <1>4 DEF CoordHandleClientRegisterControllerSide, Handles, HomeInv, IsFlow, Whole
    <3>2. net' \subseteq net \/ (ServerList # <<>> /\ net' \subseteq net \cup {r})
      BY <1>4, <2>2 DEF CoordHandleClientRegisterControllerSide, Reply, mapVars
    <3>3. UNCHANGED ReputationMap
      BY <1>4, <2>2 DEF CoordHandleClientRegisterControllerSide, mapVars
    <3>4. ServerList # <<>> => Whole(r)
      <4>1. ServerList # <<>> => 1 \in Places /\ Reached(1) /\ GetFirstServer = ServerList[1]
        BY Positions DEF TypeOK, CoordTypeOK, GetFirstServer, Reached
      <4>2. /\ r.type = "CLIENT_REGISTER_SERVERSIDE" /\ r.public_key = m.public_key
            /\ r.to = GetFirstServer
        BY DEF ClientRegisterServerSide
      <4> HIDE DEF r
      <4> QED
        BY <3>1, <4>1, <4>2 DEF Whole
    <3> HIDE DEF r
    <3> QED
      BY <1>1, <3>2, <3>3, <3>4
  <2> QED
    BY <2>1, <2>2
<1>5. ASSUME NEW m \in net, CoordHandleClientRegisterServerSide(m)
      PROVE  HomeInv'
  <2>1. CASE DiesOfRace(m, "round_end")
    BY <1>2, <2>1 DEF DiesOfRace
  <2>2. CASE ~ DiesOfRace(m, "round_end")
    BY <1>1, <1>5, <2>2, NotFlow
       DEF CoordHandleClientRegisterServerSide, Reply, Confirm, mapVars
  <2> QED
    BY <2>1, <2>2
<1>6. ASSUME NEW m \in net, CoordHandleAnnouncement(m)
      PROVE  HomeInv'
  BY <1>0, <1>1, <1>6, NotFlow
     DEF CoordHandleAnnouncement, FinishEmptyList, FinishAnnouncement, Reply, mapVars
<1>7. ASSUME NEW m \in net, CoordHandleMsg(m)
      PROVE  HomeInv'
  <2>1. CASE \E cause : CoordDies(m, cause)
    BY <1>2, <2>1
  <2>2. CASE ~ \E cause : CoordDies(m, cause)
    BY <1>1, <1>7, <2>2, NotFlow DEF CoordHandleMsg, DiesOfRace, Reply, coordVars, mapVars
  <2> QED
    BY <2>1, <2>2
<1>8. ASSUME NEW m \in net, CoordHandleVote(m)
      PROVE  HomeInv'
  <2>1. CASE \E cause : CoordDies(m, cause)
    BY <1>2, <2>1
  <2>2. CASE ~ \E cause : CoordDies(m, cause)
    BY <1>1, <1>8, <2>2, NotFlow DEF CoordHandleVote, DiesOfRace, Reply, coordVars, mapVars
  <2> QED
    BY <2>1, <2>2
<1>9. ASSUME NEW m \in net, CoordHandleRoundEnd(m)
      PROVE  HomeInv'
  <2>1. m.type = "ROUND_END" /\ m.to = Coord /\ ReputationMap' = MapOf(m.entries)
    BY <1>9 DEF CoordHandleRoundEnd, Handles
  <2>2. \A e \in m.entries : \E i, l \in Places : Wound(e.key, e.val, i, l)
    BY <2>1 DEF HomeInv, IsFlow, IsRound, Whole
  <2>3. ASSUME NEW k \in DOMAIN ReputationMap'
        PROVE  \E i, l \in Places : Wound(k, ReputationMap'[k], i, l)
    <3>1. PICK e \in m.entries : e.key = k /\ ReputationMap'[k] = e.val
      BY <2>1, <2>3 DEF MapOf, KeysOf
    <3> QED
      BY <2>2, <3>1
  <2>4. \A r \in net' : IsFlow(r) => r \in net
    BY <1>0, <1>9, NotFlow DEF CoordHandleRoundEnd, Reply
  <2> QED
    BY <1>0, <2>3, <2>4, HomeFrom DEF HomeInv
<1>10. CASE CoordRoundEndAwake
  BY <1>1, <1>10 DEF CoordRoundEndAwake, mapVars
<1> QED
  BY <1>3, <1>4, <1>5, <1>6, <1>7, <1>8, <1>9, <1>10 DEF ListenerNext

\* Raised by one more server, a key has one more secret.
LEMMA OneSecretMore ==
    ASSUME NEW p \in Point, NEW s \in Server, TypeOK
    PROVE  /\ Mul(p, Roundkey(s)).exps = Append(p.exps, Roundkey(s))
           /\ Len(p.exps) \in Nat /\ Len(Mul(p, Roundkey(s)).exps) = Len(p.exps) + 1
<1>1. p.exps \in Seq(Secret) /\ Mul(p, Roundkey(s)).exps = Append(p.exps, Roundkey(s))
  BY DEF Point, Mul
<1>2. Roundkey(s) \in Secret
  BY DEF Roundkey, Secret, TypeOK, ServerTypeOK
<1> QED
  BY <1>1, <1>2

\* A server: who can take off the next layer is the next to undo the key.
LEMMA ServerKeepsHome ==
    ASSUME TypeOK, KeyMapMatchesRoundkey, LinksTrue, HomeInv, Onward, ServerNext,
           UNCHANGED coordVars
    PROVE  HomeInv'
<1> DEFINE n == Len(ServerList)
<1>0. /\ UNCHANGED ReputationMap
      /\ n \in Nat /\ Places = 1 .. n
      /\ \A i \in Places : ServerList[i] \in Server /\ ServerList[i] # Coord
                           /\ Hop(i) = ServerList[i]
      /\ Hop(0) = Coord
  BY Positions, AddressAssumption DEF coordVars, mapVars, Hop
<1>1. ASSUME \A r \in net' : IsFlow(r) => r \in net \/ Whole(r),
             \A s \in Server : \A k \in DOMAIN KeyMap'[s] : Remembers(s, k)
      PROVE  HomeInv'
  BY <1>0, <1>1, HomeFrom DEF HomeInv
<1>2. ASSUME UNCHANGED KeyMap, NEW m \in net, Reply(m, {})
      PROVE  HomeInv'
  BY <1>1, <1>2 DEF Reply, HomeInv
<1>3. ASSUME NEW i \in Places
      PROVE  /\ NextHop[ServerList[i]] # Coord =>
                   i + 1 \in Places /\ NextHop[ServerList[i]] = ServerList[i + 1]
             /\ Reached(i) /\ NextHop[ServerList[i]] # Coord => Reached(i + 1)
  <2>1. ASSUME NextHop[ServerList[i]] # Coord
        PROVE  i + 1 \in Places /\ NextHop[ServerList[i]] = ServerList[i + 1]
    BY <1>0, <2>1 DEF LinksTrue, Hop
  <2>2. ASSUME Reached(i), NextHop[ServerList[i]] # Coord
        PROVE  Reached(i + 1)
    <3>1. \A j \in 1 .. i + 1 - 1 : j \in 1 .. i - 1 \/ j = i
      BY <1>0
    <3>2. /\ \A j \in 1 .. i - 1 : NextHop[ServerList[j]] = ServerList[j + 1]
          /\ NextHop[ServerList[i]] = ServerList[i + 1]
      BY <2>1, <2>2 DEF Reached
    <3> QED
      BY <1>0, <3>1, <3>2 DEF Reached
  <2> QED
    BY <2>1, <2>2
<1>4. ASSUME NEW s \in Server, NEW i \in Places, s = ServerList[i], Reached(i),
             NEW sources \in SUBSET Point, \A k \in sources : Len(k.exps) = i - 1,
             KeyMap' = [KeyMap EXCEPT ![s] = Recorded(s, sources)]
      PROVE  \A t \in Server : \A k \in DOMAIN KeyMap'[t] : Remembers(t, k)
  <2>1. ASSUME NEW t \in Server, NEW k \in DOMAIN KeyMap'[t]
        PROVE  k \in DOMAIN KeyMap[t] \/ (t = s /\ \E p \in sources : k = Mul(p, Roundkey(s)))
    BY <1>4 DEF Recorded, TypeOK, ServerTypeOK
  <2>2. \A p \in sources : Len(Mul(p, Roundkey(s)).exps) = i
    BY <1>0, <1>4, OneSecretMore
  <2> QED
    BY <1>4, <2>1, <2>2 DEF HomeInv, Remembers
<1>5. ASSUME NEW s \in Server, ServerGivesUp(s)
      PROVE  HomeInv'
  BY <1>1, <1>5 DEF ServerGivesUp, HomeInv
<1>6. ASSUME NEW s \in Server, NEW m \in net,
             ServerHandleRegisterReply(s, m) \/ ServerHandleUpdateNextHop(s, m)
      PROVE  HomeInv'
  BY <1>2, <1>6 DEF ServerHandleRegisterReply, ServerHandleUpdateNextHop
<1>7. ASSUME NEW s \in Server, NEW m \in net, ServerHandleClientRegister(s, m)
      PROVE  HomeInv'
  <2> DEFINE key == Mul(m.public_key, Roundkey(s))
             r == ClientRegisterServerSide(NextHop[s], key, m.addr)
  <2>1. /\ m.type = "CLIENT_REGISTER_SERVERSIDE" /\ m.to = s /\ Reply(m, {r})
        /\ KeyMap' = [KeyMap EXCEPT ![s] = Recorded(s, {m.public_key})]
    BY <1>7 DEF ServerHandleClientRegister, ServerHandles
  <2>2. m.public_key \in Point /\ s # Coord
    BY <2>1, AtServer, AddressAssumption DEF TypeOK
  <2>3. PICK i \in Places : s = ServerList[i] /\ Reached(i) /\ Len(m.public_key.exps) = i - 1
    BY <2>1, <2>2 DEF HomeInv, IsFlow, Whole
  <2>4. Len(key.exps) = i + 1 - 1
    BY <1>0, <2>2, <2>3, OneSecretMore
  <2> HIDE DEF key
  <2>5. r.type = "CLIENT_REGISTER_SERVERSIDE" /\ r.to = NextHop[s] /\ r.public_key = key
    BY DEF ClientRegisterServerSide
  <2> HIDE DEF r
  <2>6. Whole(r)
    <3>1. SUFFICES ASSUME NextHop[s] # Coord PROVE Whole(r)
      BY <2>5 DEF Whole
    <3>2. PICK h \in Places : h = i + 1
      BY <1>3, <2>3, <3>1
    <3>3. NextHop[s] = ServerList[h] /\ Reached(h) /\ Len(key.exps) = h - 1
      BY <1>3, <2>3, <2>4, <3>1, <3>2
    <3> QED
      BY <2>5, <3>3 DEF Whole
  <2>7. \A q \in net' : IsFlow(q) => q \in net \/ Whole(q)
    BY <2>1, <2>6 DEF Reply
  <2>8. \A t \in Server : \A k \in DOMAIN KeyMap'[t] : Remembers(t, k)
    <3>1. PICK sources \in SUBSET Point : sources = {m.public_key}
      BY <2>2
    <3>2. \A k \in sources : Len(k.exps) = i - 1
      BY <2>3, <3>1
    <3>3. KeyMap' = [KeyMap EXCEPT ![s] = Recorded(s, sources)]
      BY <2>1, <3>1
    <3> QED
      BY <1>4, <2>3, <3>2, <3>3
  <2> QED
    BY <1>1, <2>7, <2>8
<1>8. ASSUME NEW s \in Server, NEW m \in net, ServerHandleAnnouncement(s, m)
      PROVE  HomeInv'
  <2> DEFINE list == Raised(s, m.entries)
             g == RaisedG(s, m.g)
             r == Announcement(NextHop[s], list, g)
  <2>1. m.type = "ANNOUNCEMENT" /\ m.to = s /\ IsFlow(m)
    BY <1>8 DEF ServerHandleAnnouncement, ServerHandles, IsFlow, IsRound
  <2>2. m.entries \subseteq Entry /\ m.g \in Point /\ s # Coord
    BY <2>1, AtServer, AddressAssumption DEF TypeOK
  <2>3. PICK i \in Places :
            /\ s = ServerList[i] /\ Reached(i) /\ Len(m.g.exps) = i - 1
            /\ \A e \in m.entries :
                  IF i = 1 THEN \E h, l \in Places : Wound(e.key, e.val, h, l)
                  ELSE Unwinding(e.key, e.val, m.g, i)
    BY <2>1, <2>2 DEF HomeInv, Whole
  <2>4. CASE \E e \in m.entries : ~ CanDecrypt(e.val, s)
    BY <1>2, <1>8, <2>4 DEF ServerHandleAnnouncement, ServerDies
  <2>5. CASE \A e \in m.entries : CanDecrypt(e.val, s)
    <3>1. ASSUME NEW e \in m.entries
          PROVE  /\ e.key.exps = m.g.exps
                 /\ \E l \in Places : i <= l /\ Reached(l) /\ Under(e.val, i, l)
      <4>1. e.key \in Point /\ e.val \in Onion /\ CanDecrypt(e.val, s)
        BY <2>2, <2>5 DEF Entry
      <4>2. CASE i = 1
        <5>1. PICK h \in Places, l \in Places : Wound(e.key, e.val, h, l)
          BY <2>3, <4>2
        <5>2. s = ServerList[h]
          BY <4>1, <5>1, UnderPeel DEF Wound
        <5>3. h = i
          BY <2>3, <5>2 DEF LinksTrue
        <5>4. Len(e.key.exps) = 0 /\ Len(m.g.exps) = 0
          BY <2>3, <4>2, <5>1, <5>3 DEF Wound
        <5>5. e.key.exps = <<>> /\ m.g.exps = <<>>
          BY <2>2, <4>1, <5>4 DEF Point
        <5> QED
          BY <5>1, <5>3, <5>5 DEF Wound
      <4>3. CASE i # 1
        <5>1. e.key.exps = m.g.exps
          BY <2>3, <4>3 DEF Unwinding
        <5>2. PICK l \in Places : i <= l + 1 /\ Reached(l) /\ Under(e.val, i, l)
          BY <2>3, <4>3 DEF Unwinding
        <5>3. e.val.layers # <<>> /\ e.val.layers \in Seq(Server)
          BY <4>1 DEF CanDecrypt, Onion
        <5>4. l + 1 - i # 0
          BY <5>2, <5>3 DEF Under
        <5>5. i <= l
          BY <1>0, <5>2, <5>4
        <5> QED
          BY <5>1, <5>2, <5>5
      <4> QED
        BY <4>2, <4>3
    <3>2. ASSUME NEW e \in m.entries
          PROVE  /\ Mul(e.key, Roundkey(s)).exps = g.exps
                 /\ Len(e.key.exps) = i - 1
                 /\ \E l \in Places : i <= l /\ Reached(l) /\ Under(Decrypt(e.val), i + 1, l)
      <4>1. e.key \in Point /\ e.val \in Onion
        BY <2>2 DEF Entry
      <4>2. Mul(e.key, Roundkey(s)).exps = g.exps
        BY <2>2, <3>1, <4>1, OneSecretMore DEF RaisedG
      <4>3. PICK l \in Places : i <= l /\ Reached(l) /\ Under(e.val, i, l)
        BY <3>1
      <4>4. Under(Decrypt(e.val), i + 1, l)
        BY <4>1, <4>3, UnderPeel
      <4> QED
        BY <2>3, <3>1, <4>2, <4>3, <4>4
    <3>3. Len(g.exps) = i + 1 - 1
      BY <1>0, <2>2, <2>3, OneSecretMore DEF RaisedG
    <3>4. ASSUME NEW e \in list
          PROVE  /\ e.key.exps = g.exps
                 /\ \E l \in Places : i <= l /\ Reached(l) /\ Under(e.val, i + 1, l)
                 /\ NextHop[s] = Coord => e.val.layers = <<>>
      <4>1. PICK f \in m.entries : e = [key |-> Mul(f.key, Roundkey(s)), val |-> Decrypt(f.val)]
        BY DEF Raised
      <4>2. e.key = Mul(f.key, Roundkey(s)) /\ e.val = Decrypt(f.val)
        BY <4>1
      <4>3. PICK l \in Places : i <= l /\ Reached(l) /\ Under(e.val, i + 1, l)
        BY <3>2, <4>2
      <4>4. ASSUME NextHop[s] = Coord PROVE e.val.layers = <<>>
        <5>1. l = i
          <6>1. SUFFICES ASSUME i < l PROVE FALSE
            BY <1>0, <4>3
          <6>2. i \in 1 .. l - 1 /\ i + 1 \in Places
            BY <1>0, <6>1
          <6>3. NextHop[s] = ServerList[i + 1]
            BY <2>3, <4>3, <6>2 DEF Reached
          <6> QED
            BY <1>0, <4>4, <6>2, <6>3
        <5>2. Len(e.val.layers) = 0
          BY <1>0, <4>3, <5>1 DEF Under
        <5>3. f.val \in Onion
          BY <2>2 DEF Entry
        <5>4. e.val.layers = SubSeq(f.val.layers, 1, Len(f.val.layers) - 1)
              /\ f.val.layers \in Seq(Server)
          BY <4>2, <5>3 DEF Decrypt, Onion
        <5> QED
          BY <5>2, <5>4
      <4> QED
        BY <3>2, <4>2, <4>3, <4>4
    <3>5. /\ Reply(m, {r})
          /\ KeyMap' = [KeyMap EXCEPT ![s] = Recorded(s, KeysOf(m.entries))]
      BY <1>8, <2>5 DEF ServerHandleAnnouncement
    <3>6. \A t \in Server : \A k \in DOMAIN KeyMap'[t] : Remembers(t, k)
      <4>1. KeysOf(m.entries) \subseteq Point
        BY <2>2 DEF KeysOf, Entry
      <4>2. \A k \in KeysOf(m.entries) : Len(k.exps) = i - 1
        BY <3>2 DEF KeysOf
      <4> QED
        BY <1>4, <2>3, <3>5, <4>1, <4>2
    <3> HIDE DEF list, g
    <3>7. r.type = "ANNOUNCEMENT" /\ r.to = NextHop[s] /\ r.entries = list /\ r.g = g
      BY DEF Announcement
    <3> HIDE DEF r
    <3>8. Whole(r)
      <4>1. CASE NextHop[s] = Coord
        BY <3>4, <3>7, <4>1 DEF Whole
      <4>2. CASE NextHop[s] # Coord
        <5>1. PICK h \in Places : h = i + 1
          BY <1>3, <2>3, <4>2
        <5>2. NextHop[s] = ServerList[h] /\ Reached(h) /\ Len(g.exps) = h - 1
          BY <1>3, <2>3, <3>3, <4>2, <5>1
        <5>3. h # 1 /\ \A l \in Places : i <= l => h <= l + 1
          BY <1>0, <5>1
        <5>4. \A e \in list : Unwinding(e.key, e.val, g, h)
          BY <3>4, <5>1, <5>3 DEF Unwinding
        <5> QED
          BY <3>7, <4>2, <5>2, <5>3, <5>4 DEF Whole
      <4> QED
        BY <4>1, <4>2
    <3>9. \A q \in net' : IsFlow(q) => q \in net \/ Whole(q)
      BY <3>5, <3>8 DEF Reply
    <3> QED
      BY <1>1, <3>6, <3>9
  <2> QED
    BY <2>4, <2>5
<1>9. ASSUME NEW s \in Server, NEW m \in net, ServerHandleRoundEnd(s, m)
      PROVE  HomeInv'
  <2> DEFINE known == {e \in Words(m) : e.key \in DOMAIN KeyMap[s]}
             missing == ~ KeysOf(m.entries) \subseteq DOMAIN KeyMap[s]
             list == Restored(s, known)
             r == RoundEnd(PreviousHop[s], list, missing, FALSE)
  <2>1. m.type = "ROUND_END" /\ m.to = s /\ IsFlow(m)
    BY <1>9 DEF ServerHandleRoundEnd, ServerHandles, IsFlow, IsRound
  <2>2. m.entries \subseteq Entry /\ s # Coord
    BY <2>1, AtServer, AddressAssumption DEF TypeOK
  <2>3. ASSUME NEW w \in known
        PROVE  \E i, l \in Places :
                  /\ i <= l /\ Reached(l) /\ Under(Encrypt(w.val, s), i, l)
                  /\ Len(KeyMap[s][w.key].exps) = i - 1 /\ s = ServerList[i]
    <3>1. PICK i \in Places : s = ServerList[i] /\ Reached(i) /\ Len(w.key.exps) = i
      BY <2>3 DEF HomeInv, Remembers
    <3>2. w.val \in Onion /\ \E l \in Places : i <= l /\ Reached(l) /\ Under(w.val, i + 1, l)
      <4>1. CASE m.is_start
        <5>1. PICK e \in m.entries : w = [e EXCEPT !.val = Plain(IntToByte(e.val.rep))]
          BY <2>3, <4>1 DEF Words
        <5>2. e \in Entry
          BY <2>2
        <5>3. w.val = Plain(IntToByte(e.val.rep)) /\ IntToByte(e.val.rep) \in Int
          BY <5>1, <5>2, ModulusAssumption DEF Entry, Onion, IntToByte
        <5>4. Under(w.val, i + 1, i)
          BY <1>0, <5>3 DEF Plain, Under
        <5> QED
          BY <1>0, <3>1, <5>3, <5>4, OnionTypes
      <4>2. CASE ~ m.is_start
        <5>1. w \in m.entries
          BY <2>3, <4>2 DEF Words
        <5>2. PICK h \in Places, l \in Places :
                  Wound(w.key, w.val, h, l) /\ h > 1 /\ s = ServerList[h - 1]
          BY <2>1, <2>2, <4>2, <5>1 DEF HomeInv, Whole
        <5>3. h - 1 \in Places
          BY <1>0, <5>2
        <5>4. h - 1 = i
          <6>1. \A a, b \in Places : ServerList[a] = ServerList[b] => a = b
            BY DEF LinksTrue
          <6> QED
            BY <3>1, <5>2, <5>3, <6>1
        <5>5. h = i + 1 /\ i <= l
          BY <1>0, <5>2, <5>4 DEF Wound
        <5> QED
          BY <2>2, <5>1, <5>2, <5>5 DEF Wound, Entry
      <4> QED
        BY <4>1, <4>2
    <3>3. PICK l \in Places : i <= l /\ Reached(l) /\ Under(w.val, i + 1, l)
      BY <3>2
    <3>4. Under(Encrypt(w.val, s), i, l)
      BY <3>1, <3>2, <3>3, UnderWrap
    <3> DEFINE p == KeyMap[s][w.key]
    <3>5. p \in Point /\ w.key = Mul(p, Roundkey(s))
      BY <2>3 DEF TypeOK, ServerTypeOK, IsMap, KeyMapMatchesRoundkey
    <3>6. Len(p.exps) = i - 1
      <4> HIDE DEF p
      <4> QED
        BY <1>0, <3>1, <3>5, OneSecretMore
    <3> QED
      BY <3>1, <3>3, <3>4, <3>6
  <2>4. ASSUME NEW e \in list
        PROVE  \E i, l \in Places :
                  /\ Wound(e.key, e.val, i, l)
                  /\ PreviousHop[s] = Coord \/ (i > 1 /\ PreviousHop[s] = ServerList[i - 1])
    <3>1. PICK w \in known : e = [key |-> KeyMap[s][w.key], val |-> Encrypt(w.val, s)]
      BY DEF Restored
    <3>2. e.key = KeyMap[s][w.key] /\ e.val = Encrypt(w.val, s)
      BY <3>1
    <3>3. PICK i \in Places, l \in Places :
              /\ i <= l /\ Reached(l) /\ Under(e.val, i, l)
              /\ Len(e.key.exps) = i - 1 /\ s = ServerList[i]
      BY <2>3, <3>2
    <3>4. PreviousHop[s] \in {Coord, Hop(i - 1)}
      BY <3>3 DEF LinksTrue
    <3>5. Hop(i - 1) # Coord => i > 1 /\ Hop(i - 1) = ServerList[i - 1]
      BY <1>0 DEF Hop
    <3> QED
      BY <3>3, <3>4, <3>5 DEF Wound
  <2>5. \/ UNCHANGED KeyMap /\ Reply(m, {})
        \/ Reply(m, {r}) /\ KeyMap' = [KeyMap EXCEPT ![s] = NoEntries]
    BY <1>9 DEF ServerHandleRoundEnd, ServerDies, ForgetKeys
  <2>6. KeyMap' = [KeyMap EXCEPT ![s] = NoEntries] =>
           \A t \in Server : \A k \in DOMAIN KeyMap'[t] : Remembers(t, k)
    BY DEF HomeInv, NoEntries, TypeOK, ServerTypeOK
  <2> HIDE DEF list, missing
  <2>7. /\ r.type = "ROUND_END" /\ r.to = PreviousHop[s] /\ r.entries = list
        /\ r.is_start = FALSE
    BY DEF RoundEnd
  <2> HIDE DEF r
  <2>8. Whole(r)
    BY <2>4, <2>7 DEF Whole
  <2>9. Reply(m, {r}) => \A q \in net' : IsFlow(q) => q \in net \/ Whole(q)
    BY <2>8 DEF Reply
  <2> QED
    BY <1>1, <1>2, <2>5, <2>6, <2>9
<1> QED
  BY <1>5, <1>6, <1>7, <1>8, <1>9 DEF ServerNext, ServerListenerNext

\* Every step keeps what is under way whole: clients add nothing but their own
\* keys, and a loss only takes away.
LEMMA StepKeepsHome ==
    ASSUME TypeOK, KeyMapMatchesRoundkey, LinksTrue, HomeInv, [Next]_vars
    PROVE  HomeInv'
<1>1. Onward
  BY StepIsOnward
<1>2. ASSUME \A r \in net' : IsFlow(r) => r \in net \/ Whole(r),
             UNCHANGED <<ReputationMap, KeyMap>>
      PROVE  HomeInv'
  BY <1>1, <1>2, HomeFrom DEF HomeInv
<1>3. CASE UNCHANGED vars
  BY <1>2, <1>3 DEF vars, coordVars, mapVars, serverVars
<1>4. ASSUME NEW s \in Server, LaunchServer(s)
      PROVE  HomeInv'
  BY <1>2, <1>4, NotFlow DEF LaunchServer, ServerStart, Send, coordVars, mapVars
<1>5. ASSUME NEW c \in Client, LaunchClient(c)
      PROVE  HomeInv'
  <2>1. Whole(ClientRegisterControllerSide(c))
    BY DEF Whole, ClientRegisterControllerSide, PublicKey
  <2> QED
    BY <1>2, <1>5, <2>1 DEF LaunchClient, Register, Send, coordVars, mapVars, serverVars
<1>6. CASE EndConfiguration
  BY <1>1, <1>6, MainKeepsHome DEF EndConfiguration
<1>7. CASE CoordStep
  BY <1>1, <1>7, MainKeepsHome, ListenerKeepsHome DEF CoordStep, CoordNext
<1>8. CASE ServerStep
  BY <1>1, <1>8, ServerKeepsHome DEF ServerStep
<1>9. CASE ClientStep
  BY <1>2, <1>9, ClientFlow DEF ClientStep, coordVars, mapVars, serverVars
<1>10. CASE NetStep
  BY <1>2, <1>10 DEF NetStep, Lose, coordVars, mapVars, serverVars
<1> QED
  BY <1>3, <1>4, <1>5, <1>6, <1>7, <1>8, <1>9, <1>10 DEF Next, LaunchNext

LEMMA HomeInvCorrect == Spec => []HomeInv
<1>1. Init => HomeInv
  BY DEF Init, NetInit, CoordInit, ServerInit, NoEntries, HomeInv
<1> QED
  BY <1>1, StepKeepsHome, LinksCorrect, KeyMapCorrect, TypeCorrect, PTL DEF Spec

\* What the coordinator decrypts has no layer left, and its keys are the
\* pseudonyms of their owners over the generator that came with them, whoever is
\* launched when and whatever is lost (AnonServerHandler.go:101, 237, 253).
THEOREM HomeWhole == Spec => []ComesHomeWhole
<1>1. ASSUME TypeOK, HomeInv PROVE ComesHomeWhole
  <2>1. SUFFICES ASSUME NEW m \in RoundDatagrams, m.type = "ANNOUNCEMENT", m.to = Coord,
                        NEW e \in m.entries
                 PROVE  e.val.layers = <<>> /\ e.key = Pseudonym(m.g, e.key.base)
    BY DEF ComesHomeWhole
  <2>2. m \in net /\ IsFlow(m)
    BY <2>1 DEF RoundDatagrams, IsFlow, IsRound
  <2>3. e.val.layers = <<>> /\ e.key.exps = m.g.exps
    BY <1>1, <2>1, <2>2 DEF HomeInv, Whole
  <2>4. e.key \in Point
    BY <1>1, <2>1, <2>2, AtCoordinator DEF TypeOK, Entry
  <2> QED
    BY <2>3, <2>4 DEF Pseudonym, Point
<1> QED
  BY <1>1, HomeInvCorrect, TypeCorrect, PTL
=============================================================================
