------------------------------ MODULE MemberProofs ------------------------------
(***************************************************************************)
(* What becomes of the members: their reputations are carried from round   *)
(* to round whatever is lost, delayed or launched late, and in the hands   *)
(* of a careful operator none of them is dropped and each finds itself in  *)
(* the coordinator's maps under the pseudonym it computes.                 *)
(***************************************************************************)
EXTENDS HomeProofs

(* The reputations. *)

\* The entries are the lines of keysAndVals: every key comes from one of its
\* keys and has its value as a word, and every line of it is there.
Carries(entries) ==
    /\ \A e \in entries : \E j \in DOMAIN keysAndVals :
          e.key.base = j.base /\ e.val.rep = IntToByte(keysAndVals[j])
    /\ \A j \in DOMAIN keysAndVals : \E e \in entries : e.key.base = j.base

\* A list is lost altogether or carries the reputations of the last round end.
CarriedOrEmpty(entries) == entries = {} \/ Carries(entries)

\* The encrypted map as the list announce() makes of it.
ReputationList == {[key |-> k, val |-> ReputationMap[k]] : k \in DOMAIN ReputationMap}

\* The end of the round is under way: ReputationMap is still that of the round
\* before.
RoundEnding == mainPc \in BetweenRounds /\ Status = "MESSAGE" /\ listenerPc # "sleeping"

\* What a datagram of a round carries; its first integers go to a server.
CarriedBy(m) ==
    /\ m.type = "ANNOUNCEMENT" => CarriedOrEmpty(m.entries)
    /\ m.type = "ROUND_END" =>
          CarriedOrEmpty(Words(m)) /\ (m.is_start => m.to \in Server)

\* No list that leaves changes a reputation on its way home.
CarryInv ==
    /\ \A m \in RoundDatagrams : CarriedBy(m)
    /\ ~ RoundEnding => CarriedOrEmpty(ReputationList)

-----------------------------------------------------------------------------
(* The members. *)

\* The key of the owner of b as the first i servers raise it now.
RaisedKey(b, i) ==
    [base |-> b, exps |-> [j \in 1 .. i |-> Roundkey(ServerList[j])]]

\* The first i servers know the keys of every member, raised as far as each.
KeysKnown(i) ==
    \A k \in DOMAIN ReputationMap : \A j \in 1 .. i :
        RaisedKey(k.base, j) \in DOMAIN KeyMap[ServerList[j]]

\* A list has the key of every member, raised by the first i servers.
HasMembers(entries, i) ==
    \A k \in DOMAIN ReputationMap : \E e \in entries : e.key = RaisedKey(k.base, i)

\* The generator clients use, if they have one, is made of the secrets of now of
\* the first i servers.
GeneratorOfNow(i) ==
    G # StdBase => \A j \in 1 .. i : G.exps[j] = Roundkey(ServerList[j])

\* k with the secrets of the generator for those that were taken off.
Pseudonymous(k, i) ==
    [base |-> k.base,
     exps |-> [j \in 1 .. Len(ServerList) |-> IF j <= i THEN k.exps[j] ELSE G.exps[j]]]

\* An announcement on its way to the i-th process.
AnnouncementAt(m, i) ==
    /\ m.to = Hop(i)
    /\ HasMembers(m.entries, i - 1) /\ KeysKnown(i - 1)
    /\ m.g.exps = RaisedKey(m.g.base, i - 1).exps
    /\ m.entries # {} => DOMAIN ReputationMap # {}

\* The end of a round on its way to the i-th process.
RoundEndAt(m, i) ==
    /\ m.to = Hop(i)
    /\ HasMembers(m.entries, i) /\ KeysKnown(i) /\ GeneratorOfNow(i)
    /\ G # StdBase => \A e \in m.entries : Pseudonymous(e.key, i) \in DecryptedKeysMap

Tracked(m) ==
    /\ m.type = "ANNOUNCEMENT" =>
          \E i \in 1 .. Len(ServerList) + 1 : AnnouncementAt(m, i)
    /\ m.type = "ROUND_END" => \E i \in 0 .. Len(ServerList) : RoundEndAt(m, i)

\* Between the announcement and the end of the round.
MessagePhase ==
    /\ Status = "MESSAGE"
    /\ mainPc \in {"await_message", "message_phase", "vote", "vote_phase", "round_end"}

\* In the decrypted maps is the pseudonym of every member.
MembersListed ==
    LET n == Len(ServerList)
    IN  /\ \A k \in DOMAIN ReputationMap :
              RaisedKey(k.base, n) \in DecryptedKeysMap \cap DOMAIN DecryptedReputationMap
        /\ KeysKnown(n) /\ GeneratorOfNow(n)

\* Members have a pseudonym under the generator clients use.
MembersNamed ==
    G # StdBase =>
        /\ Len(G.exps) = Len(ServerList)
        /\ DOMAIN ReputationMap # {}
        /\ \A k \in DOMAIN ReputationMap :
              [base |-> k.base, exps |-> G.exps] \in DecryptedKeysMap

\* Where every member is, wherever the list is.
MemberInv ==
    /\ \A m \in RoundDatagrams : Tracked(m)
    /\ MessagePhase => MembersListed
    /\ MembersNamed
    /\ ServerList = <<>> => DOMAIN ReputationMap = {} /\ RoundDatagrams = {}
    /\ mainPc = "read_ok" => G = StdBase

\* Clients compute with the generator they were sent last, which is never nil.
NymInv ==
    /\ \A m \in net : m.type = "ANNOUNCEMENT" /\ m.to \in Addr => m.g # StdBase
    /\ \A c \in Client :
          /\ storing[c] # Nothing => storing[c].g # StdBase
          /\ IF storing[c].field = "OnetimePseudoNym" THEN clientG[c] = storing[c].g
             ELSE OnetimePseudoNym[c] # Unset =>
                    /\ clientG[c] # StdBase
                    /\ OnetimePseudoNym[c] = Pseudonym(clientG[c], c)

-----------------------------------------------------------------------------
(* The reputations are carried over. *)

\* What passes a list on keeps the owners and the values it has.
LEMMA CarriedOn ==
    ASSUME NEW old, NEW new, CarriedOrEmpty(old),
           new # {} =>
              /\ \A f \in new : \E e \in old : f.key.base = e.key.base /\ f.val.rep = e.val.rep
              /\ \A e \in old : \E f \in new : f.key.base = e.key.base
    PROVE  CarriedOrEmpty(new)
<1> SUFFICES ASSUME new # {} PROVE Carries(new)
  BY DEF CarriedOrEmpty
<1>1. Carries(old)
  BY DEF CarriedOrEmpty
<1>2. ASSUME NEW f \in new
      PROVE  \E j \in DOMAIN keysAndVals :
                f.key.base = j.base /\ f.val.rep = IntToByte(keysAndVals[j])
  <2>1. PICK e \in old : f.key.base = e.key.base /\ f.val.rep = e.val.rep
    BY <1>2
  <2> QED
    BY <1>1, <2>1 DEF Carries
<1>3. ASSUME NEW j \in DOMAIN keysAndVals
      PROVE  \E f \in new : f.key.base = j.base
  <2>1. PICK e \in old : e.key.base = j.base
    BY <1>1 DEF Carries
  <2> QED
    BY <2>1
<1> QED
  BY <1>2, <1>3 DEF Carries

\* A step is harmless if the datagrams it sends carry the reputations.
LEMMA CarryFrom ==
    ASSUME CarryInv, UNCHANGED <<keysAndVals, ReputationMap>>,
           \A r \in net' : IsRound(r) => r \in net \/ CarriedBy(r),
           RoundEnding => RoundEnding'
    PROVE  CarryInv'
<1>1. \A m : CarriedBy(m)' <=> CarriedBy(m)
  BY DEF CarriedBy, CarriedOrEmpty, Carries, Words
<1>2. CarriedOrEmpty(ReputationList)' <=> CarriedOrEmpty(ReputationList)
  BY DEF CarriedOrEmpty, Carries, ReputationList
<1>3. \A m \in RoundDatagrams' : CarriedBy(m)
  BY RoundDatagramsAre DEF CarryInv, RoundDatagrams, IsRound
<1> QED
  BY <1>1, <1>2, <1>3 DEF CarryInv

\* main sends what it stored, and at the end of a round what it decrypted.
LEMMA MainCarries ==
    ASSUME TypeOK, PhaseInv, CarryInv, MainNext \/ ReadOk
    PROVE  CarryInv'
<1>1. CASE ReadOk
  BY <1>1, CarryFrom
     DEF ReadOk, MainAt, MainGoto, mapVars, RoundEnding, BetweenRounds
<1>2. CASE AwaitReady \/ ClearBuffer \/ CheckReady \/ AwaitMessage \/ BeginVote
  BY <1>2, CarryFrom
     DEF AwaitReady, ClearBuffer, CheckReady, AwaitMessage, BeginVote, MainAt,
         MainGoto, mainVars, mapVars, ReadyForNewRound, RoundEnding, BetweenRounds
<1>3. CASE Announce
  <2> DEFINE r == Announcement(GetFirstServer, ReputationList, StdBase)
  <2>1. /\ UNCHANGED <<keysAndVals, ReputationMap>> /\ ~ RoundEnding
        /\ net' \subseteq net \cup {r}
    BY <1>3 DEF Announce, SkipAnnouncement, Send, MainAt, MainGoto, mapVars,
         RoundEnding, BetweenRounds, ReputationList
  <2>2. r.type = "ANNOUNCEMENT" /\ r.entries = ReputationList
    BY DEF Announcement
  <2> HIDE DEF r
  <2>3. CarriedBy(r)
    BY <2>1, <2>2 DEF CarryInv, CarriedBy
  <2> QED
    BY <2>1, <2>3, CarryFrom
<1>4. CASE Vote
  BY <1>4, NotOfARound, CarryFrom
     DEF Vote, Send, MainAt, MainGoto, mapVars, RoundEnding, BetweenRounds
<1>5. CASE AddNewClients
  <2>1. UNCHANGED <<keysAndVals, ReputationMap, net>> /\ ~ RoundEnding
    BY <1>5 DEF AddNewClients, MainAt, MainGoto, mapVars, RoundEnding, BetweenRounds
  <2> QED
    BY <2>1, CarryFrom
<1>6. CASE SendRoundEnd
  <2> DEFINE listed == DOMAIN DecryptedReputationMap \cap DecryptedKeysMap
             nil == DOMAIN DecryptedReputationMap \ DecryptedKeysMap
             line(k) == [key |-> k, val |-> Plain(DecryptedReputationMap[k])]
             out == RoundEnd(lastServer, {line(k) : k \in listed}, nil # {}, TRUE)
  <2>1. /\ keysAndVals' = [k \in listed |-> DecryptedReputationMap[k]]
        /\ net' = net \cup {out}
        /\ mainPc' = "await_ready" /\ UNCHANGED <<Status, listenerPc>>
        /\ mainPc = "round_end"
    BY <1>6 DEF SendRoundEnd, Send, MainAt
  <2>2. RoundDatagrams = {} /\ Status = "MESSAGE" /\ listenerPc # "sleeping"
        /\ lastServer \in Server
    BY <2>1 DEF PhaseInv, BetweenRounds, TypeOK, CoordTypeOK
  <2>3. RoundEnding'
    BY <2>1, <2>2 DEF RoundEnding, BetweenRounds
  <2>4. /\ out.type = "ROUND_END" /\ out.to = lastServer /\ out.is_start
        /\ out.entries = {line(k) : k \in listed}
    BY DEF RoundEnd
  <2>5. PICK r : r = out
    OBVIOUS
  <2> HIDE DEF out, nil
  <2>6. ASSUME NEW w \in Words(r)
        PROVE  \E k \in listed :
                  w.key = k /\ w.val.rep = IntToByte(DecryptedReputationMap[k])
    <3>1. PICK k \in listed : w = [line(k) EXCEPT !.val = Plain(IntToByte(line(k).val.rep))]
      BY <2>4, <2>5, <2>6 DEF Words
    <3> QED
      BY <3>1 DEF Plain
  <2>7. ASSUME NEW k \in listed PROVE \E w \in Words(r) : w.key = k
    <3>1. [line(k) EXCEPT !.val = Plain(IntToByte(line(k).val.rep))] \in Words(r)
      BY <2>4, <2>5 DEF Words
    <3> QED
      BY <3>1
  <2>8. /\ DOMAIN keysAndVals' = listed
        /\ \A k \in listed : keysAndVals'[k] = DecryptedReputationMap[k]
    BY <2>1
  <2> HIDE DEF listed, line
  <2>9. Carries(Words(r))' <=>
          /\ \A w \in Words(r) : \E j \in DOMAIN keysAndVals' :
                w.key.base = j.base /\ w.val.rep = IntToByte(keysAndVals'[j])
          /\ \A j \in DOMAIN keysAndVals' : \E w \in Words(r) : w.key.base = j.base
    BY DEF Carries, Words
  <2>10. Carries(Words(r))'
    BY <2>6, <2>7, <2>8, <2>9
  <2>11. \A m \in RoundDatagrams' : m = r
    BY <2>1, <2>2, <2>5 DEF RoundDatagrams
  <2>12. CarriedBy(r)'
    BY <2>2, <2>4, <2>5, <2>10 DEF CarriedBy, CarriedOrEmpty
  <2> QED
    BY <2>3, <2>11, <2>12 DEF CarryInv
<1> QED
  BY <1>1, <1>2, <1>3, <1>4, <1>5, <1>6 DEF MainNext

\* The listener stores the list that came home.
LEMMA ListenerCarries ==
    ASSUME TypeOK, PhaseInv, CarryInv, ListenerNext
    PROVE  CarryInv'
<1>0. ClientAddrs \subseteq Addr
  BY CoordHelperTypes DEF TypeOK
<1>1. ASSUME NEW m \in net, NEW cause, CoordDies(m, cause)
      PROVE  CarryInv'
  BY <1>1, CarryFrom DEF CoordDies, Reply, mapVars, mainVars, RoundEnding
<1>2. ASSUME NEW m \in net,
             \/ CoordHandleServerRegister(m)
             \/ CoordHandleClientRegisterControllerSide(m)
             \/ CoordHandleClientRegisterServerSide(m)
             \/ CoordHandleMsg(m)
             \/ CoordHandleVote(m)
      PROVE  CarryInv'
  <2>1. CASE \E cause : CoordDies(m, cause)
    BY <1>1, <2>1
  <2>2. CASE ~ \E cause : CoordDies(m, cause)
    <3>1. /\ \A r \in net' : IsRound(r) => r \in net
          /\ UNCHANGED <<Status, listenerPc, ReputationMap, keysAndVals>>
          /\ \/ UNCHANGED mainPc
             \/ mainPc = "clear_buffer" /\ mainPc' = "check_ready"
      <4>1. CASE CoordHandleServerRegister(m)
        BY <4>1, NotOfARound
           DEF CoordHandleServerRegister, Relink, Reply, mainVars, mapVars
      <4>2. CASE CoordHandleClientRegisterControllerSide(m)
        BY <2>2, <4>2, NotOfARound
           DEF CoordHandleClientRegisterControllerSide, DiesOfRace, Reply, mainVars,
               mapVars
      <4>3. CASE CoordHandleClientRegisterServerSide(m)
        BY <2>2, <4>3, NotOfARound
           DEF CoordHandleClientRegisterServerSide, DiesOfRace, Reply, Confirm,
               mainVars, mapVars, MainAt, MainGoto
      <4>4. CASE CoordHandleMsg(m)
        BY <2>2, <4>4, NotOfARound
           DEF CoordHandleMsg, DiesOfRace, Reply, coordVars, mainVars, mapVars,
               MainAt, MainGoto
      <4>5. CASE CoordHandleVote(m)
        BY <2>2, <4>5, NotOfARound
           DEF CoordHandleVote, DiesOfRace, Reply, coordVars, mainVars, mapVars
      <4> QED
        BY <1>2, <4>1, <4>2, <4>3, <4>4, <4>5
    <3> QED
      BY <3>1, CarryFrom DEF RoundEnding, BetweenRounds
  <2> QED
    BY <2>1, <2>2
<1>3. ASSUME NEW m \in net, CoordHandleAnnouncement(m)
      PROVE  CarryInv'
  <2>1. m \in RoundDatagrams /\ m.type = "ANNOUNCEMENT"
    BY <1>3 DEF CoordHandleAnnouncement, Handles, RoundDatagrams
  <2>2. ~ RoundEnding
    BY <2>1 DEF PhaseInv, RoundEnding
  <2>3. \A r \in net' : IsRound(r) => r \in net
    <3>1. CASE FinishEmptyList(m)
      BY <3>1 DEF FinishEmptyList, Reply
    <3>2. CASE FinishAnnouncement(m)
      BY <1>0, <3>2, NotOfARound DEF FinishAnnouncement, Reply
    <3> QED
      BY <1>3, <3>1, <3>2 DEF CoordHandleAnnouncement
  <2>4. UNCHANGED <<keysAndVals, ReputationMap>>
    BY <1>3 DEF CoordHandleAnnouncement, FinishEmptyList, FinishAnnouncement, mapVars,
         mainVars
  <2> QED
    BY <2>2, <2>3, <2>4, CarryFrom
<1>4. ASSUME NEW m \in net, CoordHandleRoundEnd(m)
      PROVE  CarryInv'
  <2>1. m \in RoundDatagrams /\ m.type = "ROUND_END" /\ m.to = Coord
    BY <1>4 DEF CoordHandleRoundEnd, Handles, RoundDatagrams
  <2>2. RoundDatagrams = {m}
    BY <2>1 DEF PhaseInv
  <2>3. CarriedOrEmpty(m.entries)
    BY <2>1, AddressAssumption DEF CarryInv, CarriedBy, Words
  <2>4. ReputationMap' = MapOf(m.entries) /\ UNCHANGED keysAndVals
    BY <1>4 DEF CoordHandleRoundEnd, mainVars
  <2>5. RoundDatagrams' = {}
    <3>1. \A r \in net' : IsRound(r) => r \in net /\ r # m
      BY <1>0, <1>4, NotOfARound DEF CoordHandleRoundEnd, Reply
    <3> QED
      BY <2>2, <3>1 DEF RoundDatagrams, IsRound
  <2> DEFINE line(k) == [key |-> k, val |-> MapOf(m.entries)[k]]
             list == {line(k) : k \in KeysOf(m.entries)}
  <2>6. ReputationList' = list
    BY <2>4 DEF ReputationList, MapOf
  <2>7. /\ \A f \in list : \E e \in m.entries :
              f.key.base = e.key.base /\ f.val.rep = e.val.rep
        /\ \A e \in m.entries : \E f \in list : f.key.base = e.key.base
    <3>1. ASSUME NEW k \in KeysOf(m.entries)
          PROVE  \E e \in m.entries : k = e.key /\ line(k).val = e.val
      BY DEF MapOf, KeysOf
    <3>2. \A k : line(k).key = k
      OBVIOUS
    <3>3. \A e \in m.entries : e.key \in KeysOf(m.entries)
      BY DEF KeysOf
    <3> HIDE DEF line
    <3> QED
      BY <3>1, <3>2, <3>3
  <2> HIDE DEF list
  <2>8. CarriedOrEmpty(list)
    BY <2>3, <2>7, CarriedOn
  <2>9. CarriedOrEmpty(list)'
    BY <2>4, <2>6, <2>8 DEF CarriedOrEmpty, Carries
  <2> QED
    BY <2>5, <2>6, <2>8, <2>4 DEF CarryInv, CarriedOrEmpty, Carries
<1>5. CASE CoordRoundEndAwake
  BY <1>5, CarryFrom DEF CoordRoundEndAwake, mapVars, mainVars, RoundEnding
<1>6. CASE \E m \in net : \/ CoordHandleServerRegister(m)
                          \/ CoordHandleClientRegisterControllerSide(m)
                          \/ CoordHandleClientRegisterServerSide(m)
                          \/ CoordHandleMsg(m)
                          \/ CoordHandleVote(m)
  BY <1>2, <1>6
<1> QED
  BY <1>3, <1>4, <1>5, <1>6 DEF ListenerNext

\* A server passes on what it was sent, under other keys and another layer: what
\* it remembers of a key has the same owner.
LEMMA ServerCarries ==
    ASSUME TypeOK, KeyMapMatchesRoundkey, CarryInv, UNCHANGED coordVars,
           ServerNext \/ \E s \in Server : ServerStart(s)
    PROVE  CarryInv'
<1>0. UNCHANGED <<keysAndVals, ReputationMap>> /\ UNCHANGED RoundEnding
  BY DEF coordVars, mapVars, mainVars, RoundEnding
<1>1. ASSUME NEW s \in Server, ServerStart(s) \/ ServerGivesUp(s)
      PROVE  CarryInv'
  BY <1>0, <1>1, NotOfARound, CarryFrom DEF ServerStart, ServerGivesUp, Send
<1>2. ASSUME NEW s \in Server, NEW m \in net,
             \/ ServerHandleRegisterReply(s, m)
             \/ ServerHandleUpdateNextHop(s, m)
             \/ ServerHandleClientRegister(s, m)
             \/ \E cause \in ServerStates : ServerDies(s, m, cause)
      PROVE  CarryInv'
  BY <1>0, <1>2, NotOfARound, CarryFrom
     DEF ServerHandleRegisterReply, ServerHandleUpdateNextHop,
         ServerHandleClientRegister, ServerDies, Reply
<1>3. ASSUME NEW m \in net, NEW r, Reply(m, {r}), CarriedBy(r)
      PROVE  CarryInv'
  BY <1>0, <1>3, CarryFrom DEF Reply
<1>4. ASSUME NEW s \in Server, NEW m \in net, ServerHandleAnnouncement(s, m)
      PROVE  CarryInv'
  <2> DEFINE list == Raised(s, m.entries)
             r == Announcement(NextHop[s], list, RaisedG(s, m.g))
  <2>1. m \in RoundDatagrams /\ m.type = "ANNOUNCEMENT" /\ m.to = s
    BY <1>4 DEF ServerHandleAnnouncement, ServerHandles, RoundDatagrams
  <2>2. CarriedOrEmpty(m.entries) /\ m.entries \subseteq Entry
    BY <2>1, AtServer DEF CarryInv, CarriedBy, RoundDatagrams, TypeOK
  <2>3. \A e \in m.entries : /\ Mul(e.key, Roundkey(s)).base = e.key.base
                             /\ Decrypt(e.val).rep = e.val.rep
    BY <2>2 DEF Entry, Point, Onion, Mul, Decrypt
  <2>4. CarriedOrEmpty(list)
    <3>1. /\ \A f \in list : \E e \in m.entries :
                f.key.base = e.key.base /\ f.val.rep = e.val.rep
          /\ \A e \in m.entries : \E f \in list : f.key.base = e.key.base
      <4> DEFINE raised(e) == [key |-> Mul(e.key, Roundkey(s)), val |-> Decrypt(e.val)]
      <4>1. list = {raised(e) : e \in m.entries}
        BY DEF Raised
      <4>2. \A e \in m.entries : /\ raised(e).key.base = e.key.base
                                 /\ raised(e).val.rep = e.val.rep
        BY <2>3
      <4> HIDE DEF raised, list
      <4> QED
        BY <4>1, <4>2
    <3> HIDE DEF list
    <3> QED
      BY <2>2, <3>1, CarriedOn
  <2>5. r.type = "ANNOUNCEMENT" /\ r.entries = list
    BY DEF Announcement
  <2>6. ServerDies(s, m, "decrypt") \/ Reply(m, {r})
    BY <1>4 DEF ServerHandleAnnouncement
  <2> HIDE DEF list, r
  <2>7. CarriedBy(r)
    BY <2>4, <2>5 DEF CarriedBy
  <2> QED
    BY <1>2, <1>3, <2>6, <2>7 DEF ServerStates
<1>5. ASSUME NEW s \in Server, NEW m \in net, ServerHandleRoundEnd(s, m)
      PROVE  CarryInv'
  <2> DEFINE many == \E e, f \in m.entries : e # f
             known == {e \in Words(m) : e.key \in DOMAIN KeyMap[s]}
             missing == ~ KeysOf(m.entries) \subseteq DOMAIN KeyMap[s]
             list == Restored(s, known)
             r == RoundEnd(PreviousHop[s], list, missing, FALSE)
  <2>1. m \in RoundDatagrams /\ m.type = "ROUND_END" /\ m.to = s
    BY <1>5 DEF ServerHandleRoundEnd, ServerHandles, RoundDatagrams
  <2>2. CarriedOrEmpty(Words(m)) /\ m.entries \subseteq Entry
    BY <2>1, AtServer DEF CarryInv, CarriedBy, RoundDatagrams, TypeOK
  <2>3. ASSUME NEW w \in Words(m)
        PROVE  /\ w.key \in KeysOf(m.entries)
               /\ Encrypt(w.val, s).rep = w.val.rep
    <3>1. CASE m.is_start
      <4>1. PICK e \in m.entries : w = [e EXCEPT !.val = Plain(IntToByte(e.val.rep))]
        BY <2>3, <3>1 DEF Words
      <4>2. e \in Entry
        BY <2>2
      <4>3. w.key = e.key /\ w.val = Plain(IntToByte(e.val.rep))
        BY <4>1, <4>2 DEF Entry
      <4> QED
        BY <4>3 DEF KeysOf, Encrypt, Plain
    <3>2. CASE ~ m.is_start
      <4>1. w \in m.entries /\ w \in Entry
        BY <2>2, <2>3, <3>2 DEF Words
      <4> QED
        BY <4>1 DEF KeysOf, Encrypt, Entry, Onion
    <3> QED
      BY <3>1, <3>2
  <2>4. ASSUME ~ (many /\ missing)
        PROVE  known = {} \/ known = Words(m)
    <3>1. CASE ~ missing
      BY <2>3, <3>1
    <3>2. CASE ~ many /\ missing
      <4>1. PICK e \in m.entries : e.key \notin DOMAIN KeyMap[s]
        BY <3>2 DEF KeysOf
      <4>2. \A k \in KeysOf(m.entries) : k = e.key
        BY <3>2, <4>1 DEF KeysOf
      <4> QED
        BY <2>3, <4>1, <4>2
    <3> QED
      BY <2>4, <3>1, <3>2
  <2>5. ASSUME NEW w \in known
        PROVE  /\ KeyMap[s][w.key].base = w.key.base
               /\ Encrypt(w.val, s).rep = w.val.rep
    <3>1. KeyMap[s][w.key] \in Point /\ w.key = Mul(KeyMap[s][w.key], Roundkey(s))
      BY <2>5 DEF TypeOK, ServerTypeOK, IsMap, KeyMapMatchesRoundkey
    <3>2. KeyMap[s][w.key].base = w.key.base
      BY <3>1 DEF Mul, Point
    <3>3. Encrypt(w.val, s).rep = w.val.rep
      BY <2>3, <2>5
    <3> QED
      BY <3>2, <3>3
  <2>6. ASSUME known = Words(m) PROVE CarriedOrEmpty(list)
    <3>1. /\ \A f \in list : \E w \in known :
                f.key.base = w.key.base /\ f.val.rep = w.val.rep
          /\ \A w \in known : \E f \in list : f.key.base = w.key.base
      <4> DEFINE restored(w) == [key |-> KeyMap[s][w.key], val |-> Encrypt(w.val, s)]
      <4>1. list = {restored(w) : w \in known}
        BY DEF Restored
      <4>2. \A w \in known : /\ restored(w).key.base = w.key.base
                             /\ restored(w).val.rep = w.val.rep
        BY <2>5
      <4> HIDE DEF restored, list, known
      <4> QED
        BY <4>1, <4>2
    <3> HIDE DEF list
    <3> QED
      BY <2>2, <2>6, <3>1, CarriedOn
  <2>7. ASSUME known = {} PROVE CarriedOrEmpty(list)
    BY <2>7 DEF Restored, CarriedOrEmpty
  <2>8. \/ ServerDies(s, m, "index") \/ ServerDies(s, m, "nil_key")
        \/ Reply(m, {r}) /\ ~ (many /\ missing)
    BY <1>5 DEF ServerHandleRoundEnd
  <2> HIDE DEF many, missing, known, list
  <2>9. r.type = "ROUND_END" /\ r.entries = list /\ r.is_start = FALSE
    BY DEF RoundEnd
  <2> HIDE DEF r
  <2>10. CarriedOrEmpty(list) => CarriedBy(r)
    BY <2>9 DEF CarriedBy, Words
  <2> QED
    BY <1>2, <1>3, <2>4, <2>6, <2>7, <2>8, <2>10 DEF ServerStates
<1> QED
  BY <1>1, <1>2, <1>4, <1>5 DEF ServerNext, ServerListenerNext

\* Every step of the system, also one that loses a datagram.
LEMMA StepCarries ==
    ASSUME TypeOK, KeyMapMatchesRoundkey, PhaseInv, CarryInv, [Next]_vars
    PROVE  CarryInv'
<1>1. ASSUME UNCHANGED coordVars, \A r \in net' : IsRound(r) => r \in net
      PROVE  CarryInv'
  BY <1>1, CarryFrom DEF coordVars, mapVars, mainVars, RoundEnding
<1>2. CASE UNCHANGED vars
  BY <1>1, <1>2 DEF vars
<1>3. CASE CoordNext \/ ReadOk
  BY <1>3, MainCarries, ListenerCarries DEF CoordNext
<1>4. CASE UNCHANGED coordVars /\ (ServerNext \/ \E s \in Server : ServerStart(s))
  BY <1>4, ServerCarries
<1>5. CASE UNCHANGED coordVars /\ (ClientNext \/ \E c \in Client : Register(c))
  <2>1. ASSUME NEW c \in Client, Register(c)
        PROVE  \A r \in net' : IsRound(r) => r \in net
    BY <2>1, NotOfARound DEF Register, Send
  <2>2. ClientNext => \A r \in net' : IsRound(r) => r \in net
    BY ClientFlow DEF IsFlow
  <2> QED
    BY <1>1, <1>5, <2>1, <2>2
<1>6. CASE UNCHANGED coordVars /\ \E m \in net : net' = net \ {m}
  BY <1>1, <1>6
<1> QED
  BY <1>2, <1>3, <1>4, <1>5, <1>6, StepCases

\* What leaves with a list comes back with the next.
LEMMA CarryCorrect == Spec => []CarryInv
<1>1. Init => CarryInv
  BY DEF Init, NetInit, CoordInit, CarryInv, RoundDatagrams, CarriedOrEmpty,
         ReputationList, NoEntries
<1> QED
  BY <1>1, StepCarries, KeyMapCorrect, PhaseCorrect, TypeCorrect, PTL DEF Spec

\* The reputations the coordinator decrypts are those it sent at the end of the
\* round before, owner by owner and as unsigned words, whatever is lost, delayed
\* or launched late (CoordinatorHandler.go:178, Coordinator.go roundEnd).
THEOREM ReputationsCarried == Spec => ReputationCarriedOver
<1> DEFINE A == /\ \A k \in DecryptedKeysMap' : \E j \in DOMAIN keysAndVals :
                      /\ j.base = k.base
                      /\ DecryptedReputationMap'[k] = IntToByte(keysAndVals[j])
                /\ \A j \in DOMAIN keysAndVals :
                      \E k \in DecryptedKeysMap' : j.base = k.base
<1>1. ASSUME NEW m \in net, CoordHandleAnnouncement(m), CarryInv, ComesHomeWhole, G' # G
      PROVE  A
  <2>1. m \in RoundDatagrams /\ m.type = "ANNOUNCEMENT"
    BY <1>1 DEF CoordHandleAnnouncement, Handles, RoundDatagrams
  <2>2. FinishAnnouncement(m)
    BY <1>1 DEF CoordHandleAnnouncement, FinishEmptyList
  <2>3. Carries(m.entries)
    BY <1>1, <2>1, <2>2 DEF CarryInv, CarriedBy, CarriedOrEmpty, FinishAnnouncement
  <2>4. PICK garbled : /\ DecryptedKeysMap' = KeysOf(m.entries)
                       /\ DecryptedReputationMap' = Decrypted(m.entries, garbled)
    BY <2>2 DEF FinishAnnouncement
  <2>5. ASSUME NEW k \in KeysOf(m.entries)
        PROVE  \E e \in m.entries : e.key = k /\ Decrypted(m.entries, garbled)[k] = e.val.rep
    <3>1. PICK e \in m.entries : e.key = k /\ MapOf(m.entries)[k] = e.val
      BY DEF MapOf, KeysOf
    <3>2. e.val.layers = <<>>
      BY <1>1, <2>1 DEF ComesHomeWhole, CoordHandleAnnouncement, Handles
    <3> QED
      BY <3>1, <3>2 DEF Decrypted, Unread, ByteToInt
  <2>6. \A e \in m.entries : e.key \in KeysOf(m.entries)
    BY DEF KeysOf
  <2>7. ASSUME NEW k \in DecryptedKeysMap'
        PROVE  \E j \in DOMAIN keysAndVals :
                  j.base = k.base /\ DecryptedReputationMap'[k] = IntToByte(keysAndVals[j])
    <3>1. PICK e \in m.entries : e.key = k /\ Decrypted(m.entries, garbled)[k] = e.val.rep
      BY <2>4, <2>5
    <3> QED
      BY <2>3, <2>4, <3>1 DEF Carries
  <2>8. \A j \in DOMAIN keysAndVals : \E k \in DecryptedKeysMap' : j.base = k.base
    BY <2>3, <2>4, <2>6 DEF Carries
  <2> QED
    BY <2>7, <2>8
<1>2. ASSUME [Next]_vars, G' # G
      PROVE  \E m \in net : CoordHandleAnnouncement(m)
  <2>1. ~ UNCHANGED coordVars
    BY <1>2 DEF coordVars
  <2>2. ~ MainNext /\ ~ ReadOk
    BY <1>2 DEF MainNext, ReadOk, AwaitReady, ClearBuffer, CheckReady, Announce,
       AwaitMessage, BeginVote, Vote, AddNewClients, SendRoundEnd
  <2>3. ListenerNext
    BY <1>2, <2>1, <2>2, StepCases DEF vars, CoordNext
  <2> QED
    BY <1>2, <2>3
       DEF ListenerNext, CoordHandleServerRegister, CoordHandleClientRegisterControllerSide,
           CoordHandleClientRegisterServerSide, CoordHandleMsg, CoordHandleVote,
           CoordHandleRoundEnd, CoordRoundEndAwake, DiesOfRace, CoordDies, coordVars
<1>3. ASSUME CarryInv, ComesHomeWhole, [Next]_vars PROVE [(G' # G => A)]_G
  BY <1>1, <1>2, <1>3
<1> QED
  BY <1>3, CarryCorrect, HomeWhole, PTL DEF Spec, ReputationCarriedOver

-----------------------------------------------------------------------------
(* The members stay. *)

\* Raised by no server a key is itself, by one more it is raised once more.
LEMMA RaisedStep ==
    ASSUME TypeOK
    PROVE  /\ \A k \in Point : k.exps = <<>> => RaisedKey(k.base, 0) = k
           /\ \A k \in Point, i \in 0 .. Len(ServerList) : RaisedKey(k.base, i) \in Point
           /\ \A k \in Point, i \in Places :
                 Mul(RaisedKey(k.base, i - 1), Roundkey(ServerList[i]))
                    = RaisedKey(k.base, i)
<1> DEFINE n == Len(ServerList)
<1>1. n \in Nat /\ Places = 1 .. n
      /\ \A i \in Places : Roundkey(ServerList[i]) \in Secret
  <2>1. n \in Nat /\ Places = 1 .. n /\ \A i \in Places : ServerList[i] \in Server
    BY Positions
  <2> QED
    BY <2>1 DEF TypeOK, ServerTypeOK, Roundkey, Secret
<1>2. \A k \in Point : k.exps = <<>> => RaisedKey(k.base, 0) = k
  BY DEF Point, RaisedKey
<1>3. ASSUME NEW i \in 0 .. n
      PROVE  [j \in 1 .. i |-> Roundkey(ServerList[j])] \in Seq(Secret)
  <2>1. i \in Nat /\ \A j \in 1 .. i : Roundkey(ServerList[j]) \in Secret
    BY <1>1
  <2> QED
    BY <2>1
<1>4. \A k \in Point, i \in 0 .. n : RaisedKey(k.base, i) \in Point
  BY <1>3 DEF RaisedKey, Point
<1>5. ASSUME NEW k \in Point, NEW i \in Places
      PROVE  Mul(RaisedKey(k.base, i - 1), Roundkey(ServerList[i])) = RaisedKey(k.base, i)
  <2> DEFINE raised(l) == [j \in 1 .. l |-> Roundkey(ServerList[j])]
  <2>1. i - 1 \in 0 .. n /\ i \in 0 .. n
    BY <1>1
  <2>2. raised(i - 1) \in Seq(Secret) /\ raised(i) \in Seq(Secret)
    BY <1>3, <2>1
  <2>3. Len(raised(i - 1)) = i - 1 /\ Len(raised(i)) = i
    BY <2>1
  <2>4. \A j \in 1 .. i : Append(raised(i - 1), Roundkey(ServerList[i]))[j] = raised(i)[j]
    BY <1>1, <2>1, <2>2, <2>3
  <2>5. Append(raised(i - 1), Roundkey(ServerList[i])) = raised(i)
    <3> DEFINE a == Append(raised(i - 1), Roundkey(ServerList[i]))
    <3>1. a \in Seq(Secret) /\ Len(a) = i
      BY <1>1, <2>1, <2>2, <2>3
    <3> HIDE DEF raised
    <3>2. \A j \in 1 .. i : a[j] = raised(i)[j]
      BY <2>4
    <3> HIDE DEF a
    <3>3. a = raised(i)
      BY <2>1, <2>2, <2>3, <3>1, <3>2
    <3> QED
      BY <3>3 DEF a
  <2>6. RaisedKey(k.base, i - 1) = [base |-> k.base, exps |-> raised(i - 1)]
        /\ RaisedKey(k.base, i) = [base |-> k.base, exps |-> raised(i)]
    BY DEF RaisedKey
  <2> HIDE DEF raised
  <2> QED
    BY <2>5, <2>6 DEF Mul
<1> QED
  BY <1>2, <1>4, <1>5

\* Taking the last secret off leaves the key it was put on.
LEMMA MulInjective ==
    ASSUME NEW p \in Point, NEW q \in Point, NEW x \in Secret, Mul(p, x) = Mul(q, x)
    PROVE  p = q
<1>1. Append(p.exps, x) = Append(q.exps, x) /\ p.base = q.base
  BY DEF Mul, Point
<1>2. p.exps \in Seq(Secret) /\ q.exps \in Seq(Secret)
  BY DEF Point
<1>3. Len(p.exps) = Len(q.exps)
  <2>1. Len(Append(p.exps, x)) = Len(p.exps) + 1 /\ Len(Append(q.exps, x)) = Len(q.exps) + 1
    BY <1>2
  <2> QED
    BY <1>1, <1>2, <2>1
<1>4. \A j \in 1 .. Len(p.exps) : p.exps[j] = q.exps[j]
  <2>1. \A j \in 1 .. Len(p.exps) : /\ Append(p.exps, x)[j] = p.exps[j]
                                    /\ Append(q.exps, x)[j] = q.exps[j]
    BY <1>2, <1>3
  <2> QED
    BY <1>1, <2>1
<1>5. p.exps = q.exps
  BY <1>2, <1>3, <1>4
<1> QED
  BY <1>1, <1>5 DEF Point

\* What a server remembers of a raised key is the key as the servers before it
\* raised it.
LEMMA RaisedFrom ==
    ASSUME TypeOK, KeyMapMatchesRoundkey, NEW k \in Point, NEW i \in Places,
           RaisedKey(k.base, i) \in DOMAIN KeyMap[ServerList[i]]
    PROVE  KeyMap[ServerList[i]][RaisedKey(k.base, i)] = RaisedKey(k.base, i - 1)
<1> DEFINE s == ServerList[i]
           p == KeyMap[s][RaisedKey(k.base, i)]
           q == RaisedKey(k.base, i - 1)
<1>1. s \in Server /\ i - 1 \in 0 .. Len(ServerList)
  BY Positions
<1>2. p \in Point /\ RaisedKey(k.base, i) = Mul(p, Roundkey(s))
  BY <1>1 DEF TypeOK, ServerTypeOK, IsMap, KeyMapMatchesRoundkey
<1>3. q \in Point /\ RaisedKey(k.base, i) = Mul(q, Roundkey(s))
  BY <1>1, RaisedStep
<1>4. Roundkey(s) \in Secret
  BY <1>1 DEF TypeOK, ServerTypeOK, Roundkey, Secret
<1> HIDE DEF p, q
<1>5. p = q
  BY <1>2, <1>3, <1>4, MulInjective
<1> QED
  BY <1>5 DEF p, q

\* G is only stored by the handler of an announcement.
LEMMA GeneratorFrom ==
    ASSUME [Next]_vars, G' # G
    PROVE  \E m \in net : CoordHandleAnnouncement(m)
<1>1. ~ UNCHANGED coordVars
  BY DEF coordVars
<1>2. ~ MainNext /\ ~ ReadOk
  BY DEF MainNext, ReadOk, AwaitReady, ClearBuffer, CheckReady, Announce,
     AwaitMessage, BeginVote, Vote, AddNewClients, SendRoundEnd
<1>3. ListenerNext
  BY <1>1, <1>2, StepCases DEF vars, CoordNext
<1> QED
  BY <1>3
     DEF ListenerNext, CoordHandleServerRegister, CoordHandleClientRegisterControllerSide,
         CoordHandleClientRegisterServerSide, CoordHandleMsg, CoordHandleVote,
         CoordHandleRoundEnd, CoordRoundEndAwake, DiesOfRace, CoordDies, coordVars

\* A step is harmless if members, secrets and generator stay, the maps only grow
\* and the datagrams it sends are tracked.
LEMMA MemberFrom ==
    ASSUME TypeOK, MemberInv, mainPc' # "read_ok",
           UNCHANGED <<ServerList, ReputationMap, G, epoch>>,
           \A s \in Server : DOMAIN KeyMap[s] \subseteq DOMAIN KeyMap'[s],
           DecryptedKeysMap \subseteq DecryptedKeysMap',
           DOMAIN DecryptedReputationMap \subseteq DOMAIN DecryptedReputationMap',
           \A r \in net' : IsRound(r) =>
              r \in net \/ (ServerList # <<>> /\ Tracked(r)),
           MessagePhase' => MessagePhase \/ MembersListed
    PROVE  MemberInv'
<1> DEFINE n == Len(ServerList)
<1>1. /\ \A b, i : RaisedKey(b, i)' = RaisedKey(b, i)
      /\ \A i : Hop(i)' = Hop(i)
  BY DEF RaisedKey, Roundkey, Hop, Places
<1>2. n \in Nat /\ Places = 1 .. n /\ \A i \in Places : ServerList[i] \in Server
  BY Positions
<1>3. ASSUME NEW i \in 0 .. n, KeysKnown(i) PROVE KeysKnown(i)'
  <2> SUFFICES ASSUME NEW k \in DOMAIN ReputationMap, NEW j \in 1 .. i
               PROVE  RaisedKey(k.base, j)' \in DOMAIN KeyMap'[ServerList[j]]
    BY DEF KeysKnown
  <2>1. RaisedKey(k.base, j) \in DOMAIN KeyMap[ServerList[j]]
    BY <1>3 DEF KeysKnown
  <2>2. ServerList[j] \in Server
    BY <1>2
  <2> QED
    BY <1>1, <2>1, <2>2
<1>4. \A i : GeneratorOfNow(i) => GeneratorOfNow(i)'
  BY DEF GeneratorOfNow, Roundkey
<1>5. \A k, i : Pseudonymous(k, i)' = Pseudonymous(k, i)
  BY DEF Pseudonymous
<1>6. \A E, i : HasMembers(E, i) => HasMembers(E, i)'
  BY <1>1 DEF HasMembers
<1>7. ASSUME NEW m, NEW i \in 1 .. n + 1, AnnouncementAt(m, i)
      PROVE  AnnouncementAt(m, i)'
  <2>1. i - 1 \in 0 .. n
    BY <1>2
  <2>2. KeysKnown(i - 1)' /\ HasMembers(m.entries, i - 1)'
    BY <1>3, <1>6, <1>7, <2>1 DEF AnnouncementAt
  <2> QED
    BY <1>1, <1>7, <2>2 DEF AnnouncementAt
<1>8. ASSUME NEW m, NEW i \in 0 .. n, RoundEndAt(m, i)
      PROVE  RoundEndAt(m, i)'
  <2>1. KeysKnown(i)' /\ HasMembers(m.entries, i)' /\ GeneratorOfNow(i)'
    BY <1>3, <1>4, <1>6, <1>8 DEF RoundEndAt
  <2>2. G # StdBase => \A e \in m.entries : Pseudonymous(e.key, i)' \in DecryptedKeysMap'
    BY <1>5, <1>8 DEF RoundEndAt
  <2> QED
    BY <1>1, <1>8, <2>1, <2>2 DEF RoundEndAt
<1>9. \A m : Tracked(m) => Tracked(m)'
  BY <1>7, <1>8 DEF Tracked
<1>10. \A m \in RoundDatagrams' : Tracked(m)'
  BY <1>9, RoundDatagramsAre DEF MemberInv, RoundDatagrams, IsRound
<1>11. MembersListed => MembersListed'
  BY <1>1, <1>2, <1>3, <1>4 DEF MembersListed
<1>12. MembersNamed => MembersNamed'
  BY DEF MembersNamed
<1>13. ServerList = <<>> => RoundDatagrams' = {}
  BY RoundDatagramsAre DEF MemberInv, RoundDatagrams, IsRound
<1> QED
  BY <1>10, <1>11, <1>12, <1>13 DEF MemberInv

\* Before the ok there are neither members nor rounds.
LEMMA NoMembersBeforeOk ==
    ASSUME Careful, TypeOK, KeyMapMatchesRoundkey, LinkedInv, ListInv, MemberInv,
           mainPc = "read_ok", Next
    PROVE  MemberInv'
<1>1. RoundDatagrams = {} /\ DOMAIN ReputationMap = {} /\ G = StdBase
  BY DEF ListInv, OnTheWay, RoundDatagrams, IsRound, MemberInv
<1>2. CASE EndConfiguration
  <2>1. /\ UNCHANGED <<net, ReputationMap, G>> /\ mainPc' = "await_ready"
    BY <1>2 DEF EndConfiguration, ReadOk, MainGoto, mapVars
  <2> QED
    BY <1>1, <2>1 DEF MemberInv, RoundDatagrams, MessagePhase, MembersNamed
<1>3. CASE ~ EndConfiguration
  <2>1. mainPc' = "read_ok"
    <3>1. ~ MainNext
      BY DEF MainNext, AwaitReady, ClearBuffer, CheckReady, Announce, AwaitMessage,
         BeginVote, Vote, AddNewClients, SendRoundEnd, MainAt
    <3>2. ListenerNext => UNCHANGED mainPc
      BY DEF ListenerNext, CoordHandleServerRegister,
         CoordHandleClientRegisterControllerSide, CoordHandleClientRegisterServerSide,
         CoordHandleAnnouncement, CoordHandleMsg, CoordHandleVote, CoordHandleRoundEnd,
         CoordRoundEndAwake, DiesOfRace, CoordDies, coordVars, mainVars, MainAt
    <3>3. UNCHANGED coordVars => UNCHANGED mainPc
      BY DEF coordVars, mainVars
    <3> QED
      BY <1>3, <3>1, <3>2, <3>3
         DEF Next, LaunchNext, LaunchServer, LaunchClient, CoordStep, CoordNext,
             ServerStep, ClientStep, NetStep
  <2>2. ListInv'
    BY StepKeepsLists
  <2>3. RoundDatagrams' = {} /\ DOMAIN ReputationMap' = {}
    BY <2>1, <2>2 DEF ListInv, OnTheWay, RoundDatagrams, IsRound
  <2>4. G' = G
    <3>1. ~ \E m \in net : CoordHandleAnnouncement(m)
      BY <1>1 DEF CoordHandleAnnouncement, Handles, RoundDatagrams
    <3> QED
      BY <3>1, GeneratorFrom
  <2> QED
    BY <1>1, <2>1, <2>3, <2>4 DEF MemberInv, MessagePhase, MembersNamed
<1> QED
  BY <1>2, <1>3

\* main announces the members it stored and lists every member at the end of a
\* round.
LEMMA MainKeepsMembers ==
    ASSUME TypeOK, PhaseInv, ListInv, MemberInv, MainNext, mainPc # "read_ok",
           UNCHANGED serverVars
    PROVE  MemberInv'
<1> DEFINE n == Len(ServerList)
<1>0. /\ UNCHANGED <<ServerList, ReputationMap, G, epoch, KeyMap>>
      /\ mainPc' # "read_ok"
  BY DEF MainNext, AwaitReady, ClearBuffer, CheckReady, Announce,
         AwaitMessage, BeginVote, Vote, AddNewClients, SendRoundEnd, chainVars,
         mapVars, serverVars, MainGoto, mainVars
<1>n. n \in Nat /\ Places = 1 .. n /\ \A i \in Places : Hop(i) = ServerList[i]
  BY Positions
<1>1. ASSUME UNCHANGED <<DecryptedKeysMap, DecryptedReputationMap>>,
             \A r \in net' : IsRound(r) =>
                r \in net \/ (ServerList # <<>> /\ Tracked(r)),
             MessagePhase' => MessagePhase \/ MembersListed
      PROVE  MemberInv'
  BY <1>0, <1>1, MemberFrom
<1>2. CASE AwaitReady \/ ClearBuffer \/ CheckReady \/ AwaitMessage \/ BeginVote
  <2>1. UNCHANGED <<net, DecryptedKeysMap, DecryptedReputationMap>>
    BY <1>2 DEF AwaitReady, ClearBuffer, CheckReady, AwaitMessage, BeginVote, mapVars
  <2>2. MessagePhase' => MessagePhase
    BY <1>2 DEF AwaitReady, ClearBuffer, CheckReady, AwaitMessage, BeginVote, MainAt,
       MainGoto, mainVars, MessagePhase
  <2> QED
    BY <1>1, <2>1, <2>2
<1>3. CASE Announce
  <2>1. UNCHANGED <<DecryptedKeysMap, DecryptedReputationMap>> /\ mainPc = "announce"
    BY <1>3 DEF Announce, mapVars, MainAt
  <2>2. CASE ServerList = <<>>
    <3>1. DOMAIN ReputationMap = {} /\ n = 0
      BY <2>2 DEF MemberInv
    <3>2. MembersListed
      BY <3>1 DEF MembersListed, KeysKnown, GeneratorOfNow
    <3>3. UNCHANGED net
      BY <1>3, <2>2 DEF Announce, SkipAnnouncement
    <3> QED
      BY <1>1, <2>1, <3>2, <3>3
  <2>3. CASE ServerList # <<>>
    <3> DEFINE r == Announcement(GetFirstServer, ReputationList, StdBase)
    <3>1. net' = net \cup {r} /\ UNCHANGED Status
      BY <1>3, <2>3 DEF Announce, Send, ReputationList
    <3>2. ~ MessagePhase'
      BY <2>1, <3>1 DEF MessagePhase, PhaseInv
    <3>3. /\ r.type = "ANNOUNCEMENT" /\ r.to = ServerList[1]
          /\ r.entries = ReputationList /\ r.g = StdBase
      BY DEF Announcement, GetFirstServer
    <3> HIDE DEF r
    <3>4. 1 \in Places /\ r.to = Hop(1) /\ 1 \in 1 .. n + 1
      <4>1. n # 0
        BY <2>3 DEF TypeOK, CoordTypeOK
      <4> QED
        BY <1>n, <3>3, <4>1
    <3>5. HasMembers(r.entries, 0)
      <4> SUFFICES ASSUME NEW k \in DOMAIN ReputationMap
                   PROVE  \E e \in ReputationList : e.key = RaisedKey(k.base, 0)
        BY <3>3 DEF HasMembers
      <4>1. k \in Point /\ k.exps = <<>>
        BY DEF TypeOK, CoordTypeOK, IsMap, ListInv
      <4>2. RaisedKey(k.base, 0) = k
        BY <4>1, RaisedStep
      <4>3. [key |-> k, val |-> ReputationMap[k]] \in ReputationList
        BY DEF ReputationList
      <4> QED
        BY <4>2, <4>3
    <3>6. KeysKnown(0) /\ r.g.exps = RaisedKey(r.g.base, 0).exps
      BY <3>3 DEF KeysKnown, StdBase, RaisedKey
    <3>7. r.entries # {} => DOMAIN ReputationMap # {}
      BY <3>3 DEF ReputationList
    <3>8. Tracked(r)
      <4>1. 1 - 1 = 0
        OBVIOUS
      <4>2. AnnouncementAt(r, 1)
        BY <3>4, <3>5, <3>6, <3>7, <4>1 DEF AnnouncementAt
      <4> QED
        BY <3>3, <3>4, <4>2 DEF Tracked
    <3> QED
      BY <1>1, <2>1, <2>3, <3>1, <3>2, <3>8
  <2> QED
    BY <2>2, <2>3
<1>4. CASE Vote
  BY <1>1, <1>4, NotOfARound DEF Vote, Send, MainAt, MainGoto, mapVars, MessagePhase
<1>5. CASE AddNewClients
  <2>1. /\ UNCHANGED net /\ mainPc = "vote_phase"
        /\ DecryptedKeysMap \subseteq DecryptedKeysMap'
        /\ DOMAIN DecryptedReputationMap \subseteq DOMAIN DecryptedReputationMap'
    BY <1>5 DEF AddNewClients, MainAt, mapVars, WithNewClients
  <2>2. MessagePhase' => MessagePhase
    BY <1>5 DEF AddNewClients, MainAt, MainGoto, MessagePhase
  <2> QED
    BY <1>0, <2>1, <2>2, MemberFrom
<1>6. CASE SendRoundEnd
  <2> DEFINE listed == DOMAIN DecryptedReputationMap \cap DecryptedKeysMap
             nil == DOMAIN DecryptedReputationMap \ DecryptedKeysMap
             line(k) == [key |-> k, val |-> Plain(DecryptedReputationMap[k])]
             list == {line(k) : k \in listed}
             r == RoundEnd(lastServer, list, nil # {}, TRUE)
  <2>1. /\ net' = net \cup {r} /\ UNCHANGED <<DecryptedKeysMap, DecryptedReputationMap>>
        /\ mainPc = "round_end" /\ mainPc' = "await_ready"
    BY <1>6 DEF SendRoundEnd, Send, MainAt, mapVars
  <2>2. MembersListed
    BY <2>1 DEF MemberInv, MessagePhase, PhaseInv
  <2>3. ServerList # <<>> /\ lastServer = Hop(n)
    <3>1. lastServer \in Server /\ lastServer = Hop(n)
      BY <2>1 DEF TypeOK, CoordTypeOK, ListInv
    <3>2. n # 0
      BY <3>1, <1>n, AddressAssumption DEF Hop
    <3> QED
      BY <3>1, <3>2
  <2>4. /\ \A e \in list : e.key \in listed
        /\ \A k \in listed : \E e \in list : e.key = k
    <3>1. \A k \in listed : line(k).key = k
      OBVIOUS
    <3> HIDE DEF line, listed
    <3> QED
      BY <3>1
  <2>5. r.type = "ROUND_END" /\ r.to = lastServer /\ r.entries = list
    BY DEF RoundEnd
  <2> HIDE DEF r, list, line
  <2>6. HasMembers(r.entries, n)
    BY <2>2, <2>4, <2>5 DEF HasMembers, MembersListed
  <2>7. ASSUME NEW e \in r.entries PROVE Pseudonymous(e.key, n) \in DecryptedKeysMap
    <3>1. e.key \in DecryptedKeysMap /\ e.key \in Point /\ Len(e.key.exps) = n
      BY <2>4, <2>5, <2>7 DEF ListInv, TypeOK, CoordTypeOK
    <3>2. e.key.exps \in Seq(Secret)
      BY <3>1 DEF Point
    <3>3. e.key.exps = [j \in 1 .. n |-> e.key.exps[j]]
      BY <3>1, <3>2
    <3>4. Pseudonymous(e.key, n) = [base |-> e.key.base, exps |-> e.key.exps]
      <4>1. [j \in 1 .. n |-> IF j <= n THEN e.key.exps[j] ELSE G.exps[j]]
              = [j \in 1 .. n |-> e.key.exps[j]]
        BY <1>n
      <4> QED
        BY <3>3, <4>1 DEF Pseudonymous
    <3>5. Pseudonymous(e.key, n) = e.key
      BY <3>1, <3>4 DEF Point
    <3> QED
      BY <3>1, <3>5
  <2>8. Tracked(r)
    <3>1. RoundEndAt(r, n)
      BY <2>2, <2>3, <2>5, <2>6, <2>7 DEF RoundEndAt, MembersListed
    <3> QED
      BY <1>n, <2>5, <3>1 DEF Tracked
  <2>9. ~ MessagePhase'
    BY <2>1 DEF MessagePhase
  <2> QED
    BY <1>1, <2>1, <2>3, <2>8, <2>9
<1> QED
  BY <1>2, <1>3, <1>4, <1>5, <1>6 DEF MainNext

\* The last server's list becomes the maps of the new round, and the list of the
\* first server the stored one: every member is in it.
LEMMA ListenerKeepsMembers ==
    ASSUME TypeOK, PhaseInv, Linked, ListInv, MemberInv, ListenerNext, mainPc # "read_ok",
           UNCHANGED serverVars
    PROVE  /\ MemberInv'
           /\ DOMAIN ReputationMap \subseteq DOMAIN ReputationMap'
<1> DEFINE n == Len(ServerList)
<1>0. ClientAddrs \subseteq Addr /\ UNCHANGED <<KeyMap, epoch>>
  BY CoordHelperTypes DEF TypeOK, serverVars
<1>n. n \in Nat /\ Places = 1 .. n
  BY Positions
<1>1. ASSUME NEW m \in net, NEW cause, CoordDies(m, cause)
      PROVE  MemberInv' /\ UNCHANGED ReputationMap
  BY <1>0, <1>1, MemberFrom
     DEF CoordDies, Reply, mapVars, mainVars, chainVars, MessagePhase
<1>2. ASSUME NEW m \in net, CoordHandleServerRegister(m)
      PROVE  FALSE
  BY <1>2 DEF Linked, CoordHandleServerRegister, Handles, Topology, IsTopology
<1>3. ASSUME NEW m \in net,
             \/ CoordHandleClientRegisterControllerSide(m)
             \/ CoordHandleClientRegisterServerSide(m)
             \/ CoordHandleMsg(m)
             \/ CoordHandleVote(m),
             ~ \E cause : CoordDies(m, cause)
      PROVE  MemberInv' /\ UNCHANGED ReputationMap
  <2>1. /\ \A r \in net' : IsRound(r) => r \in net
        /\ UNCHANGED <<Status, ServerList, ReputationMap, G, DecryptedKeysMap>>
        /\ DOMAIN DecryptedReputationMap \subseteq DOMAIN DecryptedReputationMap'
        /\ \/ UNCHANGED mainPc
           \/ mainPc = "clear_buffer" /\ mainPc' = "check_ready"
    <3>2. CASE CoordHandleClientRegisterControllerSide(m)
      BY <1>3, <3>2, NotOfARound
         DEF CoordHandleClientRegisterControllerSide, DiesOfRace, Reply, mainVars,
             mapVars, chainVars
    <3>3. CASE CoordHandleClientRegisterServerSide(m)
      BY <1>3, <3>3, NotOfARound
         DEF CoordHandleClientRegisterServerSide, DiesOfRace, Reply, Confirm,
             mainVars, mapVars, chainVars, MainAt, MainGoto
    <3>4. CASE CoordHandleMsg(m)
      BY <1>3, <3>4, NotOfARound
         DEF CoordHandleMsg, DiesOfRace, Reply, coordVars, mainVars, mapVars,
             chainVars, MainAt, MainGoto
    <3>5. CASE CoordHandleVote(m)
      BY <1>3, <3>5, NotOfARound
         DEF CoordHandleVote, DiesOfRace, Reply, Put, coordVars, mainVars, mapVars,
             chainVars
    <3> QED
      BY <1>3, <3>2, <3>3, <3>4, <3>5
  <2>2. mainPc' # "read_ok" /\ (MessagePhase' => MessagePhase)
    BY <2>1 DEF MessagePhase
  <2> QED
    BY <1>0, <2>1, <2>2, MemberFrom
<1>4. ASSUME NEW m \in net, CoordHandleAnnouncement(m)
      PROVE  MemberInv' /\ UNCHANGED ReputationMap
  <2>1. m \in RoundDatagrams /\ m.type = "ANNOUNCEMENT" /\ m.to = Coord
    BY <1>4 DEF CoordHandleAnnouncement, Handles, RoundDatagrams
  <2>2. RoundDatagrams = {m} /\ ServerList # <<>> /\ mainPc = "await_message"
    BY <2>1 DEF PhaseInv, MemberInv
  <2>3. PICK i \in 1 .. n + 1 : AnnouncementAt(m, i)
    BY <2>1 DEF MemberInv, Tracked
  <2>4. i = n + 1 /\ i - 1 = n
    <3>1. i \in 0 .. n + 1 /\ Hop(i) = Coord
      BY <1>n, <2>1, <2>3 DEF AnnouncementAt
    <3>2. i = n + 1
      BY <1>n, <2>3, <3>1, Positions
    <3> QED
      BY <1>n, <3>2
  <2>5. /\ HasMembers(m.entries, n) /\ KeysKnown(n)
        /\ m.g.exps = RaisedKey(m.g.base, n).exps
        /\ m.entries # {} => DOMAIN ReputationMap # {}
    BY <2>3, <2>4 DEF AnnouncementAt
  <2>6. UNCHANGED <<ServerList, ReputationMap, mainPc>>
    BY <1>4
       DEF CoordHandleAnnouncement, FinishEmptyList, FinishAnnouncement, chainVars,
           mapVars, mainVars
  <2>7. RoundDatagrams' = {}
    <3>1. \A r \in net' : IsRound(r) => r \in net /\ r # m
      <4>1. CASE FinishEmptyList(m)
        BY <4>1 DEF FinishEmptyList, Reply
      <4>2. CASE FinishAnnouncement(m)
        BY <1>0, <4>2, NotOfARound DEF FinishAnnouncement, Reply
      <4> QED
        BY <1>4, <4>1, <4>2 DEF CoordHandleAnnouncement
    <3> QED
      BY <2>2, <3>1 DEF RoundDatagrams, IsRound
  <2>8. ASSUME MembersListed', MembersNamed'
        PROVE  MemberInv'
    BY <2>2, <2>6, <2>7, <2>8 DEF MemberInv
  <2>9. KeysKnown(n)'
    BY <1>0, <2>5, <2>6 DEF KeysKnown, RaisedKey, Roundkey
  <2>10. CASE FinishEmptyList(m)
    <3>1. DOMAIN ReputationMap = {}
      BY <2>5, <2>10 DEF FinishEmptyList, HasMembers
    <3>2. G = StdBase /\ G' = G
      BY <2>10, <3>1 DEF MemberInv, MembersNamed, FinishEmptyList
    <3> QED
      BY <2>6, <2>8, <2>9, <3>1, <3>2 DEF MembersListed, MembersNamed, GeneratorOfNow
  <2>11. CASE FinishAnnouncement(m)
    <3>1. /\ DecryptedKeysMap' = KeysOf(m.entries) /\ G' = m.g
          /\ DOMAIN DecryptedReputationMap' = KeysOf(m.entries)
          /\ DOMAIN ReputationMap # {}
      BY <2>5, <2>11 DEF FinishAnnouncement, Decrypted
    <3>2. \A k \in DOMAIN ReputationMap : RaisedKey(k.base, n) \in KeysOf(m.entries)
      BY <2>5 DEF HasMembers, KeysOf
    <3>3. /\ G'.exps = [j \in 1 .. n |-> Roundkey(ServerList[j])]
      BY <2>5, <3>1 DEF RaisedKey
    <3>4. \A b, j : RaisedKey(b, j)' = RaisedKey(b, j)
      BY <1>0, <2>6 DEF RaisedKey, Roundkey
    <3>5. GeneratorOfNow(n)'
      <4>1. \A j \in 1 .. n : G'.exps[j] = Roundkey(ServerList[j])'
        BY <1>0, <2>6, <3>3 DEF Roundkey
      <4> QED
        BY <4>1, <2>6 DEF GeneratorOfNow
    <3>6. MembersListed'
      <4>1. \A k \in DOMAIN ReputationMap' :
               RaisedKey(k.base, n)' \in DecryptedKeysMap' \cap DOMAIN DecryptedReputationMap'
        BY <2>6, <3>1, <3>2, <3>4
      <4> QED
        BY <2>6, <2>9, <3>5, <4>1 DEF MembersListed
    <3>7. MembersNamed'
      <4>1. Len(G'.exps) = n
        BY <1>n, <3>3
      <4>2. \A k : [base |-> k.base, exps |-> G'.exps] = RaisedKey(k.base, n)
        BY <3>3 DEF RaisedKey
      <4> QED
        BY <2>6, <3>1, <3>2, <4>1, <4>2 DEF MembersNamed
    <3> QED
      BY <2>6, <2>8, <3>6, <3>7
  <2> QED
    BY <1>4, <2>6, <2>10, <2>11 DEF CoordHandleAnnouncement
<1>5. ASSUME NEW m \in net, CoordHandleRoundEnd(m)
      PROVE  /\ MemberInv'
             /\ DOMAIN ReputationMap \subseteq DOMAIN ReputationMap'
  <2>1. m \in RoundDatagrams /\ m.type = "ROUND_END" /\ m.to = Coord
    BY <1>5 DEF CoordHandleRoundEnd, Handles, RoundDatagrams
  <2>2. RoundDatagrams = {m} /\ ServerList # <<>> /\ mainPc \in BetweenRounds
    BY <2>1 DEF PhaseInv, MemberInv
  <2>3. PICK i \in 0 .. n : RoundEndAt(m, i)
    BY <2>1 DEF MemberInv, Tracked
  <2>4. i = 0
    <3>1. i \in 0 .. n + 1 /\ Hop(i) = Coord
      BY <1>n, <2>1, <2>3 DEF RoundEndAt
    <3> QED
      BY <1>n, <2>3, <3>1, Positions
  <2>5. /\ HasMembers(m.entries, 0)
        /\ G # StdBase => \A e \in m.entries : Pseudonymous(e.key, 0) \in DecryptedKeysMap
    BY <2>3, <2>4 DEF RoundEndAt
  <2>6. /\ UNCHANGED <<ServerList, G, DecryptedKeysMap, mainPc>>
        /\ ReputationMap' = MapOf(m.entries)
        /\ DOMAIN ReputationMap' = KeysOf(m.entries)
    BY <1>5 DEF CoordHandleRoundEnd, chainVars, mainVars, MapOf
  <2>7. RoundDatagrams' = {}
    <3>1. \A r \in net' : IsRound(r) => r \in net /\ r # m
      BY <1>0, <1>5, NotOfARound DEF CoordHandleRoundEnd, Reply
    <3> QED
      BY <2>2, <3>1 DEF RoundDatagrams, IsRound
  <2>8. ASSUME NEW k \in DOMAIN ReputationMap PROVE k \in KeysOf(m.entries)
    <3>1. k \in Point /\ k.exps = <<>>
      BY <2>8 DEF TypeOK, CoordTypeOK, IsMap, ListInv
    <3>2. RaisedKey(k.base, 0) = k
      BY <3>1, RaisedStep
    <3> QED
      BY <2>5, <3>2 DEF HasMembers, KeysOf
  <2>9. MembersNamed'
    <3> SUFFICES ASSUME G # StdBase PROVE MembersNamed'
      BY <2>6 DEF MembersNamed
    <3>1. Len(G.exps) = n /\ DOMAIN ReputationMap # {}
      BY DEF MemberInv, MembersNamed
    <3>2. G.exps = [j \in 1 .. n |-> G.exps[j]]
      BY <3>1 DEF TypeOK, CoordTypeOK, Point
    <3>3. \A k : Pseudonymous(k, 0) = [base |-> k.base, exps |-> G.exps]
      <4>1. \A k : [j \in 1 .. n |-> IF j <= 0 THEN k.exps[j] ELSE G.exps[j]]
                     = [j \in 1 .. n |-> G.exps[j]]
        BY <1>n
      <4> QED
        BY <3>2, <4>1 DEF Pseudonymous
    <3>4. \A k \in KeysOf(m.entries) :
             [base |-> k.base, exps |-> G.exps] \in DecryptedKeysMap
      BY <2>5, <3>3 DEF KeysOf
    <3> QED
      BY <2>6, <2>8, <3>1, <3>4 DEF MembersNamed
  <2>10. MemberInv'
    BY <2>2, <2>6, <2>7, <2>9 DEF MemberInv, MessagePhase, BetweenRounds
  <2> QED
    BY <2>6, <2>8, <2>10
<1>6. CASE CoordRoundEndAwake
  <2>1. /\ UNCHANGED <<net, ServerList, ReputationMap, G, DecryptedKeysMap,
                      DecryptedReputationMap, mainPc>>
        /\ Status' = "READY_FOR_NEW_ROUND"
    BY <1>6 DEF CoordRoundEndAwake, RoundOver, chainVars, mapVars, mainVars
  <2>2. ~ MessagePhase'
    BY <2>1 DEF MessagePhase
  <2>3. MemberInv'
    BY <1>0, <2>1, <2>2, MemberFrom
  <2> QED
    BY <2>1, <2>3
<1>7. ASSUME UNCHANGED ReputationMap PROVE DOMAIN ReputationMap \subseteq DOMAIN ReputationMap'
  BY <1>7
<1>8. CASE \E m \in net : \/ CoordHandleClientRegisterControllerSide(m)
                          \/ CoordHandleClientRegisterServerSide(m)
                          \/ CoordHandleMsg(m)
                          \/ CoordHandleVote(m)
  BY <1>1, <1>3, <1>7, <1>8
<1> QED
  BY <1>2, <1>4, <1>5, <1>6, <1>7, <1>8 DEF ListenerNext

\* A server knows every member of a list it passes on, and on the way back finds
\* every member again before it forgets them.
LEMMA ServerKeepsMembers ==
    ASSUME TypeOK, KeyMapMatchesRoundkey, PhaseInv, ChainInv, Linked, ListInv, MemberInv,
           ServerNext, mainPc # "read_ok", UNCHANGED coordVars
    PROVE  MemberInv'
<1> DEFINE n == Len(ServerList)
<1>0. /\ UNCHANGED <<ServerList, ReputationMap, G, DecryptedKeysMap,
                     DecryptedReputationMap, mainPc, Status>>
      /\ UNCHANGED <<MessagePhase, Hop(0)>>
      /\ \A i : Hop(i)' = Hop(i)
  BY DEF coordVars, chainVars, mapVars, mainVars, MessagePhase, Hop, Places
<1>n. /\ n \in Nat /\ Places = 1 .. n
      /\ \A i \in Places : ServerList[i] \in Server /\ Hop(i) = ServerList[i]
  BY Positions
<1>1. ASSUME UNCHANGED epoch,
             \A s \in Server : DOMAIN KeyMap[s] \subseteq DOMAIN KeyMap'[s],
             \A r \in net' : IsRound(r) => r \in net
      PROVE  MemberInv'
  BY <1>0, <1>1, MemberFrom
<1>2. ASSUME NEW s \in Server, ServerGivesUp(s)
      PROVE  MemberInv'
  BY <1>1, <1>2 DEF ServerGivesUp
<1>3. ASSUME NEW s \in Server, NEW m \in net,
             \/ ServerHandleRegisterReply(s, m)
             \/ ServerHandleUpdateNextHop(s, m)
             \/ \E cause \in ServerStates : ServerDies(s, m, cause)
      PROVE  MemberInv'
  BY <1>1, <1>3
     DEF ServerHandleRegisterReply, ServerHandleUpdateNextHop, ServerDies, Reply
<1>4. ASSUME NEW s \in Server, NEW S, KeyMap' = [KeyMap EXCEPT ![s] = Recorded(s, S)]
      PROVE  /\ \A t \in Server : DOMAIN KeyMap[t] \subseteq DOMAIN KeyMap'[t]
             /\ \A k \in S : Mul(k, Roundkey(s)) \in DOMAIN KeyMap'[s]
  <2>1. /\ DOMAIN KeyMap[s] \subseteq DOMAIN Recorded(s, S)
        /\ \A k \in S : Mul(k, Roundkey(s)) \in DOMAIN Recorded(s, S)
    BY DEF Recorded
  <2>2. s \in DOMAIN KeyMap
    BY DEF TypeOK, ServerTypeOK
  <2> QED
    BY <1>4, <2>1, <2>2
<1>5. ASSUME NEW s \in Server, NEW m \in net, ServerHandleClientRegister(s, m)
      PROVE  MemberInv'
  <2>1. /\ UNCHANGED epoch /\ \A r \in net' : IsRound(r) => r \in net
        /\ KeyMap' = [KeyMap EXCEPT ![s] = Recorded(s, {m.public_key})]
    BY <1>5, NotOfARound DEF ServerHandleClientRegister, Reply
  <2> QED
    BY <1>1, <1>4, <2>1
<1>6. ASSUME NEW s \in Server, NEW m \in net, ServerHandleAnnouncement(s, m)
      PROVE  MemberInv'
  <2> DEFINE raised(e) == [key |-> Mul(e.key, Roundkey(s)), val |-> Decrypt(e.val)]
             list == {raised(e) : e \in m.entries}
             r == Announcement(NextHop[s], list, RaisedG(s, m.g))
  <2>1. m \in RoundDatagrams /\ m.type = "ANNOUNCEMENT" /\ m.to = s
    BY <1>6 DEF ServerHandleAnnouncement, ServerHandles, RoundDatagrams
  <2>2. PICK i \in 1 .. n + 1 : AnnouncementAt(m, i)
    BY <2>1 DEF MemberInv, Tracked
  <2>3. i \in Places /\ ServerList[i] = s
    <3>1. i \in 0 .. n + 1 /\ Hop(i) \in Server
      BY <1>n, <2>1, <2>2 DEF AnnouncementAt
    <3>2. i \in Places
      BY <3>1, Positions
    <3> QED
      BY <1>n, <2>1, <2>2, <3>2 DEF AnnouncementAt
  <2>4. NextHop[s] = Hop(i + 1) /\ i + 1 \in 1 .. n + 1 /\ i + 1 - 1 = i
    BY <1>n, <2>3 DEF Linked
  <2>5. m.entries \subseteq Entry /\ m.g \in Point
    BY <2>1, AtServer DEF RoundDatagrams, TypeOK
  <2>6. CASE ServerDies(s, m, "decrypt")
    BY <1>3, <2>6 DEF ServerStates
  <2>7. CASE ~ ServerDies(s, m, "decrypt")
    <3>1. /\ Reply(m, {r}) /\ UNCHANGED epoch
          /\ KeyMap' = [KeyMap EXCEPT ![s] = Recorded(s, KeysOf(m.entries))]
      BY <1>6, <2>7 DEF ServerHandleAnnouncement, Raised
    <3>2. /\ \A t \in Server : DOMAIN KeyMap[t] \subseteq DOMAIN KeyMap'[t]
          /\ \A e \in m.entries : Mul(e.key, Roundkey(s)) \in DOMAIN KeyMap'[s]
      <4>1. /\ \A t \in Server : DOMAIN KeyMap[t] \subseteq DOMAIN KeyMap'[t]
            /\ \A k \in KeysOf(m.entries) : Mul(k, Roundkey(s)) \in DOMAIN KeyMap'[s]
        BY <1>4, <3>1
      <4>2. \A e \in m.entries : e.key \in KeysOf(m.entries)
        BY DEF KeysOf
      <4> QED
        BY <4>1, <4>2
    <3>p. PICK o, rows : o = r /\ rows = list
      OBVIOUS
    <3>3. /\ o.type = "ANNOUNCEMENT" /\ o.to = Hop(i + 1) /\ o.entries = rows
          /\ o.g = RaisedG(s, m.g)
      BY <2>4, <3>p DEF Announcement
    <3>4. /\ \A e \in m.entries : \E f \in rows : f.key = Mul(e.key, Roundkey(s))
          /\ rows # {} => m.entries # {}
      <4>1. \A e \in m.entries : raised(e).key = Mul(e.key, Roundkey(s))
        OBVIOUS
      <4> HIDE DEF raised
      <4> QED
        BY <3>p, <4>1
    <3> HIDE DEF r, list, raised
    <3>5. \A b, j : RaisedKey(b, j)' = RaisedKey(b, j)
      BY <1>0, <3>1 DEF RaisedKey, Roundkey
    <3>6. ASSUME NEW k \in DOMAIN ReputationMap
          PROVE  /\ \E f \in rows : f.key = RaisedKey(k.base, i)
                 /\ RaisedKey(k.base, i) \in DOMAIN KeyMap'[s]
      <4>1. k \in Point
        BY DEF TypeOK, CoordTypeOK, IsMap
      <4>2. PICK e \in m.entries : e.key = RaisedKey(k.base, i - 1)
        BY <2>2 DEF AnnouncementAt, HasMembers
      <4>3. Mul(e.key, Roundkey(s)) = RaisedKey(k.base, i)
        BY <2>3, <4>1, <4>2, RaisedStep
      <4> QED
        BY <3>2, <3>4, <4>3
    <3>7. HasMembers(rows, i)'
      BY <1>0, <3>5, <3>6 DEF HasMembers
    <3>8. KeysKnown(i)'
      <4> SUFFICES ASSUME NEW k \in DOMAIN ReputationMap, NEW j \in 1 .. i
                   PROVE  RaisedKey(k.base, j) \in DOMAIN KeyMap'[ServerList[j]]
        BY <1>0, <3>5 DEF KeysKnown
      <4>1. CASE j = i
        BY <2>3, <3>6, <4>1
      <4>2. CASE j # i
        <5>1. j \in 1 .. i - 1 /\ ServerList[j] \in Server
          BY <1>n, <2>3, <4>2
        <5>2. RaisedKey(k.base, j) \in DOMAIN KeyMap[ServerList[j]]
          BY <2>2, <5>1 DEF AnnouncementAt, KeysKnown
        <5> QED
          BY <3>2, <5>1, <5>2
      <4> QED
        BY <4>1, <4>2
    <3>9. o.g.exps = RaisedKey(o.g.base, i).exps
      <4>1. m.g.exps = RaisedKey(m.g.base, i - 1).exps
        BY <2>2 DEF AnnouncementAt
      <4>2. RaisedKey(m.g.base, i - 1) = m.g
        BY <2>5, <4>1 DEF RaisedKey, Point
      <4>3. o.g = RaisedKey(m.g.base, i)
        BY <2>3, <2>5, <3>3, <4>2, RaisedStep DEF RaisedG
      <4> QED
        BY <4>3 DEF RaisedKey
    <3>10. rows # {} => DOMAIN ReputationMap # {}
      BY <2>2, <3>4 DEF AnnouncementAt
    <3>11. AnnouncementAt(o, i + 1)'
      BY <1>0, <2>4, <3>3, <3>5, <3>7, <3>8, <3>9, <3>10 DEF AnnouncementAt
    <3>12. Tracked(o)'
      BY <1>0, <2>4, <3>3, <3>11 DEF Tracked
    <3>13. RoundDatagrams' \subseteq {o}
      <4>1. RoundDatagrams = {m}
        BY <2>1 DEF PhaseInv
      <4> QED
        BY <3>1, <3>p, <4>1 DEF RoundDatagrams, Reply
    <3>14. ~ MessagePhase
      BY <2>1 DEF PhaseInv, MessagePhase
    <3>15. MembersNamed'
      BY <1>0 DEF MemberInv, MembersNamed
    <3>16. ServerList # <<>>
      BY <2>1 DEF MemberInv
    <3> QED
      BY <1>0, <3>12, <3>13, <3>14, <3>15, <3>16 DEF MemberInv
  <2> QED
    BY <2>6, <2>7
<1>7. ASSUME NEW s \in Server, NEW m \in net, ServerHandleRoundEnd(s, m)
      PROVE  MemberInv'
  <2> DEFINE known == {e \in Words(m) : e.key \in DOMAIN KeyMap[s]}
             missing == ~ KeysOf(m.entries) \subseteq DOMAIN KeyMap[s]
             restored(w) == [key |-> KeyMap[s][w.key], val |-> Encrypt(w.val, s)]
             list == {restored(w) : w \in known}
             r == RoundEnd(PreviousHop[s], list, missing, FALSE)
  <2>1. m \in RoundDatagrams /\ m.type = "ROUND_END" /\ m.to = s
    BY <1>7 DEF ServerHandleRoundEnd, ServerHandles, RoundDatagrams
  <2>2. PICK i \in 0 .. n : RoundEndAt(m, i)
    BY <2>1 DEF MemberInv, Tracked
  <2>3. i \in Places /\ ServerList[i] = s
    <3>1. i \in 0 .. n + 1 /\ Hop(i) \in Server
      BY <1>n, <2>1, <2>2 DEF RoundEndAt
    <3>2. i \in Places
      BY <3>1, Positions
    <3> QED
      BY <1>n, <2>1, <2>2, <3>2 DEF RoundEndAt
  <2>4. PreviousHop[s] = Hop(i - 1) /\ i - 1 \in 0 .. n
    BY <1>n, <2>3 DEF Linked
  <2>5. m.entries \subseteq Entry
    BY <2>1, AtServer DEF RoundDatagrams, TypeOK
  <2>6. CASE ServerDies(s, m, "index") \/ ServerDies(s, m, "nil_key")
    BY <1>3, <2>6 DEF ServerStates
  <2>7. CASE ~ (ServerDies(s, m, "index") \/ ServerDies(s, m, "nil_key"))
    <3>1. /\ Reply(m, {r}) /\ epoch' = [epoch EXCEPT ![s] = @ + 1]
          /\ KeyMap' = [KeyMap EXCEPT ![s] = NoEntries]
      BY <1>7, <2>7 DEF ServerHandleRoundEnd, PickRoundkey, ForgetKeys, Restored
    <3> HIDE DEF missing
    <3>p. PICK o, rows : o = r /\ rows = list
      OBVIOUS
    <3>2. o.type = "ROUND_END" /\ o.to = Hop(i - 1) /\ o.entries = rows
      BY <2>4, <3>p DEF RoundEnd
    <3>3. /\ \A w \in Words(m) : \E e \in m.entries : e \in Entry /\ w.key = e.key
          /\ \A e \in m.entries : \E w \in Words(m) : w.key = e.key
      <4>1. CASE ~ m.is_start
        BY <2>5, <4>1 DEF Words
      <4>2. CASE m.is_start
        <5> DEFINE word(e) == [e EXCEPT !.val = Plain(IntToByte(e.val.rep))]
        <5>1. Words(m) = {word(e) : e \in m.entries}
          BY <4>2 DEF Words
        <5>2. \A e \in m.entries : e \in Entry /\ word(e).key = e.key
          BY <2>5 DEF Entry
        <5> HIDE DEF word
        <5> QED
          BY <5>1, <5>2
      <4> QED
        BY <4>1, <4>2
    <3>4. /\ \A w \in known : \E f \in rows : f.key = KeyMap[s][w.key]
          /\ \A f \in rows : \E w \in known : f.key = KeyMap[s][w.key]
      <4>1. \A w \in known : restored(w).key = KeyMap[s][w.key]
        OBVIOUS
      <4> HIDE DEF restored, known
      <4> QED
        BY <3>p, <4>1
    <3> HIDE DEF r, list, restored
    <3>5. ASSUME NEW j \in 1 .. i - 1
          PROVE  /\ Roundkey(ServerList[j])' = Roundkey(ServerList[j])
                 /\ KeyMap'[ServerList[j]] = KeyMap[ServerList[j]]
      <4>1. j \in Places /\ j # i
        BY <1>n, <2>3
      <4>2. ServerList[j] \in Server /\ ServerList[j] # s
        BY <1>n, <2>3, <4>1 DEF ChainInv
      <4>3. s \in DOMAIN KeyMap /\ s \in DOMAIN epoch
        BY DEF TypeOK, ServerTypeOK
      <4>4. epoch'[ServerList[j]] = epoch[ServerList[j]]
        BY <3>1, <4>2, <4>3
      <4>5. KeyMap'[ServerList[j]] = KeyMap[ServerList[j]]
        BY <3>1, <4>2, <4>3
      <4> QED
        BY <1>0, <4>4, <4>5 DEF Roundkey
    <3>6. \A b : \A j \in 0 .. i - 1 : RaisedKey(b, j)' = RaisedKey(b, j)
      <4> SUFFICES ASSUME NEW b, NEW j \in 0 .. i - 1
                   PROVE  RaisedKey(b, j)' = RaisedKey(b, j)
        OBVIOUS
      <4>1. [l \in 1 .. j |-> Roundkey(ServerList[l])'] = [l \in 1 .. j |-> Roundkey(ServerList[l])]
        <5>1. \A l \in 1 .. j : l \in 1 .. i - 1
          BY <1>n, <2>3
        <5>2. \A l \in 1 .. j : Roundkey(ServerList[l])' = Roundkey(ServerList[l])
          BY <3>5, <5>1
        <5> QED
          BY <5>2
      <4> QED
        BY <4>1 DEF RaisedKey
    <3>7. ASSUME NEW k \in DOMAIN ReputationMap
          PROVE  \E f \in rows : f.key = RaisedKey(k.base, i - 1)
      <4>1. k \in Point
        BY DEF TypeOK, CoordTypeOK, IsMap
      <4>2. PICK e \in m.entries : e.key = RaisedKey(k.base, i)
        BY <2>2 DEF RoundEndAt, HasMembers
      <4>3. PICK w \in Words(m) : w.key = RaisedKey(k.base, i)
        BY <3>3, <4>2
      <4>4. RaisedKey(k.base, i) \in DOMAIN KeyMap[s]
        <5>1. i \in 1 .. i
          BY <1>n, <2>3
        <5> QED
          BY <2>2, <2>3, <5>1 DEF RoundEndAt, KeysKnown
      <4>5. w \in known
        BY <4>3, <4>4
      <4>6. KeyMap[s][w.key] = RaisedKey(k.base, i - 1)
        BY <2>3, <4>1, <4>3, <4>4, RaisedFrom
      <4> QED
        BY <3>4, <4>5, <4>6
    <3>8. HasMembers(rows, i - 1)'
      <4>1. i - 1 \in 0 .. i - 1
        BY <2>4
      <4> QED
        BY <1>0, <3>6, <3>7, <4>1 DEF HasMembers
    <3>9. KeysKnown(i - 1)'
      <4> SUFFICES ASSUME NEW k \in DOMAIN ReputationMap, NEW j \in 1 .. i - 1
                   PROVE  RaisedKey(k.base, j)' \in DOMAIN KeyMap'[ServerList[j]]
        BY <1>0 DEF KeysKnown
      <4>1. j \in 0 .. i - 1 /\ j \in 1 .. i
        BY <1>n, <2>3
      <4>2. RaisedKey(k.base, j) \in DOMAIN KeyMap[ServerList[j]]
        BY <2>2, <4>1 DEF RoundEndAt, KeysKnown
      <4> QED
        BY <3>5, <3>6, <4>1, <4>2
    <3>10. GeneratorOfNow(i - 1)'
      <4>1. G # StdBase => \A j \in 1 .. i - 1 : G.exps[j] = Roundkey(ServerList[j])'
        <5>1. \A j \in 1 .. i - 1 : j \in 1 .. i
          BY <1>n, <2>3
        <5> QED
          BY <2>2, <3>5, <5>1 DEF RoundEndAt, GeneratorOfNow
      <4> QED
        BY <1>0, <4>1 DEF GeneratorOfNow
    <3>11. ASSUME G # StdBase, NEW f \in rows
           PROVE  Pseudonymous(f.key, i - 1) \in DecryptedKeysMap
      <4>1. PICK w \in known : f.key = KeyMap[s][w.key]
        BY <3>4
      <4>2. f.key \in Point /\ w.key = Mul(f.key, Roundkey(s))
        BY <4>1 DEF TypeOK, ServerTypeOK, IsMap, KeyMapMatchesRoundkey
      <4>3. PICK e \in m.entries : w.key = e.key
        BY <3>3
      <4>4. Pseudonymous(w.key, i) \in DecryptedKeysMap
        BY <2>2, <3>11, <4>3 DEF RoundEndAt
      <4>5. Len(w.key.exps) = i
        <5>1. m \in OnTheWay
          BY <2>1, RoundDatagramsAre DEF OnTheWay
        <5>2. PICK l \in 0 .. n + 1 : InPlace(m, l)
          BY <5>1 DEF ListInv, AllInPlace
        <5>3. l \in Places /\ ServerList[l] = s
          <6>1. Hop(l) \in Server
            BY <2>1, <5>2 DEF InPlace
          <6>2. l \in Places
            BY <5>2, <6>1, Positions
          <6> QED
            BY <1>n, <2>1, <5>2, <6>2 DEF InPlace
        <5>4. l = i
          BY <2>3, <5>3 DEF ChainInv
        <5> QED
          BY <2>1, <4>3, <5>2, <5>4 DEF InPlace
      <4>6. w.key.exps = Append(f.key.exps, Roundkey(s)) /\ w.key.base = f.key.base
        BY <4>2 DEF Mul, Point
      <4>7. f.key.exps \in Seq(Secret)
        BY <4>2 DEF Point
      <4>8. Len(f.key.exps) = i - 1
        <5>1. Len(Append(f.key.exps, Roundkey(s))) = Len(f.key.exps) + 1
          BY <4>7
        <5> QED
          BY <1>n, <4>5, <4>6, <4>7, <5>1
      <4>9. /\ \A j \in 1 .. i - 1 : w.key.exps[j] = f.key.exps[j]
            /\ w.key.exps[i] = Roundkey(s)
        BY <1>n, <2>3, <4>6, <4>7, <4>8
      <4>10. G.exps[i] = Roundkey(s)
        <5>1. i \in 1 .. i
          BY <1>n, <2>3
        <5> QED
          BY <2>2, <2>3, <3>11, <5>1 DEF RoundEndAt, GeneratorOfNow
      <4> DEFINE left(j) == IF j <= i - 1 THEN f.key.exps[j] ELSE G.exps[j]
                 had(j) == IF j <= i THEN w.key.exps[j] ELSE G.exps[j]
      <4>11. \A j \in 1 .. n : left(j) = had(j)
        <5> SUFFICES ASSUME NEW j \in 1 .. n PROVE left(j) = had(j)
          OBVIOUS
        <5>1. CASE j <= i - 1
          <6>1. j \in 1 .. i - 1 /\ j <= i
            BY <1>n, <2>3, <5>1
          <6> QED
            BY <4>9, <5>1, <6>1
        <5>2. CASE j = i
          <6>1. ~ (i <= i - 1) /\ i <= i
            BY <1>n, <2>3
          <6> QED
            BY <4>9, <4>10, <5>2, <6>1
        <5>3. CASE j > i
          <6>1. ~ (j <= i - 1) /\ ~ (j <= i)
            BY <1>n, <2>3, <5>3
          <6> QED
            BY <6>1
        <5> QED
          BY <1>n, <2>3, <5>1, <5>2, <5>3
      <4>12. /\ Pseudonymous(f.key, i - 1) = [base |-> f.key.base, exps |-> [j \in 1 .. n |-> left(j)]]
             /\ Pseudonymous(w.key, i) = [base |-> w.key.base, exps |-> [j \in 1 .. n |-> had(j)]]
        BY DEF Pseudonymous
      <4> HIDE DEF left, had
      <4>13. [j \in 1 .. n |-> left(j)] = [j \in 1 .. n |-> had(j)]
        BY <4>11
      <4> QED
        BY <4>4, <4>6, <4>12, <4>13
    <3>12. RoundEndAt(o, i - 1)'
      <4>1. \A k : Pseudonymous(k, i - 1)' = Pseudonymous(k, i - 1)
        BY <1>0 DEF Pseudonymous
      <4> QED
        BY <1>0, <3>2, <3>8, <3>9, <3>10, <3>11, <4>1 DEF RoundEndAt
    <3>13. Tracked(o)'
      BY <1>0, <2>4, <3>2, <3>12 DEF Tracked
    <3>14. RoundDatagrams' \subseteq {o}
      <4>1. RoundDatagrams = {m}
        BY <2>1 DEF PhaseInv
      <4> QED
        BY <3>1, <3>p, <4>1 DEF RoundDatagrams, Reply
    <3>15. ~ MessagePhase
      BY <2>1 DEF PhaseInv, MessagePhase, BetweenRounds
    <3>16. MembersNamed'
      BY <1>0 DEF MemberInv, MembersNamed
    <3>17. ServerList # <<>>
      BY <2>1 DEF MemberInv
    <3> QED
      BY <1>0, <3>13, <3>14, <3>15, <3>16, <3>17 DEF MemberInv
  <2> QED
    BY <2>6, <2>7
<1> QED
  BY <1>2, <1>3, <1>5, <1>6, <1>7 DEF ServerNext, ServerListenerNext

\* Every step of the system of a careful operator.
LEMMA StepKeepsMembers ==
    ASSUME Careful, TypeOK, KeyMapMatchesRoundkey, PhaseInv, ChainInv, LinkedInv,
           ListInv, MemberInv, [Next]_vars
    PROVE  MemberInv' /\ DOMAIN ReputationMap \subseteq DOMAIN ReputationMap'
<1>1. ASSUME UNCHANGED <<coordVars, serverVars>>, mainPc # "read_ok",
             \A r \in net' : IsRound(r) => r \in net
      PROVE  MemberInv' /\ DOMAIN ReputationMap \subseteq DOMAIN ReputationMap'
  <2>1. /\ UNCHANGED <<ServerList, ReputationMap, G, epoch, KeyMap, DecryptedKeysMap,
                       DecryptedReputationMap, mainPc, Status>>
    BY <1>1 DEF coordVars, chainVars, mapVars, mainVars, serverVars
  <2>2. MemberInv'
    BY <1>1, <2>1, MemberFrom DEF MessagePhase
  <2> QED
    BY <2>1, <2>2
<1>2. CASE UNCHANGED vars
  <2>1. UNCHANGED <<net, ServerList, ReputationMap, G, epoch, KeyMap, DecryptedKeysMap,
                    DecryptedReputationMap, mainPc, Status>>
    BY <1>2 DEF vars, coordVars, chainVars, mapVars, mainVars, serverVars
  <2>2. MemberInv' <=> MemberInv
    BY <2>1 DEF MemberInv, RoundDatagrams, Tracked, AnnouncementAt, RoundEndAt, Hop,
       Places, HasMembers, KeysKnown, RaisedKey, Roundkey, GeneratorOfNow,
       Pseudonymous, MessagePhase, MembersListed, MembersNamed
  <2> QED
    BY <2>1, <2>2
<1>3. CASE Next /\ mainPc = "read_ok"
  <2>1. MemberInv'
    BY <1>3, NoMembersBeforeOk
  <2>2. DOMAIN ReputationMap = {}
    BY <1>3 DEF ListInv
  <2> QED
    BY <2>1, <2>2
<1>4. CASE Next /\ mainPc # "read_ok"
  <2>1. Linked /\ ~ ReadOk
    BY <1>4 DEF LinkedInv, ReadOk, MainAt
  <2>2. CASE CoordNext /\ UNCHANGED serverVars
    <3>1. CASE MainNext
      <4>1. UNCHANGED ReputationMap
        BY <3>1 DEF MainNext, AwaitReady, ClearBuffer, CheckReady, Announce,
         AwaitMessage, BeginVote, Vote, AddNewClients, SendRoundEnd, mapVars
      <4> QED
        BY <1>4, <2>2, <3>1, <4>1, MainKeepsMembers
    <3>2. CASE ListenerNext
      BY <1>4, <2>1, <2>2, <3>2, ListenerKeepsMembers
    <3> QED
      BY <2>2, <3>1, <3>2 DEF CoordNext
  <2>3. CASE ServerNext /\ UNCHANGED coordVars
    <3>1. UNCHANGED ReputationMap
      BY <2>3 DEF coordVars, mapVars
    <3> QED
      BY <1>4, <2>1, <2>3, <3>1, ServerKeepsMembers
  <2>4. ~ \E s \in Server : ServerStart(s)
    BY <2>1 DEF Linked, ServerStart
  <2>5. CASE /\ ClientNext \/ \E c \in Client : Register(c)
             /\ UNCHANGED <<coordVars, serverVars>>
    <3>1. ASSUME NEW c \in Client, Register(c)
          PROVE  \A r \in net' : IsRound(r) => r \in net
      BY <3>1, NotOfARound DEF Register, Send
    <3>2. ClientNext => \A r \in net' : IsRound(r) => r \in net
      BY ClientFlow DEF IsFlow
    <3> QED
      BY <1>1, <1>4, <2>5, <3>1, <3>2
  <2>6. CASE /\ \E m \in net : net' = net \ {m}
             /\ UNCHANGED <<coordVars, serverVars>>
    BY <1>1, <1>4, <2>6
  <2> QED
    BY <1>4, <2>1, <2>2, <2>3, <2>4, <2>5, <2>6, StepCases
<1> QED
  BY <1>2, <1>3, <1>4

\* Every behaviour of a careful operator keeps MemberInv.
LEMMA MembersCorrect ==
    ASSUME Careful
    PROVE  Spec => []MemberInv
<1>1. Init => MemberInv
  BY DEF Init, NetInit, CoordInit, MemberInv, RoundDatagrams, MessagePhase,
         MembersNamed, NoEntries
<1>2. ASSUME TypeOK, KeyMapMatchesRoundkey, PhaseInv, ChainInv, LinkedInv, ListInv,
             MemberInv, [Next]_vars
      PROVE  MemberInv'
  BY <1>2, StepKeepsMembers
<1>3. ~ Lossy
  BY DEF Careful
<1>4. Spec => []ChainInv
  BY <1>3, ChainCorrect
<1> QED
  BY <1>1, <1>2, <1>4, ListsCorrect, LinkedCorrect, KeyMapCorrect, PhaseCorrect,
     TypeCorrect, PTL DEF Spec

\* In the hands of a careful operator nobody drops out of the reputation map: the
\* key of every member is found again by every server on the way home, although a
\* list is built anew, shuffled and stored by other handlers than those that
\* register clients and count votes (CoordinatorHandler.go:255).
THEOREM NobodyDropped ==
    ASSUME Careful
    PROVE  Spec => MembersStay
<1>1. ASSUME TypeOK, KeyMapMatchesRoundkey, PhaseInv, ChainInv, LinkedInv, ListInv,
             MemberInv, [Next]_vars
      PROVE  [(\A c \in Client : Member(c) => Member(c)')]_ReputationMap
  <2>1. DOMAIN ReputationMap \subseteq DOMAIN ReputationMap'
    BY <1>1, StepKeepsMembers
  <2>2. \A c \in Client : Member(c) => Member(c)'
    BY <2>1 DEF Member
  <2> QED
    BY <2>2
<1>2. ~ Lossy
  BY DEF Careful
<1>3. Spec => []ChainInv
  BY <1>2, ChainCorrect
<1> QED
  BY <1>1, <1>3, MembersCorrect, ListsCorrect, LinkedCorrect, KeyMapCorrect,
     PhaseCorrect, TypeCorrect, PTL DEF Spec, MembersStay

-----------------------------------------------------------------------------
(* The pseudonyms of the members. *)

\* A step is harmless if clients only hear of generators that were raised.
LEMMA NymFrom ==
    ASSUME NymInv, UNCHANGED <<clientG, OnetimePseudoNym, storing>>,
           \A r \in net' : r.type = "ANNOUNCEMENT" /\ r.to \in Addr =>
              r \in net \/ r.g # StdBase
    PROVE  NymInv'
BY DEF NymInv

\* The coordinator tells clients the generator of a list that passed a server.
LEMMA CoordKeepsNyms ==
    ASSUME TypeOK, MemberInv, NymInv, CoordNext \/ ReadOk, UNCHANGED clientVars
    PROVE  NymInv'
<1> DEFINE Quiet == \A r \in net' : r.type = "ANNOUNCEMENT" /\ r.to \in Addr => r \in net
<1>0. ClientAddrs \subseteq Addr /\ UNCHANGED <<clientG, OnetimePseudoNym, storing>>
  BY CoordHelperTypes DEF TypeOK, clientVars
<1>1. ASSUME Quiet PROVE NymInv'
  BY <1>0, <1>1, NymFrom
<1>2. CASE MainNext \/ ReadOk
  <2>1. CASE Announce
    <3>1. ServerList # <<>> => GetFirstServer \notin Addr
      BY CoordHelperTypes, AddressAssumption DEF TypeOK
    <3>2. \A e : Announcement(GetFirstServer, e, StdBase).to = GetFirstServer
      BY DEF Announcement
    <3>3. Quiet
      BY <2>1, <3>1, <3>2 DEF Announce, SkipAnnouncement, Send
    <3> QED
      BY <1>1, <3>3
  <2>2. CASE ~ Announce
    <3>1. Quiet
      BY <1>2, <2>2
         DEF MainNext, ReadOk, AwaitReady, ClearBuffer, CheckReady, AwaitMessage,
             BeginVote, Vote, ClientVotePhase, AddNewClients, SendRoundEnd, RoundEnd, Send
    <3> QED
      BY <1>1, <3>1
  <2> QED
    BY <2>1, <2>2
<1>3. ASSUME NEW m \in net, CoordHandleAnnouncement(m)
      PROVE  NymInv'
  <2>1. m \in RoundDatagrams /\ m.type = "ANNOUNCEMENT" /\ m.to = Coord
    BY <1>3 DEF CoordHandleAnnouncement, Handles, RoundDatagrams
  <2>2. CASE FinishEmptyList(m)
    BY <1>1, <2>2 DEF FinishEmptyList, Reply
  <2>3. CASE FinishAnnouncement(m)
    <3>1. PICK i \in 1 .. Len(ServerList) + 1 : AnnouncementAt(m, i)
      BY <2>1 DEF MemberInv, Tracked
    <3>2. Len(ServerList) \in Nat /\ ServerList # <<>> /\ Len(ServerList) # 0
      BY <2>1, Positions DEF MemberInv, TypeOK, CoordTypeOK
    <3>3. i = Len(ServerList) + 1
      <4>1. i \in 0 .. Len(ServerList) + 1 /\ Hop(i) = Coord
        BY <2>1, <3>1, <3>2 DEF AnnouncementAt
      <4> QED
        BY <3>1, <3>2, <4>1, Positions
    <3>4. m.g.exps = [j \in 1 .. Len(ServerList) |-> Roundkey(ServerList[j])]
      BY <3>1, <3>2, <3>3 DEF AnnouncementAt, RaisedKey
    <3>5. Len(m.g.exps) # 0
      BY <3>2, <3>4
    <3>6. m.g # StdBase
      BY <3>5 DEF StdBase
    <3>7. \A a : ClientAnnouncement(a, m.g).g = m.g
      BY DEF ClientAnnouncement
    <3> QED
      BY <1>0, <2>3, <3>6, <3>7, NymFrom DEF FinishAnnouncement, Reply
  <2> QED
    BY <1>3, <2>2, <2>3 DEF CoordHandleAnnouncement
<1>4. ASSUME NEW m \in net,
             \/ CoordHandleServerRegister(m)
             \/ CoordHandleClientRegisterControllerSide(m)
             \/ CoordHandleClientRegisterServerSide(m)
             \/ CoordHandleMsg(m)
             \/ CoordHandleVote(m)
             \/ CoordHandleRoundEnd(m)
      PROVE  Quiet
  <2>1. CASE CoordHandleServerRegister(m)
    BY <2>1 DEF CoordHandleServerRegister, Relink, Reply, ServerRegisterReply,
       UpdateNextHop
  <2>2. CASE CoordHandleClientRegisterControllerSide(m)
    BY <2>2 DEF CoordHandleClientRegisterControllerSide, DiesOfRace, CoordDies, Reply,
       ClientRegisterServerSide
  <2>3. CASE CoordHandleClientRegisterServerSide(m)
    BY <2>3 DEF CoordHandleClientRegisterServerSide, DiesOfRace, CoordDies, Reply,
       Confirm, ClientRegisterConfirmation
  <2>4. CASE CoordHandleMsg(m)
    BY <2>4 DEF CoordHandleMsg, DiesOfRace, CoordDies, Reply, ClientMessage, MsgReply
  <2>5. CASE CoordHandleVote(m)
    BY <2>5 DEF CoordHandleVote, DiesOfRace, CoordDies, Reply, VoteReply
  <2>6. CASE CoordHandleRoundEnd(m)
    BY <2>6 DEF CoordHandleRoundEnd, Reply, ClientRoundEnd
  <2> QED
    BY <1>4, <2>1, <2>2, <2>3, <2>4, <2>5, <2>6
<1>5. CASE CoordRoundEndAwake
  BY <1>1, <1>5 DEF CoordRoundEndAwake
<1> HIDE DEF Quiet
<1> QED
  BY <1>1, <1>2, <1>3, <1>4, <1>5 DEF CoordNext, ListenerNext

\* Servers tell clients nothing.
LEMMA ServerKeepsNyms ==
    ASSUME TypeOK, NymInv, UNCHANGED clientVars,
           ServerNext \/ \E s \in Server : ServerStart(s)
    PROVE  NymInv'
<1>0. UNCHANGED <<clientG, OnetimePseudoNym, storing>>
  BY DEF clientVars
<1>1. ASSUME NEW s \in Server, NEW m \in net, ServerHandleAnnouncement(s, m)
      PROVE  NymInv'
  <2>1. NextHop[s] \notin Addr
    BY AddressAssumption DEF TypeOK, ServerTypeOK
  <2>2. \A e, g : Announcement(NextHop[s], e, g).to = NextHop[s]
    BY DEF Announcement
  <2> QED
    BY <1>0, <1>1, <2>1, <2>2, NymFrom DEF ServerHandleAnnouncement, ServerDies, Reply
<1>2. ASSUME NEW s \in Server, NEW m \in net, ServerHandleRoundEnd(s, m)
      PROVE  NymInv'
  <2>1. \A e, b1, b2 : RoundEnd(PreviousHop[s], e, b1, b2).type = "ROUND_END"
    BY DEF RoundEnd
  <2>2. \A r \in net' : r.type = "ANNOUNCEMENT" => r \in net
    <3> DEFINE known == {e \in Words(m) : e.key \in DOMAIN KeyMap[s]}
               missing == ~ KeysOf(m.entries) \subseteq DOMAIN KeyMap[s]
               out == RoundEnd(PreviousHop[s], Restored(s, known), missing, FALSE)
    <3>1. net' = net \ {m} \/ net' = (net \ {m}) \cup {out}
      BY <1>2 DEF ServerHandleRoundEnd, ServerDies, Reply
    <3>2. out.type = "ROUND_END"
      BY <2>1
    <3> HIDE DEF out
    <3> QED
      BY <3>1, <3>2
  <2> QED
    BY <1>0, <2>2, NymFrom
<1>3. ASSUME NEW s \in Server, NEW m \in net,
             \/ ServerHandleRegisterReply(s, m)
             \/ ServerHandleUpdateNextHop(s, m)
             \/ ServerHandleClientRegister(s, m)
      PROVE  NymInv'
  <2>1. \A r \in net' : r.type = "ANNOUNCEMENT" => r \in net
    BY <1>3 DEF ServerHandleRegisterReply, ServerHandleUpdateNextHop,
       ServerHandleClientRegister, ClientRegisterServerSide, Reply
  <2> QED
    BY <1>0, <2>1, NymFrom
<1>4. ASSUME NEW s \in Server, ServerStart(s) \/ ServerGivesUp(s)
      PROVE  NymInv'
  BY <1>0, <1>4, NymFrom DEF ServerStart, ServerGivesUp, Send, ServerRegister
<1> QED
  BY <1>1, <1>2, <1>3, <1>4 DEF ServerNext, ServerListenerNext

\* handleAnnouncement stores a generator and then the pseudonym made of it.
LEMMA ClientKeepsNyms ==
    ASSUME TypeOK, NymInv, ClientNext \/ \E c \in Client : Register(c)
    PROVE  NymInv'
<1> DEFINE Nym(c) ==
             /\ storing[c] # Nothing => storing[c].g # StdBase
             /\ IF storing[c].field = "OnetimePseudoNym" THEN clientG[c] = storing[c].g
                ELSE OnetimePseudoNym[c] # Unset =>
                       /\ clientG[c] # StdBase
                       /\ OnetimePseudoNym[c] = Pseudonym(clientG[c], c)
           Quiet == \A r \in net' : r.type = "ANNOUNCEMENT" => r \in net
<1>0. /\ NymInv => \A c \in Client : Nym(c)
      /\ Quiet /\ (\A c \in Client : Nym(c)') => NymInv'
  BY DEF NymInv
<1>1. Quiet
  <2>1. ASSUME NEW c \in Client, Register(c) \/ SendRequest(c) PROVE Quiet
    BY <2>1 DEF Register, SendRequest, Send, ClientRegisterControllerSide, SignedMsg,
       SignedVote
  <2>2. ASSUME NEW c \in Client,
               \/ AwaitFirstRound(c) \/ SendMsg(c) \/ SendVote(c) \/ Exit(c)
               \/ ClientListenerNext(c)
        PROVE  Quiet
    BY <2>2
       DEF AwaitFirstRound, SendMsg, SendVote, Exit, Sign, ClientListenerNext,
           ClientStoreG, ClientStoreNym, ClientHandleRegisterConfirmation,
           ClientHandleAnnouncement, ClientHandleMsg, ClientHandleRoundEnd,
           ClientPrints, Reply
  <2> QED
    BY <2>1, <2>2 DEF ClientNext, ClientMainNext
<1>2. CASE UNCHANGED <<clientG, OnetimePseudoNym, storing>>
  BY <1>1, <1>2, NymFrom
<1>3. ASSUME NEW c \in Client, NEW m \in net, ClientHandleAnnouncement(c, m)
      PROVE  NymInv'
  <2>1. /\ storing[c] = Nothing /\ UNCHANGED <<clientG, OnetimePseudoNym>>
        /\ storing' = [storing EXCEPT ![c] = [field |-> "G", g |-> m.g]]
        /\ m.g # StdBase
    BY <1>3, AddressAssumption DEF ClientHandleAnnouncement, ClientHandles, NymInv
  <2>2. \A d \in Client : storing'[d] = IF d = c THEN [field |-> "G", g |-> m.g] ELSE storing[d]
    BY <2>1 DEF TypeOK, ClientTypeOK
  <2>3. ASSUME NEW d \in Client PROVE Nym(d)'
    <3>1. CASE d = c
      <4>1. Nothing.field # "OnetimePseudoNym"
        BY DEF Nothing
      <4> QED
        BY <1>0, <2>1, <2>2, <3>1, <4>1
    <3>2. CASE d # c
      BY <1>0, <2>1, <2>2, <3>2
    <3> QED
      BY <3>1, <3>2
  <2> HIDE DEF Nym, Quiet
  <2> QED
    BY <1>0, <1>1, <2>3
<1>4. ASSUME NEW c \in Client, ClientStoreG(c)
      PROVE  NymInv'
  <2> DEFINE g == storing[c].g
  <2>1. storing[c] = [field |-> "G", g |-> g]
    BY <1>4 DEF ClientStoreG, TypeOK, ClientTypeOK, Nothing
  <2>2. \A d \in Client :
           /\ storing'[d] = IF d = c THEN [field |-> "OnetimePseudoNym", g |-> g]
                            ELSE storing[d]
           /\ clientG'[d] = IF d = c THEN g ELSE clientG[d]
    <3>1. /\ clientG' = [clientG EXCEPT ![c] = g]
          /\ storing' = [storing EXCEPT ![c] = [storing[c] EXCEPT !.field = "OnetimePseudoNym"]]
      BY <1>4 DEF ClientStoreG
    <3>2. [storing[c] EXCEPT !.field = "OnetimePseudoNym"]
             = [field |-> "OnetimePseudoNym", g |-> g]
      <4> DEFINE h == g
      <4>1. storing[c] = [field |-> "G", g |-> h]
        BY <2>1
      <4> HIDE DEF h
      <4>2. [storing[c] EXCEPT !.field = "OnetimePseudoNym"]
               = [field |-> "OnetimePseudoNym", g |-> h]
        BY <4>1
      <4> QED
        BY <4>2 DEF h
    <3> HIDE DEF g
    <3> QED
      BY <3>1, <3>2 DEF TypeOK, ClientTypeOK
  <2>3. UNCHANGED OnetimePseudoNym /\ g # StdBase
    <3>1. storing[c] # Nothing
      BY <2>1 DEF Nothing
    <3> QED
      BY <1>0, <1>4, <3>1 DEF ClientStoreG
  <2>4. ASSUME NEW d \in Client PROVE Nym(d)'
    <3>p. PICK h : h = g
      OBVIOUS
    <3> HIDE DEF g
    <3>1. CASE d = c
      BY <2>2, <2>3, <3>p, <3>1
    <3>2. CASE d # c
      BY <1>0, <2>2, <2>3, <3>2
    <3> QED
      BY <3>1, <3>2
  <2> HIDE DEF Nym, Quiet
  <2> QED
    BY <1>0, <1>1, <2>4
<1>5. ASSUME NEW c \in Client, ClientStoreNym(c)
      PROVE  NymInv'
  <2>1. /\ storing[c].field = "OnetimePseudoNym"
        /\ OnetimePseudoNym' =
              [OnetimePseudoNym EXCEPT ![c] = Pseudonym(storing[c].g, c)]
        /\ storing' = [storing EXCEPT ![c] = Nothing]
        /\ UNCHANGED clientG
    BY <1>5 DEF ClientStoreNym
  <2>2. storing[c] # Nothing /\ clientG[c] = storing[c].g /\ storing[c].g # StdBase
    BY <1>0, <2>1 DEF Nothing
  <2>3. \A d \in Client :
           /\ storing'[d] = IF d = c THEN Nothing ELSE storing[d]
           /\ OnetimePseudoNym'[d] = IF d = c THEN Pseudonym(clientG[c], c)
                                     ELSE OnetimePseudoNym[d]
    BY <2>1, <2>2 DEF TypeOK, ClientTypeOK
  <2>4. ASSUME NEW d \in Client PROVE Nym(d)'
    <3>1. CASE d = c
      <4>1. Nothing.field # "OnetimePseudoNym"
        BY DEF Nothing
      <4> QED
        BY <2>1, <2>2, <2>3, <3>1, <4>1
    <3>2. CASE d # c
      BY <1>0, <2>1, <2>3, <3>2
    <3> QED
      BY <3>1, <3>2
  <2> HIDE DEF Nym, Quiet
  <2> QED
    BY <1>0, <1>1, <2>4
<1>6. ASSUME ~ \E c \in Client : \/ ClientStoreG(c) \/ ClientStoreNym(c)
                                 \/ \E m \in net : ClientHandleAnnouncement(c, m)
      PROVE  UNCHANGED <<clientG, OnetimePseudoNym, storing>>
  BY <1>6
     DEF ClientNext, ClientMainNext, ClientListenerNext, Register, AwaitFirstRound,
         SendRequest, SendMsg, SendVote, Exit, Sign, ClientHandleRegisterConfirmation,
         ClientHandleMsg, ClientHandleRoundEnd, ClientPrints, clientVars
<1> HIDE DEF Nym, Quiet
<1> QED
  BY <1>2, <1>3, <1>4, <1>5, <1>6

\* Every behaviour of a careful operator keeps NymInv.
LEMMA NymsCorrect ==
    ASSUME Careful
    PROVE  Spec => []NymInv
<1>1. Init => NymInv
  BY DEF Init, NetInit, ClientInit, NymInv, Nothing
<1>2. ASSUME TypeOK, MemberInv, NymInv, [Next]_vars
      PROVE  NymInv'
  <2>1. CASE UNCHANGED vars
    BY <1>2, <2>1, NymFrom DEF vars, clientVars
  <2>2. CASE (CoordNext \/ ReadOk) /\ UNCHANGED clientVars
    BY <1>2, <2>2, CoordKeepsNyms
  <2>3. CASE (ServerNext \/ \E s \in Server : ServerStart(s)) /\ UNCHANGED clientVars
    BY <1>2, <2>3, ServerKeepsNyms
  <2>4. CASE ClientNext \/ \E c \in Client : Register(c)
    BY <1>2, <2>4, ClientKeepsNyms
  <2>5. CASE (\E m \in net : net' = net \ {m}) /\ UNCHANGED clientVars
    BY <1>2, <2>5, NymFrom DEF clientVars
  <2> QED
    BY <1>2, <2>1, <2>2, <2>3, <2>4, <2>5, StepCases
<1> QED
  BY <1>1, <1>2, MembersCorrect, TypeCorrect, PTL DEF Spec

\* A member who works with the coordinator's generator finds itself in the
\* coordinator's maps: the pseudonym its own private key gives it is the one the
\* servers gave its long-term key (client.handleAnnouncement, ClientHandler.go).
THEOREM NymsAgree ==
    ASSUME Careful
    PROVE  Spec => []AgreeOnNym
<1>1. ASSUME MemberInv, NymInv PROVE AgreeOnNym
  <2> SUFFICES ASSUME NEW c \in Client, Member(c), storing[c] = Nothing,
                      clientG[c] = G, OnetimePseudoNym[c] # Unset
               PROVE  OnetimePseudoNym[c] \in DecryptedKeysMap
    BY DEF AgreeOnNym
  <2>1. G # StdBase /\ OnetimePseudoNym[c] = Pseudonym(G, c)
    BY <1>1 DEF NymInv, Nothing
  <2>2. PublicKey(c) \in DOMAIN ReputationMap /\ PublicKey(c).base = c
    BY DEF Member, PublicKey
  <2>3. [base |-> c, exps |-> G.exps] \in DecryptedKeysMap
    BY <1>1, <2>1, <2>2 DEF MemberInv, MembersNamed
  <2> QED
    BY <2>1, <2>3 DEF Pseudonym
<1> QED
  BY <1>1, MembersCorrect, NymsCorrect, PTL
=============================================================================
