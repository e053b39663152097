------------------------------ MODULE RoundLists ------------------------------
(***************************************************************************)
(* The lists of a round as the code has them: sequences of points and of   *)
(* encrypted words that are shuffled at every server, next to the proof of *)
(* the shuffle, and the maps they are taken from and stored into.          *)
(*                                                                         *)
(* The servers are linked and numbered along the chain, one list is under  *)
(* way at a time, and nothing is lost: the module AnonCred is about what   *)
(* crosses a list, this one about what happens inside it.                  *)
(***************************************************************************)
EXTENDS ListShuffle, SequencesExt

CONSTANTS
    Client,
    clientKey,      \* the private keys of the clients
    serverKey,      \* those of the servers, in the order of the chain
    RoundSecrets,   \* the secrets a server may pick for a round, a client to sign
    Generators,     \* the points a generator of a round may be
    Blindings,      \* the secrets a shuffle may pick
    Nobody,         \* whose account a key of no client would be
    MaxRounds,      \* bound: rounds begun
    MaxVotes        \* bound: votes per round

ASSUME KeyAssumption ==
    /\ clientKey \in [Client -> Secrets]
    /\ serverKey \in Seq(Secrets) /\ serverKey # <<>>
    /\ RoundSecrets \subseteq Secrets /\ Blindings \subseteq Secrets
    /\ Nobody \notin Client

\* Generators generate: they tell the clients' keys apart.
ASSUME GeneratorAssumption ==
    /\ Generators \subseteq Points /\ Base \in Generators
    /\ \A g \in Generators, k \in RoundSecrets : Mul(g, k) \in Generators
    /\ \A g \in Generators, c, d \in Client :
          Mul(g, clientKey[c]) = Mul(g, clientKey[d]) => c = d

\* The challenge tells a commitment from every other point and has an inverse.
ASSUME ChallengeAssumption ==
    \A m \in Message, g \in Generators, v \in RoundSecrets :
        LET c == hashElGamal(m, Mul(g, v))
        IN  /\ \A p \in Points : hashElGamal(m, p) = c => p = Mul(g, v)
            /\ \A p, q \in Points : Mul(p, c) = Mul(q, c) => p = q

ASSUME BoundAssumption == MaxRounds \in Nat /\ MaxVotes \in Nat

VARIABLES
    Status,                   \* coordinator
    ReputationMap,            \* long-term key -> encrypted reputation
    DecryptedReputationMap,   \* nym -> reputation
    NewClientsBuffer,         \* nyms, whose order makes no difference
    G,                        \* generator of the round; nil is Base
    Roundkey, KeyMap,         \* per server
    params,                   \* the list under way; empty if there is none
    nyms,                     \* client -> pseudonym it computed, if it has one
    registered,               \* the clients that have registered
    round, votes              \* counters for the bounds

vars == <<Status, ReputationMap, DecryptedReputationMap, G, NewClientsBuffer,
          Roundkey, KeyMap, params, nyms, registered, round, votes>>

Servers == DOMAIN serverKey

NoEntries == [k \in {} |-> k]

\* The map (or parameters) g with the entries of f stored into it.
Over(f, g) ==
    [k \in DOMAIN f \cup DOMAIN g |-> IF k \in DOMAIN f THEN f[k] ELSE g[k]]

PublicKey(c) == Mul(Base, clientKey[c])

ServerPublicKey(s) == Mul(Base, serverKey[s])

\* p raised to the round keys of the first n servers.
Along(p, n) ==
    LET raised[i \in 0 .. n] == IF i = 0 THEN p ELSE Mul(raised[i - 1], Roundkey[i])
    IN  raised[n]

\* The orders in which Go may range over a map.
Ranges(map) == {pi \in [1 .. Cardinality(DOMAIN map) -> DOMAIN map] :
                    \A k \in DOMAIN map : \E i \in DOMAIN pi : pi[i] = k}

Init ==
    /\ Status = "READY_FOR_NEW_ROUND"
    /\ ReputationMap = NoEntries
    /\ DecryptedReputationMap = NoEntries
    /\ NewClientsBuffer = {}
    /\ G = Base
    /\ Roundkey \in [Servers -> RoundSecrets]
    /\ KeyMap = [s \in Servers |-> NoEntries]
    /\ params = NoEntries
    /\ nyms = NoEntries
    /\ registered = {}
    /\ round = 0
    /\ votes = 0

-----------------------------------------------------------------------------
(* Values: a word and the servers that encrypted it, innermost first. *)

Plain(word) == [word |-> word, layers |-> <<>>]

Encrypt(val, s) == [val EXCEPT !.layers = Append(@, s)]

CanDecrypt(val, s) == val.layers # <<>> /\ Last(val.layers) = s

Decrypt(val) == [val EXCEPT !.layers = Front(@)]

-----------------------------------------------------------------------------
(* The coordinator. *)

\* announce(): the list in some order of the map.
Announce ==
    /\ Status = "READY_FOR_NEW_ROUND"
    /\ round < MaxRounds
    /\ Status' = "ANNOUNCE"
    /\ \E keys \in Ranges(ReputationMap) :
          params' = [to |-> 1, keys |-> keys,
                     vals |-> [i \in DOMAIN keys |-> ReputationMap[keys[i]]]]
    /\ NewClientsBuffer' = {}
    /\ round' = round + 1
    /\ votes' = 0
    /\ UNCHANGED <<ReputationMap, DecryptedReputationMap, G, Roundkey, KeyMap,
                   nyms, registered>>

\* An empty list only moves Status.  Otherwise the decrypted map is made anew
\* and every registered client is sent the generator (client.handleAnnouncement).
CoordHandleAnnouncement ==
    /\ Status = "ANNOUNCE" /\ params.to = Len(serverKey) + 1
    /\ Status' = "MESSAGE"
    /\ params' = NoEntries
    /\ \/ /\ params.keys = <<>>
          /\ UNCHANGED <<DecryptedReputationMap, G, nyms>>
       \/ /\ params.keys # <<>>
          /\ DecryptedReputationMap' =
                MapOf(params.keys, [i \in DOMAIN params.vals |->
                                       ByteToInt(params.vals[i].word)])
          /\ G' = params.g
          /\ nyms' = [c \in registered |-> Mul(params.g, clientKey[c])]
    /\ UNCHANGED <<ReputationMap, NewClientsBuffer, Roundkey, KeyMap,
                   registered, round, votes>>

\* roundEnd(): new clients enter with 0, the reputations leave as integers.
SendRoundEnd ==
    LET new == NewClientsBuffer
        map == [k \in DOMAIN DecryptedReputationMap \cup new |->
                   IF k \in new THEN 0 ELSE DecryptedReputationMap[k]]
    IN  /\ Status = "MESSAGE" /\ params = NoEntries
        /\ DecryptedReputationMap' = map
        /\ \E keys \in Ranges(map) :
              params' = [to |-> Len(serverKey), keys |-> keys, is_start |-> TRUE,
                         vals |-> [i \in DOMAIN keys |-> map[keys[i]]]]
        /\ UNCHANGED <<Status, ReputationMap, G, NewClientsBuffer, Roundkey,
                       KeyMap, nyms, registered, round, votes>>

CoordHandleRoundEnd ==
    /\ Status = "MESSAGE" /\ params # NoEntries /\ params.to = 0
    /\ ReputationMap' = MapOf(params.keys, params.vals)
    /\ Status' = "READY_FOR_NEW_ROUND"
    /\ params' = NoEntries
    /\ UNCHANGED <<DecryptedReputationMap, G, NewClientsBuffer, Roundkey, KeyMap,
                   nyms, registered, round, votes>>

-----------------------------------------------------------------------------
(* The servers. *)

\* What travels after a shuffle: the shuffled list, and what the next server
\* needs to verify it.  A list of at most one entry travels as it is.
Shuffled(s, newKeys, newVals) ==
    LET size == Len(newKeys)
        Xori == [i \in 1 .. size |-> ServerPublicKey(s)]
    IN  IF size <= 1 THEN {[keys |-> newKeys, vals |-> newVals]}
        ELSE {LET sh == neffShuffle(ServerPublicKey(s), Xori, newKeys, pi, beta)
                  finalKeys == convertToOrigin(sh.Ybar, sh.Ytmp)
              IN  [xbar |-> sh.Xbar, ybar |-> sh.Ybar, keys |-> finalKeys,
                   vals |-> rebindReputation(newKeys, newVals, finalKeys),
                   prev_keys |-> Xori, prev_vals |-> newKeys,
                   public_key |-> ServerPublicKey(s)] :
                 pi \in Orders(size), beta \in [1 .. size -> Blindings]}

\* verifyNeffShuffle, anon.Decrypt and the lookup in KeyMap: where one of them
\* fails the server panics.
Accepts(s) ==
    /\ "xbar" \in DOMAIN params =>
          IsShuffle(params.public_key, params.prev_keys, params.prev_vals,
                    params.xbar, params.ybar)
    /\ \A i \in DOMAIN params.keys :
          IF Status = "ANNOUNCE" THEN CanDecrypt(params.vals[i], s)
          ELSE params.keys[i] \in DOMAIN KeyMap[s]

\* handleAnnouncement: raise the keys and g, peel the values.
ServerHandleAnnouncement(s) ==
    LET newKeys == [i \in DOMAIN params.keys |-> Mul(params.keys[i], Roundkey[s])]
        newVals == [i \in DOMAIN params.keys |-> Decrypt(params.vals[i])]
        g == IF "g" \in DOMAIN params THEN params.g ELSE Base
    IN  /\ Status = "ANNOUNCE" /\ params.to = s
        /\ Accepts(s)
        /\ KeyMap' = [KeyMap EXCEPT ![s] =
              Over(MapOf(newKeys, params.keys), @)]
        /\ \E out \in Shuffled(s, newKeys, newVals) :
              params' = Over([to |-> s + 1, g |-> Mul(g, Roundkey[s])], out)
        /\ UNCHANGED <<Status, ReputationMap, DecryptedReputationMap, G,
                       NewClientsBuffer, Roundkey, nyms, registered, round, votes>>

\* handleRoundEnd: look the keys up, encrypt the values, renew the round key.
ServerHandleRoundEnd(s) ==
    LET start == "is_start" \in DOMAIN params
        byteValList == [i \in DOMAIN params.vals |->
                           IF start THEN Plain(IntToByte(params.vals[i]))
                           ELSE params.vals[i]]
        newKeys == [i \in DOMAIN params.keys |-> KeyMap[s][params.keys[i]]]
        newVals == [i \in DOMAIN params.keys |-> Encrypt(byteValList[i], s)]
    IN  /\ Status = "MESSAGE" /\ params # NoEntries /\ params.to = s
        /\ Accepts(s)
        /\ \E out \in Shuffled(s, newKeys, newVals) :
              params' = Over([to |-> s - 1], out)
        /\ \E k \in RoundSecrets : Roundkey' = [Roundkey EXCEPT ![s] = k]
        /\ KeyMap' = [KeyMap EXCEPT ![s] = NoEntries]
        /\ UNCHANGED <<Status, ReputationMap, DecryptedReputationMap, G,
                       NewClientsBuffer, nyms, registered, round, votes>>

-----------------------------------------------------------------------------
(* The clients. *)

\* Every server raises the key of the new client and remembers it, the
\* coordinator buffers what comes back.
Register(c) ==
    /\ Status = "MESSAGE" /\ params = NoEntries
    /\ c \notin registered
    /\ registered' = registered \cup {c}
    /\ KeyMap' = [s \in Servers |->
                     Over([k \in {Along(PublicKey(c), s)} |-> Along(PublicKey(c), s - 1)],
                          KeyMap[s])]
    /\ NewClientsBuffer' =
          NewClientsBuffer \cup {Along(PublicKey(c), Len(serverKey))}
    /\ UNCHANGED <<Status, ReputationMap, DecryptedReputationMap, G, Roundkey,
                   params, nyms, round, votes>>

\* handleVote on a message of c, who wrote it under the nym it computed.
Vote(c, vote) ==
    LET map == DecryptedReputationMap
    IN  /\ Status = "MESSAGE" /\ params = NoEntries
        /\ votes < MaxVotes
        /\ DecryptedReputationMap' =
              IF nyms[c] \in DOMAIN map THEN [map EXCEPT ![nyms[c]] = @ + vote]
              ELSE Over([k \in {nyms[c]} |-> vote], map)
        /\ votes' = votes + 1
        /\ UNCHANGED <<Status, ReputationMap, G, NewClientsBuffer, Roundkey,
                       KeyMap, params, nyms, registered, round>>

CoordNext == Announce \/ CoordHandleAnnouncement \/ SendRoundEnd \/ CoordHandleRoundEnd

ServerNext == \E s \in Servers : ServerHandleAnnouncement(s) \/ ServerHandleRoundEnd(s)

ClientNext ==
    \/ \E c \in Client : Register(c)
    \/ \E c \in DOMAIN nyms, vote \in {-1, 1} : Vote(c, vote)

Next == CoordNext \/ ServerNext \/ ClientNext

Spec == Init /\ [][Next]_vars

-----------------------------------------------------------------------------
(* Where the reputations are: in the list under way if there is one, else in  *)
(* the map of the phase.  Place is the number of servers that have raised the *)
(* keys there.                                                                *)

Place ==
    IF params = NoEntries THEN IF Status = "MESSAGE" THEN Len(serverKey) ELSE 0
    ELSE IF Status = "ANNOUNCE" THEN params.to - 1 ELSE params.to

Book ==
    IF params # NoEntries
    THEN MapOf(params.keys,
               [i \in DOMAIN params.vals |->
                   IF "is_start" \in DOMAIN params THEN params.vals[i]
                   ELSE ByteToInt(params.vals[i].word)])
    ELSE IF Status = "MESSAGE" THEN DecryptedReputationMap
    ELSE [k \in DOMAIN ReputationMap |-> ByteToInt(ReputationMap[k].word)]

\* Whose account a reputation of the book is: the key it stands under is that
\* client's long-term key, as far raised as keys are at this place.
Account ==
    LET book == Book
        key == [c \in Client |-> Along(PublicKey(c), Place)]
    IN  IF \A p \in DOMAIN book : \E c \in Client : key[c] = p
        THEN [c \in {d \in Client : key[d] \in DOMAIN book} |-> book[key[c]]]
        ELSE [c \in {Nobody} |-> 0]

Ledger == INSTANCE ReputationLedger WITH
    Modulus <- WordModulus, account <- Account

\* However the maps are ranged over, the lists shuffled and the round keys
\* drawn, nothing on the way of a list changes an account: each client keeps its
\* own reputation, under its own keys, through every hop of both directions.
LedgerKept == Ledger!Spec

\* No server panics on a list of the one before: the proof of its shuffle
\* verifies, its values are encrypted for the server in the order they arrive,
\* its keys are those the server raised (AnonServerHandler.go:66, 101, 254).
ListsAccepted ==
    params # NoEntries /\ params.to \in Servers => Accepts(params.to)

\* A request names its sender: signed over the coordinator's generator with the
\* key of one member it verifies under the pseudonym of that member and under
\* no other (ClientHandler.go:101, DissentClient.go:66, Util.go:111 and 134).
SignatureNamesMember ==
    \A c, d \in DOMAIN nyms, m \in Message, v \in RoundSecrets :
        ElGamalVerify(m, nyms[d], ElGamalSign(m, clientKey[c], G, v), G) <=> c = d
=============================================================================
