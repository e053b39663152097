--------------------------- MODULE RoundListsProofs ---------------------------
(***************************************************************************)
(* Theorems about the lists of a round, for any clients, any number of     *)
(* servers, rounds and votes: requests name their senders, no server       *)
(* panics on a list, and nothing on the way of one changes an account.     *)
(***************************************************************************)
EXTENDS RoundLists, ListShuffleProofs, SequenceTheorems

(* Requests name their senders. *)

\* An announcement that has passed a server carries a generator.
CarriesGenerator ==
    Status = "ANNOUNCE" =>
        /\ "g" \in DOMAIN params => params.g \in Generators
        /\ "g" \in DOMAIN params \/ params.to = 1

\* What the clients work with is the coordinator's generator.
NymInv ==
    /\ G \in Generators
    /\ Roundkey \in [Servers -> RoundSecrets]
    /\ registered \subseteq Client
    /\ DOMAIN nyms \subseteq Client
    /\ \A c \in DOMAIN nyms : nyms[c] = Mul(G, clientKey[c])
    /\ CarriesGenerator

\* Nobody has a pseudonym before the first round.
LEMMA NymInit == Init => NymInv
  BY GeneratorAssumption DEF Init, NymInv, CarriesGenerator, NoEntries

\* The first server starts from the standard base.
LEMMA AnnounceKeeps == NymInv /\ Announce => NymInv'
<1> SUFFICES ASSUME NymInv, Announce PROVE NymInv'
  OBVIOUS
<1>1. PICK keys \in Ranges(ReputationMap) :
          params' = [to |-> 1, keys |-> keys,
                     vals |-> [i \in DOMAIN keys |-> ReputationMap[keys[i]]]]
  BY DEF Announce
<1>2. "g" \notin DOMAIN params' /\ params'.to = 1
  BY <1>1
<1> QED
  BY <1>2 DEF NymInv, CarriesGenerator, Announce

\* The generator that came home is the one clients compute with.
LEMMA CoordAnnouncementKeeps == NymInv /\ CoordHandleAnnouncement => NymInv'
<1> SUFFICES ASSUME NymInv, CoordHandleAnnouncement PROVE NymInv'
  OBVIOUS
<1>1. CarriesGenerator'
  BY DEF CoordHandleAnnouncement, CarriesGenerator
<1>2. CASE params.keys = <<>>
  BY <1>1, <1>2 DEF NymInv, CoordHandleAnnouncement
<1>3. CASE params.keys # <<>>
  <2>1. params.to # 1
    <3>1. Len(serverKey) \in Nat /\ Len(serverKey) # 0
      BY KeyAssumption
    <3> QED
      BY <3>1 DEF CoordHandleAnnouncement
  <2>2. params.g \in Generators
    BY <2>1 DEF NymInv, CarriesGenerator, CoordHandleAnnouncement
  <2>3. G' = params.g /\ nyms' = [c \in registered |-> Mul(params.g, clientKey[c])]
    BY <1>3 DEF CoordHandleAnnouncement
  <2> QED
    BY <1>1, <2>2, <2>3 DEF NymInv, CoordHandleAnnouncement
<1> QED
  BY <1>2, <1>3

\* A server raises a generator to a generator.
LEMMA ServerAnnouncementKeeps ==
    ASSUME NymInv, NEW s \in Servers, ServerHandleAnnouncement(s)
    PROVE  NymInv'
<1> DEFINE g == IF "g" \in DOMAIN params THEN params.g ELSE Base
<1>1. g \in Generators
  BY GeneratorAssumption DEF NymInv, CarriesGenerator, ServerHandleAnnouncement
<1>2. Roundkey[s] \in RoundSecrets
  BY DEF NymInv
<1>3. Mul(g, Roundkey[s]) \in Generators
  BY <1>1, <1>2, GeneratorAssumption
<1>4. PICK out : params' = Over([to |-> s + 1, g |-> Mul(g, Roundkey[s])], out)
  BY DEF ServerHandleAnnouncement
<1>5. "g" \in DOMAIN params' /\ params'.g = Mul(g, Roundkey[s])
  <2> HIDE DEF g
  <2> QED
    BY <1>4 DEF Over
<1>6. CarriesGenerator'
  BY <1>3, <1>5 DEF CarriesGenerator
<1> QED
  BY <1>6 DEF NymInv, ServerHandleAnnouncement

\* A new round key is one of those a server may pick.
LEMMA ServerRoundEndKeeps ==
    ASSUME NymInv, NEW s \in Servers, ServerHandleRoundEnd(s)
    PROVE  NymInv'
<1>1. Roundkey' \in [Servers -> RoundSecrets]
  BY DEF NymInv, ServerHandleRoundEnd
<1>2. CarriesGenerator'
  BY DEF CarriesGenerator, ServerHandleRoundEnd
<1> QED
  BY <1>1, <1>2 DEF NymInv, ServerHandleRoundEnd

\* Round ends, registrations and votes leave generator and pseudonyms alone.
LEMMA RestKeeps ==
    ASSUME NymInv,
           \/ SendRoundEnd \/ CoordHandleRoundEnd
           \/ \E c \in Client : Register(c)
           \/ \E c \in DOMAIN nyms, vote \in {-1, 1} : Vote(c, vote)
           \/ UNCHANGED vars
    PROVE  NymInv'
<1>1. CASE SendRoundEnd
  BY <1>1 DEF NymInv, CarriesGenerator, SendRoundEnd
<1>2. CASE CoordHandleRoundEnd
  BY <1>2 DEF NymInv, CarriesGenerator, CoordHandleRoundEnd
<1>3. ASSUME NEW c \in Client, Register(c) PROVE NymInv'
  BY <1>3 DEF NymInv, CarriesGenerator, Register
<1>4. ASSUME NEW c \in DOMAIN nyms, NEW vote \in {-1, 1}, Vote(c, vote) PROVE NymInv'
  BY <1>4 DEF NymInv, CarriesGenerator, Vote
<1>5. CASE UNCHANGED vars
  BY <1>5 DEF NymInv, CarriesGenerator, vars
<1> QED
  BY <1>1, <1>2, <1>3, <1>4, <1>5

\* Every step.
LEMMA NymStep == NymInv /\ [Next]_vars => NymInv'
  BY AnnounceKeeps, CoordAnnouncementKeeps, ServerAnnouncementKeeps,
     ServerRoundEndKeeps, RestKeeps DEF Next, CoordNext, ServerNext, ClientNext

\* Pseudonyms over one generator differ as the private keys do.
LEMMA NymNamesMember == NymInv => SignatureNamesMember
<1> SUFFICES ASSUME NymInv, NEW c \in DOMAIN nyms, NEW d \in DOMAIN nyms,
                    NEW m \in Message, NEW v \in RoundSecrets
             PROVE  ElGamalVerify(m, nyms[d], ElGamalSign(m, clientKey[c], G, v), G)
                        <=> c = d
  BY DEF SignatureNamesMember
<1>1. /\ c \in Client /\ d \in Client /\ G \in Generators /\ G \in Points
      /\ nyms[c] = Mul(G, clientKey[c]) /\ nyms[d] = Mul(G, clientKey[d])
  BY GeneratorAssumption DEF NymInv
<1>2. clientKey[c] \in Secrets /\ clientKey[d] \in Secrets /\ v \in Secrets
  BY <1>1, KeyAssumption
<1>3. nyms[d] \in Points
  BY <1>1, <1>2, SecretAssumption
<1>4. /\ \A p \in Points :
            hashElGamal(m, p) = hashElGamal(m, Mul(G, v)) => p = Mul(G, v)
      /\ \A p, q \in Points :
            Mul(p, hashElGamal(m, Mul(G, v))) = Mul(q, hashElGamal(m, Mul(G, v)))
            => p = q
  BY <1>1, ChallengeAssumption
<1>5. ElGamalVerify(m, nyms[d], ElGamalSign(m, clientKey[c], G, v), G)
          <=> nyms[d] = Mul(G, clientKey[c])
  BY <1>1, <1>2, <1>3, <1>4, SignatureNamesSigner
<1>6. nyms[d] = Mul(G, clientKey[c]) <=> c = d
  BY <1>1, GeneratorAssumption
<1> QED
  BY <1>5, <1>6

(* Whoever sends a request in a round, it verifies under the sender's own   *)
(* pseudonym and under nobody else's (ClientHandler.go:101,                 *)
(* CoordinatorHandler.go:95, Util.go:111 and 134).                          *)
THEOREM SendersNamed == Spec => []SignatureNamesMember
<1>1. Init => NymInv
  BY NymInit
<1>2. NymInv /\ [Next]_vars => NymInv'
  BY NymStep
<1>3. NymInv => SignatureNamesMember
  BY NymNamesMember
<1> QED
  BY <1>1, <1>2, <1>3, PTL DEF Spec

-----------------------------------------------------------------------------
(* Keys on the chain. *)

\* A set of naturals with 0 and every successor up to n has all numbers up to n.
LEMMA UpTo ==
    ASSUME NEW n \in Nat, NEW T, 0 \in T, \A i \in 1 .. n : i - 1 \in T => i \in T
    PROVE  0 .. n \subseteq T
<1> DEFINE Rest == (0 .. n) \ T
           Less == OpToRel(<, Nat)
<1> SUFFICES ASSUME Rest # {} PROVE FALSE
  OBVIOUS
<1>1. PICK i \in Rest : \A j \in Rest : <<j, i>> \notin Less
  <2>1. IsWellFoundedOn(Less, Nat)
    BY NatLessThanWellFounded
  <2>2. Rest \subseteq Nat
    OBVIOUS
  <2> HIDE DEF Less, Rest
  <2> QED
    BY <2>1, <2>2, WFMin
<1>2. ASSUME NEW j \in Rest, j < i PROVE FALSE
  <2>1. <<j, i>> \in Nat \X Nat /\ <<j, i>>[1] < <<j, i>>[2]
    BY <1>2
  <2>2. <<j, i>> \in {ss \in Nat \X Nat : ss[1] < ss[2]}
    BY <2>1
  <2>3. <<j, i>> \in Less
    BY <2>2 DEF OpToRel
  <2> QED
    BY <1>1, <2>3
<1>3. i \in 1 .. n /\ i - 1 \in 0 .. n
  OBVIOUS
<1>4. i - 1 \in T
  BY <1>2, <1>3
<1> QED
  BY <1>3, <1>4

\* p raised to the first i of the round keys rk.
Raised(p, rk, i) ==
    LET raised[j \in 0 .. i] == IF j = 0 THEN p ELSE Mul(raised[j - 1], rk[j])
    IN  raised[i]

\* What a key has become at a place of the chain.
LEMMA AlongIs == ASSUME NEW p, NEW i PROVE Along(p, i) = Raised(p, Roundkey, i)
  BY DEF Along, Raised

\* f is the list of p raised by the first j servers, for every j up to i.
Climbs(f, p, rk, i) == f = [j \in 0 .. i |-> IF j = 0 THEN p ELSE Mul(f[j - 1], rk[j])]

\* The list exists, for every length.
LEMMA ClimbExists ==
    ASSUME NEW p, NEW rk, NEW n \in Nat
    PROVE  \A i \in 0 .. n : \E f : Climbs(f, p, rk, i)
<1> DEFINE T == {i \in 0 .. n : \E f : Climbs(f, p, rk, i)}
<1>1. 0 \in T
  <2>1. Climbs([j \in 0 .. 0 |-> p], p, rk, 0)
    BY DEF Climbs
  <2> QED
    BY <2>1
<1>2. ASSUME NEW i \in 1 .. n, i - 1 \in T PROVE i \in T
  <2>1. PICK f : Climbs(f, p, rk, i - 1)
    BY <1>2
  <2> DEFINE g == [j \in 0 .. i |-> IF j = 0 THEN p ELSE Mul(f[j - 1], rk[j])]
  <2>2. \A j \in 1 .. i : g[j - 1] = f[j - 1]
    BY <2>1 DEF Climbs
  <2>3. Climbs(g, p, rk, i)
    BY <2>2 DEF Climbs
  <2> HIDE DEF g
  <2> QED
    BY <2>3
<1> HIDE DEF T
<1>3. 0 .. n \subseteq T
  BY <1>1, <1>2, UpTo
<1> QED
  BY <1>3 DEF T

\* Two of them agree as far as both go.
LEMMA ClimbUnique ==
    ASSUME NEW p, NEW rk, NEW n \in Nat, NEW i \in 0 .. n,
           NEW f, Climbs(f, p, rk, i), NEW g, Climbs(g, p, rk, n)
    PROVE  f[i] = g[i]
<1> DEFINE T == {j \in 0 .. i : f[j] = g[j]}
<1>1. 0 \in T
  BY DEF Climbs
<1>2. ASSUME NEW j \in 1 .. i, j - 1 \in T PROVE j \in T
  BY <1>2 DEF Climbs
<1> HIDE DEF T
<1>3. 0 .. i \subseteq T
  BY <1>1, <1>2, UpTo
<1> QED
  BY <1>3 DEF T

\* Raised is the end of one.
LEMMA RaisedClimbs ==
    ASSUME NEW p, NEW rk, NEW i \in Nat
    PROVE  \E f : Climbs(f, p, rk, i) /\ Raised(p, rk, i) = f[i]
<1> DEFINE f == CHOOSE f : f = [j \in 0 .. i |-> IF j = 0 THEN p ELSE Mul(f[j - 1], rk[j])]
<1>1. \E h : Climbs(h, p, rk, i)
  <2>1. i \in 0 .. i
    OBVIOUS
  <2> QED
    BY <2>1, ClimbExists
<1>2. Climbs(f, p, rk, i)
  BY <1>1 DEF Climbs
<1>3. Raised(p, rk, i) = f[i]
  BY DEF Raised
<1> QED
  BY <1>2, <1>3

\* A server multiplies what its predecessors made.
LEMMA RaisedStep ==
    ASSUME NEW p, NEW rk
    PROVE  /\ Raised(p, rk, 0) = p
           /\ \A i \in Nat \ {0} : Raised(p, rk, i) = Mul(Raised(p, rk, i - 1), rk[i])
<1>1. Raised(p, rk, 0) = p
  BY RaisedClimbs DEF Climbs
<1>2. ASSUME NEW i \in Nat \ {0} PROVE Raised(p, rk, i) = Mul(Raised(p, rk, i - 1), rk[i])
  <2>1. PICK g : Climbs(g, p, rk, i) /\ Raised(p, rk, i) = g[i]
    BY RaisedClimbs
  <2>2. PICK f : Climbs(f, p, rk, i - 1) /\ Raised(p, rk, i - 1) = f[i - 1]
    BY RaisedClimbs
  <2>3. f[i - 1] = g[i - 1]
    BY <2>1, <2>2, ClimbUnique
  <2>4. g[i] = Mul(g[i - 1], rk[i])
    BY <2>1 DEF Climbs
  <2> QED
    BY <2>1, <2>2, <2>3, <2>4
<1> QED
  BY <1>1, <1>2

\* The key of c as the first i servers raise it with the round keys rk.
KeyUnder(rk, c, i) == Raised(PublicKey(c), rk, i)

\* The keys of all clients there.
KeysUnder(rk, i) == [c \in Client |-> KeyUnder(rk, c, i)]

\* There is a first server and a last one.
LEMMA ChainLength == Len(serverKey) \in Nat \ {0} /\ Servers = 1 .. Len(serverKey)
  BY KeyAssumption DEF Servers

\* A key at a place is the generator of that place raised to the private key.
LEMMA KeyOfGenerator ==
    ASSUME NEW rk \in [Servers -> RoundSecrets], NEW i \in 0 .. Len(serverKey)
    PROVE  /\ Raised(Base, rk, i) \in Generators
           /\ \A c \in Client : KeyUnder(rk, c, i) = Mul(Raised(Base, rk, i), clientKey[c])
<1> DEFINE Good(j) == /\ Raised(Base, rk, j) \in Generators
                      /\ \A c \in Client : KeyUnder(rk, c, j)
                                               = Mul(Raised(Base, rk, j), clientKey[c])
           T == {j \in 0 .. Len(serverKey) : Good(j)}
<1>1. 0 \in T
  BY RaisedStep, GeneratorAssumption, ChainLength DEF KeyUnder, PublicKey
<1>2. ASSUME NEW j \in 1 .. Len(serverKey), j - 1 \in T PROVE j \in T
  <2> DEFINE g == Raised(Base, rk, j - 1)
  <2>1. /\ j \in Nat \ {0} /\ rk[j] \in RoundSecrets /\ rk[j] \in Secrets
    BY ChainLength, KeyAssumption
  <2>2. /\ g \in Generators /\ g \in Points
        /\ Raised(Base, rk, j) = Mul(g, rk[j]) /\ Mul(g, rk[j]) \in Generators
    <3>1. Raised(Base, rk, j) = Mul(g, rk[j])
      BY <2>1, RaisedStep
    <3>2. g \in Generators
      BY <1>2
    <3> HIDE DEF g
    <3> QED
      BY <3>1, <3>2, <2>1, GeneratorAssumption
  <2>3. ASSUME NEW c \in Client
        PROVE  KeyUnder(rk, c, j) = Mul(Mul(g, rk[j]), clientKey[c])
    <3>1. KeyUnder(rk, c, j) = Mul(KeyUnder(rk, c, j - 1), rk[j])
      BY <2>1, RaisedStep DEF KeyUnder
    <3>2. KeyUnder(rk, c, j - 1) = Mul(g, clientKey[c])
      BY <1>2
    <3>3. clientKey[c] \in Secrets
      BY KeyAssumption
    <3>4. Mul(Mul(g, clientKey[c]), rk[j]) = Mul(Mul(g, rk[j]), clientKey[c])
      BY <3>3, <2>1, <2>2, SecretAssumption
    <3> QED
      BY <3>1, <3>2, <3>4
  <2> QED
    BY <2>2, <2>3
<1> HIDE DEF T
<1>3. 0 .. Len(serverKey) \subseteq T
  BY <1>1, <1>2, UpTo, ChainLength
<1> QED
  BY <1>3 DEF T

\* Keys are points, and wherever they are, no two clients have the same.
LEMMA KeysDiffer ==
    ASSUME NEW rk \in [Servers -> RoundSecrets], NEW i \in 0 .. Len(serverKey)
    PROVE  KeysUnder(rk, i) \in Injection(Client, Points)
<1>1. /\ Raised(Base, rk, i) \in Generators
      /\ \A c \in Client : KeyUnder(rk, c, i) = Mul(Raised(Base, rk, i), clientKey[c])
  BY KeyOfGenerator
<1>2. \A c \in Client : clientKey[c] \in Secrets
  BY KeyAssumption
<1>3. \A c \in Client : KeyUnder(rk, c, i) \in Points
  BY <1>1, <1>2, GeneratorAssumption, SecretAssumption
<1>4. \A c, d \in Client : KeyUnder(rk, c, i) = KeyUnder(rk, d, i) => c = d
  BY <1>1, GeneratorAssumption
<1> QED
  BY <1>3, <1>4 DEF KeysUnder, Injection, IsInjective

\* Only the round keys passed matter.
LEMMA RaisedAlike ==
    ASSUME NEW p, NEW rk, NEW new, NEW i \in Nat, \A j \in 1 .. i : new[j] = rk[j]
    PROVE  Raised(p, new, i) = Raised(p, rk, i)
<1> DEFINE T == {j \in 0 .. i : Raised(p, new, j) = Raised(p, rk, j)}
<1>1. 0 \in T
  BY RaisedStep
<1>2. ASSUME NEW j \in 1 .. i, j - 1 \in T PROVE j \in T
  <2>1. j \in Nat \ {0}
    OBVIOUS
  <2>2. /\ Raised(p, new, j) = Mul(Raised(p, new, j - 1), new[j])
        /\ Raised(p, rk, j) = Mul(Raised(p, rk, j - 1), rk[j])
    BY <2>1, RaisedStep, ZenonT(30)
  <2> QED
    BY <1>2, <2>2
<1> HIDE DEF T
<1>3. 0 .. i \subseteq T
  BY <1>1, <1>2, UpTo
<1> QED
  BY <1>3 DEF T

\* The range over a map of keys names every owner once.
LEMMA RangeIsOrder ==
    ASSUME NEW M \in SUBSET Client, IsFiniteSet(M), NEW key \in Injection(Client, Points),
           NEW map, DOMAIN map = KeySet(key, M), NEW keys \in Ranges(map)
    PROVE  \E N, who : N \in Nat /\ Order(who, N, M) /\ keys = KeyList(key, who, N)
<1> USE DEF KeySet
<1> DEFINE N == Cardinality(DOMAIN map)
<1>1. IsFiniteSet(DOMAIN map)
  <2> DEFINE f == [c \in M |-> key[c]]
  <2>1. f \in Surjection(M, DOMAIN map)
    BY DEF Surjection
  <2> QED
    BY <2>1, FS_Surjection
<1>2. N \in Nat
  BY <1>1, FS_CardinalityType
<1>3. keys \in [1 .. N -> DOMAIN map] /\ \A k \in DOMAIN map : \E i \in 1 .. N : keys[i] = k
  BY DEF Ranges
<1>4. \A j, k \in 1 .. N : keys[j] = keys[k] => j = k
  <2>1. keys \in Surjection(1 .. N, DOMAIN map)
    BY <1>3 DEF Surjection
  <2>2. IsFiniteSet(1 .. N) /\ Cardinality(1 .. N) = Cardinality(DOMAIN map)
    BY <1>2, FS_Interval
  <2>3. keys \in Injection(1 .. N, DOMAIN map)
    BY <2>1, <2>2, FS_SurjSameCardinalityImpliesInj
  <2> QED
    BY <2>3, <1>3 DEF Injection, IsInjective
<1> HIDE DEF N
<1> DEFINE who == [k \in 1 .. N |-> CHOOSE c \in M : key[c] = keys[k]]
<1>5. ASSUME NEW k \in 1 .. N PROVE who[k] \in M /\ key[who[k]] = keys[k]
  <2>1. \E c \in M : key[c] = keys[k]
    BY <1>3
  <2> QED
    BY <2>1
<1> HIDE DEF who
<1>6. who \in [1 .. N -> M]
  BY <1>5 DEF who
<1>7. \A j, k \in 1 .. N : who[j] = who[k] => j = k
  BY <1>4, <1>5
<1> USE DEF Injection, IsInjective
<1>8. ASSUME NEW c \in M PROVE \E k \in 1 .. N : who[k] = c
  <2>1. PICK k \in 1 .. N : keys[k] = key[c]
    BY <1>3
  <2> QED
    BY <2>1, <1>5
<1>9. keys = KeyList(key, who, N)
  BY <1>3, <1>5 DEF KeyList
<1> QED
  BY <1>2, <1>6, <1>7, <1>8, <1>9 DEF Order

-----------------------------------------------------------------------------
(* Lists, maps and the accounts in them. *)

\* The account that the book has under each key.
AccountOf(book, key) ==
    IF \A p \in DOMAIN book : \E c \in Client : key[c] = p
    THEN [c \in {d \in Client : key[d] \in DOMAIN book} |-> book[key[c]]]
    ELSE [c \in {Nobody} |-> 0]

\* The account of each client of M under its key.
AccountBy(book, key, M) == [c \in M |-> book[key[c]]]

\* If the book has the keys of M and no others, the accounts are theirs.
LEMMA AccountIs ==
    ASSUME NEW M \in SUBSET Client, NEW book, NEW key \in Injection(Client, Points),
           DOMAIN book = KeySet(key, M)
    PROVE  AccountOf(book, key) = AccountBy(book, key, M)
<1>1. \A p \in DOMAIN book : \E c \in Client : key[c] = p
  BY DEF KeySet
<1>2. {d \in Client : key[d] \in DOMAIN book} = M
  BY DEF KeySet, Injection, IsInjective
<1> QED
  BY <1>1, <1>2 DEF AccountOf, AccountBy

\* A list with the key of every client of M, once, and a value for each.
Listed(p, N, who, M, key) ==
    /\ N \in Nat /\ Order(who, N, M)
    /\ p.keys = KeyList(key, who, N)
    /\ DOMAIN p.vals = 1 .. N

\* A map that has a value of the list under every key of the list.
Maps(map, keys, vals, N) == \A k \in 1 .. N : map[keys[k]] = vals[k]

\* The map made of a list.
LEMMA ListBook ==
    ASSUME NEW M \in SUBSET Client, NEW key \in Injection(Client, Points),
           NEW N \in Nat, NEW who, Order(who, N, M),
           NEW keys, keys = KeyList(key, who, N),
           NEW reps, NEW book, book = MapOf(keys, reps)
    PROVE  /\ DOMAIN book = KeySet(key, M)
           /\ Maps(book, keys, reps, N)
<1>1. DOMAIN book = {keys[k] : k \in 1 .. N}
  BY DEF MapOf, KeyList
<1>2. \A k \in 1 .. N : keys[k] = key[who[k]] /\ who[k] \in M
  BY DEF Order, KeyList
<1>3. \A j, k \in 1 .. N : keys[j] = keys[k] => j = k
  <2>1. \A j, k \in 1 .. N : who[j] = who[k] => j = k
    BY DEF Order
  <2>2. \A c, d \in Client : key[c] = key[d] => c = d
    BY DEF Injection, IsInjective
  <2> QED
    BY <1>2, <2>1, <2>2
<1>4. DOMAIN keys = 1 .. N
  BY DEF KeyList
<1>5. \A k \in 1 .. N : book[keys[k]] = reps[k]
  BY <1>3, <1>4, MapOfAt
<1>6. DOMAIN book = KeySet(key, M)
  <2>1. \A c \in M : \E k \in 1 .. N : keys[k] = key[c]
    BY <1>2 DEF Order
  <2>2. {keys[k] : k \in 1 .. N} = {key[c] : c \in M}
    BY <1>2, <2>1
  <2> QED
    BY <1>1, <2>2 DEF KeySet
<1> QED
  BY <1>5, <1>6 DEF Maps

\* The account has the reputations of a list in the order who.
Credits(account, M, N, who, reps) ==
    /\ account = [c \in M |-> account[c]]
    /\ \A k \in 1 .. N : account[who[k]] = reps[k]

\* The account in a list.
LEMMA ListAccount ==
    ASSUME NEW M \in SUBSET Client, NEW key \in Injection(Client, Points),
           NEW p, NEW N, NEW who, Listed(p, N, who, M, key), NEW reps,
           NEW account, account = AccountOf(MapOf(p.keys, reps), key)
    PROVE  Credits(account, M, N, who, reps)
<1> PICK keys, book : keys = p.keys /\ book = MapOf(p.keys, reps)
  OBVIOUS
<1>0. N \in Nat /\ Order(who, N, M) /\ keys = KeyList(key, who, N)
  BY DEF Listed
<1>1. DOMAIN book = KeySet(key, M) /\ Maps(book, keys, reps, N)
  BY <1>0, ListBook
<1>2. \A k \in 1 .. N : who[k] \in M /\ keys[k] = key[who[k]]
  BY <1>0 DEF Order, KeyList
<1>3. account = AccountBy(book, key, M)
  BY <1>1, AccountIs
<1> QED
  BY <1>1, <1>2, <1>3 DEF AccountBy, Credits, Maps

-----------------------------------------------------------------------------
\* What a server makes of a list of more than one line.
Reordered(s, newKeys, newVals, pi, beta) ==
    LET h == ServerPublicKey(s)
        Xori == [i \in 1 .. Len(newKeys) |-> h]
        sh == neffShuffle(h, Xori, newKeys, pi, beta)
        finalKeys == convertToOrigin(sh.Ybar, sh.Ytmp)
    IN  [xbar |-> sh.Xbar, ybar |-> sh.Ybar, keys |-> finalKeys,
         vals |-> rebindReputation(newKeys, newVals, finalKeys),
         prev_keys |-> Xori, prev_vals |-> newKeys, public_key |-> h]

\* A list travels as it is, or reordered.
LEMMA ShuffledCases ==
    ASSUME NEW s, NEW newKeys, NEW newVals, NEW out \in Shuffled(s, newKeys, newVals)
    PROVE  \/ Len(newKeys) <= 1 /\ out = [keys |-> newKeys, vals |-> newVals]
           \/ \E pi \in Orders(Len(newKeys)), beta \in [1 .. Len(newKeys) -> Blindings] :
                 out = Reordered(s, newKeys, newVals, pi, beta)
<1>1. CASE Len(newKeys) <= 1
  BY <1>1 DEF Shuffled
<1>2. CASE ~ (Len(newKeys) <= 1)
  BY <1>2, SMTT(30) DEF Shuffled, Reordered
<1> QED
  BY <1>1, <1>2

\* The list that leaves has the same lines in some order.
SameLines(out, N, newKeys, newVals) ==
    \E pi \in Orders(N) : /\ out.keys = Reorder(newKeys, pi, N)
                          /\ out.vals = Reorder(newVals, pi, N)

\* A list of length N.
IsList(list, N) == list = [k \in 1 .. N |-> list[k]]

\* Its proof, if there is one, verifies.
Provable(out) ==
    "xbar" \in DOMAIN out =>
        /\ {"public_key", "prev_keys", "prev_vals", "ybar"} \subseteq DOMAIN out
        /\ IsShuffle(out.public_key, out.prev_keys, out.prev_vals, out.xbar, out.ybar)

\* A reordered list has the lines it was made of, and its proof verifies.
LEMMA ReorderedOut ==
    ASSUME NEW s \in Servers, NEW N \in Nat, NEW newKeys \in Injection(1 .. N, Points),
           NEW newVals, NEW pi \in Orders(N), NEW beta \in [1 .. N -> Secrets],
           NEW out, out = Reordered(s, newKeys, newVals, pi, beta)
    PROVE  /\ {"keys", "vals"} \subseteq DOMAIN out
           /\ {"to", "g", "is_start"} \cap DOMAIN out = {}
           /\ Provable(out) /\ SameLines(out, N, newKeys, newVals)
<1> DEFINE h == ServerPublicKey(s)
           Xori == [i \in 1 .. Len(newKeys) |-> h]
<1>1. newKeys \in [1 .. N -> Points] /\ newKeys \in Seq(Points) /\ Len(newKeys) = N
  BY DEF Injection
<1>2. h \in Points
  <2>1. serverKey[s] \in Secrets
    BY KeyAssumption DEF Servers
  <2> QED
    BY <2>1, GroupAssumption, SecretAssumption DEF ServerPublicKey
<1> PICK sh, finalKeys, finalVals :
         /\ sh = neffShuffle(h, Xori, newKeys, pi, beta)
         /\ finalKeys = convertToOrigin(sh.Ybar, sh.Ytmp)
         /\ finalVals = rebindReputation(newKeys, newVals, finalKeys)
  OBVIOUS
<1>3. out = [xbar |-> sh.Xbar, ybar |-> sh.Ybar, keys |-> finalKeys, vals |-> finalVals,
             prev_keys |-> Xori, prev_vals |-> newKeys, public_key |-> h]
  BY DEF Reordered
<1> HIDE DEF h
<1>4. Xori \in [1 .. N -> Points] /\ Xori \in Seq(Points) /\ Len(Xori) = N
  BY <1>1, <1>2
<1> HIDE DEF Xori
<1>5. \A i \in 1 .. N : finalKeys[i] = newKeys[pi[i]] /\ finalVals[i] = newVals[pi[i]]
  <2>1. LET some == neffShuffle(h, Xori, newKeys, pi, beta)
            keys == convertToOrigin(some.Ybar, some.Ytmp)
            vals == rebindReputation(newKeys, newVals, keys)
        IN  \A i \in 1 .. N : keys[i] = newKeys[pi[i]] /\ vals[i] = newVals[pi[i]]
    BY <1>2, <1>4, ShuffleKeepsPairs, SMTT(30)
  <2> QED
    BY <2>1
<1>6. /\ finalKeys = [i \in 1 .. N |-> newKeys[pi[i]]]
      /\ finalVals = [i \in 1 .. N |-> newVals[pi[i]]]
  <2>1. sh.Ybar = [i \in 1 .. N |-> sh.Ybar[i]]
    BY <1>4 DEF neffShuffle
  <2>2. finalKeys = [i \in 1 .. N |-> finalKeys[i]]
    BY <2>1 DEF convertToOrigin
  <2>3. finalVals = [i \in 1 .. N |-> finalVals[i]]
    BY <1>1 DEF rebindReputation
  <2> QED
    BY <2>2, <2>3, <1>5
<1>7. IsShuffle(h, Xori, newKeys, sh.Xbar, sh.Ybar)
  <2>1. /\ pi \in Orders(Len(Xori)) /\ beta \in [1 .. Len(Xori) -> Secrets]
        /\ Len(newKeys) = Len(Xori)
    BY <1>1, <1>4
  <2> QED
    BY <1>1, <1>2, <1>4, <2>1, HonestShuffleVerifies
<1>8. /\ out.keys = finalKeys /\ out.vals = finalVals /\ out.xbar = sh.Xbar
      /\ out.ybar = sh.Ybar /\ out.prev_keys = Xori /\ out.prev_vals = newKeys
      /\ out.public_key = h
      /\ DOMAIN out = {"xbar", "ybar", "keys", "vals", "prev_keys", "prev_vals",
                       "public_key"}
  BY <1>3
<1>9. Provable(out)
  BY <1>7, <1>8 DEF Provable
<1>10. SameLines(out, N, newKeys, newVals)
  BY <1>6, <1>8 DEF SameLines, Reorder
<1> QED
  BY <1>8, <1>9, <1>10

\* What a server sends has the lines it made in some order, with a proof that the
\* next one accepts.
LEMMA ShuffledOut ==
    ASSUME NEW s \in Servers, NEW N \in Nat, NEW newKeys \in Injection(1 .. N, Points),
           NEW newVals, IsList(newVals, N),
           NEW out \in Shuffled(s, newKeys, newVals)
    PROVE  /\ {"keys", "vals"} \subseteq DOMAIN out
           /\ {"to", "g", "is_start"} \cap DOMAIN out = {}
           /\ Provable(out) /\ SameLines(out, N, newKeys, newVals)
<1>1. newKeys \in [1 .. N -> Points] /\ Len(newKeys) = N
  BY DEF Injection
<1>2. CASE out = [keys |-> newKeys, vals |-> newVals]
  <2> DEFINE id == [k \in 1 .. N |-> k]
  <2>1. id \in Orders(N)
    BY DEF Orders
  <2>2. /\ newKeys = [k \in 1 .. N |-> newKeys[id[k]]]
        /\ newVals = [k \in 1 .. N |-> newVals[id[k]]]
    BY <1>1 DEF IsList
  <2> HIDE DEF id
  <2>3. out.keys = newKeys /\ out.vals = newVals /\ DOMAIN out = {"keys", "vals"}
    BY <1>2
  <2>4. SameLines(out, N, newKeys, newVals)
    BY <2>1, <2>2, <2>3 DEF SameLines, Reorder
  <2> QED
    BY <2>3, <2>4 DEF Provable
<1>3. ASSUME NEW pi \in Orders(Len(newKeys)), NEW beta \in [1 .. Len(newKeys) -> Blindings],
             out = Reordered(s, newKeys, newVals, pi, beta)
      PROVE  /\ {"keys", "vals"} \subseteq DOMAIN out
             /\ {"to", "g", "is_start"} \cap DOMAIN out = {}
             /\ Provable(out) /\ SameLines(out, N, newKeys, newVals)
  <2>1. pi \in Orders(N) /\ beta \in [1 .. N -> Secrets]
    BY <1>1, KeyAssumption
  <2> QED
    BY <2>1, <1>3, ReorderedOut
<1> QED
  BY <1>2, <1>3, ShuffledCases

-----------------------------------------------------------------------------
(* Layers. *)

\* What the servers after the first i put around a value, the last one's first.
Layers(i) == [j \in 1 .. Len(serverKey) - i |-> Len(serverKey) + 1 - j]

\* Server i takes off the last layer, or adds it.
LEMMA LayersStep ==
    ASSUME NEW i \in 1 .. Len(serverKey)
    PROVE  /\ Layers(i - 1) # <<>> /\ Last(Layers(i - 1)) = i
           /\ Front(Layers(i - 1)) = Layers(i)
           /\ Append(Layers(i), i) = Layers(i - 1)
           /\ Layers(Len(serverKey)) = <<>>
<1> DEFINE n == Len(serverKey)
<1>1. n \in Nat
  BY ChainLength
<1>2. /\ Layers(i) \in Seq(Nat) /\ Len(Layers(i)) = n - i
      /\ Layers(i - 1) \in Seq(Nat) /\ Len(Layers(i - 1)) = n - i + 1
  BY <1>1 DEF Layers
<1>3. Last(Layers(i - 1)) = i
  BY <1>1, <1>2 DEF Layers, Last
<1>4. Front(Layers(i - 1)) = Layers(i)
  <2>1. Front(Layers(i - 1)) = SubSeq(Layers(i - 1), 1, n - i)
    BY <1>1, <1>2 DEF Front
  <2>2. SubSeq(Layers(i - 1), 1, n - i) = [j \in 1 .. n - i |-> Layers(i - 1)[j]]
    BY <1>1, <1>2
  <2>3. \A j \in 1 .. n - i : Layers(i - 1)[j] = n + 1 - j
    BY <1>1 DEF Layers
  <2>4. [j \in 1 .. n - i |-> Layers(i - 1)[j]] = [j \in 1 .. n - i |-> n + 1 - j]
    BY <2>3
  <2> QED
    BY <2>1, <2>2, <2>4 DEF Layers
<1>5. Append(Layers(i), i) = Layers(i - 1)
  BY <1>1, <1>2 DEF Layers
<1>6. Layers(n) = <<>>
  BY <1>1 DEF Layers
<1> QED
  BY <1>1, <1>2, <1>3, <1>4, <1>5, <1>6

\* The reputation in a line of a list.
RepOf(p, k) == IF "is_start" \in DOMAIN p THEN p.vals[k] ELSE ByteToInt(p.vals[k].word)

\* The reputations of a list.
RepsOf(p) == [i \in DOMAIN p.vals |-> RepOf(p, i)]

\* Book, Place and Account as functions of the state they depend on.
BookOf(status, p, rep, dec) ==
    IF p # NoEntries THEN MapOf(p.keys, RepsOf(p))
    ELSE IF status = "MESSAGE" THEN dec
    ELSE [k \in DOMAIN rep |-> ByteToInt(rep[k].word)]

PlaceOf(status, p) ==
    IF p = NoEntries THEN IF status = "MESSAGE" THEN Len(serverKey) ELSE 0
    ELSE IF status = "ANNOUNCE" THEN p.to - 1 ELSE p.to

AccountAt(status, p, rep, dec, rk) ==
    AccountOf(BookOf(status, p, rep, dec), KeysUnder(rk, PlaceOf(status, p)))

\* Account before and after a step.
LEMMA AccountNow ==
    /\ Account = AccountAt(Status, params, ReputationMap, DecryptedReputationMap, Roundkey)
    /\ Account' = AccountAt(Status', params', ReputationMap', DecryptedReputationMap', Roundkey')
<1>1. Book = BookOf(Status, params, ReputationMap, DecryptedReputationMap)
  BY DEF Book, BookOf, RepsOf, RepOf
<1>2. Book' = BookOf(Status', params', ReputationMap', DecryptedReputationMap')
  BY DEF Book, BookOf, RepsOf, RepOf
<1>3. Place = PlaceOf(Status, params) /\ Place' = PlaceOf(Status', params')
  BY DEF Place, PlaceOf
<1>4. [c \in Client |-> Along(PublicKey(c), Place)] = KeysUnder(Roundkey, PlaceOf(Status, params))
  BY <1>3 DEF Along, KeysUnder, KeyUnder, Raised
<1>5. [c \in Client |-> Along(PublicKey(c), Place)'] = KeysUnder(Roundkey', PlaceOf(Status', params'))
  BY <1>3 DEF Along, KeysUnder, KeyUnder, Raised
<1>6. Account = AccountOf(Book, [c \in Client |-> Along(PublicKey(c), Place)])
  BY DEF Account, AccountOf
<1>7. Account' = AccountOf(Book', [c \in Client |-> Along(PublicKey(c), Place)'])
  BY DEF Account, AccountOf
<1> QED
  BY <1>1, <1>2, <1>4, <1>5, <1>6, <1>7 DEF AccountAt

\* The account in a list.
LEMMA ListedAccount ==
    ASSUME NEW rk \in [Servers -> RoundSecrets], NEW M \in SUBSET Client, NEW status,
           NEW p, p # NoEntries, PlaceOf(status, p) \in 0 .. Len(serverKey),
           NEW N, NEW who, Listed(p, N, who, M, KeysUnder(rk, PlaceOf(status, p))),
           NEW rep, NEW dec, NEW account, account = AccountAt(status, p, rep, dec, rk)
    PROVE  Credits(account, M, N, who, RepsOf(p))
<1> DEFINE key == KeysUnder(rk, PlaceOf(status, p))
<1>1. key \in Injection(Client, Points)
  BY KeysDiffer
<1>2. account = AccountOf(MapOf(p.keys, RepsOf(p)), key)
  BY DEF AccountAt, BookOf
<1>3. Listed(p, N, who, M, key)
  OBVIOUS
<1> HIDE DEF key
<1> QED
  BY <1>1, <1>2, <1>3, ListAccount

\* The account between lists.
LEMMA BookAccount ==
    ASSUME NEW rk \in [Servers -> RoundSecrets], NEW M \in SUBSET Client, NEW status,
           NEW rep, NEW dec, NEW book, book = BookOf(status, NoEntries, rep, dec),
           NEW key, key = KeysUnder(rk, PlaceOf(status, NoEntries)),
           DOMAIN book = KeySet(key, M)
    PROVE  AccountAt(status, NoEntries, rep, dec, rk) = AccountBy(book, key, M)
<1>1. PlaceOf(status, NoEntries) \in 0 .. Len(serverKey)
  BY ChainLength DEF PlaceOf
<1>2. key \in Injection(Client, Points)
  BY <1>1, KeysDiffer
<1> QED
  BY <1>2, AccountIs DEF AccountAt

\* Two lists with the same clients and reputations have the same account.
LEMMA SameAccount ==
    ASSUME NEW M, NEW N \in Nat, NEW who, Order(who, N, M), NEW pi \in Orders(N),
           NEW reps, NEW a, Credits(a, M, N, who, reps),
           NEW b, Credits(b, M, N, Reorder(who, pi, N), Reorder(reps, pi, N))
    PROVE  a = b
<1>1. Order(pi, N, 1 .. N)
  BY OrderIsOnto
<1>2. ASSUME NEW c \in M PROVE a[c] = b[c]
  <2>1. PICK j \in 1 .. N : who[j] = c
    BY DEF Order
  <2>2. PICK k \in 1 .. N : pi[k] = j
    BY <1>1 DEF Order
  <2>3. a[c] = reps[j]
    BY <2>1 DEF Credits
  <2>4. Reorder(who, pi, N)[k] = c /\ Reorder(reps, pi, N)[k] = reps[j]
    BY <2>1, <2>2 DEF Reorder
  <2>5. b[c] = reps[j]
    BY <2>4 DEF Credits
  <2> QED
    BY <2>3, <2>5
<1> QED
  BY <1>2 DEF Credits

-----------------------------------------------------------------------------
\* A server passes a list on in another order.
LEMMA PassedOn ==
    ASSUME NEW s \in Servers, NEW M \in SUBSET Client, NEW key \in Injection(Client, Points),
           NEW N \in Nat, NEW who, Order(who, N, M),
           NEW newKeys, newKeys = KeyList(key, who, N),
           NEW newVals, IsList(newVals, N),
           NEW out \in Shuffled(s, newKeys, newVals),
           NEW head, "to" \in DOMAIN head, DOMAIN head \subseteq {"to", "g"},
           NEW p, p = Over(head, out)
    PROVE  /\ {"to", "keys", "vals"} \subseteq DOMAIN p /\ "is_start" \notin DOMAIN p
           /\ p.to = head.to
           /\ "g" \in DOMAIN p <=> "g" \in DOMAIN head
           /\ "g" \in DOMAIN head => p.g = head.g
           /\ Provable(p)
           /\ \E pi \in Orders(N) :
                 /\ Listed(p, N, Reorder(who, pi, N), M, key)
                 /\ p.vals = Reorder(newVals, pi, N)
<1>1. newKeys \in Injection(1 .. N, Points)
  BY DEF Injection, IsInjective, Order, KeyList
<1>2. /\ {"keys", "vals"} \subseteq DOMAIN out
      /\ {"to", "g", "is_start"} \cap DOMAIN out = {}
      /\ Provable(out) /\ SameLines(out, N, newKeys, newVals)
  BY <1>1, ShuffledOut
<1>3. /\ DOMAIN p = DOMAIN head \cup DOMAIN out
      /\ \A f \in DOMAIN head : p[f] = head[f]
      /\ \A f \in DOMAIN out \ DOMAIN head : p[f] = out[f]
  BY DEF Over
<1>4. p.keys = out.keys /\ p.vals = out.vals
  BY <1>2, <1>3
<1>5. Provable(p)
  <2>1. "xbar" \in DOMAIN p => "xbar" \in DOMAIN out
    BY <1>3
  <2>2. \A f \in {"xbar", "public_key", "prev_keys", "prev_vals", "ybar"} :
           f \in DOMAIN out => f \in DOMAIN p /\ p[f] = out[f]
    BY <1>3
  <2> QED
    BY <2>1, <2>2, <1>2 DEF Provable
<1>6. PICK pi \in Orders(N) : /\ out.keys = Reorder(newKeys, pi, N)
                              /\ out.vals = Reorder(newVals, pi, N)
  BY <1>2 DEF SameLines
<1> PICK new : new = Reorder(who, pi, N)
  OBVIOUS
<1>7. Order(new, N, M)
  BY OrderAgain
<1>8. \A k \in 1 .. N : newKeys[pi[k]] = key[new[k]]
  BY DEF Orders, Reorder, KeyList
<1>9. p.keys = KeyList(key, new, N)
  <2>1. Reorder(newKeys, pi, N) = KeyList(key, new, N)
    BY <1>8 DEF Reorder, KeyList
  <2> QED
    BY <2>1, <1>4, <1>6
<1>10. Listed(p, N, new, M, key) /\ p.vals = Reorder(newVals, pi, N)
  BY <1>4, <1>6, <1>7, <1>9 DEF Listed, Reorder
<1>11. /\ {"to", "keys", "vals"} \subseteq DOMAIN p /\ "is_start" \notin DOMAIN p
       /\ p.to = head.to
       /\ "g" \in DOMAIN p <=> "g" \in DOMAIN head
       /\ "g" \in DOMAIN head => p.g = head.g
  BY <1>2, <1>3
<1> QED
  BY <1>5, <1>10, <1>11

-----------------------------------------------------------------------------
(* The invariant: where the list is, what it carries and who can read it. *)

\* A value that the servers after the first i have encrypted.
Sealed(val, i) ==
    /\ val = [word |-> val.word, layers |-> Layers(i)]
    /\ ByteToInt(val.word) \in Int

\* An announcement on its way to p.to, under the round keys rk.
AnnouncementList(p, M, rk) ==
    /\ {"to", "keys", "vals"} \subseteq DOMAIN p /\ "is_start" \notin DOMAIN p
    /\ p.to \in 1 .. Len(serverKey) + 1
    /\ \E N, who : /\ Listed(p, N, who, M, KeysUnder(rk, p.to - 1))
                   /\ \A k \in 1 .. N : Sealed(p.vals[k], p.to - 1)
    /\ IF "g" \in DOMAIN p THEN p.g = Raised(Base, rk, p.to - 1) ELSE p.to = 1
    /\ Provable(p)

\* The end of a round on its way to p.to.
RoundEndList(p, M, rk) ==
    /\ {"to", "keys", "vals"} \subseteq DOMAIN p
    /\ p.to \in 0 .. Len(serverKey)
    /\ \E N, who :
          /\ Listed(p, N, who, M, KeysUnder(rk, p.to))
          /\ \A k \in 1 .. N : IF "is_start" \in DOMAIN p THEN p.vals[k] \in Int
                               ELSE Sealed(p.vals[k], p.to)
    /\ "is_start" \in DOMAIN p => p.to = Len(serverKey)
    /\ Provable(p)

\* The encrypted map of the coordinator between rounds.
Resting(rep, M, rk) ==
    /\ DOMAIN rep = KeySet(KeysUnder(rk, 0), M)
    /\ \A k \in DOMAIN rep : Sealed(rep[k], 0)

\* While clients talk, those of M are in the decrypted map, the others wait.
Talking(M) ==
    LET key == KeysUnder(Roundkey, Len(serverKey))
    IN  /\ DOMAIN DecryptedReputationMap = KeySet(key, M)
        /\ \A k \in DOMAIN DecryptedReputationMap : DecryptedReputationMap[k] \in Int
        /\ NewClientsBuffer = KeySet(key, registered \ M)
        /\ DOMAIN nyms \subseteq M
        /\ DOMAIN nyms # {} => G = Raised(Base, Roundkey, Len(serverKey))

\* The first i servers can undo the keys of the clients of M.
KeysKnown(km, M, rk, i) ==
    \A s \in 1 .. i, c \in M :
        /\ KeysUnder(rk, s)[c] \in DOMAIN km[s]
        /\ km[s][KeysUnder(rk, s)[c]] = KeysUnder(rk, s - 1)[c]

\* Where the list is, what it carries and who can read it.
LinesInv ==
    /\ registered \in SUBSET Client /\ IsFiniteSet(registered)
    /\ DOMAIN nyms \subseteq registered
    /\ registered = {} => DOMAIN DecryptedReputationMap = {}
    /\ DOMAIN KeyMap = Servers
    /\ KeysKnown(KeyMap, registered, Roundkey, PlaceOf(Status, params))
    /\ Status = "ANNOUNCE" => NewClientsBuffer = {}
    /\ \/ /\ Status = "READY_FOR_NEW_ROUND" /\ params = NoEntries
          /\ Resting(ReputationMap, registered, Roundkey)
       \/ Status = "ANNOUNCE" /\ AnnouncementList(params, registered, Roundkey)
       \/ /\ Status = "MESSAGE" /\ params = NoEntries
          /\ \E M \in SUBSET registered : Talking(M)
       \/ Status = "MESSAGE" /\ RoundEndList(params, registered, Roundkey)

\* A list under way is not the empty map that stands for none.
LEMMA SomeList == ASSUME NEW p, "to" \in DOMAIN p PROVE p # NoEntries
  BY DEF NoEntries

\* Raised once more.
LEMMA KeyStep ==
    ASSUME NEW rk, NEW c \in Client, NEW s \in Nat \ {0}
    PROVE  KeysUnder(rk, s)[c] = Mul(KeysUnder(rk, s - 1)[c], rk[s])
<1>1. Raised(PublicKey(c), rk, s) = Mul(Raised(PublicKey(c), rk, s - 1), rk[s])
  BY RaisedStep
<1> QED
  BY <1>1 DEF KeysUnder, KeyUnder

\* The generator is raised with the keys.
LEMMA GeneratorStep ==
    ASSUME NEW rk, NEW s \in Nat \ {0}
    PROVE  /\ Raised(Base, rk, 0) = Base
           /\ Raised(Base, rk, s) = Mul(Raised(Base, rk, s - 1), rk[s])
  BY RaisedStep

\* A server takes its layer off.
LEMMA DecryptStep ==
    ASSUME NEW s \in 1 .. Len(serverKey), NEW val, Sealed(val, s - 1)
    PROVE  /\ CanDecrypt(val, s)
           /\ Sealed(Decrypt(val), s) /\ Decrypt(val).word = val.word
<1>1. /\ Layers(s - 1) # <<>> /\ Last(Layers(s - 1)) = s
      /\ Front(Layers(s - 1)) = Layers(s)
  BY LayersStep
<1>2. val = [word |-> val.word, layers |-> Layers(s - 1)] /\ ByteToInt(val.word) \in Int
  BY DEF Sealed
<1>3. val.layers = Layers(s - 1)
  BY <1>2
<1>4. Decrypt(val) = [word |-> val.word, layers |-> Layers(s)]
  BY <1>1, <1>2 DEF Decrypt
<1> QED
  BY <1>1, <1>2, <1>3, <1>4 DEF Sealed, CanDecrypt

\* A server adds its layer.
LEMMA EncryptStep ==
    ASSUME NEW s \in 1 .. Len(serverKey), NEW val, Sealed(val, s)
    PROVE  Sealed(Encrypt(val, s), s - 1) /\ Encrypt(val, s).word = val.word
<1> PICK word, layers, more : word = val.word /\ layers = Layers(s) /\ more = Layers(s - 1)
  OBVIOUS
<1>1. Append(layers, s) = more
  BY LayersStep
<1>2. val = [word |-> word, layers |-> layers] /\ ByteToInt(word) \in Int
  BY DEF Sealed
<1>3. Encrypt(val, s) = [val EXCEPT !.layers = more]
  <2>1. val.layers = layers
    BY <1>2
  <2> QED
    BY <1>1, <2>1 DEF Encrypt
<1>4. Encrypt(val, s) = [word |-> word, layers |-> more]
  BY <1>2, <1>3
<1> QED
  BY <1>2, <1>4 DEF Sealed

\* The reputations of a list that has the lines of another in the order pi.
LEMMA SameReputations ==
    ASSUME NEW N \in Nat, NEW p, DOMAIN p.vals = 1 .. N, NEW q, DOMAIN q.vals = 1 .. N,
           NEW pi \in Orders(N), \A k \in 1 .. N : RepOf(q, k) = RepOf(p, pi[k])
    PROVE  RepsOf(q) = Reorder(RepsOf(p), pi, N)
  BY DEF RepsOf, Reorder, Orders

\* The keys of the clients of M under new lead back to those under old.
Leads(map, M, new, old) == \A c \in M : new[c] \in DOMAIN map /\ map[new[c]] = old[c]

\* The map a server makes of the keys it raised leads back.
LEMMA MapLeads ==
    ASSUME NEW M \in SUBSET Client, NEW new \in Injection(Client, Points), NEW old,
           NEW N \in Nat, NEW who, Order(who, N, M),
           NEW newKeys, newKeys = KeyList(new, who, N),
           NEW oldKeys, oldKeys = KeyList(old, who, N)
    PROVE  Leads(MapOf(newKeys, oldKeys), M, new, old)
<1> PICK map : map = MapOf(newKeys, oldKeys)
  OBVIOUS
<1>2. DOMAIN map = KeySet(new, M) /\ Maps(map, newKeys, oldKeys, N)
  BY ListBook
<1>4. ASSUME NEW c \in M PROVE new[c] \in DOMAIN map /\ map[new[c]] = old[c]
  <2>1. PICK k \in 1 .. N : who[k] = c
    BY DEF Order
  <2>2. newKeys[k] = new[c] /\ oldKeys[k] = old[c]
    BY <2>1 DEF KeyList
  <2> QED
    BY <1>2, <2>2 DEF KeySet, Maps
<1> QED
  BY <1>4 DEF Leads

\* A map stored over another leads where it led.
LEMMA OverLeads ==
    ASSUME NEW M, NEW new, NEW old, NEW map, Leads(map, M, new, old), NEW more
    PROVE  Leads(Over(map, more), M, new, old)
  BY DEF Leads, Over

\* The first i servers can undo the keys: each leads one place back.
LEMMA KnownIsLeads ==
    ASSUME NEW km, NEW M, NEW rk, NEW i
    PROVE  KeysKnown(km, M, rk, i) <=>
              \A s \in 1 .. i : Leads(km[s], M, KeysUnder(rk, s), KeysUnder(rk, s - 1))
  BY DEF KeysKnown, Leads

\* One more server knows the keys.
LEMMA KnownStep ==
    ASSUME NEW s \in Servers, NEW km, DOMAIN km = Servers, NEW M, NEW rk,
           KeysKnown(km, M, rk, s - 1),
           NEW map, Leads(map, M, KeysUnder(rk, s), KeysUnder(rk, s - 1)),
           NEW after, after = [km EXCEPT ![s] = Over(map, @)]
    PROVE  KeysKnown(after, M, rk, s) /\ DOMAIN after = Servers
<1>1. Leads(after[s], M, KeysUnder(rk, s), KeysUnder(rk, s - 1))
  <2>1. after[s] = Over(map, km[s])
    OBVIOUS
  <2> QED
    BY <2>1, OverLeads
<1>2. ASSUME NEW j \in 1 .. s, j # s
      PROVE  Leads(after[j], M, KeysUnder(rk, j), KeysUnder(rk, j - 1))
  <2>1. j \in 1 .. s - 1 /\ after[j] = km[j]
    BY <1>2, ChainLength
  <2> QED
    BY <2>1, KnownIsLeads
<1> QED
  BY <1>1, <1>2, KnownIsLeads

-----------------------------------------------------------------------------
(* Its steps. *)

\* A server passes an announcement on.
LEMMA ServerAnnouncementLists ==
    ASSUME LinesInv, NymInv, NEW s \in Servers, ServerHandleAnnouncement(s)
    PROVE  LinesInv' /\ Account' = Account
<1>1. /\ Status = "ANNOUNCE" /\ AnnouncementList(params, registered, Roundkey)
      /\ params.to = s /\ "to" \in DOMAIN params
      /\ s \in Nat \ {0} /\ s \in 1 .. Len(serverKey)
      /\ s - 1 \in 0 .. Len(serverKey) /\ s \in 0 .. Len(serverKey)
  BY ChainLength DEF LinesInv, ServerHandleAnnouncement, AnnouncementList
<1>2. Roundkey \in [Servers -> RoundSecrets] /\ registered \in SUBSET Client
  BY DEF LinesInv, NymInv
<1> PICK key, new : key = KeysUnder(Roundkey, s - 1) /\ new = KeysUnder(Roundkey, s)
  OBVIOUS
<1>3. key \in Injection(Client, Points) /\ new \in Injection(Client, Points)
  BY <1>1, <1>2, KeysDiffer
<1>4. PICK N, who : /\ Listed(params, N, who, registered, key)
                    /\ \A k \in 1 .. N : Sealed(params.vals[k], s - 1)
  BY <1>1 DEF AnnouncementList
<1>5. /\ N \in Nat /\ Order(who, N, registered)
      /\ params.keys = KeyList(key, who, N) /\ DOMAIN params.vals = 1 .. N
  BY <1>4 DEF Listed
<1>6. PICK keys, vals, g, head, out :
         /\ keys = [i \in DOMAIN params.keys |-> Mul(params.keys[i], Roundkey[s])]
         /\ vals = [i \in DOMAIN params.keys |-> Decrypt(params.vals[i])]
         /\ g = IF "g" \in DOMAIN params THEN params.g ELSE Base
         /\ head = [to |-> s + 1, g |-> Mul(g, Roundkey[s])]
         /\ out \in Shuffled(s, keys, vals)
         /\ params' = Over(head, out)
         /\ KeyMap' = [KeyMap EXCEPT ![s] = Over(MapOf(keys, params.keys), @)]
  BY DEF ServerHandleAnnouncement
<1>7. UNCHANGED <<Status, ReputationMap, DecryptedReputationMap, G, NewClientsBuffer,
                  Roundkey, nyms, registered>>
  BY DEF ServerHandleAnnouncement
<1>8. keys = KeyList(new, who, N)
  <2>1. \A c \in Client : new[c] = Mul(key[c], Roundkey[s])
    BY <1>1, KeyStep
  <2>2. \A k \in 1 .. N : who[k] \in Client /\ params.keys[k] = key[who[k]]
    BY <1>5, <1>2 DEF Order, KeyList
  <2>3. \A k \in 1 .. N : Mul(params.keys[k], Roundkey[s]) = new[who[k]]
    BY <2>1, <2>2
  <2>4. DOMAIN params.keys = 1 .. N
    BY <1>5 DEF KeyList
  <2> QED
    BY <1>6, <2>3, <2>4 DEF KeyList
<1>9. IsList(vals, N) /\ \A k \in 1 .. N : vals[k] = Decrypt(params.vals[k])
  BY <1>5, <1>6 DEF IsList, KeyList
<1>10. g = Raised(Base, Roundkey, s - 1)
  <2>1. Raised(Base, Roundkey, 0) = Base
    BY RaisedStep
  <2> QED
    BY <1>1, <1>6, <2>1 DEF AnnouncementList
<1>11. head.to = s + 1 /\ head.g = Mul(g, Roundkey[s]) /\ DOMAIN head = {"to", "g"}
  BY <1>6
<1> PICK p : p = params'
  OBVIOUS
<1>12. /\ {"to", "keys", "vals"} \subseteq DOMAIN p /\ "is_start" \notin DOMAIN p
       /\ p.to = s + 1 /\ "g" \in DOMAIN p /\ p.g = Mul(g, Roundkey[s])
       /\ Provable(p)
       /\ \E pi \in Orders(N) : /\ Listed(p, N, Reorder(who, pi, N), registered, new)
                                /\ p.vals = Reorder(vals, pi, N)
  <2>1. p = Over(head, out) /\ out \in Shuffled(s, keys, vals)
    BY <1>6
  <2>2. "to" \in DOMAIN head /\ "g" \in DOMAIN head /\ DOMAIN head \subseteq {"to", "g"}
    BY <1>11
  <2>3. /\ {"to", "keys", "vals"} \subseteq DOMAIN p /\ "is_start" \notin DOMAIN p
        /\ p.to = head.to /\ "g" \in DOMAIN p /\ p.g = head.g
        /\ Provable(p)
        /\ \E pi \in Orders(N) : /\ Listed(p, N, Reorder(who, pi, N), registered, new)
                                 /\ p.vals = Reorder(vals, pi, N)
    BY <1>2, <1>3, <1>5, <1>8, <1>9, <2>1, <2>2, PassedOn
  <2> QED
    BY <1>11, <2>3
<1>13. PICK pi \in Orders(N) : /\ Listed(p, N, Reorder(who, pi, N), registered, new)
                               /\ p.vals = Reorder(vals, pi, N)
  BY <1>12
<1>14. \A k \in 1 .. N : /\ pi[k] \in 1 .. N
                         /\ Sealed(p.vals[k], s) /\ p.vals[k].word = params.vals[pi[k]].word
  <2> SUFFICES ASSUME NEW k \in 1 .. N
               PROVE  /\ pi[k] \in 1 .. N
                      /\ Sealed(p.vals[k], s) /\ p.vals[k].word = params.vals[pi[k]].word
    OBVIOUS
  <2>1. pi[k] \in 1 .. N
    BY <1>5 DEF Orders
  <2>2. p.vals[k] = Decrypt(params.vals[pi[k]])
    BY <1>9, <1>13, <2>1 DEF Reorder
  <2>3. Sealed(params.vals[pi[k]], s - 1)
    BY <1>4, <2>1
  <2>4. Sealed(Decrypt(params.vals[pi[k]]), s)
        /\ Decrypt(params.vals[pi[k]]).word = params.vals[pi[k]].word
    BY <1>1, <2>3, DecryptStep
  <2> QED
    BY <2>1, <2>2, <2>4
<1>15. AnnouncementList(p, registered, Roundkey)
  <2>1. p.to - 1 = s /\ p.to \in 1 .. Len(serverKey) + 1
    BY <1>1, <1>12, ChainLength
  <2>2. p.g = Raised(Base, Roundkey, p.to - 1)
    <3>1. Raised(Base, Roundkey, s) = Mul(Raised(Base, Roundkey, s - 1), Roundkey[s])
      BY <1>1, GeneratorStep
    <3> QED
      BY <1>10, <1>12, <2>1, <3>1
  <2>3. Listed(p, N, Reorder(who, pi, N), registered, KeysUnder(Roundkey, p.to - 1))
    BY <1>13, <2>1
  <2>4. \A k \in 1 .. N : Sealed(p.vals[k], p.to - 1)
    BY <1>14, <2>1
  <2>5. \E n, new_who : /\ Listed(p, n, new_who, registered, KeysUnder(Roundkey, p.to - 1))
                        /\ \A k \in 1 .. n : Sealed(p.vals[k], p.to - 1)
    BY <2>3, <2>4
  <2> QED
    BY <1>12, <2>1, <2>2, <2>5 DEF AnnouncementList
<1>16. PlaceOf(Status, params) = s - 1 /\ PlaceOf(Status', params') = s
       /\ params # NoEntries /\ params' # NoEntries
  <2>1. params # NoEntries /\ p # NoEntries
    BY <1>1, <1>12, SomeList
  <2>2. s + 1 - 1 = s
    BY <1>1
  <2> QED
    BY <1>1, <1>7, <1>12, <2>1, <2>2 DEF PlaceOf
<1>17. KeysKnown(KeyMap', registered, Roundkey, s) /\ DOMAIN KeyMap' = Servers
  <2>1. DOMAIN KeyMap = Servers /\ KeysKnown(KeyMap, registered, Roundkey, s - 1)
    BY <1>16 DEF LinesInv
  <2>2. Leads(MapOf(keys, params.keys), registered, new, key)
    BY <1>2, <1>3, <1>5, <1>8, MapLeads
  <2> QED
    BY <1>6, <2>1, <2>2, KnownStep
<1>18. LinesInv'
  BY <1>1, <1>7, <1>15, <1>16, <1>17 DEF LinesInv
<1>19. Account' = Account
  <2> PICK a, b : a = Account /\ b = Account'
    OBVIOUS
  <2>1. /\ a = AccountAt(Status, params, ReputationMap, DecryptedReputationMap, Roundkey)
        /\ b = AccountAt(Status, p, ReputationMap, DecryptedReputationMap, Roundkey)
    BY <1>7, AccountNow
  <2>2. PlaceOf(Status, params) = s - 1 /\ PlaceOf(Status, p) = s /\ p # NoEntries
    BY <1>7, <1>16
  <2>3. Listed(params, N, who, registered, KeysUnder(Roundkey, PlaceOf(Status, params)))
    BY <1>4, <2>2
  <2>4. Credits(a, registered, N, who, RepsOf(params))
    BY <1>1, <1>2, <1>16, <2>1, <2>2, <2>3, ListedAccount
  <2>5. Listed(p, N, Reorder(who, pi, N), registered, KeysUnder(Roundkey, PlaceOf(Status, p)))
    BY <1>13, <2>2
  <2>6. Credits(b, registered, N, Reorder(who, pi, N), RepsOf(p))
    BY <1>1, <1>2, <2>1, <2>2, <2>5, ListedAccount
  <2>7. RepsOf(p) = Reorder(RepsOf(params), pi, N)
    <3>1. \A k \in 1 .. N : RepOf(p, k) = RepOf(params, pi[k])
      BY <1>1, <1>12, <1>14 DEF RepOf, AnnouncementList
    <3>2. DOMAIN p.vals = 1 .. N
      BY <1>13 DEF Listed
    <3> QED
      BY <1>5, <3>1, <3>2, SameReputations
  <2>8. a = b
    BY <1>5, <2>4, <2>6, <2>7, SameAccount
  <2> QED
    BY <2>8
<1> QED
  BY <1>18, <1>19

\* The value a server encrypts: an integer as a word on the first hop.
Word(p, k) == IF "is_start" \in DOMAIN p THEN Plain(IntToByte(p.vals[k])) ELSE p.vals[k]

\* The reputation that it then carries.
WordRep(p, k) ==
    IF "is_start" \in DOMAIN p THEN RepOf(p, k) % WordModulus ELSE RepOf(p, k)

\* What the server encrypts is encrypted for the servers after it.
LEMMA WordSealed ==
    ASSUME NEW p, NEW M, NEW rk, RoundEndList(p, M, rk), NEW N \in Nat,
           NEW k \in 1 .. N,
           IF "is_start" \in DOMAIN p THEN p.vals[k] \in Int ELSE Sealed(p.vals[k], p.to)
    PROVE  Sealed(Word(p, k), p.to) /\ ByteToInt(Word(p, k).word) = WordRep(p, k)
<1>1. CASE "is_start" \in DOMAIN p
  <2> PICK v, w : v = p.vals[k] /\ w = IntToByte(v)
    OBVIOUS
  <2>1. v \in Int /\ p.to = Len(serverKey)
    BY <1>1 DEF RoundEndList
  <2>2. ByteToInt(w) = v % WordModulus
    BY <2>1, WordKeepsRemainder
  <2>3. v % WordModulus \in Int
    <3>1. WordModulus \in Nat \ {0}
      BY WordPositive
    <3> QED
      BY <2>1, <3>1
  <2>4. Word(p, k) = [word |-> w, layers |-> <<>>]
    BY <1>1 DEF Word, Plain
  <2>5. Layers(p.to) = <<>>
    <3>1. Len(serverKey) \in 1 .. Len(serverKey)
      BY ChainLength
    <3> QED
      BY <2>1, <3>1, LayersStep
  <2>6. RepOf(p, k) = v
    BY <1>1 DEF RepOf
  <2> QED
    BY <1>1, <2>2, <2>3, <2>4, <2>5, <2>6 DEF Sealed, WordRep
<1>2. CASE "is_start" \notin DOMAIN p
  BY <1>2 DEF Word, WordRep, RepOf, Sealed
<1> QED
  BY <1>1, <1>2

\* The round key of a server that is behind no longer matters.
LEMMA KeysAlike ==
    ASSUME NEW rk, NEW new, NEW i \in Nat, \A j \in 1 .. i : new[j] = rk[j]
    PROVE  /\ Raised(Base, new, i) = Raised(Base, rk, i)
           /\ KeysUnder(new, i) = KeysUnder(rk, i)
<1>1. Raised(Base, new, i) = Raised(Base, rk, i)
  BY RaisedAlike
<1>2. ASSUME NEW c \in Client PROVE KeyUnder(new, c, i) = KeyUnder(rk, c, i)
  BY RaisedAlike DEF KeyUnder
<1> QED
  BY <1>1, <1>2 DEF KeysUnder

\* A server forgets the keys of a round.
LEMMA KnownReset ==
    ASSUME NEW s \in Servers, NEW km, DOMAIN km = Servers, NEW M, NEW rk,
           KeysKnown(km, M, rk, s), NEW new, \A j \in 1 .. s - 1 : new[j] = rk[j],
           NEW after, after = [km EXCEPT ![s] = NoEntries]
    PROVE  KeysKnown(after, M, new, s - 1) /\ DOMAIN after = Servers
<1>1. s \in Nat \ {0}
  BY ChainLength
<1>2. ASSUME NEW j \in 1 .. s - 1
      PROVE  Leads(after[j], M, KeysUnder(new, j), KeysUnder(new, j - 1))
  <2>1. Leads(km[j], M, KeysUnder(rk, j), KeysUnder(rk, j - 1))
    BY <1>1, KnownIsLeads
  <2>2. after[j] = km[j]
    BY <1>1, ChainLength
  <2>3. KeysUnder(new, j) = KeysUnder(rk, j)
    <3>1. j \in Nat /\ \A i \in 1 .. j : new[i] = rk[i]
      BY <1>1
    <3> QED
      BY <3>1, KeysAlike
  <2>4. KeysUnder(new, j - 1) = KeysUnder(rk, j - 1)
    <3>1. j - 1 \in Nat /\ \A i \in 1 .. j - 1 : new[i] = rk[i]
      BY <1>1
    <3> QED
      BY <3>1, KeysAlike
  <2> QED
    BY <2>1, <2>2, <2>3, <2>4
<1> QED
  BY <1>2, KnownIsLeads

\* An account of which the reputations are written as words.
Settled(a) == [c \in DOMAIN a |-> a[c] % WordModulus]

\* Words credited in the same order.
LEMMA SettledCredits ==
    ASSUME NEW M, NEW N \in Nat, NEW who, Order(who, N, M),
           NEW reps, NEW words, \A k \in 1 .. N : words[k] = reps[k] % WordModulus,
           NEW a, Credits(a, M, N, who, reps)
    PROVE  Credits(Settled(a), M, N, who, words)
  BY DEF Credits, Settled, Order

\* A server passes the end of a round on.
LEMMA ServerRoundEndLists ==
    ASSUME LinesInv, NymInv, NEW s \in Servers, ServerHandleRoundEnd(s)
    PROVE  LinesInv' /\ (Account' = Account \/ Account' = Settled(Account))
<1>1. /\ Status = "MESSAGE" /\ RoundEndList(params, registered, Roundkey)
      /\ params.to = s /\ "to" \in DOMAIN params /\ params # NoEntries
      /\ s \in Nat \ {0} /\ s \in 1 .. Len(serverKey)
      /\ s - 1 \in 0 .. Len(serverKey) /\ s \in 0 .. Len(serverKey)
  BY ChainLength DEF LinesInv, ServerHandleRoundEnd, RoundEndList
<1>2. Roundkey \in [Servers -> RoundSecrets] /\ registered \in SUBSET Client
  BY DEF LinesInv, NymInv
<1> PICK key, new : key = KeysUnder(Roundkey, s) /\ new = KeysUnder(Roundkey, s - 1)
  OBVIOUS
<1>3. key \in Injection(Client, Points) /\ new \in Injection(Client, Points)
  BY <1>1, <1>2, KeysDiffer
<1>4. PICK N, who :
         /\ Listed(params, N, who, registered, key)
         /\ \A k \in 1 .. N : IF "is_start" \in DOMAIN params THEN params.vals[k] \in Int
                              ELSE Sealed(params.vals[k], s)
  BY <1>1 DEF RoundEndList
<1>5. /\ N \in Nat /\ Order(who, N, registered)
      /\ params.keys = KeyList(key, who, N) /\ DOMAIN params.vals = 1 .. N
  BY <1>4 DEF Listed
<1>21. PICK keys, vals :
         /\ keys = [i \in DOMAIN params.keys |-> KeyMap[s][params.keys[i]]]
         /\ vals = [i \in DOMAIN params.keys |->
                       Encrypt([j \in DOMAIN params.vals |->
                                   IF "is_start" \in DOMAIN params
                                   THEN Plain(IntToByte(params.vals[j]))
                                   ELSE params.vals[j]][i], s)]
  OBVIOUS
<1>22. PICK head : head = [to |-> s - 1]
  OBVIOUS
<1>6. /\ \E out \in Shuffled(s, keys, vals) : params' = Over(head, out)
      /\ \E rk \in RoundSecrets : Roundkey' = [Roundkey EXCEPT ![s] = rk]
      /\ KeyMap' = [KeyMap EXCEPT ![s] = NoEntries]
  <2> DEFINE ks == [i \in DOMAIN params.keys |-> KeyMap[s][params.keys[i]]]
             vs == [i \in DOMAIN params.keys |->
                       Encrypt([j \in DOMAIN params.vals |->
                                   IF "is_start" \in DOMAIN params
                                   THEN Plain(IntToByte(params.vals[j]))
                                   ELSE params.vals[j]][i], s)]
             h == [to |-> s - 1]
  <2>1. /\ \E out \in Shuffled(s, ks, vs) : params' = Over(h, out)
        /\ \E rk \in RoundSecrets : Roundkey' = [Roundkey EXCEPT ![s] = rk]
        /\ KeyMap' = [KeyMap EXCEPT ![s] = NoEntries]
    BY DEF ServerHandleRoundEnd
  <2>2. keys = ks /\ vals = vs /\ head = h
    BY <1>21, <1>22
  <2> HIDE DEF ks, vs, h
  <2> QED
    BY <2>1, <2>2
<1>23. PICK out \in Shuffled(s, keys, vals) : params' = Over(head, out)
  BY <1>6
<1>7. UNCHANGED <<Status, ReputationMap, DecryptedReputationMap, G, NewClientsBuffer,
                  nyms, registered>>
  BY DEF ServerHandleRoundEnd
<1>8. PlaceOf(Status, params) = s
  BY <1>1 DEF PlaceOf
<1>9. keys = KeyList(new, who, N)
  <2>1. DOMAIN KeyMap = Servers /\ KeysKnown(KeyMap, registered, Roundkey, s)
    BY <1>8 DEF LinesInv
  <2>2. Leads(KeyMap[s], registered, key, new)
    BY <1>1, <2>1, KnownIsLeads
  <2>3. \A k \in 1 .. N : who[k] \in registered /\ params.keys[k] = key[who[k]]
    BY <1>5, <1>2 DEF Order, KeyList
  <2>4. \A k \in 1 .. N : KeyMap[s][params.keys[k]] = new[who[k]]
    BY <2>2, <2>3 DEF Leads
  <2>5. DOMAIN params.keys = 1 .. N
    BY <1>5 DEF KeyList
  <2> QED
    BY <1>21, <2>4, <2>5 DEF KeyList
<1>10. IsList(vals, N) /\ \A k \in 1 .. N : vals[k] = Encrypt(Word(params, k), s)
  BY <1>5, <1>21 DEF IsList, KeyList, Word
<1>11. head.to = s - 1 /\ DOMAIN head = {"to"}
  BY <1>22
<1> PICK p : p = params'
  OBVIOUS
<1>12. /\ {"to", "keys", "vals"} \subseteq DOMAIN p /\ "is_start" \notin DOMAIN p
       /\ p.to = s - 1
       /\ Provable(p)
       /\ \E pi \in Orders(N) : /\ Listed(p, N, Reorder(who, pi, N), registered, new)
                                /\ p.vals = Reorder(vals, pi, N)
  <2>1. p = Over(head, out) /\ out \in Shuffled(s, keys, vals)
    BY <1>23
  <2>2. "to" \in DOMAIN head /\ DOMAIN head \subseteq {"to", "g"}
    BY <1>11
  <2>3. /\ {"to", "keys", "vals"} \subseteq DOMAIN p /\ "is_start" \notin DOMAIN p
        /\ p.to = head.to
        /\ Provable(p)
        /\ \E pi \in Orders(N) : /\ Listed(p, N, Reorder(who, pi, N), registered, new)
                                 /\ p.vals = Reorder(vals, pi, N)
    BY <1>2, <1>3, <1>5, <1>9, <1>10, <2>1, <2>2, PassedOn
  <2> QED
    BY <1>11, <2>3
<1>13. PICK pi \in Orders(N) : /\ Listed(p, N, Reorder(who, pi, N), registered, new)
                               /\ p.vals = Reorder(vals, pi, N)
  BY <1>12
<1>14. \A k \in 1 .. N : /\ pi[k] \in 1 .. N
                         /\ Sealed(p.vals[k], s - 1)
                         /\ RepOf(p, k) = WordRep(params, pi[k])
  <2> SUFFICES ASSUME NEW k \in 1 .. N
               PROVE  /\ pi[k] \in 1 .. N
                      /\ Sealed(p.vals[k], s - 1)
                      /\ RepOf(p, k) = WordRep(params, pi[k])
    OBVIOUS
  <2>1. pi[k] \in 1 .. N
    BY <1>5 DEF Orders
  <2> PICK j, word : j = pi[k] /\ word = Word(params, j)
    OBVIOUS
  <2>2. p.vals[k] = Encrypt(word, s)
    BY <1>10, <1>13, <2>1 DEF Reorder
  <2>3. Sealed(word, s) /\ ByteToInt(word.word) = WordRep(params, j)
    BY <1>1, <1>4, <1>5, <2>1, WordSealed
  <2>4. Sealed(Encrypt(word, s), s - 1) /\ Encrypt(word, s).word = word.word
    BY <1>1, <2>3, EncryptStep
  <2>5. RepOf(p, k) = ByteToInt(p.vals[k].word)
    BY <1>12 DEF RepOf
  <2> QED
    BY <2>1, <2>2, <2>3, <2>4, <2>5
<1>15. /\ Roundkey' \in [Servers -> RoundSecrets]
       /\ \A j \in 1 .. s - 1 : Roundkey'[j] = Roundkey[j]
       /\ KeysUnder(Roundkey', s - 1) = new
  <2>1. /\ Roundkey' \in [Servers -> RoundSecrets]
        /\ \A j \in 1 .. s - 1 : Roundkey'[j] = Roundkey[j]
    BY <1>1, <1>2, <1>6, ChainLength
  <2>2. s - 1 \in Nat
    BY <1>1
  <2> QED
    BY <2>1, <2>2, KeysAlike
<1>16. RoundEndList(p, registered, Roundkey')
  <2>1. p.to = s - 1 /\ p.to \in 0 .. Len(serverKey)
    BY <1>1, <1>12
  <2>2. Listed(p, N, Reorder(who, pi, N), registered, KeysUnder(Roundkey', p.to))
    BY <1>13, <1>15, <2>1
  <2>3. \A k \in 1 .. N : IF "is_start" \in DOMAIN p THEN p.vals[k] \in Int
                          ELSE Sealed(p.vals[k], p.to)
    BY <1>12, <1>14, <2>1
  <2>4. \E n, after :
           /\ Listed(p, n, after, registered, KeysUnder(Roundkey', p.to))
           /\ \A k \in 1 .. n : IF "is_start" \in DOMAIN p THEN p.vals[k] \in Int
                                ELSE Sealed(p.vals[k], p.to)
    BY <2>2, <2>3
  <2> QED
    BY <1>12, <2>1, <2>4 DEF RoundEndList
<1>17. PlaceOf(Status', params') = s - 1 /\ params' # NoEntries
  <2>1. p # NoEntries
    BY <1>12, SomeList
  <2> QED
    BY <1>1, <1>7, <1>12, <2>1 DEF PlaceOf
<1>18. KeysKnown(KeyMap', registered, Roundkey', s - 1) /\ DOMAIN KeyMap' = Servers
  <2>1. DOMAIN KeyMap = Servers /\ KeysKnown(KeyMap, registered, Roundkey, s)
    BY <1>8 DEF LinesInv
  <2> QED
    BY <1>6, <1>15, <2>1, KnownReset
<1>19. LinesInv'
  BY <1>1, <1>7, <1>16, <1>17, <1>18 DEF LinesInv
<1>20. Account' = Account \/ Account' = Settled(Account)
  <2> PICK a, b, new_rk : a = Account /\ b = Account' /\ new_rk = Roundkey'
    OBVIOUS
  <2>1. /\ a = AccountAt(Status, params, ReputationMap, DecryptedReputationMap, Roundkey)
        /\ b = AccountAt(Status, p, ReputationMap, DecryptedReputationMap, new_rk)
    BY <1>7, AccountNow
  <2>2. PlaceOf(Status, params) = s /\ PlaceOf(Status, p) = s - 1 /\ p # NoEntries
    BY <1>7, <1>8, <1>17
  <2>3. Listed(params, N, who, registered, KeysUnder(Roundkey, PlaceOf(Status, params)))
    BY <1>4, <2>2
  <2>4. Credits(a, registered, N, who, RepsOf(params))
    BY <1>1, <1>2, <2>1, <2>2, <2>3, ListedAccount
  <2>5. Listed(p, N, Reorder(who, pi, N), registered, KeysUnder(new_rk, PlaceOf(Status, p)))
    BY <1>13, <1>15, <2>2
  <2>6. Credits(b, registered, N, Reorder(who, pi, N), RepsOf(p))
    BY <1>1, <1>2, <1>15, <2>1, <2>2, <2>5, ListedAccount
  <2>7. DOMAIN p.vals = 1 .. N
    BY <1>13 DEF Listed
  <2>14. PICK reps : reps = [k \in 1 .. N |-> WordRep(params, k)]
    OBVIOUS
  <2>8. RepsOf(p) = Reorder(reps, pi, N)
    BY <1>5, <1>14, <2>7, <2>14 DEF RepsOf, Reorder
  <2>9. CASE "is_start" \in DOMAIN params
    <3>1. \A k \in 1 .. N : reps[k] = RepsOf(params)[k] % WordModulus
      BY <1>5, <2>9, <2>14 DEF WordRep, RepsOf
    <3>2. Credits(Settled(a), registered, N, who, reps)
      BY <1>5, <2>4, <3>1, SettledCredits
    <3>3. Settled(a) = b
      BY <1>5, <2>6, <2>8, <3>2, SameAccount
    <3> QED
      BY <3>3
  <2>10. CASE "is_start" \notin DOMAIN params
    <3>1. reps = RepsOf(params)
      BY <1>5, <2>10, <2>14 DEF WordRep, RepsOf
    <3>2. a = b
      BY <1>5, <2>4, <2>6, <2>8, <3>1, SameAccount
    <3> QED
      BY <3>2
  <2> QED
    BY <2>9, <2>10
<1> QED
  BY <1>19, <1>20

\* A list names every account once.
LEMMA CreditsOnce ==
    ASSUME NEW M, NEW N, NEW who, Order(who, N, M), NEW reps,
           NEW a, Credits(a, M, N, who, reps), NEW b, Credits(b, M, N, who, reps)
    PROVE  a = b
<1>1. ASSUME NEW c \in M PROVE a[c] = b[c]
  <2>1. PICK k \in 1 .. N : who[k] = c
    BY DEF Order
  <2>2. a[who[k]] = reps[k] /\ b[who[k]] = reps[k]
    BY DEF Credits
  <2> QED
    BY <2>1, <2>2
<1> QED
  BY <1>1 DEF Credits

\* The account of a map that has the values of a list.
LEMMA BookCredits ==
    ASSUME NEW M, NEW key, NEW N, NEW who, Order(who, N, M),
           NEW keys, keys = KeyList(key, who, N),
           NEW reps, NEW book, Maps(book, keys, reps, N)
    PROVE  Credits(AccountBy(book, key, M), M, N, who, reps)
  BY DEF Credits, Order, KeyList, Maps, AccountBy

\* What holds of all values of a list holds of the map.
LEMMA MapsOnly ==
    ASSUME NEW M, NEW key, NEW N, NEW who, Order(who, N, M),
           NEW keys, keys = KeyList(key, who, N),
           NEW reps, NEW book, Maps(book, keys, reps, N), DOMAIN book = KeySet(key, M)
    PROVE  \A p \in DOMAIN book : \E k \in 1 .. N : book[p] = reps[k]
  BY DEF Order, KeyList, Maps, KeySet

\* Nobody has passed a key at the coordinator's end of the chain.
LEMMA KnownNone ==
    ASSUME NEW km, NEW M, NEW rk PROVE KeysKnown(km, M, rk, 0)
  BY DEF KeysKnown

\* The coordinator opens a round.
LEMMA AnnounceLists ==
    ASSUME LinesInv, NymInv, Announce
    PROVE  LinesInv' /\ Account' = Account
<1>1. /\ Status = "READY_FOR_NEW_ROUND" /\ params = NoEntries
      /\ Resting(ReputationMap, registered, Roundkey)
      /\ Status' = "ANNOUNCE" /\ NewClientsBuffer' = {}
  BY DEF LinesInv, Announce
<1>2. /\ Roundkey \in [Servers -> RoundSecrets]
      /\ registered \in SUBSET Client /\ IsFiniteSet(registered)
      /\ 0 \in 0 .. Len(serverKey)
  BY ChainLength DEF LinesInv, NymInv
<1> PICK key : key = KeysUnder(Roundkey, 0)
  OBVIOUS
<1>3. key \in Injection(Client, Points)
  BY <1>2, KeysDiffer
<1>4. /\ DOMAIN ReputationMap = KeySet(key, registered)
      /\ \A k \in DOMAIN ReputationMap : Sealed(ReputationMap[k], 0)
  BY <1>1 DEF Resting
<1>5. UNCHANGED <<ReputationMap, DecryptedReputationMap, G, Roundkey, KeyMap, nyms, registered>>
  BY DEF Announce
<1>6. PICK keys \in Ranges(ReputationMap) :
         params' = [to |-> 1, keys |-> keys,
                    vals |-> [i \in DOMAIN keys |-> ReputationMap[keys[i]]]]
  BY DEF Announce
<1>7. PICK N, who : N \in Nat /\ Order(who, N, registered) /\ keys = KeyList(key, who, N)
  BY <1>2, <1>3, <1>4, RangeIsOrder
<1> PICK p : p = params'
  OBVIOUS
<1>8. /\ DOMAIN p = {"to", "keys", "vals"} /\ p.to = 1 /\ p.keys = keys
      /\ p.vals = [i \in DOMAIN keys |-> ReputationMap[keys[i]]]
  BY <1>6
<1>9. Listed(p, N, who, registered, key)
  BY <1>7, <1>8 DEF Listed, KeyList
<1>10. \A k \in 1 .. N : /\ keys[k] \in DOMAIN ReputationMap
                         /\ p.vals[k] = ReputationMap[keys[k]] /\ Sealed(p.vals[k], 0)
  <2>1. \A k \in 1 .. N : keys[k] \in DOMAIN ReputationMap
    BY <1>4, <1>7 DEF KeyList, KeySet, Order
  <2>2. DOMAIN keys = 1 .. N
    BY <1>7 DEF KeyList
  <2> QED
    BY <1>4, <1>8, <2>1, <2>2
<1>11. AnnouncementList(p, registered, Roundkey)
  <2>1. p.to - 1 = 0 /\ p.to \in 1 .. Len(serverKey) + 1
    BY <1>8, ChainLength
  <2>2. \E n, some : /\ Listed(p, n, some, registered, KeysUnder(Roundkey, p.to - 1))
                     /\ \A k \in 1 .. n : Sealed(p.vals[k], p.to - 1)
    BY <1>9, <1>10, <2>1
  <2> QED
    BY <1>8, <2>1, <2>2 DEF AnnouncementList, Provable
<1>12. p # NoEntries
  BY <1>8, SomeList
<1>13. PlaceOf(Status', params') = 0
  BY <1>1, <1>8, <1>12 DEF PlaceOf
<1>14. LinesInv'
  <2>1. KeysKnown(KeyMap', registered', Roundkey', PlaceOf(Status', params'))
    BY <1>13, KnownNone
  <2> QED
    BY <1>1, <1>5, <1>11, <2>1 DEF LinesInv
<1>15. Account' = Account
  <2> PICK a, b, rep : a = Account /\ b = Account' /\ rep = ReputationMap
    OBVIOUS
  <2> PICK book : book = [k \in DOMAIN rep |-> ByteToInt(rep[k].word)]
    OBVIOUS
  <2>1. /\ a = AccountAt("READY_FOR_NEW_ROUND", NoEntries, rep, DecryptedReputationMap, Roundkey)
        /\ b = AccountAt("ANNOUNCE", p, rep, DecryptedReputationMap, Roundkey)
    BY <1>1, <1>5, AccountNow
  <2>2. /\ book = BookOf("READY_FOR_NEW_ROUND", NoEntries, rep, DecryptedReputationMap)
        /\ PlaceOf("READY_FOR_NEW_ROUND", NoEntries) = 0 /\ DOMAIN book = KeySet(key, registered)
    BY <1>4 DEF BookOf, PlaceOf
  <2>3. a = AccountBy(book, key, registered)
    BY <1>2, <2>1, <2>2, BookAccount
  <2>4. Maps(book, keys, RepsOf(p), N)
    BY <1>8, <1>9, <1>10 DEF Maps, RepsOf, RepOf, Listed
  <2>5. Credits(a, registered, N, who, RepsOf(p))
    BY <1>7, <2>3, <2>4, BookCredits
  <2>6. PlaceOf("ANNOUNCE", p) = 0
    BY <1>1, <1>13
  <2>7. Listed(p, N, who, registered, KeysUnder(Roundkey, PlaceOf("ANNOUNCE", p)))
    BY <1>9, <2>6
  <2>8. Credits(b, registered, N, who, RepsOf(p))
    BY <1>2, <1>12, <2>1, <2>6, <2>7, ListedAccount
  <2>9. a = b
    BY <1>7, <2>5, <2>8, CreditsOnce
  <2> QED
    BY <2>9
<1> QED
  BY <1>14, <1>15

\* The coordinator takes the announcement back and talks to the clients.
LEMMA CoordAnnouncementLists ==
    ASSUME LinesInv, NymInv, CoordHandleAnnouncement
    PROVE  LinesInv' /\ Account' = Account
<1>1. /\ Status = "ANNOUNCE" /\ AnnouncementList(params, registered, Roundkey)
      /\ Status' = "MESSAGE" /\ params' = NoEntries
      /\ params.to = Len(serverKey) + 1 /\ "to" \in DOMAIN params
      /\ "is_start" \notin DOMAIN params /\ NewClientsBuffer = {}
  BY DEF LinesInv, CoordHandleAnnouncement, AnnouncementList
<1> PICK n, key : n = Len(serverKey) /\ key = KeysUnder(Roundkey, n)
  OBVIOUS
<1>2. /\ Roundkey \in [Servers -> RoundSecrets] /\ registered \in SUBSET Client
      /\ n \in Nat \ {0} /\ n \in 0 .. Len(serverKey) /\ params.to - 1 = n /\ params.to # 1
  BY <1>1, ChainLength DEF LinesInv, NymInv
<1>3. key \in Injection(Client, Points)
  BY <1>2, KeysDiffer
<1>4. PICK N, who : /\ Listed(params, N, who, registered, key)
                    /\ \A k \in 1 .. N : Sealed(params.vals[k], n)
  BY <1>1, <1>2 DEF AnnouncementList
<1>5. /\ N \in Nat /\ Order(who, N, registered)
      /\ params.keys = KeyList(key, who, N) /\ DOMAIN params.vals = 1 .. N
  BY <1>4 DEF Listed
<1> PICK keys, reps : keys = params.keys /\ reps = RepsOf(params)
  OBVIOUS
<1>6. reps = [i \in DOMAIN params.vals |-> ByteToInt(params.vals[i].word)]
  BY <1>1 DEF RepsOf, RepOf
<1>7. UNCHANGED <<ReputationMap, NewClientsBuffer, Roundkey, KeyMap, registered>>
  BY DEF CoordHandleAnnouncement
<1> PICK dec : dec = DecryptedReputationMap'
  OBVIOUS
<1>8. /\ DOMAIN dec = KeySet(key, registered) /\ Maps(dec, keys, reps, N)
      /\ DOMAIN nyms' \subseteq registered
      /\ DOMAIN nyms' # {} => G' = Raised(Base, Roundkey, n)
  <2>1. CASE keys = <<>>
    <3>1. N = 0
      BY <1>5, <2>1 DEF KeyList
    <3>2. registered = {}
      BY <1>5, <3>1 DEF Order
    <3>3. DOMAIN DecryptedReputationMap = {} /\ DOMAIN nyms = {}
      BY <3>2 DEF LinesInv
    <3>4. dec = DecryptedReputationMap /\ nyms' = nyms
      BY <2>1 DEF CoordHandleAnnouncement
    <3> QED
      BY <3>1, <3>2, <3>3, <3>4 DEF KeySet, Maps
  <2>2. CASE keys # <<>>
    <3>1. dec = MapOf(keys, reps)
      BY <1>6, <2>2 DEF CoordHandleAnnouncement
    <3>2. DOMAIN dec = KeySet(key, registered) /\ Maps(dec, keys, reps, N)
      BY <1>2, <1>3, <1>5, <3>1, ListBook
    <3>3. G' = params.g /\ DOMAIN nyms' = registered
      BY <2>2 DEF CoordHandleAnnouncement
    <3>4. params.g = Raised(Base, Roundkey, n)
      BY <1>1, <1>2 DEF AnnouncementList
    <3> QED
      BY <3>2, <3>3, <3>4
  <2> QED
    BY <2>1, <2>2
<1>9. \A k \in DOMAIN dec : dec[k] \in Int
  <2>1. \A k \in 1 .. N : reps[k] \in Int
    BY <1>4, <1>5, <1>6 DEF Sealed
  <2>2. \A p \in DOMAIN dec : \E k \in 1 .. N : dec[p] = reps[k]
    BY <1>5, <1>8, MapsOnly
  <2> QED
    BY <2>1, <2>2
<1>10. Talking(registered)'
  <2>1. NewClientsBuffer' = KeySet(key, registered \ registered)
    BY <1>1, <1>7 DEF KeySet
  <2> QED
    BY <1>7, <1>8, <1>9, <2>1 DEF Talking
<1>11. /\ PlaceOf(Status, params) = n /\ PlaceOf(Status', params') = n
       /\ params # NoEntries
  <2>1. params # NoEntries
    BY <1>1, SomeList
  <2> QED
    BY <1>1, <1>2, <2>1 DEF PlaceOf
<1>12. LinesInv'
  <2>1. KeysKnown(KeyMap', registered', Roundkey', PlaceOf(Status', params'))
    BY <1>7, <1>11 DEF LinesInv
  <2>2. registered' = {} => DOMAIN DecryptedReputationMap' = {}
    BY <1>7, <1>8 DEF KeySet
  <2>3. \E M \in SUBSET registered' : Talking(M)'
    BY <1>7, <1>10
  <2>4. /\ registered' \in SUBSET Client /\ IsFiniteSet(registered')
        /\ DOMAIN nyms' \subseteq registered' /\ DOMAIN KeyMap' = Servers
    BY <1>7, <1>8 DEF LinesInv
  <2> QED
    BY <1>1, <2>1, <2>2, <2>3, <2>4 DEF LinesInv
<1>13. Account' = Account
  <2> PICK a, b : a = Account /\ b = Account'
    OBVIOUS
  <2>1. /\ a = AccountAt(Status, params, ReputationMap, DecryptedReputationMap, Roundkey)
        /\ b = AccountAt("MESSAGE", NoEntries, ReputationMap, dec, Roundkey)
    BY <1>1, <1>7, AccountNow
  <2>2. Listed(params, N, who, registered, KeysUnder(Roundkey, PlaceOf(Status, params)))
    BY <1>4, <1>11
  <2>3. Credits(a, registered, N, who, reps)
    BY <1>2, <1>11, <2>1, <2>2, ListedAccount
  <2>4. dec = BookOf("MESSAGE", NoEntries, ReputationMap, dec)
        /\ PlaceOf("MESSAGE", NoEntries) = n
    BY DEF BookOf, PlaceOf
  <2>5. b = AccountBy(dec, key, registered)
    BY <1>2, <1>8, <2>1, <2>4, BookAccount
  <2>6. Credits(b, registered, N, who, reps)
    BY <1>5, <1>8, <2>5, BookCredits
  <2>7. a = b
    BY <1>5, <2>3, <2>6, CreditsOnce
  <2> QED
    BY <2>7
<1> QED
  BY <1>12, <1>13

\* The coordinator takes the end of the round back.
LEMMA CoordRoundEndLists ==
    ASSUME LinesInv, NymInv, CoordHandleRoundEnd
    PROVE  LinesInv' /\ Account' = Account
<1>1. /\ Status = "MESSAGE" /\ RoundEndList(params, registered, Roundkey)
      /\ Status' = "READY_FOR_NEW_ROUND" /\ params' = NoEntries
      /\ params.to = 0 /\ params # NoEntries
  BY DEF LinesInv, CoordHandleRoundEnd
<1> PICK key : key = KeysUnder(Roundkey, 0)
  OBVIOUS
<1>2. /\ Roundkey \in [Servers -> RoundSecrets] /\ registered \in SUBSET Client
      /\ 0 \in 0 .. Len(serverKey) /\ "is_start" \notin DOMAIN params
  BY <1>1, ChainLength DEF LinesInv, NymInv, RoundEndList
<1>3. key \in Injection(Client, Points)
  BY <1>2, KeysDiffer
<1>4. PICK N, who : /\ Listed(params, N, who, registered, key)
                    /\ \A k \in 1 .. N : Sealed(params.vals[k], 0)
  BY <1>1, <1>2 DEF RoundEndList
<1>5. /\ N \in Nat /\ Order(who, N, registered)
      /\ params.keys = KeyList(key, who, N) /\ DOMAIN params.vals = 1 .. N
  BY <1>4 DEF Listed
<1> PICK keys, vals, rep : keys = params.keys /\ vals = params.vals /\ rep = ReputationMap'
  OBVIOUS
<1>6. UNCHANGED <<DecryptedReputationMap, G, NewClientsBuffer, Roundkey, KeyMap, nyms, registered>>
      /\ rep = MapOf(keys, vals)
  BY DEF CoordHandleRoundEnd
<1>7. DOMAIN rep = KeySet(key, registered) /\ Maps(rep, keys, vals, N)
  BY <1>2, <1>3, <1>5, <1>6, ListBook
<1>8. \A p \in DOMAIN rep : Sealed(rep[p], 0)
  <2>1. \A p \in DOMAIN rep : \E k \in 1 .. N : rep[p] = vals[k]
    BY <1>5, <1>7, MapsOnly
  <2> QED
    BY <1>4, <2>1
<1>9. PlaceOf(Status, params) = 0 /\ PlaceOf(Status', params') = 0
  BY <1>1 DEF PlaceOf
<1>10. LinesInv'
  <2>1. KeysKnown(KeyMap', registered', Roundkey', PlaceOf(Status', params'))
    BY <1>9, KnownNone
  <2>2. Resting(rep, registered, Roundkey)
    BY <1>7, <1>8 DEF Resting
  <2> QED
    BY <1>1, <1>6, <2>1, <2>2 DEF LinesInv
<1>11. Account' = Account
  <2> PICK a, b : a = Account /\ b = Account'
    OBVIOUS
  <2> PICK book : book = [k \in DOMAIN rep |-> ByteToInt(rep[k].word)]
    OBVIOUS
  <2>1. /\ a = AccountAt("MESSAGE", params, ReputationMap, DecryptedReputationMap, Roundkey)
        /\ b = AccountAt("READY_FOR_NEW_ROUND", NoEntries, rep, DecryptedReputationMap, Roundkey)
    BY <1>1, <1>6, AccountNow
  <2>2. PlaceOf("MESSAGE", params) = 0
    BY <1>1, <1>9
  <2>3. Listed(params, N, who, registered, KeysUnder(Roundkey, PlaceOf("MESSAGE", params)))
    BY <1>4, <2>2
  <2>4. Credits(a, registered, N, who, RepsOf(params))
    BY <1>1, <1>2, <2>1, <2>2, <2>3, ListedAccount
  <2>5. Maps(book, keys, RepsOf(params), N)
    <3>1. \A k \in 1 .. N : keys[k] \in DOMAIN rep
      BY <1>5, <1>7 DEF KeyList, KeySet, Order
    <3> QED
      BY <1>2, <1>5, <1>7, <3>1 DEF Maps, RepsOf, RepOf
  <2>6. /\ book = BookOf("READY_FOR_NEW_ROUND", NoEntries, rep, DecryptedReputationMap)
        /\ PlaceOf("READY_FOR_NEW_ROUND", NoEntries) = 0 /\ DOMAIN book = KeySet(key, registered)
    BY <1>7 DEF BookOf, PlaceOf
  <2>7. b = AccountBy(book, key, registered)
    BY <1>2, <2>1, <2>6, BookAccount
  <2>8. Credits(b, registered, N, who, RepsOf(params))
    BY <1>5, <2>5, <2>7, BookCredits
  <2>9. a = b
    BY <1>5, <2>4, <2>8, CreditsOnce
  <2> QED
    BY <2>9
<1> QED
  BY <1>10, <1>11

\* A ledger that the clients of new have entered.
EnterAll(a, new) ==
    [c \in DOMAIN a \cup new |-> IF c \in new THEN 0 ELSE a[c]]

\* The round ends: who registered meanwhile enters the ledger.
LEMMA SendRoundEndLists ==
    ASSUME LinesInv, NymInv, SendRoundEnd
    PROVE  /\ LinesInv'
           /\ \E new \in SUBSET Client : /\ new \cap DOMAIN Account = {}
                                         /\ Account' = EnterAll(Account, new)
<1>1. /\ Status = "MESSAGE" /\ params = NoEntries
      /\ \E M \in SUBSET registered : Talking(M)
  <2>1. params = NoEntries => ~ RoundEndList(params, registered, Roundkey)
    BY DEF RoundEndList, NoEntries
  <2> QED
    BY <2>1 DEF LinesInv, SendRoundEnd
<1>2. PICK M \in SUBSET registered : Talking(M)
  BY <1>1
<1> PICK n, key, new : /\ n = Len(serverKey) /\ key = KeysUnder(Roundkey, n)
                       /\ new = registered \ M
  OBVIOUS
<1>3. /\ Roundkey \in [Servers -> RoundSecrets]
      /\ registered \in SUBSET Client /\ IsFiniteSet(registered)
      /\ M \in SUBSET Client /\ new \in SUBSET Client
      /\ M \cup new = registered /\ M \cap new = {}
      /\ n \in Nat \ {0} /\ n \in 0 .. Len(serverKey)
  BY ChainLength DEF LinesInv, NymInv
<1>4. key \in Injection(Client, Points)
  BY <1>3, KeysDiffer
<1>5. /\ DOMAIN DecryptedReputationMap = KeySet(key, M)
      /\ \A k \in DOMAIN DecryptedReputationMap : DecryptedReputationMap[k] \in Int
      /\ NewClientsBuffer = KeySet(key, new)
      /\ DOMAIN nyms \subseteq M
  BY <1>2 DEF Talking
<1> PICK dec, map, p : dec = DecryptedReputationMap /\ map = DecryptedReputationMap' /\ p = params'
  OBVIOUS
<1>6. /\ map = [k \in DOMAIN dec \cup NewClientsBuffer |->
                    IF k \in NewClientsBuffer THEN 0 ELSE dec[k]]
      /\ UNCHANGED <<Status, ReputationMap, G, NewClientsBuffer, Roundkey, KeyMap,
                     nyms, registered>>
  BY DEF SendRoundEnd
<1>7. PICK keys \in Ranges(map) :
         p = [to |-> n, keys |-> keys, is_start |-> TRUE,
              vals |-> [i \in DOMAIN keys |-> map[keys[i]]]]
  <2> DEFINE m == [k \in DOMAIN DecryptedReputationMap \cup NewClientsBuffer |->
                      IF k \in NewClientsBuffer THEN 0 ELSE DecryptedReputationMap[k]]
  <2>1. /\ map = m
        /\ \E keys \in Ranges(m) :
              p = [to |-> n, keys |-> keys, is_start |-> TRUE,
                   vals |-> [i \in DOMAIN keys |-> m[keys[i]]]]
    BY DEF SendRoundEnd
  <2> HIDE DEF m
  <2> QED
    BY <2>1
<1>8. DOMAIN map = KeySet(key, registered)
  BY <1>3, <1>5, <1>6 DEF KeySet
<1>9. PICK N, who : N \in Nat /\ Order(who, N, registered) /\ keys = KeyList(key, who, N)
  BY <1>3, <1>4, <1>8, RangeIsOrder
<1>10. /\ DOMAIN p = {"to", "keys", "is_start", "vals"} /\ p.to = n /\ p.keys = keys
       /\ p.vals = [i \in DOMAIN keys |-> map[keys[i]]]
  BY <1>7
<1>11. Listed(p, N, who, registered, key) /\ Maps(map, keys, RepsOf(p), N)
  <2>1. Listed(p, N, who, registered, key)
    BY <1>9, <1>10 DEF Listed, KeyList
  <2>2. DOMAIN keys = 1 .. N
    BY <1>9 DEF KeyList
  <2>3. Maps(map, keys, RepsOf(p), N)
    BY <1>10, <2>2 DEF Maps, RepsOf, RepOf
  <2> QED
    BY <2>1, <2>3
<1>12. \A k \in 1 .. N : p.vals[k] \in Int
  <2>1. \A k \in 1 .. N : keys[k] \in DOMAIN map
    BY <1>8, <1>9 DEF KeyList, KeySet, Order
  <2>2. DOMAIN keys = 1 .. N
    BY <1>9 DEF KeyList
  <2>3. \A k \in DOMAIN map : map[k] \in Int
    BY <1>5, <1>6
  <2> QED
    BY <1>10, <2>1, <2>2, <2>3
<1>13. RoundEndList(p, registered, Roundkey)
  <2>1. p.to = n /\ p.to \in 0 .. Len(serverKey) /\ p.to = Len(serverKey)
    BY <1>3, <1>10
  <2>2. \E num, some : /\ Listed(p, num, some, registered, KeysUnder(Roundkey, p.to))
                       /\ \A k \in 1 .. num :
                             IF "is_start" \in DOMAIN p THEN p.vals[k] \in Int
                             ELSE Sealed(p.vals[k], p.to)
    BY <1>10, <1>11, <1>12
  <2> QED
    BY <1>10, <2>1, <2>2 DEF RoundEndList, Provable
<1>14. /\ PlaceOf(Status, params) = n /\ PlaceOf(Status', params') = n /\ p # NoEntries
  <2>1. p # NoEntries
    BY <1>10, SomeList
  <2> QED
    BY <1>1, <1>6, <1>10, <2>1 DEF PlaceOf
<1>15. LinesInv'
  <2>1. KeysKnown(KeyMap', registered', Roundkey', PlaceOf(Status', params'))
    BY <1>6, <1>14 DEF LinesInv
  <2>2. registered = {} => DOMAIN map = {}
    BY <1>8 DEF KeySet
  <2> QED
    BY <1>1, <1>6, <1>13, <2>1, <2>2 DEF LinesInv
<1>16. new \cap DOMAIN Account = {} /\ Account' = EnterAll(Account, new)
  <2> PICK a, b : a = Account /\ b = Account'
    OBVIOUS
  <2>1. /\ a = AccountAt("MESSAGE", NoEntries, ReputationMap, dec, Roundkey)
        /\ b = AccountAt("MESSAGE", p, ReputationMap, map, Roundkey)
    BY <1>1, <1>6, AccountNow
  <2>2. dec = BookOf("MESSAGE", NoEntries, ReputationMap, dec)
        /\ PlaceOf("MESSAGE", NoEntries) = n /\ PlaceOf("MESSAGE", p) = n
    BY <1>1, <1>6, <1>14 DEF BookOf, PlaceOf
  <2>3. a = AccountBy(dec, key, M)
    BY <1>3, <1>5, <2>1, <2>2, BookAccount
  <2>4. Listed(p, N, who, registered, KeysUnder(Roundkey, PlaceOf("MESSAGE", p)))
    BY <1>11, <2>2
  <2>5. Credits(b, registered, N, who, RepsOf(p))
    BY <1>3, <1>14, <2>1, <2>2, <2>4, ListedAccount
  <2>6. Credits(AccountBy(map, key, registered), registered, N, who, RepsOf(p))
    BY <1>9, <1>11, BookCredits
  <2>7. b = AccountBy(map, key, registered)
    BY <1>9, <2>5, <2>6, CreditsOnce
  <2>8. \A c \in registered : b[c] = IF c \in new THEN 0 ELSE a[c]
    <3>1. \A c, d \in Client : key[c] = key[d] => c = d
      BY <1>4 DEF Injection, IsInjective
    <3>2. \A c \in registered : key[c] \in NewClientsBuffer <=> c \in new
      BY <1>3, <1>5, <3>1 DEF KeySet
    <3>3. \A c \in registered : key[c] \in DOMAIN dec \cup NewClientsBuffer
      BY <1>3, <1>5 DEF KeySet
    <3>4. \A c \in registered : b[c] = map[key[c]]
      BY <2>7 DEF AccountBy
    <3>5. \A c \in M : a[c] = dec[key[c]]
      BY <2>3 DEF AccountBy
    <3>6. \A k \in DOMAIN dec \cup NewClientsBuffer :
             map[k] = IF k \in NewClientsBuffer THEN 0 ELSE dec[k]
      BY <1>6
    <3> SUFFICES ASSUME NEW c \in registered PROVE b[c] = IF c \in new THEN 0 ELSE a[c]
      OBVIOUS
    <3> PICK k : k = key[c]
      OBVIOUS
    <3>7. b[c] = IF k \in NewClientsBuffer THEN 0 ELSE dec[k]
      BY <3>3, <3>4, <3>6
    <3> QED
      BY <1>3, <3>2, <3>5, <3>7
  <2>9. DOMAIN a = M /\ b = [c \in registered |-> b[c]]
    BY <2>3, <2>7 DEF AccountBy
  <2>10. b = EnterAll(a, new)
    BY <1>3, <2>8, <2>9 DEF EnterAll
  <2> QED
    BY <1>3, <2>9, <2>10
<1> QED
  BY <1>3, <1>15, <1>16

\* A client registers.
LEMMA RegisterLists ==
    ASSUME LinesInv, NymInv, NEW c \in Client, Register(c)
    PROVE  LinesInv' /\ Account' = Account
<1>1. /\ Status = "MESSAGE" /\ params = NoEntries /\ c \notin registered
      /\ \E M \in SUBSET registered : Talking(M)
  <2>1. params = NoEntries => ~ RoundEndList(params, registered, Roundkey)
    BY DEF RoundEndList, NoEntries
  <2> QED
    BY <2>1 DEF LinesInv, Register
<1>2. PICK M \in SUBSET registered : Talking(M)
  BY <1>1
<1> PICK n, key : n = Len(serverKey) /\ key = KeysUnder(Roundkey, n)
  OBVIOUS
<1>3. /\ Roundkey \in [Servers -> RoundSecrets]
      /\ registered \in SUBSET Client /\ IsFiniteSet(registered)
      /\ n \in Nat \ {0} /\ n \in 0 .. Len(serverKey)
  BY ChainLength DEF LinesInv, NymInv
<1>4. UNCHANGED <<Status, ReputationMap, DecryptedReputationMap, G, Roundkey, params, nyms>>
      /\ registered' = registered \cup {c}
  BY DEF Register
<1>5. \A i : Along(PublicKey(c), i) = KeysUnder(Roundkey, i)[c]
  BY AlongIs DEF KeysUnder, KeyUnder
<1>6. Account' = Account
  BY <1>4, AccountNow
<1>7. KeysKnown(KeyMap', registered', Roundkey, n) /\ DOMAIN KeyMap' = Servers
  <2>1. /\ KeyMap' = [s \in Servers |->
                        Over([k \in {KeysUnder(Roundkey, s)[c]} |-> KeysUnder(Roundkey, s - 1)[c]],
                             KeyMap[s])]
    BY <1>5 DEF Register
  <2>2. KeysKnown(KeyMap, registered, Roundkey, n)
    BY <1>1 DEF LinesInv, PlaceOf
  <2>3. ASSUME NEW s \in 1 .. n
        PROVE  Leads(KeyMap'[s], registered', KeysUnder(Roundkey, s), KeysUnder(Roundkey, s - 1))
    <3> PICK now, old : now = KeysUnder(Roundkey, s) /\ old = KeysUnder(Roundkey, s - 1)
      OBVIOUS
    <3>1. Leads(KeyMap[s], registered, now, old)
      BY <2>2, KnownIsLeads
    <3>2. now \in Injection(Client, Points)
      BY <1>3, KeysDiffer
    <3>3. s \in Servers
      BY ChainLength
    <3>4. KeyMap'[s] = Over([k \in {now[c]} |-> old[c]], KeyMap[s])
      BY <2>1, <3>3
    <3>5. \A d \in Client : now[c] = now[d] => c = d
      BY <3>2 DEF Injection, IsInjective
    <3> QED
      BY <1>3, <1>4, <3>1, <3>4, <3>5 DEF Leads, Over
  <2> QED
    BY <2>1, <2>3, KnownIsLeads
<1>8. Talking(M)'
  <2>1. NewClientsBuffer' = NewClientsBuffer \cup {key[c]}
    BY <1>5 DEF Register
  <2>2. NewClientsBuffer' = KeySet(key, registered' \ M)
    BY <1>1, <1>2, <1>4, <2>1 DEF Talking, KeySet
  <2> QED
    BY <1>2, <1>4, <2>2 DEF Talking
<1>9. LinesInv'
  <2>1. PlaceOf(Status', params') = n
    BY <1>1, <1>4 DEF PlaceOf
  <2>2. registered' \in SUBSET Client /\ IsFiniteSet(registered') /\ M \in SUBSET registered'
    BY <1>3, <1>4, FS_AddElement
  <2>3. /\ DOMAIN nyms' \subseteq registered' /\ registered' # {}
    BY <1>4 DEF LinesInv
  <2> QED
    BY <1>1, <1>4, <1>7, <1>8, <2>1, <2>2, <2>3 DEF LinesInv
<1> QED
  BY <1>6, <1>9

\* A vote on a message reaches the account of its author.
LEMMA VoteLists ==
    ASSUME LinesInv, NymInv, NEW c \in DOMAIN nyms, NEW vote \in {-1, 1}, Vote(c, vote)
    PROVE  /\ LinesInv'
           /\ c \in DOMAIN Account
           /\ Account' = [Account EXCEPT ![c] = @ + vote]
<1>1. /\ Status = "MESSAGE" /\ params = NoEntries
      /\ \E M \in SUBSET registered : Talking(M)
  <2>1. params = NoEntries => ~ RoundEndList(params, registered, Roundkey)
    BY DEF RoundEndList, NoEntries
  <2> QED
    BY <2>1 DEF LinesInv, Vote
<1>2. PICK M \in SUBSET registered : Talking(M)
  BY <1>1
<1> PICK n, key : n = Len(serverKey) /\ key = KeysUnder(Roundkey, n)
  OBVIOUS
<1>3. /\ Roundkey \in [Servers -> RoundSecrets]
      /\ registered \in SUBSET Client /\ M \in SUBSET Client
      /\ n \in Nat \ {0} /\ n \in 0 .. Len(serverKey)
  BY ChainLength DEF LinesInv, NymInv
<1>4. key \in Injection(Client, Points)
  BY <1>3, KeysDiffer
<1>5. /\ DOMAIN DecryptedReputationMap = KeySet(key, M)
      /\ \A k \in DOMAIN DecryptedReputationMap : DecryptedReputationMap[k] \in Int
      /\ c \in M /\ G = Raised(Base, Roundkey, n)
  BY <1>2 DEF Talking
<1>6. nyms[c] = key[c] /\ key[c] \in DOMAIN DecryptedReputationMap
  <2>1. nyms[c] = Mul(G, clientKey[c])
    BY DEF NymInv
  <2>2. KeyUnder(Roundkey, c, n) = Mul(Raised(Base, Roundkey, n), clientKey[c])
    BY <1>3, <1>5, KeyOfGenerator
  <2>3. key[c] = KeyUnder(Roundkey, c, n)
    BY <1>3, <1>5 DEF KeysUnder
  <2> QED
    BY <1>5, <2>1, <2>2, <2>3 DEF KeySet
<1> PICK dec, map : dec = DecryptedReputationMap /\ map = DecryptedReputationMap'
  OBVIOUS
<1>7. /\ map = [dec EXCEPT ![key[c]] = @ + vote]
      /\ UNCHANGED <<Status, ReputationMap, G, NewClientsBuffer, Roundkey, KeyMap,
                     params, nyms, registered>>
  BY <1>6 DEF Vote
<1>8. DOMAIN map = DOMAIN dec /\ \A k \in DOMAIN map : map[k] \in Int
  BY <1>5, <1>7
<1>9. Talking(M)'
  BY <1>2, <1>7, <1>8 DEF Talking
<1>10. LinesInv'
  <2>1. registered = {} => DOMAIN map = {}
    BY <1>8 DEF LinesInv
  <2>2. M \in SUBSET registered'
    BY <1>7
  <2>3. KeysKnown(KeyMap', registered', Roundkey', PlaceOf(Status', params'))
    BY <1>7 DEF LinesInv
  <2>4. /\ registered' \in SUBSET Client /\ IsFiniteSet(registered')
        /\ DOMAIN nyms' \subseteq registered' /\ DOMAIN KeyMap' = Servers
    BY <1>7 DEF LinesInv
  <2> QED
    BY <1>1, <1>7, <1>9, <2>1, <2>2, <2>3, <2>4 DEF LinesInv
<1>11. c \in DOMAIN Account /\ Account' = [Account EXCEPT ![c] = @ + vote]
  <2> PICK a, b : a = Account /\ b = Account'
    OBVIOUS
  <2>1. /\ a = AccountAt("MESSAGE", NoEntries, ReputationMap, dec, Roundkey)
        /\ b = AccountAt("MESSAGE", NoEntries, ReputationMap, map, Roundkey)
    BY <1>1, <1>7, AccountNow
  <2>2. /\ dec = BookOf("MESSAGE", NoEntries, ReputationMap, dec)
        /\ map = BookOf("MESSAGE", NoEntries, ReputationMap, map)
        /\ PlaceOf("MESSAGE", NoEntries) = n
    BY DEF BookOf, PlaceOf
  <2>3. a = AccountBy(dec, key, M)
    BY <1>3, <1>5, <2>1, <2>2, BookAccount
  <2>4. b = AccountBy(map, key, M)
    BY <1>3, <1>5, <1>8, <2>1, <2>2, BookAccount
  <2>5. \A d \in M : b[d] = IF d = c THEN a[d] + vote ELSE a[d]
    <3>1. \A d, e \in Client : key[d] = key[e] => d = e
      BY <1>4 DEF Injection, IsInjective
    <3>2. \A d \in M : key[d] \in DOMAIN dec
      BY <1>5 DEF KeySet
    <3>3. \A d \in M : a[d] = dec[key[d]] /\ b[d] = map[key[d]]
      BY <2>3, <2>4 DEF AccountBy
    <3> QED
      BY <1>3, <1>5, <1>7, <3>1, <3>2, <3>3
  <2>6. DOMAIN a = M /\ b = [d \in M |-> b[d]]
    BY <2>3, <2>4 DEF AccountBy
  <2>7. b = [a EXCEPT ![c] = @ + vote]
    <3>1. [a EXCEPT ![c] = @ + vote] = [d \in M |-> IF d = c THEN a[d] + vote ELSE a[d]]
      BY <2>6
    <3> QED
      BY <2>5, <2>6, <3>1
  <2> QED
    BY <1>5, <2>6, <2>7
<1> QED
  BY <1>10, <1>11

\* Before the first round there is nobody and no list.
LEMMA ListInit == Init => LinesInv /\ Ledger!Init
<1> SUFFICES ASSUME Init PROVE LinesInv /\ Ledger!Init
  OBVIOUS
<1>1. /\ Status = "READY_FOR_NEW_ROUND" /\ params = NoEntries /\ registered = {}
      /\ DOMAIN nyms = {} /\ DOMAIN DecryptedReputationMap = {}
      /\ DOMAIN ReputationMap = {} /\ DOMAIN KeyMap = Servers /\ NewClientsBuffer = {}
      /\ Roundkey \in [Servers -> RoundSecrets]
  BY DEF Init, NoEntries
<1>2. PlaceOf(Status, params) = 0
  BY <1>1 DEF PlaceOf
<1>3. Resting(ReputationMap, registered, Roundkey)
  BY <1>1 DEF Resting, KeySet
<1>4. IsFiniteSet(registered)
  BY <1>1, FS_EmptySet
<1>5. LinesInv
  <2>1. KeysKnown(KeyMap, registered, Roundkey, PlaceOf(Status, params))
    BY <1>2, KnownNone
  <2> QED
    BY <1>1, <1>3, <1>4, <2>1 DEF LinesInv
<1>6. Account = [c \in {} |-> 0]
  <2>1. PICK a, rep, none, book, key :
           /\ a = Account /\ rep = ReputationMap /\ none = {}
           /\ book = [k \in DOMAIN rep |-> ByteToInt(rep[k].word)]
           /\ key = KeysUnder(Roundkey, 0)
    OBVIOUS
  <2>2. /\ a = AccountAt("READY_FOR_NEW_ROUND", NoEntries, rep, DecryptedReputationMap, Roundkey)
        /\ Roundkey \in [Servers -> RoundSecrets]
    BY <1>1, <2>1, AccountNow
  <2>3. /\ book = BookOf("READY_FOR_NEW_ROUND", NoEntries, rep, DecryptedReputationMap)
        /\ key = KeysUnder(Roundkey, PlaceOf("READY_FOR_NEW_ROUND", NoEntries))
        /\ DOMAIN book = KeySet(key, none) /\ none \in SUBSET Client
    BY <1>1, <2>1 DEF BookOf, PlaceOf, KeySet
  <2>4. a = AccountBy(book, key, none)
    BY <2>2, <2>3, BookAccount
  <2> QED
    BY <2>1, <2>4 DEF AccountBy
<1> QED
  BY <1>5, <1>6 DEF Ledger!Init

\* Every step of a list is a step of the ledger or none.
LEMMA ListStep ==
    ASSUME LinesInv, NymInv, [Next]_vars
    PROVE  LinesInv' /\ [Ledger!Next]_Account
<1>1. CASE Announce
  BY <1>1, AnnounceLists
<1>2. CASE CoordHandleAnnouncement
  BY <1>2, CoordAnnouncementLists
<1>3. CASE SendRoundEnd
  <2>1. PICK new \in SUBSET Client : /\ new \cap DOMAIN Account = {}
                                     /\ Account' = EnterAll(Account, new)
    BY <1>3, SendRoundEndLists
  <2>2. CASE new # {}
    BY <1>3, <2>1, <2>2, SendRoundEndLists DEF EnterAll, Ledger!Next, Ledger!Enter
  <2>3. CASE new = {}
    <3>1. Account' = [c \in DOMAIN Account |-> Account[c]]
      BY <2>1, <2>3 DEF EnterAll
    <3>2. Account = [c \in DOMAIN Account |-> Account[c]]
      BY DEF Account
    <3> QED
      BY <1>3, <3>1, <3>2, SendRoundEndLists
  <2> QED
    BY <2>2, <2>3
<1>4. CASE CoordHandleRoundEnd
  BY <1>4, CoordRoundEndLists
<1>5. ASSUME NEW s \in Servers, ServerHandleAnnouncement(s)
      PROVE  LinesInv' /\ [Ledger!Next]_Account
  BY <1>5, ServerAnnouncementLists
<1>6. ASSUME NEW s \in Servers, ServerHandleRoundEnd(s)
      PROVE  LinesInv' /\ [Ledger!Next]_Account
  BY <1>6, ServerRoundEndLists DEF Settled, Ledger!Next, Ledger!Settle
<1>7. ASSUME NEW c \in Client, Register(c)
      PROVE  LinesInv' /\ [Ledger!Next]_Account
  BY <1>7, RegisterLists
<1>8. ASSUME NEW c \in DOMAIN nyms, NEW vote \in {-1, 1}, Vote(c, vote)
      PROVE  LinesInv' /\ [Ledger!Next]_Account
  BY <1>8, VoteLists DEF Ledger!Next, Ledger!Vote
<1>9. CASE UNCHANGED vars
  <2>1. LinesInv'
    BY <1>9 DEF LinesInv, vars, Talking
  <2>2. Account' = Account
    BY <1>9, AccountNow DEF vars
  <2> QED
    BY <2>1, <2>2
<1> QED
  BY <1>1, <1>2, <1>3, <1>4, <1>5, <1>6, <1>7, <1>8, <1>9
     DEF Next, CoordNext, ServerNext, ClientNext

\* Nothing on the list makes the server it is for panic.
LEMMA ListAccepted == LinesInv /\ NymInv => ListsAccepted
<1> SUFFICES ASSUME LinesInv, NymInv, params # NoEntries, params.to \in Servers
             PROVE  Accepts(params.to)
  BY DEF ListsAccepted
<1> PICK s : s = params.to
  OBVIOUS
<1>1. s \in Servers /\ s \in 1 .. Len(serverKey) /\ s - 1 \in 0 .. Len(serverKey)
  BY ChainLength
<1>2. CASE Status = "ANNOUNCE"
  <2>1. AnnouncementList(params, registered, Roundkey)
    BY <1>2 DEF LinesInv
  <2>2. PICK N, who : /\ Listed(params, N, who, registered, KeysUnder(Roundkey, s - 1))
                      /\ \A k \in 1 .. N : Sealed(params.vals[k], s - 1)
    BY <2>1 DEF AnnouncementList
  <2>3. \A k \in 1 .. N : CanDecrypt(params.vals[k], s)
    BY <1>1, <2>2, DecryptStep
  <2>4. DOMAIN params.keys = 1 .. N
    BY <2>2 DEF Listed, KeyList
  <2>5. Provable(params)
    BY <2>1 DEF AnnouncementList
  <2> QED
    BY <1>2, <2>3, <2>4, <2>5 DEF Accepts, Provable
<1>3. CASE Status # "ANNOUNCE"
  <2>1. Status = "MESSAGE" /\ RoundEndList(params, registered, Roundkey)
    BY <1>3 DEF LinesInv
  <2> PICK key, old : key = KeysUnder(Roundkey, s) /\ old = KeysUnder(Roundkey, s - 1)
    OBVIOUS
  <2>2. PICK N, who : Listed(params, N, who, registered, key)
    BY <2>1 DEF RoundEndList
  <2>3. KeysKnown(KeyMap, registered, Roundkey, s)
    BY <2>1 DEF LinesInv, PlaceOf
  <2>4. Leads(KeyMap[s], registered, key, old)
    BY <1>1, <2>3, KnownIsLeads
  <2>5. DOMAIN params.keys = 1 .. N /\ \A k \in 1 .. N : params.keys[k] \in DOMAIN KeyMap[s]
    BY <2>2, <2>4 DEF Listed, KeyList, Order, Leads
  <2>6. Provable(params)
    BY <2>1 DEF RoundEndList
  <2> QED
    BY <1>3, <2>5, <2>6 DEF Accepts, Provable
<1> QED
  BY <1>2, <1>3

(* Whatever has been registered, voted and shuffled: every list that reaches *)
(* a server passes there.  Its proof verifies, its values are encrypted for   *)
(* that server next, its keys are in KeyMap (AnonServerHandler.go:66, 101,    *)
(* 254).                                                                      *)
THEOREM ListsPass == Spec => []ListsAccepted
<1>1. Init => LinesInv /\ NymInv
  BY ListInit, NymInit
<1>2. (LinesInv /\ NymInv) /\ [Next]_vars => (LinesInv /\ NymInv)'
  BY ListStep, NymStep
<1>3. LinesInv /\ NymInv => ListsAccepted
  BY ListAccepted
<1> QED
  BY <1>1, <1>2, <1>3, PTL DEF Spec

(* Each step of the lists is a step of the ledger or changes no account: a    *)
(* reputation moves by votes on its owner's messages and by nothing else,     *)
(* except that it becomes a word of 32 bits when a round ends                 *)
(* (AnonServerHandler.go:139-142 and 291-292, Util.go:79,                     *)
(* CoordinatorHandler.go:239).                                                *)
THEOREM LedgerImplemented == Spec => LedgerKept
<1>1. Init => (LinesInv /\ NymInv) /\ Ledger!Init
  BY ListInit, NymInit
<1>2. (LinesInv /\ NymInv) /\ [Next]_vars => (LinesInv /\ NymInv)' /\ [Ledger!Next]_Account
  BY ListStep, NymStep
<1> QED
  BY <1>1, <1>2, PTL DEF Spec, LedgerKept, Ledger!Spec
=============================================================================
