--------------------------- MODULE ListShuffleProofs --------------------------
(***************************************************************************)
(* What the algorithms of Util and ListShuffle compute, for any group, any *)
(* list, any reputation and any choice of the random numbers.              *)
(***************************************************************************)
EXTENDS ListShuffle, TLAPS, FiniteSetTheorems

(* Signatures and encryption. *)

(* A signature made with the private key x over the base g verifies over g *)
(* under the point that is g raised to x, and under no other: what         *)
(* AnonCrypto takes for granted of ElGamalSign and ElGamalVerify.  The     *)
(* challenge is assumed to tell the commitment from other points and to be *)
(* no divisor of the order of the group (Util.go:111, Util.go:134).        *)
THEOREM SignatureNamesSigner ==
    ASSUME NEW m \in Message, NEW g \in Points, NEW x \in Secrets,
           NEW v \in Secrets, NEW nym \in Points,
           \A T \in Points :
               hashElGamal(m, T) = hashElGamal(m, Mul(g, v)) => T = Mul(g, v),
           \A p, q \in Points :
               Mul(p, hashElGamal(m, Mul(g, v))) = Mul(q, hashElGamal(m, Mul(g, v)))
               => p = q
    PROVE  ElGamalVerify(m, nym, ElGamalSign(m, x, g, v), g) <=> nym = Mul(g, x)
<1> DEFINE c == hashElGamal(m, Mul(g, v))
           xc == SecretMul(x, c)
           response == Mul(g, SecretSub(v, xc))
           T == Add(response, Mul(nym, c))
<1>1. Mul(g, v) \in Points /\ Mul(g, x) \in Points
  BY SecretAssumption
<1>2. c \in Secrets
  BY <1>1, HashAssumption
<1>3. xc \in Secrets /\ SecretSub(v, xc) \in Secrets
  BY <1>2, SecretAssumption
<1>4. response \in Points /\ Mul(nym, c) \in Points /\ Mul(g, xc) \in Points
  BY <1>2, <1>3, SecretAssumption
<1>5. T \in Points
  BY <1>4, GroupAssumption
<1>6. Add(response, Mul(g, xc)) = Mul(g, v)
  BY <1>3, SecretAssumption
<1>7. Mul(Mul(g, x), c) = Mul(g, xc)
  BY <1>2, SecretAssumption
<1>8. T = Mul(g, v) <=> Mul(nym, c) = Mul(Mul(g, x), c)
  <2>1. \A p, q \in Points : Add(response, p) = Add(response, q) => p = q
    <3> SUFFICES ASSUME NEW p \in Points, NEW q \in Points,
                        Add(response, p) = Add(response, q)
                 PROVE  p = q
      OBVIOUS
    <3>1. Add(p, response) = Add(q, response)
      BY <1>4, GroupAssumption
    <3> QED
      BY <3>1, <1>4, GroupAssumption
  <2> QED
    BY <2>1, <1>4, <1>6, <1>7
<1>9. Mul(nym, c) = Mul(Mul(g, x), c) <=> nym = Mul(g, x)
  BY <1>1
<1>10. ElGamalVerify(m, nym, ElGamalSign(m, x, g, v), g) <=> hashElGamal(m, T) = c
  BY DEF ElGamalVerify, ElGamalSign
<1>11. hashElGamal(m, T) = c <=> T = Mul(g, v)
  BY <1>5
<1> QED
  BY <1>8, <1>9, <1>10, <1>11

-----------------------------------------------------------------------------
(* Reputations as words. *)

\* The remainder is the only number below the divisor that differs from a by a
\* multiple of it.
LEMMA RemainderIs ==
    ASSUME NEW a \in Int, NEW m \in Nat \ {0}, NEW q \in Int, NEW t \in 0 .. m - 1,
           a = m * q + t
    PROVE  a % m = t /\ a \div m = q
<1>1. a = m * (a \div m) + (a % m) /\ a % m \in 0 .. m - 1 /\ a \div m \in Int
  OBVIOUS
<1> DEFINE d == a \div m
           u == a % m
<1>2. m * (q - d) = u - t /\ u - t < m /\ t - u < m
  BY <1>1
<1> HIDE DEF d, u
<1>3. d \in Int /\ u \in Int
  BY <1>1 DEF d, u
<1>4. q - d < 1
  <2> SUFFICES ASSUME q - d >= 1 PROVE FALSE
    BY <1>3
  <2>1. m * (q - d) >= m
    BY <1>3
  <2> QED
    BY <2>1, <1>2, <1>3
<1>5. q - d > -1
  <2> SUFFICES ASSUME d - q >= 1 PROVE FALSE
    BY <1>3
  <2>1. m * (d - q) >= m
    BY <1>3
  <2>2. m * (d - q) = t - u
    BY <1>2, <1>3
  <2> QED
    BY <2>1, <2>2, <1>2, <1>3
<1>6. q = d
  BY <1>4, <1>5, <1>3
<1> QED
  BY <1>6, <1>2, <1>3 DEF d, u

\* Dividing twice.
LEMMA DivideTwice ==
    ASSUME NEW a \in Int, NEW m \in Nat \ {0}, NEW k \in Nat \ {0}
    PROVE  /\ a \div (m * k) = (a \div m) \div k
           /\ a % (m * k) = m * ((a \div m) % k) + (a % m)
<1> DEFINE d == a \div m
           u == a % m
           e == d \div k
           w == d % k
<1>1. a = m * d + u /\ u \in 0 .. m - 1 /\ d \in Int
  OBVIOUS
<1>2. d = k * e + w /\ w \in 0 .. k - 1 /\ e \in Int
  BY <1>1
<1> HIDE DEF d, u, e, w
<1>3. m * k \in Nat \ {0}
  OBVIOUS
<1>4. a = (m * k) * e + (m * w + u)
  <2>1. m * d = m * (k * e) + m * w
    BY <1>1, <1>2
  <2>2. m * (k * e) = (m * k) * e
    BY <1>2
  <2> QED
    BY <1>1, <1>2, <2>1, <2>2
<1>5. m * w + u \in 0 .. (m * k) - 1
  <2>1. w + 1 <= k /\ w \in Nat
    BY <1>2
  <2>2. m * (w + 1) <= m * k
    BY <2>1
  <2>3. m * (w + 1) = m * w + m /\ m * w \in Nat
    BY <2>1
  <2> QED
    BY <2>2, <2>3, <1>1, <1>3
<1>6. a % (m * k) = m * w + u /\ a \div (m * k) = e
  BY <1>2, <1>3, <1>4, <1>5, RemainderIs
<1> QED
  BY <1>6 DEF d, u, e, w

(* Four bytes hold a reputation modulo 2^32, whatever its sign (Util.go:79, *)
(* Util.go:88).                                                             *)
THEOREM WordKeepsRemainder ==
    ASSUME NEW n \in Int
    PROVE  ByteToInt(IntToByte(n)) = n % WordModulus
<1> DEFINE r == Radix
           b == n \div r
           c == b \div r
           d == c \div r
<1>1. r \in Nat \ {0} /\ r * r \in Nat \ {0} /\ r * r * r \in Nat \ {0}
  BY RadixAssumption
<1>2. b \in Int /\ c \in Int /\ d \in Int
  BY <1>1
<1>3. n \div (r * r) = c /\ n % (r * r) = r * (b % r) + (n % r)
  BY <1>1, DivideTwice
<1>4. n \div (r * r * r) = d /\ n % (r * r * r) = (r * r) * (c % r) + (n % (r * r))
  BY <1>1, <1>3, DivideTwice, ZenonT(30)
<1>5. n % (r * r * r * r) = (r * r * r) * (d % r) + (n % (r * r * r))
  BY <1>1, <1>4, DivideTwice
<1>6. IntToByte(n) = <<d % r, c % r, b % r, n % r>>
  BY <1>3, <1>4 DEF IntToByte
<1>7. ByteToInt(IntToByte(n)) = (((d % r) * r + (c % r)) * r + (b % r)) * r + (n % r)
  BY <1>6 DEF ByteToInt
<1>8. d % r \in Int /\ c % r \in Int /\ b % r \in Int /\ n % r \in Int
  BY <1>1, <1>2
<1>9. \A x, y, z, t, s \in Int : ((x * s + y) * s + z) * s + t
            = (s * s * s) * x + ((s * s) * y + (s * z + t))
  OBVIOUS
<1>10. ByteToInt(IntToByte(n))
          = (r * r * r) * (d % r) + ((r * r) * (c % r) + (r * (b % r) + (n % r)))
  <2> HIDE DEF b, c, d
  <2> QED
    BY <1>1, <1>7, <1>8, <1>9
<1> QED
  BY <1>3, <1>4, <1>5, <1>10 DEF WordModulus

\* The word has finitely many values.
LEMMA WordPositive == WordModulus \in Nat \ {0}
<1>1. Radix * Radix \in Nat \ {0}
  BY RadixAssumption
<1>2. Radix * Radix * Radix \in Nat \ {0}
  BY <1>1, RadixAssumption
<1> QED
  BY <1>2, RadixAssumption DEF WordModulus

-----------------------------------------------------------------------------
(* Shuffles. *)

\* What is added to a point can be taken off it.
LEMMA BlindingComesOff ==
    ASSUME NEW p \in Points, NEW q \in Points
    PROVE  Sub(Add(p, q), p) = q
  BY GroupAssumption

\* Of a list of distinct keys the map has every value under its key.
LEMMA MapOfAt ==
    ASSUME NEW n \in Nat, NEW keys, DOMAIN keys = 1 .. n, NEW vals, NEW i \in 1 .. n,
           \A j, k \in 1 .. n : keys[j] = keys[k] => j = k
    PROVE  keys[i] \in DOMAIN MapOf(keys, vals) /\ MapOf(keys, vals)[keys[i]] = vals[i]
<1>1. (CHOOSE j \in 1 .. n :
          keys[j] = keys[i] /\ \A k \in 1 .. n : keys[k] = keys[i] => k <= j) = i
  OBVIOUS
<1> QED
  BY <1>1 DEF MapOf

(* A shuffle puts the keys into another order and nothing else, and each    *)
(* value follows its key: whatever the order, the blinding and the length   *)
(* of the list.  This is what AnonServer says of Raised and Restored        *)
(* (AnonServerHandler.go:139-142 and 291-292).                              *)
THEOREM ShuffleKeepsPairs ==
    ASSUME NEW n \in Nat, NEW h \in Points, NEW X \in [1 .. n -> Points],
           NEW newKeys \in Injection(1 .. n, Points), NEW newVals,
           NEW pi \in Orders(n), NEW beta \in [1 .. n -> Secrets]
    PROVE  LET sh == neffShuffle(h, X, newKeys, pi, beta)
               finalKeys == convertToOrigin(sh.Ybar, sh.Ytmp)
               finalVals == rebindReputation(newKeys, newVals, finalKeys)
           IN  \A i \in 1 .. n : /\ finalKeys[i] = newKeys[pi[i]]
                                 /\ finalVals[i] = newVals[pi[i]]
<1> DEFINE sh == neffShuffle(h, X, newKeys, pi, beta)
           finalKeys == convertToOrigin(sh.Ybar, sh.Ytmp)
           finalVals == rebindReputation(newKeys, newVals, finalKeys)
<1> SUFFICES ASSUME NEW i \in 1 .. n
             PROVE  /\ finalKeys[i] = newKeys[pi[i]]
                    /\ finalVals[i] = newVals[pi[i]]
  OBVIOUS
<1>0. /\ newKeys \in [1 .. n -> Points]
      /\ \A j, k \in 1 .. n : newKeys[j] = newKeys[k] => j = k
  BY DEF Injection, IsInjective
<1>1. pi[i] \in 1 .. n /\ newKeys[pi[i]] \in Points /\ Mul(h, beta[i]) \in Points
  BY <1>0, SecretAssumption DEF Orders
<1>2. finalKeys[i] = Sub(Add(Mul(h, beta[i]), newKeys[pi[i]]), Mul(h, beta[i]))
  BY <1>0 DEF neffShuffle, convertToOrigin
<1>3. finalKeys[i] = newKeys[pi[i]]
  BY <1>1, <1>2, BlindingComesOff
<1>4. DOMAIN newKeys = 1 .. n
  BY <1>0
<1>5. /\ newKeys[pi[i]] \in DOMAIN MapOf(newKeys, newVals)
      /\ MapOf(newKeys, newVals)[newKeys[pi[i]]] = newVals[pi[i]]
  <2>1. PICK j, keys : j = pi[i] /\ keys = newKeys
    OBVIOUS
  <2>2. /\ j \in 1 .. n /\ DOMAIN keys = 1 .. n
        /\ \A k, l \in 1 .. n : keys[k] = keys[l] => k = l
    BY <1>0, <1>1, <2>1
  <2>3. keys[j] \in DOMAIN MapOf(keys, newVals) /\ MapOf(keys, newVals)[keys[j]] = newVals[j]
    BY <2>2, MapOfAt
  <2> QED
    BY <2>1, <2>3
<1>6. finalVals[i] = newVals[pi[i]]
  <2> HIDE DEF finalKeys
  <2> QED
    BY <1>3, <1>4, <1>5 DEF rebindReputation
<1> QED
  BY <1>3, <1>6

(* The next server accepts the proof of an honest shuffle, with the lists   *)
(* and the public key the message carries (AnonServerHandler.go:51).        *)
LEMMA HonestShuffleVerifies ==
    ASSUME NEW h \in Points, NEW X \in Seq(Points), NEW Y \in Seq(Points),
           Len(Y) = Len(X), NEW pi \in Orders(Len(X)),
           NEW beta \in [1 .. Len(X) -> Secrets]
    PROVE  LET sh == neffShuffle(h, X, Y, pi, beta)
           IN  IsShuffle(h, X, Y, sh.Xbar, sh.Ybar)
<1> DEFINE sh == neffShuffle(h, X, Y, pi, beta)
<1>1. \A i \in DOMAIN X : /\ beta[i] \in Secrets
                          /\ sh.Xbar[i] = Add(Mul(Base, beta[i]), X[pi[i]])
                          /\ sh.Ybar[i] = Add(Mul(h, beta[i]), Y[pi[i]])
  BY DEF neffShuffle
<1> QED
  BY <1>1 DEF IsShuffle

-----------------------------------------------------------------------------
(* Lists in some order. *)

\* who lists the N members of M, each once.
Order(who, N, M) ==
    /\ who \in [1 .. N -> M]
    /\ \A j, k \in 1 .. N : who[j] = who[k] => j = k
    /\ \A c \in M : \E k \in 1 .. N : who[k] = c

\* The keys of the clients of M.
KeySet(key, M) == {key[c] : c \in M}

\* A list in the order pi.
Reorder(list, pi, N) == [k \in 1 .. N |-> list[pi[k]]]

\* The keys of the clients in the order who.
KeyList(key, who, N) == [k \in 1 .. N |-> key[who[k]]]

\* An order reaches every position.
LEMMA OrderIsOnto ==
    ASSUME NEW N \in Nat, NEW pi \in Orders(N)
    PROVE  Order(pi, N, 1 .. N)
<1>1. pi \in Injection(1 .. N, 1 .. N)
  BY DEF Orders, Injection, IsInjective
<1>2. IsFiniteSet(1 .. N)
  BY FS_Interval
<1>3. pi \in Surjection(1 .. N, 1 .. N)
  BY <1>1, <1>2, FS_Injection
<1> QED
  BY <1>3 DEF Orders, Order, Surjection

\* What is in some order stays in some order.
LEMMA OrderAgain ==
    ASSUME NEW N \in Nat, NEW M, NEW who, Order(who, N, M), NEW pi \in Orders(N)
    PROVE  Order(Reorder(who, pi, N), N, M)
<1>1. Order(pi, N, 1 .. N)
  BY OrderIsOnto
<1> DEFINE new == [k \in 1 .. N |-> who[pi[k]]]
<1>2. new \in [1 .. N -> M] /\ \A j, k \in 1 .. N : new[j] = new[k] => j = k
  BY <1>1 DEF Order
<1>3. ASSUME NEW c \in M PROVE \E k \in 1 .. N : new[k] = c
  <2>1. PICK j \in 1 .. N : who[j] = c
    BY DEF Order
  <2>2. PICK k \in 1 .. N : pi[k] = j
    BY <1>1 DEF Order
  <2> QED
    BY <2>1, <2>2
<1> QED
  BY <1>2, <1>3 DEF Order, Reorder
=============================================================================
