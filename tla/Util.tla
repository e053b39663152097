--------------------------------- MODULE Util ---------------------------------
(***************************************************************************)
(* The computations of util/Util.go, over any commutative group.  A point  *)
(* times a secret is what the code calls Mul; the secrets are numbers      *)
(* modulo the order of the group.  dedis/crypto is modelled by the laws it *)
(* is used for; a nil base stands for Base.                                *)
(***************************************************************************)
EXTENDS Integers, Sequences

CONSTANTS
    Points, Secrets,
    Base,                                   \* the standard base point
    Add(_, _), Sub(_, _), Mul(_, _),        \* abstract.Point
    SecretMul(_, _), SecretSub(_, _),       \* abstract.Secret
    Message,                                \* texts of requests
    hashElGamal(_, _),                      \* of a message and a point
    Radix                                   \* 256: the values of a byte

ASSUME GroupAssumption ==
    /\ Base \in Points
    /\ \A p, q \in Points :
          /\ Add(p, q) \in Points /\ Sub(p, q) \in Points
          /\ Add(p, q) = Add(q, p)
          /\ Sub(Add(p, q), q) = p

ASSUME SecretAssumption ==
    /\ \A a, b \in Secrets : SecretMul(a, b) \in Secrets /\ SecretSub(a, b) \in Secrets
    /\ \A p \in Points, a \in Secrets : Mul(p, a) \in Points
    /\ \A p \in Points, a, b \in Secrets :
          /\ Mul(Mul(p, a), b) = Mul(p, SecretMul(a, b))
          /\ Mul(Mul(p, a), b) = Mul(Mul(p, b), a)
          /\ Add(Mul(p, SecretSub(a, b)), Mul(p, b)) = Mul(p, a)

ASSUME HashAssumption ==
    \A m \in Message, p \in Points : hashElGamal(m, p) \in Secrets

ASSUME RadixAssumption == Radix \in Nat /\ Radix > 1

-----------------------------------------------------------------------------
(* Signatures over a base g that both sides know. *)

\* Mutant: the operands of Sub are swapped.
ElGamalSignSwapped(message, privateKey, g, v) ==
    LET c == hashElGamal(message, Mul(g, v))
    IN  [c |-> c, r |-> SecretSub(SecretMul(privateKey, c), v)]

\* v is the secret of the commitment: challenge c, response v - x*c.
ElGamalSign(message, privateKey, g, v) ==
    LET c == hashElGamal(message, Mul(g, v))
    IN  [c |-> c, r |-> SecretSub(v, SecretMul(privateKey, c))]

ElGamalVerify(message, publicKey, sig, g) ==
    hashElGamal(message, Add(Mul(g, sig.r), Mul(publicKey, sig.c))) = sig.c

-----------------------------------------------------------------------------
(* Reputations as four bytes, the most significant one first. *)

WordModulus == Radix * Radix * Radix * Radix

IntToByte(n) ==
    <<(n \div (Radix * Radix * Radix)) % Radix, (n \div (Radix * Radix)) % Radix,
      (n \div Radix) % Radix, n % Radix>>

\* Mutant: the least significant byte is taken for the first.
ByteToIntLittle(b) == ((b[4] * Radix + b[3]) * Radix + b[2]) * Radix + b[1]

\* The word is unsigned.
ByteToInt(b) == ((b[1] * Radix + b[2]) * Radix + b[3]) * Radix + b[4]
=============================================================================
