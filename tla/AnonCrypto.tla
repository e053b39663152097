------------------------------ MODULE AnonCrypto ------------------------------
(***************************************************************************)
(* The values AnonCred computes with: points of the group and the round    *)
(* keys they are raised to, reputations as 32-bit words under layers of    *)
(* ElGamal encryption, and the signatures on client requests.              *)
(*                                                                         *)
(* A point is described by how it was obtained: the base it comes from and *)
(* the secrets it was raised to, in the order of the hops.  Two points     *)
(* with the same description are equal; different descriptions stand for   *)
(* different points (fresh random secrets do not collide).                 *)
(***************************************************************************)
EXTENDS Integers, Sequences, FiniteSets

CONSTANTS
    Server,     \* the anonymising servers, each with a key pair and a round key
    Client,     \* the client processes, each with a key pair of its own
    Generator,  \* the standard base point: what a nil base means to Mul
    ZeroPoint,  \* the value of a point nobody has set, suite.Point()
    Modulus     \* 2^32 in the code: a reputation travels as a uint32

ASSUME BaseAssumption ==
    /\ Generator \notin Client
    /\ ZeroPoint \notin Client
    /\ Generator # ZeroPoint

ASSUME ModulusAssumption == Modulus \in Nat \ {0}

-----------------------------------------------------------------------------
(* Maps, as Go makes them with make(map[..]..). *)

NoEntries == [k \in {} |-> k]

IsMap(map, keys, vals) ==
    /\ map = [k \in DOMAIN map |-> map[k]]
    /\ \A k \in DOMAIN map : k \in keys /\ map[k] \in vals

-----------------------------------------------------------------------------
(* Points and round keys. *)

\* The n-th secret a server picked with Suite.Secret().Pick.
Secret == Server \X Nat

Point == [base : Client \cup {Generator, ZeroPoint}, exps : Seq(Secret)]

StdBase == [base |-> Generator, exps |-> <<>>]

Unset == [base |-> ZeroPoint, exps |-> <<>>]

PublicKey(c) == [base |-> c, exps |-> <<>>]

\* suite.Point().Mul(p, k) with a round key.
Mul(p, k) == [p EXCEPT !.exps = Append(@, k)]

\* suite.Point().Mul(g, PrivateKey): raising the generator of a round to the
\* private key of c gives c's public key raised to the secrets of the round.
Pseudonym(g, c) == [base |-> c, exps |-> g.exps]

-----------------------------------------------------------------------------
(* Reputations on the wire. *)

\* binary.BigEndian.PutUint32(buf, uint32(n)): two's complement wrap-around.
IntToByte(n) == n % Modulus

\* int(binary.BigEndian.Uint32(b)): the word is read back unsigned.
ByteToInt(b) == b

\* A reputation value and the servers that encrypted it, innermost first.
Onion == [rep : Int, layers : Seq(Server)]

Plain(n) == [rep |-> n, layers |-> <<>>]

\* anon.Encrypt(.., anon.Set(X), ..) with X the public key of s.
Encrypt(v, s) == [v EXCEPT !.layers = Append(@, s)]

\* anon.Decrypt returns an error unless the outermost layer is for s.
CanDecrypt(v, s) == v.layers # <<>> /\ v.layers[Len(v.layers)] = s

Decrypt(v) == [v EXCEPT !.layers = SubSeq(@, 1, Len(@) - 1)]

-----------------------------------------------------------------------------
(* Signatures on requests: ElGamalSign and ElGamalVerify over base g. *)

Signature == [signer : Client, g : Point]

ElGamalSign(c, g) == [signer |-> c, g |-> g]

\* With challenge c and response r = v - x*c the verifier recomputes
\* g^r * nym^c.  It equals the signer's commitment only if both used the same
\* base and nym is that base raised to the signer's private key.
ElGamalVerify(nym, sig, g) ==
    /\ sig.g = g
    /\ nym = Pseudonym(g, sig.signer)
=============================================================================
