----------------------------- MODULE ListShuffle ------------------------------
(***************************************************************************)
(* What a server does to hide the order of a list (AnonServerHandler.go):  *)
(* neffShuffle, convertToOrigin, rebindReputation, and verifyNeffShuffle   *)
(* at the next server.  A list is a function on 1 .. n.                    *)
(***************************************************************************)
EXTENDS Util

CONSTANT NoBytes     \* what a missing key of a map of byte slices reads as

\* The permutations of the positions of a list of length n.
Orders(n) ==
    {pi \in [1 .. n -> 1 .. n] : \A i, j \in 1 .. n : pi[i] = pi[j] => i = j}

\* shuffle.Shuffle over base and public key h: the pairs (X, Y) in the order pi,
\* each blinded with a secret of its own.  Ytmp is what Y was blinded with.
neffShuffle(h, X, Y, pi, beta) ==
    [Xbar |-> [i \in DOMAIN X |-> Add(Mul(Base, beta[i]), X[pi[i]])],
     Ybar |-> [i \in DOMAIN X |-> Add(Mul(h, beta[i]), Y[pi[i]])],
     Ytmp |-> [i \in DOMAIN X |-> Mul(h, beta[i])]]

\* proof.HashVerify: there is an order and there are secrets that make the
\* second list of pairs a shuffle of the first.
IsShuffle(h, X, Y, Xbar, Ybar) ==
    \E pi \in Orders(Len(X)) : \A i \in DOMAIN X :
        \E b \in Secrets : /\ Xbar[i] = Add(Mul(Base, b), X[pi[i]])
                           /\ Ybar[i] = Add(Mul(h, b), Y[pi[i]])

\* Mutant: the blinding stays on the keys.
convertNothing(YbarEn, Ytmp) == YbarEn

\* The keys in their new order with the blinding taken off.
convertToOrigin(YbarEn, Ytmp) == [i \in DOMAIN YbarEn |-> Sub(YbarEn[i], Ytmp[i])]

\* Mutant: the values keep their old order.
rebindNothing(newKeys, newVals, finalKeys) == newVals

\* A map filled from two slices: the last of equal keys wins.
MapOf(keys, vals) ==
    [k \in {keys[i] : i \in DOMAIN keys} |->
        vals[CHOOSE i \in DOMAIN keys :
                keys[i] = k /\ \A j \in DOMAIN keys : keys[j] = k => j <= i]]

\* The values in the order of the shuffled keys, looked up by key.
rebindReputation(newKeys, newVals, finalKeys) ==
    LET m == MapOf(newKeys, newVals)
    IN  [i \in DOMAIN newKeys |->
            IF finalKeys[i] \in DOMAIN m THEN m[finalKeys[i]] ELSE NoBytes]
=============================================================================
