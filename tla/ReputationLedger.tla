--------------------------- MODULE ReputationLedger ---------------------------
(***************************************************************************)
(* What AnonCred promises of reputations, without keys, pseudonyms, lists  *)
(* or servers: every client has one account, it begins at 0, votes change  *)
(* it by one, and between rounds it is written as an unsigned word.        *)
(***************************************************************************)
EXTENDS Integers

CONSTANTS
    Client,
    Modulus      \* of the word: 2^32 in the code

VARIABLE account     \* client -> reputation, for the clients that entered

Init == account = [c \in {} |-> 0]

\* New clients enter, all those of a round at once.
Enter(new) ==
    /\ new # {} /\ new \cap DOMAIN account = {}
    /\ account' = [c \in DOMAIN account \cup new |->
                      IF c \in new THEN 0 ELSE account[c]]

Vote(c, vote) == account' = [account EXCEPT ![c] = @ + vote]

\* A reputation below zero comes out as a large one.
Settle == account' = [c \in DOMAIN account |-> account[c] % Modulus]

Next ==
    \/ Settle
    \/ \E new \in SUBSET Client : Enter(new)
    \/ \E c \in DOMAIN account, vote \in {-1, 1} : Vote(c, vote)

Spec == Init /\ [][Next]_account
=============================================================================
