----------------------------- MODULE MCAnonCred ------------------------------
(***************************************************************************)
(* AnonCred for TLC: small sets of processes, and the ways the runs cut    *)
(* down the interleavings.                                                 *)
(***************************************************************************)
EXTENDS AnonCred

\* Every client has a socket address of its own: the client itself names it.
OwnAddress == [c \in Client |-> c]

\* Clients that run one after the other may get the same address.
OneAddress == [c \in Client |-> CHOOSE a \in Addr : TRUE]

\* Clients differ in nothing but their names.
ClientSymmetry == Permutations(Client)

\* So do servers: the order of the chain is that of their registrations.
ProcessSymmetry == Permutations(Client) \cup Permutations(Server)

\* A run with several clients delivers what was sent to a client, and lets the
\* handler finish, before coordinator and servers move again.  The runs with
\* one client explore every delay of these deliveries.
ClientsBusy ==
    \E c \in Client : /\ Alive(c)
                      /\ \/ storing[c] # Nothing
                         \/ \E m \in net : m.to = AddrOf[c]

PromptClients == ClientsBusy => UNCHANGED <<coordVars, serverVars>>

\* A long run with a short story: the clients come in the first round, and type
\* three commands between them.
ThreeCommands ==
    /\ round > 1 => \A c \in Client : clientPc[c] # "off"
    /\ Cardinality({t \in Client \X (1 .. MaxCommands) : t[2] <= typed[t[1]]}) <= 3
=============================================================================
