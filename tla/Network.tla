------------------------------- MODULE Network --------------------------------
(***************************************************************************)
(* The UDP datagrams in flight.  Datagrams may overtake each other and,    *)
(* where Lossy says so, get lost.  A datagram carries the fields of its    *)
(* Event.Params that any handler acts on; texts and proofs are left out.   *)
(* Two datagrams are told apart by their fields: the fields n (the n-th    *)
(* command of a client) and round (the coordinator's round) are there for  *)
(* that, as two equal UDP datagrams are still two datagrams.               *)
(***************************************************************************)
EXTENDS AnonCrypto

CONSTANTS
    Coord,      \* the coordinator's address
    Addr,       \* the addresses client sockets may get
    AddrOf,     \* the address of each client process
    Lossy       \* may datagrams get lost?

ASSUME AddressAssumption ==
    /\ Coord \notin Server \cup Addr
    /\ Server \cap Addr = {}
    /\ AddrOf \in [Client -> Addr]

ASSUME LossyAssumption == Lossy \in BOOLEAN

VARIABLE net    \* the set of datagrams in flight

-----------------------------------------------------------------------------
(* The events of proto/EventType.go, one constructor per event and side.   *)

\* A list of keys with their values: what "keys" and "vals" hold together.
\* The order of the list is the order of a shuffle and is left out.
Entry == [key : Point, val : Onion]

KeysOf(entries) == {e.key : e \in entries}

ServerRegister(s) ==
    [type |-> "SERVER_REGISTER", to |-> Coord, from |-> s]

ServerRegisterReply(s, prev) ==
    [type |-> "SERVER_REGISTER_REPLY", to |-> s, prev_server |-> prev]

UpdateNextHop(s, next) ==
    [type |-> "UPDATE_NEXT_HOP", to |-> s, next_hop |-> next]

ClientRegisterControllerSide(c) ==
    [type |-> "CLIENT_REGISTER_CONTROLLERSIDE", to |-> Coord,
     from |-> AddrOf[c], public_key |-> PublicKey(c)]

ClientRegisterServerSide(dest, key, addr) ==
    [type |-> "CLIENT_REGISTER_SERVERSIDE", to |-> dest,
     public_key |-> key, addr |-> addr]

\* The confirmation has no parameters; nym tells two confirmations apart.
ClientRegisterConfirmation(addr, nym) ==
    [type |-> "CLIENT_REGISTER_CONFIRMATION", to |-> addr, nym |-> nym]

\* Between coordinator and servers.  The coordinator's first message has no
\* "g": the server then starts from the standard base.
Announcement(dest, entries, g) ==
    [type |-> "ANNOUNCEMENT", to |-> dest, entries |-> entries, g |-> g]

\* surplus: are there values beyond the last key of the list?  start: are the
\* values the coordinator's integers ("is_start")?
RoundEnd(dest, entries, surplus, start) ==
    [type |-> "ROUND_END", to |-> dest, entries |-> entries,
     surplus |-> surplus, is_start |-> start]

\* From the coordinator to a client.
ClientAnnouncement(addr, g) ==
    [type |-> "ANNOUNCEMENT", to |-> addr, g |-> g]

ClientMessage(addr, nym, rep, msgID, round) ==
    [type |-> "MESSAGE", to |-> addr, nym |-> nym, rep |-> rep,
     msgID |-> msgID, round |-> round]

ClientVotePhase(addr, round) ==
    [type |-> "VOTE", to |-> addr, round |-> round]

ClientRoundEnd(addr, round) ==
    [type |-> "ROUND_END", to |-> addr, round |-> round]

MsgReply(addr, n) == [type |-> "MSG_REPLY", to |-> addr, reply |-> TRUE, n |-> n]

VoteReply(addr, n) == [type |-> "VOTE_REPLY", to |-> addr, reply |-> TRUE, n |-> n]

\* From a client to the coordinator: a signed request.
SignedMsg(addr, nym, sig, n) ==
    [type |-> "MESSAGE", to |-> Coord, from |-> addr, nym |-> nym,
     signature |-> sig, n |-> n]

SignedVote(addr, nym, sig, msgID, vote, n) ==
    [type |-> "VOTE", to |-> Coord, from |-> addr, nym |-> nym,
     signature |-> sig, msgID |-> msgID, vote |-> vote, n |-> n]

-----------------------------------------------------------------------------
(* The types of the datagrams, for the type invariant. *)

ToServers ==
    [type : {"SERVER_REGISTER_REPLY"}, to : Server,
        prev_server : Server \cup {Coord}]
    \cup [type : {"UPDATE_NEXT_HOP"}, to : Server, next_hop : Server]

ToClients ==
    [type : {"CLIENT_REGISTER_CONFIRMATION"}, to : Addr, nym : Point]
    \cup [type : {"ANNOUNCEMENT"}, to : Addr, g : Point]
    \cup [type : {"MESSAGE"}, to : Addr, nym : Point, rep : Int, msgID : Nat,
            round : Nat]
    \cup [type : {"VOTE", "ROUND_END"}, to : Addr, round : Nat]
    \cup [type : {"MSG_REPLY", "VOTE_REPLY"}, to : Addr, reply : BOOLEAN, n : Nat]

ToCoordinator ==
    [type : {"SERVER_REGISTER"}, to : {Coord}, from : Server]
    \cup [type : {"CLIENT_REGISTER_CONTROLLERSIDE"}, to : {Coord}, from : Addr,
            public_key : Point]
    \cup [type : {"MESSAGE"}, to : {Coord}, from : Addr, nym : Point,
            signature : Signature, n : Nat]
    \cup [type : {"VOTE"}, to : {Coord}, from : Addr, nym : Point,
            signature : Signature, msgID : Nat, vote : {-1, 1}, n : Nat]

\* What travels along the chain of servers from and to the coordinator.
OnChain ==
    [type : {"CLIENT_REGISTER_SERVERSIDE"}, to : Server \cup {Coord},
        public_key : Point, addr : Addr]
    \cup [type : {"ANNOUNCEMENT"}, to : Server \cup {Coord},
            entries : SUBSET Entry, g : Point]
    \cup [type : {"ROUND_END"}, to : Server \cup {Coord},
            entries : SUBSET Entry, surplus : BOOLEAN, is_start : BOOLEAN]

Datagram == ToServers \cup ToClients \cup ToCoordinator \cup OnChain

-----------------------------------------------------------------------------
NetInit == net = {}

\* util.Send and util.SendToCoodinator.
Send(out) == net' = net \cup out

\* A handler consumes the datagram it was called for and sends others.
Reply(m, out) == net' = (net \ {m}) \cup out

Lose == /\ Lossy
        /\ \E m \in net : net' = net \ {m}
=============================================================================
