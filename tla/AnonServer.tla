------------------------------ MODULE AnonServer ------------------------------
(***************************************************************************)
(* The anonymising servers (AnonServerLauncher.go and server/).  Each runs *)
(* one listener goroutine; its main only registers and waits.  A server    *)
(* holds a secret per round and a map from the points it raised to that    *)
(* secret back to the points it received.                                  *)
(***************************************************************************)
EXTENDS Network

CONSTANT ServerTimeouts   \* may the 50 seconds of waiting to register run out?

ASSUME ServerAssumption == ServerTimeouts \in BOOLEAN

VARIABLES
    serverState,   \* "off" before launch, "running", or what it died of
    IsConnected,
    NextHop,
    PreviousHop,
    KeyMap,        \* raised key -> key before raising
    epoch          \* how many round keys the server has picked before

serverVars == <<serverState, IsConnected, NextHop, PreviousHop, KeyMap, epoch>>

ServerStates == {"off", "running", "timeout", "index", "nil_key", "decrypt"}

ServerTypeOK ==
    /\ serverState \in [Server -> ServerStates]
    /\ IsConnected \in [Server -> BOOLEAN]
    /\ NextHop \in [Server -> Server \cup {Coord}]
    /\ PreviousHop \in [Server -> Server \cup {Coord}]
    /\ DOMAIN KeyMap = Server
    /\ \A s \in Server : IsMap(KeyMap[s], Point, Point)
    /\ epoch \in [Server -> Nat]

ServerInit ==
    /\ serverState = [s \in Server |-> "off"]
    /\ IsConnected = [s \in Server |-> FALSE]
    /\ NextHop = [s \in Server |-> Coord]
    /\ PreviousHop = [s \in Server |-> Coord]
    /\ KeyMap = [s \in Server |-> NoEntries]
    /\ epoch = [s \in Server |-> 0]

\* The secret of the round.
Roundkey(s) == <<s, epoch[s]>>

\* KeyMap[s] after the keys of sources were raised to the round key.
Recorded(s, sources) ==
    LET raised == {Mul(k, Roundkey(s)) : k \in sources}
    IN  [k \in DOMAIN KeyMap[s] \cup raised |->
            IF k \in raised
            THEN CHOOSE p \in sources : Mul(p, Roundkey(s)) = k
            ELSE KeyMap[s][k]]

-----------------------------------------------------------------------------
(* main: launch, register, wait for the reply. *)

ServerStart(s) ==
    /\ serverState[s] = "off"
    /\ serverState' = [serverState EXCEPT ![s] = "running"]
    /\ Send({ServerRegister(s)})
    /\ UNCHANGED <<IsConnected, NextHop, PreviousHop, KeyMap, epoch>>

\* log.Fatal("Fails to connect to coordinator")
ServerGivesUp(s) ==
    /\ ServerTimeouts
    /\ serverState[s] = "running"
    /\ ~ IsConnected[s]
    /\ serverState' = [serverState EXCEPT ![s] = "timeout"]
    /\ UNCHANGED <<IsConnected, NextHop, PreviousHop, KeyMap, epoch, net>>

-----------------------------------------------------------------------------
(* The listener. *)

ServerHandles(type, s, m) ==
    /\ serverState[s] = "running"
    /\ m.to = s
    /\ m.type = type

ServerDies(s, m, cause) ==
    /\ serverState' = [serverState EXCEPT ![s] = cause]
    /\ Reply(m, {})
    /\ UNCHANGED <<IsConnected, NextHop, PreviousHop, KeyMap, epoch>>

ServerHandleRegisterReply(s, m) ==
    /\ ServerHandles("SERVER_REGISTER_REPLY", s, m)
    /\ PreviousHop' = [PreviousHop EXCEPT ![s] = m.prev_server]
    /\ IsConnected' = [IsConnected EXCEPT ![s] = TRUE]
    /\ Reply(m, {})
    /\ UNCHANGED <<serverState, NextHop, KeyMap, epoch>>

ServerHandleUpdateNextHop(s, m) ==
    /\ ServerHandles("UPDATE_NEXT_HOP", s, m)
    /\ NextHop' = [NextHop EXCEPT ![s] = m.next_hop]
    /\ Reply(m, {})
    /\ UNCHANGED <<serverState, IsConnected, PreviousHop, KeyMap, epoch>>

\* Raise the client's key, remember where it came from, pass it on.
ServerHandleClientRegister(s, m) ==
    /\ ServerHandles("CLIENT_REGISTER_SERVERSIDE", s, m)
    /\ KeyMap' = [KeyMap EXCEPT ![s] = Recorded(s, {m.public_key})]
    /\ Reply(m, {ClientRegisterServerSide(NextHop[s],
                    Mul(m.public_key, Roundkey(s)), m.addr)})
    /\ UNCHANGED <<serverState, IsConnected, NextHop, PreviousHop, epoch>>

\* Mutant: no layer is peeled off.
RaisedSealed(s, entries) ==
    {[key |-> Mul(e.key, Roundkey(s)), val |-> e.val] : e \in entries}

\* The list and the generator of the round as s passes them on.
Raised(s, entries) ==
    {[key |-> Mul(e.key, Roundkey(s)), val |-> Decrypt(e.val)] : e \in entries}

\* Mutant: only the first server raises the generator.
RaisedGOnce(s, g) == IF g = StdBase THEN Mul(g, Roundkey(s)) ELSE g

RaisedG(s, g) == Mul(g, Roundkey(s))

\* Raise every key, peel one layer off every value, pass the list on.  The
\* order of the list is lost in the shuffle; convertToOrigin and
\* rebindReputation keep each value with its key.
ServerHandleAnnouncement(s, m) ==
    /\ ServerHandles("ANNOUNCEMENT", s, m)
    /\ \/ /\ \E e \in m.entries : ~ CanDecrypt(e.val, s)
          /\ ServerDies(s, m, "decrypt")
       \/ /\ \A e \in m.entries : CanDecrypt(e.val, s)
          /\ KeyMap' = [KeyMap EXCEPT ![s] = Recorded(s, KeysOf(m.entries))]
          /\ Reply(m, {Announcement(NextHop[s], Raised(s, m.entries),
                                    RaisedG(s, m.g))})
          /\ UNCHANGED <<serverState, IsConnected, NextHop, PreviousHop, epoch>>

\* Mutant: the values are passed on as they came.
RestoredPlain(s, entries) ==
    {[key |-> KeyMap[s][e.key], val |-> e.val] : e \in entries}

\* Mutant: values are not bound to the shuffled keys again.
RestoredUnbound(s, entries) ==
    {[key |-> KeyMap[s][e.key],
      val |-> Encrypt((CHOOSE f \in entries : TRUE).val, s)] : e \in entries}

\* The list of a round's end on its way back: look every key up, encrypt its
\* value for this server.
Restored(s, entries) ==
    {[key |-> KeyMap[s][e.key], val |-> Encrypt(e.val, s)] : e \in entries}

\* The values of the list, as the 4-byte words they travel as.
Words(m) ==
    IF m.is_start
    THEN {[e EXCEPT !.val = Plain(IntToByte(e.val.rep))] : e \in m.entries}
    ELSE m.entries

\* Mutants: one of the two is not reset.
KeepRoundkey(s) == UNCHANGED epoch

KeepKeys(s) == UNCHANGED KeyMap

\* Roundkey and KeyMap are reset together.
PickRoundkey(s) == epoch' = [epoch EXCEPT ![s] = @ + 1]

ForgetKeys(s) == KeyMap' = [KeyMap EXCEPT ![s] = NoEntries]

\* More values than keys: index out of range.  A key missing from KeyMap gives
\* a nil point: in a list of two or more the shuffle panics on it, alone it is
\* skipped by the encoding and its value is sent without it.
ServerHandleRoundEnd(s, m) ==
    LET many == \E e, f \in m.entries : e # f
        known == {e \in Words(m) : e.key \in DOMAIN KeyMap[s]}
        missing == ~ KeysOf(m.entries) \subseteq DOMAIN KeyMap[s]
    IN  /\ ServerHandles("ROUND_END", s, m)
        /\ \/ /\ m.surplus
              /\ ServerDies(s, m, "index")
           \/ /\ ~ m.surplus
              /\ many /\ missing
              /\ ServerDies(s, m, "nil_key")
           \/ /\ ~ m.surplus
              /\ ~ (many /\ missing)
              /\ Reply(m, {RoundEnd(PreviousHop[s], Restored(s, known), missing,
                                    FALSE)})
              /\ PickRoundkey(s)
              /\ ForgetKeys(s)
              /\ UNCHANGED <<serverState, IsConnected, NextHop, PreviousHop>>

ServerListenerNext(s) ==
    \E m \in net :
        \/ ServerHandleRegisterReply(s, m)
        \/ ServerHandleUpdateNextHop(s, m)
        \/ ServerHandleClientRegister(s, m)
        \/ ServerHandleAnnouncement(s, m)
        \/ ServerHandleRoundEnd(s, m)

ServerNext == \E s \in Server : ServerGivesUp(s) \/ ServerListenerNext(s)

-----------------------------------------------------------------------------
\* What a server remembers of a key undoes the secret it holds now: Roundkey and
\* KeyMap are filled by registrations and announcements, in any order, and
\* reset together at the end of a round (AnonServerHandler.go:120, 164, 219, 257).
KeyMapMatchesRoundkey ==
    \A s \in Server : \A k \in DOMAIN KeyMap[s] :
        k = Mul(KeyMap[s][k], Roundkey(s))
=============================================================================
