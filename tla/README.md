# AnonCred in TLA+

A model of AnonCred (`src/src`), checked with TLC and in part proved with TLAPS.
Paths below are relative to `src/src`; "README.md:n" means the README of AnonCred.

## 1. The system

A **coordinator** drives rounds. A chain of **anonymising servers** hides which
long-term key a pseudonym belongs to. **Clients** send messages and votes under a
pseudonym of the round. Everything travels as single UDP datagrams.

```
             CLIENT_REGISTER, MESSAGE, VOTE               ANNOUNCEMENT, REGISTER
   client  ------------------------------->  coordinator ----------> server 1
           <-------------------------------      ^   |  ROUND_END       | ^
        CONFIRMATION, ANNOUNCEMENT, VOTE,        |   +-------------+    v |
        MESSAGE, ROUND_END, *_REPLY              +---------------  server n
```

A round: the coordinator sends the list of (long-term key, encrypted reputation)
to server 1. Each server raises every key, and a generator `g`, to its round key,
takes its layer of encryption off the value, shuffles, and passes the list on.
What comes back are pseudonyms with plain reputations, and `g`, which the clients
raise to their private keys to learn their pseudonyms. Messages and votes follow.
Then the list, with new clients appended, travels the chain backwards: each server
looks every key up in the map it filled on the way there, encrypts the value and
picks a new round key.

### Inventory

| Component | State | Operations | Module |
|---|---|---|---|
| Coordinator, `main` (`Coordinator.go`) | where it is in the loop; `roundEnd`'s locals | read "ok", wait for the round, `clearBuffer`, `announce`, wait for messages, `vote`, `roundEnd` | `Coordinator` |
| Coordinator, listener (`coordinator/`) | `Status`, `ServerList`, `Clients`, `G`, `ReputationMap`, `DecryptedReputationMap`, `DecryptedKeysMap`, `NewClientsBuffer`, `MsgLog` | one handler per event (seven) | `Coordinator` |
| Server (`AnonServerLauncher.go`, `server/`) | `IsConnected`, `NextHop`, `PreviousHop`, `KeyMap`, `Roundkey` | launch, give up, five handlers | `AnonServer` |
| Client (`DissentClient.go`, `client/`) | `Status`, `G`, `OnetimePseudoNym`; what the terminal shows | register, wait, `msg`, `vote`, `exit`, seven handlers | `DissentClient` |
| Events (`proto/`) | datagrams in flight | send, deliver, lose | `Network` |
| Values (`util/Util.go`, dedis/crypto) | none | raise, encrypt, sign, uint32 coding | `AnonCrypto` as terms, `Util` as arithmetic |
| Lists of a round (`server/AnonServerHandler.go`, `server/Shuffle.go`, `Coordinator.go`) | the slices and maps a list is taken from and stored into | shuffle and its proof, `convertToOrigin`, `rebindReputation`, decrypt, encrypt, look up | `ListShuffle`, `RoundLists` |
| Configuration files, `util/Pair.go`, `main.go` | - | - | not modelled (section 8) |

`enhanced/` is `src/src` again, byte for byte. The modules about values and lists
name their lines in `enhanced/`, the others in `src/src`; either may be read.

**Interaction.** Processes interact by datagrams only. Inside the coordinator and
inside each client a main and a listener goroutine share fields without a lock.

**What is hard.**
- Datagrams overtake each other: the reply to a server and the `UPDATE_NEXT_HOP`
  for the one before it, a registration and the round end travelling the same
  chain in opposite directions, a confirmation and the first announcement.
- No datagram carries a round number, and no handler looks at `Status`.
- Main and listener race on maps and slices (`roundEnd()` and `handleVote`,
  `vote()` and `AddClient`, `clearBuffer()` and appends).
- A panic in any handler ends the process; nothing is retried or repaired.
- Polls give up after 100 s (coordinator) and 50 s (server).
- Keys and reputations have to stay together through 2n transformations a round.

**What makes each component correct.**
- Coordinator: the status moves through the phases in order; one datagram of the
  round is on the chain; a member never drops out; an address is registered once;
  phases end; registrations are answered.
- Server: `KeyMap` always belongs to the round key held now; round keys are fresh;
  layers come off in the order they were put on; the chain follows the list.
- Client: the pseudonym it computes is the one the servers computed.
- Lists: a value stays with its key through every shuffle of both directions, every
  list is accepted by the next server, a signature fits one pseudonym only.
- System: a client's reputation is the one it had at the end of the last round; the
  parties that move the phase take turns.

The hazards, each at its line, are in `PROJECT.json`.

## 2. Modules

| Module | What it is |
|---|---|
| `AnonCrypto` | points, round keys, encrypted reputations, signatures as terms |
| `Network` | the set of datagrams, one constructor per event and direction, their types |
| `Coordinator` | both goroutines of the coordinator |
| `AnonServer` | the servers |
| `DissentClient` | the clients |
| `AnonCred` | composition, launching, fairness, and the properties of the system |
| `RoundCycle` | abstract: a phase and whose turn it is to move it; implemented by `AnonCred` |
| `MCAnonCred` | TLC: address assignments, symmetries, the constraint `PromptClients` |
| `MCClaims` | what texts of the repository say and the code does not keep |
| `Util` | points, scalars and words as algebra; the ElGamal signature, the uint32 coding |
| `ListShuffle` | a shuffle and its proof, `convertToOrigin`, `rebindReputation`, on sequences |
| `RoundLists` | rounds seen from the list under way: every slice and map it passes through |
| `ReputationLedger` | abstract: one account per client; implemented by `RoundLists` |
| `MCRoundLists` | TLC: the group of the numbers modulo a prime |
| `ProcessProofs` | lemmas about the operators and steps of network, coordinator and servers |
| `AnonCredProofs` | lemmas about the clients; the theorems about the system: types, maps, phases |
| `ChainProofs` | the theorems about the chain of servers, the lists on it and their secrets |
| `HomeProofs` | the theorem about lists on a chain that is still being linked, or was linked late |
| `MemberProofs` | the theorems about the members: their reputations, keys and pseudonyms |
| `ListShuffleProofs` | the theorems about words, shuffles and signatures |
| `RoundListsProofs` | the theorems about the lists of a round: who reads them, what they do to the accounts |

There are two models of a round. `AnonCred` has the processes, the datagrams, the
races and the faults, and lists that are sets of (key, value) entries. `RoundLists`
has one list at a time between servers that are linked and alive, and what
`AnonCred` takes as given: the order of the list, the range over a map it came from,
the shuffle and its proof, the arithmetic.

### How state and actions correspond to the code

Variables have the names of the fields; `clientStatus`, `clientG` and
`printed` are a client's `Status`, `G` and the message numbers its terminal shows.
`ReputationKeyMap` holds the point under each key of `ReputationMap` and is written
with it, so the key of the model, which *is* the point, stands for both;
`DecryptedKeysMap` is a variable because `handleVote` can make
`DecryptedReputationMap` larger than it. `Roundkey` is `<<s, epoch[s]>>`, the
`epoch`-th secret server `s` picked. `coordState` and `serverState` say what a
process died of.

A handler is one step that consumes the datagram and sends all it sends, since only
the one listener goroutine runs handlers. Three things are finer:
- `handleRoundEnd` of the coordinator sleeps before it writes `Status`:
  `CoordHandleRoundEnd`, then `CoordRoundEndAwake`.
- The client's `handleAnnouncement` stores `Status`, `G` and `OnetimePseudoNym` one
  after the other, and `sendSigRequest` reads `G` and then the nym:
  `ClientHandleAnnouncement`, `ClientStoreG`, `ClientStoreNym`, and `Sign`,
  `SendRequest`.
- The coordinator's main moves from one access of a shared field to the next.

Data races are choices. While main is at `vote` (ranging over `Clients`) a
registration may kill the process (a concurrent map access); while it is at
`round_end` (ranging over the decrypted maps) a vote, a message or a new client may.
While it is at `clear_buffer`, either goroutine's store of a slice may be the last
one. The orderly outcomes are possible as well, every time.

A point is a base and the sequence of secrets it was raised to. Raising commutes in
the group and appending does not; as every chain is a part of the same server list,
the order never decides whether two points meet. A reputation is an integer with
the sequence of servers that encrypted it; `CanDecrypt` says whether the outermost
layer is the server's own, and decrypting anything else is an error, as in
dedis/crypto. The coordinator decrypts nothing: it reads the first four bytes of what
comes home, which of a value still encrypted is some word (`Decrypted`, with the
choice `garbled` in `FinishAnnouncement`). A shuffle permutes a list, and lists are sets of (key, value)
entries here: what `convertToOrigin` and `rebindReputation` must keep, each value
with its key, is what the model says they do and what a mutant takes away.
`Modulus` is 2^32 in the code and 8 in the runs.

**`RoundLists`** numbers the servers along the chain and has one action per list and
hop: `Announce`, `ServerHandleAnnouncement`, `CoordHandleAnnouncement`,
`SendRoundEnd`, `ServerHandleRoundEnd`, `CoordHandleRoundEnd`. `params` is the
decoded map of the datagram under way, with the entries the code puts in it, so
"is there a `g`", "is there a proof" are questions about its domain as in the code.
`Register` and `Vote` are one step each: `AnonCred` has their hops. A range over a Go
map takes any order (`Ranges`). A server draws a permutation and blindings; its
successor checks the lists it was given (`Accepts`) and panics if they fail, so the
next action is not possible then, and `ListsAccepted` says that it always is. A
point is a number here: in the runs the group is the integers modulo a prime, a point
being its own logarithm; in the proofs it is anything that satisfies the group laws
(`GroupAssumption`, `SecretAssumption`).

**Refinements.** `AnonCred` implements `RoundCycle` with `phase <- Status` and
`turn <- Turn`, an operator on the state: the chain while a list of the round is in
flight, the listener while it sleeps in `handleRoundEnd`, main while it is at a place
where it moves the phase by itself, and nobody once the list was lost or a server died
of it. `RoundLists` implements `ReputationLedger` with `account <- Account`: `Place`
says how many servers have raised the keys where the reputations are now, `Book` what
they are (the list under way, or the map of the phase), and a reputation belongs to
the client whose long-term key, raised that far, it stands under. Reputations become
words, and votes below zero large numbers, when the first server encodes the list of
the round end: that hop is `Settle`, all others leave the accounts alone.

Two lists of different length, which arise when a nym has no stored point or a
server does not know a key, are kept as the flag `surplus`: the receiver then
indexes past its slice and panics, whatever the surplus is.

## 3. Runs

`Lists` uses `MCRoundLists`, the other passing runs `MCAnonCred`. Deadlock is not
checked (`CHECK_DEADLOCK FALSE`): the rounds are bounded, users may stop typing, and
processes die, so the model really may stop; that it does not stop too early is what
the liveness runs check.

| Run | Instance | Checks | States |
|---|---|---|---|
| `Launch` | 3 servers that may give up waiting, fair | `ChainFollowsServerList`, `AnnouncementEnds` | 126 k |
| `Delays` | 2 servers, 1 client, 3 rounds | `KeyMapMatchesRoundkey`, `FreshRoundkeys`, `UnwoundByRoundEnd`, `AnnouncementPeels`, `AgreeOnNym` | 105 k |
| `Votes` | 2 servers, 2 clients with one command each, 3 rounds | `TypeOK`, `ReputationCarriedOver`, `MembersStay` | 542 k |
| `Disorder` | 2 servers, 1 client, 2 rounds, launched in any order, loss, the coordinator's timeouts | `PhaseInv`, `ComesHomeWhole`, `StatusCycle`, `TakesTurns` | 629 k |
| `Progress` | 2 servers, 2 clients that write, exit and share an address, fair | `RegistrationAnswered`, `AnnouncementEnds`, `RoundEnds`, `OneClientPerAddress` | 81 k |
| `Lists` | 2 servers, 3 clients, 3 rounds, one vote a round, every map order, permutation and round key | `LedgerKept`, `ListsAccepted`, `SignatureNamesMember` | 153 k |

The properties:

- `ChainFollowsServerList`: each server's hops are its neighbours in `ServerList`,
  or the one datagram that will say so is on its way.
- `KeyMapMatchesRoundkey`: what a server remembers undoes the secret it holds now.
- `FreshRoundkeys`: the generator under way shares no secret with the clients' one.
- `UnwoundByRoundEnd`: the coordinator stores bare long-term keys, each value under
  all layers, server 1's outermost.
- `AnnouncementPeels`: a list meets the servers in the order of its layers and comes
  home plain.
- `AgreeOnNym`: a member who works with the coordinator's generator computes a nym
  the coordinator knows.
- `ComesHomeWhole`: what an announcement brings home is decrypted and stands under
  the generator it brings, also on a chain that bypassed a server for a while.
- `PhaseInv`: main, the listener and the one datagram of the round are in the same
  phase.
- `MembersStay`, `ReputationCarriedOver`, `OneClientPerAddress`, `StatusCycle`: as in
  section 1.
- `TakesTurns`: the coordinator, its listener and the chain implement `RoundCycle`:
  whatever is late, lost or launched out of order, only the party whose turn it is
  moves the phase, and a lost turn is never taken up again.
- `LedgerKept`: lists, shuffles and keys implement `ReputationLedger`: no hop changes
  whose a reputation is or what it is.
- `ListsAccepted`: the next server never panics on a proof, a layer or a key.
- `SignatureNamesMember`: a request verifies under its sender's nym and no other's.
- `RegistrationAnswered`, `AnnouncementEnds`, `RoundEnds`: phases end unless a
  process died. Death is an escape because the code has panics in reach of orderly
  runs (a vote in the middle of `roundEnd()`, a registration that crosses a round
  end), and a dead process is not restarted.

Each property has a mutant in `PROJECT.json`, a plausible slip in one definition
under which the same run fails. The mutated forms stand before their originals.

The passing runs reach every way a process can die: no server to send to, a request
without a nym, a message number outside the log, a race and the two timeouts of the
coordinator; a missing key, a surplus value, a foreign layer and the timeout of a
server.

### Bounds

- `MaxRounds`: three rounds are needed for a value to be encrypted, carried over
  and read back (register in 1, announced in 2, changed and announced in 3). Two
  are enough where only the phases or the life of one round matter, and in `Progress`,
  where a client may exit and the other take its address within a round. In `Launch`
  they let a server join before, between and inside rounds.
- `MaxCommands` = 1, `TypedVotes` = {0, 1}: one number per sign that `sendVote`
  tells apart. With two clients one can write and the other vote. `Delays`
  and `Disorder` have no commands: their properties are about registration, the
  chain and the phases, and commands would only multiply the states.
- `Modulus` = 8: -1 becomes 7, which differs from every reputation of the runs.
- Two servers have a first, a last and a hop between them; `Launch` takes three so
  that one server has both neighbours.
- `Lists`: three clients, because with two every permutation is its own inverse and a
  list unshuffled the wrong way round would go unnoticed. Words have four digits as in
  the code, of base 2 (`Radix`) and not 256: -1 becomes 15, and the order of the digits
  matters. The prime is 7, large enough for three keys, two server keys and two round
  secrets apart. One blinding value: the lemma `HonestShuffleVerifies` covers the others.
- `PromptClients` (an action constraint) in the runs with two clients: what was sent
  to a client is handled before coordinator and servers move on. It is a restriction
  and not a reduction; the runs with one client do without it and have every delay.
- `ThreeCommands` (a constraint) in `StaleNumber`: all clients come in
  the first round and type three commands between them, what the counterexample needs.
- `ClientSymmetry`, `ProcessSymmetry`: clients, and servers, differ in name only; the
  CHOOSEs of the model pick from sets of one. No liveness run uses a symmetry.

### Launching

README.md:22 tells the operator to start the servers, to type "ok" when they are up
and to start clients after that. The program checks nothing of it (`handleServerRegister` adds a server in any
`Status`). Three constants
say who keeps to it: `PatientOperator` (types "ok" when every server printed
"Register success..." and the next hops have arrived), `LateServers`,
`EarlyClients`. The properties about keys and layers are checked for a careful
operator, because a server that is added in the middle of a round cannot decrypt
(it panics, which `Disorder` reaches). A list may be lost that way, but it is never
damaged: `ComesHomeWhole` holds for any operator, and so do the phase, type, key-map
and address properties and `ReputationCarriedOver`.

### Fairness

`FairSpec` assumes weak fairness of: the launch of each server and the operator's
"ok" (they set the system up), the coordinator's main (a loop), the coordinator's
listener, each server's listener and each client's listener (goroutines in a receive
loop; a datagram that is not lost is read), and the second half of a client's
`sendSigRequest`. It does not assume that a client is launched, a command typed, a
datagram lost or a timeout taken. Fairness is per goroutine, which is what the Go
scheduler gives; it does not say which datagram a listener takes next, so a datagram
may be overtaken by finitely many others. There is no fairness in the runs with loss.

## 4. Where code and texts differ

`MCClaims` states six sentences of the repository and TLC finds a behaviour against
each. `ballots` and `shown` are history variables: the votes counted this round, and for
every number a terminal was sent whose message it was.

| Run | Text | What the code does |
|---|---|---|
| `Forgotten` | coordinator/CoordinatorHandler.go:160, the new client is sent when the round is finished | `clearBuffer()` drops the clients in the buffer when a round begins: those confirmed before the first round (TLC's trace) and those confirmed after `roundEnd()` built its lists |
| `NegativeReputation` | README.md:52, the reputation changes by the votes, -1 included (README.md:18) | -1 is carried over as 2^32 - 1 (util/Util.go:79-89) |
| `DuplicateVote` | client/ClientHandler.go:79 "Duplicate vote", CoordinatorHandler.go:230 "avoid duplicate vote" | a second vote is counted |
| `VoteAnswered` | CoordinatorHandler.go:207 "verify the vote and reply to client" | no reply when verification fails |
| `StaleNumber` | README.md:18, a vote is "towards a specific message" | numbers start again each round (CoordinatorHandler.go:238) while the terminal shows old ones: a vote on an old line goes to the author of another message |
| `LateVote` | client/ClientHandler.go:76 "Voting success!", README.md:52 | a vote after the list of the round left is confirmed and lost |

`AcknowledgedVoteCounts` counts a vote as late unless main is in the message or vote
phase, or is about to enter it (`await_message` with `Status` already `MESSAGE`):
`roundEnd()` reads the map after all of these.

`ReputationCarriedOver` is the form of `ReputationKept` that the code does keep: it
speaks of the 32-bit words.

## 5. What is proved

`AnonCredProofs`, for any sets of servers and clients, any number of rounds, any
launch order, with or without loss and timeouts:

| Theorem | Statement |
|---|---|
| `TypeCorrect` | `Spec => []TypeOK` |
| `KeyMapCorrect` | `Spec => []KeyMapMatchesRoundkey` |
| `OneClient` | `Spec => []OneClientPerAddress` |
| `PhaseCorrect` | `Spec => []PhaseInv` |
| `StatusInOrder` | `Spec => StatusCycle` |
| `TurnsTaken` | `Spec => TakesTurns`, that is `Spec => Cycle!Spec` |

`ChainProofs`, for any sets of servers and clients, any number of rounds, delays and
timeouts, under the assumption in the middle. `Careful` is the order of launching of
README.md on a network that loses nothing: `PatientOperator /\ ~LateServers /\
~EarlyClients /\ ~Lossy`.

| Theorem | Assumes | Statement |
|---|---|---|
| `HopsFollowList` | `~Lossy` | `Spec => []ChainFollowsServerList` |
| `ListsUnwound` | `Careful` | `Spec => []UnwoundByRoundEnd` |
| `LayersPeel` | `Careful` | `Spec => []AnnouncementPeels` |
| `SecretsAreFresh` | `Careful` | `Spec => []FreshRoundkeys` |

`HomeProofs`, for any sets of servers and clients, any number of rounds, any launch
order, with or without loss and timeouts:

| Theorem | Assumes | Statement |
|---|---|---|
| `HomeWhole` | nothing | `Spec => []ComesHomeWhole` |

`MemberProofs`, for any sets of servers and clients, any number of rounds and delays:

| Theorem | Assumes | Statement |
|---|---|---|
| `ReputationsCarried` | nothing | `Spec => ReputationCarriedOver` |
| `NobodyDropped` | `Careful` | `Spec => MembersStay` |
| `NymsAgree` | `Careful` | `Spec => []AgreeOnNym` |

`ListShuffleProofs`, for any group, list, reputation and choice of random numbers:

| Theorem | Statement |
|---|---|
| `SignatureNamesSigner` | a signature over `g` verifies under a key `y` iff `y` is the signer's |
| `WordKeepsRemainder` | `ByteToInt(IntToByte(n)) = n % WordModulus` for every integer `n` |
| `ShuffleKeepsPairs` | after shuffle, `convertToOrigin` and `rebindReputation` each key has the value it came with |

`RoundListsProofs`, for any group, keys and secrets, any number of servers, clients,
rounds and votes, every order of a map, every shuffle and every round key:

| Theorem | Statement |
|---|---|
| `SendersNamed` | `Spec => []SignatureNamesMember` |
| `ListsPass` | `Spec => []ListsAccepted` |
| `LedgerImplemented` | `Spec => LedgerKept`, that is `Spec => Ledger!Spec` |

**Assumptions**: those named in the modules, evaluated by TLC in every run. In
`AnonCred` (`BaseAssumption`, `ModulusAssumption`, `AddressAssumption`,
`LossyAssumption`, `CoordinatorAssumption`, `ServerAssumption`, `ClientAssumption`,
`OperatorAssumption`) the addresses of coordinator, servers and clients are disjoint,
the rest are types. In `RoundLists` and `Util`: the laws of the group and its scalars,
the coding base, and of the primitives what the code relies on: a generator tells the
clients' keys apart (`GeneratorAssumption`), and a challenge tells a commitment from
every other point and can be divided by (`ChallengeAssumption`). The last is an ideal
hash: with SHA-256 it holds but for negligible chance.

**Argument.** Types first: each constructor of `Network` builds a `Datagram`
(`ProcessProofs`), each operator returns a value of its type, each step keeps
`CoordTypeOK`, `ServerTypeOK`, `ClientTypeOK`; `StepCases` says a step of the system
is a step of one part. `KeyMapMatchesRoundkey` is inductive on top of `TypeOK`:
`RecordedUndone` says `Recorded` only adds keys its round key undoes, and the one
action that changes the key empties the map. `OneClientPerAddress` is inductive by
`AddClientKeepsInjective`: deleting one entry with the address is enough because
there are never two.

`StatusCycle` is not inductive: that a late write of `Status` by the listener cannot
undo a newer phase rests on where main is. `PhaseInv` is the strengthening. For each place of main it gives the possible `Status`; it says
that an announcement is under way only while main waits for messages, a round end
only between rounds, at most one of them, and none while the listener sleeps in
`handleRoundEnd`. Checked by `Disorder` first, then proved: `MainKeepsPhase` for
main's actions, `ListenerKeepsPhase` for the handlers, `ServerKeepsPhase` (a server
answers one datagram of the round with at most one of the same type),
`ClientKeepsPhase` and loss. `StatusInOrder` is the action property that falls out
of the same step lemma. `TurnsTaken` is the refinement: under `PhaseInv` the
step lemmas say of every action that it is a `RoundCycle` step or a stutter, the lost
datagram and the dead server being `LoseTurn`; `PhaseInv` is what rules out a second
list that would give the turn back.

`ChainFollowsServerList` rests on `ChainInv`: a server registers once, what is under
way for it is the truth about its neighbours, and what nobody has listed yet has no
links. `StepKeepsChain` has four steps that touch the chain (a start, a registration,
its reply, an update); `ChainQuiet` is what every other one is. At most one reply and
one update are ever on their way to a server, so the order in which they arrive does
not matter.

The other theorems of `ChainProofs` speak of what is on the chain. `LinkedInv` says that from the ok of a
careful operator on nothing that changes a link is under way and every server is
listed (`OkLinks`: the test is `ChainLinked`, the rest follows from `ChainInv`).
`ListInv` then gives every datagram a position: what is on its way to the i-th process
has keys raised i-1 times and values under the layers of the servers from the i-th to
the last; on the way back i times and from the (i+1)-th on. `SealedPeel` and
`SealedWrap` say that a server moves a value by one position; for the keys on the way
back it is `KeyMapMatchesRoundkey`. The two ends of the chain are the theorems
`ListsUnwound` and `LayersPeel`. `SecretInv` adds the epochs: an announcement carries
present secrets, the generator clients use carries none that is newer, and a round end
at the i-th process has left only spent ones behind it; together with `PhaseInv` an
announcement therefore meets a generator all of whose secrets are spent.

`ComesHomeWhole` needs no care: `HomeInv` says of a list not where it is but what it
has met. Links are never wrong, only missing (`LinksTrue`, proved along the lines of
`ChainInv` but with loss and late servers: a registration, reply or update that is
lost leaves a hop at its first value). So a datagram that is at the i-th server got
there through all servers before it, which stay reached (`Reached`, `Onward`). Its
keys are raised as often as that says, and a value is under the layers from the i-th
server to some l-th that is reached too (`Unwinding`; `Wound` for the way back and the
reputation map, where l is the server that was last when the round ended). A list
that leaves for home early would come from a server whose next hop is unset; but from
the i-th on to the l-th all next hops are set, so it has no layer left. A chain that
grew since has no layer for its new servers, and the first of these to see a value
panics.

`ReputationCarriedOver` needs no care either: `CarryInv` says that a list of the round
is either lost altogether (a server that does not know the keys makes an empty one of
it) or has the owner of every line of `keysAndVals`, each with the word of its value,
and that so has `ReputationMap` except while a round ends. That the coordinator reads
those words is `ComesHomeWhole`: of a value still encrypted it would read any word. Owners, not keys: whatever
epochs the secrets are of, a step changes the key of a line and never its base.

`MembersStay` is where the care is needed, because a list is lost as soon as one
server does not know a key of it. `MemberInv` follows the members along the chain: an
announcement on its way to the i-th process has every member's key under the present
secrets of the first i-1 servers, each of which has the key in its `KeyMap`; a round
end on its way back still has it under the first i, and those servers still know it.
In between, every member is in the decrypted maps (`MembersListed`). The positions
themselves are those of `ListInv`. `AgreeOnNym` then is two facts: the key lists of the
coordinator have every member under `G` (`MembersNamed`, part of `MemberInv`), and a
client computes with the generator it was sent last, which is never the nil one
(`NymInv`, with `PhaseInv` for when the coordinator's `G` is the same).

`SignatureNamesMember` needs to know what pseudonyms are: `NymInv` says that `G` is a
generator, that a list under way carries one, and that every nym is `G` raised to its
owner's key; it holds because all nyms are replaced whenever `G` is. The rest is
`SignatureNamesSigner`, by the group laws. `ShuffleKeepsPairs` removes the blinding
(`BlindingComesOff`) and then uses that keys are distinct: with two equal keys
`rebindReputation` would take the later value for both.

`ListsAccepted` and `LedgerKept` rest on one invariant, `LinesInv`. Alone neither is
inductive: that a server can read a list depends on the lists before it having had the
right keys, and that a list changes no account on nobody being in it twice.
`LinesInv` says of the list under way on its way to `p.to`: its lines are the
registered clients in some order, each once (`Order`), under their long-term keys
raised by as many servers as are behind it (`KeysUnder`), the values under the layers
of the servers ahead (`Sealed`), the generator raised as far as the keys, and the
proof next to it verifies (`Provable`). While there is no list it says the same of the
map of the phase; while clients talk those who registered since are in
`NewClientsBuffer` and nowhere else (`Talking`). And every server that the keys have
passed can lead each one place back (`KeysKnown`). Four facts carry it:

- keys at a place are the generator of that place raised to private keys
  (`KeyOfGenerator`), so no two clients share one (`KeysDiffer`), and a map made of
  a list loses no line (`ListBook`);
- a range over a map is an order of the clients (`RangeIsOrder`), and a shuffle another
  one (`ShuffledOut`, from `ShuffleKeepsPairs`; `PassedOn`); the proof next to it verifies by
  the equations of `IsShuffle` (`HonestShuffleVerifies`);
- a new round key is behind the list that is on its way back (`KeysAlike`, `KnownReset`);
- two lists with the same lines credit the same accounts (`SameAccount`, `CreditsOnce`).

One lemma per action then says that the action keeps `LinesInv` and what it does to
`Account`: announcements, shuffles and both of the coordinator's returns nothing, the
first hop of a round end `Settle` (`WordKeepsRemainder`), a sent round end `Enter` for
those who registered, a vote `Vote` for the author: the nym a client computes is the
key it has in the map, by `NymInv` and `KeyOfGenerator`. `ListStep` puts them together.
`Along` is a recursive function over the places; `RaisedStep`, the one recursion
equation the proofs use, comes from the existence and uniqueness of such a function up
to a place (`ClimbExists`, `ClimbUnique`), by the least element of the places where
they could fail (`UpTo`).

**Only model-checked**: liveness (`RegistrationAnswered`, `AnnouncementEnds`,
`RoundEnds`), because fairness and ENABLED are out of the prover's reach. Every
safety property of the passing runs, both refinements included, is a theorem.

## 6. Running it

`tlc -config Delays.cfg MCAnonCred.tla`; `Lists.cfg` goes with `MCRoundLists.tla` and
the six runs of section 4 with `MCClaims.tla`. `tlapm AnonCredProofs.tla`, and the
other `*Proofs` modules.

## 7. Plan

Done, in this order: values and network; the coordinator's two goroutines, servers,
clients; their composition and its runs; types, addresses, key maps and phases proved; the
chain, its lists by position and its secrets proved; the members, their reputations
and pseudonyms proved;
the rounds as turns (`RoundCycle`), proved; lists, shuffles and signatures as
algorithms; the ledger (`ReputationLedger`) shown for lists, and proved. What would
come next:

1. The ledger for `AnonCred` as a whole. `ReputationCarriedOver` is its core. As a
   refinement it has to say whose the entry of a vote on a stale or unknown nym is,
   which `StaleNumber` and `LateVote` show to be no promise of the code at all.
2. Duplicated datagrams in `Network`; several commands in runs with delays.

## 8. Not modelled

- `util/ConfigReader.go`: reads the addresses once at start.
- `util/Pair.go` is used nowhere; `main.go` is an experiment nothing calls.
- `ElGamalEncrypt` and `ElGamalDecrypt` in `util/Util.go`: only the experiment calls one.
- `pkg/` holds compiled libraries; what the code uses of them is in `AnonCrypto` and
  `Util`. The inside of the shuffle's zero-knowledge proof is theirs: `IsShuffle` is
  the statement it proves, and between honest servers it holds.
- Lists of different length in `RoundLists`: they need a registration or a vote in the
  middle of a list, which `AnonCred` has (`surplus`).
- Sizes: a gob encoding over 4096 bytes is cut by the reader and panics it.
- Duplicated datagrams, and a restart of coordinator or servers: neither keeps
  anything on disk, so a restarted one is a new process the others do not know.
- Port search and socket errors of the launchers; commands without arguments or with
  a number that is none.
