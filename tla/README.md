# BearTorrent in TLA+

BearTorrent is a peer-to-peer file sharing program in Rust: a command-line
client (`client/`) and a gRPC server (`server/`) that introduces clients to each
other and relays for those that cannot connect. This directory holds
specifications of its parts, the TLC configurations that check them on small
instances, and proofs, checked by TLAPS, of what holds for every instance.
Paths below are relative to the repository.

## 1. Inventory

| Component | State | Operations | Talks to |
|---|---|---|---|
| File assembler (`client/src/file_assembler.rs`, `file_request` in `torrent_client.rs`) | `request_txs`, `num_connections` behind one `tokio::RwLock`; the channels request (150), reply (150), resend (100); a `Notify` | `new`, `subscribe_new_connection`, `start_requesting`, the tasks `send_requests` and `reassemble_loop` | one connection task per peer, the piece store |
| Connection over QUIC (`quic_p2p_sender.rs`) | endpoint, certificate, the request in hand | `create_quic_server/client`, `quic_listener`, `connect_to_peer_server`, `send_data`, `recv_data` | assembler channels, piece store of the seeder, certificate RPCs |
| Connection establishment (`peer_connection.rs`) | public and private socket | `seeder_connection`, `requester_connection`, `hole_punch` | QUIC, TURN, the server |
| Tracker service (`server/src/main.rs`) | `client_registry`, `file_tracker`, `seeder_list`, `seed_notifier`, `cert_sender`, `init_hole_punch`: six `DashMap`s without a common lock | one RPC handler per operation | every client |
| Command loop and seeding loop (`client/src/main.rs`, `torrent_client.rs`) | uid, `file_hashes` (read once), `close_down` | commands `s`, `r`, `d`, `exit`; `seeding` | tracker service, assembler |
| Piece store (`file_handler.rs`) | `.part`, `.info`, `.filecache`, `resources/files` | `write_piece_to_part`, `build_file`, `read_piece_from_file`, `delete_file`, `get_info_hashes` | assembler, seeders |
| Metadata arithmetic (`file_handler.rs`, `message.rs`) | none | piece lengths, hashes, offsets, `encode`, `decode` | all |
| TURN relay (`server/src/turn.rs`) | `sessions`: two senders and a barrier each | `register`, `send` | TURN fallback |
| TURN fallback (`turn_fallback.rs`) | session id, packet channels | `start_seeding`, `start_leeching` | TURN relay, assembler channels |

What is hard, and what makes each part correct:

* **File assembler.** Two tasks and *n* connections share a list that shrinks
  while indices into it travel in messages; a read guard is kept across a
  channel send; all channels are bounded and form a cycle. Correct when no
  request is lost or duplicated, the list and the count agree, a bad piece never
  replaces a verified one, the file is installed only when whole, and every task
  ends.
* **Tracker.** A handler touches several maps, or one map twice, without a
  common lock, and `await`s in between; clients crash, leave, and reuse their
  single registry entry for every socket. Correct when a listed file has a
  seeder, a seed call is answered once, and a waiting seeder can be reached.
* **Connection establishment.** Both ends walk through LAN, hole punch and TURN
  with different time limits. Correct when both end on the same way, or both fail.
* **Piece store.** Four files under one name, written by three tasks without a
  lock, and the process may die between two system calls. Correct when a marked
  piece is on disk, a mark stays, an installed file is whole and not overwritten,
  and what the next start-up reads does not make it fail.
* **Metadata arithmetic.** Offsets are products of 32 bits, the last piece is
  shorter, reads may be short. Correct when the hashes do not depend on how reads
  are cut, a frame decodes to what was sent, and the copy is the source.
* **TURN.** A barrier of two, bounded channels, `select!` loops that drop a
  branch, and one lock for all sessions. Correct when a request gets its piece
  and one session does not keep out the others.

`PROJECT.json` lists every hazard at its line, with the properties about it.

## 2. Modules

| Module | What it is | Composes |
|---|---|---|
| `Download` | The abstract download: pieces are recorded, a verifiable one only with the right content, and the file is installed only when every piece is recorded | |
| `FileAssembler` | The tasks and channels of one download; implements `Download` | assembler, connections |
| `Tracker` | The server's maps and the two loops of each client | server, clients |
| `PartStore` | The files on disk under one name, with crashes, resumption, delete and seeding | download loop, seeding loop, command loop |
| `Turn` | The relay of the server and both fallback loops | server, both ends, the assembler's channels |
| `PeerConnect` | The two ends of one connection from LAN to TURN | both ends, the server, the network |
| `Transfer` | One file from its description over the wire to the copy's description | seeders, messages, piece store |
| `FileAssemblerProofs`, `TrackerProofs`, `PartStoreProofs`, `TurnProofs`, `PeerConnectProofs`, `TransferProofs` | Inductive invariants and theorems of the module they extend | |
| `RequestProofs` | Where the requests of a download are: a second invariant, on top of that of `FileAssemblerProofs` | |
| `MCTracker`, `MCPartStore`, `MCTurn`, `MCTransfer` | Constants for TLC that are functions, sequences or sets of tuples; the other modules are instantiated by their `.cfg` alone | |

Each model has a section of wrong variants: one definition each, changed as a
plausible slip in the code would change it. `PROJECT.json` "mutants" names for
every checked property a variant under which TLC finds it violated.

### FileAssembler

One variable per shared field or channel, one program counter per task:

| Variable | Code |
|---|---|
| `requestTxs`, `numConnections` | fields of `FileAssembler` |
| `requestCh[c]`, `connCh`, `resendCh` | the three kinds of `mpsc` channel |
| `frPc`, `frI` | `TorrentClient::file_request` and its loop counter |
| `srPc`, `srNum`, `srI`, `srTurn`, `srMsg` | `send_requests`: `num_connections` as read before the wait, the counters `i` of the two loops, the message in hand |
| `rlPc`, `rlMsg`, `rlBad` | `reassemble_loop`: the message in hand, `bad_tx` |
| `conn[c]`, `linkUp[c]` | the `recv_data` task of connection *c* with the message it holds; whether the peer is still there |
| `part`, `received`, `file` | `.part`, the ones in `.info`, the name in `resources/files` |
| `faults` | the faults so far; in no line of the code |

Actions begin with the task they belong to: `Fr`, `Sr`, `Rl`, `Conn`. A step
ends where another task can make a difference: at every `send().await` and
`recv().await`, and at the `read().await` and `write().await` whose guards another
task may take in between. So a Cancel is four steps, the removal (`RlRemove`), the
decrement (`RlDecrement`), the look at the count (`RlCheck`) and the resend. Awaits that only
this task can notice are merged: the guards of a subscription in `FrSubscribe`, and in `SrWait`
the reads before the `Notify`. The read guard that `send_requests` holds
during a send is `ReadLocked`; every write waits for it. In a message, `seeder`
is the index that the code sends and `via` is the connection that really carries
it, a ghost field that the actions never test.

The establishment of a connection is one step that succeeds or fails (its inside
is `PeerConnect`); the seeder's `send_data` is the step `SeederReplies`. A
faulty environment may lose a connection between requests (`close`) or during
one (`drop`), fail to connect (`connect`) or to register (`register`), lose the
piece at the seeder (`missing`) or damage it (`corrupt`). Piece content is
abstract: `good` is what was hashed, `bad` is anything else. A last piece shorter
than `piece_length` is never compared (`ShortLast`, `Verifiable`), so it may be
recorded bad: that is what the code does.

### Tracker

`registry`, `tracker`, `entries`/`seeders` and `notifier` are the maps;
`seeders[f] = <<>>` with `f` in `entries` is an entry with an empty list, which
`delist_client` leaves behind. `delivered[a]` is what the channel of the seed
call at address `a` was sent. A `PeerId` is the number of the socket it was
bound for (`Bind`): a new connection never reuses one. Binding and publishing it are
apart, since the STUN query and a call lie in between: `OpenConnection` binds the socket of a
requester connection and `PublishConnection` is its update on the server, which may come
after that of a seeding loop that bound later (`StartSeeding`, `SeedReturns`, then `SeedUpdate`).
Calls of a client in `CanFail` may fail while it lives on: a seed call that breaks off takes
the same arm as one that was answered (`SeedFails`), any other error ends the seeding task
(`SeedingFails`), and the user may start another. Two ghosts remember which seed calls broke off
(`failed`) and which connection a client published last since its seeding loop did
(`overwritten`). `sd` and `cli` are the
seeding and the command loop of each client; a state named after an RPC means
that this call is on its way. A handler is one step as long as it holds a guard:
`advertise` is two (`AdvertiseTrack`, `AdvertisePush`), `delete_file` three,
`delist_client` one for each map and each list. A call whose client has died is
still served, or is dropped where the handler can `await`.

### PartStore

`file`, `part`, `info`, `cache` are the four files of one name: a content per
piece, the bytes of `.info`, and of `.filecache` the file it describes and how
many lines are written. `main` is the command loop with start-up, `loop` is
`reassemble_loop`; `known` is what `file_hashes` holds. Every system call that
changes a file is one step (`WritePart`, `LoadNew`, `Fill`, `Mark`, `Install`,
`RemoveInfo`, the four removals of `delete_file`, each line of `.filecache`), and
so is a look-up whose answer is used later (`LoadOld`, `Prepare`). `Crash` ends the process between
any two of them; `Exit` ends it where the runtime can drop the tasks. Several
`Versions` share the name, because the code finds the files by name alone. Each has
its own number of pieces (`Sizes`), so a download can meet an `.info` shorter than its
file, whose end the index of a piece runs past, or a longer one, which it never fills.

What harms the files is remembered in the ghost variable `history`, by six named
kinds (`Harms`), so that each property says exactly which of them it survives:
for instance, a crash while `.part` is written harms nothing, one between the
creation and the filling of `.info` does. `other_version` is recorded when a request
finds a `.part` or an `.info` of another version.

### Turn

`end[p][r]` is where `start_seeding` or `start_leeching` of session `p` stands,
with the piece it holds; `out` is its channel into the gRPC stream, `chan` the
server's channel to it, `relay` the server task that reads its stream. `sessions`
are the ends registered; the lock over all sessions is seen in `relay`, whose
position `sending` keeps the read guard, and in `end`, whose `registering` waits
to write: tokio lets no later reader overtake it. The barrier is the guard of
the step that leaves `waiting`. Each `select!` branch is an action; the leecher's loop
goes on for ever, as in the code. `request`, `conn`, `loop` and `got` stand for the
assembler at the other end of the channels.

An end has two gRPC streams, one for each direction, and `broken` are those that have failed.
With a failing stream go the packets in it (`SendBreaks`, `ReceiveBreaks`). The relay returns with the
error (`ReadFails`) or is dropped by tonic where it waits (`RelayDropped`); the seeder's
loop ends when its inbound stream is over (`SeederStreamEnds`); the leecher's does not. What
either of them still sends into a broken stream is dropped (`LeecherQueue`, `SeederQueue`), and so is what the
relay forwards to one (`Forward`).

### PeerConnect

A state of an end is a stage (`lan`, `punch`, `turn`) and a position in it. The
server's part is `certSender`, `trigger` and `session`. `lan` and `nat` say whether
packets pass; a `flaky` path may let a handshake succeed at one end only
(`shaken`, `punched`). Time limits are orderings: one strikes when what is waited
for cannot come any more, or, as a counted fault `late`, although it would.

### Transfer

Sizes are scaled: a word has four digits in base `Base`, so a `u32` has `Base^4`
values, and the classes of `get_piece_length` are scaled along. Byte *k* of a file
is the number *k*. `reader` is `get_piece_hashes` with reads cut at any place
and the vector that keeps the tail of the piece before; `call[s]` is the exchange
on a connection, with the encoded frame and the reader's limit; `checked` is a
debug build, in which an overflow panics instead of wrapping; a seeder's file may
change under the download (`disk`). SHA-1 is injective here: a hash is the bytes hashed.
`IndexAssumption` says that a file has no more pieces than a word counts. With the table
of the code that is a file of up to 4 PiB; offsets may be, and in the run are, larger than a word.

## 3. What TLC checks

### Runs that pass

**`assembler`** (`Assembler.cfg`): 3 pieces, 3 connections, channels of 3, any
two faults of all six kinds, a short last piece, from the start or with one piece
received before, with or without a file of that name already in place; 1,266,782 states.

* `OneRequestPerPiece`: a piece has at most one request outstanding, in whichever
  queue or task. `NoRequestLost`: a missing piece has at least one, unless a
  connection was lost with a request in hand or was never made (see `lost_request`).
* `CountMatchesSenders`: the list and the count agree except between the two
  write guards of a Cancel.
* `PanicOnlyWithoutSenders`: `send_requests` divides by zero only when the last sender is
  gone and `reassemble_loop` has given up, or is between its decrement and its look at
  the count: a download that could go on does not end this way.
* `ErrorOnlyAfterFailure`: its look-up of a sender fails, while that loop runs, only after a
  connection has failed or when every piece is recorded; corrupted pieces alone do not end it.
* `RemovedGetsNoRequest`: a removed sender is never used again.
* `ImplementsDownload`: refinement of `Download`, which never replaces a file of the name.

Three connections are the fewest for which an index can be stale and still name
a wrong sender after a removal; two faults let a removal meet another failure.

**`assembler_live`** (`AssemblerLive.cfg`): 4 pieces, 2 connections, all channels
of capacity 1, resumed or not, with or without a file of the name; 424,676 states.

* `StartedIsBuilt`: once requests are sent and as long as no connection fails,
  the file is installed, corrupted pieces included. Its premise
  `ChannelsHaveRoom`, `NumPieces <= RequestCap + ConnCap + 2`, is exact on
  one connection, and the run uses the largest file that meets it. With 150 and
  150 it is 302 pieces, under 19 MiB with pieces of 64 KiB; beyond it a resumed
  download stands still (see the findings).
* `EverythingEnds`: when `reassemble_loop` has ended, in any of its ways, so
  do `send_requests` and all connections, without any such premise.

**`tracker`** (`Tracker.cfg`): clients `c1` and `c2`, one file, three sockets, two
attempts per request, `c2` may crash, calls of `c1` may fail; 5,978,726 states. Two clients with
one file are enough for every pair of handlers to overlap on one entry; three
sockets let a seeder renew its call and a requester meet the old and the new one.

* `NoGhostFile`: a file that `get_all_files` lists has a seeder, unless a handler
  is between its two writes.
* `OneRequesterPerSeed`, `SeedCallReachable`, `StaleSenderOnlyAfterEnd`: a seed call
  is answered once; one that waits is in the map or has its answer; a dead
  sender is left only by a seeding loop that has ended or a call that broke off.
* `RegisteredWhereItSeeds`: the address handed out for a waiting seeder is that of its
  seed call, unless a connection of the same client was published since, whose address it
  then is: the harm named in the findings, and nothing beyond it. `SeederStaysListed`: a handler that runs for one
  client takes no other client out of a list, but for the window in `delete_file`.

**`part_store`** (`PartStore.cfg`): one version of two pieces and one of a single piece, two crashes, one
kind of harm at a time; 182,324 states. Two pieces are the fewest with a download
that is neither empty nor complete, and two lengths let `.info` be too short and too long;
two crashes let a resumed download die again.

* `MarkedIsWritten`, `MarksKept`: a piece marked in `.info` is in `.part`, and the
  mark stays, whenever the process dies.
* `InstalledIsWhole`, `NoOverwrite`: the file in its place is whole and of one
  version, and `build_file` overwrites no content although it looks early and renames late.
* `CacheMatchesFile`, `PanicsOnlyAfterHarm`: `.filecache` is that of its file; the
  unwraps over it fail only when a crash or an overlapping delete left it half-made, and the
  unchecked index into `.info` only then or when it is that of another, shorter version.
* `LoopEnds`: with its pieces arriving, a download is built or refused, unless its status
  was deleted under it or is that of another, longer version.

**`turn`** (`Turn.cfg`): one session, whose seeder may lack a piece, whose loop may stall
and of whose four streams one may break, relays four pieces over channels of capacity
one while the seeder of a second one registers; 166,410 states. Four is the largest number that
meets `ChannelsHaveRoom` of `Turn` (`OutCap + ChanCap + 2`, 258 in the code).

* `NothingLost`: a requested piece is under way in some form, or has been received, as
  long as neither outer task of its session has ended and none of its streams has broken: no `select!`
  branch, full channel or lock loses it, and nothing in another session does.
* `StreamsArePaired`: `forward` never meets an empty slot, where it would drop a packet.
* `RegistrationsProceed`: a registration gets the lock although others relay.
  `PairsAreServed`: two registered ends pass the barrier and every request is answered.

**`connect`** (`PeerConnect.cfg`): every LAN and NAT, two faults (late calls,
crashes); 3,080 states, with nothing left out but longer fault sequences.

* `CertMatchesStage`: the requester connects with the certificate of the endpoint it connects to,
  though one address serves both stages.
* `EndsAgree`, `BothConnect`: without a fault both ends are connected over the same way, or one
  is still on its way to it; unless the LAN swallows every packet.

**`transfer`** (`Transfer.cfg`): lengths at and around every class boundary, the
empty file, one byte more than a `u32` can address, two seeders, one changed file; 17,517 states.

* `DescriptionIsExact`: the hashes do not depend on how the reads are cut.
* `FramesFit`: each end decodes what the other encoded, within the 41 bytes and
  the limit of its reader.
* `MarkedIsSource`, `CopyIsSource`, `CopyEnds`: marked pieces are the source's, the
  copy has its bytes and its info hash, and a file that fits is copied.

Deadlock is not checked: a download ends, a client exits, an end is connected,
and the bounds stop the rest. Where waiting for ever would be wrong, a liveness
property says so.

### Runs that find a comment contradicted

| Run | Property | What happens |
|---|---|---|
| `wrong_seeder` | `RemovesTheFailedSeeder` | After a removal shifted the list, a Cancel with an older index removes a healthy connection |
| `lost_request` | `FailedRequestsComeBack` | A connection that fails after `open_bi` sends no Cancel |
| `delist` | `DelistedIsNotListed` | A leaving client's seeding loop advertises once more |
| `mixed_versions` | `CompleteIsReceived` | `.part` and `.info` of another file of the same name are resumed, and the mixture counts as complete |
| `fall_back` | `FallsBackOnTurn` | On a LAN that lets no packet through, the seeder waits in `accept` without a limit, the requester at the barrier |

`PROJECT.json` "findings" quotes the comments. It also lists divergences without
a run: those that the model states as a premise or a guard (`ChannelsHaveRoom`, `Fits`,
`Copyable`, `Verifiable`), and those that are plain from one line.

### Fairness

All fairness is weak. Tokio polls every task that is woken, channels wake a
waiting sender or receiver, and its `RwLock` serves waiters in order (in `Turn`
this order is in the guards), so a step that stays possible is taken.

* `FileAssembler`: `file_request`, `send_requests`, `reassemble_loop`, each connection
  (`Served`). The peer is assumed to accept and to answer unless a fault occurs.
* `PartStore`: the loop, the command loop in the middle of a command, and the
  arrival of each requested piece; none for the user's commands, `Serve` or `Crash`.
* `Turn`: the tasks of each end and of each relay. The leecher's inbound branch has fairness
  of its own beside its request branch: `select!` picks a ready branch at random, so none is
  starved. That an end registers, a loop ends or stalls and a stream breaks is not fair.
* `PeerConnect`: each end's own steps, time limits included. Crashes and late calls have none.
* `Transfer`: describing, requesting, and each exchange. Changes of a file have none.

### Bounds

`MaxFaults`, `MaxAddrs`, `MaxTries`, `MaxCrashes`, `MaxHarms`, `MaxChanges`, `MaxBroken` and the
capacities bound what could grow. `Turns` keeps the resend counter modulo a common
multiple of the numbers of connections, which is exact, as only its remainder is used.
The inductive invariant of `PartStore` was also checked with two kinds of harm together
(886,615 states).

## 4. What is proved

Every invariant and every safety action property that a passing run checks is
also a theorem, for all values of the constants that meet the assumptions of its
module. Each rests on an inductive invariant (`Invariance`, `RequestInvariance`,
`TransferInvariance`) with one lemma or step per action below it, and TLC has
checked every one of these invariants on an instance first.

| Module | Theorem | Property |
|---|---|---|
| `FileAssemblerProofs` | `TypesHold` | `TypeOK` |
| | `CountsAgree` | `CountMatchesSenders` |
| | `PanicsOnlyWithoutSenders` | `PanicOnlyWithoutSenders` |
| | `RemovedIsSilent` | `RemovedGetsNoRequest` |
| | `Refinement` | `ImplementsDownload` |
| `RequestProofs` | `RequestsAreUnique` | `OneRequestPerPiece` |
| | `RequestsAreKept` | `NoRequestLost` |
| | `ErrorsHaveACause` | `ErrorOnlyAfterFailure` |
| | `FreshErrorsHaveACause` | the same without its case "every piece is recorded", for a download that starts with none |
| `TrackerProofs` | `TypesHold` | `TypeOK` |
| | `FilesHaveSeeders` | `NoGhostFile` |
| | `SeedsAreServedOnce` | `OneRequesterPerSeed` |
| | `SeedsAreReachable` | `SeedCallReachable` |
| | `SendersAreAlive` | `StaleSenderOnlyAfterEnd` |
| | `AddressesAreCurrent` | `RegisteredWhereItSeeds` |
| | `SeedersStay` | `SeederStaysListed` |
| `PartStoreProofs` | `TypesHold` | `TypeOK` |
| | `MarkedPiecesAreWritten` | `MarkedIsWritten` |
| | `InstalledFilesAreWhole` | `InstalledIsWhole` |
| | `CachedMetadataMatches` | `CacheMatchesFile` |
| | `FilesAreNotOverwritten` | `NoOverwrite` |
| | `MarksStay` | `MarksKept` |
| | `PanicsNeedHarm` | `PanicsOnlyAfterHarm` |
| `TurnProofs` | `TypesHold` | `TypeOK` |
| | `NoneIsLost` | `NothingLost` |
| | `SendersHavePartners` | `StreamsArePaired` |
| `PeerConnectProofs` | `TypesHold` | `TypeOK` |
| | `CertificatesMatch` | `CertMatchesStage` |
| | `EndsMeet` | `EndsAgree` |
| `TransferProofs` | `FieldsHold` | `TypeOK` |
| | `DescriptionsAreExact` | `DescriptionIsExact` |
| | `FramesAreDecoded` | `FramesFit` |
| | `MarkedPiecesAreTheSource` | `MarkedIsSource` |
| | `CopiesAreTheSource` | `CopyIsSource` |

The inductive invariants, and why the properties need them:

* **FileAssembler.** A task passes on a message it holds, so the message must be
  one (`MessagesHeld`), and the count stays above zero only because it is one too
  high while a Cancel is between its two write guards (`CountMatchesSenders`).
  `SenderHeld`: the sender in use during a send is still in the list, which the
  read guard keeps so. `ZeroIsFailure` ties each copy of the count to the end of the
  loop or to the check that comes before it. `BuildsWhole`: the loop leaves to build only with every piece, which gives
  `D!Complete` its guard.
* **Requests** (`RInv`). Each queue and each hand of a task is a holder of a set of pieces
  (`held`), and that the sets are disjoint and no queue has a piece twice (`Alone`) replaces
  counting. Every action then keeps what is held, moves one piece from one holder to
  another, or lets one go because it is recorded, lost with a fault, or its task has
  ended (`Outcome`), and `Alone` and `Somewhere` follow from that alone. `HandsEmpty` says
  which states hold nothing; `Healthy` says what `send_requests` finds as long as no
  connection fails: the list with all senders, and every one of them open.
* **Tracker.** That a seed call gets one answer depends on where it comes from:
  every call has a socket of its own (`SocketsBound`, `SocketsUnique`), registration
  and delisting touch a client's own sockets only (`RegisteredApart`), a sender in
  the map is unused (`SendersUnused`), a call about to be made is the first at its socket
  (`FirstCall`), a seeding loop that ends while its client serves commands has made no call
  (`ClosedUnused`), the socket a connection is about to publish is its client's own
  (`OwnAddress`), and the registry has the one that was published last (`RegisteredSince`).
* **PartStore.** The properties speak of files; that they survive a step depends on
  what the loop has found out before it acts on it (`WrittenFirst`, `StatusThere`,
  `Checked`, `UnmarkedWhileFilling`), on `.info` having all its bytes or none
  or being another version's (`StatusLength`, `StatusFits`, `EmptyStatus`), on `.part` having no
  piece its version does not have (`PartFits`), and on which `.filecache` can be met where
  (`CacheLines`, `CacheRead`, `CacheOf`, `FileThere`, `Cut`).
* **Turn.** The types together with a statement per end (`Slot`: who waits for a
  message holds none that could be overwritten; before the barrier there is no relay
  task) and per session (`Session`: everything requested is under way, and
  nothing else). A step moves a piece from one place to another, so the lemmas about
  queues say what appending and taking leave in their range.

* **PeerConnect.** Certificates: who waits in `get_cert` waits in the stage of the sender the
  server holds for it (`CertOnItsWay`), and the trigger of the hole punch orders the ends
  (`TriggerOrders`). The agreement of the ends, in a run without a fault, rests on the list
  of the seven situations in which they can be together (`Phases`); a step leads from
  one to the same or a later one.
* **Transfer.** The reader has hashed whole pieces and holds the begin of the next, with the
  bytes of the piece in front behind it (`ReaderOK`); a frame is the encoding of its request or of
  an answer to it (`Exchanging`); what is marked is written to its end and equal to the
  source (`Copied`). `Size`, `Join` and `Behind` keep the provers from counting bytes: lemmas
  about words and about joined frames carry the argument, once for each kind of message.

`IndexAssumption` is needed: beyond it an index wraps, and its answer is taken for
that of another piece. `TransferAssumption` asks that a Cancel fits the limit of a
reader of pieces, as the smallest piece length of the code ensures.

Proofs about lists (removing a client from the list of seeders) go by the least
index instead of by induction over the list, since the library's induction theorems take an
operator as their parameter.

Only model-checked are the liveness properties: `StartedIsBuilt`, `EverythingEnds`,
`LoopEnds`, `RegistrationsProceed`, `PairsAreServed`, `BothConnect` and `CopyEnds`. They
need fairness and ENABLED, which are beyond the prover.

## 5. Not modelled

* Commented-out code (`piece_assembler.rs`), generated RPC code, build and deployment files.
* `get_client_id`, which no client calls; more than one seeding loop at a time in one client (the
  command `s` typed twice); failures and restarts of the server, which keeps nothing.
* In `Tracker`: failing calls of the command loop, since `main` returns with the error and the process
  is as good as crashed (`Crash`; `FrRegisterFails` in `FileAssembler`); the death of a client
  in the middle of `delete_file` or `delist_client`, whose handlers never await and run to their end;
  and a seed call that the server serves only after the client has given it up, whose sender is
  one more of those in `failed`.
* Two downloads of one name at once: `Request` drops what still is in the channels of an earlier
  request, of which up to 150 pieces may be buffered (`file_assembler.rs:35`).
* A user who creates or replaces files in `resources` by hand while the client runs.
* TLS, congestion and UDP inside `quinn`; the STUN query, of which only failure matters.
* Formatting and printing; I/O errors such as a full disk.
* The window between the look-up of a path and the opening of the file: an
  unlink in it loses the write, as one after it does.
* That `notify_waiters` wakes only a task that waits already is in `FrStart`, but no
  property states it: nothing in the code bounds when a spawned task first runs.

## 6. Plan

Done: the modules of section 2, in the order assembler, tracker, piece store,
TURN, connection establishment, transfer. What is left, in this order:

1. A TURN connection as a second kind of connection in `FileAssembler`, whose
   requests are then those of `Turn`.
2. The safety part of the liveness properties as theorems: for `StartedIsBuilt`, that a state
   in which no task can move is one of those where the download has ended.
3. `Turn` as an implementation of a pair of reliable queues, as `FileAssembler` is of `Download`.
