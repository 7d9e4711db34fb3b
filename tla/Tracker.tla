------------------------------- MODULE Tracker -------------------------------
(***************************************************************************)
(* The connection service of the server (client_registry, file_tracker,    *)
(* seeder_list, seed_notifier) and the clients that use it: the command    *)
(* loop of main.rs and the seeding loop.  The maps are DashMaps without a  *)
(* common lock, so a handler that touches several of them, or one of them  *)
(* twice, takes several steps.                                             *)
(***************************************************************************)
EXTENDS Integers, Sequences, FiniteSets, SequencesExt

CONSTANTS
  Clients,     \* the client ids the server hands out
  Files,       \* the files, by their info hash
  HashesOf,    \* the files in a client's resources directory at its start
  NumPieces,   \* the pieces of each file
  MaxAddrs,    \* bound on the sockets (PeerIds) that are ever bound
  MaxTries,    \* attempts of send_file_request to find the seeder (5)
  CanCrash,    \* clients whose process may die without delisting
  CanFail      \* clients whose calls may fail while they live on

Addrs == 1 .. MaxAddrs
NoAddr == 0     \* a registered client without a PeerId
Unknown == -1   \* a client that is not in client_registry

ASSUME ParametersAssumption ==
  /\ Files # {}
  /\ HashesOf \in [Clients -> SUBSET Files]
  /\ NumPieces \in [Files -> Nat]
  /\ MaxAddrs \in Nat
  /\ MaxTries \in Nat \ {0}
  /\ CanCrash \subseteq Clients /\ CanFail \subseteq Clients

VARIABLES
  registry,     \* client_registry: the PeerId of each client
  tracker,      \* the keys of file_tracker
  entries,      \* the keys of seeder_list
  seeders,      \* the lists in seeder_list; <<>> where there is no entry
  notifier,     \* the keys of seed_notifier
  delivered,    \* what each seed call was sent through its channel
  requests,     \* send_file_request calls that are not answered yet
  bound,        \* how many sockets have been bound
  cli, cliFile, cliAddr, cliTodo, cliPeers,  \* command loop of a client
  sd, sdAddr, sdFile, sdTodo,                \* seeding loop of a client
  disk,         \* the files a client has on disk
  \* Ghosts, which no step reads:
  failed,       \* the sockets whose seed call broke off
  overwritten   \* the last socket a client published since its seeding loop did

server == <<registry, tracker, entries, seeders, notifier, delivered>>
cliVars == <<cli, cliFile, cliAddr, cliTodo, cliPeers>>
sdVars == <<sd, sdAddr, sdFile, sdTodo>>
ghosts == <<failed, overwritten>>
vars == <<server, requests, bound, cliVars, sdVars, disk, ghosts>>

Init ==
  /\ registry = [c \in Clients |-> Unknown]
  /\ tracker = {} /\ entries = {}
  /\ seeders = [f \in Files |-> <<>>]
  /\ notifier = {}
  /\ delivered = [a \in Addrs |-> <<>>]
  /\ requests = {}
  /\ bound = 0
  /\ cli = [c \in Clients |-> "new"]
  /\ cliFile \in [Clients -> {CHOOSE f \in Files : TRUE}]
  /\ cliAddr = [c \in Clients |-> NoAddr]
  /\ cliTodo = [c \in Clients |-> {}]
  /\ cliPeers = [c \in Clients |-> <<>>]
  /\ sd = [c \in Clients |-> "off"]
  /\ sdAddr = [c \in Clients |-> NoAddr]
  /\ sdFile = cliFile
  /\ sdTodo = [c \in Clients |-> {}]
  /\ disk = HashesOf
  /\ failed = {}
  /\ overwritten = [c \in Clients |-> NoAddr]

-----------------------------------------------------------------------------
(* Helpers.                                                                *)

Gone(c) == cli[c] \in {"exited", "crashed"}

\* A step of the seeding task; nothing follows once the process has ended.
SdGoto(c, state) == sd' = [sd EXCEPT ![c] = IF Gone(c) THEN "closed" ELSE state]
CliGoto(c, state) == cli' = [cli EXCEPT ![c] = state]

\* register_new_connection binds a socket, so its address is a new one.
Bind == bound < MaxAddrs /\ bound' = bound + 1

\* Someone still waits on the receiving end of the channel of a seed call.
Waiting(a) ==
  \E c \in Clients : sd[c] \in {"waiting", "notified"} /\ sdAddr[c] = a

\* The elements of s that are in K, in their order: SelectSeq, spelled out for
\* TrackerProofs.
Select(s, K) ==
  LET kept[i \in 0 .. Len(s)] ==
        IF i = 0 THEN <<>>
        ELSE IF s[i] \in K THEN Append(kept[i - 1], s[i]) ELSE kept[i - 1]
  IN  kept[Len(s)]

Without(s, c) == Select(s, Clients \ {c})

\* get_file_peer_list: the addresses of the seeders that have one.
PeerList(f) == Select([i \in DOMAIN seeders[f] |-> registry[seeders[f][i]]], Addrs)

-----------------------------------------------------------------------------
(* Wrong variants of the operators below, for showing that each property   *)
(* depends on the code: see the mutants of PROJECT.json.                   *)

\* The sender is used and left in the map.
SendFileRequestKeeps(r) ==
  /\ r.to \in notifier
  /\ delivered' = [delivered EXCEPT ![r.to] =
                     IF Waiting(r.to) THEN Append(@, r.from) ELSE @]
  /\ requests' = requests \ {r}
  /\ UNCHANGED <<registry, tracker, entries, seeders, notifier, bound, cliVars,
                 sdVars, disk, ghosts>>

\* The sender is taken out before the request is known to be good.
SendFileRequestDrops(r) ==
  /\ r.to \in notifier
  /\ notifier' = notifier \ {r.to}
  /\ \/ UNCHANGED delivered
     \/ delivered' = [delivered EXCEPT ![r.to] =
                        IF Waiting(r.to) THEN Append(@, r.from) ELSE @]
  /\ requests' = requests \ {r}
  /\ UNCHANGED <<registry, tracker, entries, seeders, bound, cliVars, sdVars,
                 disk, ghosts>>

\* The last attempt is not recognised as the last.
SendFileRequestRetriesOnce(r) ==
  /\ r.to \notin notifier
  /\ requests' = (requests \ {r}) \cup
       (IF r.tries = MaxTries THEN {} ELSE {[r EXCEPT !.tries = @ + 1]})
  /\ UNCHANGED <<server, bound, cliVars, sdVars, disk, ghosts>>

\* A client that has an address keeps it.
SeedUpdateOnce(c) ==
  /\ sd[c] = "update"
  /\ registry' = [registry EXCEPT ![c] = IF @ \in Addrs THEN @ ELSE sdAddr[c]]
  /\ overwritten' = [overwritten EXCEPT ![c] = NoAddr]
  /\ sdTodo' = [sdTodo EXCEPT ![c] = HashesOf[c]]
  /\ SdGoto(c, IF HashesOf[c] = {} THEN "seed" ELSE "advertise")
  /\ UNCHANGED <<tracker, entries, seeders, notifier, delivered, requests,
                 bound, cliVars, sdAddr, sdFile, disk, failed>>

\* The entry is removed by the command without a look at who is in it.
DeleteRetainAll(c) ==
  LET f == cliFile[c] IN
  /\ cli[c] = "delete"
  /\ seeders' = [seeders EXCEPT ![f] = <<>>]
  /\ CliGoto(c, IF f \in entries THEN "delete_entry" ELSE "unlink")
  /\ UNCHANGED <<registry, tracker, entries, notifier, delivered, requests,
                 bound, cliFile, cliAddr, cliTodo, cliPeers, sdVars, disk, ghosts>>

\* file_tracker keeps a file that has lost its last seeder.
DelistFileOnly(c, f) ==
  /\ cli[c] = "delist_files" /\ f \in cliTodo[c]
  /\ seeders' = [seeders EXCEPT ![f] = Without(@, c)]
  /\ cliTodo' = [cliTodo EXCEPT ![c] = @ \ {f}]
  /\ UNCHANGED <<registry, tracker, entries, notifier, delivered, requests,
                 bound, cli, cliFile, cliAddr, cliPeers, sdVars, disk, ghosts>>

-----------------------------------------------------------------------------
(* The seeding loop (TorrentClient::seeding) and the RPCs it makes.  A     *)
(* state named after an RPC means that the call is on its way.             *)

\* Command "s".  At most one seeding loop for each client.
StartSeeding(c) ==
  /\ cli[c] = "ready" /\ sd[c] \in {"off", "closed"}
  /\ Bind
  /\ SdGoto(c, "update")
  /\ sdAddr' = [sdAddr EXCEPT ![c] = bound']
  /\ UNCHANGED <<server, requests, cliVars, sdFile, sdTodo, disk, ghosts>>

\* advertise_all sends the file_hashes read at the start of the program.
SeedUpdate(c) ==
  /\ sd[c] = "update"
  /\ registry' = [registry EXCEPT ![c] = sdAddr[c]]
  /\ overwritten' = [overwritten EXCEPT ![c] = NoAddr]
  /\ sdTodo' = [sdTodo EXCEPT ![c] = HashesOf[c]]
  /\ SdGoto(c, IF HashesOf[c] = {} THEN "seed" ELSE "advertise")
  /\ UNCHANGED <<tracker, entries, seeders, notifier, delivered, requests,
                 bound, cliVars, sdAddr, sdFile, disk, failed>>

AdvertiseTrack(c, f) ==
  /\ sd[c] = "advertise" /\ f \in sdTodo[c]
  /\ tracker' = tracker \cup {f}
  /\ sdFile' = [sdFile EXCEPT ![c] = f]
  /\ sdTodo' = [sdTodo EXCEPT ![c] = @ \ {f}]
  /\ sd' = [sd EXCEPT ![c] = "push"]
  /\ UNCHANGED <<registry, entries, seeders, notifier, delivered, requests,
                 bound, cliVars, sdAddr, disk, ghosts>>

AdvertisePush(c) ==
  /\ sd[c] = "push"
  /\ entries' = entries \cup {sdFile[c]}
  /\ seeders' = [seeders EXCEPT ![sdFile[c]] = Append(@, c)]
  /\ SdGoto(c, IF sdTodo[c] = {} THEN "seed" ELSE "advertise")
  /\ UNCHANGED <<registry, tracker, notifier, delivered, requests, bound,
                 cliVars, sdAddr, sdFile, sdTodo, disk, ghosts>>

Seed(c) ==
  /\ sd[c] = "seed"
  /\ notifier' = notifier \cup {sdAddr[c]}
  /\ SdGoto(c, "waiting")
  /\ UNCHANGED <<registry, tracker, entries, seeders, delivered, requests,
                 bound, cliVars, sdAddr, sdFile, sdTodo, disk, ghosts>>

\* The seed call returns, with a peer or with the error that its sender was
\* dropped; a pending close-down is forgotten and the loop starts over.
SeedReturns(c) ==
  /\ sd[c] \in {"waiting", "notified"} /\ ~Gone(c)
  /\ delivered[sdAddr[c]] # <<>> \/ sdAddr[c] \notin notifier
  /\ Bind
  /\ SdGoto(c, "update")
  /\ sdAddr' = [sdAddr EXCEPT ![c] = bound']
  /\ UNCHANGED <<server, requests, cliVars, sdFile, sdTodo, disk, ghosts>>

\* The seed call breaks off, in its transport or by a time limit: the same arm,
\* but nobody has told the server, and the sender stays in the map.
SeedFails(c) ==
  /\ c \in CanFail /\ sd[c] \in {"seed", "waiting", "notified"} /\ ~Gone(c)
  /\ Bind
  /\ SdGoto(c, "update")
  /\ sdAddr' = [sdAddr EXCEPT ![c] = bound']
  /\ failed' = failed \cup {sdAddr[c]}
  /\ UNCHANGED <<server, requests, cliVars, sdFile, sdTodo, disk, overwritten>>

\* A failing update or advertise ends the task; the user may start another.
SeedingFails(c) ==
  /\ c \in CanFail /\ sd[c] \in {"update", "advertise", "seed"} /\ ~Gone(c)
  /\ SdGoto(c, "closed")
  /\ UNCHANGED <<server, requests, bound, cliVars, sdAddr, sdFile, sdTodo, disk,
                 ghosts>>

\* select! takes the close_down branch.
SeedCloses(c) ==
  /\ sd[c] = "notified"
  /\ SdGoto(c, "closed")
  /\ UNCHANGED <<server, requests, bound, cliVars, sdAddr, sdFile, sdTodo, disk, ghosts>>

-----------------------------------------------------------------------------
(* Command "r": file_request.                                              *)

Register(c) ==
  /\ cli[c] = "new"
  /\ CliGoto(c, "ready")
  /\ registry' = [registry EXCEPT ![c] = NoAddr]
  /\ UNCHANGED <<tracker, entries, seeders, notifier, delivered, requests,
                 bound, cliFile, cliAddr, cliTodo, cliPeers, sdVars, disk, ghosts>>

\* The user picks one of the files of get_all_files.
ChooseFile(c, f) ==
  /\ cli[c] = "ready" /\ f \in tracker
  /\ cliFile' = [cliFile EXCEPT ![c] = f]
  /\ CliGoto(c, "chosen")
  /\ UNCHANGED <<server, requests, bound, cliAddr, cliTodo, cliPeers, sdVars,
                 disk, ghosts>>

\* One connection for each peer of get_file_peer_list, and no more than the
\* file has pieces.
RequestFile(c) ==
  LET list == PeerList(cliFile[c])
      pieces == NumPieces[cliFile[c]]
  IN
  /\ cli[c] = "chosen"
  /\ cliPeers' = [cliPeers EXCEPT ![c] =
                    IF Len(list) < pieces THEN list ELSE SubSeq(list, 1, pieces)]
  /\ CliGoto(c, "connecting")
  /\ UNCHANGED <<server, requests, bound, cliFile, cliAddr, cliTodo, sdVars,
                 disk, ghosts>>

\* register_new_connection binds the sockets of the next connection and sends
\* their address off; the seeding loop goes on meanwhile.
OpenConnection(c) ==
  /\ cli[c] = "connecting" /\ cliPeers[c] # <<>>
  /\ Bind
  /\ cliAddr' = [cliAddr EXCEPT ![c] = bound']
  /\ CliGoto(c, "publishing")
  /\ UNCHANGED <<server, requests, cliFile, cliTodo, cliPeers, sdVars, disk,
                 ghosts>>

\* update_registered_peer_id; then the task of the connection is spawned.  The
\* call of a process that has died may still be served.
PublishConnection(c) ==
  /\ cli[c] \in {"publishing", "crashed"} /\ cliAddr[c] # NoAddr
  /\ registry' = [registry EXCEPT ![c] = cliAddr[c]]
  /\ overwritten' = [overwritten EXCEPT ![c] = cliAddr[c]]
  /\ cliAddr' = [cliAddr EXCEPT ![c] = NoAddr]
  /\ IF Gone(c) THEN UNCHANGED <<cli, cliPeers, requests>>
     ELSE /\ CliGoto(c, "connecting")
          /\ requests' = requests \cup {[by |-> c, to |-> Head(cliPeers[c]),
                                         from |-> cliAddr[c], tries |-> 0]}
          /\ cliPeers' = [cliPeers EXCEPT ![c] = Tail(@)]
  /\ UNCHANGED <<tracker, entries, seeders, notifier, delivered, bound, cliFile,
                 cliTodo, sdVars, disk, failed>>

RequestReturns(c) ==
  /\ cli[c] = "connecting" /\ cliPeers[c] = <<>>
  /\ \A r \in requests : r.by # c
  /\ CliGoto(c, "ready")
  /\ UNCHANGED <<server, requests, bound, cliFile, cliAddr, cliTodo, cliPeers,
                 sdVars, disk, ghosts>>

\* One attempt of send_file_request: the sender is taken out of the map, and
\* the send fails when the seed call is gone.
SendFileRequest(r) ==
  /\ r.to \in notifier
  /\ notifier' = notifier \ {r.to}
  /\ delivered' = [delivered EXCEPT ![r.to] =
                     IF Waiting(r.to) THEN Append(@, r.from) ELSE @]
  /\ requests' = requests \ {r}
  /\ UNCHANGED <<registry, tracker, entries, seeders, bound, cliVars, sdVars,
                 disk, ghosts>>

SendFileRequestRetries(r) ==
  /\ r.to \notin notifier
  /\ requests' = (requests \ {r}) \cup
       (IF r.tries + 1 = MaxTries THEN {} ELSE {[r EXCEPT !.tries = @ + 1]})
  /\ UNCHANGED <<server, bound, cliVars, sdVars, disk, ghosts>>

-----------------------------------------------------------------------------
(* Command "d": delete_file.                                               *)

DeleteFile(c, f) ==
  /\ cli[c] = "ready" /\ f \in disk[c]
  /\ cliFile' = [cliFile EXCEPT ![c] = f]
  /\ CliGoto(c, "delete")
  /\ UNCHANGED <<server, requests, bound, cliAddr, cliTodo, cliPeers, sdVars,
                 disk, ghosts>>

DeleteRetain(c) ==
  LET f == cliFile[c] IN
  /\ cli[c] = "delete"
  /\ seeders' = [seeders EXCEPT ![f] = Without(@, c)]
  /\ CliGoto(c, IF f \in entries /\ seeders'[f] = <<>> THEN "delete_entry"
                                                      ELSE "unlink")
  /\ UNCHANGED <<registry, tracker, entries, notifier, delivered, requests,
                 bound, cliFile, cliAddr, cliTodo, cliPeers, sdVars, disk, ghosts>>

\* The guard on the entry was dropped, so the list may have grown again.
DeleteEntry(c) ==
  /\ cli[c] = "delete_entry"
  /\ entries' = entries \ {cliFile[c]}
  /\ seeders' = [seeders EXCEPT ![cliFile[c]] = <<>>]
  /\ CliGoto(c, "delete_track")
  /\ UNCHANGED <<registry, tracker, notifier, delivered, requests, bound,
                 cliFile, cliAddr, cliTodo, cliPeers, sdVars, disk, ghosts>>

DeleteTrack(c) ==
  /\ cli[c] = "delete_track"
  /\ tracker' = tracker \ {cliFile[c]}
  /\ CliGoto(c, "unlink")
  /\ UNCHANGED <<registry, entries, seeders, notifier, delivered, requests,
                 bound, cliFile, cliAddr, cliTodo, cliPeers, sdVars, disk, ghosts>>

\* file_handler::delete_file; file_hashes keeps the file.
Unlink(c) ==
  /\ cli[c] = "unlink"
  /\ disk' = [disk EXCEPT ![c] = @ \ {cliFile[c]}]
  /\ CliGoto(c, "ready")
  /\ UNCHANGED <<server, requests, bound, cliFile, cliAddr, cliTodo, cliPeers,
                 sdVars, ghosts>>

-----------------------------------------------------------------------------
(* Command "exit": remove_client, and the end of the process.              *)

DelistClient(c) ==
  /\ cli[c] = "ready"
  /\ CliGoto(c, "delist")
  /\ UNCHANGED <<server, requests, bound, cliFile, cliAddr, cliTodo, cliPeers,
                 sdVars, disk, ghosts>>

DelistRegistry(c) ==
  /\ cli[c] = "delist"
  /\ registry' = [registry EXCEPT ![c] = Unknown]
  /\ cliAddr' = [cliAddr EXCEPT ![c] = registry[c]]
  /\ cliTodo' = [cliTodo EXCEPT ![c] = Files]
  /\ CliGoto(c, "delist_notifier")
  /\ UNCHANGED <<tracker, entries, seeders, notifier, delivered, requests,
                 bound, cliFile, cliPeers, sdVars, disk, ghosts>>

\* Dropping the sender makes a pending seed call return an error.
DelistNotifier(c) ==
  /\ cli[c] = "delist_notifier"
  /\ notifier' = notifier \ {cliAddr[c]}
  /\ CliGoto(c, "delist_files")
  /\ UNCHANGED <<registry, tracker, entries, seeders, delivered, requests,
                 bound, cliFile, cliAddr, cliTodo, cliPeers, sdVars, disk, ghosts>>

\* iter_mut visits the entries one by one and locks each of them.
DelistFile(c, f) ==
  /\ cli[c] = "delist_files" /\ f \in cliTodo[c]
  /\ seeders' = [seeders EXCEPT ![f] = Without(@, c)]
  /\ tracker' = IF f \in entries /\ seeders'[f] = <<>> THEN tracker \ {f}
                                                      ELSE tracker
  /\ cliTodo' = [cliTodo EXCEPT ![c] = @ \ {f}]
  /\ UNCHANGED <<registry, entries, notifier, delivered, requests, bound, cli,
                 cliFile, cliAddr, cliPeers, sdVars, disk, ghosts>>

\* notify_waiters reaches the seeding loop only while it is in its select!.
NotifyWaiters(c) ==
  /\ cli[c] = "delist_files" /\ cliTodo[c] = {}
  /\ sd' = [sd EXCEPT ![c] = IF @ = "waiting" THEN "notified" ELSE @]
  /\ CliGoto(c, "exiting")
  /\ UNCHANGED <<server, requests, bound, cliFile, cliAddr, cliTodo, cliPeers,
                 sdAddr, sdFile, sdTodo, disk, ghosts>>

\* The calls of a process that has ended are dropped, or still served.
EndProcess(c, state) ==
  /\ CliGoto(c, state)
  /\ sd' = [sd EXCEPT ![c] =
       IF @ \in {"waiting", "notified"} THEN "closed" ELSE @]
  /\ \/ UNCHANGED requests
     \/ requests' = {r \in requests : r.by # c}
  /\ UNCHANGED <<server, bound, cliFile, cliTodo, cliPeers, sdAddr, sdFile,
                 sdTodo, disk, ghosts>>

Exit(c) == cli[c] = "exiting" /\ EndProcess(c, "exited") /\ UNCHANGED cliAddr

Crash(c) ==
  /\ c \in CanCrash
  /\ cli[c] \in {"ready", "connecting", "publishing"}
  /\ EndProcess(c, "crashed")
  /\ cliAddr' \in {cliAddr, [cliAddr EXCEPT ![c] = NoAddr]}

SeedingLoop(c) ==
  \/ StartSeeding(c) \/ SeedUpdate(c) \/ AdvertisePush(c) \/ Seed(c)
  \/ SeedReturns(c) \/ SeedFails(c) \/ SeedingFails(c) \/ SeedCloses(c)
  \/ \E f \in Files : AdvertiseTrack(c, f)
CommandLoop(c) ==
  \/ Register(c) \/ RequestFile(c) \/ OpenConnection(c) \/ PublishConnection(c)
  \/ RequestReturns(c)
  \/ DeleteRetain(c) \/ DeleteEntry(c) \/ DeleteTrack(c) \/ Unlink(c)
  \/ DelistClient(c) \/ DelistRegistry(c) \/ DelistNotifier(c)
  \/ NotifyWaiters(c) \/ Exit(c) \/ Crash(c)
  \/ \E f \in Files : ChooseFile(c, f) \/ DeleteFile(c, f) \/ DelistFile(c, f)

Next ==
  \/ \E c \in Clients : SeedingLoop(c) \/ CommandLoop(c)
  \/ \E r \in requests : SendFileRequest(r) \/ SendFileRequestRetries(r)

Spec == Init /\ [][Next]_vars

-----------------------------------------------------------------------------
(* Properties.                                                             *)

Requests == [by : Clients, to : Addrs, from : Addrs, tries : 0 .. MaxTries - 1]

\* The maps of the server and the states of the clients are those of the code.
TypeOK ==
  /\ registry \in [Clients -> Addrs \cup {NoAddr, Unknown}]
  /\ tracker \subseteq Files
  /\ entries \subseteq Files
  /\ seeders \in [Files -> Seq(Clients)]
  /\ \A f \in Files \ entries : seeders[f] = <<>>
  /\ notifier \subseteq Addrs
  /\ delivered \in [Addrs -> Seq(Addrs)]
  /\ requests \subseteq Requests
  /\ bound \in 0 .. MaxAddrs
  /\ cli \in [Clients -> {"new", "ready", "chosen", "connecting",
                           "publishing", "delete", "delete_entry",
                           "delete_track", "unlink", "delist",
                           "delist_notifier", "delist_files", "exiting",
                           "exited", "crashed"}]
  /\ cliFile \in [Clients -> Files]
  /\ cliAddr \in [Clients -> Addrs \cup {NoAddr, Unknown}]
  /\ cliTodo \in [Clients -> SUBSET Files]
  /\ cliPeers \in [Clients -> Seq(Addrs)]
  /\ sd \in [Clients -> {"off", "update", "advertise", "push", "seed",
                          "waiting", "notified", "closed"}]
  /\ sdAddr \in [Clients -> Addrs \cup {NoAddr}]
  /\ sdFile \in [Clients -> Files]
  /\ sdTodo \in [Clients -> SUBSET Files]
  /\ disk \in [Clients -> SUBSET Files]
  /\ failed \subseteq Addrs
  /\ overwritten \in [Clients -> Addrs \cup {NoAddr}]

Advertising(f) == \E c \in Clients : sd[c] = "push" /\ sdFile[c] = f
Deleting(f) ==
  \E c \in Clients : cli[c] \in {"delete_entry", "delete_track"} /\ cliFile[c] = f

\* Once the handlers that work on a file have ended, a file that get_all_files
\* lists has a seeder, in whatever order advertise, delete_file and
\* delist_client interleave.
NoGhostFile ==
  \A f \in tracker : seeders[f] # <<>> \/ Advertising(f) \/ Deleting(f)

\* A seed call is handed to at most one requester: send_file_request takes the
\* sender out of seed_notifier, whose channel has room for one id.
OneRequesterPerSeed == \A a \in Addrs : Len(delivered[a]) <= 1

\* No seeding loop waits at an address that nobody can reach: until its client
\* delists itself, a seed call is in seed_notifier or has its answer.
SeedCallReachable ==
  \A c \in Clients :
    sd[c] = "waiting" /\ cli[c] \notin {"delist_files", "exiting"} =>
      sdAddr[c] \in notifier \/ delivered[sdAddr[c]] # <<>>

\* A sender in seed_notifier belongs to a call that still waits, to a client
\* that has stopped, or to a call that broke off without the server's knowledge:
\* no other request is answered by a dead channel.
StaleSenderOnlyAfterEnd ==
  \A a \in notifier :
    \/ Waiting(a) \/ a \in failed
    \/ \E c \in Clients : sdAddr[c] = a /\ sd[c] = "closed"

\* A seeder leaves the list of a file by its own delete or delist, and else
\* only in the window of delete_file: another client found the list empty,
\* dropped its guard, and has not yet removed the entry.
SeederStaysListed ==
  [][\A c \in Clients, f \in Files :
       c \in ToSet(seeders[f]) /\ c \notin ToSet(seeders'[f]) =>
         \/ cli[c] \in {"delete", "delist_files"}
         \/ \E d \in Clients : cli[d] = "delete_entry" /\ cliFile[d] = f]_vars

\* The registry sends requesters to the socket of a waiting seed call, however
\* the update of the seeding loop and those of the connections that the client
\* opens itself overtake each other, but for the one harm this code has: when a
\* connection was published since, to the socket of the latest such connection,
\* which may have been bound before that of the seed call.
RegisteredWhereItSeeds ==
  \A c \in Clients :
    sd[c] = "waiting" /\ cli[c] \in {"ready", "chosen", "connecting",
                                     "publishing", "delete", "unlink"} =>
      registry[c] = IF overwritten[c] = NoAddr THEN sdAddr[c] ELSE overwritten[c]

-----------------------------------------------------------------------------
(* Claims of the comments that the code does not meet.                     *)

\* remove_client: the client is delisted entirely, so that no peer may try
\* to make a request to it.
DelistedIsNotListed ==
  \A c \in Clients, f \in Files :
    cli[c] = "exited" /\ registry[c] # Unknown => c \notin ToSet(seeders[f])

=============================================================================
