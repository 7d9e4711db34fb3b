---------------------------- MODULE TrackerProofs ----------------------------
(***************************************************************************)
(* The safety of the tracker for every number of clients, files, sockets   *)
(* and attempts, and whichever clients may die: types, no file without a   *)
(* seeder, one requester for each seed call, and no seeding loop that      *)
(* waits where nobody can reach it.                                        *)
(***************************************************************************)
EXTENDS Tracker, SequenceTheorems, WellFoundedInduction, TLAPS

-----------------------------------------------------------------------------
(* The inductive invariant.                                                *)

\* A client binds a socket before it starts a seed call on it.
SocketsBound == \A c \in Clients : sd[c] # "off" => sdAddr[c] \in 1 .. bound

\* Every seed call has a socket of its own (register_new_connection).
SocketsUnique ==
  \A c, d \in Clients :
    c # d /\ sd[c] # "off" /\ sd[d] # "off" => sdAddr[c] # sdAddr[d]

\* A client is registered, and delisted, at its own sockets only.
RegisteredApart ==
  \A c \in Clients :
    /\ registry[c] <= bound /\ cliAddr[c] <= bound
    /\ \A d \in Clients \ {c} :
         sd[d] # "off" => sdAddr[d] # registry[c] /\ sdAddr[d] # cliAddr[c]

\* Nothing was sent yet through a sender that waits in seed_notifier, or to a
\* socket that is not bound.
SendersUnused ==
  /\ \A a \in notifier : a <= bound
  /\ \A a \in Addrs : a \in notifier \/ bound < a => delivered[a] = <<>>

\* The seed call that a client is about to make is the first at its socket.
FirstCall ==
  \A c \in Clients : sd[c] \in {"update", "advertise", "push", "seed"} =>
    sdAddr[c] \notin notifier /\ delivered[sdAddr[c]] = <<>>

\* The commands of a client that is not leaving.
Serving == {"ready", "chosen", "connecting", "publishing", "delete", "delete_entry",
            "delete_track", "unlink"}

\* From the update_registered_peer_id of its seeding loop on, a client is registered
\* at the socket of its seed call or at that of a connection published since; before
\* register_client it does not seed.
RegisteredSince ==
  \A c \in Clients :
    /\ sd[c] \in {"advertise", "push", "seed", "waiting"} /\ cli[c] \in Serving
         => registry[c] = IF overwritten[c] = NoAddr THEN sdAddr[c] ELSE overwritten[c]
    /\ cli[c] = "new" => sd[c] = "off"

\* A client that serves commands ended its seeding loop, if at all, before the seed
\* call; close_down reaches the loop of a client that is exiting.
ClosedUnused ==
  \A c \in Clients :
    /\ sd[c] = "closed" /\ cli[c] \in Serving => sdAddr[c] \notin notifier
    /\ sd[c] = "notified" => cli[c] = "exiting"

\* While a connection is being registered, its socket and its peer are there; a
\* process that died has no other socket to publish.
OwnAddress ==
  \A c \in Clients :
    /\ cli[c] = "publishing" => cliPeers[c] # <<>>
    /\ cli[c] \in Serving \cup {"new", "delist", "crashed"} => cliAddr[c] # Unknown

SeedInv ==
  /\ SocketsBound
  /\ SocketsUnique
  /\ RegisteredApart
  /\ SendersUnused
  /\ FirstCall
  /\ RegisteredSince
  /\ ClosedUnused
  /\ OneRequesterPerSeed
  /\ SeedCallReachable
  /\ StaleSenderOnlyAfterEnd

IInv == TypeOK /\ SeedInv /\ OwnAddress /\ NoGhostFile

-----------------------------------------------------------------------------
(* Select.  Its recursion is followed by the least number for which a      *)
(* claim fails.                                                            *)

\* A set of numbers has one whose predecessor is not in it: what induction rests on.
LEMMA LeastNumber ==
  ASSUME NEW T, T \subseteq Nat, T # {}
  PROVE  \E n \in T : n = 0 \/ n - 1 \notin T
<1>1. PICK n \in T : \A m \in T : ~(<<m, n>> \in OpToRel(<, Nat))
  BY NatLessThanWellFounded, WFMin, Zenon
<1>2. \A m \in T : ~(m < n)
  BY <1>1, Zenon DEF OpToRel
<1> QED
  BY <1>2

\* Vec::push adds one element.
LEMMA ToSetOfAppend ==
  ASSUME NEW S, NEW q \in Seq(S), NEW e \in S
  PROVE  ToSet(Append(q, e)) = ToSet(q) \cup {e}
<1> DEFINE a == Append(q, e)
<1>1. Len(q) \in Nat /\ DOMAIN q = 1 .. Len(q) /\ DOMAIN a = 1 .. Len(q) + 1
  BY LenProperties, AppendProperties
<1>2. a[Len(q) + 1] = e /\ \A i \in 1 .. Len(q) : a[i] = q[i]
  BY AppendProperties
<1>3. DOMAIN a = DOMAIN q \cup {Len(q) + 1}
  BY <1>1
<1> HIDE DEF a
<1>4. ToSet(a) = ToSet(q) \cup {e}
  BY <1>1, <1>2, <1>3 DEF ToSet
<1> QED
  BY <1>4 DEF a

\* The value of the recursive function of Select at i, from that at i - 1.
KeptAt(s, K, g, i) ==
  IF i = 0 THEN <<>>
  ELSE IF s[i] \in K THEN Append(g[i - 1], s[i]) ELSE g[i - 1]

\* There is a function with the values of Select's recursion.
LEMMA KeptExists ==
  ASSUME NEW S, NEW s \in Seq(S), NEW K
  PROVE  \E g : g = [i \in 0 .. Len(s) |-> KeptAt(s, K, g, i)]
<1> DEFINE Good(n, g) == /\ g \in [0 .. n -> Seq(S)]
                         /\ \A i \in 0 .. n : g[i] = KeptAt(s, K, g, i)
           T == {n \in 0 .. Len(s) : ~\E g : Good(n, g)}
<1>1. Len(s) \in Nat /\ \A i \in 1 .. Len(s) : s[i] \in S
  BY LenProperties, ElementOfSeq
<1>2. ASSUME NEW n \in T PROVE n # 0 /\ n - 1 \in T
  <2>1. n # 0
    <3>1. Good(0, [i \in 0 .. 0 |-> <<>>])
      BY EmptySeq DEF KeptAt
    <3> QED
      BY <3>1
  <2>2. ASSUME NEW g, Good(n - 1, g) PROVE FALSE
    <3> DEFINE h == [i \in 0 .. n |-> IF i = n THEN KeptAt(s, K, g, n) ELSE g[i]]
    <3>1. n \in 1 .. Len(s) /\ n - 1 \in 0 .. n - 1
      BY <1>1, <2>1
    <3>2. KeptAt(s, K, g, n) \in Seq(S)
      BY <1>1, <2>1, <2>2, <3>1, AppendProperties DEF KeptAt
    <3>3. h \in [0 .. n -> Seq(S)]
      BY <2>2, <3>1, <3>2
    <3>4. \A i \in 0 .. n : h[i] = KeptAt(s, K, h, i)
      <4> SUFFICES ASSUME NEW i \in 0 .. n PROVE h[i] = KeptAt(s, K, h, i)
        OBVIOUS
      <4>1. i # 0 => h[i - 1] = g[i - 1]
        BY <3>1
      <4>2. h[i] = KeptAt(s, K, g, i)
        BY <2>2, <3>1
      <4> QED
        BY <4>1, <4>2 DEF KeptAt
    <3> HIDE DEF h
    <3>5. Good(n, h)
      BY <3>3, <3>4
    <3> QED
      BY <3>5
  <2> QED
    BY <1>1, <2>1, <2>2
<1>3. T = {}
  <2>1. T \subseteq Nat
    BY <1>1
  <2> HIDE DEF T
  <2> QED
    BY <1>2, <2>1, LeastNumber
<1>4. PICK g : Good(Len(s), g)
  BY <1>1, <1>3
<1> QED
  BY <1>4

\* What Select returns is a sequence of the elements that are in K.
LEMMA SelectProperties ==
  ASSUME NEW S, NEW s \in Seq(S), NEW K
  PROVE  /\ Select(s, K) \in Seq(S \cap K)
         /\ ToSet(Select(s, K)) = ToSet(s) \cap K
<1> DEFINE g == CHOOSE g : g = [i \in 0 .. Len(s) |-> KeptAt(s, K, g, i)]
           Kept(i) == {s[j] : j \in 1 .. i} \cap K
           T == {i \in 0 .. Len(s) : ~(g[i] \in Seq(S \cap K) /\ ToSet(g[i]) = Kept(i))}
<1>1. Len(s) \in Nat /\ \A i \in 1 .. Len(s) : s[i] \in S
  BY LenProperties, ElementOfSeq
<1>2. g = [i \in 0 .. Len(s) |-> KeptAt(s, K, g, i)]
  BY KeptExists
<1>3. Select(s, K) = g[Len(s)]
  BY DEF Select, KeptAt
<1> HIDE DEF g
<1>4. ASSUME NEW i \in T PROVE i # 0 /\ i - 1 \in T
  <2>1. g[i] = KeptAt(s, K, g, i)
    BY <1>2
  <2>2. i # 0
    <3>1. CASE i = 0
      <4>1. g[i] = <<>>
        BY <2>1, <3>1 DEF KeptAt
      <4>2. g[i] \in Seq(S \cap K) /\ ToSet(g[i]) = {} /\ Kept(i) = {}
        BY <3>1, <4>1, EmptySeq DEF ToSet
      <4> QED
        BY <4>2
    <3> QED
      BY <3>1
  <2>3. ASSUME g[i - 1] \in Seq(S \cap K), ToSet(g[i - 1]) = Kept(i - 1) PROVE FALSE
    <3>1. i \in 1 .. Len(s) /\ 1 .. i = (1 .. i - 1) \cup {i}
      BY <1>1, <2>2
    <3>2. CASE s[i] \in K
      <4>1. g[i] = Append(g[i - 1], s[i])
        BY <2>1, <2>2, <3>2 DEF KeptAt
      <4>2. s[i] \in S \cap K
        BY <1>1, <3>1, <3>2
      <4>3. g[i] \in Seq(S \cap K)
        BY <2>3, <4>1, <4>2, AppendProperties
      <4>4. ToSet(g[i]) = ToSet(g[i - 1]) \cup {s[i]}
        BY <2>3, <4>1, <4>2, ToSetOfAppend
      <4>5. Kept(i) = Kept(i - 1) \cup {s[i]}
        BY <3>1, <3>2
      <4> QED
        BY <2>3, <4>3, <4>4, <4>5
    <3>3. CASE s[i] \notin K
      <4>1. g[i] = g[i - 1]
        BY <2>1, <2>2, <3>3 DEF KeptAt
      <4>2. Kept(i) = Kept(i - 1)
        BY <3>1, <3>3
      <4> QED
        BY <2>3, <4>1, <4>2
    <3> QED
      BY <3>2, <3>3
  <2> QED
    BY <1>1, <2>2, <2>3
<1>5. T = {}
  <2>1. T \subseteq Nat
    BY <1>1
  <2> HIDE DEF T
  <2> QED
    BY <1>4, <2>1, LeastNumber
<1>6. g[Len(s)] \in Seq(S \cap K) /\ ToSet(g[Len(s)]) = Kept(Len(s))
  <2>1. Len(s) \in 0 .. Len(s)
    BY <1>1
  <2>2. Len(s) \notin T
    <3> HIDE DEF T
    <3> QED
      BY <1>5
  <2> HIDE DEF Kept
  <2> QED
    BY <2>1, <2>2
<1>7. Kept(Len(s)) = ToSet(s) \cap K
  BY <1>1, LenProperties DEF ToSet
<1> QED
  BY <1>3, <1>6, <1>7
-----------------------------------------------------------------------------
(* Types.                                                                  *)

\* retain leaves a list of clients, and of an empty list an empty one.
LEMMA WithoutProperties ==
  ASSUME NEW s \in Seq(Clients), NEW c
  PROVE  /\ Without(s, c) \in Seq(Clients)
         /\ ToSet(Without(s, c)) = ToSet(s) \ {c}
         /\ s = <<>> => Without(s, c) = <<>>
<1> DEFINE K == Clients \ {c}
           w == Select(s, K)
<1>1. w \in Seq(Clients \cap K) /\ ToSet(w) = ToSet(s) \cap K
  BY SelectProperties
<1>2. w \in Seq(Clients)
  <2>1. Clients \cap K = K /\ \A i \in 1 .. Len(w) : w[i] \in Clients \cap K
    BY <1>1, ElementOfSeq
  <2> HIDE DEF w
  <2> QED
    BY <1>1, <2>1, LenProperties, IsASeq
<1>3. ToSet(s) \subseteq Clients
  BY LenProperties, ElementOfSeq DEF ToSet
<1>4. ASSUME s = <<>> PROVE w = <<>>
  <2>1. DOMAIN s = {}
    BY <1>4, LenProperties, EmptySeq
  <2>2. ToSet(s) = {}
    BY <2>1 DEF ToSet
  <2>3. ToSet(w) = {}
    BY <1>1, <2>2
  <2> HIDE DEF w
  <2>4. Len(w) \in Nat /\ DOMAIN w = 1 .. Len(w)
    BY <1>2, LenProperties
  <2>5. DOMAIN w = {}
    BY <2>3 DEF ToSet
  <2>6. Len(w) = 0
    BY <2>4, <2>5
  <2> QED
    BY <1>2, <2>6, EmptySeq
<1> QED
  BY <1>1, <1>2, <1>3, <1>4 DEF Without

\* The list of get_file_peer_list has addresses only, cut short or not.
LEMMA PeerListType ==
  ASSUME TypeOK, NEW f \in Files, NEW n \in Nat
  PROVE  /\ PeerList(f) \in Seq(Addrs)
         /\ ~(Len(PeerList(f)) < n) => SubSeq(PeerList(f), 1, n) \in Seq(Addrs)
<1> DEFINE S == Addrs \cup {NoAddr, Unknown}
           list == [i \in DOMAIN seeders[f] |-> registry[seeders[f][i]]]
           p == Select(list, Addrs)
<1>1. seeders[f] \in Seq(Clients) /\ registry \in [Clients -> S]
  BY DEF TypeOK
<1>2. list \in Seq(S)
  <2>1. Len(seeders[f]) \in Nat /\ DOMAIN seeders[f] = 1 .. Len(seeders[f])
    BY <1>1, LenProperties
  <2>2. \A i \in 1 .. Len(seeders[f]) : registry[seeders[f][i]] \in S
    BY <1>1, ElementOfSeq
  <2> HIDE DEF S
  <2> QED
    BY <2>1, <2>2, IsASeq
<1> HIDE DEF list
<1>3. p \in Seq(S \cap Addrs) /\ S \cap Addrs = Addrs
  BY <1>2, SelectProperties
<1> HIDE DEF p, S
<1>4. p \in Seq(Addrs)
  BY <1>3
<1>5. ASSUME ~(Len(p) < n) PROVE SubSeq(p, 1, n) \in Seq(Addrs)
  <2>1. Len(p) \in Nat /\ \A i \in 1 .. n : p[i] \in Addrs
    BY <1>4, <1>5, LenProperties, ElementOfSeq
  <2> QED
    BY <1>4, <1>5, <2>1, SubSeqProperties
<1> QED
  BY <1>4, <1>5 DEF PeerList, p, list

\* The server and the clients start in the types of the code.
LEMMA InitType == Init => TypeOK
<1> SUFFICES ASSUME Init PROVE TypeOK
  OBVIOUS
<1>1. (CHOOSE f \in Files : TRUE) \in Files
  BY ParametersAssumption
<1>2. \A f \in Files : seeders[f] = <<>>
  BY DEF Init
<1>3. seeders \in [Files -> Seq(Clients)] /\ delivered \in [Addrs -> Seq(Addrs)]
      /\ cliPeers \in [Clients -> Seq(Addrs)]
  BY EmptySeq DEF Init
<1>4. cliFile \in [Clients -> Files] /\ sdFile \in [Clients -> Files]
  BY <1>1 DEF Init
<1> QED
  BY <1>2, <1>3, <1>4, ParametersAssumption DEF Init, TypeOK, Addrs


\* A new socket has an address of its own.
LEMMA BindType == TypeOK /\ Bind => bound' \in Addrs /\ bound' \in 0 .. MaxAddrs
<1>1. TypeOK => bound \in 0 .. MaxAddrs
  BY DEF TypeOK
<1> QED
  BY <1>1, ParametersAssumption DEF Bind, Addrs

\* The steps of the seeding loop keep the types.
LEMMA SeedingLoopType ==
  \A c \in Clients : TypeOK /\ SocketsBound /\ SeedingLoop(c) => TypeOK'
<1> SUFFICES ASSUME NEW c \in Clients, TypeOK, SocketsBound, SeedingLoop(c) PROVE TypeOK'
  OBVIOUS
<1> USE DEF TypeOK, server, cliVars, sdVars, ghosts, SdGoto
<1>1. CASE StartSeeding(c)
  BY <1>1, BindType DEF StartSeeding
<1>2. CASE SeedUpdate(c)
  BY <1>2, ParametersAssumption DEF SeedUpdate
<1>3. CASE AdvertisePush(c)
  <2>1. Append(seeders[sdFile[c]], c) \in Seq(Clients)
    BY AppendProperties
  <2> QED
    BY <1>3, <2>1 DEF AdvertisePush
<1>4. CASE Seed(c)
  <2>1. sdAddr[c] \in Addrs
    BY <1>4, ParametersAssumption DEF Seed, SocketsBound, Addrs
  <2> QED
    BY <1>4, <2>1 DEF Seed
<1>5. CASE SeedReturns(c)
  BY <1>5, BindType DEF SeedReturns
<1>6. CASE SeedFails(c)
  <2>1. sdAddr[c] \in Addrs
    BY <1>6, ParametersAssumption DEF SeedFails, SocketsBound, Addrs
  <2> QED
    BY <1>6, <2>1, BindType DEF SeedFails
<1>7. CASE SeedingFails(c) \/ SeedCloses(c)
  BY <1>7 DEF SeedingFails, SeedCloses
<1>8. ASSUME NEW f \in Files, AdvertiseTrack(c, f) PROVE TypeOK'
  BY <1>8 DEF AdvertiseTrack
<1> QED
  BY <1>1, <1>2, <1>3, <1>4, <1>5, <1>6, <1>7, <1>8 DEF SeedingLoop

\* The steps of the command loop keep the types.
LEMMA CommandLoopType ==
  \A c \in Clients : TypeOK /\ OwnAddress /\ CommandLoop(c) => TypeOK'
<1> SUFFICES ASSUME NEW c \in Clients, TypeOK, OwnAddress, CommandLoop(c) PROVE TypeOK'
  OBVIOUS
<1> USE DEF TypeOK, server, cliVars, sdVars, ghosts, CliGoto
<1>1. CASE Register(c)
  BY <1>1 DEF Register
<1>2. CASE RequestFile(c)
  <2> DEFINE list == PeerList(cliFile[c])
             n == NumPieces[cliFile[c]]
  <2>1. n \in Nat /\ cliFile[c] \in Files
    BY ParametersAssumption
  <2>2. list \in Seq(Addrs) /\ (~(Len(list) < n) => SubSeq(list, 1, n) \in Seq(Addrs))
    BY <2>1, PeerListType
  <2>3. cliPeers' = [cliPeers EXCEPT ![c] = IF Len(list) < n THEN list ELSE SubSeq(list, 1, n)]
    BY <1>2 DEF RequestFile
  <2> HIDE DEF list, n
  <2>4. cliPeers' \in [Clients -> Seq(Addrs)]
    <3>1. cliPeers \in [Clients -> Seq(Addrs)]
      OBVIOUS
    <3> HIDE DEF TypeOK
    <3> QED
      BY <2>2, <2>3, <3>1
  <2> QED
    BY <1>2, <2>4 DEF RequestFile
<1>3. CASE OpenConnection(c)
  BY <1>3, BindType DEF OpenConnection
<1>17. CASE PublishConnection(c)
  <2>1. cliAddr[c] \in Addrs
    <3>1. cliAddr[c] # Unknown
      BY <1>17 DEF PublishConnection, OwnAddress, Serving
    <3> QED
      BY <1>17, <3>1 DEF PublishConnection
  <2>2. CASE Gone(c)
    BY <1>17, <2>1, <2>2 DEF PublishConnection
  <2>3. CASE ~Gone(c)
    <3>1. cliPeers[c] # <<>>
      BY <1>17, <2>3 DEF PublishConnection, OwnAddress, Gone
    <3>2. Head(cliPeers[c]) \in Addrs /\ Tail(cliPeers[c]) \in Seq(Addrs)
      BY <3>1, HeadTailProperties
    <3>3. requests' \subseteq Requests
      <4>1. 0 \in 0 .. MaxTries - 1
        BY ParametersAssumption
      <4> QED
        BY <1>17, <2>1, <2>3, <3>2, <4>1 DEF PublishConnection, Requests
    <3> QED
      BY <1>17, <2>1, <2>3, <3>2, <3>3 DEF PublishConnection
  <2> QED
    BY <2>2, <2>3
<1>4. CASE RequestReturns(c)
  BY <1>4 DEF RequestReturns
<1>5. CASE DeleteRetain(c)
  <2>1. \A s \in Seq(Clients) :
          Without(s, c) \in Seq(Clients) /\ (s = <<>> => Without(s, c) = <<>>)
    BY WithoutProperties
  <2> QED
    BY <1>5, <2>1 DEF DeleteRetain
<1>6. CASE DeleteEntry(c)
  BY <1>6, EmptySeq DEF DeleteEntry
<1>7. CASE DeleteTrack(c)
  BY <1>7 DEF DeleteTrack
<1>8. CASE Unlink(c)
  BY <1>8 DEF Unlink
<1>9. CASE DelistClient(c)
  BY <1>9 DEF DelistClient
<1>10. CASE DelistRegistry(c)
  BY <1>10 DEF DelistRegistry
<1>11. CASE DelistNotifier(c)
  BY <1>11 DEF DelistNotifier
<1>12. CASE NotifyWaiters(c)
  BY <1>12 DEF NotifyWaiters
<1>13. CASE Exit(c) \/ Crash(c)
  BY <1>13 DEF Exit, Crash, EndProcess
<1>14. ASSUME NEW f \in Files, ChooseFile(c, f) PROVE TypeOK'
  BY <1>14 DEF ChooseFile
<1>15. ASSUME NEW f \in Files, DeleteFile(c, f) PROVE TypeOK'
  BY <1>15 DEF DeleteFile
<1>16. ASSUME NEW f \in Files, DelistFile(c, f) PROVE TypeOK'
  <2>1. \A s \in Seq(Clients) :
          Without(s, c) \in Seq(Clients) /\ (s = <<>> => Without(s, c) = <<>>)
    BY WithoutProperties
  <2> QED
    BY <1>16, <2>1 DEF DelistFile
<1> QED
  BY <1>1, <1>2, <1>3, <1>4, <1>5, <1>6, <1>7, <1>8, <1>9, <1>10, <1>11, <1>12, <1>13,
     <1>14, <1>15, <1>16, <1>17 DEF CommandLoop

\* The attempts of send_file_request keep the types.
LEMMA SendFileRequestType ==
  \A r \in requests :
    TypeOK /\ (SendFileRequest(r) \/ SendFileRequestRetries(r)) => TypeOK'
<1> SUFFICES ASSUME NEW r \in requests, TypeOK,
                    SendFileRequest(r) \/ SendFileRequestRetries(r)
             PROVE  TypeOK'
  OBVIOUS
<1> USE DEF TypeOK, server, cliVars, sdVars, ghosts
<1>1. CASE SendFileRequest(r)
  <2>1. Append(delivered[r.to], r.from) \in Seq(Addrs)
    BY <1>1, AppendProperties DEF SendFileRequest, Requests
  <2> QED
    BY <1>1, <2>1 DEF SendFileRequest
<1>2. CASE SendFileRequestRetries(r)
  <2>1. r \in Requests
    OBVIOUS
  <2>2. r.tries + 1 # MaxTries => [r EXCEPT !.tries = @ + 1] \in Requests
    <3> HIDE DEF TypeOK
    <3> QED
      BY <2>1, ParametersAssumption DEF Requests
  <2>3. requests' \subseteq Requests
    BY <1>2, <2>1, <2>2 DEF SendFileRequestRetries
  <2> QED
    BY <1>2, <2>3 DEF SendFileRequestRetries
<1> QED
  BY <1>1, <1>2

-----------------------------------------------------------------------------
(* The seed calls.                                                         *)

SdStates == {"off", "update", "advertise", "push", "seed", "waiting", "notified", "closed"}

\* A seed call that was made, and has not been left behind.
Called == {"waiting", "notified", "closed"}

\* A call goes from waiting to closed, and a sender stays at its call.
LEMMA SendersStay ==
  /\ StaleSenderOnlyAfterEnd
  /\ \A d \in Clients : sd[d] \in Called => sd'[d] \in Called /\ sdAddr'[d] = sdAddr[d]
  /\ \A a \in notifier' \ notifier : \E d \in Clients : sdAddr'[d] = a /\ sd'[d] \in Called
  /\ failed \subseteq failed'
  => StaleSenderOnlyAfterEnd'
<1> SUFFICES ASSUME StaleSenderOnlyAfterEnd, NEW a \in notifier',
                    \A d \in Clients :
                      sd[d] \in Called => sd'[d] \in Called /\ sdAddr'[d] = sdAddr[d],
                    a \notin notifier => \E d \in Clients : sdAddr'[d] = a /\ sd'[d] \in Called,
                    failed \subseteq failed', a \notin failed'
             PROVE  \E d \in Clients : sdAddr'[d] = a /\ sd'[d] \in Called
  BY DEF StaleSenderOnlyAfterEnd, Waiting, Called
<1>1. CASE a \in notifier
  <2>1. PICK d \in Clients : sdAddr[d] = a /\ sd[d] \in Called
    BY <1>1 DEF StaleSenderOnlyAfterEnd, Waiting, Called
  <2> QED
    BY <2>1
<1> QED
  BY <1>1

\* The part of TypeOK that the steps below use.
LEMMA SeedTypes ==
  TypeOK => /\ bound \in Nat /\ bound <= MaxAddrs /\ MaxAddrs \in Nat
            /\ sd \in [Clients -> SdStates] /\ sdAddr \in [Clients -> Nat]
            /\ registry \in [Clients -> Int] /\ cliAddr \in [Clients -> Int]
            /\ notifier \subseteq Addrs /\ delivered \in [Addrs -> Seq(Addrs)]
            /\ Addrs \subseteq Nat
  BY ParametersAssumption DEF TypeOK, Addrs, NoAddr, Unknown, SdStates

\* The seeding loop binds a new socket, and leaves one behind whose sender was
\* used or dropped, or whose call broke off.
LEMMA NewSocketSeeds ==
  \A c \in Clients :
    TypeOK /\ SeedInv /\ (StartSeeding(c) \/ SeedReturns(c) \/ SeedFails(c)) => SeedInv'
<1> SUFFICES ASSUME NEW c \in Clients, TypeOK, SeedInv,
                    StartSeeding(c) \/ SeedReturns(c) \/ SeedFails(c)
             PROVE  SeedInv'
  OBVIOUS
<1>1. /\ bound' = bound + 1 /\ bound < MaxAddrs
      /\ sdAddr' = [sdAddr EXCEPT ![c] = bound + 1]
      /\ UNCHANGED <<registry, notifier, delivered, cli, cliAddr, overwritten>>
      /\ failed \subseteq failed'
  BY DEF StartSeeding, SeedReturns, SeedFails, Bind, server, cliVars, ghosts
<1>2. sd' = [sd EXCEPT ![c] = "update"] /\ cli[c] # "new"
  BY DEF StartSeeding, SeedReturns, SeedFails, SdGoto, Gone, SeedInv, RegisteredSince
<1>3. sd[c] = "off" \/ sdAddr[c] \notin notifier \/ sdAddr[c] \in failed'
  <2>1. CASE StartSeeding(c)
    BY <2>1 DEF StartSeeding, SeedInv, ClosedUnused, Serving
  <2>2. CASE SeedReturns(c)
    BY <2>2, SeedTypes DEF SeedReturns, SeedInv, SendersUnused, SocketsBound, Addrs
  <2>3. CASE SeedFails(c)
    BY <2>3 DEF SeedFails
  <2> QED
    BY <2>1, <2>2, <2>3
<1>4. bound + 1 \in Addrs /\ bound + 1 \notin notifier
  BY <1>1, SeedTypes DEF Addrs, SeedInv, SendersUnused
<1> USE <1>1, <1>2, SeedTypes DEF SeedInv
<1>5. SocketsBound'
  BY DEF SocketsBound
<1>6. SocketsUnique'
  BY DEF SocketsUnique, SocketsBound
<1>7. RegisteredApart'
  BY DEF RegisteredApart
<1>8. SendersUnused'
  BY DEF SendersUnused
<1>9. FirstCall'
  BY <1>4 DEF FirstCall, SendersUnused
<1>10. RegisteredSince' /\ ClosedUnused'
  BY DEF RegisteredSince, ClosedUnused
<1>11. OneRequesterPerSeed' /\ SeedCallReachable'
  BY DEF OneRequesterPerSeed, SeedCallReachable
<1>12. StaleSenderOnlyAfterEnd'
  <2> SUFFICES ASSUME NEW a \in notifier, a \notin failed'
               PROVE  \E d \in Clients :
                        sdAddr'[d] = a /\ sd'[d] \in {"waiting", "notified", "closed"}
    BY DEF StaleSenderOnlyAfterEnd, Waiting
  <2>1. PICK d \in Clients : sdAddr[d] = a /\ sd[d] \in {"waiting", "notified", "closed"}
    BY DEF StaleSenderOnlyAfterEnd, Waiting
  <2>2. d # c
    BY <1>3, <2>1
  <2> QED
    BY <2>1, <2>2
<1> QED
  BY <1>5, <1>6, <1>7, <1>8, <1>9, <1>10, <1>11, <1>12

\* The other steps of the seeding loop.
LEMMA SeedingLoopSeeds ==
  \A c \in Clients : TypeOK /\ SeedInv /\ SeedingLoop(c) => SeedInv'
<1> SUFFICES ASSUME NEW c \in Clients, TypeOK, SeedInv, SeedingLoop(c) PROVE SeedInv'
  OBVIOUS
<1> USE SeedTypes DEF SeedInv, server, cliVars, sdVars, ghosts, SdGoto, Gone, SdStates
<1>1. CASE SeedUpdate(c)
  <2>1. /\ sd[c] = "update" /\ sd'[c] \in {"advertise", "seed", "closed"}
        /\ \A d \in Clients \ {c} : sd'[d] = sd[d] /\ registry'[d] = registry[d]
        /\ registry'[c] = sdAddr[c] /\ overwritten'[c] = NoAddr
        /\ \A d \in Clients \ {c} : overwritten'[d] = overwritten[d]
        /\ UNCHANGED <<notifier, delivered, bound, cli, cliAddr, sdAddr, failed>>
    BY <1>1 DEF SeedUpdate, TypeOK
  <2>2. SocketsBound' /\ SocketsUnique' /\ SendersUnused' /\ FirstCall'
    BY <2>1 DEF SocketsBound, SocketsUnique, SendersUnused, FirstCall
  <2>3. RegisteredApart'
    <3>1. sdAddr[c] <= bound /\ \A d \in Clients \ {c} : sd[d] # "off" => sdAddr[d] # sdAddr[c]
      BY <2>1 DEF SocketsBound, SocketsUnique
    <3> QED
      BY <2>1, <3>1 DEF RegisteredApart
  <2>4. RegisteredSince' /\ ClosedUnused'
    BY <2>1 DEF RegisteredSince, ClosedUnused, FirstCall
  <2>5. OneRequesterPerSeed' /\ SeedCallReachable'
    BY <2>1 DEF OneRequesterPerSeed, SeedCallReachable
  <2>6. StaleSenderOnlyAfterEnd'
    <3>1. \A d \in Clients : sd[d] \in Called => sd'[d] \in Called /\ sdAddr'[d] = sdAddr[d]
      BY <2>1 DEF Called
    <3>2. \A a \in notifier' \ notifier : \E d \in Clients : sdAddr'[d] = a /\ sd'[d] \in Called
      BY <2>1 DEF Called
    <3> QED
      BY <2>1, <3>1, <3>2, SendersStay
  <2> QED
    BY <2>2, <2>3, <2>4, <2>5, <2>6
<1>2. CASE AdvertisePush(c) \/ \E f \in Files : AdvertiseTrack(c, f)
  <2>1. /\ sd[c] \in {"advertise", "push"} /\ sd'[c] \in {"advertise", "push", "seed", "closed"}
        /\ \A d \in Clients \ {c} : sd'[d] = sd[d]
        /\ UNCHANGED <<registry, notifier, delivered, bound, cli, cliAddr, sdAddr, ghosts>>
    BY <1>2 DEF AdvertisePush, AdvertiseTrack
  <2>2. SocketsBound' /\ SocketsUnique' /\ RegisteredApart' /\ SendersUnused' /\ FirstCall'
    BY <2>1 DEF SocketsBound, SocketsUnique, RegisteredApart, SendersUnused, FirstCall
  <2>3. RegisteredSince' /\ ClosedUnused' /\ OneRequesterPerSeed' /\ SeedCallReachable'
    <3>1. sdAddr[c] \notin notifier
      BY <2>1 DEF FirstCall
    <3>2. ClosedUnused'
      BY <2>1, <3>1 DEF ClosedUnused
    <3>3. RegisteredSince'
      BY <2>1 DEF RegisteredSince, Serving
    <3> QED
      BY <2>1, <3>2, <3>3 DEF OneRequesterPerSeed, SeedCallReachable
  <2>4. StaleSenderOnlyAfterEnd'
    <3>1. \A d \in Clients : sd[d] \in Called => sd'[d] \in Called /\ sdAddr'[d] = sdAddr[d]
      BY <2>1 DEF Called
    <3>2. \A a \in notifier' \ notifier : \E d \in Clients : sdAddr'[d] = a /\ sd'[d] \in Called
      BY <2>1 DEF Called
    <3> QED
      BY <2>1, <3>1, <3>2, SendersStay
  <2> QED
    BY <2>2, <2>3, <2>4
<1>3. CASE Seed(c)
  <2>1. /\ sd[c] = "seed" /\ sd'[c] \in {"waiting", "closed"}
        /\ \A d \in Clients \ {c} : sd'[d] = sd[d]
        /\ notifier' = notifier \cup {sdAddr[c]}
        /\ UNCHANGED <<registry, delivered, bound, cli, cliAddr, sdAddr, ghosts>>
    BY <1>3 DEF Seed
  <2>2. SocketsBound' /\ SocketsUnique' /\ RegisteredApart' /\ RegisteredSince'
    BY <2>1 DEF SocketsBound, SocketsUnique, RegisteredApart, RegisteredSince
  <2>7. ClosedUnused'
    <3>1. sd'[c] = "closed" => cli[c] \notin Serving
      BY <1>3, <2>1 DEF Seed, Serving
    <3> QED
      BY <2>1, <3>1 DEF ClosedUnused, SocketsUnique
  <2>3. SendersUnused'
    <3>1. sdAddr[c] <= bound /\ delivered[sdAddr[c]] = <<>>
      BY <2>1 DEF SocketsBound, FirstCall
    <3> QED
      BY <2>1, <3>1 DEF SendersUnused
  <2>4. FirstCall'
    <3>1. \A d \in Clients \ {c} : sd[d] # "off" => sdAddr[d] # sdAddr[c]
      BY <2>1 DEF SocketsUnique
    <3> QED
      BY <2>1, <3>1 DEF FirstCall
  <2>5. OneRequesterPerSeed' /\ SeedCallReachable'
    BY <2>1 DEF OneRequesterPerSeed, SeedCallReachable
  <2>6. StaleSenderOnlyAfterEnd'
    <3>1. \A d \in Clients : sd[d] \in Called => sd'[d] \in Called /\ sdAddr'[d] = sdAddr[d]
      BY <2>1 DEF Called
    <3>2. \A a \in notifier' \ notifier : \E d \in Clients : sdAddr'[d] = a /\ sd'[d] \in Called
      BY <2>1 DEF Called
    <3> QED
      BY <2>1, <3>1, <3>2, SendersStay
  <2> QED
    BY <2>2, <2>3, <2>4, <2>5, <2>6, <2>7
<1>4. CASE SeedingFails(c) \/ SeedCloses(c)
  <2>1. /\ sd[c] \in {"update", "advertise", "seed", "notified"} /\ sd'[c] = "closed"
        /\ \A d \in Clients \ {c} : sd'[d] = sd[d]
        /\ UNCHANGED <<registry, notifier, delivered, bound, cli, cliAddr, sdAddr, ghosts>>
    BY <1>4 DEF SeedingFails, SeedCloses
  <2>2. SocketsBound' /\ SocketsUnique' /\ RegisteredApart' /\ SendersUnused' /\ FirstCall'
    BY <2>1 DEF SocketsBound, SocketsUnique, RegisteredApart, SendersUnused, FirstCall
  <2>3. RegisteredSince' /\ ClosedUnused' /\ OneRequesterPerSeed' /\ SeedCallReachable'
    <3>1. sd[c] = "notified" => cli[c] = "exiting"
      BY DEF ClosedUnused
    <3>2. sd[c] # "notified" => sdAddr[c] \notin notifier
      BY <2>1 DEF FirstCall
    <3>3. ClosedUnused'
      BY <2>1, <3>1, <3>2 DEF ClosedUnused, Serving
    <3>4. RegisteredSince'
      BY <2>1 DEF RegisteredSince
    <3> QED
      BY <2>1, <3>3, <3>4 DEF OneRequesterPerSeed, SeedCallReachable
  <2>4. StaleSenderOnlyAfterEnd'
    <3>1. \A d \in Clients : sd[d] \in Called => sd'[d] \in Called /\ sdAddr'[d] = sdAddr[d]
      BY <2>1 DEF Called
    <3>2. \A a \in notifier' \ notifier : \E d \in Clients : sdAddr'[d] = a /\ sd'[d] \in Called
      BY <2>1 DEF Called
    <3> QED
      BY <2>1, <3>1, <3>2, SendersStay
  <2> QED
    BY <2>2, <2>3, <2>4
<1>5. CASE StartSeeding(c) \/ SeedReturns(c) \/ SeedFails(c)
  BY <1>5, NewSocketSeeds
<1> QED
  BY <1>1, <1>2, <1>3, <1>4, <1>5 DEF SeedingLoop

\* A command that leaves the registry and the seed calls alone.
LEMMA OtherCommandSeeds ==
  \A c \in Clients :
    /\ TypeOK /\ SeedInv
    /\ cli[c] \in Serving /\ cli'[c] \in Serving \cup {"delist"}
    /\ \A d \in Clients \ {c} : cli'[d] = cli[d]
    /\ UNCHANGED <<registry, notifier, delivered, bound, cliAddr, sd, sdAddr, ghosts>>
    => SeedInv'
<1> USE DEF ghosts
<1> SUFFICES ASSUME NEW c \in Clients, TypeOK, SeedInv,
                    cli[c] \in Serving, cli'[c] \in Serving \cup {"delist"},
                    \A d \in Clients \ {c} : cli'[d] = cli[d],
                    UNCHANGED <<registry, notifier, delivered, bound, cliAddr, sd, sdAddr, ghosts>>
             PROVE  SeedInv'
  OBVIOUS
<1>1. SocketsBound' /\ SocketsUnique' /\ RegisteredApart' /\ SendersUnused' /\ FirstCall'
  BY DEF SeedInv, SocketsBound, SocketsUnique, RegisteredApart, SendersUnused, FirstCall
<1>2. RegisteredSince' /\ ClosedUnused' /\ OneRequesterPerSeed' /\ SeedCallReachable'
  BY DEF SeedInv, RegisteredSince, ClosedUnused, OneRequesterPerSeed, SeedCallReachable, Serving
<1>3. StaleSenderOnlyAfterEnd'
  BY DEF SeedInv, StaleSenderOnlyAfterEnd, Waiting
<1> QED
  BY <1>1, <1>2, <1>3 DEF SeedInv

\* The commands that register, open a connection, delist or end a client.
LEMMA CommandLoopSeeds ==
  \A c \in Clients : TypeOK /\ SeedInv /\ CommandLoop(c) => SeedInv'
<1> SUFFICES ASSUME NEW c \in Clients, TypeOK, SeedInv, CommandLoop(c) PROVE SeedInv'
  OBVIOUS
<1> DEFINE cliStates == {"new", "ready", "chosen", "connecting", "publishing",
                         "delete", "delete_entry", "delete_track", "unlink", "delist",
                         "delist_notifier", "delist_files", "exiting", "exited", "crashed"}
<1>0. cli \in [Clients -> cliStates]
  BY DEF TypeOK
<1> USE SeedTypes DEF SeedInv, server, cliVars, sdVars, ghosts, CliGoto
<1>1. CASE \/ RequestFile(c) \/ RequestReturns(c) \/ DeleteRetain(c) \/ DeleteEntry(c)
           \/ DeleteTrack(c) \/ Unlink(c) \/ DelistClient(c)
           \/ \E f \in Files : ChooseFile(c, f) \/ DeleteFile(c, f)
  <2>1. /\ cli[c] \in Serving /\ cli'[c] \in Serving \cup {"delist"}
        /\ \A d \in Clients \ {c} : cli'[d] = cli[d]
        /\ UNCHANGED <<registry, notifier, delivered, bound, cliAddr, sd, sdAddr, ghosts>>
    BY <1>0, <1>1 DEF RequestFile, RequestReturns, DeleteRetain, DeleteEntry, DeleteTrack,
                 Unlink, DelistClient, ChooseFile, DeleteFile, Serving
  <2> QED
    BY <2>1, OtherCommandSeeds
<1>2. CASE Register(c)
  <2>1. /\ sd[c] = "off" /\ registry'[c] = 0 /\ cli'[c] = "ready"
        /\ \A d \in Clients \ {c} : cli'[d] = cli[d] /\ registry'[d] = registry[d]
        /\ UNCHANGED <<notifier, delivered, bound, cliAddr, sd, sdAddr, ghosts>>
    BY <1>0, <1>2 DEF Register, RegisteredSince, NoAddr
  <2>2. SocketsBound' /\ SocketsUnique' /\ SendersUnused' /\ FirstCall'
    BY <2>1 DEF SocketsBound, SocketsUnique, SendersUnused, FirstCall
  <2>3. RegisteredApart'
    BY <2>1 DEF RegisteredApart, SocketsBound
  <2>4. RegisteredSince' /\ ClosedUnused' /\ OneRequesterPerSeed' /\ SeedCallReachable'
    BY <2>1 DEF RegisteredSince, ClosedUnused, OneRequesterPerSeed, SeedCallReachable
  <2>5. StaleSenderOnlyAfterEnd'
    BY <2>1 DEF StaleSenderOnlyAfterEnd, Waiting
  <2> QED
    BY <2>2, <2>3, <2>4, <2>5
<1>3. CASE OpenConnection(c)
  <2>1. /\ bound' = bound + 1 /\ cliAddr'[c] = bound + 1
        /\ cli[c] \in Serving /\ cli'[c] \in Serving
        /\ \A d \in Clients \ {c} : cliAddr'[d] = cliAddr[d] /\ cli'[d] = cli[d]
        /\ UNCHANGED <<registry, notifier, delivered, sd, sdAddr, ghosts>>
    BY <1>0, <1>3 DEF OpenConnection, Bind, Serving
  <2>2. SocketsBound' /\ SocketsUnique' /\ SendersUnused' /\ FirstCall'
    BY <2>1 DEF SocketsBound, SocketsUnique, SendersUnused, FirstCall
  <2>3. RegisteredApart'
    BY <2>1 DEF RegisteredApart, SocketsBound
  <2>4. RegisteredSince' /\ ClosedUnused' /\ OneRequesterPerSeed' /\ SeedCallReachable'
    BY <2>1 DEF RegisteredSince, ClosedUnused, OneRequesterPerSeed, SeedCallReachable, Serving
  <2>5. StaleSenderOnlyAfterEnd'
    BY <2>1 DEF StaleSenderOnlyAfterEnd, Waiting
  <2> QED
    BY <2>2, <2>3, <2>4, <2>5
<1>8. CASE PublishConnection(c)
  <2>1. /\ registry'[c] = cliAddr[c] /\ overwritten'[c] = cliAddr[c] /\ cliAddr[c] # NoAddr
        /\ cliAddr'[c] = NoAddr
        /\ cli'[c] = cli[c] \/ (cli[c] = "publishing" /\ cli'[c] = "connecting")
        /\ cli[c] \in {"publishing", "crashed"}
        /\ \A d \in Clients \ {c} :
             /\ registry'[d] = registry[d] /\ cliAddr'[d] = cliAddr[d] /\ cli'[d] = cli[d]
             /\ overwritten'[d] = overwritten[d]
        /\ UNCHANGED <<bound, notifier, delivered, sd, sdAddr, failed>>
    <3>1. /\ overwritten \in [Clients -> Addrs \cup {NoAddr}]
          /\ registry \in [Clients -> Int] /\ cliAddr \in [Clients -> Int]
      BY DEF TypeOK
    <3>2. \/ cli' = cli
          \/ cli[c] = "publishing" /\ cli' = [cli EXCEPT ![c] = "connecting"]
      BY <1>0, <1>8 DEF PublishConnection, Gone
    <3>3. /\ registry' = [registry EXCEPT ![c] = cliAddr[c]]
          /\ overwritten' = [overwritten EXCEPT ![c] = cliAddr[c]]
          /\ cliAddr' = [cliAddr EXCEPT ![c] = NoAddr]
          /\ cliAddr[c] # NoAddr /\ cli[c] \in {"publishing", "crashed"}
          /\ UNCHANGED <<bound, notifier, delivered, sd, sdAddr, failed>>
      BY <1>8 DEF PublishConnection
    <3>4. /\ registry'[c] = cliAddr[c] /\ overwritten'[c] = cliAddr[c] /\ cliAddr'[c] = NoAddr
          /\ \A d \in Clients \ {c} :
               /\ registry'[d] = registry[d] /\ cliAddr'[d] = cliAddr[d]
               /\ overwritten'[d] = overwritten[d]
      BY <3>1, <3>3
    <3>5. /\ cli'[c] = cli[c] \/ (cli[c] = "publishing" /\ cli'[c] = "connecting")
          /\ \A d \in Clients \ {c} : cli'[d] = cli[d]
      BY <1>0, <3>2
    <3> QED
      BY <3>3, <3>4, <3>5
  <2>2. SocketsBound' /\ SocketsUnique' /\ SendersUnused' /\ FirstCall'
    BY <2>1 DEF SocketsBound, SocketsUnique, SendersUnused, FirstCall
  <2>3. RegisteredApart'
    BY <2>1 DEF RegisteredApart, SocketsBound, NoAddr
  <2>4. RegisteredSince' /\ ClosedUnused' /\ OneRequesterPerSeed' /\ SeedCallReachable'
    <3>1. ClosedUnused'
      BY <2>1 DEF ClosedUnused, Serving
    <3>2. RegisteredSince'
      BY <2>1 DEF RegisteredSince, Serving
    <3> QED
      BY <2>1, <3>1, <3>2 DEF OneRequesterPerSeed, SeedCallReachable
  <2>5. StaleSenderOnlyAfterEnd'
    BY <2>1 DEF StaleSenderOnlyAfterEnd, Waiting
  <2> QED
    BY <2>2, <2>3, <2>4, <2>5
<1>4. CASE DelistRegistry(c)
  <2>1. /\ cli[c] = "delist" /\ cli'[c] = "delist_notifier"
        /\ registry'[c] = -1 /\ cliAddr'[c] = registry[c]
        /\ \A d \in Clients \ {c} :
             cli'[d] = cli[d] /\ registry'[d] = registry[d] /\ cliAddr'[d] = cliAddr[d]
        /\ UNCHANGED <<notifier, delivered, bound, sd, sdAddr, ghosts>>
    BY <1>0, <1>4 DEF DelistRegistry, Unknown
  <2>2. SocketsBound' /\ SocketsUnique' /\ SendersUnused' /\ FirstCall'
    BY <2>1 DEF SocketsBound, SocketsUnique, SendersUnused, FirstCall
  <2>3. RegisteredApart'
    BY <2>1 DEF RegisteredApart, SocketsBound
  <2>4. RegisteredSince' /\ ClosedUnused' /\ OneRequesterPerSeed' /\ SeedCallReachable'
    BY <2>1 DEF RegisteredSince, ClosedUnused, OneRequesterPerSeed, SeedCallReachable, Serving
  <2>5. StaleSenderOnlyAfterEnd'
    BY <2>1 DEF StaleSenderOnlyAfterEnd, Waiting
  <2> QED
    BY <2>2, <2>3, <2>4, <2>5
<1>5. CASE DelistNotifier(c)
  <2>1. /\ cli[c] = "delist_notifier" /\ cli'[c] = "delist_files"
        /\ notifier' = notifier \ {cliAddr[c]}
        /\ \A d \in Clients \ {c} : cli'[d] = cli[d]
        /\ UNCHANGED <<registry, delivered, bound, cliAddr, sd, sdAddr, ghosts>>
    BY <1>0, <1>5 DEF DelistNotifier
  <2>2. SocketsBound' /\ SocketsUnique' /\ RegisteredApart' /\ SendersUnused' /\ FirstCall'
    BY <2>1 DEF SocketsBound, SocketsUnique, RegisteredApart, SendersUnused, FirstCall
  <2>3. RegisteredSince' /\ ClosedUnused' /\ OneRequesterPerSeed'
    BY <2>1 DEF RegisteredSince, ClosedUnused, OneRequesterPerSeed, Serving
  <2>4. SeedCallReachable'
    BY <2>1 DEF SeedCallReachable, RegisteredApart
  <2>5. StaleSenderOnlyAfterEnd'
    BY <2>1 DEF StaleSenderOnlyAfterEnd, Waiting
  <2> QED
    BY <2>2, <2>3, <2>4, <2>5
<1>6. CASE NotifyWaiters(c) \/ Exit(c) \/ Crash(c)
  <2>1. /\ cli'[c] \in {"exiting", "exited", "crashed"}
        /\ \/ sd'[c] = sd[c] /\ (sd[c] = "waiting" => cli'[c] = "exiting")
           \/ sd[c] \in {"waiting", "notified"} /\ sd'[c] \in {"notified", "closed"}
        /\ sd'[c] = "notified" => cli'[c] = "exiting"
        /\ \A d \in Clients \ {c} : cli'[d] = cli[d] /\ sd'[d] = sd[d]
        /\ \A d \in Clients : cliAddr'[d] \in {cliAddr[d], NoAddr}
        /\ UNCHANGED <<registry, notifier, delivered, bound, sdAddr, ghosts>>
    BY <1>0, <1>6 DEF NotifyWaiters, Exit, Crash, EndProcess
  <2>2. SocketsBound' /\ SocketsUnique' /\ SendersUnused' /\ FirstCall'
    BY <2>1 DEF SocketsBound, SocketsUnique, SendersUnused, FirstCall
  <2>5. RegisteredApart'
    BY <2>1 DEF RegisteredApart, SocketsBound, NoAddr
  <2>3. RegisteredSince' /\ ClosedUnused' /\ OneRequesterPerSeed' /\ SeedCallReachable'
    BY <2>1 DEF RegisteredSince, ClosedUnused, OneRequesterPerSeed, SeedCallReachable, Serving
  <2>4. StaleSenderOnlyAfterEnd'
    <3>1. \A d \in Clients : sd[d] \in Called => sd'[d] \in Called /\ sdAddr'[d] = sdAddr[d]
      BY <2>1 DEF Called
    <3> QED
      BY <2>1, <3>1, SendersStay
  <2> QED
    BY <2>2, <2>3, <2>4, <2>5
<1>7. CASE \E f \in Files : DelistFile(c, f)
  <2>1. UNCHANGED <<registry, notifier, delivered, bound, cli, cliAddr, sd, sdAddr, ghosts>>
    BY <1>7 DEF DelistFile
  <2> QED
    BY <2>1 DEF SocketsBound, SocketsUnique, RegisteredApart, SendersUnused, FirstCall,
                RegisteredSince, ClosedUnused, OneRequesterPerSeed, SeedCallReachable,
                StaleSenderOnlyAfterEnd, Waiting
<1> QED
  BY <1>1, <1>2, <1>3, <1>4, <1>5, <1>6, <1>7, <1>8 DEF CommandLoop

\* Only a client that opens a connection has a socket to publish.
LEMMA StepOwnAddress == TypeOK /\ OwnAddress /\ [Next]_vars => OwnAddress'
<1> SUFFICES ASSUME TypeOK, OwnAddress, [Next]_vars PROVE OwnAddress'
  OBVIOUS
<1> USE DEF server, cliVars, sdVars, ghosts, CliGoto
<1>0. /\ bound \in Nat /\ \A c \in Clients : cliPeers[c] \in Seq(Addrs)
      /\ cliAddr \in [Clients -> Int] /\ Unknown = -1 /\ NoAddr = 0
      /\ cliPeers \in [Clients -> Seq(Addrs)] /\ DOMAIN cli = Clients
  BY ParametersAssumption DEF TypeOK, Addrs, NoAddr, Unknown
<1>1. ASSUME NEW c \in Clients, SeedingLoop(c) PROVE OwnAddress'
  <2>1. UNCHANGED <<cli, cliAddr, cliPeers>>
    BY <1>1 DEF SeedingLoop, StartSeeding, SeedUpdate, AdvertiseTrack, AdvertisePush, Seed,
                SeedReturns, SeedFails, SeedingFails, SeedCloses
  <2> QED
    BY <2>1 DEF OwnAddress
<1>2. ASSUME NEW c \in Clients, CommandLoop(c) PROVE OwnAddress'
  <2> USE <1>0 DEF Serving, OwnAddress
  <2>1. CASE OpenConnection(c)
    BY <2>1 DEF OpenConnection, Bind
  <2>2. CASE PublishConnection(c)
    BY <2>2 DEF PublishConnection, Gone
  <2>3. CASE Exit(c) \/ Crash(c)
    BY <2>3 DEF Exit, Crash, EndProcess
  <2>4. CASE DelistRegistry(c) \/ DelistNotifier(c) \/ NotifyWaiters(c)
             \/ \E f \in Files : DelistFile(c, f)
    BY <2>4 DEF DelistRegistry, DelistNotifier, NotifyWaiters, DelistFile
  <2>5. CASE \/ Register(c) \/ RequestFile(c) \/ RequestReturns(c) \/ DeleteRetain(c)
             \/ DeleteEntry(c) \/ DeleteTrack(c) \/ Unlink(c) \/ DelistClient(c)
             \/ \E f \in Files : ChooseFile(c, f) \/ DeleteFile(c, f)
    <3>1. /\ cli[c] \in Serving \cup {"new"} /\ cli'[c] # "publishing"
          /\ \A d \in Clients \ {c} : cli'[d] = cli[d] /\ cliPeers'[d] = cliPeers[d]
          /\ UNCHANGED cliAddr
      BY <2>5 DEF Register, RequestFile, RequestReturns, DeleteRetain, DeleteEntry,
                  DeleteTrack, Unlink, DelistClient, ChooseFile, DeleteFile
    <3> QED
      BY <3>1
  <2> QED
    BY <1>2, <2>1, <2>2, <2>3, <2>4, <2>5 DEF CommandLoop
<1>3. ASSUME NEW r \in requests, SendFileRequest(r) \/ SendFileRequestRetries(r)
      PROVE  OwnAddress'
  BY <1>3 DEF SendFileRequest, SendFileRequestRetries, OwnAddress
<1>4. CASE UNCHANGED vars
  BY <1>4 DEF vars, OwnAddress
<1> QED
  BY <1>1, <1>2, <1>3, <1>4 DEF Next

\* send_file_request uses a sender once, for a call that nothing was sent to.
LEMMA SendFileRequestSeeds ==
  \A r \in requests :
    TypeOK /\ SeedInv /\ (SendFileRequest(r) \/ SendFileRequestRetries(r)) => SeedInv'
<1> SUFFICES ASSUME NEW r \in requests, TypeOK, SeedInv,
                    SendFileRequest(r) \/ SendFileRequestRetries(r)
             PROVE  SeedInv'
  OBVIOUS
<1> USE SeedTypes DEF SeedInv, server, cliVars, sdVars, ghosts
<1>1. CASE SendFileRequest(r)
  <2>1. /\ r.to \in notifier /\ notifier' = notifier \ {r.to}
        /\ delivered'[r.to] = IF Waiting(r.to) THEN Append(delivered[r.to], r.from)
                                               ELSE delivered[r.to]
        /\ \A a \in Addrs \ {r.to} : delivered'[a] = delivered[a]
        /\ UNCHANGED <<registry, bound, cli, cliAddr, sd, sdAddr, ghosts>>
    BY <1>1 DEF SendFileRequest
  <2>2. delivered[r.to] = <<>> /\ r.to <= bound /\ r.to \in Addrs /\ r.from \in Addrs
    BY <2>1 DEF SendersUnused, TypeOK, Requests
  <2>3. Append(delivered[r.to], r.from) # <<>> /\ Len(Append(delivered[r.to], r.from)) = 1
    BY <2>2, AppendProperties, EmptySeq
  <2>4. SocketsBound' /\ SocketsUnique' /\ RegisteredApart' /\ RegisteredSince' /\ ClosedUnused'
    BY <2>1 DEF SocketsBound, SocketsUnique, RegisteredApart, RegisteredSince, ClosedUnused
  <2>5. SendersUnused'
    BY <2>1, <2>2 DEF SendersUnused
  <2>6. FirstCall'
    <3>1. \A c \in Clients : sd[c] # "off" => sdAddr[c] \in Addrs
      BY DEF SocketsBound, Addrs
    <3> QED
      BY <2>1, <3>1 DEF FirstCall
  <2>7. OneRequesterPerSeed'
    <3>1. Len(delivered'[r.to]) <= 1
      BY <2>1, <2>2, <2>3, EmptySeq
    <3>2. \A a \in Addrs \ {r.to} : Len(delivered'[a]) <= 1
      BY <2>1 DEF OneRequesterPerSeed
    <3> QED
      BY <3>1, <3>2 DEF OneRequesterPerSeed
  <2>8. SeedCallReachable'
    <3>1. \A c \in Clients : sd[c] = "waiting" => sdAddr[c] \in Addrs
      BY DEF SocketsBound, Addrs
    <3> QED
      BY <2>1, <2>3, <3>1 DEF SeedCallReachable, Waiting
  <2>9. StaleSenderOnlyAfterEnd'
    BY <2>1 DEF StaleSenderOnlyAfterEnd, Waiting
  <2> QED
    BY <2>4, <2>5, <2>6, <2>7, <2>8, <2>9
<1>2. CASE SendFileRequestRetries(r)
  <2>1. UNCHANGED <<registry, notifier, delivered, bound, cli, cliAddr, sd, sdAddr, ghosts>>
    BY <1>2 DEF SendFileRequestRetries
  <2> QED
    BY <2>1 DEF SocketsBound, SocketsUnique, RegisteredApart, SendersUnused, FirstCall,
                RegisteredSince, ClosedUnused, OneRequesterPerSeed, SeedCallReachable,
                StaleSenderOnlyAfterEnd, Waiting
<1> QED
  BY <1>1, <1>2

-----------------------------------------------------------------------------
(* The lists of seeders.                                                   *)

\* advertise lists a file first and its seeder next; the seeder it adds is the
\* one that the list has for certain.
LEMMA SeedingLoopGhosts ==
  \A c \in Clients : TypeOK /\ NoGhostFile /\ SeedingLoop(c) => NoGhostFile'
<1> SUFFICES ASSUME NEW c \in Clients, TypeOK, NoGhostFile, SeedingLoop(c),
                    NEW f \in tracker'
             PROVE  \/ seeders'[f] # <<>>
                    \/ \E d \in Clients : sd'[d] = "push" /\ sdFile'[d] = f
                    \/ \E d \in Clients : /\ cli'[d] \in {"delete_entry", "delete_track"}
                                          /\ cliFile'[d] = f
  BY DEF NoGhostFile, Advertising, Deleting
<1>1. /\ sd \in [Clients -> SdStates] /\ sdFile \in [Clients -> Files]
      /\ seeders \in [Files -> Seq(Clients)]
  BY DEF TypeOK, SdStates
<1> USE DEF server, cliVars, sdVars, ghosts, SdGoto
<1>2. CASE AdvertisePush(c)
  <2>1. CASE sdFile[c] = f
    BY <1>1, <1>2, <2>1, AppendProperties, EmptySeq DEF AdvertisePush
  <2>2. CASE sdFile[c] # f
    <3>1. /\ f \in tracker /\ seeders'[f] = seeders[f]
          /\ \A d \in Clients \ {c} : sd'[d] = sd[d]
          /\ UNCHANGED <<cli, cliFile, sdFile>>
      BY <1>1, <1>2, <2>2 DEF AdvertisePush
    <3> QED
      BY <2>2, <3>1 DEF NoGhostFile, Advertising, Deleting
  <2> QED
    BY <2>1, <2>2
<1>3. ASSUME NEW g \in Files, AdvertiseTrack(c, g)
      PROVE  \/ seeders'[f] # <<>>
             \/ \E d \in Clients : sd'[d] = "push" /\ sdFile'[d] = f
             \/ \E d \in Clients : /\ cli'[d] \in {"delete_entry", "delete_track"}
                                   /\ cliFile'[d] = f
  BY <1>1, <1>3 DEF AdvertiseTrack, NoGhostFile, Advertising, Deleting
<1>4. CASE \/ StartSeeding(c) \/ SeedUpdate(c) \/ Seed(c) \/ SeedReturns(c) \/ SeedFails(c)
           \/ SeedingFails(c) \/ SeedCloses(c)
  <2>1. /\ sd[c] # "push" /\ \A d \in Clients \ {c} : sd'[d] = sd[d]
        /\ UNCHANGED <<tracker, seeders, cli, cliFile, sdFile>>
    BY <1>1, <1>4 DEF StartSeeding, SeedUpdate, Seed, SeedReturns, SeedFails, SeedingFails,
                      SeedCloses
  <2> QED
    BY <2>1 DEF NoGhostFile, Advertising, Deleting
<1> QED
  BY <1>2, <1>3, <1>4 DEF SeedingLoop

\* delete_file and delist_client take the file from file_tracker once its list
\* is empty.
LEMMA CommandLoopGhosts ==
  \A c \in Clients : TypeOK /\ NoGhostFile /\ CommandLoop(c) => NoGhostFile'
<1> SUFFICES ASSUME NEW c \in Clients, TypeOK, NoGhostFile, CommandLoop(c),
                    NEW f \in tracker'
             PROVE  \/ seeders'[f] # <<>>
                    \/ \E d \in Clients : sd'[d] = "push" /\ sdFile'[d] = f
                    \/ \E d \in Clients : /\ cli'[d] \in {"delete_entry", "delete_track"}
                                          /\ cliFile'[d] = f
  BY DEF NoGhostFile, Advertising, Deleting
<1> DEFINE cliStates == {"new", "ready", "chosen", "connecting", "publishing",
                         "delete", "delete_entry", "delete_track", "unlink", "delist",
                         "delist_notifier", "delist_files", "exiting", "exited", "crashed"}
<1>1. /\ cli \in [Clients -> cliStates] /\ cliFile \in [Clients -> Files]
      /\ sd \in [Clients -> SdStates]
      /\ seeders \in [Files -> Seq(Clients)]
      /\ \A g \in Files \ entries : seeders[g] = <<>>
      /\ tracker \subseteq Files
  BY DEF TypeOK, SdStates
<1> USE DEF server, cliVars, sdVars, ghosts, CliGoto
<1>2. CASE DeleteRetain(c)
  <2>1. CASE cliFile[c] = f
    <3>1. f \notin entries => seeders[f] = <<>>
      BY <1>1, <2>1
    <3>2. CASE f \in entries
      BY <1>1, <1>2, <2>1, <3>2 DEF DeleteRetain
    <3>3. CASE f \notin entries
      BY <1>1, <1>2, <2>1, <3>1, <3>3 DEF DeleteRetain, NoGhostFile, Advertising, Deleting
    <3> QED
      BY <3>2, <3>3
  <2>2. CASE cliFile[c] # f
    BY <1>1, <1>2, <2>2 DEF DeleteRetain, NoGhostFile, Advertising, Deleting
  <2> QED
    BY <2>1, <2>2
<1>3. CASE DeleteEntry(c)
  BY <1>1, <1>3 DEF DeleteEntry, NoGhostFile, Advertising, Deleting
<1>4. CASE DeleteTrack(c)
  BY <1>1, <1>4 DEF DeleteTrack, NoGhostFile, Advertising, Deleting
<1>5. ASSUME NEW g \in Files, DelistFile(c, g)
      PROVE  \/ seeders'[f] # <<>>
             \/ \E d \in Clients : sd'[d] = "push" /\ sdFile'[d] = f
             \/ \E d \in Clients : /\ cli'[d] \in {"delete_entry", "delete_track"}
                                   /\ cliFile'[d] = f
  BY <1>1, <1>5 DEF DelistFile, NoGhostFile, Advertising, Deleting
<1>6. CASE \/ Register(c) \/ RequestFile(c) \/ OpenConnection(c)
           \/ PublishConnection(c) \/ RequestReturns(c)
           \/ Unlink(c) \/ DelistClient(c) \/ DelistRegistry(c) \/ DelistNotifier(c)
           \/ NotifyWaiters(c) \/ Exit(c) \/ Crash(c)
           \/ \E g \in Files : ChooseFile(c, g) \/ DeleteFile(c, g)
  <2>1. /\ cli[c] \notin {"delete_entry", "delete_track"}
        /\ \A d \in Clients \ {c} : cli'[d] = cli[d] /\ cliFile'[d] = cliFile[d]
        /\ \A d \in Clients : sd[d] = "push" => sd'[d] = "push"
        /\ UNCHANGED <<tracker, seeders, sdFile>>
    BY <1>1, <1>6 DEF Register, RequestFile, OpenConnection, PublishConnection,
                 RequestReturns, Unlink,
                 DelistClient, DelistRegistry, DelistNotifier, NotifyWaiters, Exit, Crash,
                 EndProcess, ChooseFile, DeleteFile
  <2> QED
    BY <2>1 DEF NoGhostFile, Advertising, Deleting
<1> QED
  BY <1>2, <1>3, <1>4, <1>5, <1>6 DEF CommandLoop

-----------------------------------------------------------------------------
(* The theorems.                                                           *)

\* Before the first call the maps are empty and nobody seeds.
LEMMA InitIInv == Init => IInv
<1> SUFFICES ASSUME Init PROVE IInv
  OBVIOUS
<1>1. /\ SocketsBound /\ SocketsUnique /\ FirstCall /\ RegisteredSince /\ ClosedUnused
      /\ SeedCallReachable /\ OwnAddress
  BY DEF Init, SocketsBound, SocketsUnique, FirstCall, RegisteredSince, ClosedUnused,
         SeedCallReachable, OwnAddress, NoAddr, Unknown
<1>2. RegisteredApart
  BY DEF Init, RegisteredApart, NoAddr, Unknown
<1>3. SendersUnused /\ OneRequesterPerSeed
  BY EmptySeq DEF Init, SendersUnused, OneRequesterPerSeed
<1>4. StaleSenderOnlyAfterEnd /\ NoGhostFile
  BY DEF Init, StaleSenderOnlyAfterEnd, NoGhostFile
<1> QED
  BY <1>1, <1>2, <1>3, <1>4, InitType DEF IInv, SeedInv

\* Every step of a client or of the server keeps the invariant.
LEMMA StepIInv == IInv /\ [Next]_vars => IInv'
<1> SUFFICES ASSUME IInv, [Next]_vars PROVE IInv'
  OBVIOUS
<1>0. TypeOK /\ SeedInv /\ SocketsBound /\ OwnAddress /\ NoGhostFile
  BY DEF IInv, SeedInv
<1>5. OwnAddress'
  BY <1>0, StepOwnAddress
<1>1. ASSUME NEW c \in Clients, SeedingLoop(c) PROVE IInv'
  BY <1>0, <1>1, SeedingLoopType, SeedingLoopSeeds, SeedingLoopGhosts, <1>5 DEF IInv
<1>2. ASSUME NEW c \in Clients, CommandLoop(c) PROVE IInv'
  BY <1>0, <1>2, CommandLoopType, CommandLoopSeeds, CommandLoopGhosts, <1>5 DEF IInv
<1>3. ASSUME NEW r \in requests, SendFileRequest(r) \/ SendFileRequestRetries(r) PROVE IInv'
  <2>1. UNCHANGED <<tracker, seeders, cli, cliFile, sd, sdFile>>
    BY <1>3 DEF SendFileRequest, SendFileRequestRetries, server, cliVars, sdVars, ghosts
  <2>2. NoGhostFile'
    BY <1>0, <2>1 DEF NoGhostFile, Advertising, Deleting
  <2> QED
    BY <1>0, <1>3, <2>2, SendFileRequestType, SendFileRequestSeeds, <1>5 DEF IInv
<1>4. CASE UNCHANGED vars
  <2> USE <1>4 DEF vars, server, cliVars, sdVars, ghosts
  <2>1. TypeOK'
    BY <1>0 DEF TypeOK, Requests
  <2>2. SeedInv'
    BY <1>0 DEF SeedInv, SocketsBound, SocketsUnique, RegisteredApart, SendersUnused,
                FirstCall, RegisteredSince, ClosedUnused, OneRequesterPerSeed, SeedCallReachable,
                StaleSenderOnlyAfterEnd, Waiting
  <2>3. NoGhostFile'
    BY <1>0 DEF NoGhostFile, Advertising, Deleting
  <2> QED
    BY <2>1, <2>2, <2>3, <1>5 DEF IInv
<1> QED
  BY <1>1, <1>2, <1>3, <1>4 DEF Next

\* The invariant holds in every reachable state.
LEMMA Invariance == Spec => []IInv
  BY InitIInv, StepIInv, PTL DEF Spec

\* The maps of the server and the fields of the clients keep their types, however
\* many clients there are; what retain and filter return are lists of the type.
THEOREM TypesHold == Spec => []TypeOK
<1>1. IInv => TypeOK
  BY DEF IInv
<1> QED
  BY <1>1, Invariance, PTL

\* get_all_files lists no file without a seeder, but for the time in which
\* advertise or delete_file is at work on it.
THEOREM FilesHaveSeeders == Spec => []NoGhostFile
<1>1. IInv => NoGhostFile
  BY DEF IInv
<1> QED
  BY <1>1, Invariance, PTL

\* send_file_request hands each seed call to at most one requester.
THEOREM SeedsAreServedOnce == Spec => []OneRequesterPerSeed
<1>1. IInv => OneRequesterPerSeed
  BY DEF IInv, SeedInv
<1> QED
  BY <1>1, Invariance, PTL

\* No seeding loop waits in seed at an address that is in no map and was sent
\* nothing, until its own client delists itself.
THEOREM SeedsAreReachable == Spec => []SeedCallReachable
<1>1. IInv => SeedCallReachable
  BY DEF IInv, SeedInv
<1> QED
  BY <1>1, Invariance, PTL

\* seed_notifier keeps the sender of a call that nobody waits in only for a client
\* that has ended, and after a call that broke off.
THEOREM SendersAreAlive == Spec => []StaleSenderOnlyAfterEnd
<1>1. IInv => StaleSenderOnlyAfterEnd
  BY DEF IInv, SeedInv
<1> QED
  BY <1>1, Invariance, PTL

\* client_registry has the socket of the seed call of a waiting seeder, or that of
\* the last connection it has published since.
THEOREM AddressesAreCurrent == Spec => []RegisteredWhereItSeeds
<1>1. IInv => RegisteredWhereItSeeds
  BY DEF IInv, SeedInv, RegisteredSince, RegisteredWhereItSeeds, Serving
<1> QED
  BY <1>1, Invariance, PTL

\* Without its own delete or delist a seeder leaves a list only between the two
\* steps of another client's delete_file.
THEOREM SeedersStay == Spec => SeederStaysListed
<1> DEFINE Stays == \A c \in Clients, f \in Files :
             c \in ToSet(seeders[f]) /\ c \notin ToSet(seeders'[f]) =>
               \/ cli[c] \in {"delete", "delist_files"}
               \/ \E d \in Clients : cli[d] = "delete_entry" /\ cliFile[d] = f
<1>1. TypeOK /\ [Next]_vars => [Stays]_vars
  <2> SUFFICES ASSUME TypeOK, Next, NEW c \in Clients, NEW f \in Files,
                      c \in ToSet(seeders[f]), c \notin ToSet(seeders'[f])
               PROVE  \/ cli[c] \in {"delete", "delist_files"}
                      \/ \E d \in Clients : cli[d] = "delete_entry" /\ cliFile[d] = f
    BY DEF vars
  <2>0. seeders \in [Files -> Seq(Clients)] /\ seeders'[f] # seeders[f]
        /\ sdFile \in [Clients -> Files] /\ cliFile \in [Clients -> Files]
    BY DEF TypeOK
  <2> USE DEF server, cliVars, sdVars, ghosts
  <2>1. ASSUME NEW d \in Clients, SeedingLoop(d) PROVE FALSE
    <3>1. AdvertisePush(d) /\ sdFile[d] = f
      BY <2>0, <2>1 DEF SeedingLoop, StartSeeding, SeedUpdate, AdvertiseTrack,
                        AdvertisePush, Seed, SeedReturns, SeedFails, SeedingFails,
                        SeedCloses
    <3>2. seeders'[f] = Append(seeders[f], d)
      BY <2>0, <3>1 DEF AdvertisePush
    <3>3. ToSet(seeders'[f]) = ToSet(seeders[f]) \cup {d}
      BY <2>0, <3>2, ToSetOfAppend
    <3> QED
      BY <3>3
  <2>2. ASSUME NEW d \in Clients, CommandLoop(d)
        PROVE  \/ cli[c] \in {"delete", "delist_files"}
               \/ \E e \in Clients : cli[e] = "delete_entry" /\ cliFile[e] = f
    <3>1. DeleteRetain(d) \/ DeleteEntry(d) \/ \E g \in Files : DelistFile(d, g)
      BY <2>0, <2>2 DEF CommandLoop, Register, RequestFile, OpenConnection, PublishConnection,
                        RequestReturns, DeleteTrack, Unlink, DelistClient, DelistRegistry,
                        DelistNotifier, NotifyWaiters, Exit, Crash, EndProcess, ChooseFile, DeleteFile
    <3>2. CASE DeleteEntry(d)
      BY <2>0, <3>2 DEF DeleteEntry
    <3>3. CASE DeleteRetain(d) \/ \E g \in Files : DelistFile(d, g)
      <4>1. seeders'[f] = Without(seeders[f], d) /\ cli[d] \in {"delete", "delist_files"}
        BY <2>0, <3>3 DEF DeleteRetain, DelistFile
      <4>2. ToSet(seeders'[f]) = ToSet(seeders[f]) \ {d}
        BY <2>0, <4>1, WithoutProperties
      <4> QED
        BY <4>1, <4>2
    <3> QED
      BY <3>1, <3>2, <3>3
  <2>3. ASSUME NEW r \in requests, SendFileRequest(r) \/ SendFileRequestRetries(r) PROVE FALSE
    BY <2>0, <2>3 DEF SendFileRequest, SendFileRequestRetries
  <2> QED
    BY <2>1, <2>2, <2>3 DEF Next
<1>2. IInv => TypeOK
  BY DEF IInv
<1> QED
  BY <1>1, <1>2, Invariance, PTL DEF Spec, SeederStaysListed

=============================================================================
