-------------------------------- MODULE Turn --------------------------------
(***************************************************************************)
(* The TURN fallback: the relay of the server (turn.rs) and the two loops  *)
(* of its clients (turn_fallback.rs).  A pair is one seeder_connection and *)
(* one requester_connection that both fell back on TURN; its session id    *)
(* is made of their two PeerIds, so no third party has it.  For each end   *)
(* the server runs one relay task.  All sessions are behind one RwLock,    *)
(* which tokio grants in order: a reader does not overtake a writer.       *)
(***************************************************************************)
EXTENDS Naturals, Sequences, SequencesExt, FiniteSets

CONSTANTS
  Pairs,     \* the sessions
  Requests,  \* how many pieces are requested over each session
  OutCap,    \* capacity of a client's channel into its send stream (128)
  ChanCap,   \* capacity of the server's channel to an end (128)
  ConnCap,   \* capacity of the reply channel to reassemble_loop (150)
  Coming,    \* the ends that may come to register, pairs of a session and a role
  CanLack,   \* the sessions whose seeder may lack a piece
  CanBreak,  \* the sessions whose streams to and from the server may break
  MaxBroken, \* bound on the streams that break in one session
  CanStall   \* the sessions whose reassemble_loop may cease to receive

Roles == {"seeder", "leecher"}
Other(r) == IF r = "seeder" THEN "leecher" ELSE "seeder"

\* The two streams of an end: what it sends, and what register answers.
Streams == Roles \X {"send", "receive"}

ASSUME TurnAssumption ==
  /\ Requests \in [Pairs -> Nat]
  /\ {OutCap, ChanCap, ConnCap} \subseteq Nat \ {0} /\ MaxBroken \in Nat
  /\ Coming \subseteq Pairs \X Roles
  /\ {CanLack, CanBreak, CanStall} \subseteq SUBSET Pairs

VARIABLES
  end,       \* where start_seeding and start_leeching of a pair are
  sessions,  \* the ends registered in each session
  request,   \* the pieces in the request channel of the assembler
  out,       \* the packets an end has queued for its send stream
  relay,     \* the relay task of each end, with the packet it holds
  chan,      \* the server's channel to an end, which is its inbound stream
  conn,      \* the reply channel to reassemble_loop
  broken,    \* the streams of each session that have failed
  loop,      \* reassemble_loop: receiving, stalled or ended
  got        \* the pieces that reassemble_loop has received

ends == <<end, sessions>>
queues == <<request, out, chan, conn>>
assembler == <<loop, got>>
vars == <<ends, queues, relay, broken, assembler>>

NoPiece == 0
At(at, piece) == [at |-> at, piece |-> piece]

Init ==
  /\ end = [p \in Pairs |-> [r \in Roles |-> At("connecting", NoPiece)]]
  /\ sessions = [p \in Pairs |-> {}]
  /\ request = [p \in Pairs |-> [i \in 1 .. Requests[p] |-> i]]
  /\ out = [p \in Pairs |-> [r \in Roles |-> <<>>]]
  /\ relay = [p \in Pairs |-> [r \in Roles |-> At("off", NoPiece)]]
  /\ chan = out
  /\ conn = [p \in Pairs |-> <<>>]
  /\ broken = sessions
  /\ loop = [p \in Pairs |-> "receiving"]
  /\ got = [p \in Pairs |-> {}]

EndGoto(p, r, at, piece) == end' = [end EXCEPT ![p][r] = At(at, piece)]
RelayGoto(p, r, at, piece) == relay' = [relay EXCEPT ![p][r] = At(at, piece)]

-----------------------------------------------------------------------------
(* Wrong variants of the operators below, for showing that each property   *)
(* depends on the code: see the mutants of PROJECT.json.                   *)

\* The barrier is waited for with the write lock still held; its partner
\* waits for that lock.
AcquireLast(p, r) ==
  /\ end[p][r].at = "registering"
  /\ \A q \in Pairs, s \in Roles : relay[q][s].at # "sending"
  /\ \A q \in Pairs, s \in Roles : end[q][s].at # "waiting"
  /\ sessions' = [sessions EXCEPT ![p] = @ \cup {r}]
  /\ EndGoto(p, r, "waiting", NoPiece)
  /\ UNCHANGED <<queues, relay, broken, assembler>>

\* The stream is handed out as soon as the end is registered.
PassAtOnce(p, r) ==
  /\ end[p][r].at = "waiting"
  /\ EndGoto(p, r, "ready", NoPiece)
  /\ RelayGoto(p, r, "reading", NoPiece)
  /\ UNCHANGED <<sessions, queues, broken, assembler>>

\* The branch of select! that is dropped has already taken the request.
LeecherInboundDropsRequest(p) ==
  /\ end[p]["leecher"].at = "ready"
  /\ chan[p]["leecher"] # <<>>
  /\ EndGoto(p, "leecher", "sending", Head(chan[p]["leecher"]))
  /\ chan' = [chan EXCEPT ![p]["leecher"] = Tail(@)]
  /\ request' = [request EXCEPT ![p] = IF @ = <<>> THEN @ ELSE Tail(@)]
  /\ UNCHANGED <<sessions, out, conn, relay, broken, assembler>>

\* A full channel makes the relay give up the packet.
ForwardOrDrop(p, r) ==
  /\ relay[p][r].at = "sending"
  /\ chan' = IF Len(chan[p][Other(r)]) < ChanCap
               THEN [chan EXCEPT ![p][Other(r)] = Append(@, relay[p][r].piece)]
               ELSE chan
  /\ RelayGoto(p, r, "reading", NoPiece)
  /\ UNCHANGED <<ends, request, out, conn, broken, assembler>>

\* The channel is taken for one without a bound.
ForwardUnbounded(p, r) ==
  /\ relay[p][r].at = "sending"
  /\ chan' = [chan EXCEPT ![p][Other(r)] = Append(@, relay[p][r].piece)]
  /\ RelayGoto(p, r, "reading", NoPiece)
  /\ UNCHANGED <<ends, request, out, conn, broken, assembler>>

-----------------------------------------------------------------------------
(* Registration.                                                           *)

\* register is called; whether an end ever gets here is not certain.
Register(p, r) ==
  /\ <<p, r>> \in Coming
  /\ end[p][r].at = "connecting"
  /\ EndGoto(p, r, "registering", NoPiece)
  /\ UNCHANGED <<sessions, queues, relay, broken, assembler>>

\* The write lock: no relay task is forwarding.  It is dropped before the
\* barrier.
Acquire(p, r) ==
  /\ end[p][r].at = "registering"
  /\ \A q \in Pairs, s \in Roles : relay[q][s].at # "sending"
  /\ sessions' = [sessions EXCEPT ![p] = @ \cup {r}]
  /\ EndGoto(p, r, "waiting", NoPiece)
  /\ UNCHANGED <<queues, relay, broken, assembler>>

\* The barrier of two; then the end opens its send stream.
Pass(p, r) ==
  /\ end[p][r].at = "waiting"
  /\ sessions[p] = Roles
  /\ EndGoto(p, r, "ready", NoPiece)
  /\ RelayGoto(p, r, "reading", NoPiece)
  /\ UNCHANGED <<sessions, queues, broken, assembler>>

-----------------------------------------------------------------------------
(* The relay task of one end: TurnService::send.                           *)

Read(p, r) ==
  /\ relay[p][r].at = "reading"
  /\ out[p][r] # <<>>
  /\ RelayGoto(p, r, "looking up", Head(out[p][r]))
  /\ out' = [out EXCEPT ![p][r] = Tail(@)]
  /\ UNCHANGED <<ends, request, chan, conn, broken, assembler>>

\* The stream ends when the loop that fed it has returned.
ReadEnds(p, r) ==
  /\ relay[p][r].at = "reading"
  /\ out[p][r] = <<>> /\ end[p][r].at = "returned"
  /\ RelayGoto(p, r, "off", NoPiece)
  /\ UNCHANGED <<ends, queues, broken, assembler>>

\* The stream yields an error, and send returns with it.
ReadFails(p, r) ==
  /\ relay[p][r].at = "reading"
  /\ <<r, "send">> \in broken[p]
  /\ RelayGoto(p, r, "off", NoPiece)
  /\ UNCHANGED <<ends, queues, broken, assembler>>

\* The read guard, behind every registration that already waits.
Lookup(p, r) ==
  /\ relay[p][r].at = "looking up"
  /\ \A q \in Pairs, s \in Roles : end[q][s].at # "registering"
  /\ RelayGoto(p, r, "sending", relay[p][r].piece)
  /\ UNCHANGED <<ends, queues, broken, assembler>>

\* forward keeps the guard until there is room.  Nobody is told when the
\* stream to the other end is gone.
Unreachable(p, r) == end[p][r].at = "returned" \/ <<r, "receive">> \in broken[p]

Forward(p, r) ==
  /\ relay[p][r].at = "sending"
  /\ \/ /\ Unreachable(p, Other(r))
        /\ UNCHANGED chan
     \/ /\ ~Unreachable(p, Other(r))
        /\ Len(chan[p][Other(r)]) < ChanCap
        /\ chan' = [chan EXCEPT ![p][Other(r)] = Append(@, relay[p][r].piece)]
  /\ RelayGoto(p, r, "reading", NoPiece)
  /\ UNCHANGED <<ends, request, out, conn, broken, assembler>>

-----------------------------------------------------------------------------
(* start_leeching: one select! between the inbound stream and the request  *)
(* channel.  The branch that is not chosen is dropped, and its lock too.   *)

LeecherInbound(p) ==
  /\ end[p]["leecher"].at = "ready"
  /\ chan[p]["leecher"] # <<>>
  /\ EndGoto(p, "leecher", "sending", Head(chan[p]["leecher"]))
  /\ chan' = [chan EXCEPT ![p]["leecher"] = Tail(@)]
  /\ UNCHANGED <<sessions, request, out, conn, relay, broken, assembler>>

\* A piece is dropped when reassemble_loop has ended.
LeecherDeliver(p) ==
  /\ end[p]["leecher"].at = "sending"
  /\ \/ /\ loop[p] = "ended"
        /\ UNCHANGED conn
     \/ /\ loop[p] # "ended"
        /\ Len(conn[p]) < ConnCap
        /\ conn' = [conn EXCEPT ![p] = Append(@, end[p]["leecher"].piece)]
  /\ EndGoto(p, "leecher", "ready", NoPiece)
  /\ UNCHANGED <<sessions, request, out, chan, relay, broken, assembler>>

LeecherRequest(p) ==
  /\ end[p]["leecher"].at = "ready"
  /\ request[p] # <<>>
  /\ EndGoto(p, "leecher", "requesting", Head(request[p]))
  /\ request' = [request EXCEPT ![p] = Tail(@)]
  /\ UNCHANGED <<sessions, out, chan, conn, relay, broken, assembler>>

\* tx.send fails when the send stream is gone: the request is dropped and the
\* loop goes on.
LeecherQueue(p) ==
  /\ end[p]["leecher"].at = "requesting"
  /\ \/ /\ <<"leecher", "send">> \in broken[p]
        /\ UNCHANGED out
     \/ /\ <<"leecher", "send">> \notin broken[p]
        /\ Len(out[p]["leecher"]) < OutCap
        /\ out' = [out EXCEPT ![p]["leecher"] = Append(@, end[p]["leecher"].piece)]
  /\ EndGoto(p, "leecher", "ready", NoPiece)
  /\ UNCHANGED <<sessions, request, chan, conn, relay, broken, assembler>>

-----------------------------------------------------------------------------
(* The loop that start_seeding spawns.                                     *)

SeederInbound(p) ==
  /\ end[p]["seeder"].at = "ready"
  /\ chan[p]["seeder"] # <<>>
  /\ EndGoto(p, "seeder", "sending", Head(chan[p]["seeder"]))
  /\ chan' = [chan EXCEPT ![p]["seeder"] = Tail(@)]
  /\ UNCHANGED <<sessions, request, out, conn, relay, broken, assembler>>

\* The file is not known or cannot be read: the task returns without an
\* answer, and what is queued for it is lost.
SeederLacks(p) ==
  /\ p \in CanLack
  /\ end[p]["seeder"].at = "sending"
  /\ EndGoto(p, "seeder", "returned", NoPiece)
  /\ chan' = [chan EXCEPT ![p]["seeder"] = <<>>]
  /\ UNCHANGED <<sessions, request, out, conn, relay, broken, assembler>>

\* After an error inbound.next() is None, which ends the loop.  The loop of the
\* leecher goes on with its requests.
SeederStreamEnds(p) ==
  /\ end[p]["seeder"].at = "ready"
  /\ <<"seeder", "receive">> \in broken[p]
  /\ EndGoto(p, "seeder", "returned", NoPiece)
  /\ UNCHANGED <<sessions, queues, relay, broken, assembler>>

\* As in LeecherQueue, a piece is dropped when the send stream is gone.
SeederQueue(p) ==
  /\ end[p]["seeder"].at = "sending"
  /\ \/ /\ <<"seeder", "send">> \in broken[p]
        /\ UNCHANGED out
     \/ /\ <<"seeder", "send">> \notin broken[p]
        /\ Len(out[p]["seeder"]) < OutCap
        /\ out' = [out EXCEPT ![p]["seeder"] = Append(@, end[p]["seeder"].piece)]
  /\ EndGoto(p, "seeder", "ready", NoPiece)
  /\ UNCHANGED <<sessions, request, chan, conn, relay, broken, assembler>>

-----------------------------------------------------------------------------
(* reassemble_loop, of which only this matters here: it receives, it ends  *)
(* and drops the senders, or it waits for the others (FileAssembler).     *)

LoopReceive(p) ==
  /\ loop[p] = "receiving" /\ conn[p] # <<>>
  /\ got' = [got EXCEPT ![p] = @ \cup {Head(conn[p])}]
  /\ conn' = [conn EXCEPT ![p] = Tail(@)]
  /\ UNCHANGED <<ends, request, out, chan, relay, broken, loop>>

\* The file is complete, perhaps through other connections, or the loop has
\* failed.  start_leeching goes on: it ignores the None of its request channel.
LoopEnds(p) ==
  /\ loop[p] = "receiving"
  /\ loop' = [loop EXCEPT ![p] = "ended"]
  /\ conn' = [conn EXCEPT ![p] = <<>>]
  /\ UNCHANGED <<ends, request, out, chan, relay, broken, got>>

LoopStalls(p) ==
  /\ p \in CanStall /\ loop[p] = "receiving"
  /\ loop' = [loop EXCEPT ![p] = "stalled"]
  /\ UNCHANGED <<ends, queues, relay, broken, got>>

-----------------------------------------------------------------------------
(* The network.                                                            *)

\* The send RPC of an end fails: its channel into the stream is dropped with
\* what the server has not read.
SendBreaks(p, r) ==
  /\ p \in CanBreak /\ Cardinality(broken[p]) < MaxBroken
  /\ relay[p][r].at # "off" /\ <<r, "send">> \notin broken[p]
  /\ broken' = [broken EXCEPT ![p] = @ \cup {<<r, "send">>}]
  /\ out' = [out EXCEPT ![p][r] = <<>>]
  /\ UNCHANGED <<ends, request, chan, conn, relay, assembler>>

\* The stream that answered register fails: the server's channel into it is
\* dropped with what the client has not read.
ReceiveBreaks(p, r) ==
  /\ p \in CanBreak /\ Cardinality(broken[p]) < MaxBroken
  /\ end[p][r].at \in {"ready", "sending", "requesting"}
  /\ <<r, "receive">> \notin broken[p]
  /\ broken' = [broken EXCEPT ![p] = @ \cup {<<r, "receive">>}]
  /\ chan' = [chan EXCEPT ![p][r] = <<>>]
  /\ UNCHANGED <<ends, request, out, conn, relay, assembler>>

\* Over a broken stream tonic may also drop the relay task where it waits,
\* with the guard and the packet it holds.
RelayDropped(p, r) ==
  /\ relay[p][r].at \in {"looking up", "sending"}
  /\ <<r, "send">> \in broken[p]
  /\ RelayGoto(p, r, "off", NoPiece)
  /\ UNCHANGED <<ends, queues, broken, assembler>>

-----------------------------------------------------------------------------
RegisterStep(p) == \E r \in Roles : Acquire(p, r) \/ Pass(p, r)
RelayStep(p, r) ==
  Read(p, r) \/ ReadEnds(p, r) \/ ReadFails(p, r) \/ Lookup(p, r) \/ Forward(p, r)
LeecherStep(p) ==
  LeecherInbound(p) \/ LeecherDeliver(p) \/ LeecherRequest(p) \/ LeecherQueue(p)
SeederStep(p) ==
  SeederInbound(p) \/ SeederLacks(p) \/ SeederStreamEnds(p) \/ SeederQueue(p)
BreakStep(p, r) == SendBreaks(p, r) \/ ReceiveBreaks(p, r) \/ RelayDropped(p, r)

Next ==
  \E p \in Pairs :
    \/ \E r \in Roles : Register(p, r) \/ RelayStep(p, r) \/ BreakStep(p, r)
    \/ RegisterStep(p) \/ LeecherStep(p) \/ SeederStep(p)
    \/ LoopReceive(p) \/ LoopEnds(p) \/ LoopStalls(p)

Spec == Init /\ [][Next]_vars

\* Tokio polls the woken tasks, and select! picks among ready branches at random.
\* That an end registers, a loop ends or stalls, and a stream breaks is not fair.
Fairness ==
  \A p \in Pairs :
    /\ WF_vars(RegisterStep(p))
    /\ \A r \in Roles : WF_vars(RelayStep(p, r))
    /\ WF_vars(LeecherInbound(p) \/ LeecherDeliver(p) \/ LeecherQueue(p))
    /\ WF_vars(LeecherStep(p))
    /\ WF_vars(SeederStep(p))
    /\ WF_vars(LoopReceive(p))

FairSpec == Spec /\ Fairness

-----------------------------------------------------------------------------
Indices(p) == 1 .. Requests[p]
Positions == {"connecting", "registering", "waiting", "ready", "sending", "requesting",
              "returned"}
RelayPositions == {"off", "reading", "looking up", "sending"}

\* Everything that is in some queue or hand of the session p, in either form.
Underway(p) ==
  Range(request[p]) \cup Range(conn[p]) \cup got[p]
    \cup (UNION {Range(out[p][r]) \cup Range(chan[p][r]) : r \in Roles})
    \cup {end[p][r].piece : r \in Roles} \cup {relay[p][r].piece : r \in Roles}

Shapes ==
  /\ end \in [Pairs -> [Roles -> [at : Positions, piece : Nat]]]
  /\ relay \in [Pairs -> [Roles -> [at : RelayPositions, piece : Nat]]]
  /\ sessions \in [Pairs -> SUBSET Roles]
  /\ request \in [Pairs -> Seq(Nat)] /\ conn \in [Pairs -> Seq(Nat)]
  /\ out \in [Pairs -> [Roles -> Seq(Nat)]] /\ chan \in [Pairs -> [Roles -> Seq(Nat)]]
  /\ broken \in [Pairs -> SUBSET Streams]
  /\ loop \in [Pairs -> {"receiving", "stalled", "ended"}]
  /\ got \in [Pairs -> SUBSET Nat]

\* The channels are bounded, and a session has only pieces of its own requests.
TypeOK ==
  /\ Shapes
  /\ \A p \in Pairs :
       /\ Len(conn[p]) <= ConnCap
       /\ \A r \in Roles : Len(out[p][r]) <= OutCap /\ Len(chan[p][r]) <= ChanCap
       /\ Underway(p) \subseteq Indices(p) \cup {NoPiece}

\* One of the two outer tasks has ended, or a stream to or from the server broke.
Over(p) ==
  loop[p] = "ended" \/ end[p]["seeder"].at = "returned" \/ broken[p] # {}

\* Neither a select! branch that is dropped, nor a full channel, nor the lock
\* loses a request or a piece, and nothing that happens to another session does.
\* The end of one of the two outer tasks may, and so may a broken stream, which
\* drops what is under way while both loops run on (turn.rs, turn_fallback.rs).
NothingLost ==
  \A p \in Pairs :
    \/ Over(p)
    \/ Indices(p) \subseteq Underway(p)

\* The barrier: an end that sends through the relay has a partner, so that
\* forward never finds an empty slot, where it would drop the packet.
StreamsArePaired ==
  \A p \in Pairs, r \in Roles :
    relay[p][r].at # "off" => sessions[p] = Roles

\* As many requests as cannot fill the channels behind one another.  With one
\* more, the leecher may wait to queue a request, behind a relay task that waits
\* behind a registration, which waits for the guard of the relay task that
\* waits for the leecher to take a piece.
ChannelsHaveRoom == \A p \in Pairs : Requests[p] <= OutCap + ChanCap + 2

Stalled == \E p \in Pairs : loop[p] = "stalled"

\* One lock for all sessions: a registration gets through although others keep
\* relaying or break off, as long as every reassemble_loop takes its pieces.
RegistrationsProceed ==
  ChannelsHaveRoom =>
    \A p \in Pairs, r \in Roles :
      end[p][r].at = "registering" ~> (end[p][r].at # "registering" \/ Stalled)

\* Two registered ends get past the barrier, and every request is answered,
\* unless a task at either end of the session ends or a stream breaks.
PairIsServed(p) ==
  (\A r \in Roles : end[p][r].at \notin {"connecting", "registering"}) ~>
    \/ got[p] = Indices(p)
    \/ Over(p)
    \/ Stalled

PairsAreServed == ChannelsHaveRoom => \A p \in Pairs : PairIsServed(p)
=============================================================================
