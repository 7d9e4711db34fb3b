---------------------------- MODULE FileAssembler ----------------------------
(***************************************************************************)
(* One download of a client: the task that runs file_request, the          *)
(* send_requests and reassemble_loop tasks of the FileAssembler, one       *)
(* recv_data task for each connection to a peer, and the channels between  *)
(* them.  The fields request_txs and num_connections are behind one        *)
(* tokio RwLock; each read().await and write().await is a step of its own. *)
(***************************************************************************)
EXTENDS Integers, Sequences, FiniteSets, SequencesExt

CONSTANTS
  NumPieces,   \* pieces of the requested file
  NumConns,    \* connections file_request opens: min(peers, pieces)
  RequestCap,  \* capacity of each request channel (150 in the code)
  ConnCap,     \* capacity of the reply channel (150)
  ResendCap,   \* capacity of the resend channel (100)
  ShortLast,   \* TRUE: the file length is no multiple of piece_length
  Resume,      \* the sets of pieces that .info may mark when the run starts
  OldFile,     \* TRUE: resources/files may already hold a file of this name
  Faults,      \* the faults the environment may inject
  MaxFaults,   \* bound on the number of faults in a behaviour
  Turns        \* the resend counter is kept modulo Turns

Pieces == 0 .. NumPieces - 1
Conns == 1 .. NumConns
FaultKinds ==
  {"register",  \* STUN or the server fails while a connection is registered
   "connect",   \* every way to reach the peer fails
   "close",     \* a connection is lost between two requests
   "drop",      \* a connection is lost while a request is served
   "missing",   \* the seeder no longer has the piece
   "corrupt"}   \* the bytes the seeder sends are not those that were hashed

ASSUME SizesAssumption ==
  /\ NumPieces \in Nat
  /\ NumConns \in Nat
  /\ NumConns <= NumPieces
  /\ RequestCap \in Nat \ {0}
  /\ ConnCap \in Nat \ {0}
  /\ ResendCap \in Nat \ {0}
  /\ MaxFaults \in Nat
ASSUME ChoicesAssumption ==
  /\ ShortLast \in BOOLEAN
  /\ OldFile \in BOOLEAN
  /\ Resume \subseteq SUBSET Pieces
  /\ Faults \subseteq FaultKinds
\* i % n is the same for the counter and for the counter modulo Turns.
ASSUME TurnsAssumption ==
  /\ Turns \in Nat \ {0}
  /\ \A n \in Conns : Turns % n = 0

VARIABLES
  numConnections,  \* FileAssembler::num_connections
  requestTxs,      \* FileAssembler::request_txs: whose sender is where
  requestCh,       \* the request channel of each connection
  connCh,          \* the channel from the connections to reassemble_loop
  resendCh,        \* the channel from reassemble_loop to send_requests
  frPc, frI,                           \* file_request
  srPc, srNum, srI, srTurn, srMsg,     \* send_requests
  rlPc, rlMsg, rlBad,                  \* reassemble_loop
  conn,            \* each recv_data task: its state and the message it holds
  linkUp,          \* whether the connection to the peer is alive
  part, received,  \* the .part file, and the pieces .info marks
  file,            \* what resources/files holds under the name of the file
  faults           \* the faults injected so far, in order

sharedVars == <<numConnections, requestTxs>>
channels == <<requestCh, connCh, resendCh>>
frVars == <<frPc, frI>>
srVars == <<srPc, srNum, srI, srTurn, srMsg>>
rlVars == <<rlPc, rlMsg, rlBad>>
connVars == <<conn, linkUp>>
disk == <<part, received, file>>
vars == <<sharedVars, channels, frVars, srVars, rlVars, connVars, disk, faults>>

-----------------------------------------------------------------------------
(* Messages.  "via" is not in the code: it tells which connection carries  *)
(* a message; "seeder" is what the code has, an index into request_txs.    *)

Bodies == {"request", "good", "bad", "cancel"}
Message == [via : Conns, seeder : Nat, index : Pieces, body : Bodies]
NoMsg == [via |-> 0, seeder |-> 0, index |-> 0, body |-> "none"]
NoConn == 0

Reply(m, body) == [m EXCEPT !.body = body]

\* A piece is hashed only when it has the full piece_length.
Verifiable == IF ShortLast THEN Pieces \ {NumPieces - 1} ELSE Pieces

SrEnded == srPc \in {"returned", "error", "panicked"}
RlEnded == rlPc \in {"built", "failed", "error", "panicked"}
FrEnded == frPc \in {"returned", "error"}

\* send_requests keeps its read guard while it waits for room in a channel.
ReadLocked == srPc = "sending"

\* The request channel of c is open while a task can still reach its sender.
SenderAlive(c) ==
  \/ c \in ToSet(requestTxs) /\ ~(FrEnded /\ SrEnded /\ RlEnded)
  \/ c = rlBad

Inject(kind) ==
  /\ kind \in Faults
  /\ Len(faults) < MaxFaults
  /\ faults' = Append(faults, kind)

Happened(kinds) == kinds \cap ToSet(faults) # {}

Init ==
  /\ numConnections = NumConns
  /\ requestTxs = <<>>
  /\ requestCh = [c \in Conns |-> <<>>]
  /\ connCh = <<>>
  /\ resendCh = <<>>
  /\ frPc = "subscribing" /\ frI = 0
  /\ srPc = "spawned" /\ srNum = 0 /\ srI = 0 /\ srTurn = 0 /\ srMsg = NoMsg
  /\ rlPc = "receiving" /\ rlMsg = NoMsg /\ rlBad = NoConn
  /\ conn = [c \in Conns |-> [at |-> "none", msg |-> NoMsg]]
  /\ linkUp = [c \in Conns |-> FALSE]
  /\ received \in Resume
  /\ part = [p \in Pieces |-> IF p \in received THEN "good" ELSE "empty"]
  /\ file \in IF OldFile THEN {"absent", "foreign"} ELSE {"absent"}
  /\ faults = <<>>

-----------------------------------------------------------------------------
(* Wrong variants of the operators below, for showing that each property   *)
(* depends on the code: see the mutants of PROJECT.json.                   *)

\* The first loop does not advance to the next piece.
SrSendAgain ==
  /\ srPc = "sending"
  /\ Len(requestCh[srMsg.via]) < RequestCap
  /\ requestCh' = [requestCh EXCEPT ![srMsg.via] = Append(@, srMsg)]
  /\ srPc' = IF srI < NumPieces THEN "initial" ELSE "resending"
  /\ srMsg' = NoMsg
  /\ UNCHANGED <<sharedVars, connCh, resendCh, frVars, srNum, srI, srTurn,
                 rlVars, connVars, disk, faults>>

\* The bound of the list is off by one.
SrGetExclusive(k, p) ==
  \/ /\ k + 1 < Len(requestTxs)
     /\ srMsg' = [via |-> requestTxs[k + 1], seeder |-> k, index |-> p,
                  body |-> "request"]
     /\ srPc' = "sending"
  \/ /\ k + 1 >= Len(requestTxs)
     /\ srPc' = "error"
     /\ UNCHANGED srMsg

\* resend_tx is dropped only on the path that completes the file.
SrFinishComplete ==
  /\ srPc = "resending"
  /\ resendCh = <<>>
  /\ rlPc \in {"building", "built"}
  /\ srPc' = "returned"
  /\ UNCHANGED <<sharedVars, channels, frVars, srNum, srI, srTurn, srMsg,
                 rlVars, connVars, disk, faults>>

\* The hash of the first piece is not compared.
AcceptedUnchecked(m) ==
  m.body \in {"good", "bad"} /\ (m.body = "bad" => m.index = 0)

\* A corrupted piece is dropped without a resend request.
RlRejectSilently ==
  /\ rlPc = "receiving" /\ connCh # <<>>
  /\ Head(connCh).body = "bad"
  /\ connCh' = Tail(connCh)
  /\ UNCHANGED <<sharedVars, requestCh, resendCh, frVars, srVars, rlVars,
                 connVars, disk, faults>>

\* The sender is removed without waiting for the write guard.
RlRemoveUnlocked ==
  /\ rlPc = "removing"
  /\ rlMsg.seeder < Len(requestTxs)
  /\ rlBad' = requestTxs[rlMsg.seeder + 1]
  /\ requestTxs' = RemoveAt(requestTxs, rlMsg.seeder + 1)
  /\ rlPc' = "decrementing"
  /\ UNCHANGED <<numConnections, channels, frVars, srVars, rlMsg, connVars,
                 disk, faults>>

\* The sender is removed and the count is forgotten.
RlRemoveOnly ==
  /\ rlPc = "removing"
  /\ ~ReadLocked
  /\ rlMsg.seeder < Len(requestTxs)
  /\ requestTxs' = RemoveAt(requestTxs, rlMsg.seeder + 1)
  /\ rlPc' = "resending"
  /\ UNCHANGED <<numConnections, channels, frVars, srVars, rlMsg, rlBad,
                 connVars, disk, faults>>

\* The loop goes on without a connection.
RlCheckNothing ==
  /\ rlPc = "checking"
  /\ rlPc' = "resending"
  /\ UNCHANGED <<sharedVars, channels, frVars, srVars, rlMsg, rlBad, connVars,
                 disk, faults>>

\* The count is decremented once more than senders are removed.
RlDecrementTwice ==
  /\ rlPc = "decrementing"
  /\ ~ReadLocked
  /\ numConnections' = numConnections - 2
  /\ rlBad' = NoConn
  /\ rlPc' = "checking"
  /\ UNCHANGED <<requestTxs, channels, frVars, srVars, rlMsg, connVars, disk,
                 faults>>

\* A request that cannot be sent is only printed.
ConnRefusedSilently(c) ==
  /\ conn[c].at = "opening" /\ ~linkUp[c]
  /\ conn' = [conn EXCEPT ![c] = [at |-> "idle", msg |-> NoMsg]]
  /\ UNCHANGED <<sharedVars, channels, frVars, srVars, rlVars, linkUp, disk,
                 faults>>

-----------------------------------------------------------------------------
(* file_request: subscribe and spawn the connections, start, join.         *)

\* The actual connection setup (requester_connection) is ConnEstablish.
FrSubscribe ==
  /\ frPc = "subscribing" /\ frI < NumConns
  /\ ~ReadLocked
  /\ requestTxs' = Append(requestTxs, frI + 1)
  /\ conn' = [conn EXCEPT ![frI + 1].at = "connecting"]
  /\ frI' = frI + 1
  /\ UNCHANGED <<numConnections, channels, frPc, srVars, rlVars, linkUp, disk,
                 faults>>

\* register_new_connection(..).await? ends file_request.  The program then ends
\* too (main.rs); here the tasks go on, with every prefix of what they do.
FrRegisterFails ==
  /\ frPc = "subscribing" /\ frI < NumConns
  /\ Inject("register")
  /\ frPc' = "error"
  /\ UNCHANGED <<sharedVars, channels, frI, srVars, rlVars, connVars, disk>>

NextPhase(i) == IF i < NumPieces THEN "initial" ELSE "resending"

\* notify_waiters wakes a task that waits already and is lost otherwise.
FrStart ==
  /\ frPc = "subscribing" /\ frI = NumConns
  /\ ~ReadLocked
  /\ frPc' = "joining"
  /\ srPc' = IF srPc = "waiting" THEN NextPhase(srI) ELSE srPc
  /\ UNCHANGED <<sharedVars, channels, frI, srNum, srI, srTurn, srMsg, rlVars,
                 connVars, disk, faults>>

FrJoin ==
  /\ frPc = "joining"
  /\ \A c \in Conns : conn[c].at # "connecting"
  /\ frPc' = "returned"
  /\ UNCHANGED <<sharedVars, channels, frI, srVars, rlVars, connVars, disk,
                 faults>>

-----------------------------------------------------------------------------
(* send_requests                                                           *)

SrWait ==
  /\ srPc = "spawned"
  /\ srNum' = numConnections
  /\ srPc' = "waiting"
  /\ UNCHANGED <<sharedVars, channels, frVars, srI, srTurn, srMsg, rlVars,
                 connVars, disk, faults>>

\* request_txs.get(k).ok_or(...)?, and the read guard kept for the send.
SrGet(k, p) ==
  \/ /\ k < Len(requestTxs)
     /\ srMsg' = [via |-> requestTxs[k + 1], seeder |-> k, index |-> p,
                  body |-> "request"]
     /\ srPc' = "sending"
  \/ /\ k >= Len(requestTxs)
     /\ srPc' = "error"
     /\ UNCHANGED srMsg

\* The number of connections is the one read before the wait.
SrInitial ==
  /\ srPc = "initial"
  /\ IF srNum = 0
       THEN srPc' = "panicked" /\ UNCHANGED srMsg
       ELSE SrGet(srI % srNum, srI)
  /\ UNCHANGED <<sharedVars, channels, frVars, srNum, srI, srTurn, rlVars,
                 connVars, disk, faults>>

SrSend ==
  /\ srPc = "sending"
  /\ conn[srMsg.via].at # "closed"
  /\ Len(requestCh[srMsg.via]) < RequestCap
  /\ requestCh' = [requestCh EXCEPT ![srMsg.via] = Append(@, srMsg)]
  /\ \/ /\ srI < NumPieces
        /\ srI' = srI + 1
        /\ srPc' = NextPhase(srI + 1)
        /\ UNCHANGED srTurn
     \/ /\ srI = NumPieces
        /\ srTurn' = (srTurn + 1) % Turns
        /\ srPc' = "resending"
        /\ UNCHANGED srI
  /\ srMsg' = NoMsg
  /\ UNCHANGED <<sharedVars, connCh, resendCh, frVars, srNum, rlVars, connVars,
                 disk, faults>>

SrSendFails ==
  /\ srPc = "sending"
  /\ conn[srMsg.via].at = "closed"
  /\ srPc' = "error"
  /\ UNCHANGED <<sharedVars, channels, frVars, srNum, srI, srTurn, srMsg,
                 rlVars, connVars, disk, faults>>

SrRecv ==
  /\ srPc = "resending"
  /\ resendCh # <<>>
  /\ srMsg' = [NoMsg EXCEPT !.index = Head(resendCh)]
  /\ resendCh' = Tail(resendCh)
  /\ srPc' = "picking"
  /\ UNCHANGED <<sharedVars, requestCh, connCh, frVars, srNum, srI, srTurn,
                 rlVars, connVars, disk, faults>>

\* recv() returns None: resend_tx is dropped by every end of reassemble_loop.
SrFinish ==
  /\ srPc = "resending"
  /\ resendCh = <<>>
  /\ RlEnded \/ rlPc = "building"
  /\ srPc' = "returned"
  /\ UNCHANGED <<sharedVars, channels, frVars, srNum, srI, srTurn, srMsg,
                 rlVars, connVars, disk, faults>>

\* new_seeder = i % num_connections, under a read guard of its own.
SrPick ==
  /\ srPc = "picking"
  /\ IF numConnections = 0
       THEN srPc' = "panicked" /\ UNCHANGED srMsg
       ELSE /\ srMsg' = [srMsg EXCEPT !.seeder = srTurn % numConnections]
            /\ srPc' = "looking"
  /\ UNCHANGED <<sharedVars, channels, frVars, srNum, srI, srTurn, rlVars,
                 connVars, disk, faults>>

SrLook ==
  /\ srPc = "looking"
  /\ SrGet(srMsg.seeder, srMsg.index)
  /\ UNCHANGED <<sharedVars, channels, frVars, srNum, srI, srTurn, rlVars,
                 connVars, disk, faults>>

-----------------------------------------------------------------------------
(* reassemble_loop                                                         *)

Accepted(m) ==
  \/ m.body = "good"
  \/ m.body = "bad" /\ m.index \notin Verifiable

RlAccept ==
  /\ rlPc = "receiving" /\ connCh # <<>>
  /\ Accepted(Head(connCh))
  /\ connCh' = Tail(connCh)
  /\ part' = [part EXCEPT ![Head(connCh).index] = Head(connCh).body]
  /\ received' = received \cup {Head(connCh).index}
  /\ rlPc' = IF received' = Pieces THEN "draining" ELSE "receiving"
  /\ UNCHANGED <<sharedVars, requestCh, resendCh, frVars, srVars, rlMsg, rlBad,
                 connVars, file, faults>>

RlReject ==
  /\ rlPc = "receiving" /\ connCh # <<>>
  /\ Head(connCh).body = "bad" /\ ~Accepted(Head(connCh))
  /\ connCh' = Tail(connCh)
  /\ rlMsg' = Head(connCh)
  /\ rlPc' = "resending"
  /\ UNCHANGED <<sharedVars, requestCh, resendCh, frVars, srVars, rlBad,
                 connVars, disk, faults>>

RlRecvCancel ==
  /\ rlPc = "receiving" /\ connCh # <<>>
  /\ Head(connCh).body = "cancel"
  /\ connCh' = Tail(connCh)
  /\ rlMsg' = Head(connCh)
  /\ rlPc' = "removing"
  /\ UNCHANGED <<sharedVars, requestCh, resendCh, frVars, srVars, rlBad,
                 connVars, disk, faults>>

\* Vec::remove panics past the end; the task then drops what it holds.
RlRemove ==
  /\ rlPc = "removing"
  /\ ~ReadLocked
  /\ IF rlMsg.seeder < Len(requestTxs)
       THEN /\ rlBad' = requestTxs[rlMsg.seeder + 1]
            /\ requestTxs' = RemoveAt(requestTxs, rlMsg.seeder + 1)
            /\ rlPc' = "decrementing"
       ELSE /\ rlPc' = "panicked"
            /\ UNCHANGED <<rlBad, requestTxs>>
  /\ UNCHANGED <<numConnections, channels, frVars, srVars, rlMsg, connVars,
                 disk, faults>>

RlDecrement ==
  /\ rlPc = "decrementing"
  /\ ~ReadLocked
  /\ numConnections' = numConnections - 1
  /\ rlBad' = NoConn
  /\ rlPc' = "checking"
  /\ UNCHANGED <<requestTxs, channels, frVars, srVars, rlMsg, connVars, disk,
                 faults>>

\* The count is read again, under a read guard of its own.
RlCheck ==
  /\ rlPc = "checking"
  /\ rlPc' = IF numConnections = 0 THEN "failed" ELSE "resending"
  /\ UNCHANGED <<sharedVars, channels, frVars, srVars, rlMsg, rlBad, connVars,
                 disk, faults>>

RlResend ==
  /\ rlPc = "resending"
  /\ ~SrEnded
  /\ Len(resendCh) < ResendCap
  /\ resendCh' = Append(resendCh, rlMsg.index)
  /\ rlMsg' = NoMsg
  /\ rlPc' = "receiving"
  /\ UNCHANGED <<sharedVars, requestCh, connCh, frVars, srVars, rlBad,
                 connVars, disk, faults>>

RlResendFails ==
  /\ rlPc = "resending"
  /\ SrEnded
  /\ rlPc' = "error"
  /\ UNCHANGED <<sharedVars, channels, frVars, srVars, rlMsg, rlBad, connVars,
                 disk, faults>>

RlDrain ==
  /\ rlPc = "draining"
  /\ ~ReadLocked
  /\ requestTxs' = <<>>
  /\ rlPc' = "building"
  /\ UNCHANGED <<numConnections, channels, frVars, srVars, rlMsg, rlBad,
                 connVars, disk, faults>>

\* build_file refuses to overwrite; otherwise .part becomes the file.
RlBuild ==
  /\ rlPc = "building"
  /\ \/ file = "foreign" /\ rlPc' = "error" /\ UNCHANGED file
     \/ file = "absent" /\ rlPc' = "built" /\ file' = "built"
  /\ UNCHANGED <<sharedVars, channels, frVars, srVars, rlMsg, rlBad, connVars,
                 part, received, faults>>

-----------------------------------------------------------------------------
(* recv_data of connection c, with the seeder's send_data at the far end.  *)

At(c, state) == conn[c].at = state
Goto(c, state, msg) == conn' = [conn EXCEPT ![c] = [at |-> state, msg |-> msg]]

ConnEstablish(c) ==
  /\ At(c, "connecting")
  /\ Goto(c, "idle", NoMsg)
  /\ linkUp' = [linkUp EXCEPT ![c] = TRUE]
  /\ UNCHANGED <<sharedVars, channels, frVars, srVars, rlVars, disk, faults>>

\* The task ends, and the receiver is dropped with what its channel holds.
ConnFail(c) ==
  /\ At(c, "connecting")
  /\ Inject("connect")
  /\ Goto(c, "closed", NoMsg)
  /\ requestCh' = [requestCh EXCEPT ![c] = <<>>]
  /\ UNCHANGED <<sharedVars, connCh, resendCh, frVars, srVars, rlVars, linkUp,
                 disk>>

ConnTake(c) ==
  /\ At(c, "idle") /\ requestCh[c] # <<>>
  /\ Goto(c, "opening", Head(requestCh[c]))
  /\ requestCh' = [requestCh EXCEPT ![c] = Tail(@)]
  /\ UNCHANGED <<sharedVars, connCh, resendCh, frVars, srVars, rlVars, linkUp,
                 disk, faults>>

ConnOpen(c) ==
  /\ At(c, "opening") /\ linkUp[c]
  /\ Goto(c, "waiting", conn[c].msg)
  /\ UNCHANGED <<sharedVars, channels, frVars, srVars, rlVars, linkUp, disk,
                 faults>>

\* open_bi fails: the request goes back as a Cancel, the loop goes on.
ConnRefused(c) ==
  /\ At(c, "opening") /\ ~linkUp[c]
  /\ Goto(c, "cancelling", Reply(conn[c].msg, "cancel"))
  /\ UNCHANGED <<sharedVars, channels, frVars, srVars, rlVars, linkUp, disk,
                 faults>>

\* The seeder answers with a Piece, or with a Cancel when it cannot read it.
SeederReplies(c) ==
  /\ At(c, "waiting") /\ linkUp[c]
  /\ \/ Goto(c, "forwarding", Reply(conn[c].msg, "good")) /\ UNCHANGED faults
     \/ Goto(c, "forwarding", Reply(conn[c].msg, "bad")) /\ Inject("corrupt")
     \/ Goto(c, "forwarding", Reply(conn[c].msg, "cancel")) /\ Inject("missing")
  /\ UNCHANGED <<sharedVars, channels, frVars, srVars, rlVars, linkUp, disk>>

\* A failed write ends the task; a failed read is only printed.
ConnDrop(c) ==
  /\ At(c, "waiting")
  /\ Inject("drop")
  /\ linkUp' = [linkUp EXCEPT ![c] = FALSE]
  /\ \/ /\ Goto(c, "closed", NoMsg)
        /\ requestCh' = [requestCh EXCEPT ![c] = <<>>]
     \/ /\ Goto(c, "idle", NoMsg)
        /\ UNCHANGED requestCh
  /\ UNCHANGED <<sharedVars, connCh, resendCh, frVars, srVars, rlVars, disk>>

\* conn_tx.send: after the end of reassemble_loop the message is dropped.
ConnForward(c) ==
  /\ At(c, "forwarding")
  /\ \/ ~RlEnded /\ Len(connCh) < ConnCap /\ connCh' = Append(connCh, conn[c].msg)
     \/ RlEnded /\ UNCHANGED connCh
  /\ Goto(c, "idle", NoMsg)
  /\ UNCHANGED <<sharedVars, requestCh, resendCh, frVars, srVars, rlVars,
                 linkUp, disk, faults>>

\* The same send with a "?": its failure ends the task.
ConnCancel(c) ==
  /\ At(c, "cancelling")
  /\ \/ /\ ~RlEnded /\ Len(connCh) < ConnCap
        /\ connCh' = Append(connCh, conn[c].msg)
        /\ Goto(c, "idle", NoMsg)
        /\ UNCHANGED requestCh
     \/ /\ RlEnded
        /\ Goto(c, "closed", NoMsg)
        /\ requestCh' = [requestCh EXCEPT ![c] = <<>>]
        /\ UNCHANGED connCh
  /\ UNCHANGED <<sharedVars, resendCh, frVars, srVars, rlVars, linkUp, disk,
                 faults>>

\* recv() returns None: the queue is empty and no sender is left.
ConnEnd(c) ==
  /\ At(c, "idle") /\ requestCh[c] = <<>>
  /\ ~SenderAlive(c)
  /\ Goto(c, "closed", NoMsg)
  /\ linkUp' = [linkUp EXCEPT ![c] = FALSE]
  /\ UNCHANGED <<sharedVars, channels, frVars, srVars, rlVars, disk, faults>>

\* The peer leaves or the connection times out while no request is served.
LinkClose(c) ==
  /\ linkUp[c]
  /\ At(c, "idle") \/ At(c, "opening")
  /\ Inject("close")
  /\ linkUp' = [linkUp EXCEPT ![c] = FALSE]
  /\ UNCHANGED <<sharedVars, channels, frVars, srVars, rlVars, conn, disk>>

FileRequest == FrSubscribe \/ FrRegisterFails \/ FrStart \/ FrJoin
SendRequests ==
  \/ SrWait \/ SrInitial \/ SrSend \/ SrSendFails
  \/ SrRecv \/ SrFinish \/ SrPick \/ SrLook
ReassembleLoop ==
  \/ RlAccept \/ RlReject \/ RlRecvCancel \/ RlRemove \/ RlDecrement
  \/ RlCheck \/ RlResend \/ RlResendFails \/ RlDrain \/ RlBuild
Connection(c) ==
  \/ ConnEstablish(c) \/ ConnFail(c) \/ ConnTake(c) \/ ConnOpen(c)
  \/ ConnRefused(c) \/ SeederReplies(c) \/ ConnDrop(c) \/ ConnForward(c)
  \/ ConnCancel(c) \/ ConnEnd(c) \/ LinkClose(c)

Next ==
  \/ FileRequest
  \/ SendRequests
  \/ ReassembleLoop
  \/ \E c \in Conns : Connection(c)

Spec == Init /\ [][Next]_vars

-----------------------------------------------------------------------------
(* Properties.                                                             *)

\* The states and the messages of the tasks are those the code has, and
\* num_connections, a usize, never goes below zero.
TypeOK ==
  /\ numConnections \in 0 .. NumConns
  /\ requestTxs \in Seq(Conns)
  /\ requestCh \in [Conns -> Seq(Message)]
  /\ connCh \in Seq(Message)
  /\ resendCh \in Seq(Pieces)
  /\ frPc \in {"subscribing", "joining", "returned", "error"}
  /\ frI \in 0 .. NumConns
  /\ srPc \in {"spawned", "waiting", "initial", "sending", "resending",
               "picking", "looking", "returned", "error", "panicked"}
  /\ srNum \in 0 .. NumConns
  /\ srI \in 0 .. NumPieces
  /\ srTurn \in 0 .. Turns - 1
  /\ srMsg \in [via : Conns \cup {NoConn}, seeder : Nat, index : Nat,
                body : {"request", "none"}]
  /\ rlPc \in {"receiving", "removing", "decrementing", "checking",
               "resending", "draining", "building", "built", "failed", "error",
               "panicked"}
  /\ rlMsg \in Message \cup {NoMsg}
  /\ rlBad \in Conns \cup {NoConn}
  /\ conn \in [Conns -> [at : {"none", "connecting", "idle", "opening",
                               "waiting", "forwarding", "cancelling", "closed"},
                         msg : Message \cup {NoMsg}]]
  /\ linkUp \in [Conns -> BOOLEAN]
  /\ part \in [Pieces -> {"empty", "good", "bad"}]
  /\ received \subseteq Pieces
  /\ file \in {"absent", "foreign", "built"}
  /\ faults \in Seq(Faults)

\* request_txs and num_connections are changed under two write guards: apart
\* from the connections still to be subscribed they agree, except between the
\* two, where the count is one too high.
CountMatchesSenders ==
  rlPc \notin {"building", "built", "error"} =>
    numConnections = Len(requestTxs) + (NumConns - frI)
                       + IF rlPc = "decrementing" THEN 1 ELSE 0

\* Where the request for piece p is: still to be sent by the first loop, in
\* the hands of a task, or in a channel.
Here(cond, place) == IF cond THEN {place} ELSE {}
Holding(ch, p) == {i \in DOMAIN ch : ch[i].index = p}
Places(p) ==
  Here(p >= srI, <<"unsent">>)
  \cup Here(/\ srI = NumPieces /\ srMsg.index = p
            /\ srPc \in {"picking", "looking", "sending"}, <<"send_requests">>)
  \cup Here(rlMsg # NoMsg /\ rlMsg.index = p, <<"reassemble_loop">>)
  \cup {<<"recv_data", c>> :
          c \in {d \in Conns : conn[d].msg # NoMsg /\ conn[d].msg.index = p}}
  \cup (UNION {{<<"request", c, i>> : i \in Holding(requestCh[c], p)} :
                 c \in Conns})
  \cup {<<"conn", i>> : i \in Holding(connCh, p)}
  \cup {<<"resend", i>> : i \in {j \in DOMAIN resendCh : resendCh[j] = p}}

\* A piece is never requested twice at the same time, whatever fails: a resend
\* replaces the request it repeats (send_requests and reassemble_loop).
OneRequestPerPiece == \A p \in Pieces : Cardinality(Places(p)) <= 1

\* While both tasks of the assembler run, the request for every missing piece
\* is somewhere: a refused, cancelled or corrupted one is sent again.  Only a
\* connection that is never made or lost during a request takes it along.
NoRequestLost ==
  ~SrEnded /\ ~RlEnded /\ ~Happened({"connect", "drop"}) =>
    \A p \in Pieces \ received : Places(p) # {}

\* send_requests stops with an error while pieces are missing only after a
\* connection failed or was removed, when its index may be past the end of
\* request_txs: corrupted pieces, resent however often, do not end it.
ErrorOnlyAfterFailure ==
  srPc = "error" /\ ~RlEnded =>
    received = Pieces \/ Happened({"connect", "close", "drop", "missing"})

\* No request is sent to a connection that reassemble_loop has removed: the
\* sender is fetched and used under one read guard (send_requests).
RemovedGetsNoRequest ==
  [][\A c \in Conns : Len(requestCh'[c]) > Len(requestCh[c])
                         => c \in ToSet(requestTxs)]_vars

\* num_connections is the divisor of send_requests, which may read it between
\* the decrement of reassemble_loop and the check that follows: a division by
\* zero ends it only when the last sender is gone and reassemble_loop gives up
\* or is just about to, so it never ends a download that could go on.
PanicOnlyWithoutSenders ==
  NumConns > 0 /\ srPc = "panicked" =>
    /\ numConnections = 0
    /\ requestTxs = <<>>
    /\ rlPc \in {"checking", "failed"}

Status ==
  CASE rlPc = "built" -> "complete"
    [] rlPc \in {"failed", "error", "panicked"} -> "failed"
    [] OTHER -> "active"

D == INSTANCE Download WITH data <- part, have <- received, status <- Status

\* Whatever the tasks, channels and peers do, the disk sees a download in
\* which a hash-checked piece is recorded only if it matched, nothing is
\* recorded after the end, and only a complete file is installed, never over
\* an existing one.
ImplementsDownload == D!Spec

-----------------------------------------------------------------------------
(* Claims of the comments that the code does not meet.                     *)

\* The comment in the Cancel branch: the seeder that is removed is the one
\* that does not or cannot provide the data.
RemovesTheFailedSeeder == rlBad # NoConn => rlBad = rlMsg.via

\* The comment on recv_data: when a connection fails, its requests come back
\* as Cancels so that another peer is asked.
FailedRequestsComeBack ==
  ~SrEnded /\ ~RlEnded => \A p \in Pieces \ received : Places(p) # {}

-----------------------------------------------------------------------------
(* Liveness.  The runtime schedules every task that can run; the peers     *)
(* accept the connections and answer the requests.                         *)

Served(c) ==
  \/ ConnEstablish(c) \/ ConnTake(c) \/ ConnOpen(c) \/ ConnRefused(c)
  \/ SeederReplies(c) \/ ConnForward(c) \/ ConnCancel(c) \/ ConnEnd(c)

Fairness ==
  /\ WF_vars(FrSubscribe \/ FrStart \/ FrJoin)
  /\ WF_vars(SendRequests)
  /\ WF_vars(ReassembleLoop)
  /\ \A c \in Conns : WF_vars(Served(c))

FairSpec == Spec /\ Fairness

\* The pieces that do not wait in a channel or with a recv_data task leave
\* room for the last request: send_requests never blocks with its read guard.
ChannelsHaveRoom == NumPieces <= RequestCap + ConnCap + 2

\* A download that began to send requests installs the file, unless one of
\* that name exists or a connection fails (file_request to build_file), when
\* the channels have room.  With one piece more, a resumed download jams: it
\* completes early, and reassemble_loop waits for the write guard that
\* send_requests keeps out while it waits for a channel nobody empties.
StartedIsBuilt ==
  ChannelsHaveRoom =>
    (srPc = "initial" /\ file = "absent" ~>
       file = "built" \/ Happened(FaultKinds \ {"corrupt"}))

\* When reassemble_loop has ended, however it ended, send_requests ends too
\* and every connection is closed: no task is left waiting on a channel.
EverythingEnds ==
  RlEnded ~> SrEnded /\ \A c \in Conns : conn[c].at \in {"none", "closed"}
=============================================================================
