------------------------- MODULE FileAssemblerProofs -------------------------
(***************************************************************************)
(* The safety of a download for every number of pieces and connections,    *)
(* every channel capacity and every set of faults: types, the agreement of *)
(* num_connections with request_txs, what may follow a removed sender, and *)
(* that FileAssembler implements Download.                                 *)
(***************************************************************************)
EXTENDS FileAssembler, SequenceTheorems, TLAPS

\* A task that is about to pass on a message holds one.
MessagesHeld ==
  /\ srPc = "initial" => srI \in Pieces
  /\ srPc \in {"picking", "looking"} => srMsg.index \in Pieces
  /\ srPc = "sending" => srMsg \in Message
  /\ rlPc \in {"removing", "decrementing", "checking", "resending"}
       => rlMsg \in Message
  /\ \A c \in Conns :
       conn[c].at \in {"opening", "waiting", "forwarding", "cancelling"}
         => conn[c].msg \in Message

\* The read guard of send_requests keeps the sender it fetched in the list.
SenderHeld == srPc = "sending" => srMsg.via \in ToSet(requestTxs)

\* The count falls to zero only in the step before the check that makes
\* reassemble_loop fail, and stays zero: a zero that send_requests read is one.
ZeroIsFailure ==
  NumConns > 0 =>
    /\ numConnections = 0 => rlPc \in {"checking", "failed"}
    /\ srNum = 0 => srPc = "spawned" \/ numConnections = 0
    /\ srPc = "panicked" => numConnections = 0

\* The loop leaves its receive state for the build only with every piece.
BuildsWhole == rlPc \in {"draining", "building", "built"} => received = Pieces

IInv ==
  /\ TypeOK
  /\ MessagesHeld
  /\ CountMatchesSenders
  /\ SenderHeld
  /\ ZeroIsFailure
  /\ BuildsWhole

-----------------------------------------------------------------------------
(* Sequences.                                                              *)

\* Vec::remove keeps the type and takes one element (request_txs.remove).
LEMMA RemoveAtProperties ==
  ASSUME NEW S, NEW s \in Seq(S), NEW i \in 1 .. Len(s)
  PROVE  /\ RemoveAt(s, i) \in Seq(S)
         /\ Len(RemoveAt(s, i)) = Len(s) - 1
<1> DEFINE a == SubSeq(s, 1, i - 1)
           b == SubSeq(s, i + 1, Len(s))
<1>1. Len(s) \in Nat /\ \A j \in 1 .. Len(s) : s[j] \in S
  BY LenProperties, ElementOfSeq
<1>2. a \in Seq(S) /\ Len(a) = i - 1
  <2>1. \A j \in 1 .. i - 1 : s[j] \in S
    BY <1>1
  <2> QED
    BY <1>1, <2>1, SubSeqProperties
<1>3. b \in Seq(S) /\ Len(b) = Len(s) - i
  <2>1. \A j \in i + 1 .. Len(s) : s[j] \in S
    BY <1>1
  <2> QED
    BY <1>1, <2>1, SubSeqProperties
<1>4. RemoveAt(s, i) = a \o b
  BY DEF RemoveAt
<1> HIDE DEF a, b
<1>5. a \o b \in Seq(S) /\ Len(a \o b) = Len(a) + Len(b)
  BY <1>2, <1>3, ConcatProperties
<1> QED
  BY <1>1, <1>2, <1>3, <1>4, <1>5

\* A task only takes from the front of a channel and adds at its end.
LEMMA ChannelTypes ==
  ASSUME NEW S, NEW s \in Seq(S)
  PROVE  /\ \A e \in S : Append(s, e) \in Seq(S)
         /\ s # <<>> => Head(s) \in S /\ Tail(s) \in Seq(S)
  BY HeadTailProperties

-----------------------------------------------------------------------------
(* The inductive invariant.                                                *)

\* The tasks start in states that the invariant allows.
LEMMA InitIInv == Init => IInv
<1> SUFFICES ASSUME Init PROVE IInv
  OBVIOUS
<1> USE SizesAssumption, ChoicesAssumption, TurnsAssumption DEF Init
<1>1. TypeOK
  BY DEF TypeOK, Pieces, Conns, NoMsg, NoConn, Message
<1>2. CountMatchesSenders
  BY DEF CountMatchesSenders
<1>3. MessagesHeld /\ SenderHeld /\ ZeroIsFailure /\ BuildsWhole
  BY DEF MessagesHeld, SenderHeld, ZeroIsFailure, BuildsWhole
<1> QED
  BY <1>1, <1>2, <1>3 DEF IInv

\* The steps of file_request keep the types.
LEMMA FileRequestType == IInv /\ FileRequest => TypeOK'
<1> SUFFICES ASSUME IInv, FileRequest PROVE TypeOK'
  OBVIOUS
<1> USE SizesAssumption
    DEF IInv, TypeOK, sharedVars, channels, frVars, srVars, rlVars, connVars,
        disk
<1> DEFINE States == {"none", "connecting", "idle", "opening", "waiting",
                      "forwarding", "cancelling", "closed"}
           ConnStates == [Conns -> [at : States, msg : Message \cup {NoMsg}]]
<1>1. CASE FrSubscribe
  <2>1. requestTxs' \in Seq(Conns)
    BY <1>1, ChannelTypes DEF FrSubscribe, Conns
  <2>2. frI + 1 \in Conns /\ frI' \in 0 .. NumConns
    <3>1. frI \in Nat /\ NumConns \in Nat /\ frI < NumConns /\ frI' = frI + 1
      BY <1>1 DEF FrSubscribe
    <3> HIDE DEF IInv, TypeOK
    <3> QED
      BY <3>1 DEF Conns
  <2>3. conn' \in ConnStates
    <3>1. conn \in ConnStates
      OBVIOUS
    <3>2. conn' = [conn EXCEPT ![frI + 1].at = "connecting"]
      BY <1>1 DEF FrSubscribe
    <3> HIDE DEF IInv, TypeOK
    <3> QED
      BY <3>1, <3>2, <2>2
  <2>4. /\ UNCHANGED <<numConnections, requestCh, connCh, resendCh, frPc, srPc>>
        /\ UNCHANGED <<srNum, srI, srTurn, srMsg, rlPc, rlMsg, rlBad, linkUp>>
        /\ UNCHANGED <<part, received, file, faults>>
    BY <1>1 DEF FrSubscribe
  <2> QED
    BY <2>1, <2>2, <2>3, <2>4
<1>2. CASE FrRegisterFails
  BY <1>2, ChannelTypes DEF FrRegisterFails, Inject
<1>3. CASE FrStart
  BY <1>3 DEF FrStart, NextPhase
<1>4. CASE FrJoin
  BY <1>4 DEF FrJoin
<1> QED
  BY <1>1, <1>2, <1>3, <1>4 DEF FileRequest

\* The steps of send_requests keep the types.
LEMMA SendRequestsType == IInv /\ SendRequests => TypeOK'
<1> SUFFICES ASSUME IInv, SendRequests PROVE TypeOK'
  OBVIOUS
<1> USE SizesAssumption, TurnsAssumption
    DEF IInv, TypeOK, sharedVars, channels, frVars, srVars, rlVars, connVars,
        disk
<1> DEFINE Outgoing == [via : Conns \cup {NoConn}, seeder : Nat, index : Nat,
                        body : {"request", "none"}]
<1>a. ASSUME NEW k \in Nat, NEW p \in Nat, SrGet(k, p)
      PROVE  srPc' \in {"sending", "error"} /\ srMsg' \in Outgoing
  BY <1>a, ElementOfSeq DEF SrGet
<1>b. Message \subseteq [via : Conns, seeder : Nat, index : Nat, body : Bodies]
  BY DEF Message, Pieces
<1>1. CASE SrWait
  BY <1>1 DEF SrWait
<1>2. CASE SrInitial
  BY <1>2, <1>a DEF SrInitial
<1>3. CASE SrSend
  <2>1. srMsg \in Message /\ srMsg.via \in Conns
    BY <1>3 DEF SrSend, MessagesHeld, Message
  <2>2. requestCh' \in [Conns -> Seq(Message)]
    BY <1>3, <2>1, ChannelTypes DEF SrSend
  <2>3. srMsg' \in Outgoing
    BY <1>3 DEF SrSend, NoMsg, NoConn
  <2>4. srI' \in 0 .. NumPieces /\ srTurn' \in 0 .. Turns - 1
    BY <1>3 DEF SrSend
  <2>5. srPc' \in {"initial", "resending"}
    BY <1>3 DEF SrSend, NextPhase
  <2> QED
    BY <1>3, <2>2, <2>3, <2>4, <2>5 DEF SrSend
<1>4. CASE SrSendFails
  BY <1>4 DEF SrSendFails
<1>5. CASE SrRecv
  <2>1. Head(resendCh) \in Nat /\ resendCh' \in Seq(Pieces)
    <3>1. /\ resendCh \in Seq(Pieces) /\ resendCh /= <<>>
          /\ resendCh' = Tail(resendCh)
      BY <1>5 DEF SrRecv
    <3> HIDE DEF IInv, TypeOK
    <3>2. Head(resendCh) \in Pieces /\ Tail(resendCh) \in Seq(Pieces)
      BY <3>1, ChannelTypes
    <3> QED
      BY <3>1, <3>2 DEF Pieces
  <2>2. srMsg' \in Outgoing
    BY <1>5, <2>1 DEF SrRecv, NoMsg, NoConn
  <2> QED
    BY <1>5, <2>1, <2>2 DEF SrRecv
<1>6. CASE SrFinish
  BY <1>6 DEF SrFinish
<1>7. CASE SrPick
  <2>1. numConnections /= 0 => srTurn % numConnections \in Nat
    OBVIOUS
  <2>2. srMsg' \in Outgoing
    <3>1. /\ srMsg \in Outgoing
          /\ \/ srMsg' = srMsg
             \/ /\ numConnections /= 0
                /\ srMsg' = [srMsg EXCEPT !.seeder = srTurn % numConnections]
      BY <1>7 DEF SrPick
    <3> HIDE DEF IInv, TypeOK
    <3> QED
      BY <2>1, <3>1
  <2>3. srPc' \in {"panicked", "looking"}
    BY <1>7 DEF SrPick
  <2> QED
    BY <1>7, <2>2, <2>3 DEF SrPick
<1>8. CASE SrLook
  BY <1>8, <1>a DEF SrLook
<1> QED
  BY <1>1, <1>2, <1>3, <1>4, <1>5, <1>6, <1>7, <1>8 DEF SendRequests

\* The steps of reassemble_loop keep the types.
LEMMA ReassembleLoopType == IInv /\ ReassembleLoop => TypeOK'
<1> SUFFICES ASSUME IInv, ReassembleLoop PROVE TypeOK'
  OBVIOUS
<1> USE SizesAssumption
    DEF IInv, TypeOK, sharedVars, channels, frVars, srVars, rlVars, connVars,
        disk
<1>1. CASE RlAccept
  <2>1. Head(connCh) \in Message /\ connCh' \in Seq(Message)
    BY <1>1, ChannelTypes DEF RlAccept
  <2>2. Head(connCh).index \in Pieces /\ Head(connCh).body \in {"good", "bad"}
    BY <1>1, <2>1 DEF RlAccept, Accepted, Message
  <2>3. part' \in [Pieces -> {"empty", "good", "bad"}] /\ received' \subseteq Pieces
    BY <1>1, <2>2 DEF RlAccept
  <2>4. rlPc' \in {"draining", "receiving"}
    BY <1>1 DEF RlAccept
  <2> QED
    BY <1>1, <2>1, <2>3, <2>4 DEF RlAccept
<1>2. CASE RlReject
  BY <1>2, ChannelTypes DEF RlReject
<1>3. CASE RlRecvCancel
  BY <1>3, ChannelTypes DEF RlRecvCancel
<1>4. CASE RlRemove
  <2>1. rlMsg.seeder \in Nat
    BY <1>4 DEF RlRemove, MessagesHeld, Message
  <2>2. Len(requestTxs) \in Nat
    OBVIOUS
  <2>3. CASE rlMsg.seeder < Len(requestTxs)
    <3>1. rlMsg.seeder + 1 \in 1 .. Len(requestTxs)
      BY <2>1, <2>2, <2>3
    <3>2. requestTxs' \in Seq(Conns)
      BY <1>4, <2>3, <3>1, RemoveAtProperties DEF RlRemove
    <3>3. rlBad' \in Conns
      BY <1>4, <2>3, <3>1, ElementOfSeq DEF RlRemove
    <3> QED
      BY <1>4, <2>3, <3>2, <3>3 DEF RlRemove
  <2>4. CASE ~(rlMsg.seeder < Len(requestTxs))
    BY <1>4, <2>4 DEF RlRemove
  <2> QED
    BY <2>3, <2>4
<1>5. CASE RlDecrement
  BY <1>5 DEF RlDecrement, CountMatchesSenders, NoConn
<1>10. CASE RlCheck
  BY <1>10 DEF RlCheck
<1>6. CASE RlResend
  BY <1>6, ChannelTypes DEF RlResend, MessagesHeld, NoMsg, Message
<1>7. CASE RlResendFails
  BY <1>7 DEF RlResendFails
<1>8. CASE RlDrain
  BY <1>8 DEF RlDrain
<1>9. CASE RlBuild
  BY <1>9 DEF RlBuild
<1> QED
  BY <1>1, <1>2, <1>3, <1>4, <1>5, <1>6, <1>7, <1>8, <1>9,
     <1>10 DEF ReassembleLoop

\* The steps of a connection keep the types.
LEMMA ConnectionType == \A c \in Conns : IInv /\ Connection(c) => TypeOK'
<1> SUFFICES ASSUME NEW c \in Conns, IInv, Connection(c) PROVE TypeOK'
  OBVIOUS
<1> USE SizesAssumption
    DEF IInv, TypeOK, sharedVars, channels, frVars, srVars, rlVars, connVars,
        disk
<1> DEFINE States == {"none", "connecting", "idle", "opening", "waiting",
                      "forwarding", "cancelling", "closed"}
           ConnStates == [Conns -> [at : States, msg : Message \cup {NoMsg}]]
<1>a. ASSUME NEW state \in States, NEW msg \in Message \cup {NoMsg},
             Goto(c, state, msg)
      PROVE  conn' \in ConnStates
  BY <1>a DEF Goto
<1>b. ASSUME NEW m \in Message, NEW body \in Bodies
      PROVE  Reply(m, body) \in Message
  BY DEF Reply, Message
<1>c. conn[c] \in [at : States, msg : Message \cup {NoMsg}]
  OBVIOUS
<1>d. ASSUME NEW kind, Inject(kind)
      PROVE  faults' \in Seq(Faults)
  BY <1>d, ChannelTypes DEF Inject
<1>1. CASE ConnEstablish(c)
  BY <1>1, <1>a DEF ConnEstablish
<1>2. CASE ConnFail(c)
  BY <1>2, <1>a, <1>d DEF ConnFail
<1>3. CASE ConnTake(c)
  BY <1>3, <1>a, ChannelTypes DEF ConnTake
<1>4. CASE ConnOpen(c)
  BY <1>4, <1>a, <1>c DEF ConnOpen
<1>5. CASE ConnRefused(c)
  BY <1>5, <1>a, <1>b DEF ConnRefused, MessagesHeld, At, Bodies
<1>6. CASE SeederReplies(c)
  BY <1>6, <1>a, <1>b, <1>d DEF SeederReplies, MessagesHeld, At, Bodies
<1>7. CASE ConnDrop(c)
  <2>1. requestCh' \in [Conns -> Seq(Message)]
    <3>1. /\ requestCh \in [Conns -> Seq(Message)]
          /\ \/ requestCh' = requestCh
             \/ requestCh' = [requestCh EXCEPT ![c] = <<>>]
      BY <1>7 DEF ConnDrop
    <3> HIDE DEF IInv, TypeOK
    <3> QED
      BY <3>1, EmptySeq
  <2>2. conn' \in ConnStates
    BY <1>7, <1>a DEF ConnDrop
  <2>3. faults' \in Seq(Faults)
    BY <1>7, <1>d DEF ConnDrop
  <2>4. linkUp' \in [Conns -> BOOLEAN]
    BY <1>7 DEF ConnDrop
  <2>5. /\ UNCHANGED <<numConnections, requestTxs, connCh, resendCh, frPc, frI>>
        /\ UNCHANGED <<srPc, srNum, srI, srTurn, srMsg, rlPc, rlMsg, rlBad>>
        /\ UNCHANGED <<part, received, file>>
    BY <1>7 DEF ConnDrop
  <2> QED
    BY <2>1, <2>2, <2>3, <2>4, <2>5
<1>8. CASE ConnForward(c)
  <2>1. connCh' \in Seq(Message)
    <3>1. connCh \in Seq(Message) /\ conn[c].msg \in Message
      BY <1>8 DEF ConnForward, MessagesHeld, At
    <3>2. connCh' = connCh \/ connCh' = Append(connCh, conn[c].msg)
      BY <1>8 DEF ConnForward
    <3> HIDE DEF IInv, TypeOK
    <3> QED
      BY <3>1, <3>2, ChannelTypes
  <2>2. conn' \in ConnStates
    BY <1>8, <1>a DEF ConnForward
  <2> QED
    BY <1>8, <2>1, <2>2 DEF ConnForward
<1>9. CASE ConnCancel(c)
  <2>1. connCh' \in Seq(Message)
    <3>1. connCh \in Seq(Message) /\ conn[c].msg \in Message
      BY <1>9 DEF ConnCancel, MessagesHeld, At
    <3>2. connCh' = connCh \/ connCh' = Append(connCh, conn[c].msg)
      BY <1>9 DEF ConnCancel
    <3> HIDE DEF IInv, TypeOK
    <3> QED
      BY <3>1, <3>2, ChannelTypes
  <2>2. conn' \in ConnStates
    BY <1>9, <1>a DEF ConnCancel
  <2>3. requestCh' \in [Conns -> Seq(Message)]
    <3>1. /\ requestCh \in [Conns -> Seq(Message)]
          /\ \/ requestCh' = requestCh
             \/ requestCh' = [requestCh EXCEPT ![c] = <<>>]
      BY <1>9 DEF ConnCancel
    <3> HIDE DEF IInv, TypeOK
    <3> QED
      BY <3>1, EmptySeq
  <2> QED
    BY <1>9, <2>1, <2>2, <2>3 DEF ConnCancel
<1>10. CASE ConnEnd(c)
  BY <1>10, <1>a DEF ConnEnd
<1>11. CASE LinkClose(c)
  BY <1>11, <1>d DEF LinkClose
<1> QED
  BY <1>1, <1>2, <1>3, <1>4, <1>5, <1>6, <1>7, <1>8, <1>9, <1>10, <1>11 DEF Connection

-----------------------------------------------------------------------------
(* The other parts of the invariant.                                       *)

\* No step lets go of a message it still has to pass on, or takes one that is
\* not of the type of its channel.
LEMMA MessagesHeldStep == IInv /\ Next => MessagesHeld'
<1> SUFFICES ASSUME IInv, Next PROVE MessagesHeld'
  OBVIOUS
<1> USE SizesAssumption DEF sharedVars, channels, frVars, srVars, rlVars, connVars,
        disk
<1>1. TypeOK /\ MessagesHeld
  BY DEF IInv
<1>2. CASE FileRequest
  <2>1. CASE FrSubscribe
    BY <2>1, <1>1 DEF FrSubscribe, MessagesHeld, TypeOK
  <2>2. CASE FrRegisterFails
    BY <2>2, <1>1 DEF FrRegisterFails, MessagesHeld
  <2>3. CASE FrStart
    <3>1. srI \in Nat /\ NumPieces \in Nat
      BY <1>1 DEF TypeOK
    <3> QED
      BY <2>3, <1>1, <3>1 DEF FrStart, MessagesHeld, NextPhase, Pieces
  <2>4. CASE FrJoin
    BY <2>4, <1>1 DEF FrJoin, MessagesHeld
  <2> QED
    BY <1>2, <2>1, <2>2, <2>3, <2>4 DEF FileRequest
<1>3. CASE SendRequests
  <2>1. ASSUME NEW k \in Nat, NEW p \in Pieces, SrGet(k, p)
        PROVE  /\ srPc' \in {"sending", "error"}
               /\ srPc' = "sending" => srMsg' \in Message
    <3>1. requestTxs \in Seq(Conns) /\ Len(requestTxs) \in Nat
      BY <1>1 DEF TypeOK
    <3>2. k < Len(requestTxs) => requestTxs[k + 1] \in Conns
      BY <3>1, ElementOfSeq
    <3> QED
      BY <2>1, <3>2 DEF SrGet, Message, Bodies
  <2>2. UNCHANGED <<rlPc, rlMsg, conn>>
    BY <1>3 DEF SendRequests, SrWait, SrInitial, SrSend, SrSendFails, SrRecv,
                SrFinish, SrPick, SrLook
  <2>3. CASE SrWait
    BY <2>3, <1>1 DEF SrWait, MessagesHeld
  <2>4. CASE SrInitial
    <3>1. srI \in Pieces /\ srNum \in Nat
      BY <2>4, <1>1 DEF SrInitial, MessagesHeld, TypeOK
    <3>2. srNum /= 0 => srI % srNum \in Nat
      BY <3>1 DEF Pieces
    <3>3. \/ srPc' = "panicked"
          \/ srPc' = "error"
          \/ srPc' = "sending" /\ srMsg' \in Message
      BY <2>4, <2>1, <3>1, <3>2 DEF SrInitial
    <3> QED
      BY <2>2, <1>1, <3>3 DEF MessagesHeld
  <2>5. CASE SrSend
    <3>1. srI \in 0 .. NumPieces
      BY <1>1 DEF TypeOK
    <3>2. \/ srPc' = "resending"
          \/ srPc' = "initial" /\ srI' = srI + 1 /\ srI + 1 < NumPieces
      BY <2>5 DEF SrSend, NextPhase
    <3>3. srPc' = "initial" => srI' \in Pieces
      BY <3>1, <3>2 DEF Pieces
    <3> QED
      BY <2>2, <1>1, <3>2, <3>3 DEF MessagesHeld
  <2>6. CASE SrSendFails
    BY <2>6, <1>1 DEF SrSendFails, MessagesHeld
  <2>7. CASE SrRecv
    <3>1. Head(resendCh) \in Pieces
      BY <2>7, <1>1, ChannelTypes DEF SrRecv, TypeOK
    <3>2. srPc' = "picking" /\ srMsg'.index = Head(resendCh)
      BY <2>7 DEF SrRecv, NoMsg
    <3> QED
      BY <2>2, <1>1, <3>1, <3>2 DEF MessagesHeld
  <2>8. CASE SrFinish
    BY <2>8, <1>1 DEF SrFinish, MessagesHeld
  <2>9. CASE SrPick
    <3>1. \/ srPc' = "panicked"
          \/ srPc' = "looking" /\ srMsg'.index = srMsg.index
      BY <2>9, <1>1 DEF SrPick, TypeOK
    <3> QED
      BY <2>2, <2>9, <1>1, <3>1 DEF MessagesHeld, SrPick
  <2>10. CASE SrLook
    <3>1. srMsg.seeder \in Nat /\ srMsg.index \in Pieces
      BY <2>10, <1>1 DEF SrLook, MessagesHeld, TypeOK
    <3>2. \/ srPc' = "error"
          \/ srPc' = "sending" /\ srMsg' \in Message
      BY <2>10, <2>1, <3>1 DEF SrLook
    <3> QED
      BY <2>2, <1>1, <3>2 DEF MessagesHeld
  <2> QED
    BY <1>3, <2>3, <2>4, <2>5, <2>6, <2>7, <2>8, <2>9, <2>10 DEF SendRequests
<1>4. CASE ReassembleLoop
  <2>1. UNCHANGED <<srPc, srI, srMsg, conn>>
    BY <1>4 DEF ReassembleLoop, RlAccept, RlReject, RlRecvCancel, RlRemove,
                RlDecrement, RlCheck, RlResend, RlResendFails, RlDrain,
                RlBuild
  <2>2. rlPc' \in {"removing", "decrementing", "checking", "resending"}
          => rlMsg' \in Message
    <3>1. CASE RlReject \/ RlRecvCancel
      <4>1. rlMsg' = Head(connCh) /\ connCh /= <<>> /\ connCh \in Seq(Message)
        BY <3>1, <1>1 DEF RlReject, RlRecvCancel, TypeOK
      <4> QED
        BY <4>1, ChannelTypes
    <3>2. CASE RlRemove \/ RlDecrement \/ RlCheck
      BY <3>2, <1>1 DEF RlRemove, RlDecrement, RlCheck, MessagesHeld
    <3>3. CASE RlAccept
      BY <3>3 DEF RlAccept
    <3>4. CASE RlResend \/ RlResendFails \/ RlDrain \/ RlBuild
      BY <3>4 DEF RlResend, RlResendFails, RlDrain, RlBuild
    <3> QED
      BY <1>4, <3>1, <3>2, <3>3, <3>4 DEF ReassembleLoop
  <2> QED
    BY <2>1, <2>2, <1>1 DEF MessagesHeld
<1>5. ASSUME NEW c \in Conns, Connection(c)
      PROVE  MessagesHeld'
  <2> DEFINE Busy == {"opening", "waiting", "forwarding", "cancelling"}
  <2>1. UNCHANGED <<srPc, srI, srMsg, rlPc, rlMsg>>
    BY <1>5 DEF Connection, ConnEstablish, ConnFail, ConnTake, ConnOpen,
                ConnRefused, SeederReplies, ConnDrop, ConnForward, ConnCancel,
                ConnEnd, LinkClose
  <2>2. ASSUME NEW state, NEW msg, Goto(c, state, msg),
               state \in Busy => msg \in Message
        PROVE  MessagesHeld'
    BY <2>1, <2>2, <1>1 DEF Goto, MessagesHeld, TypeOK
  <2>3. ASSUME NEW m \in Message, NEW body \in Bodies
        PROVE  Reply(m, body) \in Message
    BY DEF Reply, Message
  <2>4. CASE ConnTake(c)
    <3>1. Head(requestCh[c]) \in Message
      BY <2>4, <1>1, ChannelTypes DEF ConnTake, TypeOK
    <3> QED
      BY <2>4, <2>2, <3>1 DEF ConnTake
  <2>5. CASE ConnOpen(c)
    BY <2>5, <2>2, <1>1 DEF ConnOpen, At, MessagesHeld
  <2>6. CASE ConnRefused(c) \/ SeederReplies(c)
    <3>1. conn[c].msg \in Message
      BY <2>6, <1>1 DEF ConnRefused, SeederReplies, At, MessagesHeld
    <3> QED
      BY <2>6, <2>2, <2>3, <3>1 DEF ConnRefused, SeederReplies, Bodies
  <2>7. CASE \/ ConnEstablish(c) \/ ConnFail(c) \/ ConnDrop(c)
             \/ ConnForward(c) \/ ConnCancel(c) \/ ConnEnd(c)
    BY <2>7, <2>2 DEF ConnEstablish, ConnFail, ConnDrop, ConnForward, ConnCancel,
                      ConnEnd
  <2>8. CASE LinkClose(c)
    BY <2>8, <2>1, <1>1 DEF LinkClose, MessagesHeld
  <2> QED
    BY <1>5, <2>4, <2>5, <2>6, <2>7, <2>8 DEF Connection
<1> QED
  BY <1>2, <1>3, <1>4, <1>5 DEF Next

\* Only file_request and reassemble_loop change the list and the count, and
\* they change them together.
LEMMA CountStep == IInv /\ Next => CountMatchesSenders'
<1> SUFFICES ASSUME IInv, Next PROVE CountMatchesSenders'
  OBVIOUS
<1> USE SizesAssumption DEF sharedVars, channels, frVars, srVars, rlVars, connVars,
        disk
<1>1. /\ CountMatchesSenders
      /\ requestTxs \in Seq(Conns) /\ Len(requestTxs) \in Nat
      /\ numConnections \in Nat /\ frI \in Nat
  BY DEF IInv, TypeOK
<1>2. CASE FrSubscribe
  BY <1>1, <1>2 DEF FrSubscribe, CountMatchesSenders, Conns
<1>3. CASE RlRemove
  <2>1. rlMsg.seeder \in Nat
    BY <1>3 DEF RlRemove, IInv, MessagesHeld, Message
  <2>2. CASE rlMsg.seeder < Len(requestTxs)
    <3>1. rlMsg.seeder + 1 \in 1 .. Len(requestTxs)
      BY <1>1, <2>1, <2>2
    <3>2. Len(requestTxs') = Len(requestTxs) - 1
      BY <1>1, <1>3, <2>2, <3>1, RemoveAtProperties DEF RlRemove
    <3> QED
      BY <1>1, <1>3, <2>2, <3>2 DEF RlRemove, CountMatchesSenders
  <2>3. CASE ~(rlMsg.seeder < Len(requestTxs))
    BY <1>1, <1>3, <2>3 DEF RlRemove, CountMatchesSenders
  <2> QED
    BY <2>2, <2>3
<1>4. CASE RlDecrement
  BY <1>1, <1>4 DEF RlDecrement, CountMatchesSenders
<1>5. CASE RlDrain \/ RlBuild \/ RlResendFails
  BY <1>5 DEF RlDrain, RlBuild, RlResendFails, CountMatchesSenders
<1>6. CASE RlAccept \/ RlReject \/ RlRecvCancel \/ RlCheck \/ RlResend
  BY <1>1, <1>6 DEF RlAccept, RlReject, RlRecvCancel, RlCheck, RlResend,
                    CountMatchesSenders
<1>7. CASE FrRegisterFails \/ FrStart \/ FrJoin
  BY <1>1, <1>7 DEF FrRegisterFails, FrStart, FrJoin, CountMatchesSenders
<1>8. CASE SendRequests
  BY <1>1, <1>8 DEF SendRequests, SrWait, SrInitial, SrSend, SrSendFails, SrRecv,
                    SrFinish, SrPick, SrLook, CountMatchesSenders
<1>9. ASSUME NEW c \in Conns, Connection(c)
      PROVE  CountMatchesSenders'
  BY <1>1, <1>9 DEF Connection, ConnEstablish, ConnFail, ConnTake, ConnOpen,
                    ConnRefused, SeederReplies, ConnDrop, ConnForward, ConnCancel,
                    ConnEnd, LinkClose, CountMatchesSenders
<1> QED
  BY <1>2, <1>3, <1>4, <1>5, <1>6, <1>7, <1>8, <1>9
     DEF Next, FileRequest, ReassembleLoop

\* The senders do not change while send_requests holds its read guard, and a
\* zero count is read only when the last sender is gone.
LEMMA SenderStep == IInv /\ Next => SenderHeld' /\ ZeroIsFailure' /\ BuildsWhole'
<1> SUFFICES ASSUME IInv, Next PROVE SenderHeld' /\ ZeroIsFailure' /\ BuildsWhole'
  OBVIOUS
<1> USE SizesAssumption DEF sharedVars, channels, frVars, srVars, rlVars, connVars,
        disk
<1>1. SenderHeld /\ ZeroIsFailure /\ BuildsWhole
  BY DEF IInv
<1>2. requestTxs \in Seq(Conns) /\ Len(requestTxs) \in Nat
  BY DEF IInv, TypeOK
<1>3. CASE FileRequest
  BY <1>1, <1>3 DEF FileRequest, FrSubscribe, FrRegisterFails, FrStart, FrJoin,
                    NextPhase, ReadLocked, SenderHeld, ZeroIsFailure, BuildsWhole
<1>4. CASE SendRequests
  <2>1. ASSUME NEW k \in Nat, NEW p, SrGet(k, p)
        PROVE  \/ srPc' = "error"
               \/ srPc' = "sending" /\ srMsg'.via \in ToSet(requestTxs)
    <3>1. k < Len(requestTxs) => k + 1 \in DOMAIN requestTxs
      BY <1>2, LenProperties
    <3> QED
      BY <2>1, <3>1 DEF SrGet, ToSet
  <2>2. CASE SrInitial
    <3>1. srI \in Nat /\ srNum \in Nat
      BY DEF IInv, TypeOK
    <3>2. srNum /= 0 => srI % srNum \in Nat
      BY <3>1
    <3>3. \/ srNum = 0 /\ srPc' = "panicked"
          \/ srPc' = "error"
          \/ srPc' = "sending" /\ srMsg'.via \in ToSet(requestTxs)
      BY <2>1, <2>2, <3>2 DEF SrInitial
    <3> QED
      BY <1>1, <2>2, <3>3 DEF SrInitial, SenderHeld, ZeroIsFailure, BuildsWhole
  <2>3. CASE SrLook
    <3>1. srMsg.seeder \in Nat
      BY DEF IInv, TypeOK
    <3>2. \/ srPc' = "error"
          \/ srPc' = "sending" /\ srMsg'.via \in ToSet(requestTxs)
      BY <2>1, <2>3, <3>1 DEF SrLook
    <3> QED
      BY <1>1, <2>3, <3>2 DEF SrLook, SenderHeld, ZeroIsFailure, BuildsWhole
  <2>4. CASE SrWait \/ SrPick
    BY <1>1, <2>4 DEF SrWait, SrPick, SenderHeld, ZeroIsFailure, BuildsWhole
  <2>5. CASE SrSend \/ SrSendFails \/ SrRecv \/ SrFinish
    BY <1>1, <2>5 DEF SrSend, SrSendFails, SrRecv, SrFinish, NextPhase, SenderHeld,
                      ZeroIsFailure, BuildsWhole
  <2> QED
    BY <1>4, <2>2, <2>3, <2>4, <2>5 DEF SendRequests
<1>5. CASE ReassembleLoop
  <2>1. UNCHANGED <<srPc, srNum, srMsg>>
    BY <1>5 DEF ReassembleLoop, RlAccept, RlReject, RlRecvCancel, RlRemove,
                RlDecrement, RlCheck, RlResend, RlResendFails, RlDrain,
                RlBuild
  <2>2. SenderHeld'
    <3>1. \/ requestTxs' = requestTxs
          \/ srPc /= "sending"
      BY <1>5 DEF ReassembleLoop, RlAccept, RlReject, RlRecvCancel, RlRemove,
                  RlDecrement, RlCheck, RlResend, RlResendFails, RlDrain,
                RlBuild, ReadLocked
    <3> QED
      BY <1>1, <2>1, <3>1 DEF SenderHeld
  <2>3. ZeroIsFailure'
    <3>1. /\ rlPc /= "failed"
          /\ rlPc = "checking" => rlPc' = "failed" \/ numConnections /= 0
          /\ \/ numConnections' = numConnections
             \/ rlPc = "decrementing" /\ rlPc' = "checking"
      BY <1>5 DEF ReassembleLoop, RlAccept, RlReject, RlRecvCancel, RlRemove,
                  RlDecrement, RlCheck, RlResend, RlResendFails, RlDrain,
                RlBuild
    <3> QED
      BY <1>1, <2>1, <3>1 DEF ZeroIsFailure
  <2>4. BuildsWhole'
    BY <1>1, <1>5 DEF ReassembleLoop, RlAccept, RlReject, RlRecvCancel, RlRemove,
                      RlDecrement, RlCheck, RlResend, RlResendFails, RlDrain,
                RlBuild,
                      BuildsWhole
  <2> QED
    BY <2>2, <2>3, <2>4
<1>6. ASSUME NEW c \in Conns, Connection(c)
      PROVE  SenderHeld' /\ ZeroIsFailure' /\ BuildsWhole'
  <2>1. /\ UNCHANGED <<numConnections, requestTxs, srPc, srNum, srMsg>>
        /\ UNCHANGED <<rlPc, received>>
    BY <1>6 DEF Connection, ConnEstablish, ConnFail, ConnTake, ConnOpen,
                ConnRefused, SeederReplies, ConnDrop, ConnForward, ConnCancel,
                ConnEnd, LinkClose
  <2> QED
    BY <1>1, <2>1 DEF SenderHeld, ZeroIsFailure, BuildsWhole
<1> QED
  BY <1>3, <1>4, <1>5, <1>6 DEF Next

\* Every step keeps the invariant.
LEMMA StepIInv == IInv /\ [Next]_vars => IInv'
<1> SUFFICES ASSUME IInv, [Next]_vars PROVE IInv'
  OBVIOUS
<1>1. CASE Next
  <2>1. TypeOK'
    BY <1>1, FileRequestType, SendRequestsType, ReassembleLoopType, ConnectionType
       DEF Next
  <2> QED
    BY <1>1, <2>1, MessagesHeldStep, CountStep, SenderStep DEF IInv
<1>2. CASE UNCHANGED vars
  BY <1>2 DEF vars, sharedVars, channels, frVars, srVars, rlVars, connVars, disk,
              IInv, TypeOK, MessagesHeld, CountMatchesSenders, SenderHeld,
              ZeroIsFailure, BuildsWhole
<1> QED
  BY <1>1, <1>2

\* The invariant holds in every reachable state.
THEOREM Invariance == Spec => []IInv
  BY InitIInv, StepIInv, PTL DEF Spec

-----------------------------------------------------------------------------
(* What follows.                                                           *)

\* The types: in particular num_connections, a usize, never goes below zero.
THEOREM TypesHold == Spec => []TypeOK
<1>1. IInv => TypeOK
  BY DEF IInv
<1> QED
  BY <1>1, Invariance, PTL

\* num_connections and request_txs agree whenever no Cancel is being handled.
THEOREM CountsAgree == Spec => []CountMatchesSenders
<1>1. IInv => CountMatchesSenders
  BY DEF IInv
<1> QED
  BY <1>1, Invariance, PTL

\* i % num_connections in send_requests panics only when reassemble_loop has
\* removed the last sender, and has failed or checks the count next.
THEOREM PanicsOnlyWithoutSenders == Spec => []PanicOnlyWithoutSenders
<1>1. IInv => PanicOnlyWithoutSenders
  <2> SUFFICES ASSUME IInv, NumConns > 0, srPc = "panicked"
               PROVE  /\ numConnections = 0
                      /\ requestTxs = <<>>
                      /\ rlPc \in {"checking", "failed"}
    BY DEF PanicOnlyWithoutSenders
  <2>1. numConnections = 0 /\ rlPc \in {"checking", "failed"}
    BY DEF IInv, ZeroIsFailure
  <2>2. /\ requestTxs \in Seq(Conns) /\ Len(requestTxs) \in Nat
        /\ frI \in 0 .. NumConns /\ NumConns \in Nat
    BY SizesAssumption DEF IInv, TypeOK
  <2>3. 0 = Len(requestTxs) + (NumConns - frI)
    BY <2>1, <2>2 DEF IInv, CountMatchesSenders
  <2>4. requestTxs = <<>>
    BY <2>2, <2>3, EmptySeq
  <2> QED
    BY <2>1, <2>4
<1> QED
  BY <1>1, Invariance, PTL

\* A sender that reassemble_loop removed is never used again.
THEOREM RemovedIsSilent == Spec => RemovedGetsNoRequest
<1> USE DEF sharedVars, channels, frVars, srVars, rlVars, connVars, disk
<1>1. ASSUME IInv, Next, NEW d \in Conns,
             Len(requestCh'[d]) > Len(requestCh[d])
      PROVE  d \in ToSet(requestTxs)
  <2>1. requestCh \in [Conns -> Seq(Message)] /\ Len(requestCh[d]) \in Nat
    BY <1>1 DEF IInv, TypeOK
  <2>2. CASE SrSend
    <3>1. requestCh'[d] /= requestCh[d]
      BY <1>1, <2>1
    <3>2. d = srMsg.via /\ srPc = "sending"
      BY <2>1, <2>2, <3>1 DEF SrSend
    <3> QED
      BY <1>1, <3>2 DEF IInv, SenderHeld
  <2>3. CASE FileRequest \/ ReassembleLoop
    <3>1. UNCHANGED requestCh
      BY <2>3 DEF FileRequest, FrSubscribe, FrRegisterFails, FrStart, FrJoin,
                  ReassembleLoop, RlAccept, RlReject, RlRecvCancel, RlRemove,
                  RlDecrement, RlCheck, RlResend, RlResendFails, RlDrain,
                RlBuild
    <3> QED
      BY <1>1, <2>1, <3>1
  <2>4. CASE SendRequests /\ ~SrSend
    <3>1. UNCHANGED requestCh
      BY <2>4 DEF SendRequests, SrWait, SrInitial, SrSendFails, SrRecv, SrFinish,
                  SrPick, SrLook
    <3> QED
      BY <1>1, <2>1, <3>1
  <2>5. ASSUME NEW c \in Conns, Connection(c)
        PROVE  FALSE
    <3>1. \/ UNCHANGED requestCh
          \/ requestCh' = [requestCh EXCEPT ![c] = <<>>]
          \/ /\ requestCh[c] /= <<>>
             /\ requestCh' = [requestCh EXCEPT ![c] = Tail(@)]
      BY <2>5 DEF Connection, ConnEstablish, ConnFail, ConnTake, ConnOpen,
                  ConnRefused, SeederReplies, ConnDrop, ConnForward, ConnCancel,
                  ConnEnd, LinkClose
    <3>2. requestCh[c] /= <<>> => Len(Tail(requestCh[c])) = Len(requestCh[c]) - 1
      BY <2>1, HeadTailProperties
    <3> QED
      BY <1>1, <2>1, <3>1, <3>2
  <2> QED
    BY <1>1, <2>2, <2>3, <2>4, <2>5 DEF Next
<1>2. IInv /\ [Next]_vars =>
        [\A c \in Conns : Len(requestCh'[c]) > Len(requestCh[c])
                             => c \in ToSet(requestTxs)]_vars
  BY <1>1
<1> QED
  BY <1>2, Invariance, PTL DEF Spec, RemovedGetsNoRequest

\* The tasks of a download, their channels and their peers implement the
\* abstract download.
THEOREM Refinement == Spec => ImplementsDownload
<1> USE DEF sharedVars, channels, frVars, srVars, rlVars, connVars, disk
<1>1. Init => D!Init
  BY ChoicesAssumption DEF Init, Status, D!Init, D!Content, D!Verified
<1>2. ASSUME IInv, Next
      PROVE  [D!Next]_(D!vars)
  <2>1. CASE UNCHANGED <<part, received, file, rlPc>>
    BY <2>1 DEF D!vars, Status
  <2>2. CASE RlAccept
    <3> DEFINE m == Head(connCh)
    <3>1. m.index \in Pieces /\ m.body \in {"good", "bad"}
      <4>1. m \in Message
        BY <1>2, <2>2, ChannelTypes DEF RlAccept, IInv, TypeOK
      <4> QED
        BY <2>2, <4>1 DEF RlAccept, Accepted, Message
    <3>2. D!Accept(m.index, m.body)
      BY <2>2 DEF RlAccept, Accepted, D!Accept, Status
    <3> QED
      BY <3>1, <3>2 DEF D!Next
  <2>3. CASE RlBuild
    <3>1. received = Pieces
      BY <1>2, <2>3 DEF RlBuild, IInv, BuildsWhole
    <3> QED
      BY <2>3, <3>1 DEF RlBuild, D!Next, D!Complete, D!GiveUp, Status
  <2>4. CASE RlRemove \/ RlDecrement \/ RlCheck \/ RlResendFails
    BY <2>4 DEF RlRemove, RlDecrement, RlCheck, RlResendFails, D!Next, D!GiveUp,
                D!vars, Status
  <2>5. CASE RlReject \/ RlRecvCancel \/ RlResend \/ RlDrain
    BY <2>5 DEF RlReject, RlRecvCancel, RlResend, RlDrain, D!vars, Status
  <2>6. CASE FileRequest \/ SendRequests
    BY <2>6, <2>1 DEF FileRequest, FrSubscribe, FrRegisterFails, FrStart, FrJoin,
         SendRequests, SrWait, SrInitial, SrSend, SrSendFails, SrRecv, SrFinish,
         SrPick, SrLook
  <2>7. ASSUME NEW c \in Conns, Connection(c)
        PROVE  UNCHANGED <<part, received, file, rlPc>>
    BY <2>7 DEF Connection, ConnEstablish, ConnFail, ConnTake, ConnOpen,
                ConnRefused, SeederReplies, ConnDrop, ConnForward, ConnCancel,
                ConnEnd, LinkClose
  <2> QED
    BY <1>2, <2>1, <2>2, <2>3, <2>4, <2>5, <2>6, <2>7 DEF Next, ReassembleLoop
<1>3. UNCHANGED vars => UNCHANGED D!vars
  BY DEF vars, D!vars, Status
<1> QED
  BY <1>1, <1>2, <1>3, Invariance, PTL DEF Spec, ImplementsDownload, D!Spec
=============================================================================
