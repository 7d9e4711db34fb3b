---------------------------- MODULE RequestProofs ----------------------------
(***************************************************************************)
(* Where the requests of a download are, for every number of pieces and    *)
(* connections, every channel capacity and every set of faults: each piece *)
(* has one request at most, none is lost except with its connection, and   *)
(* send_requests does not fail before a connection does.                   *)
(***************************************************************************)
EXTENDS FileAssemblerProofs, FiniteSetTheorems

\* Who may have the request for a piece.
Unsent == <<"unsent", NoConn>>
Sender == <<"send_requests", NoConn>>
Assembler == <<"reassemble_loop", NoConn>>
Task(c) == <<"recv_data", c>>
Channel(c) == <<"request", c>>
Replies == <<"conn", NoConn>>
Resends == <<"resend", NoConn>>
Holders ==
  {Unsent, Sender, Assembler, Replies, Resends}
    \cup {Task(c) : c \in Conns} \cup {Channel(c) : c \in Conns}

\* The pieces whose request each of them has.
Indices(ch) == {ch[i].index : i \in DOMAIN ch}
Resending == srI = NumPieces /\ srPc \in {"picking", "looking", "sending"}
held ==
  [h \in Holders |->
     CASE h[1] = "unsent" -> {p \in Pieces : p >= srI}
       [] h[1] = "send_requests" -> Here(Resending, srMsg.index)
       [] h[1] = "reassemble_loop" -> Here(rlMsg # NoMsg, rlMsg.index)
       [] h[1] = "recv_data" -> Here(conn[h[2]].msg # NoMsg, conn[h[2]].msg.index)
       [] h[1] = "request" -> Indices(requestCh[h[2]])
       [] h[1] = "conn" -> Indices(connCh)
       [] h[1] = "resend" -> ToSet(resendCh)]

\* A channel has each piece once at most.
Once(ch) == \A i, j \in DOMAIN ch : ch[i].index = ch[j].index => i = j
Distinct(s) == \A i, j \in DOMAIN s : s[i] = s[j] => i = j

\* No piece is with two holders, and no channel has it twice.
NoOverlap == \A h, k \in Holders : held[h] \cap held[k] # {} => h = k
Alone ==
  /\ NoOverlap
  /\ \A c \in Conns : Once(requestCh[c])
  /\ Once(connCh)
  /\ Distinct(resendCh)

\* A task that is between two messages has none, and the first loop sends the
\* request for the piece it has come to.
HandsEmpty ==
  /\ srPc \in {"resending", "picking", "looking"} => srI = NumPieces
  /\ srPc = "sending" /\ srI < NumPieces => srMsg.index = srI
  /\ rlPc \in {"receiving", "draining", "building", "built"} => rlMsg = NoMsg
  /\ \A c \in Conns :
       /\ conn[c].at \in {"none", "connecting", "idle", "closed"} => conn[c].msg = NoMsg
       /\ c > frI => conn[c].at = "none"

\* A request channel carries requests, no replies.
Requests == {m \in Message : m.body = "request"}
RequestsOnly == \A c \in Conns : requestCh[c] \in Seq(Requests)

\* While both tasks run, every piece that is not recorded is with a holder.
Somewhere ==
  ~SrEnded /\ ~RlEnded /\ ~Happened({"connect", "drop"}) =>
    \A p \in Pieces \ received : \E h \in Holders : p \in held[h]

\* A download that starts with nothing asks for nothing it has.
Fresh == Resume = {{}}
NotHeldTwice == Fresh => \A h \in Holders : held[h] \cap received = {}

\* As long as no connection fails, none is removed: the list has all of them
\* when send_requests begins, and those in it are open.
Failure == {"connect", "close", "drop", "missing"}
Healthy ==
  /\ srPc \notin {"spawned", "waiting"} => frI = NumConns
  /\ ~Happened(Failure) /\ ~RlEnded =>
       /\ numConnections = NumConns
       /\ rlPc \notin {"removing", "decrementing", "checking"}
       /\ \A i \in DOMAIN connCh : connCh[i].body # "cancel"
       /\ \A c \in Conns :
            /\ conn[c].at # "cancelling" /\ conn[c].msg.body # "cancel"
            /\ conn[c].at \in {"idle", "opening", "waiting", "forwarding"} => linkUp[c]
            /\ conn[c].at = "closed" => c \notin ToSet(requestTxs)
       /\ srPc = "looking" => srMsg.seeder < NumConns
       /\ srPc = "error" => received = Pieces /\ ~Fresh

RInv ==
  /\ IInv
  /\ HandsEmpty
  /\ RequestsOnly
  /\ Alone
  /\ Somewhere
  /\ NotHeldTwice
  /\ Healthy

-----------------------------------------------------------------------------
(* Holders and channels.                                                   *)

\* The holders are of seven kinds.
LEMMA HolderForm ==
  \A h \in Holders :
    \/ h \in {Unsent, Sender, Assembler, Replies, Resends}
    \/ \E c \in Conns : h = Task(c) \/ h = Channel(c)
  BY DEF Holders

\* No two of them are the same.
LEMMA HoldersDiffer ==
  /\ Unsent # Sender /\ Unsent # Assembler /\ Unsent # Replies /\ Unsent # Resends
  /\ Sender # Assembler /\ Sender # Replies /\ Sender # Resends
  /\ Assembler # Replies /\ Assembler # Resends /\ Replies # Resends
  /\ \A c \in Conns :
       /\ Task(c) \notin {Unsent, Sender, Assembler, Replies, Resends}
       /\ Channel(c) \notin {Unsent, Sender, Assembler, Replies, Resends}
       /\ \A d \in Conns : Task(c) # Channel(d)
       /\ \A d \in Conns : c # d => Task(c) # Task(d) /\ Channel(c) # Channel(d)
  BY DEF Unsent, Sender, Assembler, Replies, Resends, Task, Channel

\* What each of them holds, before and after a step.
HeldValues ==
  /\ held[Unsent] = {p \in Pieces : p >= srI}
  /\ held[Sender] = Here(Resending, srMsg.index)
  /\ held[Assembler] = Here(rlMsg # NoMsg, rlMsg.index)
  /\ held[Replies] = Indices(connCh)
  /\ held[Resends] = ToSet(resendCh)
  /\ \A c \in Conns :
       /\ held[Task(c)] = Here(conn[c].msg # NoMsg, conn[c].msg.index)
       /\ held[Channel(c)] = Indices(requestCh[c])

\* What each holder has, now and after the step.
LEMMA HeldAt == HeldValues /\ HeldValues'
<1>1. /\ {Unsent, Sender, Assembler, Replies, Resends} \subseteq Holders
      /\ \A c \in Conns : Task(c) \in Holders /\ Channel(c) \in Holders
  BY DEF Holders
<1> HIDE DEF Holders
<1> QED
  BY <1>1 DEF HeldValues, held, Unsent, Sender, Assembler, Replies, Resends, Task, Channel

\* A holder keeps what it has if the variables it is read from stay.
LEMMA HeldFrame ==
  /\ UNCHANGED srI => held'[Unsent] = held[Unsent]
  /\ UNCHANGED <<srI, srPc, srMsg>> => held'[Sender] = held[Sender]
  /\ UNCHANGED rlMsg => held'[Assembler] = held[Assembler]
  /\ UNCHANGED connCh => held'[Replies] = held[Replies]
  /\ UNCHANGED resendCh => held'[Resends] = held[Resends]
  /\ \A c \in Conns :
       /\ conn'[c].msg = conn[c].msg => held'[Task(c)] = held[Task(c)]
       /\ requestCh'[c] = requestCh[c] => held'[Channel(c)] = held[Channel(c)]
<1>1. HeldValues /\ HeldValues'
  BY HeldAt
<1>2. UNCHANGED <<srI, srPc, srMsg>> => held'[Sender] = held[Sender]
  BY <1>1 DEF HeldValues, Resending
<1>3. ASSUME NEW c \in Conns
      PROVE  /\ conn'[c].msg = conn[c].msg => held'[Task(c)] = held[Task(c)]
             /\ requestCh'[c] = requestCh[c] => held'[Channel(c)] = held[Channel(c)]
  BY <1>1 DEF HeldValues
<1> QED
  BY <1>1, <1>2, <1>3 DEF HeldValues

\* Sending adds the piece of the message to those of the channel.
LEMMA IndicesAppend ==
  ASSUME NEW s \in Seq(Message), NEW m \in Message
  PROVE  /\ Indices(Append(s, m)) = Indices(s) \cup {m.index}
         /\ Once(s) /\ m.index \notin Indices(s) => Once(Append(s, m))
<1> DEFINE t == Append(s, m)
<1>1. /\ Len(s) \in Nat /\ DOMAIN s = 1 .. Len(s) /\ DOMAIN t = 1 .. Len(s) + 1
      /\ \A i \in 1 .. Len(s) : t[i] = s[i]
      /\ t[Len(s) + 1] = m
  OBVIOUS
<1> HIDE DEF t
<1>2. Indices(t) = Indices(s) \cup {m.index}
  BY <1>1 DEF Indices
<1>3. ASSUME Once(s), m.index \notin Indices(s) PROVE Once(t)
  BY <1>1, <1>3 DEF Once, Indices
<1> QED
  BY <1>2, <1>3 DEF t

\* Receiving takes the piece of the first message.
LEMMA IndicesTail ==
  ASSUME NEW s \in Seq(Message), s # <<>>
  PROVE  /\ Head(s).index \in Indices(s)
         /\ Once(s) => /\ Indices(Tail(s)) = Indices(s) \ {Head(s).index}
                       /\ Once(Tail(s))
<1> DEFINE t == Tail(s)
<1>1. /\ Len(s) \in Nat \ {0} /\ DOMAIN s = 1 .. Len(s) /\ DOMAIN t = 1 .. Len(s) - 1
      /\ \A i \in 1 .. Len(s) - 1 : t[i] = s[i + 1]
      /\ Head(s) = s[1]
  BY HeadTailProperties
<1> HIDE DEF t
<1>2. Head(s).index \in Indices(s)
  BY <1>1 DEF Indices
<1>3. ASSUME Once(s) PROVE Once(t)
  BY <1>1, <1>3 DEF Once
<1>4. ASSUME Once(s) PROVE Indices(t) = Indices(s) \ {Head(s).index}
  <2>1. ASSUME NEW i \in DOMAIN t
        PROVE  t[i].index \in Indices(s) /\ t[i].index # Head(s).index
    BY <1>1, <1>4, <2>1 DEF Indices, Once
  <2>2. ASSUME NEW i \in DOMAIN s, s[i].index # Head(s).index
        PROVE  s[i].index \in Indices(t)
    <3>1. i - 1 \in DOMAIN t /\ t[i - 1] = s[i]
      BY <1>1, <2>2
    <3> QED
      BY <3>1 DEF Indices
  <2> QED
    BY <2>1, <2>2 DEF Indices
<1> QED
  BY <1>2, <1>3, <1>4 DEF t

\* The same for the resend channel, which carries pieces.
LEMMA ResendAppend ==
  ASSUME NEW s \in Seq(Pieces), NEW p \in Pieces
  PROVE  /\ ToSet(Append(s, p)) = ToSet(s) \cup {p}
         /\ Distinct(s) /\ p \notin ToSet(s) => Distinct(Append(s, p))
<1> DEFINE t == Append(s, p)
<1>1. /\ Len(s) \in Nat /\ DOMAIN s = 1 .. Len(s) /\ DOMAIN t = 1 .. Len(s) + 1
      /\ \A i \in 1 .. Len(s) : t[i] = s[i]
      /\ t[Len(s) + 1] = p
  OBVIOUS
<1> HIDE DEF t
<1>2. ToSet(t) = ToSet(s) \cup {p}
  BY <1>1 DEF ToSet
<1>3. ASSUME Distinct(s), p \notin ToSet(s) PROVE Distinct(t)
  BY <1>1, <1>3 DEF Distinct, ToSet
<1> QED
  BY <1>2, <1>3 DEF t

\* Receiving from it takes the first piece.
LEMMA ResendTail ==
  ASSUME NEW s \in Seq(Pieces), s # <<>>
  PROVE  /\ Head(s) \in ToSet(s)
         /\ Distinct(s) => /\ ToSet(Tail(s)) = ToSet(s) \ {Head(s)}
                           /\ Distinct(Tail(s))
<1> DEFINE t == Tail(s)
<1>1. /\ Len(s) \in Nat \ {0} /\ DOMAIN s = 1 .. Len(s) /\ DOMAIN t = 1 .. Len(s) - 1
      /\ \A i \in 1 .. Len(s) - 1 : t[i] = s[i + 1]
      /\ Head(s) = s[1]
  BY HeadTailProperties
<1> HIDE DEF t
<1>2. Head(s) \in ToSet(s)
  BY <1>1 DEF ToSet
<1>3. ASSUME Distinct(s) PROVE Distinct(t)
  BY <1>1, <1>3 DEF Distinct
<1>4. ASSUME Distinct(s) PROVE ToSet(t) = ToSet(s) \ {Head(s)}
  <2>1. ASSUME NEW i \in DOMAIN t
        PROVE  t[i] \in ToSet(s) /\ t[i] # Head(s)
    BY <1>1, <1>4, <2>1 DEF ToSet, Distinct
  <2>2. ASSUME NEW i \in DOMAIN s, s[i] # Head(s)
        PROVE  s[i] \in ToSet(t)
    <3>1. i - 1 \in DOMAIN t /\ t[i - 1] = s[i]
      BY <1>1, <2>2
    <3> QED
      BY <3>1 DEF ToSet
  <2> QED
    BY <2>1, <2>2 DEF ToSet
<1> QED
  BY <1>2, <1>3, <1>4 DEF t

\* A fault stays on record (Inject).
LEMMA FaultsStay ==
  ASSUME TypeOK, NEW kind, Inject(kind)
  PROVE  /\ kind \in ToSet(faults')
         /\ \A kinds : Happened(kinds) => Happened(kinds)'
<1> DEFINE t == Append(faults, kind)
<1>0. faults \in Seq(Faults) /\ faults' = t
  BY DEF TypeOK, Inject
<1>1. /\ Len(faults) \in Nat
      /\ DOMAIN faults = 1 .. Len(faults) /\ DOMAIN t = 1 .. Len(faults) + 1
      /\ \A i \in 1 .. Len(faults) : t[i] = faults[i]
      /\ t[Len(faults) + 1] = kind
  BY <1>0
<1> HIDE DEF t
<1>2. kind \in ToSet(t) /\ ToSet(faults) \subseteq ToSet(t)
  BY <1>1 DEF ToSet
<1> QED
  BY <1>0, <1>2 DEF Happened

-----------------------------------------------------------------------------
(* What a step does to the requests.                                       *)

\* Everything stays; a request goes from one holder to another; one is answered
\* and its piece recorded; or some are lost, with a task or a connection.
Kept ==
  /\ \A h \in Holders : held'[h] = held[h]
  /\ UNCHANGED received
Moved(h0, k0, p) ==
  /\ h0 # k0 /\ p \in held[h0]
  /\ held'[h0] = held[h0] \ {p}
  /\ held'[k0] = held[k0] \cup {p}
  /\ \A h \in Holders \ {h0, k0} : held'[h] = held[h]
  /\ UNCHANGED received
Recorded(p) ==
  /\ p \in held[Replies]
  /\ held'[Replies] = held[Replies] \ {p}
  /\ \A h \in Holders \ {Replies} : held'[h] = held[h]
  /\ received' = received \cup {p}
Lost ==
  /\ \A h \in Holders : held'[h] \subseteq held[h]
  /\ UNCHANGED received
  /\ SrEnded' \/ RlEnded' \/ Happened({"connect", "drop"})'
Outcome ==
  \/ Kept \/ Lost
  \/ \E h0, k0 \in Holders : \E p \in Pieces : Moved(h0, k0, p)
  \/ \E p \in Pieces : Recorded(p)

\* A task that has ended stays so, and a fault stays on record.
LEMMA EndsStay ==
  IInv /\ Next => /\ SrEnded => SrEnded'
                  /\ RlEnded => RlEnded'
                  /\ \A kinds : Happened(kinds) => Happened(kinds)'
<1> SUFFICES ASSUME IInv, Next
             PROVE  /\ SrEnded => SrEnded'
                    /\ RlEnded => RlEnded'
                    /\ \A kinds : Happened(kinds) => Happened(kinds)'
  OBVIOUS
<1> USE DEF sharedVars, channels, frVars, srVars, rlVars, connVars, disk, IInv
<1>1. CASE FileRequest
  BY <1>1, FaultsStay DEF FileRequest, FrSubscribe, FrRegisterFails, FrStart, FrJoin,
                          SrEnded, RlEnded, Happened
<1>2. CASE SendRequests
  BY <1>2 DEF SendRequests, SrWait, SrInitial, SrSend, SrSendFails, SrRecv, SrFinish,
              SrPick, SrLook, SrEnded, RlEnded, Happened
<1>3. CASE ReassembleLoop
  BY <1>3 DEF ReassembleLoop, RlAccept, RlReject, RlRecvCancel, RlRemove, RlDecrement,
              RlCheck, RlResend, RlResendFails, RlDrain, RlBuild, SrEnded, RlEnded, Happened
<1>4. ASSUME NEW c \in Conns, Connection(c)
      PROVE  /\ SrEnded => SrEnded'
             /\ RlEnded => RlEnded'
             /\ \A kinds : Happened(kinds) => Happened(kinds)'
  <2>1. UNCHANGED <<srPc, rlPc>>
    BY <1>4 DEF Connection, ConnEstablish, ConnFail, ConnTake, ConnOpen, ConnRefused,
                SeederReplies, ConnDrop, ConnForward, ConnCancel, ConnEnd, LinkClose
  <2>2. UNCHANGED faults \/ \E kind : Inject(kind)
    BY <1>4 DEF Connection, ConnEstablish, ConnFail, ConnTake, ConnOpen, ConnRefused,
                SeederReplies, ConnDrop, ConnForward, ConnCancel, ConnEnd, LinkClose
  <2> QED
    BY <2>1, <2>2, FaultsStay DEF SrEnded, RlEnded, Happened
<1> QED
  BY <1>1, <1>2, <1>3, <1>4 DEF Next

\* Such a step keeps each request with one holder and loses none unseen.
LEMMA OutcomeKeeps ==
  RInv /\ Next /\ Outcome => NoOverlap' /\ Somewhere' /\ NotHeldTwice'
<1> SUFFICES ASSUME RInv, Next, Outcome
             PROVE  NoOverlap' /\ Somewhere' /\ NotHeldTwice'
  OBVIOUS
<1>1. NoOverlap /\ Somewhere /\ NotHeldTwice /\ IInv
  BY DEF RInv, Alone
<1>2. /\ ~SrEnded' => ~SrEnded
      /\ ~RlEnded' => ~RlEnded
      /\ ~Happened({"connect", "drop"})' => ~Happened({"connect", "drop"})
  BY <1>1, EndsStay
<1>3. CASE Kept
  BY <1>1, <1>2, <1>3 DEF Kept, NoOverlap, Somewhere, NotHeldTwice
<1>4. CASE Lost
  BY <1>1, <1>4 DEF Lost, NoOverlap, Somewhere, NotHeldTwice
<1>5. ASSUME NEW h0 \in Holders, NEW k0 \in Holders, NEW p \in Pieces, Moved(h0, k0, p)
      PROVE  NoOverlap' /\ Somewhere' /\ NotHeldTwice'
  <2>0. /\ p \in held[h0] /\ held'[h0] = held[h0] \ {p}
        /\ held'[k0] = held[k0] \cup {p} /\ p \notin held[k0]
        /\ \A h \in Holders \ {h0, k0} : held'[h] = held[h] /\ p \notin held[h]
    BY <1>1, <1>5 DEF Moved, NoOverlap
  <2>1. ASSUME NEW h \in Holders, NEW q, q \in held'[h]
        PROVE  IF q = p THEN h = k0 ELSE q \in held[h]
    <3> HIDE DEF held
    <3>1. CASE h = h0
      BY <2>0, <2>1, <3>1
    <3>2. CASE h = k0
      BY <2>0, <2>1, <3>2
    <3>3. CASE h \notin {h0, k0}
      BY <2>0, <2>1, <3>3
    <3> QED
      BY <3>1, <3>2, <3>3
  <2>2. NoOverlap'
    BY <1>1, <2>1 DEF NoOverlap
  <2>3. NotHeldTwice'
    BY <1>1, <1>5, <2>1 DEF NotHeldTwice, Moved
  <2>4. ASSUME NEW h \in Holders, NEW q \in held[h]
        PROVE  \E k \in Holders : q \in held'[k]
    BY <1>5, <2>4 DEF Moved
  <2>5. Somewhere'
    BY <1>1, <1>2, <1>5, <2>4 DEF Somewhere, Moved
  <2> QED
    BY <2>2, <2>3, <2>5
<1>6. ASSUME NEW p \in Pieces, Recorded(p)
      PROVE  NoOverlap' /\ Somewhere' /\ NotHeldTwice'
  <2>0. Replies \in Holders
    BY DEF Holders
  <2>1. ASSUME NEW h \in Holders, NEW q \in held'[h]
        PROVE  q # p /\ q \in held[h]
    BY <1>1, <1>6, <2>0, <2>1 DEF Recorded, NoOverlap
  <2>2. NoOverlap'
    BY <1>1, <2>1 DEF NoOverlap
  <2>3. NotHeldTwice'
    BY <1>1, <1>6, <2>1 DEF NotHeldTwice, Recorded
  <2>4. ASSUME NEW h \in Holders, NEW q \in held[h], q # p
        PROVE  q \in held'[h]
    BY <1>6, <2>4 DEF Recorded
  <2>5. Somewhere'
    BY <1>1, <1>2, <1>6, <2>4 DEF Somewhere, Recorded
  <2> QED
    BY <2>2, <2>3, <2>5
<1> QED
  BY <1>3, <1>4, <1>5, <1>6 DEF Outcome

\* file_request subscribes connections and moves no request.
LEMMA FileRequestHeld == RInv /\ FileRequest => Outcome
<1> SUFFICES ASSUME RInv, FileRequest PROVE Kept
  BY DEF Outcome
<1>1. /\ UNCHANGED <<srI, srMsg, rlMsg, requestCh, connCh, resendCh, received>>
      /\ srPc' # srPc => srPc = "waiting" /\ srPc' \in {"initial", "resending"}
      /\ \A c \in Conns : conn'[c].msg = conn[c].msg
  <2>1. conn \in [Conns -> [at : {"none", "connecting", "idle", "opening",
                               "waiting", "forwarding", "cancelling", "closed"},
                            msg : Message \cup {NoMsg}]]
    BY DEF RInv, IInv, TypeOK
  <2>2. UNCHANGED conn \/ conn' = [conn EXCEPT ![frI + 1].at = "connecting"]
    BY DEF FileRequest, FrSubscribe, FrRegisterFails, FrStart, FrJoin, connVars
  <2> QED
    BY <2>1, <2>2 DEF FileRequest, FrSubscribe, FrRegisterFails, FrStart, FrJoin, NextPhase,
         sharedVars, channels, frVars, srVars, rlVars, connVars, disk
<1>2. held'[Sender] = held[Sender]
  <2>1. Resending' = Resending
    BY <1>1 DEF Resending
  <2> QED
    BY <1>1, <2>1, HeldAt DEF HeldValues
<1> QED
  BY <1>1, <1>2, HolderForm, HeldFrame DEF Kept

\* send_requests hands one request to a connection, or takes one from the resend
\* channel; it drops one only when it ends.
LEMMA SendRequestsHeld == RInv /\ SendRequests => Outcome
<1> SUFFICES ASSUME RInv, SendRequests PROVE Outcome
  OBVIOUS
<1> USE DEF sharedVars, channels, frVars, srVars, rlVars, connVars, disk
<1>1. /\ UNCHANGED <<rlMsg, connCh, received, conn>>
      /\ held'[Assembler] = held[Assembler] /\ held'[Replies] = held[Replies]
      /\ \A c \in Conns : held'[Task(c)] = held[Task(c)]
  <2>1. UNCHANGED <<rlMsg, connCh, received, conn>>
    BY DEF SendRequests, SrWait, SrInitial, SrSend, SrSendFails, SrRecv, SrFinish,
           SrPick, SrLook
  <2> QED
    BY <2>1, HeldFrame
<1>2. HandsEmpty /\ Alone /\ TypeOK /\ MessagesHeld /\ HeldValues /\ HeldValues'
  BY HeldAt DEF RInv, IInv
<1>3. CASE SrSend
  <2> DEFINE v == srMsg.via
             p == srMsg.index
             from == IF srI < NumPieces THEN Unsent ELSE Sender
  <2>1. srMsg \in Message /\ v \in Conns /\ p \in Pieces
    BY <1>2, <1>3 DEF SrSend, MessagesHeld, Message
  <2>2. /\ held'[Channel(v)] = held[Channel(v)] \cup {p}
        /\ \A c \in Conns \ {v} : held'[Channel(c)] = held[Channel(c)]
    <3>1. /\ requestCh \in [Conns -> Seq(Message)]
          /\ requestCh' = [requestCh EXCEPT ![v] = Append(@, srMsg)]
      BY <1>2, <1>3 DEF SrSend, TypeOK
    <3>2. Indices(requestCh'[v]) = Indices(requestCh[v]) \cup {p}
      BY <2>1, <3>1, IndicesAppend
    <3>3. \A c \in Conns \ {v} : requestCh'[c] = requestCh[c]
      BY <3>1
    <3> QED
      BY <1>2, <2>1, <3>2, <3>3 DEF HeldValues
  <2>3. held'[Resends] = held[Resends]
    BY <1>3, HeldFrame DEF SrSend
  <2>4. srI \in Nat /\ NumPieces \in Nat /\ srI <= NumPieces /\ srPc = "sending"
    BY <1>2, <1>3, SizesAssumption DEF SrSend, TypeOK
  <2>5. CASE srI < NumPieces
    <3>1. p = srI /\ srI' = srI + 1 /\ ~Resending /\ ~Resending'
      BY <1>2, <1>3, <2>4, <2>5 DEF SrSend, HandsEmpty, Resending, NextPhase
    <3>2. held'[Sender] = held[Sender]
      BY <1>2, <3>1 DEF HeldValues, Here
    <3>3. p \in held[Unsent] /\ held'[Unsent] = held[Unsent] \ {p}
      BY <1>2, <2>1, <2>4, <3>1 DEF HeldValues, Pieces
    <3>4. Moved(Unsent, Channel(v), p)
      BY <1>1, <2>1, <2>2, <2>3, <3>2, <3>3, HolderForm, HoldersDiffer DEF Moved
    <3> QED
      BY <2>1, <3>4 DEF Outcome, Holders
  <2>6. CASE ~(srI < NumPieces)
    <3>1. srI = NumPieces /\ srI' = srI /\ Resending /\ ~Resending'
      BY <1>3, <2>4, <2>6 DEF SrSend, Resending
    <3>2. held'[Unsent] = held[Unsent]
      BY <3>1, HeldFrame
    <3>3. p \in held[Sender] /\ held'[Sender] = held[Sender] \ {p}
      BY <1>2, <3>1 DEF HeldValues, Here
    <3>4. Moved(Sender, Channel(v), p)
      BY <1>1, <2>1, <2>2, <2>3, <3>2, <3>3, HolderForm, HoldersDiffer DEF Moved
    <3> QED
      BY <2>1, <3>4 DEF Outcome, Holders
  <2> QED
    BY <2>5, <2>6
<1>4. CASE SrRecv
  <2> DEFINE p == Head(resendCh)
  <2>1. /\ resendCh \in Seq(Pieces) /\ resendCh # <<>> /\ resendCh' = Tail(resendCh)
        /\ Distinct(resendCh)
    BY <1>2, <1>4 DEF SrRecv, TypeOK, Alone
  <2>2. p \in held[Resends] /\ held'[Resends] = held[Resends] \ {p} /\ p \in Pieces
    BY <1>2, <2>1, ResendTail, ChannelTypes DEF HeldValues
  <2>3. ~Resending /\ Resending' /\ srMsg'.index = p
    BY <1>2, <1>4 DEF SrRecv, HandsEmpty, Resending, NoMsg
  <2>4. held'[Sender] = held[Sender] \cup {p}
    BY <1>2, <2>3 DEF HeldValues, Here
  <2>5. held'[Unsent] = held[Unsent] /\ \A c \in Conns : held'[Channel(c)] = held[Channel(c)]
    BY <1>4, HeldFrame DEF SrRecv
  <2>6. Moved(Resends, Sender, p)
    BY <1>1, <2>2, <2>4, <2>5, HolderForm, HoldersDiffer DEF Moved
  <2> QED
    BY <2>2, <2>6 DEF Outcome, Holders
<1>5. CASE SendRequests /\ ~SrSend /\ ~SrRecv
  <2>1. UNCHANGED <<srI, requestCh, resendCh>>
    BY <1>5 DEF SendRequests, SrWait, SrInitial, SrSendFails, SrFinish, SrPick, SrLook
  <2>2. /\ held'[Unsent] = held[Unsent] /\ held'[Resends] = held[Resends]
        /\ \A c \in Conns : held'[Channel(c)] = held[Channel(c)]
    BY <2>1, HeldFrame
  <2>3. \/ ~Resending'
        \/ Resending /\ Resending' /\ srMsg'.index = srMsg.index
    <3>1. CASE SrWait \/ SrSendFails \/ SrFinish
      BY <3>1 DEF SrWait, SrSendFails, SrFinish, Resending
    <3>2. CASE SrInitial
      <4>1. srI \in Nat /\ srI # NumPieces
        BY <1>2, <3>2, SizesAssumption DEF SrInitial, MessagesHeld, Pieces
      <4> QED
        BY <2>1, <4>1 DEF Resending
    <3>3. CASE SrPick
      <4>1. srMsg' = [srMsg EXCEPT !.seeder = srTurn % numConnections] \/ srPc' = "panicked"
        BY <3>3 DEF SrPick
      <4>2. srMsg' = [srMsg EXCEPT !.seeder = srTurn % numConnections] =>
              srMsg'.index = srMsg.index
        BY <1>2 DEF TypeOK
      <4>3. srPc = "picking" /\ srI = NumPieces /\ srI' = srI /\ srPc' \in {"looking", "panicked"}
        BY <1>2, <3>3 DEF SrPick, HandsEmpty
      <4> QED
        BY <4>1, <4>2, <4>3 DEF Resending
    <3>4. CASE SrLook
      <4>1. srPc = "looking" /\ srI = NumPieces /\ srI' = srI
        BY <1>2, <3>4 DEF SrLook, HandsEmpty
      <4>2. srPc' = "error" \/ (srPc' = "sending" /\ srMsg'.index = srMsg.index)
        BY <3>4 DEF SrLook, SrGet
      <4> QED
        BY <4>1, <4>2 DEF Resending
    <3> QED
      BY <1>5, <3>1, <3>2, <3>3, <3>4 DEF SendRequests
  <2>4. SrEnded' \/ Resending' \/ ~Resending
    BY <1>2, <1>5
       DEF SendRequests, SrWait, SrInitial, SrSendFails, SrFinish, SrPick, SrLook, SrGet,
           Resending, SrEnded
  <2>5. CASE Resending' \/ ~Resending
    <3>1. held'[Sender] = held[Sender]
      BY <1>2, <2>3, <2>5 DEF HeldValues, Here
    <3> QED
      BY <1>1, <2>2, <3>1, HolderForm DEF Kept, Outcome
  <2>6. CASE SrEnded' /\ ~Resending'
    <3>1. held'[Sender] = {}
      BY <1>2, <2>6 DEF HeldValues, Here
    <3> QED
      BY <1>1, <2>2, <2>6, <3>1, HolderForm DEF Lost, Outcome
  <2> QED
    BY <2>4, <2>5, <2>6
<1> QED
  BY <1>3, <1>4, <1>5

\* reassemble_loop takes a reply, records its piece or passes the request on.
LEMMA ReassembleLoopHeld == RInv /\ ReassembleLoop => Outcome
<1> SUFFICES ASSUME RInv, ReassembleLoop PROVE Outcome
  OBVIOUS
<1> USE DEF sharedVars, channels, frVars, srVars, rlVars, connVars, disk
<1>1. /\ held'[Unsent] = held[Unsent] /\ held'[Sender] = held[Sender]
      /\ \A c \in Conns : held'[Task(c)] = held[Task(c)]
      /\ \A c \in Conns : held'[Channel(c)] = held[Channel(c)]
  <2>1. UNCHANGED <<srI, srPc, srMsg, conn, requestCh>>
    BY DEF ReassembleLoop, RlAccept, RlReject, RlRecvCancel, RlRemove, RlDecrement,
           RlCheck, RlResend, RlResendFails, RlDrain, RlBuild
  <2> QED
    BY <2>1, HeldFrame
<1>2. HandsEmpty /\ Alone /\ TypeOK /\ MessagesHeld /\ HeldValues /\ HeldValues'
  BY HeldAt DEF RInv, IInv
<1>3. ASSUME connCh # <<>>, connCh' = Tail(connCh)
      PROVE  /\ Head(connCh) \in Message
             /\ Head(connCh).index \in held[Replies] \cap Pieces
             /\ held'[Replies] = held[Replies] \ {Head(connCh).index}
  <2>1. connCh \in Seq(Message) /\ Once(connCh) /\ Head(connCh) \in Message
    BY <1>2, <1>3, ChannelTypes DEF TypeOK, Alone
  <2>2. Head(connCh).index \in Pieces
    BY <2>1 DEF Message
  <2> QED
    BY <1>2, <1>3, <2>1, <2>2, IndicesTail DEF HeldValues
<1> DEFINE p == Head(connCh).index
<1>4. CASE RlAccept
  <2>1. connCh # <<>> /\ connCh' = Tail(connCh) /\ received' = received \cup {p}
    BY <1>4 DEF RlAccept
  <2>2. held'[Assembler] = held[Assembler] /\ held'[Resends] = held[Resends]
    BY <1>4, HeldFrame DEF RlAccept
  <2>3. Recorded(p)
    BY <1>1, <1>3, <2>1, <2>2, HolderForm DEF Recorded
  <2> QED
    BY <1>3, <2>1, <2>3 DEF Outcome
<1>5. CASE RlReject \/ RlRecvCancel
  <2>1. /\ connCh # <<>> /\ connCh' = Tail(connCh) /\ rlMsg' = Head(connCh)
        /\ rlPc = "receiving" /\ UNCHANGED received
    BY <1>5 DEF RlReject, RlRecvCancel
  <2>2. held[Assembler] = {}
    BY <1>2, <2>1 DEF HandsEmpty, HeldValues, Here
  <2>3. rlMsg' # NoMsg
    BY <1>3, <2>1 DEF Message, NoMsg, Conns, NoConn
  <2>4. held'[Assembler] = held[Assembler] \cup {p}
    BY <1>2, <2>1, <2>2, <2>3 DEF HeldValues, Here
  <2>5. held'[Resends] = held[Resends]
    BY <1>5, HeldFrame DEF RlReject, RlRecvCancel
  <2>6. Moved(Replies, Assembler, p)
    BY <1>1, <1>3, <2>1, <2>4, <2>5, HolderForm, HoldersDiffer DEF Moved
  <2> QED
    BY <1>3, <2>1, <2>6 DEF Outcome, Holders
<1>6. CASE RlResend
  <2> DEFINE r == rlMsg.index
  <2>1. /\ resendCh' = Append(resendCh, r) /\ rlMsg' = NoMsg
        /\ rlPc = "resending" /\ UNCHANGED <<connCh, received>>
    BY <1>6 DEF RlResend
  <2>2. rlMsg \in Message /\ r \in Pieces
    BY <1>2, <2>1 DEF MessagesHeld, Message
  <2>3. held[Assembler] = {r} /\ held'[Assembler] = {}
    BY <1>2, <2>1, <2>2 DEF HeldValues, Here, Message, NoMsg, Conns, NoConn
  <2>4. held'[Resends] = held[Resends] \cup {r}
    BY <1>2, <2>1, <2>2, ResendAppend DEF HeldValues, TypeOK
  <2>5. held'[Replies] = held[Replies]
    BY <2>1, HeldFrame
  <2>6. Moved(Assembler, Resends, r)
    BY <1>1, <2>1, <2>3, <2>4, <2>5, HolderForm, HoldersDiffer DEF Moved
  <2> QED
    BY <2>2, <2>6 DEF Outcome, Holders
<1>7. CASE RlRemove \/ RlDecrement \/ RlCheck \/ RlResendFails \/ RlDrain \/ RlBuild
  <2>1. UNCHANGED <<rlMsg, connCh, resendCh, received>>
    BY <1>7 DEF RlRemove, RlDecrement, RlCheck, RlResendFails, RlDrain, RlBuild
  <2> QED
    BY <1>1, <2>1, HolderForm, HeldFrame DEF Kept, Outcome
<1> QED
  BY <1>4, <1>5, <1>6, <1>7 DEF ReassembleLoop

\* A recv_data task takes a request from its channel and passes its reply on; a
\* failed connection takes along what it has.
LEMMA ConnectionHeld == \A c \in Conns : RInv /\ Connection(c) => Outcome
<1> SUFFICES ASSUME NEW c \in Conns, RInv, Connection(c) PROVE Outcome
  OBVIOUS
<1> USE DEF sharedVars, channels, frVars, srVars, rlVars, connVars, disk
<1> DEFINE Acts == \/ ConnEstablish(c) \/ ConnFail(c) \/ ConnTake(c) \/ ConnOpen(c)
                   \/ ConnRefused(c) \/ SeederReplies(c) \/ ConnDrop(c)
                   \/ ConnForward(c) \/ ConnCancel(c) \/ ConnEnd(c) \/ LinkClose(c)
<1>0. Acts
  BY DEF Connection
<1>1. /\ UNCHANGED <<srI, srPc, srMsg, rlMsg, resendCh, received, rlPc>>
      /\ held'[Unsent] = held[Unsent] /\ held'[Sender] = held[Sender]
      /\ held'[Assembler] = held[Assembler] /\ held'[Resends] = held[Resends]
  <2>1. UNCHANGED <<srI, srPc, srMsg, rlMsg, resendCh, received, rlPc>>
    BY <1>0 DEF ConnEstablish, ConnFail, ConnTake, ConnOpen, ConnRefused,
                SeederReplies, ConnDrop, ConnForward, ConnCancel, ConnEnd, LinkClose
  <2> QED
    BY <2>1, HeldFrame
<1>2. HandsEmpty /\ Alone /\ TypeOK /\ MessagesHeld /\ HeldValues /\ HeldValues'
  BY HeldAt DEF RInv, IInv
<1>3. /\ conn \in [Conns -> [at : {"none", "connecting", "idle", "opening", "waiting",
                                   "forwarding", "cancelling", "closed"},
                             msg : Message \cup {NoMsg}]]
      /\ requestCh \in [Conns -> Seq(Message)]
  BY <1>2 DEF TypeOK
<1>4. ASSUME NEW d \in Conns \ {c}
      PROVE  /\ held'[Task(d)] = held[Task(d)]
             /\ held'[Channel(d)] = held[Channel(d)]
  <2>1. conn'[d] = conn[d]
    BY <1>0, <1>3
       DEF ConnEstablish, ConnFail, ConnTake, ConnOpen, ConnRefused, SeederReplies,
           ConnDrop, ConnForward, ConnCancel, ConnEnd, LinkClose, Goto
  <2>2. requestCh'[d] = requestCh[d]
    BY <1>0, <1>3
       DEF ConnEstablish, ConnFail, ConnTake, ConnOpen, ConnRefused, SeederReplies,
           ConnDrop, ConnForward, ConnCancel, ConnEnd, LinkClose
  <2> QED
    BY <2>1, <2>2, HeldFrame
<1> DEFINE m == conn[c].msg
           p == m.index
<1>5. ASSUME UNCHANGED <<requestCh, connCh>>,
             held'[Task(c)] = held[Task(c)]
      PROVE  Outcome
  <2>1. held'[Channel(c)] = held[Channel(c)] /\ held'[Replies] = held[Replies]
    BY <1>5, HeldFrame
  <2> QED
    BY <1>1, <1>4, <1>5, <2>1, HolderForm DEF Kept, Outcome
<1>6. ASSUME UNCHANGED connCh, conn'[c].msg = NoMsg,
             UNCHANGED requestCh \/ requestCh' = [requestCh EXCEPT ![c] = <<>>],
             RlEnded' \/ Happened({"connect", "drop"})'
      PROVE  Outcome
  <2>1. held'[Task(c)] = {} /\ held'[Replies] = held[Replies]
    BY <1>2, <1>6, HeldFrame DEF HeldValues, Here
  <2>2. held'[Channel(c)] \subseteq held[Channel(c)]
    <3>1. requestCh'[c] = requestCh[c] \/ requestCh'[c] = <<>>
      BY <1>3, <1>6
    <3>2. Indices(<<>>) = {}
      BY DEF Indices
    <3> QED
      BY <1>2, <3>1, <3>2 DEF HeldValues
  <2>3. \A h \in Holders : held'[h] \subseteq held[h]
    BY <1>1, <1>4, <2>1, <2>2, HolderForm
  <2> QED
    BY <1>1, <1>6, <2>3 DEF Lost, Outcome
<1>7. CASE ConnEstablish(c) \/ ConnEnd(c)
  <2>1. conn'[c].msg = NoMsg /\ UNCHANGED <<requestCh, connCh>>
    BY <1>3, <1>7 DEF ConnEstablish, ConnEnd, Goto
  <2>2. conn[c].msg = NoMsg
    BY <1>2, <1>7 DEF ConnEstablish, ConnEnd, At, HandsEmpty
  <2> QED
    BY <1>5, <2>1, <2>2, HeldFrame
<1>8. CASE ConnOpen(c) \/ ConnRefused(c) \/ SeederReplies(c) \/ LinkClose(c)
  <2>1. UNCHANGED <<requestCh, connCh>>
    BY <1>8 DEF ConnOpen, ConnRefused, SeederReplies, LinkClose
  <2>2. CASE UNCHANGED conn
    BY <1>5, <2>1, <2>2, HeldFrame
  <2>3. CASE ~UNCHANGED conn
    <3>1. /\ conn'[c].msg = m \/ (\E b \in Bodies : conn'[c].msg = [m EXCEPT !.body = b])
          /\ conn[c].at \in {"opening", "waiting"}
      BY <1>3, <1>8, <2>3
         DEF ConnOpen, ConnRefused, SeederReplies, LinkClose, Goto, At, Reply, Bodies
    <3>2. m \in Message
      BY <1>2, <3>1 DEF MessagesHeld
    <3>3. conn'[c].msg \in Message /\ conn'[c].msg.index = p
      BY <3>1, <3>2 DEF Message
    <3>4. m # NoMsg /\ conn'[c].msg # NoMsg
      BY <3>2, <3>3 DEF Message, NoMsg, Conns, NoConn
    <3>5. held'[Task(c)] = held[Task(c)]
      BY <1>2, <3>3, <3>4 DEF HeldValues, Here
    <3> QED
      BY <1>5, <2>1, <3>5
  <2> QED
    BY <2>2, <2>3
<1>9. CASE ConnFail(c) \/ ConnDrop(c)
  <2>1. /\ conn'[c].msg = NoMsg /\ UNCHANGED connCh
        /\ UNCHANGED requestCh \/ requestCh' = [requestCh EXCEPT ![c] = <<>>]
    BY <1>3, <1>9 DEF ConnFail, ConnDrop, Goto
  <2>2. \E kind \in {"connect", "drop"} : Inject(kind)
    BY <1>9 DEF ConnFail, ConnDrop
  <2>3. Happened({"connect", "drop"})'
    BY <1>2, <2>2, FaultsStay DEF Happened
  <2> QED
    BY <1>6, <2>1, <2>3
<1>10. CASE ConnTake(c)
  <2> DEFINE q == Head(requestCh[c]).index
  <2>1. /\ requestCh[c] # <<>> /\ requestCh[c] \in Seq(Message) /\ Once(requestCh[c])
        /\ requestCh'[c] = Tail(requestCh[c]) /\ conn'[c].msg = Head(requestCh[c])
        /\ conn[c].msg = NoMsg /\ UNCHANGED connCh
    BY <1>2, <1>3, <1>10 DEF ConnTake, Goto, At, HandsEmpty, Alone
  <2>2. Head(requestCh[c]) \in Message
    BY <2>1, ChannelTypes
  <2>3. /\ q \in Pieces /\ q \in held[Channel(c)]
        /\ held'[Channel(c)] = held[Channel(c)] \ {q}
    BY <1>2, <2>1, <2>2, IndicesTail DEF HeldValues, Message
  <2>4. held'[Task(c)] = held[Task(c)] \cup {q}
    <3>1. Head(requestCh[c]) # NoMsg
      BY <2>2 DEF Message, NoMsg, Conns, NoConn
    <3>2. held[Task(c)] = {} /\ held'[Task(c)] = {q}
      BY <1>2, <2>1, <3>1 DEF HeldValues, Here
    <3> QED
      BY <3>2
  <2>5. held'[Replies] = held[Replies]
    BY <2>1, HeldFrame
  <2>6. Moved(Channel(c), Task(c), q)
    BY <1>1, <1>4, <2>3, <2>4, <2>5, HolderForm, HoldersDiffer DEF Moved
  <2> QED
    BY <2>3, <2>6 DEF Outcome, Holders
<1>11. CASE ConnForward(c) \/ ConnCancel(c)
  <2>1. conn[c].at \in {"forwarding", "cancelling"} /\ conn'[c].msg = NoMsg
    BY <1>3, <1>11 DEF ConnForward, ConnCancel, Goto, At
  <2>2. m \in Message /\ p \in Pieces /\ m # NoMsg
    BY <1>2, <2>1 DEF MessagesHeld, Message, NoMsg, Conns, NoConn
  <2>3. CASE RlEnded
    <3>1. UNCHANGED connCh /\ RlEnded'
      BY <1>1, <1>11, <2>3 DEF ConnForward, ConnCancel, RlEnded
    <3>2. UNCHANGED requestCh \/ requestCh' = [requestCh EXCEPT ![c] = <<>>]
      BY <1>11, <2>3 DEF ConnForward, ConnCancel
    <3> QED
      BY <1>6, <2>1, <3>1, <3>2
  <2>4. CASE ~RlEnded
    <3>1. connCh' = Append(connCh, m) /\ UNCHANGED requestCh
      BY <1>11, <2>4 DEF ConnForward, ConnCancel
    <3>2. held'[Channel(c)] = held[Channel(c)]
      BY <3>1, HeldFrame
    <3>3. held[Task(c)] = {p} /\ held'[Task(c)] = {}
      BY <1>2, <2>1, <2>2 DEF HeldValues, Here
    <3>4. held'[Replies] = held[Replies] \cup {p}
      BY <1>2, <2>2, <3>1, IndicesAppend DEF HeldValues, TypeOK
    <3>5. Moved(Task(c), Replies, p)
      BY <1>1, <1>4, <3>2, <3>3, <3>4, HolderForm, HoldersDiffer DEF Moved
    <3> QED
      BY <2>2, <3>5 DEF Outcome, Holders
  <2> QED
    BY <2>3, <2>4
<1> QED
  BY <1>0, <1>7, <1>8, <1>9, <1>10, <1>11

\* What a step does to the requests, whoever takes it.
LEMMA NextOutcome == RInv /\ Next => Outcome
  BY FileRequestHeld, SendRequestsHeld, ReassembleLoopHeld, ConnectionHeld DEF Next

\* A request enters a channel from a holder outside it, so no channel has a
\* piece twice.
LEMMA ChannelsStep ==
  RInv /\ Next => /\ \A c \in Conns : Once(requestCh'[c])
                  /\ Once(connCh') /\ Distinct(resendCh')
<1> SUFFICES ASSUME RInv, Next
             PROVE  /\ \A c \in Conns : Once(requestCh'[c])
                    /\ Once(connCh') /\ Distinct(resendCh')
  OBVIOUS
<1> USE DEF sharedVars, channels, frVars, srVars, rlVars, connVars, disk
<1>1. HandsEmpty /\ Alone /\ TypeOK /\ MessagesHeld /\ HeldValues
  BY HeldAt DEF RInv, IInv
<1>2. /\ requestCh \in [Conns -> Seq(Message)]
      /\ \A c \in Conns : requestCh[c] \in Seq(Message) /\ Once(requestCh[c])
      /\ connCh \in Seq(Message) /\ Once(connCh)
      /\ resendCh \in Seq(Pieces) /\ Distinct(resendCh)
  BY <1>1 DEF TypeOK, Alone
<1>3. \A h, k \in Holders : held[h] \cap held[k] # {} => h = k
  BY <1>1 DEF Alone, NoOverlap
<1>4. Once(<<>>)
  BY DEF Once
<1>5. CASE FileRequest
  BY <1>2, <1>5 DEF FileRequest, FrSubscribe, FrRegisterFails, FrStart, FrJoin
<1>6. CASE SendRequests
  <2>1. CASE SrSend
    <3> DEFINE v == srMsg.via
    <3>1. srMsg \in Message /\ v \in Conns /\ srMsg.index \in Pieces
      BY <1>1, <2>1 DEF SrSend, MessagesHeld, Message
    <3>2. /\ requestCh' = [requestCh EXCEPT ![v] = Append(@, srMsg)]
          /\ UNCHANGED <<connCh, resendCh>> /\ srPc = "sending"
      BY <2>1 DEF SrSend
    <3>3. srMsg.index \in held[Unsent] \cup held[Sender]
      <4>1. srI \in Nat /\ NumPieces \in Nat /\ srI <= NumPieces
        BY <1>1, SizesAssumption DEF TypeOK
      <4>2. CASE srI < NumPieces
        BY <1>1, <3>1, <3>2, <4>1, <4>2 DEF HandsEmpty, HeldValues, Pieces
      <4>3. CASE srI = NumPieces
        BY <1>1, <3>2, <4>3 DEF HeldValues, Here, Resending
      <4> QED
        BY <4>1, <4>2, <4>3
    <3>4. srMsg.index \notin held[Channel(v)]
      BY <1>3, <3>1, <3>3, HoldersDiffer DEF Holders
    <3>5. Once(Append(requestCh[v], srMsg))
      BY <1>1, <1>2, <3>1, <3>4, IndicesAppend DEF HeldValues
    <3>6. \A c \in Conns : requestCh'[c] = IF c = v THEN Append(requestCh[v], srMsg)
                                                    ELSE requestCh[c]
      BY <1>2, <3>2
    <3> QED
      BY <1>2, <3>2, <3>5, <3>6
  <2>2. CASE SrRecv
    BY <1>2, <2>2, ResendTail DEF SrRecv
  <2>3. CASE SendRequests /\ ~SrSend /\ ~SrRecv
    BY <1>2, <2>3 DEF SendRequests, SrWait, SrInitial, SrSendFails, SrFinish, SrPick, SrLook
  <2> QED
    BY <1>6, <2>1, <2>2, <2>3
<1>7. CASE ReassembleLoop
  <2>1. CASE RlResend
    <3>1. rlMsg \in Message /\ rlMsg.index \in Pieces /\ rlMsg # NoMsg
      BY <1>1, <2>1 DEF RlResend, MessagesHeld, Message, NoMsg, Conns, NoConn
    <3>2. rlMsg.index \in held[Assembler]
      BY <1>1, <3>1 DEF HeldValues, Here
    <3>3. rlMsg.index \notin held[Resends]
      BY <1>3, <3>2, HoldersDiffer DEF Holders
    <3>4. Distinct(Append(resendCh, rlMsg.index))
      BY <1>1, <1>2, <3>1, <3>3, ResendAppend DEF HeldValues
    <3> QED
      BY <1>2, <2>1, <3>4 DEF RlResend
  <2>2. CASE RlAccept \/ RlReject \/ RlRecvCancel
    BY <1>2, <2>2, IndicesTail DEF RlAccept, RlReject, RlRecvCancel
  <2>3. CASE RlRemove \/ RlDecrement \/ RlCheck \/ RlResendFails \/ RlDrain \/ RlBuild
    BY <1>2, <2>3 DEF RlRemove, RlDecrement, RlCheck, RlResendFails, RlDrain, RlBuild
  <2> QED
    BY <1>7, <2>1, <2>2, <2>3 DEF ReassembleLoop
<1>8. ASSUME NEW c \in Conns, Connection(c)
      PROVE  /\ \A d \in Conns : Once(requestCh'[d])
             /\ Once(connCh') /\ Distinct(resendCh')
  <2>1. UNCHANGED resendCh
    BY <1>8 DEF Connection, ConnEstablish, ConnFail, ConnTake, ConnOpen, ConnRefused,
                SeederReplies, ConnDrop, ConnForward, ConnCancel, ConnEnd, LinkClose
  <2>2. \A d \in Conns : Once(requestCh'[d])
    <3>1. \/ UNCHANGED requestCh
          \/ requestCh' = [requestCh EXCEPT ![c] = <<>>]
          \/ requestCh[c] # <<>> /\ requestCh' = [requestCh EXCEPT ![c] = Tail(@)]
      BY <1>8 DEF Connection, ConnEstablish, ConnFail, ConnTake, ConnOpen, ConnRefused,
                  SeederReplies, ConnDrop, ConnForward, ConnCancel, ConnEnd, LinkClose
    <3>2. \/ Once(requestCh'[c])
          \/ UNCHANGED requestCh
      BY <1>2, <1>4, <3>1, IndicesTail
    <3>3. \A d \in Conns \ {c} : requestCh'[d] = requestCh[d]
      BY <1>2, <3>1
    <3> QED
      BY <1>2, <3>2, <3>3
  <2>3. Once(connCh')
    <3>1. CASE UNCHANGED connCh
      BY <1>2, <3>1
    <3>2. CASE ~UNCHANGED connCh
      <4> DEFINE m == conn[c].msg
      <4>1. connCh' = Append(connCh, m) /\ conn[c].at \in {"forwarding", "cancelling"}
        BY <1>8, <3>2
           DEF Connection, ConnEstablish, ConnFail, ConnTake, ConnOpen, ConnRefused, At,
               SeederReplies, ConnDrop, ConnForward, ConnCancel, ConnEnd, LinkClose
      <4>2. m \in Message /\ m # NoMsg
        BY <1>1, <4>1 DEF MessagesHeld, Message, NoMsg, Conns, NoConn
      <4>3. m.index \in held[Task(c)]
        BY <1>1, <4>2 DEF HeldValues, Here
      <4>4. m.index \notin held[Replies]
        BY <1>3, <4>3, HoldersDiffer DEF Holders
      <4> QED
        BY <1>1, <1>2, <4>1, <4>2, <4>4, IndicesAppend DEF HeldValues
    <3> QED
      BY <3>1, <3>2
  <2> QED
    BY <1>2, <2>1, <2>2, <2>3
<1> QED
  BY <1>5, <1>6, <1>7, <1>8 DEF Next

\* A task that has passed on its message has none left.
LEMMA HandsEmptyStep == RInv /\ Next => HandsEmpty'
<1> SUFFICES ASSUME RInv, Next PROVE HandsEmpty'
  OBVIOUS
<1> USE DEF sharedVars, channels, frVars, srVars, rlVars, connVars, disk
<1>1. HandsEmpty /\ TypeOK /\ MessagesHeld
  BY DEF RInv, IInv
<1>2. /\ frI \in Nat /\ frI <= NumConns
      /\ srI \in Nat /\ srI <= NumPieces /\ NumPieces \in Nat /\ NumConns \in Nat
      /\ conn \in [Conns -> [at : {"none", "connecting", "idle", "opening", "waiting",
                                   "forwarding", "cancelling", "closed"},
                             msg : Message \cup {NoMsg}]]
  BY <1>1, SizesAssumption DEF TypeOK
<1> DEFINE SrPart == /\ srPc \in {"resending", "picking", "looking"} => srI = NumPieces
                     /\ srPc = "sending" /\ srI < NumPieces => srMsg.index = srI
           RlPart == rlPc \in {"receiving", "draining", "building", "built"} => rlMsg = NoMsg
           ConnPart(c) ==
             /\ conn[c].at \in {"none", "connecting", "idle", "closed"} => conn[c].msg = NoMsg
             /\ c > frI => conn[c].at = "none"
<1>3. SrPart /\ RlPart /\ \A c \in Conns : ConnPart(c)
  BY <1>1 DEF HandsEmpty
<1>4. SrPart'
  <2>1. CASE SrInitial \/ SrLook
    BY <1>2, <1>3, <2>1 DEF SrInitial, SrLook, SrGet
  <2>2. CASE SrSend
    BY <1>2, <2>2 DEF SrSend, NextPhase
  <2>3. CASE SrWait \/ SrSendFails \/ SrRecv \/ SrFinish \/ SrPick
    BY <1>3, <2>3 DEF SrWait, SrSendFails, SrRecv, SrFinish, SrPick
  <2>4. CASE FrStart
    BY <1>2, <1>3, <2>4 DEF FrStart, NextPhase
  <2>5. CASE FrSubscribe \/ FrRegisterFails \/ FrJoin \/ ReassembleLoop
    BY <1>3, <2>5 DEF FrSubscribe, FrRegisterFails, FrJoin, ReassembleLoop, RlAccept, RlReject,
         RlRecvCancel, RlRemove, RlDecrement, RlCheck, RlResend, RlResendFails, RlDrain, RlBuild
  <2>6. ASSUME NEW c \in Conns, Connection(c) PROVE SrPart'
    <3>1. UNCHANGED <<srPc, srI, srMsg>>
      BY <2>6 DEF Connection, ConnEstablish, ConnFail, ConnTake, ConnOpen, ConnRefused,
                  SeederReplies, ConnDrop, ConnForward, ConnCancel, ConnEnd, LinkClose
    <3> QED
      BY <1>3, <3>1
  <2> QED
    BY <2>1, <2>2, <2>3, <2>4, <2>5, <2>6 DEF Next, FileRequest, SendRequests
<1>5. RlPart'
  <2>1. CASE ReassembleLoop
    BY <1>3, <2>1 DEF ReassembleLoop, RlAccept, RlReject, RlRecvCancel, RlRemove,
         RlDecrement, RlCheck, RlResend, RlResendFails, RlDrain, RlBuild
  <2>2. CASE ~ReassembleLoop
    <3>1. UNCHANGED <<rlPc, rlMsg>>
      BY <2>2 DEF Next, FileRequest, FrSubscribe, FrRegisterFails, FrStart, FrJoin, SendRequests,
           SrWait, SrInitial, SrSend, SrSendFails, SrRecv, SrFinish, SrPick, SrLook,
           Connection, ConnEstablish, ConnFail, ConnTake, ConnOpen, ConnRefused,
           SeederReplies, ConnDrop, ConnForward, ConnCancel, ConnEnd, LinkClose
    <3> QED
      BY <1>3, <3>1
  <2> QED
    BY <2>1, <2>2
<1>6. ASSUME NEW c \in Conns PROVE ConnPart(c)'
  <2>1. CASE FrSubscribe
    <3>1. /\ conn' = [conn EXCEPT ![frI + 1].at = "connecting"]
          /\ frI' = frI + 1 /\ frI + 1 \in Conns /\ c \in Nat
      BY <1>2, <2>1 DEF FrSubscribe, Conns
    <3>2. CASE c = frI + 1
      BY <1>2, <1>3, <3>1, <3>2
    <3>3. CASE c # frI + 1
      BY <1>2, <1>3, <3>1, <3>3
    <3> QED
      BY <3>2, <3>3
  <2>2. CASE UNCHANGED <<conn, frI>>
    BY <1>3, <2>2
  <2>3. ASSUME NEW d \in Conns, Connection(d) PROVE ConnPart(c)'
    <3>1. frI' = frI
      BY <2>3 DEF Connection, ConnEstablish, ConnFail, ConnTake, ConnOpen, ConnRefused,
                  SeederReplies, ConnDrop, ConnForward, ConnCancel, ConnEnd, LinkClose
    <3>2. CASE c # d
      <4>1. conn'[c] = conn[c]
        BY <1>2, <2>3, <3>2
           DEF Connection, ConnEstablish, ConnFail, ConnTake, ConnOpen, ConnRefused, Goto,
               SeederReplies, ConnDrop, ConnForward, ConnCancel, ConnEnd, LinkClose
      <4> QED
        BY <1>3, <3>1, <4>1
    <3>3. CASE c = d
      <4>1. \/ conn'[c] = conn[c]
            \/ /\ conn[c].at # "none"
               /\ conn'[c].at \in {"idle", "closed"}
               /\ conn'[c].msg = NoMsg
            \/ /\ conn[c].at # "none"
               /\ conn'[c].at \in {"opening", "waiting", "forwarding", "cancelling"}
        BY <1>2, <2>3, <3>3
           DEF Connection, ConnEstablish, ConnFail, ConnTake, ConnOpen, ConnRefused, Goto, At,
               SeederReplies, ConnDrop, ConnForward, ConnCancel, ConnEnd, LinkClose
      <4> QED
        BY <1>3, <3>1, <4>1
    <3> QED
      BY <3>2, <3>3
  <2>4. FrSubscribe \/ UNCHANGED <<conn, frI>> \/ \E d \in Conns : Connection(d)
    BY DEF Next, FileRequest, FrRegisterFails, FrStart, FrJoin, SendRequests,
           SrWait, SrInitial, SrSend, SrSendFails, SrRecv, SrFinish, SrPick, SrLook,
           ReassembleLoop, RlAccept, RlReject, RlRecvCancel, RlRemove, RlDecrement,
           RlCheck, RlResend, RlResendFails, RlDrain, RlBuild
  <2> QED
    BY <2>1, <2>2, <2>3, <2>4
<1> QED
  BY <1>4, <1>5, <1>6 DEF HandsEmpty

\* send_requests sends no other message than a request.
LEMMA RequestsOnlyStep == RInv /\ Next => RequestsOnly'
<1> SUFFICES ASSUME RInv, Next, NEW c \in Conns PROVE requestCh'[c] \in Seq(Requests)
  BY DEF RequestsOnly
<1> USE DEF sharedVars, channels, frVars, srVars, rlVars, connVars, disk
<1>1. /\ TypeOK /\ MessagesHeld /\ requestCh[c] \in Seq(Requests)
      /\ requestCh \in [Conns -> Seq(Message)]
  BY DEF RInv, IInv, RequestsOnly, TypeOK
<1>2. CASE SrSend
  <2>1. srMsg \in Requests
    BY <1>1, <1>2 DEF SrSend, TypeOK, MessagesHeld, Message, Bodies, Requests
  <2>2. requestCh' = [requestCh EXCEPT ![srMsg.via] = Append(@, srMsg)]
    BY <1>2 DEF SrSend
  <2>3. requestCh'[c] = requestCh[c] \/ requestCh'[c] = Append(requestCh[c], srMsg)
    BY <1>1, <2>2
  <2>4. Append(requestCh[c], srMsg) \in Seq(Requests)
    BY <1>1, <2>1
  <2> QED
    BY <1>1, <2>3, <2>4
<1>3. ASSUME NEW d \in Conns, Connection(d) PROVE requestCh'[c] \in Seq(Requests)
  <2>1. \/ UNCHANGED requestCh
        \/ requestCh' = [requestCh EXCEPT ![d] = <<>>]
        \/ requestCh[d] # <<>> /\ requestCh' = [requestCh EXCEPT ![d] = Tail(@)]
    BY <1>3 DEF Connection, ConnEstablish, ConnFail, ConnTake, ConnOpen, ConnRefused,
                SeederReplies, ConnDrop, ConnForward, ConnCancel, ConnEnd, LinkClose
  <2>2. \/ requestCh'[c] \in {requestCh[c], <<>>}
        \/ requestCh[c] # <<>> /\ requestCh'[c] = Tail(requestCh[c])
    BY <1>1, <2>1
  <2>3. /\ <<>> \in Seq(Requests)
        /\ requestCh[c] # <<>> => Tail(requestCh[c]) \in Seq(Requests)
    BY <1>1, EmptySeq, ChannelTypes
  <2> QED
    BY <1>1, <2>2, <2>3
<1>4. SrSend \/ UNCHANGED requestCh \/ \E d \in Conns : Connection(d)
  BY DEF Next, FileRequest, FrSubscribe, FrRegisterFails, FrStart, FrJoin, SendRequests,
         SrWait, SrInitial, SrSendFails, SrRecv, SrFinish, SrPick, SrLook,
         ReassembleLoop, RlAccept, RlReject, RlRecvCancel, RlRemove, RlDecrement,
         RlCheck, RlResend, RlResendFails, RlDrain, RlBuild
<1> QED
  BY <1>1, <1>2, <1>3, <1>4

\* With all connections in the list, send_requests finds the one it looks for;
\* only the list emptied for the build can end it, when a resumed download is
\* complete before all its requests are sent.
LEMMA GetsItsConnection ==
  ASSUME RInv, ~Happened(Failure), ~RlEnded,
         NEW k \in Nat, k < NumConns, NEW p \in Pieces,
         srPc \notin {"spawned", "waiting"},
         p \in held[Unsent] \cup held[Sender],
         k >= Len(requestTxs)
  PROVE  received = Pieces /\ ~Fresh
<1>1. /\ CountMatchesSenders /\ BuildsWhole /\ NotHeldTwice
      /\ frI = NumConns /\ numConnections = NumConns /\ rlPc # "decrementing"
      /\ NumConns \in Nat /\ Len(requestTxs) \in Nat
  BY SizesAssumption DEF RInv, IInv, Healthy, TypeOK
<1>2. rlPc \in {"building", "built", "error"}
  BY <1>1 DEF CountMatchesSenders
<1>3. received = Pieces
  BY <1>1, <1>2 DEF BuildsWhole, RlEnded
<1>4. ~Fresh
  <2>1. Unsent \in Holders /\ Sender \in Holders
    BY DEF Holders
  <2> QED
    BY <1>1, <1>3, <2>1 DEF NotHeldTwice
<1> QED
  BY <1>3, <1>4

\* No step but a fault removes a connection or ends send_requests early.
LEMMA HealthyStep == RInv /\ Next => Healthy'
<1> SUFFICES ASSUME RInv, Next PROVE Healthy'
  OBVIOUS
<1> USE DEF sharedVars, channels, frVars, srVars, rlVars, connVars, disk
<1>1. Healthy /\ HandsEmpty /\ RequestsOnly
      /\ IInv /\ TypeOK /\ MessagesHeld /\ SenderHeld /\ HeldValues
  BY HeldAt DEF RInv, IInv
<1>2. /\ frI \in Nat /\ frI <= NumConns /\ NumConns \in Nat
      /\ srI \in Nat /\ srI <= NumPieces /\ NumPieces \in Nat
      /\ srNum \in Nat /\ srNum <= NumConns
      /\ srTurn \in Nat /\ numConnections \in Nat
      /\ requestTxs \in Seq(Conns) /\ connCh \in Seq(Message)
      /\ conn \in [Conns -> [at : {"none", "connecting", "idle", "opening", "waiting",
                                   "forwarding", "cancelling", "closed"},
                             msg : Message \cup {NoMsg}]]
      /\ linkUp \in [Conns -> BOOLEAN]
  BY <1>1, SizesAssumption, TurnsAssumption DEF TypeOK
<1>3. (srPc \notin {"spawned", "waiting"} => frI = NumConns)'
  <2>1. frI' = frI \/ (frI < NumConns /\ frI' = frI + 1 /\ srPc' = srPc)
    BY DEF Next, FileRequest, FrSubscribe, FrRegisterFails, FrStart, FrJoin, SendRequests,
           SrWait, SrInitial, SrSend, SrSendFails, SrRecv, SrFinish, SrPick, SrLook,
           ReassembleLoop, RlAccept, RlReject, RlRecvCancel, RlRemove, RlDecrement,
           RlCheck, RlResend, RlResendFails, RlDrain, RlBuild,
           Connection, ConnEstablish, ConnFail, ConnTake, ConnOpen, ConnRefused,
           SeederReplies, ConnDrop, ConnForward, ConnCancel, ConnEnd, LinkClose
  <2>2. srPc \in {"spawned", "waiting"} =>
          srPc' \in {"spawned", "waiting"} \/ frI = NumConns
    BY DEF Next, FileRequest, FrSubscribe, FrRegisterFails, FrStart, FrJoin, SendRequests,
           SrWait, SrInitial, SrSend, SrSendFails, SrRecv, SrFinish, SrPick, SrLook,
           ReassembleLoop, RlAccept, RlReject, RlRecvCancel, RlRemove, RlDecrement,
           RlCheck, RlResend, RlResendFails, RlDrain, RlBuild,
           Connection, ConnEstablish, ConnFail, ConnTake, ConnOpen, ConnRefused,
           SeederReplies, ConnDrop, ConnForward, ConnCancel, ConnEnd, LinkClose
  <2> QED
    BY <1>1, <1>2, <2>1, <2>2 DEF Healthy
<1> DEFINE Shared ==
             /\ numConnections = NumConns
             /\ rlPc \notin {"removing", "decrementing", "checking"}
             /\ \A i \in DOMAIN connCh : connCh[i].body # "cancel"
           ConnPart(c) ==
             /\ conn[c].at # "cancelling" /\ conn[c].msg.body # "cancel"
             /\ conn[c].at \in {"idle", "opening", "waiting", "forwarding"} => linkUp[c]
             /\ conn[c].at = "closed" => c \notin ToSet(requestTxs)
           SrPart == /\ srPc = "looking" => srMsg.seeder < NumConns
                     /\ srPc = "error" => received = Pieces /\ ~Fresh
<1>4. ASSUME ~Happened(Failure)', ~RlEnded'
      PROVE  Shared' /\ (\A c \in Conns : ConnPart(c)') /\ SrPart'
  <2>1. ~Happened(Failure) /\ ~RlEnded
    BY <1>1, <1>4, EndsStay
  <2>2. Shared /\ (\A c \in Conns : ConnPart(c)) /\ SrPart
    BY <1>1, <2>1 DEF Healthy
  <2>3. \A kind \in Failure : ~Inject(kind)
    BY <1>1, <1>4, FaultsStay DEF Happened
  <2> DEFINE Calm == \A i \in DOMAIN connCh : connCh[i].body # "cancel"
  <2>4. Shared'
    <3>1. CASE ReassembleLoop
      <4>1. ~RlRemove /\ ~RlDecrement /\ ~RlCheck
        BY <2>2 DEF RlRemove, RlDecrement, RlCheck
      <4>2. connCh # <<>> => /\ Head(connCh).body # "cancel"
                             /\ \A i \in DOMAIN Tail(connCh) : Tail(connCh)[i].body # "cancel"
        <5> SUFFICES ASSUME connCh # <<>>
                     PROVE  /\ Head(connCh).body # "cancel"
                            /\ \A i \in DOMAIN Tail(connCh) : Tail(connCh)[i].body # "cancel"
          OBVIOUS
        <5>1. /\ Len(connCh) \in Nat \ {0} /\ DOMAIN connCh = 1 .. Len(connCh)
              /\ DOMAIN Tail(connCh) = 1 .. Len(connCh) - 1
              /\ \A i \in 1 .. Len(connCh) - 1 : Tail(connCh)[i] = connCh[i + 1]
              /\ Head(connCh) = connCh[1]
          BY <1>2, HeadTailProperties
        <5>2. Calm
          BY <2>2
        <5>3. 1 \in DOMAIN connCh /\ \A i \in 1 .. Len(connCh) - 1 : i + 1 \in DOMAIN connCh
          BY <5>1
        <5>4. Head(connCh).body # "cancel"
          BY <5>1, <5>2, <5>3
        <5>5. ASSUME NEW i \in DOMAIN Tail(connCh) PROVE Tail(connCh)[i].body # "cancel"
          BY <5>1, <5>2, <5>3, <5>5
        <5> QED
          BY <5>4, <5>5
      <4>3. ~RlRecvCancel
        BY <4>2 DEF RlRecvCancel
      <4>4. CASE RlAccept \/ RlReject
        BY <2>2, <4>2, <4>4 DEF RlAccept, RlReject
      <4>5. CASE RlResend \/ RlResendFails \/ RlDrain \/ RlBuild
        BY <2>2, <4>5 DEF RlResend, RlResendFails, RlDrain, RlBuild
      <4> QED
        BY <3>1, <4>1, <4>3, <4>4, <4>5 DEF ReassembleLoop
    <3>2. ASSUME NEW c \in Conns, Connection(c) PROVE Shared'
      <4>1. UNCHANGED <<numConnections, rlPc>>
        BY <3>2 DEF Connection, ConnEstablish, ConnFail, ConnTake, ConnOpen, ConnRefused,
                    SeederReplies, ConnDrop, ConnForward, ConnCancel, ConnEnd, LinkClose
      <4>2. UNCHANGED connCh \/ connCh' = Append(connCh, conn[c].msg)
        BY <3>2 DEF Connection, ConnEstablish, ConnFail, ConnTake, ConnOpen, ConnRefused,
                    SeederReplies, ConnDrop, ConnForward, ConnCancel, ConnEnd, LinkClose
      <4>3. conn[c].msg.body # "cancel"
        BY <2>2
      <4>4. (\A i \in DOMAIN connCh : connCh[i].body # "cancel")'
        <5> DEFINE t == Append(connCh, conn[c].msg)
        <5>1. /\ Len(connCh) \in Nat /\ DOMAIN connCh = 1 .. Len(connCh)
              /\ DOMAIN t = 1 .. Len(connCh) + 1
              /\ \A i \in 1 .. Len(connCh) : t[i] = connCh[i]
              /\ t[Len(connCh) + 1] = conn[c].msg
          BY <1>2
        <5>2. connCh' = connCh \/ connCh' = t
          BY <4>2
        <5> HIDE DEF t
        <5> QED
          BY <2>2, <4>3, <5>1, <5>2
      <4> QED
        BY <2>2, <4>1, <4>4
    <3>3. CASE FileRequest \/ SendRequests
      <4>1. UNCHANGED <<numConnections, rlPc, connCh>>
        BY <3>3 DEF FileRequest, FrSubscribe, FrRegisterFails, FrStart, FrJoin, SendRequests,
           SrWait, SrInitial, SrSend, SrSendFails, SrRecv, SrFinish, SrPick, SrLook
      <4> QED
        BY <2>2, <4>1
    <3> QED
      BY <3>1, <3>2, <3>3 DEF Next
  <2>5. ASSUME NEW c \in Conns PROVE ConnPart(c)'
    <3>1. CASE FrSubscribe
      <4>1. /\ requestTxs' = Append(requestTxs, frI + 1)
            /\ conn' = [conn EXCEPT ![frI + 1].at = "connecting"]
            /\ UNCHANGED linkUp /\ frI + 1 \in Conns
        BY <1>2, <3>1 DEF FrSubscribe, Conns
      <4>2. ToSet(requestTxs') = ToSet(requestTxs) \cup {frI + 1}
        <5> DEFINE t == Append(requestTxs, frI + 1)
        <5>1. /\ Len(requestTxs) \in Nat /\ DOMAIN requestTxs = 1 .. Len(requestTxs)
              /\ DOMAIN t = 1 .. Len(requestTxs) + 1
              /\ \A i \in 1 .. Len(requestTxs) : t[i] = requestTxs[i]
              /\ t[Len(requestTxs) + 1] = frI + 1
          BY <1>2, <4>1
        <5> HIDE DEF t
        <5>2. ToSet(t) = ToSet(requestTxs) \cup {frI + 1}
          BY <5>1 DEF ToSet
        <5> QED
          BY <4>1, <5>2 DEF t
      <4>3. CASE c = frI + 1
        BY <1>2, <2>2, <4>1, <4>3
      <4>4. CASE c # frI + 1
        BY <1>2, <2>2, <4>1, <4>2, <4>4
      <4> QED
        BY <4>3, <4>4
    <3>2. CASE ReassembleLoop
      <4>1. UNCHANGED <<conn, linkUp>> /\ (UNCHANGED requestTxs \/ requestTxs' = <<>>)
        BY <2>2, <3>2 DEF ReassembleLoop, RlAccept, RlReject, RlRecvCancel, RlRemove,
           RlDecrement, RlCheck, RlResend, RlResendFails, RlDrain, RlBuild
      <4>2. ToSet(<<>>) = {}
        BY DEF ToSet
      <4> QED
        BY <2>2, <4>1, <4>2
    <3>3. CASE SendRequests \/ FrRegisterFails \/ FrStart \/ FrJoin
      <4>1. UNCHANGED <<conn, linkUp, requestTxs>>
        BY <3>3 DEF FrRegisterFails, FrStart, FrJoin, SendRequests, SrWait, SrInitial,
           SrSend, SrSendFails, SrRecv, SrFinish, SrPick, SrLook
      <4> QED
        BY <2>2, <4>1
    <3>4. ASSUME NEW d \in Conns, Connection(d) PROVE ConnPart(c)'
      <4>1. UNCHANGED requestTxs
        BY <3>4 DEF Connection, ConnEstablish, ConnFail, ConnTake, ConnOpen, ConnRefused,
                    SeederReplies, ConnDrop, ConnForward, ConnCancel, ConnEnd, LinkClose
      <4>2. CASE c # d
        <5>1. conn'[c] = conn[c] /\ linkUp'[c] = linkUp[c]
          BY <1>2, <3>4, <4>2
             DEF Connection, ConnEstablish, ConnFail, ConnTake, ConnOpen, ConnRefused, Goto,
                 SeederReplies, ConnDrop, ConnForward, ConnCancel, ConnEnd, LinkClose
        <5> QED
          BY <2>2, <4>1, <5>1
      <4>3. CASE c = d
        <5>0. Connection(c) /\ ConnPart(c)
          BY <2>2, <3>4, <4>3
        <5>1. ~ConnFail(c) /\ ~ConnDrop(c) /\ ~LinkClose(c)
          BY <2>3 DEF ConnFail, ConnDrop, LinkClose, Failure
        <5>2. ~ConnRefused(c) /\ ~ConnCancel(c)
          BY <5>0 DEF ConnRefused, ConnCancel, At
        <5>3. CASE ConnEstablish(c)
          BY <1>2, <5>3 DEF ConnEstablish, Goto, NoMsg
        <5>4. CASE ConnTake(c)
          <6>1. requestCh[c] # <<>> /\ requestCh[c] \in Seq(Requests)
            BY <1>1, <5>4 DEF ConnTake, RequestsOnly
          <6>2. Head(requestCh[c]).body # "cancel"
            BY <6>1 DEF Requests
          <6> QED
            BY <1>2, <5>0, <5>4, <6>2 DEF ConnTake, Goto, At
        <5>5. CASE ConnOpen(c)
          BY <1>2, <5>0, <5>5 DEF ConnOpen, Goto, At
        <5>6. CASE SeederReplies(c)
          <6>1. conn[c].msg \in Message /\ linkUp[c]
            BY <1>1, <5>6 DEF SeederReplies, At, MessagesHeld
          <6>2. \E b \in {"good", "bad"} : Goto(c, "forwarding", Reply(conn[c].msg, b))
            BY <2>3, <5>6 DEF SeederReplies, Failure
          <6>3. conn'[c].at = "forwarding" /\ conn'[c].msg.body # "cancel"
            BY <1>2, <6>1, <6>2 DEF Goto, Reply, Message
          <6> QED
            BY <5>6, <6>1, <6>3 DEF SeederReplies
        <5>7. CASE ConnForward(c)
          BY <1>2, <5>0, <5>7 DEF ConnForward, Goto, At, NoMsg
        <5>8. CASE ConnEnd(c)
          <6>1. c \notin ToSet(requestTxs)
            BY <2>1, <5>8 DEF ConnEnd, SenderAlive
          <6> QED
            BY <1>2, <4>1, <5>8, <6>1 DEF ConnEnd, Goto, NoMsg
        <5> QED
          BY <5>0, <5>1, <5>2, <5>3, <5>4, <5>5, <5>6, <5>7, <5>8 DEF Connection
      <4> QED
        BY <4>2, <4>3
    <3> QED
      BY <3>1, <3>2, <3>3, <3>4 DEF Next, FileRequest
  <2>6. SrPart'
    <3>1. received = Pieces => received' = Pieces
      <4>1. received' = received \/ \E m \in Message : received' = received \cup {m.index}
        BY <1>1, <1>2, ChannelTypes
           DEF Next, FileRequest, FrSubscribe, FrRegisterFails, FrStart, FrJoin, SendRequests,
           SrWait, SrInitial, SrSend, SrSendFails, SrRecv, SrFinish, SrPick, SrLook,
           ReassembleLoop, RlAccept, RlReject, RlRecvCancel, RlRemove, RlDecrement,
           RlCheck, RlResend, RlResendFails, RlDrain, RlBuild,
           Connection, ConnEstablish, ConnFail, ConnTake, ConnOpen, ConnRefused,
           SeederReplies, ConnDrop, ConnForward, ConnCancel, ConnEnd, LinkClose
      <4> QED
        BY <4>1 DEF Message
    <3>2. CASE SrInitial
      <4>1. srI \in Pieces /\ srI < NumPieces /\ srPc = "initial" /\ UNCHANGED received
        BY <1>1, <1>2, <3>2 DEF SrInitial, MessagesHeld, Pieces
      <4>2. srNum # 0 => srI % srNum \in Nat /\ srI % srNum < NumConns
        BY <1>2
      <4>3. srI \in held[Unsent]
        BY <1>1, <1>2, <4>1 DEF HeldValues
      <4>4. srPc' = "error" => /\ srNum # 0
                               /\ srI % srNum >= Len(requestTxs)
        BY <3>2 DEF SrInitial, SrGet
      <4>5. srPc' # "looking"
        BY <3>2 DEF SrInitial, SrGet
      <4>6. srPc' = "error" => received = Pieces /\ ~Fresh
        BY <2>1, <4>1, <4>2, <4>3, <4>4, GetsItsConnection
      <4> QED
        BY <3>1, <4>5, <4>6 DEF Fresh
    <3>3. CASE SrLook
      <4>1. srPc = "looking" /\ srI = NumPieces /\ srMsg.index \in Pieces /\ srMsg.seeder \in Nat
        BY <1>1, <3>3 DEF SrLook, HandsEmpty, MessagesHeld, TypeOK
      <4>2. srMsg.seeder < NumConns
        BY <2>2, <4>1
      <4>3. srMsg.index \in held[Sender]
        BY <1>1, <4>1 DEF HeldValues, Here, Resending
      <4>4. srPc' # "looking" /\ (srPc' = "error" => srMsg.seeder >= Len(requestTxs))
        BY <3>3 DEF SrLook, SrGet
      <4>5. srPc' = "error" => received = Pieces /\ ~Fresh
        BY <2>1, <4>1, <4>2, <4>3, <4>4, GetsItsConnection
      <4> QED
        BY <3>1, <4>4, <4>5 DEF Fresh
    <3>4. CASE SrPick
      <4>1. srPc' = "looking" =>
              /\ numConnections # 0
              /\ srMsg' = [srMsg EXCEPT !.seeder = srTurn % numConnections]
        BY <3>4 DEF SrPick
      <4>2. numConnections # 0 => srTurn % numConnections < NumConns
        BY <1>2, <2>2
      <4>3. srMsg \in [via : Conns \cup {NoConn}, seeder : Nat, index : Nat,
                       body : {"request", "none"}]
        BY <1>1 DEF TypeOK
      <4>4. srPc' = "looking" => srMsg'.seeder < NumConns
        BY <4>1, <4>2, <4>3
      <4>5. srPc' # "error"
        BY <3>4 DEF SrPick
      <4> QED
        BY <4>4, <4>5
    <3>5. CASE SrSendFails
      <4>1. srMsg.via \in Conns /\ srMsg.via \in ToSet(requestTxs)
        BY <1>1, <3>5 DEF SrSendFails, SenderHeld, MessagesHeld, Message
      <4>2. conn[srMsg.via].at = "closed"
        BY <3>5 DEF SrSendFails
      <4> QED
        BY <2>2, <4>1, <4>2
    <3>6. CASE SrWait \/ SrSend \/ SrRecv \/ SrFinish
      BY <3>6 DEF SrWait, SrSend, SrRecv, SrFinish, NextPhase
    <3>7. CASE FrStart
      BY <2>2, <3>1, <3>7 DEF FrStart, NextPhase, Fresh
    <3>8. CASE UNCHANGED <<srPc, srMsg>>
      BY <2>2, <3>1, <3>8 DEF Fresh
    <3>9. \/ SrInitial \/ SrLook \/ SrPick \/ SrSendFails
          \/ SrWait \/ SrSend \/ SrRecv \/ SrFinish \/ FrStart \/ UNCHANGED <<srPc, srMsg>>
      BY DEF Next, FileRequest, FrSubscribe, FrRegisterFails, FrJoin, SendRequests,
           ReassembleLoop, RlAccept, RlReject, RlRecvCancel, RlRemove, RlDecrement,
           RlCheck, RlResend, RlResendFails, RlDrain, RlBuild,
           Connection, ConnEstablish, ConnFail, ConnTake, ConnOpen, ConnRefused,
           SeederReplies, ConnDrop, ConnForward, ConnCancel, ConnEnd, LinkClose
    <3> QED
      BY <3>2, <3>3, <3>4, <3>5, <3>6, <3>7, <3>8, <3>9
  <2> QED
    BY <2>4, <2>5, <2>6
<1> QED
  BY <1>3, <1>4 DEF Healthy

-----------------------------------------------------------------------------
(* The invariant and the theorems.                                         *)

\* At the start no request has been sent, and the tasks hold none.
LEMMA InitRInv == Init => RInv
<1> SUFFICES ASSUME Init PROVE RInv
  OBVIOUS
<1>1. IInv
  BY InitIInv
<1>2. HeldValues
  BY HeldAt
<1>3. /\ srI = 0 /\ srPc = "spawned" /\ rlPc = "receiving" /\ rlMsg = NoMsg
      /\ connCh = <<>> /\ resendCh = <<>> /\ requestTxs = <<>> /\ frI = 0
      /\ numConnections = NumConns /\ faults = <<>> /\ received \in Resume
      /\ \A c \in Conns : requestCh[c] = <<>> /\ conn[c] = [at |-> "none", msg |-> NoMsg]
  BY DEF Init
<1>4. Indices(<<>>) = {} /\ ToSet(<<>>) = {} /\ Once(<<>>) /\ Distinct(<<>>)
  BY DEF Indices, ToSet, Once, Distinct
<1>5. /\ held[Unsent] = Pieces
      /\ held[Sender] = {} /\ held[Assembler] = {}
      /\ held[Replies] = {} /\ held[Resends] = {}
      /\ \A c \in Conns : held[Task(c)] = {} /\ held[Channel(c)] = {}
  <2>1. \A p \in Pieces : p >= 0
    BY SizesAssumption DEF Pieces
  <2>2. held[Unsent] = Pieces
    BY <1>2, <1>3, <2>1 DEF HeldValues
  <2>3. /\ held[Sender] = {} /\ held[Assembler] = {}
        /\ held[Replies] = {} /\ held[Resends] = {}
    BY <1>2, <1>3, <1>4 DEF HeldValues, Here, Resending
  <2>4. ASSUME NEW c \in Conns PROVE held[Task(c)] = {} /\ held[Channel(c)] = {}
    <3>1. requestCh[c] = <<>> /\ conn[c].msg = NoMsg
      BY <1>3
    <3> QED
      BY <1>2, <1>4, <3>1 DEF HeldValues, Here
  <2> QED
    BY <2>2, <2>3, <2>4
<1>6. \A h \in Holders : h # Unsent => held[h] = {}
  BY <1>5, HolderForm
<1>7. HandsEmpty
  BY <1>3, SizesAssumption DEF HandsEmpty, Conns
<1>8. RequestsOnly
  BY <1>3, EmptySeq DEF RequestsOnly
<1>9. Alone
  BY <1>3, <1>4, <1>6 DEF Alone, NoOverlap
<1>10. Somewhere
  BY <1>5 DEF Somewhere, Holders
<1>11. NotHeldTwice
  BY <1>3 DEF NotHeldTwice, Fresh
<1>12. Healthy
  BY <1>3, <1>4 DEF Healthy, NoMsg
<1> QED
  BY <1>1, <1>7, <1>8, <1>9, <1>10, <1>11, <1>12 DEF RInv

\* Every step keeps the invariant.
LEMMA StepRInv == RInv /\ [Next]_vars => RInv'
<1> SUFFICES ASSUME RInv, [Next]_vars PROVE RInv'
  OBVIOUS
<1>1. IInv'
  BY StepIInv DEF RInv
<1>2. CASE Next
  <2>1. NoOverlap' /\ Somewhere' /\ NotHeldTwice'
    BY <1>2, NextOutcome, OutcomeKeeps
  <2>2. Alone'
    BY <1>2, <2>1, ChannelsStep DEF Alone
  <2> QED
    BY <1>1, <1>2, <2>1, <2>2, HandsEmptyStep, RequestsOnlyStep, HealthyStep DEF RInv
<1>3. CASE UNCHANGED vars
  <2> USE <1>3 DEF vars, sharedVars, channels, frVars, srVars, rlVars, connVars, disk
  <2>1. \A h \in Holders : held'[h] = held[h]
    BY HolderForm, HeldFrame
  <2>2. NoOverlap' /\ Somewhere' /\ NotHeldTwice'
    BY <2>1 DEF RInv, Alone, NoOverlap, Somewhere, NotHeldTwice, SrEnded, RlEnded, Happened
  <2>3. Alone'
    BY <2>2 DEF RInv, Alone
  <2>4. HandsEmpty' /\ RequestsOnly'
    BY DEF RInv, HandsEmpty, RequestsOnly
  <2>5. Healthy'
    BY DEF RInv, Healthy, Happened, RlEnded
  <2> QED
    BY <1>1, <2>2, <2>3, <2>4, <2>5 DEF RInv
<1> QED
  BY <1>2, <1>3

\* The places where a request is, as the run counts them, are those of the holders.
LEMMA PlacesHeld ==
  ASSUME NEW p \in Pieces
  PROVE  /\ Somewhere => (~SrEnded /\ ~RlEnded /\ ~Happened({"connect", "drop"})
                            /\ p \notin received => Places(p) # {})
         /\ Alone => \A x, y \in Places(p) : x = y
<1>1. HeldValues
  BY HeldAt
<1> DEFINE At1 == Here(p >= srI, <<"unsent">>)
           At2 == Here(/\ srI = NumPieces /\ srMsg.index = p
                       /\ srPc \in {"picking", "looking", "sending"}, <<"send_requests">>)
           At3 == Here(rlMsg # NoMsg /\ rlMsg.index = p, <<"reassemble_loop">>)
           At4 == {<<"recv_data", c>> :
                     c \in {d \in Conns : conn[d].msg # NoMsg /\ conn[d].msg.index = p}}
           At5 == UNION {{<<"request", c, i>> : i \in Holding(requestCh[c], p)} :
                           c \in Conns}
           At6 == {<<"conn", i>> : i \in Holding(connCh, p)}
           At7 == {<<"resend", i>> : i \in {j \in DOMAIN resendCh : resendCh[j] = p}}
<1>2. Places(p) = At1 \cup At2 \cup At3 \cup At4 \cup At5 \cup At6 \cup At7
  BY DEF Places
<1>3. /\ p \in held[Unsent] <=> At1 # {}
      /\ p \in held[Sender] <=> At2 # {}
      /\ p \in held[Assembler] <=> At3 # {}
  BY <1>1 DEF HeldValues, Here, Resending
<1>4. p \in held[Replies] <=> At6 # {}
  <2>1. p \in held[Replies] <=> \E i : i \in Holding(connCh, p)
    BY <1>1 DEF HeldValues, Indices, Holding
  <2> QED
    BY <2>1
<1>5. p \in held[Resends] <=> At7 # {}
  <2>1. p \in held[Resends] <=> \E i : i \in {j \in DOMAIN resendCh : resendCh[j] = p}
    BY <1>1 DEF HeldValues, ToSet
  <2> QED
    BY <2>1
<1>6. ASSUME NEW c \in Conns
      PROVE  /\ p \in held[Task(c)] <=> conn[c].msg # NoMsg /\ conn[c].msg.index = p
             /\ p \in held[Channel(c)] <=> Holding(requestCh[c], p) # {}
  <2>1. p \in held[Task(c)] <=> conn[c].msg # NoMsg /\ conn[c].msg.index = p
    BY <1>1 DEF HeldValues, Here
  <2>2. p \in held[Channel(c)] <=> Holding(requestCh[c], p) # {}
    BY <1>1 DEF HeldValues, Indices, Holding
  <2> QED
    BY <2>1, <2>2
<1> HIDE DEF At1, At2, At3, At6, At7
<1>7. ASSUME NEW h \in Holders, p \in held[h] PROVE Places(p) # {}
  <2>1. CASE h \in {Unsent, Sender, Assembler, Replies, Resends}
    BY <1>2, <1>3, <1>4, <1>5, <1>7, <2>1
  <2>2. ASSUME NEW c \in Conns, h = Task(c) PROVE Places(p) # {}
    <3>1. <<"recv_data", c>> \in At4
      BY <1>6, <1>7, <2>2
    <3> QED
      BY <1>2, <3>1
  <2>3. ASSUME NEW c \in Conns, h = Channel(c) PROVE Places(p) # {}
    <3>1. PICK i : i \in Holding(requestCh[c], p)
      BY <1>6, <1>7, <2>3
    <3>2. <<"request", c, i>> \in At5
      BY <3>1
    <3> QED
      BY <1>2, <3>2
  <2> QED
    BY <2>1, <2>2, <2>3, HolderForm
<1>8. ASSUME Somewhere, ~SrEnded, ~RlEnded, ~Happened({"connect", "drop"}),
             p \notin received
      PROVE  Places(p) # {}
  BY <1>7, <1>8 DEF Somewhere
\* One place for each holder.
<1>9. ASSUME Alone
      PROVE  /\ \A x, y \in At1 : x = y
             /\ \A x, y \in At2 : x = y
             /\ \A x, y \in At3 : x = y
             /\ \A x, y \in At6 : x = y
             /\ \A x, y \in At7 : x = y
             /\ \A c \in Conns : \A i, j \in Holding(requestCh[c], p) : i = j
  <2>1. (\A x, y \in At1 : x = y) /\ (\A x, y \in At2 : x = y) /\ (\A x, y \in At3 : x = y)
    BY DEF At1, At2, At3, Here
  <2>2. \A i, j \in Holding(connCh, p) : i = j
    BY <1>9 DEF Alone, Once, Holding
  <2>3. \A i, j \in {k \in DOMAIN resendCh : resendCh[k] = p} : i = j
    BY <1>9 DEF Alone, Distinct
  <2>4. \A c \in Conns : \A i, j \in Holding(requestCh[c], p) : i = j
    BY <1>9 DEF Alone, Once, Holding
  <2> QED
    BY <2>1, <2>2, <2>3, <2>4 DEF At6, At7
<1> DEFINE Of(x, h) == \/ x \in At1 /\ h = Unsent
                       \/ x \in At2 /\ h = Sender
                       \/ x \in At3 /\ h = Assembler
                       \/ x \in At6 /\ h = Replies
                       \/ x \in At7 /\ h = Resends
                       \/ \E c \in Conns : x = <<"recv_data", c>> /\ x \in At4 /\ h = Task(c)
                       \/ \E c \in Conns : \E i \in Holding(requestCh[c], p) :
                            x = <<"request", c, i>> /\ h = Channel(c)
<1>10. ASSUME NEW x \in Places(p)
       PROVE  \E h \in Holders : p \in held[h] /\ Of(x, h)
  <2>1. {Unsent, Sender, Assembler, Replies, Resends} \subseteq Holders
    BY DEF Holders
  <2>2. CASE x \in At1 \cup At2 \cup At3 \cup At6 \cup At7
    BY <1>3, <1>4, <1>5, <2>1, <2>2
  <2>3. CASE x \in At4
    <3>1. PICK c \in Conns : x = <<"recv_data", c>> /\ conn[c].msg # NoMsg /\ conn[c].msg.index = p
      BY <2>3
    <3>2. Task(c) \in Holders /\ p \in held[Task(c)]
      BY <1>6, <3>1 DEF Holders
    <3> QED
      BY <2>3, <3>1, <3>2
  <2>4. CASE x \in At5
    <3>1. PICK c \in Conns : \E i \in Holding(requestCh[c], p) : x = <<"request", c, i>>
      BY <2>4
    <3>2. Channel(c) \in Holders /\ p \in held[Channel(c)]
      BY <1>6, <3>1 DEF Holders
    <3> QED
      BY <3>1, <3>2
  <2> QED
    BY <1>2, <2>2, <2>3, <2>4
<1>11. ASSUME Alone, NEW h \in Holders, NEW x, NEW y, Of(x, h), Of(y, h)
       PROVE  x = y
  <2>1. CASE h \in {Unsent, Sender, Assembler, Replies, Resends}
    BY <1>9, <1>11, <2>1, HoldersDiffer
  <2>2. ASSUME NEW c \in Conns, h = Task(c) PROVE x = y
    <3>1. x = <<"recv_data", c>> /\ y = <<"recv_data", c>>
      BY <1>11, <2>2, HoldersDiffer
    <3> QED
      BY <3>1
  <2>3. ASSUME NEW c \in Conns, h = Channel(c) PROVE x = y
    <3>1. /\ \E i \in Holding(requestCh[c], p) : x = <<"request", c, i>>
          /\ \E i \in Holding(requestCh[c], p) : y = <<"request", c, i>>
      BY <1>11, <2>3, HoldersDiffer
    <3> QED
      BY <1>9, <1>11, <3>1
  <2> QED
    BY <2>1, <2>2, <2>3, HolderForm
<1>12. ASSUME Alone, NEW x \in Places(p), NEW y \in Places(p) PROVE x = y
  <2> HIDE DEF Of
  <2>1. PICK h \in Holders : p \in held[h] /\ Of(x, h)
    BY <1>10
  <2>2. PICK k \in Holders : p \in held[k] /\ Of(y, k)
    BY <1>10
  <2>3. h = k
    BY <1>12, <2>1, <2>2 DEF Alone, NoOverlap
  <2> QED
    BY <1>11, <1>12, <2>1, <2>2, <2>3
<1> QED
  BY <1>8, <1>12

\* Every state of a download keeps each request with one holder.
THEOREM RequestInvariance == Spec => []RInv
<1>1. Init => RInv
  BY InitRInv
<1>2. RInv /\ [Next]_vars => RInv'
  BY StepRInv
<1> QED
  BY <1>1, <1>2, PTL DEF Spec

\* A piece is never requested twice at the same time.
THEOREM RequestsAreUnique == Spec => []OneRequestPerPiece
<1>1. RInv => OneRequestPerPiece
  <2> SUFFICES ASSUME RInv, NEW p \in Pieces PROVE Cardinality(Places(p)) <= 1
    BY DEF OneRequestPerPiece
  <2>1. \A x, y \in Places(p) : x = y
    BY PlacesHeld DEF RInv
  <2>2. CASE Places(p) = {}
    BY <2>2, FS_EmptySet
  <2>3. ASSUME NEW x \in Places(p) PROVE Cardinality(Places(p)) <= 1
    <3>1. Places(p) = {x}
      BY <2>1
    <3> QED
      BY <3>1, FS_Singleton
  <2> QED
    BY <2>2, <2>3
<1> QED
  BY <1>1, RequestInvariance, PTL

\* While both tasks run, no request is lost but with its connection.
THEOREM RequestsAreKept == Spec => []NoRequestLost
<1>1. RInv => NoRequestLost
  BY PlacesHeld DEF RInv, NoRequestLost
<1> QED
  BY <1>1, RequestInvariance, PTL

\* send_requests fails while pieces are missing only after a connection did.
THEOREM ErrorsHaveACause == Spec => []ErrorOnlyAfterFailure
<1>1. RInv => ErrorOnlyAfterFailure
  BY DEF RInv, Healthy, ErrorOnlyAfterFailure, Failure
<1> QED
  BY <1>1, RequestInvariance, PTL

\* A download that starts with nothing has sent all its requests when it is
\* complete: there send_requests does not fail even then.
THEOREM FreshErrorsHaveACause ==
  Fresh => (Spec => [](srPc = "error" /\ ~RlEnded => Happened(Failure)))
<1> DEFINE Caused == srPc = "error" /\ ~RlEnded => Happened(Failure)
<1>1. ASSUME Fresh PROVE RInv => Caused
  BY <1>1 DEF RInv, Healthy
<1>2. ASSUME Fresh PROVE Spec => []Caused
  <2>1. RInv => Caused
    BY <1>1, <1>2
  <2> QED
    BY <2>1, RequestInvariance, PTL
<1> QED
  BY <1>2
=============================================================================
