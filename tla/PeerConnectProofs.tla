-------------------------- MODULE PeerConnectProofs --------------------------
(***************************************************************************)
(* The two ends of a connection for every kind of network and every number *)
(* and choice of faults: types, that the requester connects with the       *)
(* certificate of the endpoint it connects to, and that without a fault    *)
(* no end is connected while the other takes another way.                  *)
(***************************************************************************)
EXTENDS PeerConnect, FiniteSetTheorems, TLAPS

\* The trigger of the hole punch orders the two ends: the seeder is past the
\* LAN when it waits for it, and the requester is past the LAN when it fires.
TriggerOrders ==
  /\ sd.at = "start" \/ sd.stage = "lan" \/ sd.at = "prepare" => trigger = "none"
  /\ sd.at = "await" => trigger \in {"waiting", "fired"}
  /\ sd.stage = "punch" /\ sd.at \notin {"prepare", "await"} => trigger = "fired"
  /\ rq.stage = "punch" /\ rq.at # "pause" => trigger = "fired"
  /\ trigger = "fired" =>
       \/ rq.at = "crashed" \/ rq.stage = "turn"
       \/ rq.stage = "punch" /\ rq.at # "pause"

\* The sender of get_cert is that of the stage the requester waits in, and
\* what it got is the certificate of that stage.
CertOnItsWay ==
  /\ certSender # NotAsked =>
       \/ rq.at = "crashed"
       \/ rq.at = "wait" /\ rq.stage = certSender
  /\ rq.at = "wait" /\ certSender = NotAsked => cert = rq.stage
  /\ rq.at \in {"connect", "handshake"} => cert = rq.stage

-----------------------------------------------------------------------------
(* The phases of a run without a fault: where the two ends can be together. *)

Both(stage, sdAts, rqAts) ==
  /\ sd.stage = stage /\ sd.at \in sdAts
  /\ rq.stage = stage /\ rq.at \in rqAts

\* Is the end at the barrier of the relay, or past it.
AtBarrier(e) == e.stage = "turn" /\ e.at \in {"barrier", "connected"}
Registered ==
  session = {x \in Ends : AtBarrier(IF x = "seeder" THEN sd ELSE rq)}

\* The requester asks for the certificate and the seeder has not sent it.
Asking(stage, sdAts, rqAts) ==
  /\ sd.at \in sdAts /\ sd.stage \in {"none", stage}
  /\ rq.at \in rqAts /\ rq.stage \in {"none", stage}
  /\ certSender = IF rq.at = "wait" THEN stage ELSE NotAsked
  /\ session = {}

MeetOnLan ==
  /\ sameNat /\ trigger = "none" /\ shaken = {}
  /\ Asking("lan", {"start", "send"}, {"start", "ask", "wait"})

Certified ==
  /\ certSender = NotAsked /\ session = {}
  /\ \/ Both("lan", {"accept"}, {"wait", "connect"})
     \/ Both("punch", {"accept"}, {"wait", "connect"})

\* The LAN drops every packet: the seeder accepts for ever.
LeftBehind ==
  /\ lan = "blocked" /\ certSender = NotAsked
  /\ sd.stage = "lan" /\ sd.at = "accept"
  /\ \/ rq.stage = "punch" /\ rq.at = "pause"
     \/ rq.stage = "turn" /\ rq.at \in {"register", "barrier"}
  /\ Registered

Shaken ==
  /\ shaken = Ends
  /\ \/ Both("lan", {"handshake", "connected"}, {"handshake", "connected"})
     \/ Both("punch", {"handshake", "connected"}, {"handshake", "connected"})
  /\ certSender = NotAsked

\* Neither end gets through on the LAN, or they are not on one.
BeforePunch ==
  /\ certSender = NotAsked /\ shaken = {} /\ session = {}
  /\ \/ sd.at = "start" /\ ~sameNat
     \/ sd.stage = "lan" /\ sd.at = "handshake"
     \/ sd.stage = "punch" /\ sd.at \in {"prepare", "await"}
  /\ \/ rq.at = "start" /\ ~sameNat
     \/ rq.stage = "lan" /\ rq.at = "handshake"
     \/ rq.stage = "punch" /\ rq.at = "pause"
  /\ trigger = IF sd.at = "await" THEN "waiting" ELSE "none"

\* The packets of both reach the other.
MeetPunched ==
  /\ punched = Ends /\ shaken = {}
  /\ Asking("punch", {"await", "punching", "send"}, {"punching", "ask", "wait"})
  /\ sd.stage = "punch" /\ rq.stage = "punch"
  /\ sd.at = "await" => rq.at = "punching" /\ trigger = "fired"

\* Neither end gets through, and both turn to the relay.
ToRelay ==
  /\ trigger = "fired" /\ shaken = {} /\ certSender = NotAsked
  /\ \/ sd.stage = "punch" /\ sd.at \in {"await", "punching"} /\ punched = {}
     \/ sd.stage = "punch" /\ sd.at = "handshake"
     \/ sd.stage = "turn"
  /\ \/ rq.stage = "punch" /\ rq.at = "punching" /\ punched = {}
     \/ rq.stage = "punch" /\ rq.at = "handshake"
     \/ rq.stage = "turn"
  /\ Registered
  /\ sd.at = "connected" \/ rq.at = "connected" => session = Ends

Phases ==
  \/ MeetOnLan \/ Certified \/ LeftBehind \/ Shaken
  \/ BeforePunch \/ MeetPunched \/ ToRelay

IInv ==
  /\ TypeOK
  /\ TriggerOrders
  /\ CertOnItsWay
  /\ Clean => Phases
-----------------------------------------------------------------------------
(* The steps keep the invariant.                                           *)

\* An end is its stage and its place in it (St).
LEMMA StateForm == \A e \in States : e = St(e.stage, e.at)
  BY DEF States, St

\* Packets that reach both ends or neither are not one-sided (NoteOneSided).
LEMMA OneSided ==
  ASSUME NEW S \in SUBSET Ends, Cardinality(S) # 1
  PROVE  S = {} \/ S = Ends
<1>1. Cardinality({"seeder"}) = 1 /\ Cardinality({"requester"}) = 1
  BY FS_Singleton
<1>2. S = {} \/ S = Ends \/ S = {"seeder"} \/ S = {"requester"}
  BY DEF Ends
<1> QED
  BY <1>1, <1>2

\* What seeder_connection does keeps types, order and certificate.
LEMMA SeederStepParts == IInv /\ SeederStep => TypeOK' /\ TriggerOrders' /\ CertOnItsWay'
<1> SUFFICES ASSUME IInv, SeederStep PROVE TypeOK' /\ TriggerOrders' /\ CertOnItsWay'
  OBVIOUS
<1> USE StateForm, PathsAssumption
    DEF IInv, TypeOK, TriggerOrders, CertOnItsWay, States, St, Ends, NotAsked,
        Failed, Crashed, NextStage, Late, NoteOneSided, Punchable, Outcomes,
        network, server, outcome
<1>1. CASE SeederStart
  BY <1>1 DEF SeederStart
<1>2. CASE SendCert
  BY <1>2 DEF SendCert
<1>3. CASE CertNotAsked
  BY <1>3 DEF CertNotAsked
<1>4. CASE SeederShaken
  BY <1>4 DEF SeederShaken
<1>5. CASE AwaitTrigger
  BY <1>5 DEF AwaitTrigger
<1>6. CASE Triggered
  BY <1>6 DEF Triggered
<1>7. CASE TriggerTimeout
  BY <1>7 DEF TriggerTimeout
<1>8. CASE SeederPunched
  BY <1>8 DEF SeederPunched
<1>9. CASE SeederNotPunched
  BY <1>9 DEF SeederNotPunched
<1>10. CASE SeederRegister
  BY <1>10 DEF SeederRegister
<1>11. CASE SeederPass
  BY <1>11 DEF SeederPass
<1> QED
  BY <1>1, <1>2, <1>3, <1>4, <1>5, <1>6, <1>7, <1>8, <1>9, <1>10, <1>11
     DEF SeederStep

\* So does what requester_connection does.
LEMMA RequesterStepParts == IInv /\ RequesterStep => TypeOK' /\ TriggerOrders' /\ CertOnItsWay'
<1> SUFFICES ASSUME IInv, RequesterStep PROVE TypeOK' /\ TriggerOrders' /\ CertOnItsWay'
  OBVIOUS
<1> USE StateForm, PathsAssumption
    DEF IInv, TypeOK, TriggerOrders, CertOnItsWay, States, St, Ends, NotAsked,
        Failed, Crashed, NextStage, Late, NoteOneSided, Punchable, Outcomes,
        network, server, outcome
<1>1. CASE RequesterStart
  BY <1>1 DEF RequesterStart
<1>2. CASE GetCert
  BY <1>2 DEF GetCert
<1>3. CASE TakeCert
  BY <1>3 DEF TakeCert
<1>4. CASE Connect
  BY <1>4 DEF Connect
<1>5. CASE ConnectTimeout
  BY <1>5 DEF ConnectTimeout
<1>6. CASE RequesterShaken
  BY <1>6 DEF RequesterShaken
<1>7. CASE InitPunch
  BY <1>7 DEF InitPunch
<1>8. CASE InitPunchFails
  BY <1>8 DEF InitPunchFails
<1>9. CASE RequesterPunched
  BY <1>9 DEF RequesterPunched
<1>10. CASE RequesterNotPunched
  BY <1>10 DEF RequesterNotPunched
<1>11. CASE RequesterRegister
  BY <1>11 DEF RequesterRegister
<1>12. CASE RequesterPass
  BY <1>12 DEF RequesterPass
<1> QED
  BY <1>1, <1>2, <1>3, <1>4, <1>5, <1>6, <1>7, <1>8, <1>9, <1>10, <1>11, <1>12
     DEF RequesterStep

\* So does the end of a process.
LEMMA CrashParts == IInv /\ Crash => TypeOK' /\ TriggerOrders' /\ CertOnItsWay'
<1> SUFFICES ASSUME IInv, Crash PROVE TypeOK' /\ TriggerOrders' /\ CertOnItsWay'
  OBVIOUS
<1> USE StateForm, PathsAssumption
    DEF IInv, TypeOK, TriggerOrders, CertOnItsWay, States, St, Ends, NotAsked,
        Failed, Crashed, NextStage, Late, NoteOneSided, Punchable, Outcomes,
        network, server, outcome
<1> QED
  BY DEF Crash

\* Without a fault, a step of the seeder leads from one phase to one.
LEMMA SeederStepPhases == IInv /\ SeederStep /\ Clean' => Clean /\ Phases'
<1> SUFFICES ASSUME IInv, SeederStep, Clean' PROVE Clean /\ Phases'
  OBVIOUS
<1> USE StateForm, PathsAssumption
    DEF IInv, TypeOK, TriggerOrders, CertOnItsWay, Phases, Clean, MeetOnLan,
        Certified, LeftBehind, Shaken, BeforePunch, MeetPunched, ToRelay, Both,
        AtBarrier, Registered, Asking, States, St, Ends, NotAsked, Failed, Crashed,
        NextStage, Late, WillAsk, NoteOneSided, Punchable, Outcomes, Reachable,
        network, server, outcome
<1>1. CASE SeederStart
  BY <1>1 DEF SeederStart
<1>2. CASE SendCert
  BY <1>2 DEF SendCert
<1>3. CASE CertNotAsked
  BY <1>3 DEF CertNotAsked
<1>4. CASE SeederShaken
  BY <1>4 DEF SeederShaken
<1>5. CASE AwaitTrigger
  BY <1>5 DEF AwaitTrigger
<1>6. CASE Triggered
  BY <1>6 DEF Triggered
<1>7. CASE TriggerTimeout
  BY <1>7 DEF TriggerTimeout
<1>8. CASE SeederPunched
  BY <1>8 DEF SeederPunched
<1>9. CASE SeederNotPunched
  BY <1>9 DEF SeederNotPunched
<1>10. CASE SeederRegister
  BY <1>10 DEF SeederRegister
<1>11. CASE SeederPass
  BY <1>11 DEF SeederPass
<1> QED
  BY <1>1, <1>2, <1>3, <1>4, <1>5, <1>6, <1>7, <1>8, <1>9, <1>10, <1>11
     DEF SeederStep

\* So does a step of the requester.
LEMMA RequesterStepPhases == IInv /\ RequesterStep /\ Clean' => Clean /\ Phases'
<1> SUFFICES ASSUME IInv, RequesterStep, Clean' PROVE Clean /\ Phases'
  OBVIOUS
<1> USE StateForm, PathsAssumption
    DEF IInv, TypeOK, TriggerOrders, CertOnItsWay, Phases, Clean, MeetOnLan,
        Certified, LeftBehind, Shaken, BeforePunch, MeetPunched, ToRelay, Both,
        AtBarrier, Registered, Asking, States, St, Ends, NotAsked, Failed, Crashed,
        NextStage, Late, WillAsk, NoteOneSided, Punchable, Outcomes, Reachable,
        network, server, outcome
<1>1. CASE RequesterStart
  BY <1>1 DEF RequesterStart
<1>2. CASE GetCert
  BY <1>2 DEF GetCert
<1>3. CASE TakeCert
  BY <1>3 DEF TakeCert
<1>4. CASE Connect
  <2>1. shaken' \in SUBSET Ends
    BY <1>4 DEF Connect
  <2>2. Clean /\ Cardinality(shaken') # 1
    BY <1>4 DEF Connect
  <2>3. shaken' = {} \/ shaken' = Ends
    BY <2>1, <2>2, OneSided
  <2> HIDE DEF Outcomes, Punchable, NoteOneSided, Ends
  <2> QED
    BY <1>4, <2>2, <2>3 DEF Connect
<1>5. CASE ConnectTimeout
  BY <1>5 DEF ConnectTimeout
<1>6. CASE RequesterShaken
  BY <1>6 DEF RequesterShaken
<1>7. CASE InitPunch
  <2>1. punched' \in SUBSET Ends
    BY <1>7 DEF InitPunch
  <2>2. Clean /\ Cardinality(punched') # 1
    BY <1>7 DEF InitPunch
  <2>3. punched' = {} \/ punched' = Ends
    BY <2>1, <2>2, OneSided
  <2> HIDE DEF Outcomes, Punchable, NoteOneSided, Ends
  <2> QED
    BY <1>7, <2>2, <2>3 DEF InitPunch
<1>8. CASE InitPunchFails
  BY <1>8 DEF InitPunchFails
<1>9. CASE RequesterPunched
  BY <1>9 DEF RequesterPunched
<1>10. CASE RequesterNotPunched
  BY <1>10 DEF RequesterNotPunched
<1>11. CASE RequesterRegister
  BY <1>11 DEF RequesterRegister
<1>12. CASE RequesterPass
  BY <1>12 DEF RequesterPass
<1> QED
  BY <1>1, <1>2, <1>3, <1>4, <1>5, <1>6, <1>7, <1>8, <1>9, <1>10, <1>11, <1>12
     DEF RequesterStep

\* A crash is a fault.
LEMMA CrashNotClean == IInv /\ Crash => ~Clean'
  BY DEF IInv, TypeOK, Crash, Clean

\* The start of the two functions is in the first phases.
LEMMA InitIInv == Init => IInv
<1> SUFFICES ASSUME Init PROVE IInv
  OBVIOUS
<1> USE PathsAssumption DEF Init, St, NotAsked
<1>1. TypeOK
  <2>1. St("none", "start") \in States
    BY DEF States
  <2>2. faults \in 0 .. MaxFaults
    OBVIOUS
  <2>3. sameNat \in BOOLEAN /\ oneSided \in BOOLEAN
    BY Zenon
  <2> HIDE DEF St
  <2> QED
    BY <2>1, <2>2, <2>3 DEF TypeOK
<1>2. TriggerOrders /\ CertOnItsWay
  BY DEF TriggerOrders, CertOnItsWay
<1>3. MeetOnLan \/ BeforePunch
  BY DEF MeetOnLan, Asking, BeforePunch
<1> QED
  BY <1>1, <1>2, <1>3 DEF IInv, Phases

\* Every step keeps the invariant.
LEMMA StepIInv == IInv /\ [Next]_vars => IInv'
<1> SUFFICES ASSUME IInv, [Next]_vars PROVE IInv'
  OBVIOUS
<1>1. CASE Next
  <2>1. TypeOK' /\ TriggerOrders' /\ CertOnItsWay'
    BY <1>1, SeederStepParts, RequesterStepParts, CrashParts DEF Next
  <2>2. Clean' => Phases'
    BY <1>1, SeederStepPhases, RequesterStepPhases, CrashNotClean DEF Next
  <2> QED
    BY <2>1, <2>2 DEF IInv
<1>2. CASE UNCHANGED vars
  BY <1>2 DEF vars, network, server, outcome, IInv, TypeOK, TriggerOrders,
     CertOnItsWay, Clean, Phases, MeetOnLan, Certified, LeftBehind, Shaken,
     BeforePunch, MeetPunched, ToRelay, Both, AtBarrier, Registered, Asking
<1> QED
  BY <1>1, <1>2

\* The invariant holds in every reachable state.
THEOREM Invariance == Spec => []IInv
  BY InitIInv, StepIInv, PTL DEF Spec

-----------------------------------------------------------------------------
(* What follows.                                                           *)

\* The two ends are in stages the code has (peer_connection.rs).
THEOREM TypesHold == Spec => []TypeOK
<1>1. IInv => TypeOK
  BY DEF IInv
<1> QED
  BY <1>1, Invariance, PTL

\* The requester connects with the certificate of the endpoint it connects to,
\* although get_cert serves both QUIC stages under one address and any call may
\* be late (connect_to_peer_quic, get_cert, send_cert).
THEOREM CertificatesMatch == Spec => []CertMatchesStage
<1>1. IInv => CertMatchesStage
  BY DEF IInv, CertOnItsWay, CertMatchesStage
<1> QED
  BY <1>1, Invariance, PTL

\* Without a fault both ends end up on the same way (seeder_connection,
\* requester_connection).
THEOREM EndsMeet == Spec => []EndsAgree
<1>1. IInv => EndsAgree
  BY DEF IInv, EndsAgree, Clean, Way, Phases, MeetOnLan, Certified, LeftBehind,
         Shaken, BeforePunch, MeetPunched, ToRelay, Both, AtBarrier, Registered,
         Asking, Ends, Failed, St
<1> QED
  BY <1>1, Invariance, PTL
=============================================================================
