----------------------------- MODULE PeerConnect -----------------------------
(***************************************************************************)
(* How the two ends of one connection find a way to each other: over the   *)
(* LAN, across the NAT after hole punching, or through the TURN relay.     *)
(* seeder_connection and requester_connection walk through these stages on *)
(* their own; they meet in four RPCs of the server, in the network, and at *)
(* the barrier of the relay.  Time is an order: a time limit strikes when  *)
(* the other end will not come, or when a call was late.                   *)
(***************************************************************************)
EXTENDS Naturals, FiniteSets

CONSTANTS
  Lans,      \* how the LAN may be: "up", "blocked" or "flaky"
  Nats,      \* how packets get across the NATs: "open", "closed" or "flaky"
  Faults,    \* the faults that may occur: "late", "crash"
  MaxFaults  \* bound on their number

Ends == {"seeder", "requester"}
NotAsked == "none"

ASSUME PathsAssumption ==
  /\ Lans \subseteq {"up", "blocked", "flaky"} /\ Lans # {}
  /\ Nats \subseteq {"open", "closed", "flaky"} /\ Nats # {}
  /\ Faults \subseteq {"late", "crash"}
  /\ MaxFaults \in Nat

VARIABLES
  sameNat, lan, nat,  \* the network between the two ends
  sd, rq,      \* seeder_connection and requester_connection
  certSender,  \* cert_sender at the requester's address: who waits there
  cert,        \* the certificate the requester got last
  trigger,     \* init_hole_punch at the seeder's address
  punched,     \* the ends that the other's HELPFUL_SERF will reach
  shaken,      \* the ends for which the handshake under way will succeed
  session,     \* the ends registered in the session of the relay
  faults, oneSided  \* what went wrong so far; in no line of the code

network == <<sameNat, lan, nat>>
server == <<certSender, trigger, session>>
outcome == <<punched, shaken>>
vars == <<network, sd, rq, server, cert, outcome, faults, oneSided>>

\* A state of an end is a stage and where in it the end is.
St(stage, at) == [stage |-> stage, at |-> at]
Way(e) == IF e.at = "connected" THEN e.stage ELSE "none"
Failed == St("none", "failed")
Crashed == St("none", "crashed")

Init ==
  /\ sameNat \in BOOLEAN /\ lan \in Lans /\ nat \in Nats
  /\ sd = St("none", "start") /\ rq = St("none", "start")
  /\ certSender = NotAsked /\ cert = NotAsked
  /\ trigger = "none"
  /\ punched = {} /\ shaken = {}
  /\ session = {}
  /\ faults = 0 /\ oneSided = FALSE

\* A time limit strikes although the other end is on its way, or it is not.
Late(onItsWay) ==
  \/ ~onItsWay /\ UNCHANGED faults
  \/ onItsWay /\ "late" \in Faults /\ faults < MaxFaults /\ faults' = faults + 1

NoteOneSided(ends) == oneSided' = (oneSided \/ Cardinality(ends) = 1)

-----------------------------------------------------------------------------
(* Wrong variants of the operators below, for showing that each property   *)
(* depends on the code: see the mutants of PROJECT.json.                   *)

\* The certificate of an earlier stage is used again.
GetCertOnce ==
  /\ rq.at = "ask"
  /\ IF cert = NotAsked
       THEN certSender' = rq.stage /\ rq' = St(rq.stage, "wait")
       ELSE UNCHANGED certSender /\ rq' = St(rq.stage, "connect")
  /\ UNCHANGED <<network, sd, cert, trigger, session, outcome, faults, oneSided>>

\* The seeder is done as soon as somebody knocks.
SeederShakenEarly ==
  /\ sd.at = "handshake"
  /\ sd' = St(sd.stage, "connected")
  /\ UNCHANGED <<network, rq, server, cert, outcome, faults, oneSided>>

\* An error of hole_punch is passed on.
SeederPunchFailure ==
  /\ sd.at = "punching"
  /\ Late("seeder" \in punched /\ rq # Crashed)
  /\ sd' = Failed
  /\ UNCHANGED <<network, rq, server, cert, outcome, oneSided>>

\* The watch channel stays open after its reader has gone.
TriggerLeaks ==
  /\ sd.at = "await"
  /\ Late(FALSE)
  /\ sd' = St("turn", "register")
  /\ UNCHANGED <<network, rq, server, cert, outcome, oneSided>>

-----------------------------------------------------------------------------
(* The certificate.  get_cert leaves a sender under the requester's        *)
(* address and waits for ever; send_cert looks for it five times in 1.25 s.*)

GetCert ==
  /\ rq.at = "ask"
  /\ certSender' = rq.stage
  /\ rq' = St(rq.stage, "wait")
  /\ UNCHANGED <<network, sd, cert, trigger, session, outcome, faults, oneSided>>

\* create_quic_server: the sender is taken out and used.
SendCert ==
  /\ sd.at = "send" /\ certSender # NotAsked
  /\ certSender' = NotAsked
  /\ IF rq = Crashed
       THEN sd' = Failed /\ UNCHANGED cert
       ELSE sd' = St(sd.stage, "accept") /\ cert' = sd.stage
  /\ UNCHANGED <<network, rq, trigger, session, outcome, faults, oneSided>>

\* The requester will ask for the certificate of this stage.
WillAsk(stage) ==
  \/ rq = St(stage, "ask")
  \/ stage = "lan" /\ rq.at = "start"
  \/ stage = "punch" /\ rq.at = "punching" /\ "requester" \in punched

\* The error goes up through create_quic_server and seeder_connection.
CertNotAsked ==
  /\ sd.at = "send" /\ certSender = NotAsked
  /\ Late(WillAsk(sd.stage))
  /\ sd' = Failed
  /\ UNCHANGED <<network, rq, server, cert, outcome, oneSided>>

TakeCert ==
  /\ rq.at = "wait" /\ certSender = NotAsked
  /\ rq' = St(rq.stage, "connect")
  /\ UNCHANGED <<network, sd, server, cert, outcome, faults, oneSided>>

-----------------------------------------------------------------------------
(* The QUIC handshake.  accept has no time limit; the handshake has one of *)
(* four seconds at either end.                                             *)

\* Whether packets of the requester reach the seeder's endpoint.
Reachable(stage) == stage = "lan" => lan # "blocked"

\* For whom the handshake may succeed.
Outcomes(stage) ==
  IF "flaky" = (IF stage = "lan" THEN lan ELSE nat) THEN SUBSET Ends ELSE {Ends}

Connect ==
  /\ rq.at = "connect" /\ sd = St(rq.stage, "accept")
  /\ Reachable(rq.stage)
  /\ shaken' \in Outcomes(rq.stage)
  /\ NoteOneSided(shaken')
  /\ sd' = St(sd.stage, "handshake") /\ rq' = St(rq.stage, "handshake")
  /\ UNCHANGED <<network, server, cert, punched, faults>>

NextStage(stage, end) ==
  CASE stage = "punch" -> St("turn", "register")
    [] stage = "lan" /\ end = "seeder" -> St("punch", "prepare")
    [] stage = "lan" /\ end = "requester" -> St("punch", "pause")

ConnectTimeout ==
  /\ rq.at = "connect"
  /\ Late(sd = St(rq.stage, "accept") /\ Reachable(rq.stage))
  /\ rq' = NextStage(rq.stage, "requester")
  /\ UNCHANGED <<network, sd, server, cert, outcome, oneSided>>

SeederShaken ==
  /\ sd.at = "handshake"
  /\ sd' = IF "seeder" \in shaken THEN St(sd.stage, "connected")
                                  ELSE NextStage(sd.stage, "seeder")
  /\ UNCHANGED <<network, rq, server, cert, outcome, faults, oneSided>>

RequesterShaken ==
  /\ rq.at = "handshake"
  /\ rq' = IF "requester" \in shaken THEN St(rq.stage, "connected")
                                     ELSE NextStage(rq.stage, "requester")
  /\ UNCHANGED <<network, sd, server, cert, outcome, faults, oneSided>>

-----------------------------------------------------------------------------
(* Hole punching.                                                          *)

\* The future of await_hole_punch_trigger does nothing before it is awaited
\* here, after the LAN has failed.
AwaitTrigger ==
  /\ sd.at = "prepare"
  /\ trigger' = "waiting"
  /\ sd' = St("punch", "await")
  /\ UNCHANGED <<network, rq, certSender, session, cert, outcome, faults, oneSided>>

Triggered ==
  /\ sd.at = "await" /\ trigger = "fired"
  /\ sd' = St("punch", "punching")
  /\ UNCHANGED <<network, rq, server, cert, outcome, faults, oneSided>>

\* Five seconds without a trigger; the server drops the receiver of the
\* watch channel and keeps its sender.
TriggerTimeout ==
  /\ sd.at = "await" /\ trigger = "waiting"
  /\ Late(rq.at \in {"start", "handshake", "pause"})
  /\ trigger' = "abandoned"
  /\ sd' = St("turn", "register")
  /\ UNCHANGED <<network, rq, certSender, session, cert, outcome, oneSided>>

\* Whom a packet may reach when both ends are sending.
Punchable ==
  CASE nat = "open" -> {Ends}
    [] nat = "closed" -> {{}}
    [] nat = "flaky" -> SUBSET Ends

\* The pause of a second gives the seeder the time to register its trigger.
InitPunch ==
  /\ rq.at = "pause" /\ trigger = "waiting"
  /\ trigger' = "fired"
  /\ punched' \in Punchable
  /\ NoteOneSided(punched')
  /\ rq' = St("punch", "punching")
  /\ UNCHANGED <<network, sd, certSender, session, cert, shaken, faults>>

\* The only attempt of init_punch fails: no sender, or nobody listens to it.
InitPunchFails ==
  /\ rq.at = "pause" /\ trigger # "waiting"
  /\ Late(sd.at \in {"start", "handshake", "prepare"})
  /\ rq' = St("turn", "register")
  /\ UNCHANGED <<network, sd, server, cert, outcome, oneSided>>

SeederPunched ==
  /\ sd.at = "punching" /\ "seeder" \in punched
  /\ sd' = St("punch", "send")
  /\ UNCHANGED <<network, rq, server, cert, outcome, faults, oneSided>>

RequesterPunched ==
  /\ rq.at = "punching" /\ "requester" \in punched /\ sd.at # "await"
  /\ rq' = St("punch", "ask")
  /\ UNCHANGED <<network, sd, server, cert, outcome, faults, oneSided>>

\* 200 packets are sent, and none is answered by then.
SeederNotPunched ==
  /\ sd.at = "punching"
  /\ Late("seeder" \in punched /\ rq # Crashed)
  /\ sd' = St("turn", "register")
  /\ UNCHANGED <<network, rq, server, cert, outcome, oneSided>>

RequesterNotPunched ==
  /\ rq.at = "punching"
  /\ Late("requester" \in punched /\ sd # Crashed)
  /\ rq' = St("turn", "register")
  /\ UNCHANGED <<network, sd, server, cert, outcome, oneSided>>

-----------------------------------------------------------------------------
(* TURN: a slot of the session, then the barrier, which counts an end that *)
(* has died since.  See module Turn for what follows.                      *)

SeederRegister ==
  /\ sd.at = "register"
  /\ session' = session \cup {"seeder"}
  /\ sd' = St("turn", "barrier")
  /\ UNCHANGED <<network, rq, certSender, trigger, cert, outcome, faults, oneSided>>

RequesterRegister ==
  /\ rq.at = "register"
  /\ session' = session \cup {"requester"}
  /\ rq' = St("turn", "barrier")
  /\ UNCHANGED <<network, sd, certSender, trigger, cert, outcome, faults, oneSided>>

SeederPass ==
  /\ sd.at = "barrier" /\ session = Ends
  /\ sd' = St("turn", "connected")
  /\ UNCHANGED <<network, rq, server, cert, outcome, faults, oneSided>>

RequesterPass ==
  /\ rq.at = "barrier" /\ session = Ends
  /\ rq' = St("turn", "connected")
  /\ UNCHANGED <<network, sd, server, cert, outcome, faults, oneSided>>

-----------------------------------------------------------------------------
\* Both ends have each other's PeerId, from seed and from the peer list; they
\* try the LAN when their public addresses are the same.
SeederStart ==
  /\ sd.at = "start"
  /\ sd' = IF sameNat THEN St("lan", "send") ELSE St("punch", "prepare")
  /\ UNCHANGED <<network, rq, server, cert, outcome, faults, oneSided>>

RequesterStart ==
  /\ rq.at = "start"
  /\ rq' = IF sameNat THEN St("lan", "ask") ELSE St("punch", "pause")
  /\ UNCHANGED <<network, sd, server, cert, outcome, faults, oneSided>>

\* The process of an end that is still trying dies.
Crash ==
  /\ "crash" \in Faults /\ faults < MaxFaults
  /\ faults' = faults + 1
  /\ \/ /\ sd.at \notin {"connected", "failed", "crashed"}
        /\ sd' = Crashed
        /\ trigger' = IF trigger = "waiting" THEN "abandoned" ELSE trigger
        /\ UNCHANGED rq
     \/ /\ rq.at \notin {"connected", "crashed"}
        /\ rq' = Crashed
        /\ UNCHANGED <<sd, trigger>>
  /\ UNCHANGED <<network, certSender, session, cert, outcome, oneSided>>

SeederStep ==
  \/ SeederStart \/ SendCert \/ CertNotAsked \/ SeederShaken
  \/ AwaitTrigger \/ Triggered \/ TriggerTimeout \/ SeederPunched \/ SeederNotPunched
  \/ SeederRegister \/ SeederPass

RequesterStep ==
  \/ RequesterStart \/ GetCert \/ TakeCert \/ Connect \/ ConnectTimeout
  \/ RequesterShaken \/ InitPunch \/ InitPunchFails
  \/ RequesterPunched \/ RequesterNotPunched
  \/ RequesterRegister \/ RequesterPass

Next == SeederStep \/ RequesterStep \/ Crash

Spec == Init /\ [][Next]_vars

\* Every await that can return does, and every time limit strikes.
FairSpec ==
  /\ Spec
  /\ WF_vars(SeederStep) /\ WF_vars(RequesterStep)

-----------------------------------------------------------------------------
States ==
  {St("none", at) : at \in {"start", "failed", "crashed"}}
    \cup {St(s, at) : s \in {"lan", "punch"},
                      at \in {"send", "ask", "wait", "accept", "connect", "handshake", "connected"}}
    \cup {St("punch", at) : at \in {"prepare", "await", "pause", "punching"}}
    \cup {St("turn", at) : at \in {"register", "barrier", "connected"}}

TypeOK ==
  /\ sameNat \in BOOLEAN /\ lan \in Lans /\ nat \in Nats
  /\ sd \in States /\ rq \in States
  /\ certSender \in {NotAsked, "lan", "punch"}
  /\ cert \in {NotAsked, "lan", "punch"}
  /\ trigger \in {"none", "waiting", "fired", "abandoned"}
  /\ trigger = "waiting" => sd.at = "await"
  /\ punched \subseteq Ends /\ shaken \subseteq Ends /\ session \subseteq Ends
  /\ faults \in 0 .. MaxFaults /\ oneSided \in BOOLEAN

Clean == faults = 0 /\ ~oneSided

\* One address serves get_cert in both QUIC stages, and calls may be late: the
\* requester still connects only with the certificate of the endpoint it
\* connects to.
CertMatchesStage == rq.at \in {"connect", "handshake"} => cert = rq.stage

\* One end is connected and the other takes another way or returns an error,
\* when it should fall back, only after a fault: a call that came too late, an
\* end that died, or packets that went one way only.
EndsAgree ==
  Clean =>
    /\ sd # Failed
    /\ Way(sd) \in {"lan", "punch"} => rq.stage = Way(sd) /\ rq.at \in {"handshake", "connected"}
    /\ Way(rq) \in {"lan", "punch"} => sd.stage = Way(rq) /\ sd.at \in {"handshake", "connected"}
    /\ "turn" \in {Way(sd), Way(rq)} => sd.stage = "turn" /\ rq.stage = "turn"

\* quic_listener waits for ever where the LAN gives no answer at all.
Blocked == sameNat /\ lan = "blocked"

Connected == Way(sd) = Way(rq) /\ Way(sd) # "none"

\* ICE order: the stages end, and both ends are connected over the same one,
\* unless the LAN is blocked or one of the faults occurs.
BothConnect == <>(Connected \/ Blocked \/ ~Clean)

\* The docs of seeder_connection: "first attempting to make a connection over
\* LAN if possible, then attempting hole-punching, and then falling back on our
\* TURN server if all other methods fail" (peer_connection.rs:112-114).
FallsBackOnTurn == <>(Connected \/ ~Clean)
=============================================================================
