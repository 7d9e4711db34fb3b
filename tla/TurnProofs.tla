------------------------------ MODULE TurnProofs ------------------------------
(***************************************************************************)
(* The safety of the TURN fallback for every number of sessions and        *)
(* requests and all capacities: the types, nothing that is in a queue or   *)
(* in the hands of a task gets lost, and nobody sends without a partner.   *)
(***************************************************************************)
EXTENDS Turn, SequenceTheorems, TLAPS

-----------------------------------------------------------------------------
(* The inductive invariant.                                                *)

\* One end of a session, with its relay task.  A task that waits for its next
\* message holds none that could be overwritten, and an end that is still to pass
\* the barrier has no relay task.
Slot(e, t, o, c, registered) ==
  /\ Len(o) <= OutCap /\ Len(c) <= ChanCap
  /\ e.at \in {"connecting", "registering", "waiting", "ready", "returned"}
       => e.piece = NoPiece
  /\ t.at \in {"off", "reading"} => t.piece = NoPiece
  /\ e.at \in {"connecting", "registering", "waiting"} => t.at = "off"
  /\ t.at # "off" => registered = Roles

\* A session as a whole.  start_leeching never leaves its loop.
Session(p) ==
  /\ Len(conn[p]) <= ConnCap
  /\ end[p]["leecher"].at # "returned"
  /\ Underway(p) \subseteq Indices(p) \cup {NoPiece}
  /\ Over(p) \/ Indices(p) \subseteq Underway(p)

IInv == Shapes /\ \A p \in Pairs : Session(p) /\ 
  \A r \in Roles : Slot(end[p][r], relay[p][r], out[p][r], chan[p][r], sessions[p])

-----------------------------------------------------------------------------
(* Queues.                                                                 *)

\* Sending to a channel.
LEMMA AppendQueue ==
  ASSUME NEW s \in Seq(Nat), NEW e \in Nat
  PROVE  /\ Append(s, e) \in Seq(Nat)
         /\ Len(s) \in Nat /\ Len(Append(s, e)) = Len(s) + 1
         /\ Range(Append(s, e)) = Range(s) \cup {e}
<1> DEFINE a == Append(s, e)
<1>1. /\ Len(s) \in Nat /\ DOMAIN s = 1 .. Len(s) /\ DOMAIN a = 1 .. Len(s) + 1
      /\ a \in Seq(Nat) /\ Len(a) = Len(s) + 1
  BY LenProperties, AppendProperties
<1>2. a[Len(s) + 1] = e /\ \A i \in 1 .. Len(s) : a[i] = s[i]
  BY AppendProperties
<1>3. DOMAIN a = DOMAIN s \cup {Len(s) + 1}
  BY <1>1
<1> HIDE DEF a
<1>4. Range(a) = Range(s) \cup {e}
  BY <1>1, <1>2, <1>3 DEF Range
<1> QED
  BY <1>1, <1>4 DEF a

\* Receiving from one.
LEMMA TakeFromQueue ==
  ASSUME NEW s \in Seq(Nat), s # <<>>
  PROVE  /\ Head(s) \in Nat
         /\ Tail(s) \in Seq(Nat)
         /\ Len(s) \in Nat /\ Len(Tail(s)) = Len(s) - 1
         /\ Range(s) = {Head(s)} \cup Range(Tail(s))
<1> DEFINE t == Tail(s)
<1>1. /\ Head(s) \in Nat /\ t \in Seq(Nat) /\ Len(t) = Len(s) - 1
      /\ \A i \in 1 .. Len(t) : t[i] = s[i + 1]
  BY HeadTailProperties
<1>2. Len(s) \in Nat \ {0} /\ DOMAIN s = 1 .. Len(s) /\ DOMAIN t = 1 .. Len(s) - 1
  BY <1>1, LenProperties, EmptySeq
<1>3. Head(s) = s[1]
  OBVIOUS
<1> HIDE DEF t
<1>4. ASSUME NEW x \in Range(t) PROVE x \in Range(s)
  <2>1. PICK i \in DOMAIN t : t[i] = x
    BY <1>4 DEF Range
  <2>2. i + 1 \in DOMAIN s /\ s[i + 1] = x
    BY <1>1, <1>2, <2>1
  <2> QED
    BY <2>2 DEF Range
<1>5. ASSUME NEW x \in Range(s), x # Head(s) PROVE x \in Range(t)
  <2>1. PICK i \in DOMAIN s : s[i] = x
    BY <1>5 DEF Range
  <2>2. i - 1 \in DOMAIN t /\ t[i - 1] = x
    BY <1>1, <1>2, <1>3, <1>5, <2>1
  <2> QED
    BY <2>2 DEF Range
<1>6. Head(s) \in Range(s)
  BY <1>2, <1>3 DEF Range
<1>7. Range(s) = {Head(s)} \cup Range(t)
  BY <1>4, <1>5, <1>6
<1> QED
  BY <1>1, <1>7 DEF t

\* A queue that is dropped.
LEMMA EmptyQueue == <<>> \in Seq(Nat) /\ Len(<<>>) = 0 /\ Range(<<>>) = {}
<1>1. <<>> \in Seq(Nat) /\ Len(<<>>) = 0
  BY EmptySeq
<1>2. DOMAIN <<>> = {}
  OBVIOUS
<1> QED
  BY <1>1, <1>2 DEF Range

-----------------------------------------------------------------------------
(* What a step does to the session it is about, and to the others.         *)

\* What an end and its relay task have in their queues and hands, before and
\* after a step.
Holds(p, r) ==
  Range(out[p][r]) \cup Range(chan[p][r]) \cup {end[p][r].piece} \cup {relay[p][r].piece}
HoldsNext(p, r) ==
  Range(out'[p][r]) \cup Range(chan'[p][r]) \cup {end'[p][r].piece} \cup {relay'[p][r].piece}

\* The invariant of an end after a step.
SlotNext(p, r) ==
  Slot(end'[p][r], relay'[p][r], out'[p][r], chan'[p][r], sessions'[p])

\* All that a session has, with its two ends named.
LEMMA Members ==
  ASSUME NEW p \in Pairs, NEW r \in Roles
  PROVE  /\ Underway(p) = Range(request[p]) \cup Range(conn[p]) \cup got[p]
                            \cup Holds(p, r) \cup Holds(p, Other(r))
         /\ Underway(p)' = Range(request'[p]) \cup Range(conn'[p]) \cup got'[p]
                             \cup HoldsNext(p, r) \cup HoldsNext(p, Other(r))
<1>1. Roles = {r, Other(r)} /\ Other(r) # r
  BY DEF Roles, Other
<1>2. Underway(p) = Range(request[p]) \cup Range(conn[p]) \cup got[p]
                      \cup Holds(p, r) \cup Holds(p, Other(r))
  BY <1>1 DEF Underway, Holds
<1>3. Underway(p)' = Range(request'[p]) \cup Range(conn'[p]) \cup got'[p]
                       \cup HoldsNext(p, r) \cup HoldsNext(p, Other(r))
  BY <1>1 DEF Underway, HoldsNext
<1> QED
  BY <1>2, <1>3

\* What a step leaves alone: an end, and what a session has besides its ends.
SameSlot(p, r) ==
  /\ end'[p][r] = end[p][r] /\ relay'[p][r] = relay[p][r]
  /\ out'[p][r] = out[p][r] /\ chan'[p][r] = chan[p][r]

SameRest(p) ==
  /\ sessions'[p] = sessions[p] /\ request'[p] = request[p] /\ conn'[p] = conn[p]
  /\ loop'[p] = loop[p] /\ got'[p] = got[p] /\ broken'[p] = broken[p]

\* All sessions but q are untouched.
Others(q) == \A p \in Pairs \ {q} : SameRest(p) /\ \A r \in Roles : SameSlot(p, r)

\* The session is over after a step.
OverNext(p) ==
  loop'[p] = "ended" \/ end'[p]["seeder"].at = "returned" \/ broken'[p] # {}

\* A step about the session q that is as it should be: no new piece appears, and
\* unless the session is over none disappears.
Good(q) ==
  /\ Shapes'
  /\ Others(q)
  /\ \A r \in Roles : SlotNext(q, r)
  /\ Len(conn'[q]) <= ConnCap
  /\ end'[q]["leecher"].at # "returned"
  /\ Underway(q)' \subseteq Underway(q) \cup {NoPiece}
  /\ \/ OverNext(q)
     \/ /\ ~Over(q)
        /\ Underway(q) \subseteq Underway(q)' \cup {NoPiece}

\* The sessions are independent but for the lock.
LEMMA GoodKeeps ==
  ASSUME NEW q \in Pairs
  PROVE  IInv /\ Good(q) => IInv'
<1> SUFFICES ASSUME IInv, Good(q) PROVE IInv'
  OBVIOUS
<1>1. ASSUME NEW p \in Pairs, p # q
      PROVE  Session(p)' /\ \A r \in Roles : SlotNext(p, r)
  <2>1. SameRest(p) /\ \A r \in Roles : SameSlot(p, r)
    BY <1>1 DEF Good, Others
  <2>2. "seeder" \in Roles /\ "leecher" \in Roles /\ Other("seeder") = "leecher"
    BY DEF Roles, Other
  <2>3. Underway(p)' = Underway(p)
    <3>1. /\ Underway(p) = Range(request[p]) \cup Range(conn[p]) \cup got[p]
                             \cup Holds(p, "seeder") \cup Holds(p, "leecher")
          /\ Underway(p)' = Range(request'[p]) \cup Range(conn'[p]) \cup got'[p]
                              \cup HoldsNext(p, "seeder") \cup HoldsNext(p, "leecher")
      BY <2>2, Members
    <3>2. \A r \in Roles : HoldsNext(p, r) = Holds(p, r)
      BY <2>1 DEF SameSlot, Holds, HoldsNext
    <3> QED
      BY <2>1, <2>2, <3>1, <3>2 DEF SameRest
  <2>4. \A r \in Roles : SlotNext(p, r)
    BY <2>1 DEF IInv, SameRest, SameSlot, SlotNext
  <2>5. Session(p)'
    BY <2>1, <2>2, <2>3 DEF IInv, Session, SameRest, SameSlot, Over, Indices
  <2> QED
    BY <2>4, <2>5
<1>2. Session(q)'
  <2>1. Requests[q] \in Nat
    BY TurnAssumption
  <2>2. /\ Underway(q)' \subseteq Indices(q) \cup {NoPiece}
        /\ \/ OverNext(q)
           \/ Indices(q) \subseteq Underway(q)'
    BY <2>1 DEF IInv, Good, Session, Indices, NoPiece
  <2> QED
    BY <2>2 DEF Good, Session, Over, OverNext, Indices
<1> QED
  BY <1>1, <1>2 DEF IInv, Good, SlotNext

\* The capacities are numbers.
LEMMA Capacities == OutCap \in Nat /\ ChanCap \in Nat /\ ConnCap \in Nat
  BY TurnAssumption

\* The fields of At, and its types.
LEMMA AtFields == \A a, x : At(a, x).at = a /\ At(a, x).piece = x
  BY DEF At

LEMMA AtType ==
  \A x \in Nat :
    /\ \A a \in Positions : At(a, x) \in [at : Positions, piece : Nat]
    /\ \A a \in RelayPositions : At(a, x) \in [at : RelayPositions, piece : Nat]
  BY DEF At

\* A session has two ends.
LEMMA TwoRoles ==
  \A r \in Roles : Other(r) \in Roles /\ Other(r) # r /\ Roles = {r, Other(r)}
  BY DEF Roles, Other

-----------------------------------------------------------------------------
(* The actions, a lemma for each way one can go.                             *)

\* An end that comes to register has nothing in hand.
LEMMA RegisterIsGood ==
  ASSUME NEW q \in Pairs, NEW r \in Roles
  PROVE  IInv /\ Register(q, r) => Good(q)
<1> SUFFICES ASSUME IInv, Register(q, r) PROVE Good(q)
  OBVIOUS
<1> DEFINE s == Other(r)
<1>1. s \in Roles /\ s # r /\ Roles = {r, s} /\ "leecher" \in Roles /\ "seeder" \in Roles
  BY TwoRoles DEF Roles
<1>2. end[q][r].at = "connecting"
  BY DEF IInv, Shapes, Register
<1>3. /\ UNCHANGED <<relay, sessions, request, conn, out, chan, broken, loop, got>>
      /\ end' = [end EXCEPT ![q][r] = At("registering", NoPiece)]
  BY DEF Register, ends, queues, assembler, EndGoto
<1> HIDE DEF s
<1>4. /\ end' \in [Pairs -> [Roles -> [at : Positions, piece : Nat]]]
      /\ end'[q][r] = At("registering", NoPiece) /\ end'[q][s] = end[q][s]
      /\ \A p \in Pairs \ {q} : end'[p] = end[p]
  <2>1. At("registering", NoPiece) \in [at : Positions, piece : Nat]
    BY AtType DEF Positions, NoPiece
  <2> QED
    BY <1>1, <1>3, <2>1 DEF IInv, Shapes, s, Other
<1>5. Shapes' /\ Others(q)
  BY <1>3, <1>4 DEF IInv, Shapes, Others, SameRest, SameSlot
<1>6. /\ relay'[q] = relay[q] /\ out'[q] = out[q] /\ chan'[q] = chan[q]
      /\ sessions'[q] = sessions[q] /\ request'[q] = request[q] /\ conn'[q] = conn[q]
      /\ loop'[q] = loop[q] /\ got'[q] = got[q] /\ broken'[q] = broken[q]
  BY <1>3
<1>7. end'[q][r].at = "registering" /\ end'[q][r].piece = NoPiece
  <2>1. end'[q][r] = At("registering", NoPiece)
    BY <1>4
  <2> QED
    BY <2>1, AtFields
<1>8. /\ Slot(end[q][r], relay[q][r], out[q][r], chan[q][r], sessions[q])
      /\ Slot(end[q][s], relay[q][s], out[q][s], chan[q][s], sessions[q])
      /\ Session(q)
  BY <1>1 DEF IInv
<1>9. SlotNext(q, r)
  BY <1>1, <1>2, <1>4, <1>6, <1>7, <1>8 DEF SlotNext, Slot, NoPiece
<1>10. SlotNext(q, s)
  BY <1>1, <1>2, <1>4, <1>6, <1>8 DEF SlotNext, Slot
<1>11. /\ Underway(q) \subseteq Underway(q)' \cup {NoPiece}
         /\ Underway(q)' \subseteq Underway(q) \cup {NoPiece}
  <2>1. /\ Underway(q) = Range(request[q]) \cup Range(conn[q]) \cup got[q]
                        \cup Holds(q, r) \cup Holds(q, s)
        /\ Underway(q)' = Range(request'[q]) \cup Range(conn'[q]) \cup got'[q]
                         \cup HoldsNext(q, r) \cup HoldsNext(q, s)
    BY Members DEF s
  <2> QED
    BY <1>2, <1>4, <1>6, <1>7, <1>8, <2>1 DEF Holds, HoldsNext, Slot
<1>12. \A t \in Roles : SlotNext(q, t)
  BY <1>1, <1>9, <1>10
<1>13. Len(conn'[q]) <= ConnCap /\ end'[q]["leecher"].at # "returned"
  BY <1>1, <1>2, <1>4, <1>6, <1>7, <1>8, Capacities DEF Session
<1>14. Over(q) => OverNext(q)
  BY <1>1, <1>2, <1>4, <1>6, <1>7 DEF Over, OverNext
<1> QED
  BY <1>5, <1>12, <1>13, <1>14, <1>11 DEF Good

\* The set of registered ends only grows.
LEMMA AcquireIsGood ==
  ASSUME NEW q \in Pairs, NEW r \in Roles
  PROVE  IInv /\ Acquire(q, r) => Good(q)
<1> SUFFICES ASSUME IInv, Acquire(q, r) PROVE Good(q)
  OBVIOUS
<1> DEFINE s == Other(r)
<1>1. s \in Roles /\ s # r /\ Roles = {r, s} /\ "leecher" \in Roles /\ "seeder" \in Roles
  BY TwoRoles DEF Roles
<1>2. end[q][r].at = "registering" /\ sessions[q] \subseteq Roles
  BY DEF IInv, Shapes, Acquire
<1>3. /\ UNCHANGED <<relay, request, conn, out, chan, broken, loop, got>>
      /\ end' = [end EXCEPT ![q][r] = At("waiting", NoPiece)]
      /\ sessions' = [sessions EXCEPT ![q] = sessions[q] \cup {r}]
  BY DEF Acquire, ends, queues, assembler, EndGoto
<1> HIDE DEF s
<1>4. /\ end' \in [Pairs -> [Roles -> [at : Positions, piece : Nat]]]
      /\ end'[q][r] = At("waiting", NoPiece) /\ end'[q][s] = end[q][s]
      /\ \A p \in Pairs \ {q} : end'[p] = end[p]
  <2>1. At("waiting", NoPiece) \in [at : Positions, piece : Nat]
    BY AtType DEF Positions, NoPiece
  <2> QED
    BY <1>1, <1>3, <2>1 DEF IInv, Shapes, s, Other
<1>5. /\ sessions' \in [Pairs -> SUBSET Roles] /\ sessions'[q] = sessions[q] \cup {r}
      /\ \A p \in Pairs \ {q} : sessions'[p] = sessions[p]
  BY <1>2, <1>3 DEF IInv, Shapes
<1>6. Shapes' /\ Others(q)
  BY <1>3, <1>4, <1>5 DEF IInv, Shapes, Others, SameRest, SameSlot
<1>7. /\ relay'[q] = relay[q] /\ out'[q] = out[q] /\ chan'[q] = chan[q]
      /\ request'[q] = request[q] /\ conn'[q] = conn[q] /\ loop'[q] = loop[q]
      /\ got'[q] = got[q] /\ broken'[q] = broken[q]
  BY <1>3
<1>8. end'[q][r].at = "waiting" /\ end'[q][r].piece = NoPiece
  <2>1. end'[q][r] = At("waiting", NoPiece)
    BY <1>4
  <2> QED
    BY <2>1, AtFields
<1>9. /\ Slot(end[q][r], relay[q][r], out[q][r], chan[q][r], sessions[q])
      /\ Slot(end[q][s], relay[q][s], out[q][s], chan[q][s], sessions[q])
      /\ Session(q)
  BY <1>1 DEF IInv
<1>10. SlotNext(q, r)
  BY <1>1, <1>2, <1>4, <1>5, <1>7, <1>8, <1>9 DEF SlotNext, Slot, NoPiece
<1>11. SlotNext(q, s)
  BY <1>1, <1>2, <1>4, <1>5, <1>7, <1>9 DEF SlotNext, Slot
<1>12. /\ Underway(q) \subseteq Underway(q)' \cup {NoPiece}
         /\ Underway(q)' \subseteq Underway(q) \cup {NoPiece}
  <2>1. /\ Underway(q) = Range(request[q]) \cup Range(conn[q]) \cup got[q]
                        \cup Holds(q, r) \cup Holds(q, s)
        /\ Underway(q)' = Range(request'[q]) \cup Range(conn'[q]) \cup got'[q]
                         \cup HoldsNext(q, r) \cup HoldsNext(q, s)
    BY Members DEF s
  <2> QED
    BY <1>2, <1>4, <1>5, <1>7, <1>8, <1>9, <2>1 DEF Holds, HoldsNext, Slot
<1>13. \A t \in Roles : SlotNext(q, t)
  BY <1>1, <1>10, <1>11
<1>14. Len(conn'[q]) <= ConnCap /\ end'[q]["leecher"].at # "returned"
  BY <1>1, <1>2, <1>4, <1>5, <1>7, <1>8, <1>9, Capacities DEF Session
<1>15. Over(q) => OverNext(q)
  BY <1>1, <1>2, <1>4, <1>5, <1>7, <1>8 DEF Over, OverNext
<1> QED
  BY <1>6, <1>13, <1>14, <1>15, <1>12 DEF Good

\* The barrier opens for two, so the new relay task has a partner.
LEMMA PassIsGood ==
  ASSUME NEW q \in Pairs, NEW r \in Roles
  PROVE  IInv /\ Pass(q, r) => Good(q)
<1> SUFFICES ASSUME IInv, Pass(q, r) PROVE Good(q)
  OBVIOUS
<1> DEFINE s == Other(r)
<1>1. s \in Roles /\ s # r /\ Roles = {r, s} /\ "leecher" \in Roles /\ "seeder" \in Roles
  BY TwoRoles DEF Roles
<1>2. end[q][r].at = "waiting" /\ sessions[q] = Roles
  BY DEF IInv, Shapes, Pass
<1>3. /\ UNCHANGED <<sessions, request, conn, out, chan, broken, loop, got>>
      /\ end' = [end EXCEPT ![q][r] = At("ready", NoPiece)]
      /\ relay' = [relay EXCEPT ![q][r] = At("reading", NoPiece)]
  BY DEF Pass, ends, queues, assembler, EndGoto, RelayGoto
<1> HIDE DEF s
<1>4. /\ end' \in [Pairs -> [Roles -> [at : Positions, piece : Nat]]]
      /\ end'[q][r] = At("ready", NoPiece) /\ end'[q][s] = end[q][s]
      /\ \A p \in Pairs \ {q} : end'[p] = end[p]
  <2>1. At("ready", NoPiece) \in [at : Positions, piece : Nat]
    BY AtType DEF Positions, NoPiece
  <2> QED
    BY <1>1, <1>3, <2>1 DEF IInv, Shapes, s, Other
<1>5. /\ relay' \in [Pairs -> [Roles -> [at : RelayPositions, piece : Nat]]]
      /\ relay'[q][r] = At("reading", NoPiece) /\ relay'[q][s] = relay[q][s]
      /\ \A p \in Pairs \ {q} : relay'[p] = relay[p]
  <2>1. At("reading", NoPiece) \in [at : RelayPositions, piece : Nat]
    BY AtType DEF RelayPositions, NoPiece
  <2> QED
    BY <1>1, <1>3, <2>1 DEF IInv, Shapes, s, Other
<1>6. Shapes' /\ Others(q)
  BY <1>3, <1>4, <1>5 DEF IInv, Shapes, Others, SameRest, SameSlot
<1>7. /\ out'[q] = out[q] /\ chan'[q] = chan[q] /\ sessions'[q] = sessions[q]
      /\ request'[q] = request[q] /\ conn'[q] = conn[q] /\ loop'[q] = loop[q]
      /\ got'[q] = got[q] /\ broken'[q] = broken[q]
  BY <1>3
<1>8. /\ end'[q][r].at = "ready" /\ end'[q][r].piece = NoPiece
      /\ relay'[q][r].at = "reading" /\ relay'[q][r].piece = NoPiece
  <2>1. end'[q][r] = At("ready", NoPiece) /\ relay'[q][r] = At("reading", NoPiece)
    BY <1>4, <1>5
  <2> QED
    BY <2>1, AtFields
<1>9. /\ Slot(end[q][r], relay[q][r], out[q][r], chan[q][r], sessions[q])
      /\ Slot(end[q][s], relay[q][s], out[q][s], chan[q][s], sessions[q])
      /\ Session(q)
  BY <1>1 DEF IInv
<1>10. SlotNext(q, r)
  BY <1>1, <1>2, <1>4, <1>5, <1>7, <1>8, <1>9 DEF SlotNext, Slot, NoPiece
<1>11. SlotNext(q, s)
  BY <1>1, <1>2, <1>4, <1>5, <1>7, <1>9 DEF SlotNext, Slot
<1>12. /\ Underway(q) \subseteq Underway(q)' \cup {NoPiece}
         /\ Underway(q)' \subseteq Underway(q) \cup {NoPiece}
  <2>1. /\ Underway(q) = Range(request[q]) \cup Range(conn[q]) \cup got[q]
                        \cup Holds(q, r) \cup Holds(q, s)
        /\ Underway(q)' = Range(request'[q]) \cup Range(conn'[q]) \cup got'[q]
                         \cup HoldsNext(q, r) \cup HoldsNext(q, s)
    BY Members DEF s
  <2> QED
    BY <1>2, <1>4, <1>5, <1>7, <1>8, <1>9, <2>1 DEF Holds, HoldsNext, Slot
<1>13. \A t \in Roles : SlotNext(q, t)
  BY <1>1, <1>10, <1>11
<1>14. Len(conn'[q]) <= ConnCap /\ end'[q]["leecher"].at # "returned"
  BY <1>1, <1>2, <1>4, <1>5, <1>7, <1>8, <1>9, Capacities DEF Session
<1>15. Over(q) => OverNext(q)
  BY <1>1, <1>2, <1>4, <1>5, <1>7, <1>8 DEF Over, OverNext
<1> QED
  BY <1>6, <1>13, <1>14, <1>15, <1>12 DEF Good

\* The packet goes from the queue into the hand of the relay task.
LEMMA ReadIsGood ==
  ASSUME NEW q \in Pairs, NEW r \in Roles
  PROVE  IInv /\ Read(q, r) => Good(q)
<1> SUFFICES ASSUME IInv, Read(q, r) PROVE Good(q)
  OBVIOUS
<1> DEFINE s == Other(r)
           first == Head(out[q][r])
           rest == Tail(out[q][r])
<1>1. s \in Roles /\ s # r /\ Roles = {r, s} /\ "leecher" \in Roles /\ "seeder" \in Roles
  BY TwoRoles DEF Roles
<1>2. out[q][r] \in Seq(Nat) /\ out[q][r] # <<>> /\ relay[q][r].at = "reading"
  BY DEF IInv, Shapes, Read
<1>3. /\ first \in Nat /\ rest \in Seq(Nat) /\ Range(out[q][r]) = {first} \cup Range(rest)
      /\ Len(rest) \in Nat /\ Len(out[q][r]) \in Nat /\ Len(rest) <= Len(out[q][r])
  BY <1>2, TakeFromQueue
<1>4. /\ UNCHANGED <<end, sessions, request, conn, chan, broken, loop, got>>
      /\ out' = [out EXCEPT ![q][r] = rest]
      /\ relay' = [relay EXCEPT ![q][r] = At("looking up", first)]
  BY DEF Read, ends, queues, assembler, RelayGoto
<1> HIDE DEF s, first, rest
<1>5. /\ out' \in [Pairs -> [Roles -> Seq(Nat)]]
      /\ out'[q][r] = rest /\ out'[q][s] = out[q][s]
      /\ \A p \in Pairs \ {q} : out'[p] = out[p]
  <2>1. rest \in Seq(Nat)
    BY <1>3
  <2> QED
    BY <1>1, <1>4, <2>1 DEF IInv, Shapes, s, Other
<1>6. /\ relay' \in [Pairs -> [Roles -> [at : RelayPositions, piece : Nat]]]
      /\ relay'[q][r] = At("looking up", first) /\ relay'[q][s] = relay[q][s]
      /\ \A p \in Pairs \ {q} : relay'[p] = relay[p]
  <2>1. At("looking up", first) \in [at : RelayPositions, piece : Nat]
    BY <1>2, <1>3, AtType DEF RelayPositions, NoPiece
  <2> QED
    BY <1>1, <1>4, <2>1 DEF IInv, Shapes, s, Other
<1>7. Shapes' /\ Others(q)
  BY <1>4, <1>5, <1>6 DEF IInv, Shapes, Others, SameRest, SameSlot
<1>8. /\ end'[q] = end[q] /\ chan'[q] = chan[q] /\ sessions'[q] = sessions[q]
      /\ request'[q] = request[q] /\ conn'[q] = conn[q] /\ loop'[q] = loop[q]
      /\ got'[q] = got[q] /\ broken'[q] = broken[q]
  BY <1>4
<1>9. relay'[q][r].at = "looking up" /\ relay'[q][r].piece = first
  <2>1. relay'[q][r] = At("looking up", first)
    BY <1>6
  <2> QED
    BY <2>1, AtFields
<1>10. /\ Slot(end[q][r], relay[q][r], out[q][r], chan[q][r], sessions[q])
      /\ Slot(end[q][s], relay[q][s], out[q][s], chan[q][s], sessions[q])
      /\ Session(q)
  BY <1>1 DEF IInv
<1>11. SlotNext(q, r)
  <2>1. Len(out'[q][r]) <= OutCap /\ Len(chan'[q][r]) <= ChanCap
    BY <1>3, <1>5, <1>8, <1>10, Capacities DEF Slot
  <2> QED
    BY <1>2, <1>5, <1>6, <1>8, <1>9, <1>10, <2>1 DEF SlotNext, Slot, NoPiece
<1>12. SlotNext(q, s)
  BY <1>1, <1>2, <1>5, <1>6, <1>8, <1>10 DEF SlotNext, Slot
<1>13. /\ Underway(q) \subseteq Underway(q)' \cup {NoPiece}
         /\ Underway(q)' \subseteq Underway(q) \cup {NoPiece}
  <2>1. /\ Underway(q) = Range(request[q]) \cup Range(conn[q]) \cup got[q]
                        \cup Holds(q, r) \cup Holds(q, s)
        /\ Underway(q)' = Range(request'[q]) \cup Range(conn'[q]) \cup got'[q]
                         \cup HoldsNext(q, r) \cup HoldsNext(q, s)
    BY Members DEF s
  <2> QED
    BY <1>2, <1>3, <1>5, <1>6, <1>8, <1>9, <1>10, <2>1 DEF Holds, HoldsNext, Slot
<1>14. \A t \in Roles : SlotNext(q, t)
  BY <1>1, <1>11, <1>12
<1>15. Len(conn'[q]) <= ConnCap /\ end'[q]["leecher"].at # "returned"
  BY <1>1, <1>2, <1>3, <1>5, <1>6, <1>8, <1>9, <1>10, Capacities DEF Session
<1>16. Over(q) => OverNext(q)
  BY <1>1, <1>2, <1>3, <1>5, <1>6, <1>8, <1>9 DEF Over, OverNext
<1> QED
  BY <1>7, <1>14, <1>15, <1>16, <1>13 DEF Good

\* A relay task that waits for a packet holds none.
LEMMA ReadEndsIsGood ==
  ASSUME NEW q \in Pairs, NEW r \in Roles
  PROVE  IInv /\ ReadEnds(q, r) => Good(q)
<1> SUFFICES ASSUME IInv, ReadEnds(q, r) PROVE Good(q)
  OBVIOUS
<1> DEFINE s == Other(r)
<1>1. s \in Roles /\ s # r /\ Roles = {r, s} /\ "leecher" \in Roles /\ "seeder" \in Roles
  BY TwoRoles DEF Roles
<1>2. relay[q][r].at = "reading"
  BY DEF IInv, Shapes, ReadEnds
<1>3. /\ UNCHANGED <<end, sessions, request, conn, out, chan, broken, loop, got>>
      /\ relay' = [relay EXCEPT ![q][r] = At("off", NoPiece)]
  BY DEF ReadEnds, ends, queues, assembler, RelayGoto
<1> HIDE DEF s
<1>4. /\ relay' \in [Pairs -> [Roles -> [at : RelayPositions, piece : Nat]]]
      /\ relay'[q][r] = At("off", NoPiece) /\ relay'[q][s] = relay[q][s]
      /\ \A p \in Pairs \ {q} : relay'[p] = relay[p]
  <2>1. At("off", NoPiece) \in [at : RelayPositions, piece : Nat]
    BY AtType DEF RelayPositions, NoPiece
  <2> QED
    BY <1>1, <1>3, <2>1 DEF IInv, Shapes, s, Other
<1>5. Shapes' /\ Others(q)
  BY <1>3, <1>4 DEF IInv, Shapes, Others, SameRest, SameSlot
<1>6. /\ end'[q] = end[q] /\ out'[q] = out[q] /\ chan'[q] = chan[q]
      /\ sessions'[q] = sessions[q] /\ request'[q] = request[q] /\ conn'[q] = conn[q]
      /\ loop'[q] = loop[q] /\ got'[q] = got[q] /\ broken'[q] = broken[q]
  BY <1>3
<1>7. relay'[q][r].at = "off" /\ relay'[q][r].piece = NoPiece
  <2>1. relay'[q][r] = At("off", NoPiece)
    BY <1>4
  <2> QED
    BY <2>1, AtFields
<1>8. /\ Slot(end[q][r], relay[q][r], out[q][r], chan[q][r], sessions[q])
      /\ Slot(end[q][s], relay[q][s], out[q][s], chan[q][s], sessions[q])
      /\ Session(q)
  BY <1>1 DEF IInv
<1>9. SlotNext(q, r)
  BY <1>1, <1>2, <1>4, <1>6, <1>7, <1>8 DEF SlotNext, Slot, NoPiece
<1>10. SlotNext(q, s)
  BY <1>1, <1>2, <1>4, <1>6, <1>8 DEF SlotNext, Slot
<1>11. /\ Underway(q) \subseteq Underway(q)' \cup {NoPiece}
         /\ Underway(q)' \subseteq Underway(q) \cup {NoPiece}
  <2>1. /\ Underway(q) = Range(request[q]) \cup Range(conn[q]) \cup got[q]
                        \cup Holds(q, r) \cup Holds(q, s)
        /\ Underway(q)' = Range(request'[q]) \cup Range(conn'[q]) \cup got'[q]
                         \cup HoldsNext(q, r) \cup HoldsNext(q, s)
    BY Members DEF s
  <2> QED
    BY <1>2, <1>4, <1>6, <1>7, <1>8, <2>1 DEF Holds, HoldsNext, Slot
<1>12. \A t \in Roles : SlotNext(q, t)
  BY <1>1, <1>9, <1>10
<1>13. Len(conn'[q]) <= ConnCap /\ end'[q]["leecher"].at # "returned"
  BY <1>1, <1>2, <1>4, <1>6, <1>7, <1>8, Capacities DEF Session
<1>14. Over(q) => OverNext(q)
  BY <1>1, <1>2, <1>4, <1>6, <1>7 DEF Over, OverNext
<1> QED
  BY <1>5, <1>12, <1>13, <1>14, <1>11 DEF Good

\* So does one whose stream has failed.
LEMMA ReadFailsIsGood ==
  ASSUME NEW q \in Pairs, NEW r \in Roles
  PROVE  IInv /\ ReadFails(q, r) => Good(q)
<1> SUFFICES ASSUME IInv, ReadFails(q, r) PROVE Good(q)
  OBVIOUS
<1> DEFINE s == Other(r)
<1>1. s \in Roles /\ s # r /\ Roles = {r, s} /\ "leecher" \in Roles /\ "seeder" \in Roles
  BY TwoRoles DEF Roles
<1>2. relay[q][r].at = "reading"
  BY DEF IInv, Shapes, ReadFails
<1>3. /\ UNCHANGED <<end, sessions, request, conn, out, chan, broken, loop, got>>
      /\ relay' = [relay EXCEPT ![q][r] = At("off", NoPiece)]
  BY DEF ReadFails, ends, queues, assembler, RelayGoto
<1> HIDE DEF s
<1>4. /\ relay' \in [Pairs -> [Roles -> [at : RelayPositions, piece : Nat]]]
      /\ relay'[q][r] = At("off", NoPiece) /\ relay'[q][s] = relay[q][s]
      /\ \A p \in Pairs \ {q} : relay'[p] = relay[p]
  <2>1. At("off", NoPiece) \in [at : RelayPositions, piece : Nat]
    BY AtType DEF RelayPositions, NoPiece
  <2> QED
    BY <1>1, <1>3, <2>1 DEF IInv, Shapes, s, Other
<1>5. Shapes' /\ Others(q)
  BY <1>3, <1>4 DEF IInv, Shapes, Others, SameRest, SameSlot
<1>6. /\ end'[q] = end[q] /\ out'[q] = out[q] /\ chan'[q] = chan[q]
      /\ sessions'[q] = sessions[q] /\ request'[q] = request[q] /\ conn'[q] = conn[q]
      /\ loop'[q] = loop[q] /\ got'[q] = got[q] /\ broken'[q] = broken[q]
  BY <1>3
<1>7. relay'[q][r].at = "off" /\ relay'[q][r].piece = NoPiece
  <2>1. relay'[q][r] = At("off", NoPiece)
    BY <1>4
  <2> QED
    BY <2>1, AtFields
<1>8. /\ Slot(end[q][r], relay[q][r], out[q][r], chan[q][r], sessions[q])
      /\ Slot(end[q][s], relay[q][s], out[q][s], chan[q][s], sessions[q])
      /\ Session(q)
  BY <1>1 DEF IInv
<1>9. SlotNext(q, r)
  BY <1>1, <1>2, <1>4, <1>6, <1>7, <1>8 DEF SlotNext, Slot, NoPiece
<1>10. SlotNext(q, s)
  BY <1>1, <1>2, <1>4, <1>6, <1>8 DEF SlotNext, Slot
<1>11. /\ Underway(q) \subseteq Underway(q)' \cup {NoPiece}
         /\ Underway(q)' \subseteq Underway(q) \cup {NoPiece}
  <2>1. /\ Underway(q) = Range(request[q]) \cup Range(conn[q]) \cup got[q]
                        \cup Holds(q, r) \cup Holds(q, s)
        /\ Underway(q)' = Range(request'[q]) \cup Range(conn'[q]) \cup got'[q]
                         \cup HoldsNext(q, r) \cup HoldsNext(q, s)
    BY Members DEF s
  <2> QED
    BY <1>2, <1>4, <1>6, <1>7, <1>8, <2>1 DEF Holds, HoldsNext, Slot
<1>12. \A t \in Roles : SlotNext(q, t)
  BY <1>1, <1>9, <1>10
<1>13. Len(conn'[q]) <= ConnCap /\ end'[q]["leecher"].at # "returned"
  BY <1>1, <1>2, <1>4, <1>6, <1>7, <1>8, Capacities DEF Session
<1>14. Over(q) => OverNext(q)
  BY <1>1, <1>2, <1>4, <1>6, <1>7 DEF Over, OverNext
<1> QED
  BY <1>5, <1>12, <1>13, <1>14, <1>11 DEF Good

\* The packet stays in hand.
LEMMA LookupIsGood ==
  ASSUME NEW q \in Pairs, NEW r \in Roles
  PROVE  IInv /\ Lookup(q, r) => Good(q)
<1> SUFFICES ASSUME IInv, Lookup(q, r) PROVE Good(q)
  OBVIOUS
<1> DEFINE s == Other(r)
<1>1. s \in Roles /\ s # r /\ Roles = {r, s} /\ "leecher" \in Roles /\ "seeder" \in Roles
  BY TwoRoles DEF Roles
<1>2. relay[q][r].at = "looking up" /\ relay[q][r].piece \in Nat
  BY DEF IInv, Shapes, Lookup
<1>3. /\ UNCHANGED <<end, sessions, request, conn, out, chan, broken, loop, got>>
      /\ relay' = [relay EXCEPT ![q][r] = At("sending", relay[q][r].piece)]
  BY DEF Lookup, ends, queues, assembler, RelayGoto
<1> HIDE DEF s
<1>4. /\ relay' \in [Pairs -> [Roles -> [at : RelayPositions, piece : Nat]]]
      /\ relay'[q][r] = At("sending", relay[q][r].piece) /\ relay'[q][s] = relay[q][s]
      /\ \A p \in Pairs \ {q} : relay'[p] = relay[p]
  <2>1. At("sending", relay[q][r].piece) \in [at : RelayPositions, piece : Nat]
    BY <1>2, AtType DEF RelayPositions, NoPiece
  <2> QED
    BY <1>1, <1>3, <2>1 DEF IInv, Shapes, s, Other
<1>5. Shapes' /\ Others(q)
  BY <1>3, <1>4 DEF IInv, Shapes, Others, SameRest, SameSlot
<1>6. /\ end'[q] = end[q] /\ out'[q] = out[q] /\ chan'[q] = chan[q]
      /\ sessions'[q] = sessions[q] /\ request'[q] = request[q] /\ conn'[q] = conn[q]
      /\ loop'[q] = loop[q] /\ got'[q] = got[q] /\ broken'[q] = broken[q]
  BY <1>3
<1>7. relay'[q][r].at = "sending" /\ relay'[q][r].piece = relay[q][r].piece
  <2>1. relay'[q][r] = At("sending", relay[q][r].piece)
    BY <1>4
  <2> QED
    BY <2>1, AtFields
<1>8. /\ Slot(end[q][r], relay[q][r], out[q][r], chan[q][r], sessions[q])
      /\ Slot(end[q][s], relay[q][s], out[q][s], chan[q][s], sessions[q])
      /\ Session(q)
  BY <1>1 DEF IInv
<1>9. SlotNext(q, r)
  BY <1>1, <1>2, <1>4, <1>6, <1>7, <1>8 DEF SlotNext, Slot, NoPiece
<1>10. SlotNext(q, s)
  BY <1>1, <1>2, <1>4, <1>6, <1>8 DEF SlotNext, Slot
<1>11. /\ Underway(q) \subseteq Underway(q)' \cup {NoPiece}
         /\ Underway(q)' \subseteq Underway(q) \cup {NoPiece}
  <2>1. /\ Underway(q) = Range(request[q]) \cup Range(conn[q]) \cup got[q]
                        \cup Holds(q, r) \cup Holds(q, s)
        /\ Underway(q)' = Range(request'[q]) \cup Range(conn'[q]) \cup got'[q]
                         \cup HoldsNext(q, r) \cup HoldsNext(q, s)
    BY Members DEF s
  <2> QED
    BY <1>2, <1>4, <1>6, <1>7, <1>8, <2>1 DEF Holds, HoldsNext, Slot
<1>12. \A t \in Roles : SlotNext(q, t)
  BY <1>1, <1>9, <1>10
<1>13. Len(conn'[q]) <= ConnCap /\ end'[q]["leecher"].at # "returned"
  BY <1>1, <1>2, <1>4, <1>6, <1>7, <1>8, Capacities DEF Session
<1>14. Over(q) => OverNext(q)
  BY <1>1, <1>2, <1>4, <1>6, <1>7 DEF Over, OverNext
<1> QED
  BY <1>5, <1>12, <1>13, <1>14, <1>11 DEF Good

\* The piece goes from the channel into the hand of start_leeching, which was empty.
LEMMA LeecherInboundIsGood ==
  ASSUME NEW q \in Pairs, NEW r \in Roles, r = "leecher"
  PROVE  IInv /\ LeecherInbound(q) => Good(q)
<1> SUFFICES ASSUME IInv, LeecherInbound(q) PROVE Good(q)
  OBVIOUS
<1> DEFINE s == Other(r)
           first == Head(chan[q][r])
           rest == Tail(chan[q][r])
<1>1. s \in Roles /\ s # r /\ Roles = {r, s} /\ "leecher" \in Roles /\ "seeder" \in Roles
  BY TwoRoles DEF Roles
<1>2. chan[q][r] \in Seq(Nat) /\ chan[q][r] # <<>> /\ end[q][r].at = "ready"
  BY DEF IInv, Shapes, LeecherInbound
<1>3. /\ first \in Nat /\ rest \in Seq(Nat) /\ Range(chan[q][r]) = {first} \cup Range(rest)
      /\ Len(rest) \in Nat /\ Len(chan[q][r]) \in Nat /\ Len(rest) <= Len(chan[q][r])
  BY <1>2, TakeFromQueue
<1>4. /\ UNCHANGED <<relay, sessions, request, conn, out, broken, loop, got>>
      /\ end' = [end EXCEPT ![q][r] = At("sending", first)]
      /\ chan' = [chan EXCEPT ![q][r] = rest]
  BY DEF LeecherInbound, ends, queues, assembler, EndGoto
<1> HIDE DEF s, first, rest
<1>5. /\ end' \in [Pairs -> [Roles -> [at : Positions, piece : Nat]]]
      /\ end'[q][r] = At("sending", first) /\ end'[q][s] = end[q][s]
      /\ \A p \in Pairs \ {q} : end'[p] = end[p]
  <2>1. At("sending", first) \in [at : Positions, piece : Nat]
    BY <1>2, <1>3, AtType DEF Positions, NoPiece
  <2> QED
    BY <1>1, <1>4, <2>1 DEF IInv, Shapes, s, Other
<1>6. /\ chan' \in [Pairs -> [Roles -> Seq(Nat)]]
      /\ chan'[q][r] = rest /\ chan'[q][s] = chan[q][s]
      /\ \A p \in Pairs \ {q} : chan'[p] = chan[p]
  <2>1. rest \in Seq(Nat)
    BY <1>3
  <2> QED
    BY <1>1, <1>4, <2>1 DEF IInv, Shapes, s, Other
<1>7. Shapes' /\ Others(q)
  BY <1>4, <1>5, <1>6 DEF IInv, Shapes, Others, SameRest, SameSlot
<1>8. /\ relay'[q] = relay[q] /\ out'[q] = out[q] /\ sessions'[q] = sessions[q]
      /\ request'[q] = request[q] /\ conn'[q] = conn[q] /\ loop'[q] = loop[q]
      /\ got'[q] = got[q] /\ broken'[q] = broken[q]
  BY <1>4
<1>9. end'[q][r].at = "sending" /\ end'[q][r].piece = first
  <2>1. end'[q][r] = At("sending", first)
    BY <1>5
  <2> QED
    BY <2>1, AtFields
<1>10. /\ Slot(end[q][r], relay[q][r], out[q][r], chan[q][r], sessions[q])
      /\ Slot(end[q][s], relay[q][s], out[q][s], chan[q][s], sessions[q])
      /\ Session(q)
  BY <1>1 DEF IInv
<1>11. SlotNext(q, r)
  <2>1. Len(out'[q][r]) <= OutCap /\ Len(chan'[q][r]) <= ChanCap
    BY <1>3, <1>6, <1>8, <1>10, Capacities DEF Slot
  <2> QED
    BY <1>2, <1>5, <1>6, <1>8, <1>9, <1>10, <2>1 DEF SlotNext, Slot, NoPiece
<1>12. SlotNext(q, s)
  BY <1>1, <1>2, <1>5, <1>6, <1>8, <1>10 DEF SlotNext, Slot
<1>13. /\ Underway(q) \subseteq Underway(q)' \cup {NoPiece}
         /\ Underway(q)' \subseteq Underway(q) \cup {NoPiece}
  <2>1. /\ Underway(q) = Range(request[q]) \cup Range(conn[q]) \cup got[q]
                        \cup Holds(q, r) \cup Holds(q, s)
        /\ Underway(q)' = Range(request'[q]) \cup Range(conn'[q]) \cup got'[q]
                         \cup HoldsNext(q, r) \cup HoldsNext(q, s)
    BY Members DEF s
  <2> QED
    BY <1>2, <1>3, <1>5, <1>6, <1>8, <1>9, <1>10, <2>1 DEF Holds, HoldsNext, Slot
<1>14. \A t \in Roles : SlotNext(q, t)
  BY <1>1, <1>11, <1>12
<1>15. Len(conn'[q]) <= ConnCap /\ end'[q]["leecher"].at # "returned"
  BY <1>1, <1>2, <1>3, <1>5, <1>6, <1>8, <1>9, <1>10, Capacities DEF Session
<1>16. Over(q) => OverNext(q)
  BY <1>1, <1>2, <1>3, <1>5, <1>6, <1>8, <1>9 DEF Over, OverNext
<1> QED
  BY <1>7, <1>14, <1>15, <1>16, <1>13 DEF Good

\* The request goes from the channel into the hand of start_seeding, which was empty.
LEMMA SeederInboundIsGood ==
  ASSUME NEW q \in Pairs, NEW r \in Roles, r = "seeder"
  PROVE  IInv /\ SeederInbound(q) => Good(q)
<1> SUFFICES ASSUME IInv, SeederInbound(q) PROVE Good(q)
  OBVIOUS
<1> DEFINE s == Other(r)
           first == Head(chan[q][r])
           rest == Tail(chan[q][r])
<1>1. s \in Roles /\ s # r /\ Roles = {r, s} /\ "leecher" \in Roles /\ "seeder" \in Roles
  BY TwoRoles DEF Roles
<1>2. chan[q][r] \in Seq(Nat) /\ chan[q][r] # <<>> /\ end[q][r].at = "ready"
  BY DEF IInv, Shapes, SeederInbound
<1>3. /\ first \in Nat /\ rest \in Seq(Nat) /\ Range(chan[q][r]) = {first} \cup Range(rest)
      /\ Len(rest) \in Nat /\ Len(chan[q][r]) \in Nat /\ Len(rest) <= Len(chan[q][r])
  BY <1>2, TakeFromQueue
<1>4. /\ UNCHANGED <<relay, sessions, request, conn, out, broken, loop, got>>
      /\ end' = [end EXCEPT ![q][r] = At("sending", first)]
      /\ chan' = [chan EXCEPT ![q][r] = rest]
  BY DEF SeederInbound, ends, queues, assembler, EndGoto
<1> HIDE DEF s, first, rest
<1>5. /\ end' \in [Pairs -> [Roles -> [at : Positions, piece : Nat]]]
      /\ end'[q][r] = At("sending", first) /\ end'[q][s] = end[q][s]
      /\ \A p \in Pairs \ {q} : end'[p] = end[p]
  <2>1. At("sending", first) \in [at : Positions, piece : Nat]
    BY <1>2, <1>3, AtType DEF Positions, NoPiece
  <2> QED
    BY <1>1, <1>4, <2>1 DEF IInv, Shapes, s, Other
<1>6. /\ chan' \in [Pairs -> [Roles -> Seq(Nat)]]
      /\ chan'[q][r] = rest /\ chan'[q][s] = chan[q][s]
      /\ \A p \in Pairs \ {q} : chan'[p] = chan[p]
  <2>1. rest \in Seq(Nat)
    BY <1>3
  <2> QED
    BY <1>1, <1>4, <2>1 DEF IInv, Shapes, s, Other
<1>7. Shapes' /\ Others(q)
  BY <1>4, <1>5, <1>6 DEF IInv, Shapes, Others, SameRest, SameSlot
<1>8. /\ relay'[q] = relay[q] /\ out'[q] = out[q] /\ sessions'[q] = sessions[q]
      /\ request'[q] = request[q] /\ conn'[q] = conn[q] /\ loop'[q] = loop[q]
      /\ got'[q] = got[q] /\ broken'[q] = broken[q]
  BY <1>4
<1>9. end'[q][r].at = "sending" /\ end'[q][r].piece = first
  <2>1. end'[q][r] = At("sending", first)
    BY <1>5
  <2> QED
    BY <2>1, AtFields
<1>10. /\ Slot(end[q][r], relay[q][r], out[q][r], chan[q][r], sessions[q])
      /\ Slot(end[q][s], relay[q][s], out[q][s], chan[q][s], sessions[q])
      /\ Session(q)
  BY <1>1 DEF IInv
<1>11. SlotNext(q, r)
  <2>1. Len(out'[q][r]) <= OutCap /\ Len(chan'[q][r]) <= ChanCap
    BY <1>3, <1>6, <1>8, <1>10, Capacities DEF Slot
  <2> QED
    BY <1>2, <1>5, <1>6, <1>8, <1>9, <1>10, <2>1 DEF SlotNext, Slot, NoPiece
<1>12. SlotNext(q, s)
  BY <1>1, <1>2, <1>5, <1>6, <1>8, <1>10 DEF SlotNext, Slot
<1>13. /\ Underway(q) \subseteq Underway(q)' \cup {NoPiece}
         /\ Underway(q)' \subseteq Underway(q) \cup {NoPiece}
  <2>1. /\ Underway(q) = Range(request[q]) \cup Range(conn[q]) \cup got[q]
                        \cup Holds(q, r) \cup Holds(q, s)
        /\ Underway(q)' = Range(request'[q]) \cup Range(conn'[q]) \cup got'[q]
                         \cup HoldsNext(q, r) \cup HoldsNext(q, s)
    BY Members DEF s
  <2> QED
    BY <1>2, <1>3, <1>5, <1>6, <1>8, <1>9, <1>10, <2>1 DEF Holds, HoldsNext, Slot
<1>14. \A t \in Roles : SlotNext(q, t)
  BY <1>1, <1>11, <1>12
<1>15. Len(conn'[q]) <= ConnCap /\ end'[q]["leecher"].at # "returned"
  BY <1>1, <1>2, <1>3, <1>5, <1>6, <1>8, <1>9, <1>10, Capacities DEF Session
<1>16. Over(q) => OverNext(q)
  BY <1>1, <1>2, <1>3, <1>5, <1>6, <1>8, <1>9 DEF Over, OverNext
<1> QED
  BY <1>7, <1>14, <1>15, <1>16, <1>13 DEF Good

\* The request is taken when select! chooses its branch, and by no other branch.
LEMMA LeecherRequestIsGood ==
  ASSUME NEW q \in Pairs, NEW r \in Roles, r = "leecher"
  PROVE  IInv /\ LeecherRequest(q) => Good(q)
<1> SUFFICES ASSUME IInv, LeecherRequest(q) PROVE Good(q)
  OBVIOUS
<1> DEFINE s == Other(r)
           first == Head(request[q])
           rest == Tail(request[q])
<1>1. s \in Roles /\ s # r /\ Roles = {r, s} /\ "leecher" \in Roles /\ "seeder" \in Roles
  BY TwoRoles DEF Roles
<1>2. request[q] \in Seq(Nat) /\ request[q] # <<>> /\ end[q][r].at = "ready"
  BY DEF IInv, Shapes, LeecherRequest
<1>3. /\ first \in Nat /\ rest \in Seq(Nat) /\ Range(request[q]) = {first} \cup Range(rest)
      /\ Len(rest) \in Nat /\ Len(request[q]) \in Nat /\ Len(rest) <= Len(request[q])
  BY <1>2, TakeFromQueue
<1>4. /\ UNCHANGED <<relay, sessions, conn, out, chan, broken, loop, got>>
      /\ end' = [end EXCEPT ![q][r] = At("requesting", first)]
      /\ request' = [request EXCEPT ![q] = rest]
  BY DEF LeecherRequest, ends, queues, assembler, EndGoto
<1> HIDE DEF s, first, rest
<1>5. /\ end' \in [Pairs -> [Roles -> [at : Positions, piece : Nat]]]
      /\ end'[q][r] = At("requesting", first) /\ end'[q][s] = end[q][s]
      /\ \A p \in Pairs \ {q} : end'[p] = end[p]
  <2>1. At("requesting", first) \in [at : Positions, piece : Nat]
    BY <1>2, <1>3, AtType DEF Positions, NoPiece
  <2> QED
    BY <1>1, <1>4, <2>1 DEF IInv, Shapes, s, Other
<1>6. /\ request' \in [Pairs -> Seq(Nat)] /\ request'[q] = rest
      /\ \A p \in Pairs \ {q} : request'[p] = request[p]
  BY <1>2, <1>3, <1>4 DEF IInv, Shapes
<1>7. Shapes' /\ Others(q)
  BY <1>4, <1>5, <1>6 DEF IInv, Shapes, Others, SameRest, SameSlot
<1>8. /\ relay'[q] = relay[q] /\ out'[q] = out[q] /\ chan'[q] = chan[q]
      /\ sessions'[q] = sessions[q] /\ conn'[q] = conn[q] /\ loop'[q] = loop[q]
      /\ got'[q] = got[q] /\ broken'[q] = broken[q]
  BY <1>4
<1>9. end'[q][r].at = "requesting" /\ end'[q][r].piece = first
  <2>1. end'[q][r] = At("requesting", first)
    BY <1>5
  <2> QED
    BY <2>1, AtFields
<1>10. /\ Slot(end[q][r], relay[q][r], out[q][r], chan[q][r], sessions[q])
      /\ Slot(end[q][s], relay[q][s], out[q][s], chan[q][s], sessions[q])
      /\ Session(q)
  BY <1>1 DEF IInv
<1>11. SlotNext(q, r)
  <2>1. Len(out'[q][r]) <= OutCap /\ Len(chan'[q][r]) <= ChanCap
    BY <1>3, <1>8, <1>10, Capacities DEF Slot
  <2> QED
    BY <1>2, <1>5, <1>6, <1>8, <1>9, <1>10, <2>1 DEF SlotNext, Slot, NoPiece
<1>12. SlotNext(q, s)
  BY <1>1, <1>2, <1>5, <1>6, <1>8, <1>10 DEF SlotNext, Slot
<1>13. /\ Underway(q) \subseteq Underway(q)' \cup {NoPiece}
         /\ Underway(q)' \subseteq Underway(q) \cup {NoPiece}
  <2>1. /\ Underway(q) = Range(request[q]) \cup Range(conn[q]) \cup got[q]
                        \cup Holds(q, r) \cup Holds(q, s)
        /\ Underway(q)' = Range(request'[q]) \cup Range(conn'[q]) \cup got'[q]
                         \cup HoldsNext(q, r) \cup HoldsNext(q, s)
    BY Members DEF s
  <2> QED
    BY <1>2, <1>3, <1>5, <1>6, <1>8, <1>9, <1>10, <2>1 DEF Holds, HoldsNext, Slot
<1>14. \A t \in Roles : SlotNext(q, t)
  BY <1>1, <1>11, <1>12
<1>15. Len(conn'[q]) <= ConnCap /\ end'[q]["leecher"].at # "returned"
  BY <1>1, <1>2, <1>3, <1>5, <1>6, <1>8, <1>9, <1>10, Capacities DEF Session
<1>16. Over(q) => OverNext(q)
  BY <1>1, <1>2, <1>3, <1>5, <1>6, <1>8, <1>9 DEF Over, OverNext
<1> QED
  BY <1>7, <1>14, <1>15, <1>16, <1>13 DEF Good

\* The request goes into the send stream.
LEMMA LeecherQueuesIsGood ==
  ASSUME NEW q \in Pairs, NEW r \in Roles, r = "leecher"
  PROVE  IInv /\ LeecherQueue(q) /\ <<"leecher", "send">> \notin broken[q] => Good(q)
<1> SUFFICES ASSUME IInv, LeecherQueue(q), <<"leecher", "send">> \notin broken[q] PROVE Good(q)
  OBVIOUS
<1> DEFINE s == Other(r)
           item == end[q][r].piece
           more == Append(out[q][r], item)
<1>1. s \in Roles /\ s # r /\ Roles = {r, s} /\ "leecher" \in Roles /\ "seeder" \in Roles
  BY TwoRoles DEF Roles
<1>2. /\ out[q][r] \in Seq(Nat) /\ Len(out[q][r]) < OutCap /\ end[q][r].piece \in Nat
      /\ end[q][r].at = "requesting"
  BY DEF IInv, Shapes, LeecherQueue
<1>3. /\ item = end[q][r].piece /\ item \in Nat /\ more \in Seq(Nat)
      /\ Range(more) = {item} \cup Range(out[q][r])
      /\ Len(more) \in Nat /\ Len(out[q][r]) \in Nat /\ Len(more) = Len(out[q][r]) + 1
  BY <1>2, AppendQueue
<1>4. /\ UNCHANGED <<relay, sessions, request, conn, chan, broken, loop, got>>
      /\ end' = [end EXCEPT ![q][r] = At("ready", NoPiece)]
      /\ out' = [out EXCEPT ![q][r] = more]
  BY DEF LeecherQueue, ends, queues, assembler, EndGoto
<1> HIDE DEF s, item, more
<1>5. /\ end' \in [Pairs -> [Roles -> [at : Positions, piece : Nat]]]
      /\ end'[q][r] = At("ready", NoPiece) /\ end'[q][s] = end[q][s]
      /\ \A p \in Pairs \ {q} : end'[p] = end[p]
  <2>1. At("ready", NoPiece) \in [at : Positions, piece : Nat]
    BY AtType DEF Positions, NoPiece
  <2> QED
    BY <1>1, <1>4, <2>1 DEF IInv, Shapes, s, Other
<1>6. /\ out' \in [Pairs -> [Roles -> Seq(Nat)]]
      /\ out'[q][r] = more /\ out'[q][s] = out[q][s]
      /\ \A p \in Pairs \ {q} : out'[p] = out[p]
  <2>1. more \in Seq(Nat)
    BY <1>3
  <2> QED
    BY <1>1, <1>4, <2>1 DEF IInv, Shapes, s, Other
<1>7. Shapes' /\ Others(q)
  BY <1>4, <1>5, <1>6 DEF IInv, Shapes, Others, SameRest, SameSlot
<1>8. /\ relay'[q] = relay[q] /\ chan'[q] = chan[q] /\ sessions'[q] = sessions[q]
      /\ request'[q] = request[q] /\ conn'[q] = conn[q] /\ loop'[q] = loop[q]
      /\ got'[q] = got[q] /\ broken'[q] = broken[q]
  BY <1>4
<1>9. end'[q][r].at = "ready" /\ end'[q][r].piece = NoPiece
  <2>1. end'[q][r] = At("ready", NoPiece)
    BY <1>5
  <2> QED
    BY <2>1, AtFields
<1>10. /\ Slot(end[q][r], relay[q][r], out[q][r], chan[q][r], sessions[q])
      /\ Slot(end[q][s], relay[q][s], out[q][s], chan[q][s], sessions[q])
      /\ Session(q)
  BY <1>1 DEF IInv
<1>11. SlotNext(q, r)
  <2>1. Len(out'[q][r]) <= OutCap /\ Len(chan'[q][r]) <= ChanCap
    BY <1>3, <1>6, <1>8, <1>10, Capacities, <1>2 DEF Slot
  <2> QED
    BY <1>2, <1>5, <1>6, <1>8, <1>9, <1>10, <2>1 DEF SlotNext, Slot, NoPiece
<1>12. SlotNext(q, s)
  BY <1>1, <1>2, <1>5, <1>6, <1>8, <1>10 DEF SlotNext, Slot
<1>13. /\ Underway(q) \subseteq Underway(q)' \cup {NoPiece}
         /\ Underway(q)' \subseteq Underway(q) \cup {NoPiece}
  <2>1. /\ Underway(q) = Range(request[q]) \cup Range(conn[q]) \cup got[q]
                        \cup Holds(q, r) \cup Holds(q, s)
        /\ Underway(q)' = Range(request'[q]) \cup Range(conn'[q]) \cup got'[q]
                         \cup HoldsNext(q, r) \cup HoldsNext(q, s)
    BY Members DEF s
  <2> QED
    BY <1>2, <1>3, <1>5, <1>6, <1>8, <1>9, <1>10, <2>1 DEF Holds, HoldsNext, Slot
<1>14. \A t \in Roles : SlotNext(q, t)
  BY <1>1, <1>11, <1>12
<1>15. Len(conn'[q]) <= ConnCap /\ end'[q]["leecher"].at # "returned"
  BY <1>1, <1>2, <1>3, <1>5, <1>6, <1>8, <1>9, <1>10, Capacities DEF Session
<1>16. Over(q) => OverNext(q)
  BY <1>1, <1>2, <1>3, <1>5, <1>6, <1>8, <1>9 DEF Over, OverNext
<1> QED
  BY <1>7, <1>14, <1>15, <1>16, <1>13 DEF Good

\* The piece goes into the send stream.
LEMMA SeederQueuesIsGood ==
  ASSUME NEW q \in Pairs, NEW r \in Roles, r = "seeder"
  PROVE  IInv /\ SeederQueue(q) /\ <<"seeder", "send">> \notin broken[q] => Good(q)
<1> SUFFICES ASSUME IInv, SeederQueue(q), <<"seeder", "send">> \notin broken[q] PROVE Good(q)
  OBVIOUS
<1> DEFINE s == Other(r)
           item == end[q][r].piece
           more == Append(out[q][r], item)
<1>1. s \in Roles /\ s # r /\ Roles = {r, s} /\ "leecher" \in Roles /\ "seeder" \in Roles
  BY TwoRoles DEF Roles
<1>2. /\ out[q][r] \in Seq(Nat) /\ Len(out[q][r]) < OutCap /\ end[q][r].piece \in Nat
      /\ end[q][r].at = "sending"
  BY DEF IInv, Shapes, SeederQueue
<1>3. /\ item = end[q][r].piece /\ item \in Nat /\ more \in Seq(Nat)
      /\ Range(more) = {item} \cup Range(out[q][r])
      /\ Len(more) \in Nat /\ Len(out[q][r]) \in Nat /\ Len(more) = Len(out[q][r]) + 1
  BY <1>2, AppendQueue
<1>4. /\ UNCHANGED <<relay, sessions, request, conn, chan, broken, loop, got>>
      /\ end' = [end EXCEPT ![q][r] = At("ready", NoPiece)]
      /\ out' = [out EXCEPT ![q][r] = more]
  BY DEF SeederQueue, ends, queues, assembler, EndGoto
<1> HIDE DEF s, item, more
<1>5. /\ end' \in [Pairs -> [Roles -> [at : Positions, piece : Nat]]]
      /\ end'[q][r] = At("ready", NoPiece) /\ end'[q][s] = end[q][s]
      /\ \A p \in Pairs \ {q} : end'[p] = end[p]
  <2>1. At("ready", NoPiece) \in [at : Positions, piece : Nat]
    BY AtType DEF Positions, NoPiece
  <2> QED
    BY <1>1, <1>4, <2>1 DEF IInv, Shapes, s, Other
<1>6. /\ out' \in [Pairs -> [Roles -> Seq(Nat)]]
      /\ out'[q][r] = more /\ out'[q][s] = out[q][s]
      /\ \A p \in Pairs \ {q} : out'[p] = out[p]
  <2>1. more \in Seq(Nat)
    BY <1>3
  <2> QED
    BY <1>1, <1>4, <2>1 DEF IInv, Shapes, s, Other
<1>7. Shapes' /\ Others(q)
  BY <1>4, <1>5, <1>6 DEF IInv, Shapes, Others, SameRest, SameSlot
<1>8. /\ relay'[q] = relay[q] /\ chan'[q] = chan[q] /\ sessions'[q] = sessions[q]
      /\ request'[q] = request[q] /\ conn'[q] = conn[q] /\ loop'[q] = loop[q]
      /\ got'[q] = got[q] /\ broken'[q] = broken[q]
  BY <1>4
<1>9. end'[q][r].at = "ready" /\ end'[q][r].piece = NoPiece
  <2>1. end'[q][r] = At("ready", NoPiece)
    BY <1>5
  <2> QED
    BY <2>1, AtFields
<1>10. /\ Slot(end[q][r], relay[q][r], out[q][r], chan[q][r], sessions[q])
      /\ Slot(end[q][s], relay[q][s], out[q][s], chan[q][s], sessions[q])
      /\ Session(q)
  BY <1>1 DEF IInv
<1>11. SlotNext(q, r)
  <2>1. Len(out'[q][r]) <= OutCap /\ Len(chan'[q][r]) <= ChanCap
    BY <1>3, <1>6, <1>8, <1>10, Capacities, <1>2 DEF Slot
  <2> QED
    BY <1>2, <1>5, <1>6, <1>8, <1>9, <1>10, <2>1 DEF SlotNext, Slot, NoPiece
<1>12. SlotNext(q, s)
  BY <1>1, <1>2, <1>5, <1>6, <1>8, <1>10 DEF SlotNext, Slot
<1>13. /\ Underway(q) \subseteq Underway(q)' \cup {NoPiece}
         /\ Underway(q)' \subseteq Underway(q) \cup {NoPiece}
  <2>1. /\ Underway(q) = Range(request[q]) \cup Range(conn[q]) \cup got[q]
                        \cup Holds(q, r) \cup Holds(q, s)
        /\ Underway(q)' = Range(request'[q]) \cup Range(conn'[q]) \cup got'[q]
                         \cup HoldsNext(q, r) \cup HoldsNext(q, s)
    BY Members DEF s
  <2> QED
    BY <1>2, <1>3, <1>5, <1>6, <1>8, <1>9, <1>10, <2>1 DEF Holds, HoldsNext, Slot
<1>14. \A t \in Roles : SlotNext(q, t)
  BY <1>1, <1>11, <1>12
<1>15. Len(conn'[q]) <= ConnCap /\ end'[q]["leecher"].at # "returned"
  BY <1>1, <1>2, <1>3, <1>5, <1>6, <1>8, <1>9, <1>10, Capacities DEF Session
<1>16. Over(q) => OverNext(q)
  BY <1>1, <1>2, <1>3, <1>5, <1>6, <1>8, <1>9 DEF Over, OverNext
<1> QED
  BY <1>7, <1>14, <1>15, <1>16, <1>13 DEF Good

\* The piece has arrived.
LEMMA LoopReceiveIsGood ==
  ASSUME NEW q \in Pairs, NEW r \in Roles
  PROVE  IInv /\ LoopReceive(q) => Good(q)
<1> SUFFICES ASSUME IInv, LoopReceive(q) PROVE Good(q)
  OBVIOUS
<1> DEFINE s == Other(r)
           first == Head(conn[q])
           rest == Tail(conn[q])
<1>1. s \in Roles /\ s # r /\ Roles = {r, s} /\ "leecher" \in Roles /\ "seeder" \in Roles
  BY TwoRoles DEF Roles
<1>2. conn[q] \in Seq(Nat) /\ conn[q] # <<>> /\ got[q] \subseteq Nat
  BY DEF IInv, Shapes, LoopReceive
<1>3. /\ first \in Nat /\ rest \in Seq(Nat) /\ Range(conn[q]) = {first} \cup Range(rest)
      /\ Len(rest) \in Nat /\ Len(conn[q]) \in Nat /\ Len(rest) <= Len(conn[q])
  BY <1>2, TakeFromQueue
<1>4. /\ UNCHANGED <<end, relay, sessions, request, out, chan, broken, loop>>
      /\ conn' = [conn EXCEPT ![q] = rest]
      /\ got' = [got EXCEPT ![q] = got[q] \cup {first}]
  BY DEF LoopReceive, ends, queues, assembler
<1> HIDE DEF s, first, rest
<1>5. /\ conn' \in [Pairs -> Seq(Nat)] /\ conn'[q] = rest
      /\ \A p \in Pairs \ {q} : conn'[p] = conn[p]
  BY <1>2, <1>3, <1>4 DEF IInv, Shapes
<1>6. /\ got' \in [Pairs -> SUBSET Nat] /\ got'[q] = got[q] \cup {first}
      /\ \A p \in Pairs \ {q} : got'[p] = got[p]
  BY <1>2, <1>3, <1>4 DEF IInv, Shapes
<1>7. Shapes' /\ Others(q)
  BY <1>4, <1>5, <1>6 DEF IInv, Shapes, Others, SameRest, SameSlot
<1>8. /\ end'[q] = end[q] /\ relay'[q] = relay[q] /\ out'[q] = out[q]
      /\ chan'[q] = chan[q] /\ sessions'[q] = sessions[q] /\ request'[q] = request[q]
      /\ loop'[q] = loop[q] /\ broken'[q] = broken[q]
  BY <1>4
<1>9. /\ Slot(end[q][r], relay[q][r], out[q][r], chan[q][r], sessions[q])
      /\ Slot(end[q][s], relay[q][s], out[q][s], chan[q][s], sessions[q])
      /\ Session(q)
  BY <1>1 DEF IInv
<1>10. SlotNext(q, r)
  BY <1>1, <1>2, <1>5, <1>6, <1>8, <1>9 DEF SlotNext, Slot
<1>11. SlotNext(q, s)
  BY <1>1, <1>2, <1>5, <1>6, <1>8, <1>9 DEF SlotNext, Slot
<1>12. /\ Underway(q) \subseteq Underway(q)' \cup {NoPiece}
         /\ Underway(q)' \subseteq Underway(q) \cup {NoPiece}
  <2>1. /\ Underway(q) = Range(request[q]) \cup Range(conn[q]) \cup got[q]
                        \cup Holds(q, r) \cup Holds(q, s)
        /\ Underway(q)' = Range(request'[q]) \cup Range(conn'[q]) \cup got'[q]
                         \cup HoldsNext(q, r) \cup HoldsNext(q, s)
    BY Members DEF s
  <2> QED
    BY <1>2, <1>3, <1>5, <1>6, <1>8, <1>9, <2>1 DEF Holds, HoldsNext, Slot
<1>13. \A t \in Roles : SlotNext(q, t)
  BY <1>1, <1>10, <1>11
<1>14. Len(conn'[q]) <= ConnCap /\ end'[q]["leecher"].at # "returned"
  BY <1>1, <1>2, <1>3, <1>5, <1>6, <1>8, <1>9, Capacities DEF Session
<1>15. Over(q) => OverNext(q)
  BY <1>1, <1>2, <1>3, <1>5, <1>6, <1>8 DEF Over, OverNext
<1> QED
  BY <1>7, <1>13, <1>14, <1>15, <1>12 DEF Good

\* Nothing moves.
LEMMA LoopStallsIsGood ==
  ASSUME NEW q \in Pairs, NEW r \in Roles
  PROVE  IInv /\ LoopStalls(q) => Good(q)
<1> SUFFICES ASSUME IInv, LoopStalls(q) PROVE Good(q)
  OBVIOUS
<1> DEFINE s == Other(r)
<1>1. s \in Roles /\ s # r /\ Roles = {r, s} /\ "leecher" \in Roles /\ "seeder" \in Roles
  BY TwoRoles DEF Roles
<1>2. loop[q] = "receiving"
  BY DEF IInv, Shapes, LoopStalls
<1>3. /\ UNCHANGED <<end, relay, sessions, request, conn, out, chan, broken, got>>
      /\ loop' = [loop EXCEPT ![q] = "stalled"]
  BY DEF LoopStalls, ends, queues, assembler
<1> HIDE DEF s
<1>4. /\ loop' \in [Pairs -> {"receiving", "stalled", "ended"}] /\ loop'[q] = "stalled"
      /\ \A p \in Pairs \ {q} : loop'[p] = loop[p]
  BY <1>2, <1>3 DEF IInv, Shapes
<1>5. Shapes' /\ Others(q)
  BY <1>3, <1>4 DEF IInv, Shapes, Others, SameRest, SameSlot
<1>6. /\ end'[q] = end[q] /\ relay'[q] = relay[q] /\ out'[q] = out[q]
      /\ chan'[q] = chan[q] /\ sessions'[q] = sessions[q] /\ request'[q] = request[q]
      /\ conn'[q] = conn[q] /\ got'[q] = got[q] /\ broken'[q] = broken[q]
  BY <1>3
<1>7. /\ Slot(end[q][r], relay[q][r], out[q][r], chan[q][r], sessions[q])
      /\ Slot(end[q][s], relay[q][s], out[q][s], chan[q][s], sessions[q])
      /\ Session(q)
  BY <1>1 DEF IInv
<1>8. SlotNext(q, r)
  BY <1>1, <1>2, <1>4, <1>6, <1>7 DEF SlotNext, Slot
<1>9. SlotNext(q, s)
  BY <1>1, <1>2, <1>4, <1>6, <1>7 DEF SlotNext, Slot
<1>10. /\ Underway(q) \subseteq Underway(q)' \cup {NoPiece}
         /\ Underway(q)' \subseteq Underway(q) \cup {NoPiece}
  <2>1. /\ Underway(q) = Range(request[q]) \cup Range(conn[q]) \cup got[q]
                        \cup Holds(q, r) \cup Holds(q, s)
        /\ Underway(q)' = Range(request'[q]) \cup Range(conn'[q]) \cup got'[q]
                         \cup HoldsNext(q, r) \cup HoldsNext(q, s)
    BY Members DEF s
  <2> QED
    BY <1>2, <1>4, <1>6, <1>7, <2>1 DEF Holds, HoldsNext, Slot
<1>11. \A t \in Roles : SlotNext(q, t)
  BY <1>1, <1>8, <1>9
<1>12. Len(conn'[q]) <= ConnCap /\ end'[q]["leecher"].at # "returned"
  BY <1>1, <1>2, <1>4, <1>6, <1>7, Capacities DEF Session
<1>13. Over(q) => OverNext(q)
  BY <1>1, <1>2, <1>4, <1>6 DEF Over, OverNext
<1> QED
  BY <1>5, <1>11, <1>12, <1>13, <1>10 DEF Good

\* There is no send stream any more, so the session is over.
LEMMA LeecherQueueDropsIsGood ==
  ASSUME NEW q \in Pairs, NEW r \in Roles, r = "leecher"
  PROVE  IInv /\ LeecherQueue(q) /\ <<"leecher", "send">> \in broken[q] => Good(q)
<1> SUFFICES ASSUME IInv, LeecherQueue(q), <<"leecher", "send">> \in broken[q] PROVE Good(q)
  OBVIOUS
<1> DEFINE s == Other(r)
<1>1. s \in Roles /\ s # r /\ Roles = {r, s} /\ "leecher" \in Roles /\ "seeder" \in Roles
  BY TwoRoles DEF Roles
<1>2. end[q][r].at = "requesting" /\ broken[q] # {}
  BY DEF IInv, Shapes, LeecherQueue
<1>3. /\ UNCHANGED <<relay, sessions, request, conn, out, chan, broken, loop, got>>
      /\ end' = [end EXCEPT ![q][r] = At("ready", NoPiece)]
  BY DEF LeecherQueue, ends, queues, assembler, EndGoto
<1> HIDE DEF s
<1>4. /\ end' \in [Pairs -> [Roles -> [at : Positions, piece : Nat]]]
      /\ end'[q][r] = At("ready", NoPiece) /\ end'[q][s] = end[q][s]
      /\ \A p \in Pairs \ {q} : end'[p] = end[p]
  <2>1. At("ready", NoPiece) \in [at : Positions, piece : Nat]
    BY AtType DEF Positions, NoPiece
  <2> QED
    BY <1>1, <1>3, <2>1 DEF IInv, Shapes, s, Other
<1>5. Shapes' /\ Others(q)
  BY <1>3, <1>4 DEF IInv, Shapes, Others, SameRest, SameSlot
<1>6. /\ relay'[q] = relay[q] /\ out'[q] = out[q] /\ chan'[q] = chan[q]
      /\ sessions'[q] = sessions[q] /\ request'[q] = request[q] /\ conn'[q] = conn[q]
      /\ loop'[q] = loop[q] /\ got'[q] = got[q] /\ broken'[q] = broken[q]
  BY <1>3
<1>7. end'[q][r].at = "ready" /\ end'[q][r].piece = NoPiece
  <2>1. end'[q][r] = At("ready", NoPiece)
    BY <1>4
  <2> QED
    BY <2>1, AtFields
<1>8. /\ Slot(end[q][r], relay[q][r], out[q][r], chan[q][r], sessions[q])
      /\ Slot(end[q][s], relay[q][s], out[q][s], chan[q][s], sessions[q])
      /\ Session(q)
  BY <1>1 DEF IInv
<1>9. SlotNext(q, r)
  BY <1>1, <1>2, <1>4, <1>6, <1>7, <1>8 DEF SlotNext, Slot, NoPiece
<1>10. SlotNext(q, s)
  BY <1>1, <1>2, <1>4, <1>6, <1>8 DEF SlotNext, Slot
<1>11. Underway(q)' \subseteq Underway(q) \cup {NoPiece}
  <2>1. /\ Underway(q) = Range(request[q]) \cup Range(conn[q]) \cup got[q]
                        \cup Holds(q, r) \cup Holds(q, s)
        /\ Underway(q)' = Range(request'[q]) \cup Range(conn'[q]) \cup got'[q]
                         \cup HoldsNext(q, r) \cup HoldsNext(q, s)
    BY Members DEF s
  <2> QED
    BY <1>2, <1>4, <1>6, <1>7, <1>8, <2>1 DEF Holds, HoldsNext, Slot
<1>12. \A t \in Roles : SlotNext(q, t)
  BY <1>1, <1>9, <1>10
<1>13. Len(conn'[q]) <= ConnCap /\ end'[q]["leecher"].at # "returned"
  BY <1>1, <1>2, <1>4, <1>6, <1>7, <1>8, Capacities DEF Session
<1>14. OverNext(q)
  BY <1>1, <1>2, <1>4, <1>6, <1>7, <1>8 DEF Session, Roles, OverNext
<1> QED
  BY <1>5, <1>12, <1>13, <1>14, <1>11 DEF Good

\* There is no send stream any more, so the session is over.
LEMMA SeederQueueDropsIsGood ==
  ASSUME NEW q \in Pairs, NEW r \in Roles, r = "seeder"
  PROVE  IInv /\ SeederQueue(q) /\ <<"seeder", "send">> \in broken[q] => Good(q)
<1> SUFFICES ASSUME IInv, SeederQueue(q), <<"seeder", "send">> \in broken[q] PROVE Good(q)
  OBVIOUS
<1> DEFINE s == Other(r)
<1>1. s \in Roles /\ s # r /\ Roles = {r, s} /\ "leecher" \in Roles /\ "seeder" \in Roles
  BY TwoRoles DEF Roles
<1>2. end[q][r].at = "sending" /\ broken[q] # {}
  BY DEF IInv, Shapes, SeederQueue
<1>3. /\ UNCHANGED <<relay, sessions, request, conn, out, chan, broken, loop, got>>
      /\ end' = [end EXCEPT ![q][r] = At("ready", NoPiece)]
  BY DEF SeederQueue, ends, queues, assembler, EndGoto
<1> HIDE DEF s
<1>4. /\ end' \in [Pairs -> [Roles -> [at : Positions, piece : Nat]]]
      /\ end'[q][r] = At("ready", NoPiece) /\ end'[q][s] = end[q][s]
      /\ \A p \in Pairs \ {q} : end'[p] = end[p]
  <2>1. At("ready", NoPiece) \in [at : Positions, piece : Nat]
    BY AtType DEF Positions, NoPiece
  <2> QED
    BY <1>1, <1>3, <2>1 DEF IInv, Shapes, s, Other
<1>5. Shapes' /\ Others(q)
  BY <1>3, <1>4 DEF IInv, Shapes, Others, SameRest, SameSlot
<1>6. /\ relay'[q] = relay[q] /\ out'[q] = out[q] /\ chan'[q] = chan[q]
      /\ sessions'[q] = sessions[q] /\ request'[q] = request[q] /\ conn'[q] = conn[q]
      /\ loop'[q] = loop[q] /\ got'[q] = got[q] /\ broken'[q] = broken[q]
  BY <1>3
<1>7. end'[q][r].at = "ready" /\ end'[q][r].piece = NoPiece
  <2>1. end'[q][r] = At("ready", NoPiece)
    BY <1>4
  <2> QED
    BY <2>1, AtFields
<1>8. /\ Slot(end[q][r], relay[q][r], out[q][r], chan[q][r], sessions[q])
      /\ Slot(end[q][s], relay[q][s], out[q][s], chan[q][s], sessions[q])
      /\ Session(q)
  BY <1>1 DEF IInv
<1>9. SlotNext(q, r)
  BY <1>1, <1>2, <1>4, <1>6, <1>7, <1>8 DEF SlotNext, Slot, NoPiece
<1>10. SlotNext(q, s)
  BY <1>1, <1>2, <1>4, <1>6, <1>8 DEF SlotNext, Slot
<1>11. Underway(q)' \subseteq Underway(q) \cup {NoPiece}
  <2>1. /\ Underway(q) = Range(request[q]) \cup Range(conn[q]) \cup got[q]
                        \cup Holds(q, r) \cup Holds(q, s)
        /\ Underway(q)' = Range(request'[q]) \cup Range(conn'[q]) \cup got'[q]
                         \cup HoldsNext(q, r) \cup HoldsNext(q, s)
    BY Members DEF s
  <2> QED
    BY <1>2, <1>4, <1>6, <1>7, <1>8, <2>1 DEF Holds, HoldsNext, Slot
<1>12. \A t \in Roles : SlotNext(q, t)
  BY <1>1, <1>9, <1>10
<1>13. Len(conn'[q]) <= ConnCap /\ end'[q]["leecher"].at # "returned"
  BY <1>1, <1>2, <1>4, <1>6, <1>7, <1>8, Capacities DEF Session
<1>14. OverNext(q)
  BY <1>1, <1>2, <1>4, <1>6, <1>7, <1>8 DEF Session, Roles, OverNext
<1> QED
  BY <1>5, <1>12, <1>13, <1>14, <1>11 DEF Good

\* The loop that waits for a request holds none when it ends.
LEMMA SeederStreamEndsIsGood ==
  ASSUME NEW q \in Pairs, NEW r \in Roles, r = "seeder"
  PROVE  IInv /\ SeederStreamEnds(q) => Good(q)
<1> SUFFICES ASSUME IInv, SeederStreamEnds(q) PROVE Good(q)
  OBVIOUS
<1> DEFINE s == Other(r)
<1>1. s \in Roles /\ s # r /\ Roles = {r, s} /\ "leecher" \in Roles /\ "seeder" \in Roles
  BY TwoRoles DEF Roles
<1>2. end[q][r].at = "ready" /\ broken[q] # {} /\ r = "seeder"
  BY <1>1 DEF IInv, Shapes, SeederStreamEnds
<1>3. /\ UNCHANGED <<relay, sessions, request, conn, out, chan, broken, loop, got>>
      /\ end' = [end EXCEPT ![q][r] = At("returned", NoPiece)]
  BY DEF SeederStreamEnds, ends, queues, assembler, EndGoto
<1> HIDE DEF s
<1>4. /\ end' \in [Pairs -> [Roles -> [at : Positions, piece : Nat]]]
      /\ end'[q][r] = At("returned", NoPiece) /\ end'[q][s] = end[q][s]
      /\ \A p \in Pairs \ {q} : end'[p] = end[p]
  <2>1. At("returned", NoPiece) \in [at : Positions, piece : Nat]
    BY AtType DEF Positions, NoPiece
  <2> QED
    BY <1>1, <1>3, <2>1 DEF IInv, Shapes, s, Other
<1>5. Shapes' /\ Others(q)
  BY <1>3, <1>4 DEF IInv, Shapes, Others, SameRest, SameSlot
<1>6. /\ relay'[q] = relay[q] /\ out'[q] = out[q] /\ chan'[q] = chan[q]
      /\ sessions'[q] = sessions[q] /\ request'[q] = request[q] /\ conn'[q] = conn[q]
      /\ loop'[q] = loop[q] /\ got'[q] = got[q] /\ broken'[q] = broken[q]
  BY <1>3
<1>7. end'[q][r].at = "returned" /\ end'[q][r].piece = NoPiece
  <2>1. end'[q][r] = At("returned", NoPiece)
    BY <1>4
  <2> QED
    BY <2>1, AtFields
<1>8. /\ Slot(end[q][r], relay[q][r], out[q][r], chan[q][r], sessions[q])
      /\ Slot(end[q][s], relay[q][s], out[q][s], chan[q][s], sessions[q])
      /\ Session(q)
  BY <1>1 DEF IInv
<1>9. SlotNext(q, r)
  BY <1>1, <1>2, <1>4, <1>6, <1>7, <1>8 DEF SlotNext, Slot, NoPiece
<1>10. SlotNext(q, s)
  BY <1>1, <1>2, <1>4, <1>6, <1>8 DEF SlotNext, Slot
<1>11. Underway(q)' \subseteq Underway(q) \cup {NoPiece}
  <2>1. /\ Underway(q) = Range(request[q]) \cup Range(conn[q]) \cup got[q]
                        \cup Holds(q, r) \cup Holds(q, s)
        /\ Underway(q)' = Range(request'[q]) \cup Range(conn'[q]) \cup got'[q]
                         \cup HoldsNext(q, r) \cup HoldsNext(q, s)
    BY Members DEF s
  <2> QED
    BY <1>2, <1>4, <1>6, <1>7, <1>8, <2>1 DEF Holds, HoldsNext, Slot
<1>12. \A t \in Roles : SlotNext(q, t)
  BY <1>1, <1>9, <1>10
<1>13. Len(conn'[q]) <= ConnCap /\ end'[q]["leecher"].at # "returned"
  BY <1>1, <1>2, <1>4, <1>6, <1>7, <1>8, Capacities DEF Session
<1>14. OverNext(q)
  BY <1>1, <1>2, <1>4, <1>6, <1>7, <1>8 DEF Session, Roles, OverNext
<1> QED
  BY <1>5, <1>12, <1>13, <1>14, <1>11 DEF Good

\* The packet is lost with the task, over a stream that broke.
LEMMA RelayDroppedIsGood ==
  ASSUME NEW q \in Pairs, NEW r \in Roles
  PROVE  IInv /\ RelayDropped(q, r) => Good(q)
<1> SUFFICES ASSUME IInv, RelayDropped(q, r) PROVE Good(q)
  OBVIOUS
<1> DEFINE s == Other(r)
<1>1. s \in Roles /\ s # r /\ Roles = {r, s} /\ "leecher" \in Roles /\ "seeder" \in Roles
  BY TwoRoles DEF Roles
<1>2. relay[q][r].at \in RelayPositions /\ broken[q] # {}
  BY DEF IInv, Shapes, RelayDropped
<1>3. /\ UNCHANGED <<end, sessions, request, conn, out, chan, broken, loop, got>>
      /\ relay' = [relay EXCEPT ![q][r] = At("off", NoPiece)]
  BY DEF RelayDropped, ends, queues, assembler, RelayGoto, RelayPositions
<1> HIDE DEF s
<1>4. /\ relay' \in [Pairs -> [Roles -> [at : RelayPositions, piece : Nat]]]
      /\ relay'[q][r] = At("off", NoPiece) /\ relay'[q][s] = relay[q][s]
      /\ \A p \in Pairs \ {q} : relay'[p] = relay[p]
  <2>1. At("off", NoPiece) \in [at : RelayPositions, piece : Nat]
    BY AtType DEF RelayPositions, NoPiece
  <2> QED
    BY <1>1, <1>3, <2>1 DEF IInv, Shapes, s, Other
<1>5. Shapes' /\ Others(q)
  BY <1>3, <1>4 DEF IInv, Shapes, Others, SameRest, SameSlot
<1>6. /\ end'[q] = end[q] /\ out'[q] = out[q] /\ chan'[q] = chan[q]
      /\ sessions'[q] = sessions[q] /\ request'[q] = request[q] /\ conn'[q] = conn[q]
      /\ loop'[q] = loop[q] /\ got'[q] = got[q] /\ broken'[q] = broken[q]
  BY <1>3
<1>7. relay'[q][r].at = "off" /\ relay'[q][r].piece = NoPiece
  <2>1. relay'[q][r] = At("off", NoPiece)
    BY <1>4
  <2> QED
    BY <2>1, AtFields
<1>8. /\ Slot(end[q][r], relay[q][r], out[q][r], chan[q][r], sessions[q])
      /\ Slot(end[q][s], relay[q][s], out[q][s], chan[q][s], sessions[q])
      /\ Session(q)
  BY <1>1 DEF IInv
<1>9. SlotNext(q, r)
  BY <1>1, <1>2, <1>4, <1>6, <1>7, <1>8 DEF SlotNext, Slot, NoPiece
<1>10. SlotNext(q, s)
  BY <1>1, <1>2, <1>4, <1>6, <1>8 DEF SlotNext, Slot
<1>11. Underway(q)' \subseteq Underway(q) \cup {NoPiece}
  <2>1. /\ Underway(q) = Range(request[q]) \cup Range(conn[q]) \cup got[q]
                        \cup Holds(q, r) \cup Holds(q, s)
        /\ Underway(q)' = Range(request'[q]) \cup Range(conn'[q]) \cup got'[q]
                         \cup HoldsNext(q, r) \cup HoldsNext(q, s)
    BY Members DEF s
  <2> QED
    BY <1>2, <1>4, <1>6, <1>7, <1>8, <2>1 DEF Holds, HoldsNext, Slot
<1>12. \A t \in Roles : SlotNext(q, t)
  BY <1>1, <1>9, <1>10
<1>13. Len(conn'[q]) <= ConnCap /\ end'[q]["leecher"].at # "returned"
  BY <1>1, <1>2, <1>4, <1>6, <1>7, <1>8, Capacities DEF Session
<1>14. OverNext(q)
  BY <1>1, <1>2, <1>4, <1>6, <1>7, <1>8 DEF Session, Roles, OverNext
<1> QED
  BY <1>5, <1>12, <1>13, <1>14, <1>11 DEF Good

\* The packet fits into the channel of the other end.
LEMMA ForwardSendsIsGood ==
  ASSUME NEW q \in Pairs, NEW r \in Roles
  PROVE  IInv /\ Forward(q, r) /\ ~Unreachable(q, Other(r)) => Good(q)
<1> SUFFICES ASSUME IInv, Forward(q, r), ~Unreachable(q, Other(r)) PROVE Good(q)
  OBVIOUS
<1> DEFINE s == Other(r)
           item == relay[q][r].piece
           more == Append(chan[q][s], item)
<1>1. s \in Roles /\ s # r /\ Roles = {r, s} /\ "leecher" \in Roles /\ "seeder" \in Roles
  BY TwoRoles DEF Roles
<1>2. /\ chan[q][s] \in Seq(Nat) /\ Len(chan[q][s]) < ChanCap /\ relay[q][r].piece \in Nat
      /\ relay[q][r].at = "sending"
  BY <1>1 DEF IInv, Shapes, Forward
<1>3. /\ item = relay[q][r].piece /\ item \in Nat /\ more \in Seq(Nat)
      /\ Range(more) = {item} \cup Range(chan[q][s])
      /\ Len(more) \in Nat /\ Len(chan[q][s]) \in Nat /\ Len(more) = Len(chan[q][s]) + 1
  BY <1>2, AppendQueue
<1>4. /\ UNCHANGED <<end, sessions, request, conn, out, broken, loop, got>>
      /\ relay' = [relay EXCEPT ![q][r] = At("reading", NoPiece)]
      /\ chan' = [chan EXCEPT ![q][s] = more]
  BY DEF Forward, ends, queues, assembler, RelayGoto
<1> HIDE DEF s, item, more
<1>5. /\ relay' \in [Pairs -> [Roles -> [at : RelayPositions, piece : Nat]]]
      /\ relay'[q][r] = At("reading", NoPiece) /\ relay'[q][s] = relay[q][s]
      /\ \A p \in Pairs \ {q} : relay'[p] = relay[p]
  <2>1. At("reading", NoPiece) \in [at : RelayPositions, piece : Nat]
    BY AtType DEF RelayPositions, NoPiece
  <2> QED
    BY <1>1, <1>4, <2>1 DEF IInv, Shapes, s, Other
<1>6. /\ chan' \in [Pairs -> [Roles -> Seq(Nat)]]
      /\ chan'[q][s] = more /\ chan'[q][r] = chan[q][r]
      /\ \A p \in Pairs \ {q} : chan'[p] = chan[p]
  <2>1. more \in Seq(Nat)
    BY <1>3
  <2> QED
    BY <1>1, <1>4, <2>1 DEF IInv, Shapes, s, Other
<1>7. Shapes' /\ Others(q)
  BY <1>4, <1>5, <1>6 DEF IInv, Shapes, Others, SameRest, SameSlot
<1>8. /\ end'[q] = end[q] /\ out'[q] = out[q] /\ sessions'[q] = sessions[q]
      /\ request'[q] = request[q] /\ conn'[q] = conn[q] /\ loop'[q] = loop[q]
      /\ got'[q] = got[q] /\ broken'[q] = broken[q]
  BY <1>4
<1>9. relay'[q][r].at = "reading" /\ relay'[q][r].piece = NoPiece
  <2>1. relay'[q][r] = At("reading", NoPiece)
    BY <1>5
  <2> QED
    BY <2>1, AtFields
<1>10. /\ Slot(end[q][r], relay[q][r], out[q][r], chan[q][r], sessions[q])
      /\ Slot(end[q][s], relay[q][s], out[q][s], chan[q][s], sessions[q])
      /\ Session(q)
  BY <1>1 DEF IInv
<1>11. SlotNext(q, r)
  <2>1. Len(out'[q][r]) <= OutCap /\ Len(chan'[q][r]) <= ChanCap
    BY <1>3, <1>6, <1>8, <1>10, Capacities, <1>2 DEF Slot
  <2> QED
    BY <1>2, <1>5, <1>6, <1>8, <1>9, <1>10, <2>1 DEF SlotNext, Slot, NoPiece
<1>12. SlotNext(q, s)
  <2>1. Len(out'[q][s]) <= OutCap /\ Len(chan'[q][s]) <= ChanCap
    BY <1>3, <1>6, <1>8, <1>10, Capacities, <1>2 DEF Slot
  <2> QED
    BY <1>2, <1>5, <1>6, <1>8, <1>9, <1>10, <2>1 DEF SlotNext, Slot, NoPiece
<1>13. /\ Underway(q) \subseteq Underway(q)' \cup {NoPiece}
         /\ Underway(q)' \subseteq Underway(q) \cup {NoPiece}
  <2>1. /\ Underway(q) = Range(request[q]) \cup Range(conn[q]) \cup got[q]
                        \cup Holds(q, r) \cup Holds(q, s)
        /\ Underway(q)' = Range(request'[q]) \cup Range(conn'[q]) \cup got'[q]
                         \cup HoldsNext(q, r) \cup HoldsNext(q, s)
    BY Members DEF s
  <2> QED
    BY <1>2, <1>3, <1>5, <1>6, <1>8, <1>9, <1>10, <2>1 DEF Holds, HoldsNext, Slot
<1>14. \A t \in Roles : SlotNext(q, t)
  BY <1>1, <1>11, <1>12
<1>15. Len(conn'[q]) <= ConnCap /\ end'[q]["leecher"].at # "returned"
  BY <1>1, <1>2, <1>3, <1>5, <1>6, <1>8, <1>9, <1>10, Capacities DEF Session
<1>16. Over(q) => OverNext(q)
  BY <1>1, <1>2, <1>3, <1>5, <1>6, <1>8, <1>9 DEF Over, OverNext
<1> QED
  BY <1>7, <1>14, <1>15, <1>16, <1>13 DEF Good

\* The other end is out of reach, so the session is over.
LEMMA ForwardDropsIsGood ==
  ASSUME NEW q \in Pairs, NEW r \in Roles
  PROVE  IInv /\ Forward(q, r) /\ Unreachable(q, Other(r)) => Good(q)
<1> SUFFICES ASSUME IInv, Forward(q, r), Unreachable(q, Other(r)) PROVE Good(q)
  OBVIOUS
<1> DEFINE s == Other(r)
<1>1. s \in Roles /\ s # r /\ Roles = {r, s} /\ "leecher" \in Roles /\ "seeder" \in Roles
  BY TwoRoles DEF Roles
<1>2. relay[q][r].at = "sending" /\ (end[q][s].at = "returned" \/ broken[q] # {})
  BY <1>1 DEF IInv, Shapes, Forward, Unreachable
<1>3. /\ UNCHANGED <<end, sessions, request, conn, out, chan, broken, loop, got>>
      /\ relay' = [relay EXCEPT ![q][r] = At("reading", NoPiece)]
  BY DEF Forward, ends, queues, assembler, RelayGoto
<1> HIDE DEF s
<1>4. /\ relay' \in [Pairs -> [Roles -> [at : RelayPositions, piece : Nat]]]
      /\ relay'[q][r] = At("reading", NoPiece) /\ relay'[q][s] = relay[q][s]
      /\ \A p \in Pairs \ {q} : relay'[p] = relay[p]
  <2>1. At("reading", NoPiece) \in [at : RelayPositions, piece : Nat]
    BY AtType DEF RelayPositions, NoPiece
  <2> QED
    BY <1>1, <1>3, <2>1 DEF IInv, Shapes, s, Other
<1>5. Shapes' /\ Others(q)
  BY <1>3, <1>4 DEF IInv, Shapes, Others, SameRest, SameSlot
<1>6. /\ end'[q] = end[q] /\ out'[q] = out[q] /\ chan'[q] = chan[q]
      /\ sessions'[q] = sessions[q] /\ request'[q] = request[q] /\ conn'[q] = conn[q]
      /\ loop'[q] = loop[q] /\ got'[q] = got[q] /\ broken'[q] = broken[q]
  BY <1>3
<1>7. relay'[q][r].at = "reading" /\ relay'[q][r].piece = NoPiece
  <2>1. relay'[q][r] = At("reading", NoPiece)
    BY <1>4
  <2> QED
    BY <2>1, AtFields
<1>8. /\ Slot(end[q][r], relay[q][r], out[q][r], chan[q][r], sessions[q])
      /\ Slot(end[q][s], relay[q][s], out[q][s], chan[q][s], sessions[q])
      /\ Session(q)
  BY <1>1 DEF IInv
<1>9. SlotNext(q, r)
  BY <1>1, <1>2, <1>4, <1>6, <1>7, <1>8 DEF SlotNext, Slot, NoPiece
<1>10. SlotNext(q, s)
  BY <1>1, <1>2, <1>4, <1>6, <1>8 DEF SlotNext, Slot
<1>11. Underway(q)' \subseteq Underway(q) \cup {NoPiece}
  <2>1. /\ Underway(q) = Range(request[q]) \cup Range(conn[q]) \cup got[q]
                        \cup Holds(q, r) \cup Holds(q, s)
        /\ Underway(q)' = Range(request'[q]) \cup Range(conn'[q]) \cup got'[q]
                         \cup HoldsNext(q, r) \cup HoldsNext(q, s)
    BY Members DEF s
  <2> QED
    BY <1>2, <1>4, <1>6, <1>7, <1>8, <2>1 DEF Holds, HoldsNext, Slot
<1>12. \A t \in Roles : SlotNext(q, t)
  BY <1>1, <1>9, <1>10
<1>13. Len(conn'[q]) <= ConnCap /\ end'[q]["leecher"].at # "returned"
  BY <1>1, <1>2, <1>4, <1>6, <1>7, <1>8, Capacities DEF Session
<1>14. OverNext(q)
  BY <1>1, <1>2, <1>4, <1>6, <1>7, <1>8 DEF Session, Roles, OverNext
<1> QED
  BY <1>5, <1>12, <1>13, <1>14, <1>11 DEF Good

\* The piece goes on to reassemble_loop.
LEMMA LeecherDeliversIsGood ==
  ASSUME NEW q \in Pairs, NEW r \in Roles, r = "leecher"
  PROVE  IInv /\ LeecherDeliver(q) /\ loop[q] # "ended" => Good(q)
<1> SUFFICES ASSUME IInv, LeecherDeliver(q), loop[q] # "ended" PROVE Good(q)
  OBVIOUS
<1> DEFINE s == Other(r)
           item == end[q][r].piece
           more == Append(conn[q], item)
<1>1. s \in Roles /\ s # r /\ Roles = {r, s} /\ "leecher" \in Roles /\ "seeder" \in Roles
  BY TwoRoles DEF Roles
<1>2. /\ conn[q] \in Seq(Nat) /\ Len(conn[q]) < ConnCap /\ end[q][r].piece \in Nat
      /\ end[q][r].at = "sending"
  BY DEF IInv, Shapes, LeecherDeliver
<1>3. /\ item = end[q][r].piece /\ item \in Nat /\ more \in Seq(Nat)
      /\ Range(more) = {item} \cup Range(conn[q])
      /\ Len(more) \in Nat /\ Len(conn[q]) \in Nat /\ Len(more) = Len(conn[q]) + 1
  BY <1>2, AppendQueue
<1>4. /\ UNCHANGED <<relay, sessions, request, out, chan, broken, loop, got>>
      /\ end' = [end EXCEPT ![q][r] = At("ready", NoPiece)]
      /\ conn' = [conn EXCEPT ![q] = more]
  BY DEF LeecherDeliver, ends, queues, assembler, EndGoto
<1> HIDE DEF s, item, more
<1>5. /\ end' \in [Pairs -> [Roles -> [at : Positions, piece : Nat]]]
      /\ end'[q][r] = At("ready", NoPiece) /\ end'[q][s] = end[q][s]
      /\ \A p \in Pairs \ {q} : end'[p] = end[p]
  <2>1. At("ready", NoPiece) \in [at : Positions, piece : Nat]
    BY AtType DEF Positions, NoPiece
  <2> QED
    BY <1>1, <1>4, <2>1 DEF IInv, Shapes, s, Other
<1>6. /\ conn' \in [Pairs -> Seq(Nat)] /\ conn'[q] = more
      /\ \A p \in Pairs \ {q} : conn'[p] = conn[p]
  BY <1>2, <1>3, <1>4 DEF IInv, Shapes
<1>7. Shapes' /\ Others(q)
  BY <1>4, <1>5, <1>6 DEF IInv, Shapes, Others, SameRest, SameSlot
<1>8. /\ relay'[q] = relay[q] /\ out'[q] = out[q] /\ chan'[q] = chan[q]
      /\ sessions'[q] = sessions[q] /\ request'[q] = request[q] /\ loop'[q] = loop[q]
      /\ got'[q] = got[q] /\ broken'[q] = broken[q]
  BY <1>4
<1>9. end'[q][r].at = "ready" /\ end'[q][r].piece = NoPiece
  <2>1. end'[q][r] = At("ready", NoPiece)
    BY <1>5
  <2> QED
    BY <2>1, AtFields
<1>10. /\ Slot(end[q][r], relay[q][r], out[q][r], chan[q][r], sessions[q])
      /\ Slot(end[q][s], relay[q][s], out[q][s], chan[q][s], sessions[q])
      /\ Session(q)
  BY <1>1 DEF IInv
<1>11. SlotNext(q, r)
  <2>1. Len(out'[q][r]) <= OutCap /\ Len(chan'[q][r]) <= ChanCap
    BY <1>3, <1>8, <1>10, Capacities, <1>2 DEF Slot
  <2> QED
    BY <1>2, <1>5, <1>6, <1>8, <1>9, <1>10, <2>1 DEF SlotNext, Slot, NoPiece
<1>12. SlotNext(q, s)
  BY <1>1, <1>2, <1>5, <1>6, <1>8, <1>10 DEF SlotNext, Slot
<1>13. /\ Underway(q) \subseteq Underway(q)' \cup {NoPiece}
         /\ Underway(q)' \subseteq Underway(q) \cup {NoPiece}
  <2>1. /\ Underway(q) = Range(request[q]) \cup Range(conn[q]) \cup got[q]
                        \cup Holds(q, r) \cup Holds(q, s)
        /\ Underway(q)' = Range(request'[q]) \cup Range(conn'[q]) \cup got'[q]
                         \cup HoldsNext(q, r) \cup HoldsNext(q, s)
    BY Members DEF s
  <2> QED
    BY <1>2, <1>3, <1>5, <1>6, <1>8, <1>9, <1>10, <2>1 DEF Holds, HoldsNext, Slot
<1>14. \A t \in Roles : SlotNext(q, t)
  BY <1>1, <1>11, <1>12
<1>15. Len(conn'[q]) <= ConnCap /\ end'[q]["leecher"].at # "returned"
  BY <1>1, <1>2, <1>3, <1>5, <1>6, <1>8, <1>9, <1>10, Capacities DEF Session
<1>16. Over(q) => OverNext(q)
  BY <1>1, <1>2, <1>3, <1>5, <1>6, <1>8, <1>9 DEF Over, OverNext
<1> QED
  BY <1>7, <1>14, <1>15, <1>16, <1>13 DEF Good

\* There is no reassemble_loop any more, so the session is over.
LEMMA LeecherDropsIsGood ==
  ASSUME NEW q \in Pairs, NEW r \in Roles, r = "leecher"
  PROVE  IInv /\ LeecherDeliver(q) /\ loop[q] = "ended" => Good(q)
<1> SUFFICES ASSUME IInv, LeecherDeliver(q), loop[q] = "ended" PROVE Good(q)
  OBVIOUS
<1> DEFINE s == Other(r)
<1>1. s \in Roles /\ s # r /\ Roles = {r, s} /\ "leecher" \in Roles /\ "seeder" \in Roles
  BY TwoRoles DEF Roles
<1>2. end[q][r].at = "sending" /\ loop[q] = "ended"
  BY DEF IInv, Shapes, LeecherDeliver
<1>3. /\ UNCHANGED <<relay, sessions, request, conn, out, chan, broken, loop, got>>
      /\ end' = [end EXCEPT ![q][r] = At("ready", NoPiece)]
  BY DEF LeecherDeliver, ends, queues, assembler, EndGoto
<1> HIDE DEF s
<1>4. /\ end' \in [Pairs -> [Roles -> [at : Positions, piece : Nat]]]
      /\ end'[q][r] = At("ready", NoPiece) /\ end'[q][s] = end[q][s]
      /\ \A p \in Pairs \ {q} : end'[p] = end[p]
  <2>1. At("ready", NoPiece) \in [at : Positions, piece : Nat]
    BY AtType DEF Positions, NoPiece
  <2> QED
    BY <1>1, <1>3, <2>1 DEF IInv, Shapes, s, Other
<1>5. Shapes' /\ Others(q)
  BY <1>3, <1>4 DEF IInv, Shapes, Others, SameRest, SameSlot
<1>6. /\ relay'[q] = relay[q] /\ out'[q] = out[q] /\ chan'[q] = chan[q]
      /\ sessions'[q] = sessions[q] /\ request'[q] = request[q] /\ conn'[q] = conn[q]
      /\ loop'[q] = loop[q] /\ got'[q] = got[q] /\ broken'[q] = broken[q]
  BY <1>3
<1>7. end'[q][r].at = "ready" /\ end'[q][r].piece = NoPiece
  <2>1. end'[q][r] = At("ready", NoPiece)
    BY <1>4
  <2> QED
    BY <2>1, AtFields
<1>8. /\ Slot(end[q][r], relay[q][r], out[q][r], chan[q][r], sessions[q])
      /\ Slot(end[q][s], relay[q][s], out[q][s], chan[q][s], sessions[q])
      /\ Session(q)
  BY <1>1 DEF IInv
<1>9. SlotNext(q, r)
  BY <1>1, <1>2, <1>4, <1>6, <1>7, <1>8 DEF SlotNext, Slot, NoPiece
<1>10. SlotNext(q, s)
  BY <1>1, <1>2, <1>4, <1>6, <1>8 DEF SlotNext, Slot
<1>11. Underway(q)' \subseteq Underway(q) \cup {NoPiece}
  <2>1. /\ Underway(q) = Range(request[q]) \cup Range(conn[q]) \cup got[q]
                        \cup Holds(q, r) \cup Holds(q, s)
        /\ Underway(q)' = Range(request'[q]) \cup Range(conn'[q]) \cup got'[q]
                         \cup HoldsNext(q, r) \cup HoldsNext(q, s)
    BY Members DEF s
  <2> QED
    BY <1>2, <1>4, <1>6, <1>7, <1>8, <2>1 DEF Holds, HoldsNext, Slot
<1>12. \A t \in Roles : SlotNext(q, t)
  BY <1>1, <1>9, <1>10
<1>13. Len(conn'[q]) <= ConnCap /\ end'[q]["leecher"].at # "returned"
  BY <1>1, <1>2, <1>4, <1>6, <1>7, <1>8, Capacities DEF Session
<1>14. OverNext(q)
  BY <1>1, <1>2, <1>4, <1>6, <1>7, <1>8 DEF Session, Roles, OverNext
<1> QED
  BY <1>5, <1>12, <1>13, <1>14, <1>11 DEF Good

\* What is queued for the seeder is lost with its task.
LEMMA SeederLacksIsGood ==
  ASSUME NEW q \in Pairs, NEW r \in Roles, r = "seeder"
  PROVE  IInv /\ SeederLacks(q) => Good(q)
<1> SUFFICES ASSUME IInv, SeederLacks(q) PROVE Good(q)
  OBVIOUS
<1> DEFINE s == Other(r)
           none == <<>>
<1>1. s \in Roles /\ s # r /\ Roles = {r, s} /\ "leecher" \in Roles /\ "seeder" \in Roles
  BY TwoRoles DEF Roles
<1>2. end[q][r].at = "sending" /\ r = "seeder"
  BY <1>1 DEF IInv, Shapes, SeederLacks
<1>3. none \in Seq(Nat) /\ Len(none) = 0 /\ Range(none) = {}
  BY <1>2, EmptyQueue
<1>4. /\ UNCHANGED <<relay, sessions, request, conn, out, broken, loop, got>>
      /\ end' = [end EXCEPT ![q][r] = At("returned", NoPiece)]
      /\ chan' = [chan EXCEPT ![q][r] = none]
  BY DEF SeederLacks, ends, queues, assembler, EndGoto
<1> HIDE DEF s, none
<1>5. /\ end' \in [Pairs -> [Roles -> [at : Positions, piece : Nat]]]
      /\ end'[q][r] = At("returned", NoPiece) /\ end'[q][s] = end[q][s]
      /\ \A p \in Pairs \ {q} : end'[p] = end[p]
  <2>1. At("returned", NoPiece) \in [at : Positions, piece : Nat]
    BY AtType DEF Positions, NoPiece
  <2> QED
    BY <1>1, <1>4, <2>1 DEF IInv, Shapes, s, Other
<1>6. /\ chan' \in [Pairs -> [Roles -> Seq(Nat)]]
      /\ chan'[q][r] = none /\ chan'[q][s] = chan[q][s]
      /\ \A p \in Pairs \ {q} : chan'[p] = chan[p]
  <2>1. none \in Seq(Nat)
    BY <1>3
  <2> QED
    BY <1>1, <1>4, <2>1 DEF IInv, Shapes, s, Other
<1>7. Shapes' /\ Others(q)
  BY <1>4, <1>5, <1>6 DEF IInv, Shapes, Others, SameRest, SameSlot
<1>8. /\ relay'[q] = relay[q] /\ out'[q] = out[q] /\ sessions'[q] = sessions[q]
      /\ request'[q] = request[q] /\ conn'[q] = conn[q] /\ loop'[q] = loop[q]
      /\ got'[q] = got[q] /\ broken'[q] = broken[q]
  BY <1>4
<1>9. end'[q][r].at = "returned" /\ end'[q][r].piece = NoPiece
  <2>1. end'[q][r] = At("returned", NoPiece)
    BY <1>5
  <2> QED
    BY <2>1, AtFields
<1>10. /\ Slot(end[q][r], relay[q][r], out[q][r], chan[q][r], sessions[q])
      /\ Slot(end[q][s], relay[q][s], out[q][s], chan[q][s], sessions[q])
      /\ Session(q)
  BY <1>1 DEF IInv
<1>11. SlotNext(q, r)
  <2>1. Len(out'[q][r]) <= OutCap /\ Len(chan'[q][r]) <= ChanCap
    BY <1>3, <1>6, <1>8, <1>10, Capacities DEF Slot
  <2> QED
    BY <1>2, <1>5, <1>6, <1>8, <1>9, <1>10, <2>1 DEF SlotNext, Slot, NoPiece
<1>12. SlotNext(q, s)
  BY <1>1, <1>2, <1>5, <1>6, <1>8, <1>10 DEF SlotNext, Slot
<1>13. Underway(q)' \subseteq Underway(q) \cup {NoPiece}
  <2>1. /\ Underway(q) = Range(request[q]) \cup Range(conn[q]) \cup got[q]
                        \cup Holds(q, r) \cup Holds(q, s)
        /\ Underway(q)' = Range(request'[q]) \cup Range(conn'[q]) \cup got'[q]
                         \cup HoldsNext(q, r) \cup HoldsNext(q, s)
    BY Members DEF s
  <2> QED
    BY <1>2, <1>3, <1>5, <1>6, <1>8, <1>9, <1>10, <2>1 DEF Holds, HoldsNext, Slot
<1>14. \A t \in Roles : SlotNext(q, t)
  BY <1>1, <1>11, <1>12
<1>15. Len(conn'[q]) <= ConnCap /\ end'[q]["leecher"].at # "returned"
  BY <1>1, <1>2, <1>3, <1>5, <1>6, <1>8, <1>9, <1>10, Capacities DEF Session
<1>16. OverNext(q)
  BY <1>1, <1>2, <1>5, <1>6, <1>8, <1>9, <1>10 DEF Session, Roles, OverNext
<1> QED
  BY <1>7, <1>14, <1>15, <1>16, <1>13 DEF Good

\* What is queued for reassemble_loop is lost with it.
LEMMA LoopEndsIsGood ==
  ASSUME NEW q \in Pairs, NEW r \in Roles
  PROVE  IInv /\ LoopEnds(q) => Good(q)
<1> SUFFICES ASSUME IInv, LoopEnds(q) PROVE Good(q)
  OBVIOUS
<1> DEFINE s == Other(r)
           none == <<>>
<1>1. s \in Roles /\ s # r /\ Roles = {r, s} /\ "leecher" \in Roles /\ "seeder" \in Roles
  BY TwoRoles DEF Roles
<1>2. loop[q] = "receiving"
  BY DEF IInv, Shapes, LoopEnds
<1>3. none \in Seq(Nat) /\ Len(none) = 0 /\ Range(none) = {}
  BY <1>2, EmptyQueue
<1>4. /\ UNCHANGED <<end, relay, sessions, request, out, chan, broken, got>>
      /\ loop' = [loop EXCEPT ![q] = "ended"]
      /\ conn' = [conn EXCEPT ![q] = none]
  BY DEF LoopEnds, ends, queues, assembler
<1> HIDE DEF s, none
<1>5. /\ loop' \in [Pairs -> {"receiving", "stalled", "ended"}] /\ loop'[q] = "ended"
      /\ \A p \in Pairs \ {q} : loop'[p] = loop[p]
  BY <1>2, <1>3, <1>4 DEF IInv, Shapes
<1>6. /\ conn' \in [Pairs -> Seq(Nat)] /\ conn'[q] = none
      /\ \A p \in Pairs \ {q} : conn'[p] = conn[p]
  BY <1>2, <1>3, <1>4 DEF IInv, Shapes
<1>7. Shapes' /\ Others(q)
  BY <1>4, <1>5, <1>6 DEF IInv, Shapes, Others, SameRest, SameSlot
<1>8. /\ end'[q] = end[q] /\ relay'[q] = relay[q] /\ out'[q] = out[q]
      /\ chan'[q] = chan[q] /\ sessions'[q] = sessions[q] /\ request'[q] = request[q]
      /\ got'[q] = got[q] /\ broken'[q] = broken[q]
  BY <1>4
<1>9. /\ Slot(end[q][r], relay[q][r], out[q][r], chan[q][r], sessions[q])
      /\ Slot(end[q][s], relay[q][s], out[q][s], chan[q][s], sessions[q])
      /\ Session(q)
  BY <1>1 DEF IInv
<1>10. SlotNext(q, r)
  BY <1>1, <1>2, <1>5, <1>6, <1>8, <1>9 DEF SlotNext, Slot
<1>11. SlotNext(q, s)
  BY <1>1, <1>2, <1>5, <1>6, <1>8, <1>9 DEF SlotNext, Slot
<1>12. Underway(q)' \subseteq Underway(q) \cup {NoPiece}
  <2>1. /\ Underway(q) = Range(request[q]) \cup Range(conn[q]) \cup got[q]
                        \cup Holds(q, r) \cup Holds(q, s)
        /\ Underway(q)' = Range(request'[q]) \cup Range(conn'[q]) \cup got'[q]
                         \cup HoldsNext(q, r) \cup HoldsNext(q, s)
    BY Members DEF s
  <2> QED
    BY <1>2, <1>3, <1>5, <1>6, <1>8, <1>9, <2>1 DEF Holds, HoldsNext, Slot
<1>13. \A t \in Roles : SlotNext(q, t)
  BY <1>1, <1>10, <1>11
<1>14. Len(conn'[q]) <= ConnCap /\ end'[q]["leecher"].at # "returned"
  BY <1>1, <1>2, <1>3, <1>5, <1>6, <1>8, <1>9, Capacities DEF Session
<1>15. OverNext(q)
  BY <1>1, <1>2, <1>5, <1>6, <1>8, <1>9 DEF Session, Roles, OverNext
<1> QED
  BY <1>7, <1>13, <1>14, <1>15, <1>12 DEF Good

\* What the server has not read is lost with the stream.
LEMMA SendBreaksIsGood ==
  ASSUME NEW q \in Pairs, NEW r \in Roles
  PROVE  IInv /\ SendBreaks(q, r) => Good(q)
<1> SUFFICES ASSUME IInv, SendBreaks(q, r) PROVE Good(q)
  OBVIOUS
<1> DEFINE s == Other(r)
           none == <<>>
<1>1. s \in Roles /\ s # r /\ Roles = {r, s} /\ "leecher" \in Roles /\ "seeder" \in Roles
  BY TwoRoles DEF Roles
<1>2. broken[q] \subseteq Streams /\ <<r, "send">> \in Streams
  BY DEF IInv, Shapes, SendBreaks, Streams
<1>3. none \in Seq(Nat) /\ Len(none) = 0 /\ Range(none) = {}
  BY <1>2, EmptyQueue
<1>4. /\ UNCHANGED <<end, relay, sessions, request, conn, chan, loop, got>>
      /\ out' = [out EXCEPT ![q][r] = none]
      /\ broken' = [broken EXCEPT ![q] = broken[q] \cup {<<r, "send">>}]
  BY DEF SendBreaks, ends, queues, assembler
<1> HIDE DEF s, none
<1>5. /\ out' \in [Pairs -> [Roles -> Seq(Nat)]]
      /\ out'[q][r] = none /\ out'[q][s] = out[q][s]
      /\ \A p \in Pairs \ {q} : out'[p] = out[p]
  <2>1. none \in Seq(Nat)
    BY <1>3
  <2> QED
    BY <1>1, <1>4, <2>1 DEF IInv, Shapes, s, Other
<1>6. /\ broken' \in [Pairs -> SUBSET Streams] /\ broken'[q] = broken[q] \cup {<<r, "send">>}
      /\ \A p \in Pairs \ {q} : broken'[p] = broken[p]
  BY <1>2, <1>3, <1>4 DEF IInv, Shapes
<1>7. Shapes' /\ Others(q)
  BY <1>4, <1>5, <1>6 DEF IInv, Shapes, Others, SameRest, SameSlot
<1>8. /\ end'[q] = end[q] /\ relay'[q] = relay[q] /\ chan'[q] = chan[q]
      /\ sessions'[q] = sessions[q] /\ request'[q] = request[q] /\ conn'[q] = conn[q]
      /\ loop'[q] = loop[q] /\ got'[q] = got[q]
  BY <1>4
<1>9. /\ Slot(end[q][r], relay[q][r], out[q][r], chan[q][r], sessions[q])
      /\ Slot(end[q][s], relay[q][s], out[q][s], chan[q][s], sessions[q])
      /\ Session(q)
  BY <1>1 DEF IInv
<1>10. SlotNext(q, r)
  <2>1. Len(out'[q][r]) <= OutCap /\ Len(chan'[q][r]) <= ChanCap
    BY <1>3, <1>5, <1>8, <1>9, Capacities DEF Slot
  <2> QED
    BY <1>2, <1>5, <1>6, <1>8, <1>9, <2>1 DEF SlotNext, Slot, NoPiece
<1>11. SlotNext(q, s)
  BY <1>1, <1>2, <1>5, <1>6, <1>8, <1>9 DEF SlotNext, Slot
<1>12. Underway(q)' \subseteq Underway(q) \cup {NoPiece}
  <2>1. /\ Underway(q) = Range(request[q]) \cup Range(conn[q]) \cup got[q]
                        \cup Holds(q, r) \cup Holds(q, s)
        /\ Underway(q)' = Range(request'[q]) \cup Range(conn'[q]) \cup got'[q]
                         \cup HoldsNext(q, r) \cup HoldsNext(q, s)
    BY Members DEF s
  <2> QED
    BY <1>2, <1>3, <1>5, <1>6, <1>8, <1>9, <2>1 DEF Holds, HoldsNext, Slot
<1>13. \A t \in Roles : SlotNext(q, t)
  BY <1>1, <1>10, <1>11
<1>14. Len(conn'[q]) <= ConnCap /\ end'[q]["leecher"].at # "returned"
  BY <1>1, <1>2, <1>3, <1>5, <1>6, <1>8, <1>9, Capacities DEF Session
<1>15. OverNext(q)
  BY <1>1, <1>2, <1>5, <1>6, <1>8, <1>9 DEF Session, Roles, OverNext
<1> QED
  BY <1>7, <1>13, <1>14, <1>15, <1>12 DEF Good

\* What the client has not read is lost with the stream.
LEMMA ReceiveBreaksIsGood ==
  ASSUME NEW q \in Pairs, NEW r \in Roles
  PROVE  IInv /\ ReceiveBreaks(q, r) => Good(q)
<1> SUFFICES ASSUME IInv, ReceiveBreaks(q, r) PROVE Good(q)
  OBVIOUS
<1> DEFINE s == Other(r)
           none == <<>>
<1>1. s \in Roles /\ s # r /\ Roles = {r, s} /\ "leecher" \in Roles /\ "seeder" \in Roles
  BY TwoRoles DEF Roles
<1>2. broken[q] \subseteq Streams /\ <<r, "receive">> \in Streams
  BY DEF IInv, Shapes, ReceiveBreaks, Streams
<1>3. none \in Seq(Nat) /\ Len(none) = 0 /\ Range(none) = {}
  BY <1>2, EmptyQueue
<1>4. /\ UNCHANGED <<end, relay, sessions, request, conn, out, loop, got>>
      /\ chan' = [chan EXCEPT ![q][r] = none]
      /\ broken' = [broken EXCEPT ![q] = broken[q] \cup {<<r, "receive">>}]
  BY DEF ReceiveBreaks, ends, queues, assembler
<1> HIDE DEF s, none
<1>5. /\ chan' \in [Pairs -> [Roles -> Seq(Nat)]]
      /\ chan'[q][r] = none /\ chan'[q][s] = chan[q][s]
      /\ \A p \in Pairs \ {q} : chan'[p] = chan[p]
  <2>1. none \in Seq(Nat)
    BY <1>3
  <2> QED
    BY <1>1, <1>4, <2>1 DEF IInv, Shapes, s, Other
<1>6. /\ broken' \in [Pairs -> SUBSET Streams] /\ broken'[q] = broken[q] \cup {<<r, "receive">>}
      /\ \A p \in Pairs \ {q} : broken'[p] = broken[p]
  BY <1>2, <1>3, <1>4 DEF IInv, Shapes
<1>7. Shapes' /\ Others(q)
  BY <1>4, <1>5, <1>6 DEF IInv, Shapes, Others, SameRest, SameSlot
<1>8. /\ end'[q] = end[q] /\ relay'[q] = relay[q] /\ out'[q] = out[q]
      /\ sessions'[q] = sessions[q] /\ request'[q] = request[q] /\ conn'[q] = conn[q]
      /\ loop'[q] = loop[q] /\ got'[q] = got[q]
  BY <1>4
<1>9. /\ Slot(end[q][r], relay[q][r], out[q][r], chan[q][r], sessions[q])
      /\ Slot(end[q][s], relay[q][s], out[q][s], chan[q][s], sessions[q])
      /\ Session(q)
  BY <1>1 DEF IInv
<1>10. SlotNext(q, r)
  <2>1. Len(out'[q][r]) <= OutCap /\ Len(chan'[q][r]) <= ChanCap
    BY <1>3, <1>5, <1>8, <1>9, Capacities DEF Slot
  <2> QED
    BY <1>2, <1>5, <1>6, <1>8, <1>9, <2>1 DEF SlotNext, Slot, NoPiece
<1>11. SlotNext(q, s)
  BY <1>1, <1>2, <1>5, <1>6, <1>8, <1>9 DEF SlotNext, Slot
<1>12. Underway(q)' \subseteq Underway(q) \cup {NoPiece}
  <2>1. /\ Underway(q) = Range(request[q]) \cup Range(conn[q]) \cup got[q]
                        \cup Holds(q, r) \cup Holds(q, s)
        /\ Underway(q)' = Range(request'[q]) \cup Range(conn'[q]) \cup got'[q]
                         \cup HoldsNext(q, r) \cup HoldsNext(q, s)
    BY Members DEF s
  <2> QED
    BY <1>2, <1>3, <1>5, <1>6, <1>8, <1>9, <2>1 DEF Holds, HoldsNext, Slot
<1>13. \A t \in Roles : SlotNext(q, t)
  BY <1>1, <1>10, <1>11
<1>14. Len(conn'[q]) <= ConnCap /\ end'[q]["leecher"].at # "returned"
  BY <1>1, <1>2, <1>3, <1>5, <1>6, <1>8, <1>9, Capacities DEF Session
<1>15. OverNext(q)
  BY <1>1, <1>2, <1>5, <1>6, <1>8, <1>9 DEF Session, Roles, OverNext
<1> QED
  BY <1>7, <1>13, <1>14, <1>15, <1>12 DEF Good

-----------------------------------------------------------------------------
(* The invariant of the whole.                                             *)

\* Before any end has registered, all requests are in their channels.
LEMMA InitIInv == Init => IInv
<1> SUFFICES ASSUME Init PROVE IInv
  OBVIOUS
<1>1. /\ \A p \in Pairs : Requests[p] \in Nat
      /\ "leecher" \in Roles /\ "seeder" \in Roles
  BY TurnAssumption DEF Roles
<1>2. \A p \in Pairs :
        /\ request[p] \in Seq(Nat)
        /\ Range(request[p]) = Indices(p)
  <2> SUFFICES ASSUME NEW p \in Pairs
               PROVE  request[p] \in Seq(Nat) /\ Range(request[p]) = Indices(p)
    OBVIOUS
  <2>1. request[p] = [i \in 1 .. Requests[p] |-> i]
    BY DEF Init
  <2>2. [i \in 1 .. Requests[p] |-> i] \in Seq(Nat)
    BY <1>1, IsASeq
  <2>3. DOMAIN request[p] = 1 .. Requests[p] /\ \A i \in 1 .. Requests[p] : request[p][i] = i
    BY <2>1
  <2> QED
    BY <2>1, <2>2, <2>3 DEF Range, Indices
<1>3. Shapes
  <2>1. /\ At("connecting", NoPiece) \in [at : Positions, piece : Nat]
        /\ At("off", NoPiece) \in [at : RelayPositions, piece : Nat]
    BY AtType DEF Positions, RelayPositions, NoPiece
  <2>2. request \in [Pairs -> Seq(Nat)]
    BY <1>2 DEF Init
  <2> QED
    BY <2>1, <2>2, EmptyQueue DEF Init, Shapes
<1>4. ASSUME NEW p \in Pairs, NEW r \in Roles
      PROVE  /\ end[p][r].at = "connecting" /\ end[p][r].piece = NoPiece
             /\ relay[p][r].at = "off" /\ relay[p][r].piece = NoPiece
             /\ out[p][r] = <<>> /\ chan[p][r] = <<>>
  <2>1. end[p][r] = At("connecting", NoPiece) /\ relay[p][r] = At("off", NoPiece)
        /\ out[p][r] = <<>> /\ chan[p][r] = <<>>
    BY DEF Init
  <2> QED
    BY <2>1, AtFields
<1>5. ASSUME NEW p \in Pairs, NEW r \in Roles
      PROVE  Slot(end[p][r], relay[p][r], out[p][r], chan[p][r], sessions[p])
  BY <1>4, EmptyQueue, Capacities DEF Slot
<1>6. ASSUME NEW p \in Pairs PROVE Session(p)
  <2>1. Underway(p) = Indices(p) \cup {NoPiece}
    <3>1. Underway(p) = Range(request[p]) \cup Range(conn[p]) \cup got[p]
                          \cup Holds(p, "seeder") \cup Holds(p, "leecher")
      BY <1>1, Members DEF Other
    <3>2. conn[p] = <<>> /\ got[p] = {}
      BY DEF Init
    <3>3. \A r \in Roles : Holds(p, r) = {NoPiece}
      BY <1>4, EmptyQueue DEF Holds
    <3> QED
      BY <1>1, <1>2, <3>1, <3>2, <3>3, EmptyQueue
  <2>2. conn[p] = <<>>
    BY DEF Init
  <2> QED
    BY <1>1, <1>4, <2>1, <2>2, EmptyQueue, Capacities DEF Session
<1> QED
  BY <1>3, <1>5, <1>6 DEF IInv

\* Each step is good for the session it is about.
LEMMA NextIsGood == IInv /\ Next => \E q \in Pairs : Good(q)
<1> SUFFICES ASSUME IInv, Next PROVE \E q \in Pairs : Good(q)
  OBVIOUS
<1>1. PICK q \in Pairs :
        \/ \E r \in Roles : Register(q, r) \/ RelayStep(q, r) \/ BreakStep(q, r)
        \/ RegisterStep(q) \/ LeecherStep(q) \/ SeederStep(q)
        \/ LoopReceive(q) \/ LoopEnds(q) \/ LoopStalls(q)
  BY DEF Next
<1>2. "leecher" \in Roles /\ "seeder" \in Roles
  BY DEF Roles
<1>3. ASSUME NEW r \in Roles, Register(q, r) \/ Acquire(q, r) \/ Pass(q, r) PROVE Good(q)
  BY <1>3, RegisterIsGood, AcquireIsGood, PassIsGood
<1>4. ASSUME NEW r \in Roles, RelayStep(q, r) PROVE Good(q)
  BY <1>4, ReadIsGood, ReadEndsIsGood, ReadFailsIsGood, LookupIsGood, ForwardSendsIsGood,
     ForwardDropsIsGood DEF RelayStep
<1>8. ASSUME NEW r \in Roles, BreakStep(q, r) PROVE Good(q)
  BY <1>8, SendBreaksIsGood, ReceiveBreaksIsGood, RelayDroppedIsGood DEF BreakStep
<1>5. CASE LeecherStep(q)
  BY <1>2, <1>5, LeecherInboundIsGood, LeecherDeliversIsGood, LeecherDropsIsGood,
     LeecherRequestIsGood, LeecherQueuesIsGood, LeecherQueueDropsIsGood DEF LeecherStep
<1>6. CASE SeederStep(q)
  BY <1>2, <1>6, SeederInboundIsGood, SeederLacksIsGood, SeederStreamEndsIsGood,
     SeederQueuesIsGood, SeederQueueDropsIsGood DEF SeederStep
<1>7. CASE LoopReceive(q) \/ LoopEnds(q) \/ LoopStalls(q)
  BY <1>2, <1>7, LoopReceiveIsGood, LoopEndsIsGood, LoopStallsIsGood
<1> QED
  BY <1>1, <1>3, <1>4, <1>5, <1>6, <1>7, <1>8 DEF RegisterStep

\* The invariant is inductive.
LEMMA StepIInv == IInv /\ [Next]_vars => IInv'
<1> SUFFICES ASSUME IInv, [Next]_vars PROVE IInv'
  OBVIOUS
<1>1. CASE Next
  BY <1>1, NextIsGood, GoodKeeps
<1>2. CASE UNCHANGED vars
  <2>1. UNCHANGED <<end, sessions, request, broken, out, relay, chan, conn, loop, got>>
    BY <1>2 DEF vars, ends, queues, assembler
  <2>2. \A p \in Pairs : Underway(p)' = Underway(p)
    BY <2>1 DEF Underway
  <2>3. \A p \in Pairs : Session(p)'
    BY <2>1, <2>2 DEF IInv, Session, Over, Indices
  <2> QED
    BY <2>1, <2>3 DEF IInv, Shapes
<1> QED
  BY <1>1, <1>2

\* The invariant holds in every reachable state.
LEMMA Invariance == Spec => []IInv
  BY InitIInv, StepIInv, PTL DEF Spec

\* Every channel stays within its capacity, and a session never carries a piece
\* of another one.
THEOREM TypesHold == Spec => []TypeOK
<1>1. IInv => TypeOK
  BY DEF IInv, TypeOK, Session, Slot
<1> QED
  BY <1>1, Invariance, PTL

\* Neither select!, nor a full channel, nor the lock, nor another session loses a
\* request or a piece: only the end of start_seeding's task or of reassemble_loop
\* does, or a stream of the session that breaks.
THEOREM NoneIsLost == Spec => []NothingLost
<1>1. IInv => NothingLost
  BY DEF IInv, NothingLost, Session, Over
<1> QED
  BY <1>1, Invariance, PTL

\* forward never finds an empty slot: who sends has passed the barrier, so the other
\* end has registered.
THEOREM SendersHavePartners == Spec => []StreamsArePaired
<1>1. IInv => StreamsArePaired
  BY DEF IInv, StreamsArePaired, Slot
<1> QED
  BY <1>1, Invariance, PTL
=============================================================================
