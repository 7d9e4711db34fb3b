---------------------------- MODULE PartStoreProofs ----------------------------
(***************************************************************************)
(* What PartStore promises of the files on disk, for every number of       *)
(* versions and pieces, and for every bound on crashes and harms.  The     *)
(* properties of PartStore speak of the files only; that they survive a    *)
(* step depends on where the two tasks stand: what the loop has in hand,   *)
(* what it has found out before it acts on it, and what the command loop   *)
(* has taken away.  The parts of IInv say so.                              *)
(***************************************************************************)
EXTENDS PartStore, SequenceTheorems, WellFoundedInduction, TLAPS

\* The loop is in the middle of a message: what it has in hand is a piece.
Marking == loop.at = "marking" \/ (loop.at \in {"loading", "filling"} /\ loop.next = "mark")

\* The loop acts on a piece of the version that was requested.
MessageHeld ==
  /\ loop.at \notin Ended => loop.v \in Versions
  /\ loop.at \in {"loading", "filling"} => loop.next \in {"mark", "check", "build"}
  /\ loop.at = "writing" \/ Marking => loop.piece \in PiecesOf(loop.v)
  /\ loop.at \notin Ended => loop.todo \subseteq PiecesOf(loop.v)

\* A piece is written where its version has one.
PartFits == part # Absent => \A p \in Pieces : part[p] # Hole => p \in PiecesOf(part[p])

\* delete_file runs while a piece may still be written only if that is recorded.
DeleteKnown == main \in Deleting /\ Active => "deleted_under" \in history

\* write_piece_to_part has written the piece before it asks for .info.
WrittenFirst ==
  Marking => "deleted_under" \in history \/ (part # Absent /\ part[loop.piece] = loop.v)

\* .part holds pieces of one version, unless a request found others in it.
OneVersion ==
  loop.at \notin Ended =>
    \/ "other_version" \in history \/ part = Absent
    \/ \A p \in Pieces : part[p] \in {Hole, loop.v}

\* .info is empty or has a byte for each piece of the version that is requested,
\* unless a request found that of another one.
StatusFits == "other_version" \in history \/ DOMAIN info = PiecesOf(loop.v)
StatusLength ==
  loop.at \notin Ended =>
    \/ "deleted_under" \in history
    \/ info \in {Absent, <<>>} \/ (info # Absent /\ StatusFits)

\* .info is empty only while it is being made, or after a crash then.
EmptyStatus ==
  info = <<>> =>
    \/ loop.at = "filling" \/ main \in Deleting
    \/ Happened({"info_crash", "delete_crash", "deleted_under"})

\* What get_info_status has found is there when the loop acts on it.
StatusThere ==
  \/ "deleted_under" \in history
  \/ /\ loop.at = "marking" => info # Absent /\ StatusFits
     /\ loop.at \in {"loading", "filling"} /\ loop.next \in {"check", "build"} =>
          loop.at = "loading" /\ info # Absent /\ StatusFits
     /\ loop.at = "preparing" =>
          /\ info # Absent
          /\ "other_version" \in history \/ \A p \in PiecesOf(loop.v) : Marked(p)
     /\ loop.at = "filling" => info = <<>>

\* Zeros are written only into a status that marks nothing.
UnmarkedWhileFilling == loop.at = "filling" => info \in {Absent, <<>>}

\* build_file has found the file absent, and every piece received.
Checked ==
  loop.at = "installing" =>
    /\ file \in {Absent, Empty}
    /\ \/ part = Whole(loop.v) \/ Happened({"delete_crash", "deleted_under", "other_version"})

\* The command loop goes on with a file, and a cache, that it has found.
FileThere ==
  /\ main \in {"chosen", "caching start", "caching list"} => file # Absent
  /\ main \in {"caching start", "caching list"} =>
       cache # Absent /\ cache.lines < NumLines(cache.of)
  /\ main = "removing info" => cache = Absent

\* .filecache is whole, or being written, or just made by delete_file, or cut.
CacheLines ==
  cache # Absent =>
    \/ (main \in {"caching start", "caching list"} /\ cache.lines < NumLines(cache.of))
    \/ cache.lines = NumLines(cache.of)
    \/ cache.lines = 0 /\ (main \in Deleting \/ Happened({"delete_crash"}))
    \/ "cache_crash" \in history

\* An empty .filecache is met at the start, when no download runs.
CacheRead ==
  /\ main \in {"down", "broken", "starting", "caching start"} => loop.at \in Ended
  /\ cache # Absent /\ cache.lines = 0 =>
       \/ main \in {"down", "broken", "starting", "caching start", "caching list"} \cup Deleting
       \/ Happened({"delete_crash"})

\* Only delete_file leaves a .filecache without its file.
CacheOf ==
  file = Absent /\ cache # Absent => main \in Deleting \/ Happened({"delete_crash"})

\* A cut list of hashes comes from a cut .filecache.
Cut == known = "cut" => "cache_crash" \in history

IInv ==
  /\ TypeOK
  /\ MessageHeld
  /\ DeleteKnown
  /\ WrittenFirst
  /\ OneVersion
  /\ PartFits
  /\ StatusLength
  /\ EmptyStatus
  /\ StatusThere
  /\ UnmarkedWhileFilling
  /\ Checked
  /\ FileThere
  /\ CacheLines
  /\ CacheRead
  /\ CacheOf
  /\ Cut
  /\ MarkedIsWritten
  /\ InstalledIsWhole
  /\ CacheMatchesFile

\* The assumption, without the part that the arithmetic provers stumble over.
LEMMA Bounds ==
  /\ NumPieces \in Nat \ {0} /\ MaxCrashes \in Nat /\ MaxHarms \in Nat
  /\ Hole \notin Versions
BY StoreAssumption

\* A version has between one and NumPieces pieces.
LEMMA SomePieces ==
  ASSUME NEW v \in Versions
  PROVE  /\ Sizes[v] \in 1 .. NumPieces /\ PiecesOf(v) = 1 .. Sizes[v]
         /\ PiecesOf(v) \subseteq Pieces /\ PiecesOf(v) # {} /\ 0 \notin PiecesOf(v)
PROOF
<1>1. Sizes[v] \in 1 .. NumPieces /\ NumPieces \in Nat
  BY StoreAssumption DEF Pieces
<1>2. 1 \in 1 .. Sizes[v] /\ 1 .. Sizes[v] \subseteq 1 .. NumPieces
  BY <1>1
<1> QED
  BY <1>1, <1>2 DEF PiecesOf, Pieces

\* Absent is none of the things a file can hold.
LEMMA Contents ==
  /\ Empty \in Content /\ \A v \in Versions : Whole(v) \in Content
  /\ Absent \notin Content /\ Absent \notin Status /\ Absent \notin Metadata
  /\ <<>> \in Status /\ DOMAIN <<>> = {}
  /\ Pieces # {} /\ 0 \notin Pieces
PROOF
<1>1. NumPieces \in Nat \ {0}
  BY StoreAssumption
<1>2. <<>> \in [1 .. 0 -> {0, 1}]
  OBVIOUS
<1>3. <<>> \in Status
  BY <1>1, <1>2 DEF Status
<1> QED
  BY <1>1, <1>3, StoreAssumption DEF Empty, Whole, Content, Pieces

\* A status of zeros is not that of a complete file.
LEMMA ZerosLack ==
  ASSUME NEW v \in Versions
  PROVE  LET zeros == [p \in PiecesOf(v) |-> 0]
         IN  /\ zeros \in Status /\ DOMAIN zeros = PiecesOf(v)
             /\ ~HasAllPieces(zeros) /\ zeros # <<>>
             /\ \A p \in PiecesOf(v) : zeros[p] # 1
PROOF
<1>1. PICK p \in PiecesOf(v) : TRUE
  BY SomePieces
<1> DEFINE zeros == [q \in PiecesOf(v) |-> 0]
<1>2. DOMAIN zeros = PiecesOf(v) /\ \A q \in PiecesOf(v) : zeros[q] = 0
  OBVIOUS
<1>3. zeros \in Status
  <2>1. PiecesOf(v) = 1 .. Sizes[v] /\ Sizes[v] \in 0 .. NumPieces
    BY SomePieces, Bounds
  <2>2. zeros \in [1 .. Sizes[v] -> {0, 1}]
    BY <2>1
  <2> HIDE DEF zeros
  <2> QED
    BY <2>1, <2>2 DEF Status
<1> HIDE DEF zeros
<1>4. zeros[p] # 1
  BY <1>2
<1>5. ~HasAllPieces(zeros)
  BY <1>1, <1>2, <1>4 DEF HasAllPieces
<1>6. zeros # <<>>
  BY <1>1, <1>2, Contents
<1> QED
  BY <1>2, <1>3, <1>5, <1>6 DEF zeros

LEMMA LeastNumber ==
  ASSUME NEW T, T \subseteq Nat, T # {}
  PROVE  \E n \in T : n = 0 \/ n - 1 \notin T
PROOF
<1>1. PICK n \in T : \A m \in T : ~(<<m, n>> \in OpToRel(<, Nat))
  BY NatLessThanWellFounded, WFMin, Zenon
<1>2. \A m \in T : ~(m < n)
  BY <1>1, Zenon DEF OpToRel
<1> QED
  BY <1>2

\* The lines of .filecache: the header, and one for each piece up to the last.
LEMMA LinesOfContent ==
  \A content : NumLines(content) \in 1 .. 1 + NumPieces
PROOF
<1> SUFFICES ASSUME NEW content PROVE NumLines(content) \in 1 .. 1 + NumPieces
  OBVIOUS
<1> DEFINE T == {n \in 1 .. 1 + NumPieces : \A p \in n .. NumPieces : content[p] = Hole}
<1>1. 1 + NumPieces \in T /\ T \subseteq Nat
  BY Bounds
<1>2. PICK n \in T : n = 0 \/ n - 1 \notin T
  <2> HIDE DEF T
  <2> QED
    BY <1>1, LeastNumber
<1>3. n \in 1 .. 1 + NumPieces /\ \A p \in n .. NumPieces : content[p] = Hole
  OBVIOUS
<1>4. n = 1 \/ content[n - 1] # Hole
  <2> SUFFICES ASSUME n # 1, content[n - 1] = Hole PROVE FALSE
    OBVIOUS
  <2>1. n - 1 \in 1 .. 1 + NumPieces
    BY <1>3, Bounds
  <2>2. \A p \in n - 1 .. NumPieces : p = n - 1 \/ p \in n .. NumPieces
    BY <1>3, Bounds
  <2>3. n - 1 \in T
    BY <1>3, <2>1, <2>2
  <2> QED
    BY <1>2, <1>3, <2>3, Bounds
<1> QED
  BY <1>3, <1>4 DEF NumLines

\* get_temp_file makes an empty .filecache, and store_info_hash adds its lines.
LEMMA FirstLine ==
  ASSUME NEW content \in Content
  PROVE  LET new == [of |-> content, lines |-> 0]
         IN  new \in Metadata /\ new.of = content /\ new.lines = 0 /\ 0 < NumLines(content)
PROOF
<1>1. NumLines(content) \in 1 .. 1 + NumPieces /\ 0 \in 0 .. 1 + NumPieces
  BY LinesOfContent, Bounds
<1> QED
  BY <1>1, Bounds DEF Metadata

LEMMA NextLine ==
  ASSUME NEW old \in Metadata, old.lines < NumLines(old.of)
  PROVE  LET new == [old EXCEPT !.lines = @ + 1]
         IN  /\ new \in Metadata /\ new.of = old.of /\ new # Absent /\ new.lines # 0
             /\ new.lines < NumLines(old.of) \/ new.lines = NumLines(old.of)
PROOF
<1> DEFINE new == [old EXCEPT !.lines = @ + 1]
<1>1. /\ old.of \in Content /\ old.lines \in 0 .. 1 + NumPieces
      /\ new.of = old.of /\ new.lines = old.lines + 1
  BY DEF Metadata
<1>2. NumLines(old.of) \in 1 .. 1 + NumPieces
  BY LinesOfContent
<1>3. /\ old.lines + 1 \in 0 .. 1 + NumPieces
      /\ old.lines + 1 # 0
      /\ old.lines + 1 < NumLines(old.of) \/ old.lines + 1 = NumLines(old.of)
  BY <1>1, <1>2, Bounds
<1>4. new \in Metadata
  BY <1>3 DEF Metadata
<1> QED
  BY <1>1, <1>3, <1>4, Contents

LEMMA OneMore ==
  ASSUME NEW m \in Nat, NEW n \in 0 .. m, n < m
  PROVE  n + 1 \in 0 .. m
OBVIOUS

LEMMA PiecesOfStatus ==
  ASSUME NEW status \in Status
  PROVE  /\ status \in Seq({0, 1}) /\ Len(status) \in 0 .. NumPieces
         /\ DOMAIN status = 1 .. Len(status)
BY Bounds DEF Status

LEMMA SameBounds ==
  ASSUME NEW m \in Nat, NEW n \in Nat, m \in 1 .. n, n \in 1 .. m
  PROVE  n = m
OBVIOUS

\* SetByte marks one piece and forgets none.
LEMMA ByteIsSet ==
  ASSUME NEW status \in Status, NEW p \in Pieces
  PROVE  LET s == SetByte(status, p)
         IN  /\ s \in Status /\ s # <<>> /\ p \in DOMAIN s /\ s[p] = 1
             /\ DOMAIN status \subseteq DOMAIN s
             /\ \A m \in Pieces : DOMAIN status = 1 .. m /\ p \in 1 .. m => DOMAIN s = 1 .. m
             /\ \A q \in DOMAIN s : s[q] = 1 <=> q = p \/ (q \in DOMAIN status /\ status[q] = 1)
PROOF
<1> DEFINE n == IF Len(status) > p THEN Len(status) ELSE p
<1> DEFINE s == SetByte(status, p)
<1>1. NumPieces \in Nat /\ p \in 1 .. NumPieces
  BY Bounds DEF Pieces
<1>2. Len(status) \in 0 .. NumPieces /\ DOMAIN status = 1 .. Len(status)
  BY PiecesOfStatus
<1>3. n \in 1 .. NumPieces /\ n >= p /\ n >= Len(status)
  BY <1>1, <1>2
<1>4. \A i \in DOMAIN status : status[i] \in {0, 1}
  BY PiecesOfStatus, <1>2
<1>5. s = [i \in 1 .. n |-> IF i = p THEN 1 ELSE IF i <= Len(status) THEN status[i] ELSE 0]
  BY DEF SetByte
<1> HIDE DEF n, s
<1>6. s \in [1 .. n -> {0, 1}]
  BY <1>1, <1>2, <1>3, <1>4, <1>5
<1>7. s \in Status
  BY <1>3, <1>6 DEF Status
<1>8. DOMAIN s = 1 .. n /\ p \in 1 .. n /\ s[p] = 1 /\ DOMAIN status \subseteq 1 .. n
  BY <1>1, <1>2, <1>3, <1>5
<1>9. s # <<>>
  BY <1>8, Contents
<1>10. ASSUME NEW m \in Pieces, DOMAIN status = 1 .. m, p \in 1 .. m
       PROVE  DOMAIN s = 1 .. m
  <2>1. m \in 1 .. NumPieces
    BY DEF Pieces
  <2>2. m \in 1 .. Len(status)
    BY <1>2, <1>10, <2>1
  <2>3. Len(status) \in 1 .. m
    BY <1>2, <1>10, <2>1, <2>2
  <2>4. Len(status) \in Nat /\ m \in Nat
    BY <1>1, <1>2, <2>1
  <2>5. Len(status) = m
    BY <2>2, <2>3, <2>4, SameBounds
  <2> QED
    BY <1>1, <1>8, <1>10, <2>1, <2>5 DEF n
<1>11. ASSUME NEW q \in 1 .. n
       PROVE  s[q] = 1 <=> q = p \/ (q \in DOMAIN status /\ status[q] = 1)
  BY <1>1, <1>2, <1>3, <1>4, <1>5
<1> QED
  BY <1>7, <1>8, <1>9, <1>10, <1>11 DEF s

\* The way of the loop after get_info_status.
LEMMA WaysOn ==
  ASSUME NEW status \in Status, loop \in Loops, loop.at \in {"loading", "filling"},
         loop.next \in {"mark", "check", "build"}, AfterLoad(status)
  PROVE  /\ loop' \in Loops
         /\ \/ loop'.at \in {"ended", "panicked"}
            \/ /\ loop'.v = loop.v /\ loop'.todo = loop.todo
               /\ \/ /\ loop'.at = "marking" /\ loop'.next = "mark" /\ loop.next = "mark"
                     /\ loop'.piece = loop.piece /\ loop.piece \in DOMAIN status
                  \/ /\ loop'.at = "loading" /\ loop'.next = "build" /\ loop.next = "check"
                     /\ HasAllPieces(status)
                  \/ loop'.at = "receiving" /\ loop.next = "check" /\ loop'.next = "none"
                  \/ /\ loop'.at = "preparing" /\ loop.next = "build" /\ HasAllPieces(status)
         /\ loop'.at = "panicked" => loop.next = "mark" /\ loop.piece \notin DOMAIN status
PROOF
<1> USE DEF AfterLoad, LoopGoto, Loops, Ended, Idle
<1>1. CASE loop.next = "mark"
  BY <1>1
<1>2. CASE loop.next = "check" /\ HasAllPieces(status)
  BY <1>2
<1>3. CASE loop.next = "check" /\ ~HasAllPieces(status)
  BY <1>3
<1>4. CASE loop.next = "build"
  BY <1>4
<1> QED
  BY <1>1, <1>2, <1>3, <1>4

LEMMA RequestKeeps ==
  ASSUME NEW v \in Versions
  PROVE  IInv /\ Request(v) => IInv'
PROOF
<1> SUFFICES ASSUME IInv, Request(v) PROVE IInv'
  OBVIOUS
<1> USE DEF IInv, TypeOK, disk
<1>v. /\ PiecesOf(v) \subseteq Pieces /\ PiecesOf(v) = 1 .. Sizes[v]
      /\ loop' = [at |-> "receiving", next |-> "none", v |-> v, piece |-> 0,
                  todo |-> PiecesOf(v)]
      /\ history' = history \cup (IF OtherVersion(v) THEN {"other_version"} ELSE {})
      /\ UNCHANGED <<disk, known, crashes>>
  BY SomePieces DEF Request, Record
<1>1. TypeOK'
  <2>1. loop' \in Loops
    BY <1>v DEF Loops, Ended
  <2>2. history' \subseteq Harms /\ main' = "requesting"
    BY <1>v DEF Request, Harms
  <2> QED
    BY <1>v, <2>1, <2>2
<1>2. MessageHeld'
  BY <1>v DEF MessageHeld, Marking
<1>3. DeleteKnown'
  BY Contents DEF Request, Record, Idle, DeleteKnown, Active, Ended, Deleting,
     MessageHeld, Marking, Loops
<1>4. WrittenFirst'
  BY Contents DEF Request, Record, Idle, WrittenFirst, Marking, Ended, Deleting,
     MessageHeld, Active, Loops
<1>5. OneVersion'
  <2> SUFFICES ASSUME ~OtherVersion(v), part # Absent
               PROVE  \A p \in Pieces : part[p] \in {Hole, v}
    BY <1>v DEF OneVersion
  <2> QED
    BY DEF OtherVersion, Range, Content
<1>6. StatusLength'
  <2> SUFFICES ASSUME ~OtherVersion(v), info # Absent, info # <<>>
               PROVE  DOMAIN info = PiecesOf(v)
    BY <1>v DEF StatusLength, StatusFits
  <2>1. Len(info) = 0 \/ Len(info) = Sizes[v]
    BY DEF OtherVersion
  <2>2. info \in Seq({0, 1}) /\ DOMAIN info = 1 .. Len(info)
    BY PiecesOfStatus
  <2>3. Len(info) # 0
    BY <2>2, EmptySeq
  <2> QED
    BY <1>v, <2>1, <2>2, <2>3
<1>7. EmptyStatus'
  BY Contents DEF Request, Record, Idle, EmptyStatus, Happened, Ended, Deleting,
     MessageHeld, Marking, Active, Loops
<1>8. StatusThere'
  BY Contents DEF Request, Record, Idle, StatusThere, StatusFits, Marked, Ended,
     Deleting, MessageHeld, Marking, Active, Loops
<1>9. UnmarkedWhileFilling'
  BY Contents DEF Request, Record, Idle, UnmarkedWhileFilling, Ended, Deleting,
     MessageHeld, Marking, Active, Loops
<1>10. Checked'
  BY Contents DEF Request, Record, Idle, Checked, Happened, Ended, Deleting,
     MessageHeld, Marking, Active, Loops
<1>11. FileThere'
  BY Contents DEF Request, Record, Idle, FileThere, Ended, Deleting, MessageHeld,
     Marking, Active, Loops
<1>12. CacheLines'
  BY Contents DEF Request, Record, Idle, CacheLines, Happened, Ended, Deleting,
     MessageHeld, Marking, Active, Loops
<1>13. CacheRead'
  BY Contents DEF Request, Record, Idle, CacheRead, Happened, Ended, Deleting,
     MessageHeld, Marking, Active, Loops
<1>14. CacheOf'
  BY Contents DEF Request, Record, Idle, CacheOf, Happened, Ended, Deleting,
     MessageHeld, Marking, Active, Loops
<1>15. Cut'
  BY Contents DEF Request, Record, Idle, Cut, Ended, Deleting, MessageHeld, Marking,
     Active, Loops
<1>16. MarkedIsWritten'
  BY Contents DEF Request, Record, Idle, MarkedIsWritten, Happened, Marked, Ended,
     Deleting, MessageHeld, Marking, Active, Loops
<1>17. InstalledIsWhole'
  BY Contents DEF Request, Record, Idle, InstalledIsWhole, Happened, Ended,
     Deleting, MessageHeld, Marking, Active, Loops
<1>18. CacheMatchesFile'
  BY Contents DEF Request, Record, Idle, CacheMatchesFile, Happened, Ended,
     Deleting, MessageHeld, Marking, Active, Loops
<1>fits. PartFits'
  BY Contents DEF Request, PartFits
<1> QED
  BY <1>fits, <1>1, <1>2, <1>3, <1>4, <1>5, <1>6, <1>7, <1>8, <1>9, <1>10, <1>11, <1>12,
     <1>13, <1>14, <1>15, <1>16, <1>17, <1>18 DEF IInv

LEMMA RequestReturnsKeeps == IInv /\ RequestReturns => IInv'
PROOF
<1> SUFFICES ASSUME IInv, RequestReturns PROVE IInv'
  OBVIOUS
<1> USE DEF IInv, TypeOK, disk
<1>1. TypeOK'
  BY Contents DEF RequestReturns, Deleting
<1>2. DeleteKnown'
  BY Contents DEF RequestReturns, DeleteKnown, Active, Ended, Deleting, MessageHeld,
     Marking, Loops
<1>3. EmptyStatus'
  BY Contents DEF RequestReturns, EmptyStatus, Happened, Ended, Deleting,
     MessageHeld, Marking, Active, Loops
<1>4. FileThere'
  BY Contents DEF RequestReturns, FileThere, Ended, Deleting, MessageHeld, Marking,
     Active, Loops
<1>5. CacheLines'
  BY Contents DEF RequestReturns, CacheLines, Happened, Ended, Deleting,
     MessageHeld, Marking, Active, Loops
<1>6. CacheRead'
  BY Contents DEF RequestReturns, CacheRead, Happened, Ended, Deleting, MessageHeld,
     Marking, Active, Loops
<1>7. CacheOf'
  BY Contents DEF RequestReturns, CacheOf, Happened, Ended, Deleting, MessageHeld,
     Marking, Active, Loops
<1>8. MarkedIsWritten'
  BY Contents DEF RequestReturns, MarkedIsWritten, Happened, Marked, Ended,
     Deleting, MessageHeld, Marking, Active, Loops
<1>9. CacheMatchesFile'
  BY Contents DEF RequestReturns, CacheMatchesFile, Happened, Ended, Deleting,
     MessageHeld, Marking, Active, Loops
\* What the step does not touch.
<1>fits. PartFits'
  BY Contents DEF RequestReturns, PartFits
<1>10. MessageHeld' /\ WrittenFirst' /\ OneVersion' /\ StatusLength'
  BY DEF RequestReturns, MessageHeld, Marking, WrittenFirst, OneVersion,
     StatusLength, StatusFits
<1>11. StatusThere' /\ UnmarkedWhileFilling' /\ Checked' /\ Cut'
  BY DEF RequestReturns, StatusThere, StatusFits, Marked, UnmarkedWhileFilling, Checked,
     Happened, Cut
<1>12. InstalledIsWhole'
  BY DEF RequestReturns, InstalledIsWhole, Happened
<1> QED
  BY <1>fits, <1>1, <1>2, <1>3, <1>4, <1>5, <1>6, <1>7, <1>8, <1>9, <1>10, <1>11,
     <1>12 DEF IInv

LEMMA ReceiveKeeps ==
  ASSUME NEW p \in Pieces
  PROVE  IInv /\ Receive(p) => IInv'
PROOF
<1> SUFFICES ASSUME IInv, Receive(p) PROVE IInv'
  OBVIOUS
<1> USE DEF IInv, TypeOK, disk
<1>1. TypeOK'
  BY Contents DEF Receive, Ended, Deleting, MessageHeld, Marking, Active, Loops,
     Harms
<1>2. MessageHeld'
  BY Contents DEF Receive, MessageHeld, Marking, Ended, Deleting, Loops
<1>3. DeleteKnown'
  BY Contents DEF Receive, DeleteKnown, Active, Ended, Deleting, MessageHeld,
     Marking, Loops
<1>4. WrittenFirst'
  BY Contents DEF Receive, WrittenFirst, Marking, Ended, Deleting, MessageHeld,
     Active, Loops
<1>5. OneVersion'
  BY Contents DEF Receive, OneVersion, Ended, Deleting, MessageHeld, Marking,
     Active, Loops
<1>6. EmptyStatus'
  BY Contents DEF Receive, EmptyStatus, Happened, Ended, Deleting, MessageHeld,
     Marking, Active, Loops
<1>7. StatusThere'
  BY Contents DEF Receive, StatusThere, StatusFits, Marked, Ended, Deleting,
     MessageHeld, Marking, Active, Loops
<1>8. UnmarkedWhileFilling'
  BY Contents DEF Receive, UnmarkedWhileFilling, Ended, Deleting, MessageHeld,
     Marking, Active, Loops
<1>9. Checked'
  BY Contents DEF Receive, Checked, Happened, Ended, Deleting, MessageHeld, Marking,
     Active, Loops
<1>10. CacheRead'
  BY Contents DEF Receive, CacheRead, Happened, Ended, Deleting, MessageHeld,
     Marking, Active, Loops
<1>len. StatusLength'
  BY Contents DEF Receive, StatusLength, StatusFits, Ended, MessageHeld, Marking,
     Loops, LoopGoto, Idle
\* What the step does not touch.
<1>fits. PartFits'
  BY Contents DEF Receive, PartFits
<1>11. FileThere' /\ CacheLines' /\ CacheOf'
  BY DEF Receive, FileThere, CacheLines, Happened, CacheOf
<1>12. Cut' /\ MarkedIsWritten' /\ InstalledIsWhole' /\ CacheMatchesFile'
  BY DEF Receive, Cut, MarkedIsWritten, Happened, Marked, InstalledIsWhole,
     CacheMatchesFile
<1> QED
  BY <1>fits, <1>len, <1>1, <1>2, <1>3, <1>4, <1>5, <1>6, <1>7, <1>8, <1>9, <1>10,
     <1>11, <1>12 DEF IInv

LEMMA WritePartKeeps == IInv /\ WritePart => IInv'
PROOF
<1> SUFFICES ASSUME IInv, WritePart PROVE IInv'
  OBVIOUS
<1> USE DEF IInv, TypeOK, disk
<1>h. loop.piece \in PiecesOf(loop.v) /\ loop.piece \in Pieces /\ loop.v \in Versions
  BY SomePieces DEF WritePart, MessageHeld, Ended
<1> DEFINE old == IF part = Absent THEN Empty ELSE part
<1>o. old \in Content /\ (part = Absent => \A p \in Pieces : old[p] = Hole)
  BY Contents DEF Empty
<1>w. /\ part' \in Content /\ part' # Absent /\ part'[loop.piece] = loop.v
      /\ \A p \in Pieces : p # loop.piece => part'[p] = IF part = Absent THEN Hole ELSE part[p]
  <2>1. part' = [old EXCEPT ![loop.piece] = loop.v]
    BY DEF WritePart
  <2> QED
    <3>1. part # Absent => old = part
      OBVIOUS
    <3> HIDE DEF old
    <3>2. /\ part' \in Content /\ part'[loop.piece] = loop.v
          /\ \A q \in Pieces : q # loop.piece => part'[q] = old[q]
      BY <1>h, <1>o, <2>1 DEF Content
    <3> QED
      BY <1>o, <3>1, <3>2, Contents
<1>u. /\ loop.at = "writing" /\ loop' = [loop EXCEPT !.at = "loading", !.next = "mark"]
      /\ UNCHANGED <<file, info, cache, known, main, crashes, history>>
  BY DEF WritePart
<1>n. Hole \notin Versions
  BY Bounds
<1>1. TypeOK'
  BY <1>h, <1>w, <1>u, <1>n, Contents DEF Ended, Loops, Deleting
<1>2. MessageHeld'
  BY <1>h, <1>w, <1>u, <1>n, Contents DEF MessageHeld, Marking, Ended, Deleting,
     Loops
<1>3. DeleteKnown'
  BY <1>h, <1>w, <1>u, <1>n, Contents DEF DeleteKnown, Active, Ended, Deleting,
     Loops
<1>4. WrittenFirst'
  BY <1>h, <1>w, <1>u, <1>n, Contents DEF WrittenFirst, Marking, Ended, Deleting,
     Loops
<1>5. OneVersion'
  BY <1>h, <1>w, <1>u, <1>n, Contents DEF OneVersion, Ended, Deleting, Loops
<1>6. EmptyStatus'
  BY <1>h, <1>w, <1>u, <1>n, Contents DEF EmptyStatus, Happened, Ended, Deleting,
     Loops
<1>7. StatusThere'
  BY <1>h, <1>w, <1>u, <1>n, Contents DEF StatusThere, StatusFits, Marked, Ended,
     Deleting, Loops
<1>8. UnmarkedWhileFilling'
  BY <1>h, <1>w, <1>u, <1>n, Contents DEF UnmarkedWhileFilling, Ended, Deleting,
     Loops
<1>9. Checked'
  BY <1>h, <1>w, <1>u, <1>n, Contents DEF Checked, Happened, Ended, Deleting, Loops
<1>10. CacheRead'
  BY <1>h, <1>w, <1>u, <1>n, Contents DEF CacheRead, Happened, Ended, Deleting,
     Loops
<1>11. MarkedIsWritten'
  BY <1>h, <1>w, <1>u, <1>n, Contents DEF MarkedIsWritten, Happened, Marked, Ended,
     Deleting, Loops
<1>len. StatusLength'
  BY Contents DEF WritePart, StatusLength, StatusFits, Ended, MessageHeld, Marking,
     Loops, LoopGoto, Idle
\* What the step does not touch.
<1>12. FileThere' /\ CacheLines' /\ CacheOf'
  BY DEF WritePart, FileThere, CacheLines, Happened, CacheOf
<1>13. Cut' /\ InstalledIsWhole' /\ CacheMatchesFile'
  BY DEF WritePart, Cut, InstalledIsWhole, Happened, CacheMatchesFile
<1>fits. PartFits'
  BY <1>h, <1>w DEF PartFits
<1> QED
  BY <1>fits, <1>len, <1>1, <1>2, <1>3, <1>4, <1>5, <1>6, <1>7, <1>8, <1>9, <1>10,
     <1>11, <1>12, <1>13 DEF IInv

LEMMA LoadNewKeeps == IInv /\ LoadNew => IInv'
PROOF
<1> SUFFICES ASSUME IInv, LoadNew PROVE IInv'
  OBVIOUS
<1> USE DEF IInv, TypeOK, disk
<1>1. TypeOK'
  BY Contents DEF LoadNew, LoopGoto, Ended, Deleting, MessageHeld, Marking, Active,
     Loops, Harms
<1>2. MessageHeld'
  BY Contents DEF LoadNew, LoopGoto, MessageHeld, Marking, Ended, Deleting, Loops
<1>3. DeleteKnown'
  BY Contents DEF LoadNew, LoopGoto, DeleteKnown, Active, Ended, Deleting,
     MessageHeld, Marking, Loops
<1>4. WrittenFirst'
  BY Contents DEF LoadNew, LoopGoto, WrittenFirst, Marking, Ended, Deleting,
     MessageHeld, Active, Loops
<1>5. OneVersion'
  BY Contents DEF LoadNew, LoopGoto, OneVersion, Ended, Deleting, MessageHeld,
     Marking, Active, Loops
<1>6. StatusLength'
  BY Contents DEF LoadNew, LoopGoto, StatusLength, StatusFits, Ended, Deleting,
     MessageHeld, Marking, Active, Loops
<1>7. EmptyStatus'
  BY Contents DEF LoadNew, LoopGoto, EmptyStatus, Happened, Ended, Deleting,
     MessageHeld, Marking, Active, Loops
<1>8. StatusThere'
  BY Contents DEF LoadNew, LoopGoto, StatusThere, StatusFits, Marked, Ended, Deleting,
     MessageHeld, Marking, Active, Loops
<1>9. UnmarkedWhileFilling'
  BY Contents DEF LoadNew, LoopGoto, UnmarkedWhileFilling, Ended, Deleting,
     MessageHeld, Marking, Active, Loops
<1>10. Checked'
  BY Contents DEF LoadNew, LoopGoto, Checked, Happened, Ended, Deleting,
     MessageHeld, Marking, Active, Loops
<1>11. CacheRead'
  BY Contents DEF LoadNew, LoopGoto, CacheRead, Happened, Ended, Deleting,
     MessageHeld, Marking, Active, Loops
<1>12. MarkedIsWritten'
  BY Contents DEF LoadNew, LoopGoto, MarkedIsWritten, Happened, Marked, Ended,
     Deleting, MessageHeld, Marking, Active, Loops
\* What the step does not touch.
<1>fits. PartFits'
  BY Contents DEF LoadNew, PartFits
<1>13. FileThere' /\ CacheLines' /\ CacheOf' /\ Cut'
  BY DEF LoadNew, LoopGoto, FileThere, CacheLines, Happened, CacheOf, Cut
<1>14. InstalledIsWhole' /\ CacheMatchesFile'
  BY DEF LoadNew, LoopGoto, InstalledIsWhole, Happened, CacheMatchesFile
<1> QED
  BY <1>fits, <1>1, <1>2, <1>3, <1>4, <1>5, <1>6, <1>7, <1>8, <1>9, <1>10, <1>11, <1>12,
     <1>13, <1>14 DEF IInv

LEMMA LoadOldKeeps == IInv /\ LoadOld => IInv'
PROOF
<1> SUFFICES ASSUME IInv, LoadOld PROVE IInv'
  OBVIOUS
<1> USE DEF IInv, TypeOK, disk
<1>0. /\ loop.at \in {"loading", "filling"} /\ loop.next \in {"mark", "check", "build"}
      /\ loop' \in Loops /\ (loop.next = "mark" => loop.piece \in PiecesOf(loop.v))
      /\ loop.v \in Versions
  BY WaysOn DEF LoadOld, MessageHeld, Marking, Ended
<1>w. \/ loop'.at \in {"ended", "panicked"}
      \/ /\ loop'.v = loop.v /\ loop'.todo = loop.todo
         /\ \/ /\ loop'.at = "marking" /\ loop'.next = "mark" /\ loop.next = "mark"
               /\ loop'.piece = loop.piece /\ loop.piece \in DOMAIN info
            \/ /\ loop'.at = "loading" /\ loop'.next = "build" /\ loop.next = "check"
               /\ HasAllPieces(info)
            \/ loop'.at = "receiving" /\ loop.next = "check" /\ loop'.next = "none"
            \/ loop'.at = "preparing" /\ loop.next = "build" /\ HasAllPieces(info)
  BY <1>0, WaysOn DEF LoadOld
<1>u. loop.at = "loading" /\ info # Absent /\ UNCHANGED <<disk, known, main, crashes, history>>
  BY DEF LoadOld
<1>1. TypeOK'
  BY <1>0, <1>w, <1>u, Contents DEF Ended, Loops, Deleting
<1>2. MessageHeld'
  BY <1>0, <1>w, <1>u, Contents DEF MessageHeld, Marking, Ended, Deleting, Loops
<1>3. DeleteKnown'
  BY <1>0, <1>w, <1>u, Contents DEF DeleteKnown, Active, Ended, Deleting, Loops
<1>4. WrittenFirst'
  BY <1>0, <1>w, <1>u, Contents DEF WrittenFirst, Marking, Ended, Deleting, Loops
<1>5. OneVersion'
  BY <1>0, <1>w, <1>u, Contents DEF OneVersion, Ended, Deleting, Loops
<1>6. EmptyStatus'
  BY <1>0, <1>w, <1>u, Contents DEF EmptyStatus, Happened, Ended, Deleting, Loops
<1>7. StatusThere'
  <2>1. CASE "deleted_under" \in history
    BY <1>u, <2>1 DEF StatusThere, StatusFits
  <2>2. CASE "deleted_under" \notin history /\ loop.next = "mark"
    <3>1. info = <<>> \/ StatusFits
      BY <1>u, <2>2 DEF StatusLength, Ended
    <3>2. loop'.at = "marking" => info # <<>>
      BY <1>w, Contents
    <3> QED
      BY <1>w, <1>u, <2>2, <3>1, <3>2 DEF StatusThere, StatusFits
  <2>3. CASE "deleted_under" \notin history /\ loop.next \in {"check", "build"}
    <3>1. info # Absent /\ StatusFits
      BY <1>0, <2>3 DEF StatusThere
    <3>2. HasAllPieces(info) =>
            "other_version" \in history \/ \A p \in PiecesOf(loop.v) : Marked(p)
      BY <3>1 DEF HasAllPieces, Marked, StatusFits
    <3>3. \A p : Marked(p) => Marked(p)'
      BY <1>u DEF Marked
    <3> QED
      BY <1>w, <1>u, <2>3, <3>1, <3>2, <3>3 DEF StatusThere, StatusFits
  <2> QED
    BY <1>0, <2>1, <2>2, <2>3
<1>8. UnmarkedWhileFilling'
  BY <1>0, <1>w, <1>u, Contents DEF UnmarkedWhileFilling, Ended, Deleting, Loops
<1>9. Checked'
  BY <1>0, <1>w, <1>u, Contents DEF Checked, Happened, Ended, Deleting, Loops
<1>10. CacheRead'
  BY <1>0, <1>w, <1>u, Contents DEF CacheRead, Happened, Ended, Deleting, Loops
<1>len. StatusLength'
  BY <1>w, <1>u DEF StatusLength, StatusFits, Ended
\* What the step does not touch.
<1>fits. PartFits'
  BY Contents DEF LoadOld, PartFits
<1>11. FileThere' /\ CacheLines' /\ CacheOf'
  BY DEF LoadOld, FileThere, CacheLines, Happened, CacheOf
<1>12. Cut' /\ MarkedIsWritten' /\ InstalledIsWhole' /\ CacheMatchesFile'
  BY DEF LoadOld, Cut, MarkedIsWritten, Happened, Marked, InstalledIsWhole,
     CacheMatchesFile
<1> QED
  BY <1>fits, <1>len, <1>1, <1>2, <1>3, <1>4, <1>5, <1>6, <1>7, <1>8, <1>9, <1>10,
     <1>11, <1>12 DEF IInv

LEMMA FillKeeps == IInv /\ Fill => IInv'
PROOF
<1> SUFFICES ASSUME IInv, Fill PROVE IInv'
  OBVIOUS
<1> USE DEF IInv, TypeOK, disk
<1> DEFINE zeros == [p \in PiecesOf(loop.v) |-> 0]
<1>v. loop.v \in Versions
  BY DEF Fill, MessageHeld, Ended
<1>z. /\ zeros \in Status /\ DOMAIN zeros = PiecesOf(loop.v)
      /\ ~HasAllPieces(zeros) /\ zeros # <<>>
      /\ \A p \in PiecesOf(loop.v) : zeros[p] # 1
  BY <1>v, ZerosLack
<1>u. /\ loop.at = "filling" /\ info' = (IF info = Absent THEN Absent ELSE zeros)
      /\ UNCHANGED <<file, part, cache, known, main, crashes, history>>
      /\ AfterLoad(zeros)
  BY DEF Fill
<1> HIDE DEF zeros
<1>0. /\ loop.at \in {"loading", "filling"} /\ loop.next \in {"mark", "check", "build"}
      /\ loop' \in Loops /\ (loop.next = "mark" => loop.piece \in PiecesOf(loop.v))
      /\ loop.v \in Versions
  BY <1>z, <1>u, WaysOn DEF MessageHeld, Marking, Ended
<1>w. \/ loop'.at \in {"ended", "panicked"}
      \/ /\ loop'.v = loop.v /\ loop'.todo = loop.todo
         /\ \/ /\ loop'.at = "marking" /\ loop'.next = "mark" /\ loop.next = "mark"
               /\ loop'.piece = loop.piece /\ loop.piece \in DOMAIN zeros
            \/ /\ loop'.at = "loading" /\ loop'.next = "build" /\ loop.next = "check"
               /\ HasAllPieces(zeros)
            \/ loop'.at = "receiving" /\ loop.next = "check" /\ loop'.next = "none"
            \/ loop'.at = "preparing" /\ loop.next = "build" /\ HasAllPieces(zeros)
  BY <1>z, <1>u, <1>0, WaysOn
<1>1. TypeOK'
  BY <1>0, <1>w, <1>u, <1>z, Contents DEF Ended, Loops, Deleting
<1>2. MessageHeld'
  BY <1>0, <1>w, <1>u, <1>z, Contents DEF MessageHeld, Marking, Ended, Deleting,
     Loops
<1>3. DeleteKnown'
  BY <1>0, <1>w, <1>u, <1>z, Contents DEF DeleteKnown, Active, Ended, Deleting,
     Loops
<1>4. WrittenFirst'
  BY <1>0, <1>w, <1>u, <1>z, Contents DEF WrittenFirst, Marking, Ended, Deleting,
     Loops
<1>5. OneVersion'
  BY <1>0, <1>w, <1>u, <1>z, Contents DEF OneVersion, Ended, Deleting, Loops
<1>6. StatusLength'
  BY <1>0, <1>w, <1>u, <1>z, Contents DEF StatusLength, StatusFits, Ended, Deleting,
     Loops
<1>7. EmptyStatus'
  BY <1>0, <1>w, <1>u, <1>z, Contents DEF EmptyStatus, Happened, Ended, Deleting,
     Loops, UnmarkedWhileFilling
<1>8. StatusThere'
  BY <1>0, <1>w, <1>u, <1>z, Contents DEF StatusThere, StatusFits, Marked, Ended,
     Deleting, Loops, HasAllPieces
<1>9. UnmarkedWhileFilling'
  BY <1>0, <1>w, <1>u, <1>z, Contents DEF UnmarkedWhileFilling, Ended, Deleting,
     Loops
<1>10. Checked'
  BY <1>0, <1>w, <1>u, <1>z, Contents DEF Checked, Happened, Ended, Deleting, Loops
<1>11. CacheRead'
  BY <1>0, <1>w, <1>u, <1>z, Contents DEF CacheRead, Happened, Ended, Deleting,
     Loops
<1>12. MarkedIsWritten'
  <2>1. \A p \in Pieces : ~Marked(p)'
    <3>1. info' = Absent \/ info' = zeros
      BY <1>u
    <3> SUFFICES ASSUME NEW p \in DOMAIN info', info' # Absent, info'[p] = 1
                 PROVE  FALSE
      BY DEF Marked
    <3> QED
      BY <1>z, <3>1
  <2> QED
    BY <2>1 DEF MarkedIsWritten
\* What the step does not touch.
<1>fits. PartFits'
  BY Contents DEF Fill, PartFits
<1>13. FileThere' /\ CacheLines' /\ CacheOf' /\ Cut'
  BY DEF Fill, FileThere, CacheLines, Happened, CacheOf, Cut
<1>14. InstalledIsWhole' /\ CacheMatchesFile'
  BY DEF Fill, InstalledIsWhole, Happened, CacheMatchesFile
<1> QED
  BY <1>fits, <1>1, <1>2, <1>3, <1>4, <1>5, <1>6, <1>7, <1>8, <1>9, <1>10, <1>11, <1>12,
     <1>13, <1>14 DEF IInv

LEMMA MarkKeeps == IInv /\ Mark => IInv'
PROOF
<1> SUFFICES ASSUME IInv, Mark PROVE IInv'
  OBVIOUS
<1> USE DEF IInv, TypeOK, disk
<1>h. loop.piece \in PiecesOf(loop.v) /\ loop.piece \in Pieces /\ loop.v \in Versions
  BY SomePieces DEF Mark, MessageHeld, Marking, Ended
<1> DEFINE old == IF info = Absent THEN <<>> ELSE info
<1>o. old \in Status /\ (info = Absent => DOMAIN old = {})
  BY Contents
<1>w. /\ info' \in Status /\ info' # Absent /\ info' # <<>>
      /\ loop.piece \in DOMAIN info' /\ info'[loop.piece] = 1
      /\ info # Absent /\ DOMAIN info = PiecesOf(loop.v) => DOMAIN info' = PiecesOf(loop.v)
      /\ \A p \in DOMAIN info' :
           info'[p] = 1 => p = loop.piece \/ (info # Absent /\ p \in DOMAIN info /\ info[p] = 1)
  <2>1. info' = SetByte(old, loop.piece)
    BY DEF Mark
  <2> QED
    <3> DEFINE new == SetByte(old, loop.piece)
    <3>1. /\ new \in Status /\ new # <<>> /\ loop.piece \in DOMAIN new /\ new[loop.piece] = 1
          /\ DOMAIN old = PiecesOf(loop.v) => DOMAIN new = PiecesOf(loop.v)
          /\ \A p \in DOMAIN new :
               new[p] = 1 => p = loop.piece \/ (p \in DOMAIN old /\ old[p] = 1)
      <4> HIDE DEF old
      <4>1. Sizes[loop.v] \in Pieces /\ PiecesOf(loop.v) = 1 .. Sizes[loop.v]
        BY <1>h, SomePieces DEF Pieces
      <4>2. /\ SetByte(old, loop.piece) \in Status /\ SetByte(old, loop.piece) # <<>>
            /\ loop.piece \in DOMAIN SetByte(old, loop.piece)
            /\ SetByte(old, loop.piece)[loop.piece] = 1
            /\ \A m \in Pieces : DOMAIN old = 1 .. m /\ loop.piece \in 1 .. m =>
                 DOMAIN SetByte(old, loop.piece) = 1 .. m
            /\ \A p \in DOMAIN SetByte(old, loop.piece) :
                 SetByte(old, loop.piece)[p] = 1 =>
                   p = loop.piece \/ (p \in DOMAIN old /\ old[p] = 1)
        BY <1>h, <1>o, ByteIsSet
      <4> QED
        BY <1>h, <4>1, <4>2
    <3>2. info' = new /\ (info # Absent => old = info)
      BY <2>1
    <3> HIDE DEF old, new
    <3> QED
      BY <1>o, <3>1, <3>2, Contents
<1>u. /\ loop.at = "marking" /\ loop' = [loop EXCEPT !.at = "loading", !.next = "check"]
      /\ UNCHANGED <<file, part, cache, known, main, crashes, history>>
  BY DEF Mark
<1>n. Hole \notin Versions
  BY Bounds
<1>1. TypeOK'
  BY <1>h, <1>w, <1>u, <1>n, Contents DEF Ended, Loops, Deleting
<1>2. MessageHeld'
  BY <1>h, <1>w, <1>u, <1>n, Contents DEF MessageHeld, Marking, Ended, Deleting,
     Loops
<1>3. DeleteKnown'
  BY <1>h, <1>w, <1>u, <1>n, Contents DEF DeleteKnown, Active, Ended, Deleting,
     Loops
<1>4. WrittenFirst'
  BY <1>h, <1>w, <1>u, <1>n, Contents DEF WrittenFirst, Marking, Ended, Deleting,
     Loops
<1>5. OneVersion'
  BY <1>h, <1>w, <1>u, <1>n, Contents DEF OneVersion, Ended, Deleting, Loops
<1>6. StatusLength'
  BY <1>h, <1>w, <1>u, <1>n, Contents DEF StatusLength, StatusFits, Ended, Deleting,
     Loops, StatusThere
<1>7. EmptyStatus'
  BY <1>h, <1>w, <1>u, <1>n, Contents DEF EmptyStatus, Happened, Ended, Deleting,
     Loops
<1>8. StatusThere'
  BY <1>h, <1>w, <1>u, <1>n, Contents DEF StatusThere, StatusFits, Marked, Ended,
     Deleting, Loops
<1>9. UnmarkedWhileFilling'
  BY <1>h, <1>w, <1>u, <1>n, Contents DEF UnmarkedWhileFilling, Ended, Deleting,
     Loops
<1>10. Checked'
  BY <1>h, <1>w, <1>u, <1>n, Contents DEF Checked, Happened, Ended, Deleting, Loops
<1>11. CacheRead'
  BY <1>h, <1>w, <1>u, <1>n, Contents DEF CacheRead, Happened, Ended, Deleting,
     Loops
<1>12. MarkedIsWritten'
  BY <1>h, <1>w, <1>u, <1>n, Contents DEF MarkedIsWritten, Happened, Marked, Ended,
     Deleting, Loops, WrittenFirst, Marking
\* What the step does not touch.
<1>fits. PartFits'
  BY Contents DEF Mark, PartFits
<1>13. FileThere' /\ CacheLines' /\ CacheOf' /\ Cut'
  BY DEF Mark, FileThere, CacheLines, Happened, CacheOf, Cut
<1>14. InstalledIsWhole' /\ CacheMatchesFile'
  BY DEF Mark, InstalledIsWhole, Happened, CacheMatchesFile
<1> QED
  BY <1>fits, <1>1, <1>2, <1>3, <1>4, <1>5, <1>6, <1>7, <1>8, <1>9, <1>10, <1>11, <1>12,
     <1>13, <1>14 DEF IInv

LEMMA PrepareKeeps == IInv /\ Prepare => IInv'
PROOF
<1> SUFFICES ASSUME IInv, Prepare PROVE IInv'
  OBVIOUS
<1> USE DEF IInv, TypeOK, disk
<1>v. loop.v \in Versions /\ loop.at = "preparing" /\ PiecesOf(loop.v) \subseteq Pieces
  BY SomePieces DEF Prepare, MessageHeld, Ended
<1>a. \/ Happened({"deleted_under", "other_version"})
      \/ \A p \in PiecesOf(loop.v) : Marked(p)
  BY <1>v DEF StatusThere, Happened
<1>b. \/ Happened({"delete_crash", "deleted_under", "other_version"})
      \/ file # Absent \/ (part # Absent /\ part = Whole(loop.v))
  <2> SUFFICES ASSUME ~Happened({"delete_crash", "deleted_under", "other_version"}), file = Absent
               PROVE  part # Absent /\ part = Whole(loop.v)
    OBVIOUS
  <2>1. Active /\ main \notin Deleting
    BY <1>v DEF Active, Ended, DeleteKnown, Happened
  <2>2. PICK p \in PiecesOf(loop.v) : TRUE
    BY <1>v, SomePieces
  <2>3. \A q \in PiecesOf(loop.v) : part # Absent /\ part[q] # Hole
    BY <1>v, <1>a, <2>1 DEF MarkedIsWritten, Happened
  <2>4. part # Absent
    BY <2>2, <2>3
  <2>5. \A q \in Pieces : part[q] \in {Hole, loop.v}
    BY <1>v, <2>4 DEF OneVersion, Happened, Ended
  <2>6. \A q \in Pieces : part[q] = IF q \in PiecesOf(loop.v) THEN loop.v ELSE Hole
    BY <2>3, <2>4, <2>5, Bounds, <1>v DEF PartFits
  <2> QED
    BY <2>4, <2>6 DEF Content, Whole
<1>c. "deleted_under" \in history \/ info # Absent
  BY <1>v DEF StatusThere
<1>1. TypeOK'
  <2>1. loop' \in Loops
    BY DEF Prepare, LoopGoto, Idle, Loops, Ended
  <2> QED
    BY <2>1, Contents DEF Prepare
<1>2. MessageHeld'
  BY <1>a, <1>b, <1>c, Contents DEF Prepare, LoopGoto, Idle, MessageHeld, Marking,
     Ended, Deleting, Loops
<1>3. DeleteKnown'
  BY <1>a, <1>b, <1>c, Contents DEF Prepare, LoopGoto, Idle, DeleteKnown, Active,
     Ended, Deleting, MessageHeld, Marking, Loops
<1>4. WrittenFirst'
  BY <1>a, <1>b, <1>c, Contents DEF Prepare, LoopGoto, Idle, WrittenFirst, Marking,
     Ended, Deleting, MessageHeld, Active, Loops
<1>5. OneVersion'
  BY <1>a, <1>b, <1>c, Contents DEF Prepare, LoopGoto, Idle, OneVersion, Ended,
     Deleting, MessageHeld, Marking, Active, Loops, Empty
<1>6. StatusLength'
  BY <1>a, <1>b, <1>c, Contents DEF Prepare, LoopGoto, Idle, StatusLength, StatusFits,
     Ended, Deleting, MessageHeld, Marking, Active, Loops, StatusThere
<1>7. EmptyStatus'
  BY <1>a, <1>b, <1>c, Contents DEF Prepare, LoopGoto, Idle, EmptyStatus, Happened,
     Ended, Deleting, MessageHeld, Marking, Active, Loops, StatusThere, StatusFits
<1>8. StatusThere'
  BY <1>a, <1>b, <1>c, Contents DEF Prepare, LoopGoto, Idle, StatusThere, StatusFits,
     Marked, Ended, Deleting, MessageHeld, Marking, Active, Loops
<1>9. UnmarkedWhileFilling'
  BY <1>a, <1>b, <1>c, Contents DEF Prepare, LoopGoto, Idle, UnmarkedWhileFilling,
     Ended, Deleting, MessageHeld, Marking, Active, Loops
<1>10. Checked'
  BY <1>a, <1>b, <1>c, Contents DEF Prepare, LoopGoto, Idle, Checked, Happened,
     Ended, Deleting, MessageHeld, Marking, Active, Loops
<1>11. CacheRead'
  BY <1>a, <1>b, <1>c, Contents DEF Prepare, LoopGoto, Idle, CacheRead, Happened,
     Ended, Deleting, MessageHeld, Marking, Active, Loops
<1>12. MarkedIsWritten'
  BY <1>a, <1>b, <1>c, Contents DEF Prepare, LoopGoto, Idle, MarkedIsWritten,
     Happened, Marked, Ended, Deleting, MessageHeld, Marking, Active, Loops, Empty
\* What the step does not touch.
<1>13. FileThere' /\ CacheLines' /\ CacheOf' /\ Cut'
  BY DEF Prepare, LoopGoto, Idle, FileThere, CacheLines, Happened, CacheOf, Cut
<1>14. InstalledIsWhole' /\ CacheMatchesFile'
  BY DEF Prepare, LoopGoto, Idle, InstalledIsWhole, Happened, CacheMatchesFile
<1>fits. PartFits'
  BY Contents DEF Prepare, PartFits, Empty
<1> QED
  BY <1>fits, <1>1, <1>2, <1>3, <1>4, <1>5, <1>6, <1>7, <1>8, <1>9, <1>10, <1>11, <1>12,
     <1>13, <1>14 DEF IInv

LEMMA InstallKeeps == IInv /\ Install => IInv'
PROOF
<1> SUFFICES ASSUME IInv, Install PROVE IInv'
  OBVIOUS
<1> USE DEF IInv, TypeOK, disk
<1>1. TypeOK'
  <2>1. loop \in Loops /\ loop.at = "installing"
    BY DEF Install
  <2>2. loop' \in Loops
    BY <2>1 DEF Install, LoopGoto, Idle, Loops, Ended
  <2>3. file' \in Content \cup {Absent} /\ part' \in Content \cup {Absent}
    BY DEF Install
  <2>4. history' \subseteq Harms
    BY DEF Install, Harms
  <2> QED
    BY <2>2, <2>3, <2>4 DEF Install
<1>2. MessageHeld'
  BY Contents DEF Install, LoopGoto, Idle, MessageHeld, Marking, Ended, Deleting,
     Loops
<1>3. DeleteKnown'
  BY Contents DEF Install, LoopGoto, Idle, DeleteKnown, Active, Ended, Deleting,
     MessageHeld, Marking, Loops
<1>4. WrittenFirst'
  BY Contents DEF Install, LoopGoto, Idle, WrittenFirst, Marking, Ended, Deleting,
     MessageHeld, Active, Loops
<1>5. OneVersion'
  BY Contents DEF Install, LoopGoto, Idle, OneVersion, Ended, Deleting, MessageHeld,
     Marking, Active, Loops
<1>6. StatusLength'
  BY Contents DEF Install, LoopGoto, Idle, StatusLength, StatusFits, Ended, Deleting,
     MessageHeld, Marking, Active, Loops
<1>7. EmptyStatus'
  BY Contents DEF Install, LoopGoto, Idle, EmptyStatus, Happened, Ended, Deleting,
     MessageHeld, Marking, Active, Loops
<1>8. StatusThere'
  BY Contents DEF Install, LoopGoto, Idle, StatusThere, StatusFits, Marked, Ended,
     Deleting, MessageHeld, Marking, Active, Loops
<1>9. UnmarkedWhileFilling'
  BY Contents DEF Install, LoopGoto, Idle, UnmarkedWhileFilling, Ended, Deleting,
     MessageHeld, Marking, Active, Loops
<1>10. Checked'
  BY Contents DEF Install, LoopGoto, Idle, Checked, Happened, Ended, Deleting,
     MessageHeld, Marking, Active, Loops
<1>11. FileThere'
  BY Contents DEF Install, LoopGoto, Idle, FileThere, Ended, Deleting, MessageHeld,
     Marking, Active, Loops
<1>12. CacheLines'
  BY Contents DEF Install, LoopGoto, Idle, CacheLines, Happened, Ended, Deleting,
     MessageHeld, Marking, Active, Loops
<1>13. CacheRead'
  BY Contents DEF Install, LoopGoto, Idle, CacheRead, Happened, Ended, Deleting,
     MessageHeld, Marking, Active, Loops
<1>14. CacheOf'
  BY Contents DEF Install, LoopGoto, Idle, CacheOf, Happened, Ended, Deleting,
     MessageHeld, Marking, Active, Loops
<1>15. Cut'
  BY Contents DEF Install, LoopGoto, Idle, Cut, Ended, Deleting, MessageHeld,
     Marking, Active, Loops
<1>16. MarkedIsWritten'
  BY Contents DEF Install, LoopGoto, Idle, MarkedIsWritten, Happened, Marked, Ended,
     Deleting, MessageHeld, Marking, Active, Loops
<1>17. InstalledIsWhole'
  BY Contents DEF Install, LoopGoto, Idle, InstalledIsWhole, Happened, Ended,
     Deleting, MessageHeld, Marking, Active, Loops, Checked
<1>18. CacheMatchesFile'
  BY Contents DEF Install, LoopGoto, Idle, CacheMatchesFile, Happened, Ended,
     Deleting, MessageHeld, Marking, Active, Loops, CacheOf, Checked
<1>fits. PartFits'
  BY Contents DEF Install, PartFits
<1> QED
  BY <1>fits, <1>1, <1>2, <1>3, <1>4, <1>5, <1>6, <1>7, <1>8, <1>9, <1>10, <1>11, <1>12,
     <1>13, <1>14, <1>15, <1>16, <1>17, <1>18 DEF IInv

LEMMA RemoveInfoKeeps == IInv /\ RemoveInfo => IInv'
PROOF
<1> SUFFICES ASSUME IInv, RemoveInfo PROVE IInv'
  OBVIOUS
<1> USE DEF IInv, TypeOK, disk
<1>1. TypeOK'
  <2>1. loop' \in Loops
    BY DEF RemoveInfo, LoopGoto, Idle, Loops, Ended
  <2> QED
    BY <2>1 DEF RemoveInfo
<1>2. MessageHeld'
  BY Contents DEF RemoveInfo, LoopGoto, Idle, MessageHeld, Marking, Ended, Deleting,
     Loops
<1>3. DeleteKnown'
  BY Contents DEF RemoveInfo, LoopGoto, Idle, DeleteKnown, Active, Ended, Deleting,
     MessageHeld, Marking, Loops
<1>4. WrittenFirst'
  BY Contents DEF RemoveInfo, LoopGoto, Idle, WrittenFirst, Marking, Ended,
     Deleting, MessageHeld, Active, Loops
<1>5. OneVersion'
  BY Contents DEF RemoveInfo, LoopGoto, Idle, OneVersion, Ended, Deleting,
     MessageHeld, Marking, Active, Loops
<1>6. StatusLength'
  BY Contents DEF RemoveInfo, LoopGoto, Idle, StatusLength, StatusFits, Ended, Deleting,
     MessageHeld, Marking, Active, Loops
<1>7. EmptyStatus'
  BY Contents DEF RemoveInfo, LoopGoto, Idle, EmptyStatus, Happened, Ended,
     Deleting, MessageHeld, Marking, Active, Loops
<1>8. StatusThere'
  BY Contents DEF RemoveInfo, LoopGoto, Idle, StatusThere, StatusFits, Marked, Ended,
     Deleting, MessageHeld, Marking, Active, Loops
<1>9. UnmarkedWhileFilling'
  BY Contents DEF RemoveInfo, LoopGoto, Idle, UnmarkedWhileFilling, Ended, Deleting,
     MessageHeld, Marking, Active, Loops
<1>10. Checked'
  BY Contents DEF RemoveInfo, LoopGoto, Idle, Checked, Happened, Ended, Deleting,
     MessageHeld, Marking, Active, Loops
<1>11. CacheRead'
  BY Contents DEF RemoveInfo, LoopGoto, Idle, CacheRead, Happened, Ended, Deleting,
     MessageHeld, Marking, Active, Loops
<1>12. MarkedIsWritten'
  BY Contents DEF RemoveInfo, LoopGoto, Idle, MarkedIsWritten, Happened, Marked,
     Ended, Deleting, MessageHeld, Marking, Active, Loops
\* What the step does not touch.
<1>fits. PartFits'
  BY Contents DEF RemoveInfo, PartFits
<1>13. FileThere' /\ CacheLines' /\ CacheOf' /\ Cut'
  BY DEF RemoveInfo, LoopGoto, Idle, FileThere, CacheLines, Happened, CacheOf, Cut
<1>14. InstalledIsWhole' /\ CacheMatchesFile'
  BY DEF RemoveInfo, LoopGoto, Idle, InstalledIsWhole, Happened, CacheMatchesFile
<1> QED
  BY <1>fits, <1>1, <1>2, <1>3, <1>4, <1>5, <1>6, <1>7, <1>8, <1>9, <1>10, <1>11, <1>12,
     <1>13, <1>14 DEF IInv

LEMMA ServeKeeps == IInv /\ Serve => IInv'
PROOF
<1> SUFFICES ASSUME IInv, Serve PROVE IInv'
  OBVIOUS
<1> USE DEF IInv, TypeOK, disk
<1>1. TypeOK'
  BY Contents DEF Serve
<1>2. Checked'
  BY Contents DEF Serve, Running, Checked, Happened, Ended, Deleting, MessageHeld,
     Marking, Active, Loops
<1>3. FileThere'
  BY Contents DEF Serve, Running, FileThere, Ended, Deleting, MessageHeld, Marking,
     Active, Loops
<1>4. CacheOf'
  BY Contents DEF Serve, Running, CacheOf, Happened, Ended, Deleting, MessageHeld,
     Marking, Active, Loops
<1>5. MarkedIsWritten'
  BY Contents DEF Serve, Running, MarkedIsWritten, Happened, Marked, Ended,
     Deleting, MessageHeld, Marking, Active, Loops
<1>6. InstalledIsWhole'
  BY Contents DEF Serve, Running, InstalledIsWhole, Happened, Ended, Deleting,
     MessageHeld, Marking, Active, Loops
<1>7. CacheMatchesFile'
  BY Contents DEF Serve, Running, CacheMatchesFile, Happened, Ended, Deleting,
     MessageHeld, Marking, Active, Loops, CacheOf
\* What the step does not touch.
<1>fits. PartFits'
  BY Contents DEF Serve, PartFits
<1>8. MessageHeld' /\ DeleteKnown' /\ WrittenFirst' /\ OneVersion'
  BY DEF Serve, Running, MessageHeld, Marking, DeleteKnown, Active, WrittenFirst,
     OneVersion
<1>9. StatusLength' /\ EmptyStatus' /\ StatusThere' /\ UnmarkedWhileFilling'
  BY DEF Serve, Running, StatusLength, StatusFits, EmptyStatus, Happened, StatusThere,
     Marked, UnmarkedWhileFilling
<1>10. CacheLines' /\ CacheRead' /\ Cut'
  BY DEF Serve, Running, CacheLines, Happened, CacheRead, Cut
<1> QED
  BY <1>fits, <1>1, <1>2, <1>3, <1>4, <1>5, <1>6, <1>7, <1>8, <1>9, <1>10 DEF IInv

LEMMA StartKeeps == IInv /\ Start => IInv'
PROOF
<1> SUFFICES ASSUME IInv, Start PROVE IInv'
  OBVIOUS
<1> USE DEF IInv, TypeOK, disk
<1>1. TypeOK'
  BY Contents DEF Start, Deleting
<1>2. DeleteKnown'
  BY Contents DEF Start, DeleteKnown, Active, Ended, Deleting, MessageHeld, Marking,
     Loops
<1>3. EmptyStatus'
  BY Contents DEF Start, EmptyStatus, Happened, Ended, Deleting, MessageHeld,
     Marking, Active, Loops
<1>4. FileThere'
  BY Contents DEF Start, FileThere, Ended, Deleting, MessageHeld, Marking, Active,
     Loops
<1>5. CacheLines'
  BY Contents DEF Start, CacheLines, Happened, Ended, Deleting, MessageHeld,
     Marking, Active, Loops
<1>6. CacheRead'
  BY Contents DEF Start, CacheRead, Happened, Ended, Deleting, MessageHeld, Marking,
     Active, Loops
<1>7. CacheOf'
  BY Contents DEF Start, CacheOf, Happened, Ended, Deleting, MessageHeld, Marking,
     Active, Loops
<1>8. MarkedIsWritten'
  BY Contents DEF Start, MarkedIsWritten, Happened, Marked, Ended, Deleting,
     MessageHeld, Marking, Active, Loops
<1>9. CacheMatchesFile'
  BY Contents DEF Start, CacheMatchesFile, Happened, Ended, Deleting, MessageHeld,
     Marking, Active, Loops
\* What the step does not touch.
<1>fits. PartFits'
  BY Contents DEF Start, PartFits
<1>10. MessageHeld' /\ WrittenFirst' /\ OneVersion' /\ StatusLength'
  BY DEF Start, MessageHeld, Marking, WrittenFirst, OneVersion, StatusLength, StatusFits
<1>11. StatusThere' /\ UnmarkedWhileFilling' /\ Checked' /\ Cut'
  BY DEF Start, StatusThere, StatusFits, Marked, UnmarkedWhileFilling, Checked,
     Happened, Cut
<1>12. InstalledIsWhole'
  BY DEF Start, InstalledIsWhole, Happened
<1> QED
  BY <1>fits, <1>1, <1>2, <1>3, <1>4, <1>5, <1>6, <1>7, <1>8, <1>9, <1>10, <1>11,
     <1>12 DEF IInv

LEMMA DeleteCommandKeeps == IInv /\ DeleteCommand => IInv'
PROOF
<1> SUFFICES ASSUME IInv, DeleteCommand PROVE IInv'
  OBVIOUS
<1> USE DEF IInv, TypeOK, disk
<1>1. TypeOK'
  BY Contents DEF DeleteCommand, Deleting
<1>2. DeleteKnown'
  BY Contents DEF DeleteCommand, DeleteKnown, Active, Ended, Deleting, MessageHeld,
     Marking, Loops
<1>3. EmptyStatus'
  BY Contents DEF DeleteCommand, EmptyStatus, Happened, Ended, Deleting,
     MessageHeld, Marking, Active, Loops
<1>4. FileThere'
  BY Contents DEF DeleteCommand, FileThere, Ended, Deleting, MessageHeld, Marking,
     Active, Loops
<1>5. CacheLines'
  BY Contents DEF DeleteCommand, CacheLines, Happened, Ended, Deleting, MessageHeld,
     Marking, Active, Loops
<1>6. CacheRead'
  BY Contents DEF DeleteCommand, CacheRead, Happened, Ended, Deleting, MessageHeld,
     Marking, Active, Loops
<1>7. CacheOf'
  BY Contents DEF DeleteCommand, CacheOf, Happened, Ended, Deleting, MessageHeld,
     Marking, Active, Loops
<1>8. MarkedIsWritten'
  BY Contents DEF DeleteCommand, MarkedIsWritten, Happened, Marked, Ended, Deleting,
     MessageHeld, Marking, Active, Loops
<1>9. CacheMatchesFile'
  BY Contents DEF DeleteCommand, CacheMatchesFile, Happened, Ended, Deleting,
     MessageHeld, Marking, Active, Loops
\* What the step does not touch.
<1>fits. PartFits'
  BY Contents DEF DeleteCommand, PartFits
<1>10. MessageHeld' /\ WrittenFirst' /\ OneVersion' /\ StatusLength'
  BY DEF DeleteCommand, MessageHeld, Marking, WrittenFirst, OneVersion, StatusLength,
     StatusFits
<1>11. StatusThere' /\ UnmarkedWhileFilling' /\ Checked' /\ Cut'
  BY DEF DeleteCommand, StatusThere, StatusFits, Marked, UnmarkedWhileFilling, Checked,
     Happened, Cut
<1>12. InstalledIsWhole'
  BY DEF DeleteCommand, InstalledIsWhole, Happened
<1> QED
  BY <1>fits, <1>1, <1>2, <1>3, <1>4, <1>5, <1>6, <1>7, <1>8, <1>9, <1>10, <1>11,
     <1>12 DEF IInv

LEMMA ListNothingKeeps == IInv /\ ListNothing => IInv'
PROOF
<1> SUFFICES ASSUME IInv, ListNothing PROVE IInv'
  OBVIOUS
<1> USE DEF IInv, TypeOK, disk
<1>1. TypeOK'
  BY Contents DEF ListNothing, Deleting
<1>2. DeleteKnown'
  BY Contents DEF ListNothing, DeleteKnown, Active, Ended, Deleting, MessageHeld,
     Marking, Loops
<1>3. EmptyStatus'
  BY Contents DEF ListNothing, EmptyStatus, Happened, Ended, Deleting, MessageHeld,
     Marking, Active, Loops
<1>4. FileThere'
  BY Contents DEF ListNothing, FileThere, Ended, Deleting, MessageHeld, Marking,
     Active, Loops
<1>5. CacheLines'
  BY Contents DEF ListNothing, CacheLines, Happened, Ended, Deleting, MessageHeld,
     Marking, Active, Loops
<1>6. CacheRead'
  BY Contents DEF ListNothing, CacheRead, Happened, Ended, Deleting, MessageHeld,
     Marking, Active, Loops, CacheOf
<1>7. CacheOf'
  BY Contents DEF ListNothing, CacheOf, Happened, Ended, Deleting, MessageHeld,
     Marking, Active, Loops
<1>8. MarkedIsWritten'
  BY Contents DEF ListNothing, MarkedIsWritten, Happened, Marked, Ended, Deleting,
     MessageHeld, Marking, Active, Loops
<1>9. CacheMatchesFile'
  BY Contents DEF ListNothing, CacheMatchesFile, Happened, Ended, Deleting,
     MessageHeld, Marking, Active, Loops
\* What the step does not touch.
<1>fits. PartFits'
  BY Contents DEF ListNothing, PartFits
<1>10. MessageHeld' /\ WrittenFirst' /\ OneVersion' /\ StatusLength'
  BY DEF ListNothing, MessageHeld, Marking, WrittenFirst, OneVersion, StatusLength,
     StatusFits
<1>11. StatusThere' /\ UnmarkedWhileFilling' /\ Checked' /\ Cut'
  BY DEF ListNothing, StatusThere, StatusFits, Marked, UnmarkedWhileFilling, Checked,
     Happened, Cut
<1>12. InstalledIsWhole'
  BY DEF ListNothing, InstalledIsWhole, Happened
<1> QED
  BY <1>fits, <1>1, <1>2, <1>3, <1>4, <1>5, <1>6, <1>7, <1>8, <1>9, <1>10, <1>11,
     <1>12 DEF IInv

LEMMA ReadCacheKeeps == IInv /\ ReadCache => IInv'
PROOF
<1> SUFFICES ASSUME IInv, ReadCache PROVE IInv'
  OBVIOUS
<1> USE DEF IInv, TypeOK, disk
<1>a. /\ cache # Absent /\ cache \in Metadata /\ main \in {"starting", "listing"} /\ file # Absent
      /\ UNCHANGED <<disk, crashes, history>>
      /\ \/ main' = "broken" /\ loop' = Idle /\ known' = known /\ cache.lines = 0
         \/ /\ main' \in {"prompt", "chosen"} /\ loop' = loop /\ cache.lines # 0
            /\ \/ known' = known \/ known' = "all"
               \/ known' = "cut" /\ cache.lines # NumLines(cache.of)
  BY DEF ReadCache, Listed
<1>b. loop' \in Loops /\ (loop'.at = "none" \/ (loop' = loop /\ main' # "broken"))
  <2>1. Idle \in Loops /\ Idle.at = "none"
    BY DEF Idle, Loops, Ended
  <2> QED
    BY <1>a, <2>1
<1>1. TypeOK'
  BY <1>a, <1>b, Contents DEF Ended, Deleting
<1>2. MessageHeld'
  BY <1>a, <1>b, Contents DEF MessageHeld, Marking, Ended, Deleting
<1>3. DeleteKnown'
  BY <1>a, <1>b, Contents DEF DeleteKnown, Active, Ended, Deleting
<1>4. WrittenFirst'
  BY <1>a, <1>b, Contents DEF WrittenFirst, Marking, Ended, Deleting
<1>5. OneVersion'
  BY <1>a, <1>b, Contents DEF OneVersion, Ended, Deleting
<1>6. EmptyStatus'
  BY <1>a, <1>b, Contents DEF EmptyStatus, Happened, Ended, Deleting, CacheRead,
     CacheLines
<1>7. StatusThere'
  BY <1>a, <1>b, Contents DEF StatusThere, StatusFits, Marked, Ended, Deleting
<1>8. UnmarkedWhileFilling'
  BY <1>a, <1>b, Contents DEF UnmarkedWhileFilling, Ended, Deleting
<1>9. Checked'
  BY <1>a, <1>b, Contents DEF Checked, Happened, Ended, Deleting
<1>10. FileThere'
  BY <1>a, <1>b, Contents DEF FileThere, Ended, Deleting
<1>11. CacheLines'
  BY <1>a, <1>b, Contents DEF CacheLines, Happened, Ended, Deleting
<1>12. CacheRead'
  BY <1>a, <1>b, Contents DEF CacheRead, Happened, Ended, Deleting, CacheOf
<1>13. CacheOf'
  BY <1>a, <1>b, Contents DEF CacheOf, Happened, Ended, Deleting
<1>14. Cut'
  BY <1>a, <1>b, Contents DEF Cut, Ended, Deleting, CacheLines, CacheOf
<1>15. MarkedIsWritten'
  BY <1>a, <1>b, Contents DEF MarkedIsWritten, Happened, Marked, Ended, Deleting
<1>16. CacheMatchesFile'
  BY <1>a, <1>b, Contents DEF CacheMatchesFile, Happened, Ended, Deleting,
     CacheLines, Cut
<1>len. StatusLength'
  BY <1>a, <1>b DEF StatusLength, StatusFits, Ended
\* What the step does not touch.
<1>fits. PartFits'
  BY Contents DEF ReadCache, PartFits
<1>17. InstalledIsWhole'
  BY DEF ReadCache, InstalledIsWhole, Happened
<1> QED
  BY <1>fits, <1>len, <1>1, <1>2, <1>3, <1>4, <1>5, <1>6, <1>7, <1>8, <1>9, <1>10,
     <1>11, <1>12, <1>13, <1>14, <1>15, <1>16, <1>17 DEF IInv

LEMMA NewCacheKeeps == IInv /\ NewCache => IInv'
PROOF
<1> SUFFICES ASSUME IInv, NewCache PROVE IInv'
  OBVIOUS
<1> USE DEF IInv, TypeOK, disk
<1>a. /\ cache' = [of |-> file, lines |-> 0] /\ cache' \in Metadata
      /\ cache'.of = file /\ cache'.lines = 0 /\ cache'.lines < NumLines(cache'.of)
  <2>1. cache' = [of |-> file, lines |-> 0] /\ file \in Content
    BY DEF NewCache
  <2> QED
    BY <2>1, FirstLine
<1>1. TypeOK'
  BY <1>a, Contents DEF NewCache
<1>2. DeleteKnown'
  BY <1>a, Contents DEF NewCache, DeleteKnown, Active, Ended, Deleting, MessageHeld,
     Marking, Loops
<1>3. EmptyStatus'
  BY <1>a, Contents DEF NewCache, EmptyStatus, Happened, Ended, Deleting,
     MessageHeld, Marking, Active, Loops
<1>4. FileThere'
  BY <1>a, Contents DEF NewCache, FileThere, Ended, Deleting, MessageHeld, Marking,
     Active, Loops
<1>5. CacheLines'
  BY <1>a, Contents DEF NewCache, CacheLines, Happened, Ended, Deleting,
     MessageHeld, Marking, Active, Loops
<1>6. CacheRead'
  BY <1>a, Contents DEF NewCache, CacheRead, Happened, Ended, Deleting, MessageHeld,
     Marking, Active, Loops
<1>7. CacheOf'
  BY <1>a, Contents DEF NewCache, CacheOf, Happened, Ended, Deleting, MessageHeld,
     Marking, Active, Loops
<1>8. MarkedIsWritten'
  BY <1>a, Contents DEF NewCache, MarkedIsWritten, Happened, Marked, Ended,
     Deleting, MessageHeld, Marking, Active, Loops
<1>9. CacheMatchesFile'
  BY <1>a, Contents DEF NewCache, CacheMatchesFile, Happened, Ended, Deleting,
     MessageHeld, Marking, Active, Loops
\* What the step does not touch.
<1>fits. PartFits'
  BY Contents DEF NewCache, PartFits
<1>10. MessageHeld' /\ WrittenFirst' /\ OneVersion' /\ StatusLength'
  BY DEF NewCache, MessageHeld, Marking, WrittenFirst, OneVersion, StatusLength,
     StatusFits
<1>11. StatusThere' /\ UnmarkedWhileFilling' /\ Checked' /\ Cut'
  BY DEF NewCache, StatusThere, StatusFits, Marked, UnmarkedWhileFilling, Checked,
     Happened, Cut
<1>12. InstalledIsWhole'
  BY DEF NewCache, InstalledIsWhole, Happened
<1> QED
  BY <1>fits, <1>1, <1>2, <1>3, <1>4, <1>5, <1>6, <1>7, <1>8, <1>9, <1>10, <1>11,
     <1>12 DEF IInv

LEMMA WriteLineKeeps == IInv /\ WriteLine => IInv'
PROOF
<1> SUFFICES ASSUME IInv, WriteLine PROVE IInv'
  OBVIOUS
<1> USE DEF IInv, TypeOK, disk
<1>a. /\ cache \in Metadata /\ cache # Absent /\ cache.lines < NumLines(cache.of)
  BY DEF WriteLine, FileThere
<1>b. /\ cache' \in Metadata /\ cache'.of = cache.of /\ cache' # Absent
      /\ cache'.lines # 0
      /\ cache'.lines < NumLines(cache.of) \/ cache'.lines = NumLines(cache.of)
  <2>1. cache' = [cache EXCEPT !.lines = @ + 1]
    BY DEF WriteLine
  <2> QED
    BY <1>a, <2>1, NextLine
<1>c. /\ main \in {"caching start", "caching list"}
      /\ UNCHANGED <<file, part, info, loop, crashes, history>>
      /\ \/ cache'.lines < NumLines(cache.of) /\ main' = main /\ known' = known
         \/ /\ cache'.lines = NumLines(cache.of) /\ main' \in {"prompt", "chosen"}
            /\ known' \in {known, "all"}
  BY <1>b DEF WriteLine
<1>1. TypeOK'
  BY <1>a, <1>b, <1>c, Contents DEF Deleting
<1>2. DeleteKnown'
  BY <1>a, <1>b, <1>c, Contents DEF DeleteKnown, Active, Ended, Deleting, Loops
<1>3. EmptyStatus'
  BY <1>a, <1>b, <1>c, Contents DEF EmptyStatus, Happened, Ended, Deleting, Loops
<1>4. FileThere'
  BY <1>a, <1>b, <1>c, Contents DEF FileThere, Ended, Deleting, Loops
<1>5. CacheLines'
  BY <1>a, <1>b, <1>c, Contents DEF CacheLines, Happened, Ended, Deleting, Loops
<1>6. CacheRead'
  BY <1>a, <1>b, <1>c, Contents DEF CacheRead, Happened, Ended, Deleting, Loops
<1>7. CacheOf'
  BY <1>a, <1>b, <1>c, Contents DEF CacheOf, Happened, Ended, Deleting, Loops
<1>8. Cut'
  BY <1>a, <1>b, <1>c, Contents DEF Cut, Ended, Deleting, Loops
<1>9. MarkedIsWritten'
  BY <1>a, <1>b, <1>c, Contents DEF MarkedIsWritten, Happened, Marked, Ended,
     Deleting, Loops
<1>10. CacheMatchesFile'
  BY <1>a, <1>b, <1>c, Contents DEF CacheMatchesFile, Happened, Ended, Deleting,
     Loops
\* What the step does not touch.
<1>fits. PartFits'
  BY Contents DEF WriteLine, PartFits
<1>11. MessageHeld' /\ WrittenFirst' /\ OneVersion' /\ StatusLength'
  BY DEF WriteLine, MessageHeld, Marking, WrittenFirst, OneVersion, StatusLength,
     StatusFits
<1>12. StatusThere' /\ UnmarkedWhileFilling' /\ Checked' /\ InstalledIsWhole'
  BY DEF WriteLine, StatusThere, StatusFits, Marked, UnmarkedWhileFilling, Checked,
     Happened, InstalledIsWhole
<1> QED
  BY <1>fits, <1>1, <1>2, <1>3, <1>4, <1>5, <1>6, <1>7, <1>8, <1>9, <1>10, <1>11,
     <1>12 DEF IInv

LEMMA DeleteKeeps == IInv /\ Delete => IInv'
PROOF
<1> SUFFICES ASSUME IInv, Delete PROVE IInv'
  OBVIOUS
<1> USE DEF IInv, TypeOK, disk
<1>a. file # Absent /\ main' = "removing file" /\ main = "chosen"
  BY DEF Delete, FileThere
<1>b. cache' = (IF cache = Absent THEN [of |-> Empty, lines |-> 0] ELSE cache) /\ cache' \in Metadata
  BY FirstLine, Contents DEF Delete
<1>c. /\ info' = (IF info = Absent THEN <<>> ELSE info)
      /\ part' = (IF part = Absent THEN Empty ELSE part)
      /\ history' = history \cup (IF Active THEN {"deleted_under"} ELSE {})
      /\ UNCHANGED <<file, known, loop, crashes>>
  BY DEF Delete, Record
<1>1. TypeOK'
  BY <1>a, <1>b, <1>c, Contents DEF Loops, Harms, Deleting
<1>2. DeleteKnown'
  BY <1>a, <1>b, <1>c, Contents DEF DeleteKnown, Active
<1>3. WrittenFirst'
  BY <1>a, <1>b, <1>c, Contents DEF WrittenFirst, Marking, Active, Ended
<1>4. OneVersion'
  BY <1>a, <1>b, <1>c, Contents DEF OneVersion, Empty
<1>5. StatusLength'
  BY <1>a, <1>b, <1>c, Contents DEF StatusLength, StatusFits, Ended, Deleting, Loops
<1>6. EmptyStatus'
  BY <1>a, <1>b, <1>c, Contents DEF EmptyStatus, Happened, Ended, Deleting, Loops
<1>7. StatusThere'
  BY <1>a, <1>b, <1>c, Contents DEF StatusThere, StatusFits, Active, Ended, Marked
<1>8. UnmarkedWhileFilling'
  BY <1>a, <1>b, <1>c, Contents DEF UnmarkedWhileFilling
<1>9. Checked'
  BY <1>a, <1>b, <1>c, Contents DEF Checked, Happened, Active, Ended
<1>10. FileThere'
  BY <1>a, <1>b, <1>c, Contents DEF FileThere, Ended, Deleting, Loops
<1>11. CacheLines'
  BY <1>a, <1>b, <1>c, Contents DEF CacheLines, Happened, Ended, Deleting, Loops
<1>12. CacheRead'
  BY <1>a, <1>b, <1>c, Contents DEF CacheRead, Happened, Ended, Deleting, Loops
<1>13. CacheOf'
  BY <1>a, <1>b, <1>c, Contents DEF CacheOf, Happened, Ended, Deleting, Loops
<1>14. Cut'
  BY <1>a, <1>b, <1>c, Contents DEF Cut, Ended, Deleting, Loops
<1>15. MarkedIsWritten'
  BY <1>a, <1>b, <1>c, Contents DEF MarkedIsWritten, Happened, Marked, Ended,
     Deleting, Loops
<1>16. InstalledIsWhole'
  BY <1>a, <1>b, <1>c, Contents DEF InstalledIsWhole, Happened, Ended, Deleting,
     Loops
<1>17. CacheMatchesFile'
  BY <1>a, <1>b, <1>c, Contents DEF CacheMatchesFile, Happened, Ended, Deleting,
     Loops
\* What the step does not touch.
<1>18. MessageHeld'
  BY DEF Delete, MessageHeld, Marking
<1>fits. PartFits'
  BY <1>c DEF PartFits, Empty
<1> QED
  BY <1>fits, <1>1, <1>2, <1>3, <1>4, <1>5, <1>6, <1>7, <1>8, <1>9, <1>10, <1>11, <1>12,
     <1>13, <1>14, <1>15, <1>16, <1>17, <1>18 DEF IInv

LEMMA RemoveFileKeeps == IInv /\ RemoveFile => IInv'
PROOF
<1> SUFFICES ASSUME IInv, RemoveFile PROVE IInv'
  OBVIOUS
<1> USE DEF IInv, TypeOK, disk
<1>1. TypeOK'
  BY Contents DEF RemoveFile, Deleting
<1>2. DeleteKnown'
  BY Contents DEF RemoveFile, DeleteKnown, Active, Ended, Deleting, MessageHeld,
     Marking, Loops
<1>3. EmptyStatus'
  BY Contents DEF RemoveFile, EmptyStatus, Happened, Ended, Deleting, MessageHeld,
     Marking, Active, Loops
<1>4. Checked'
  BY Contents DEF RemoveFile, Checked, Happened, Ended, Deleting, MessageHeld,
     Marking, Active, Loops
<1>5. FileThere'
  BY Contents DEF RemoveFile, FileThere, Ended, Deleting, MessageHeld, Marking,
     Active, Loops
<1>6. CacheLines'
  BY Contents DEF RemoveFile, CacheLines, Happened, Ended, Deleting, MessageHeld,
     Marking, Active, Loops
<1>7. CacheRead'
  BY Contents DEF RemoveFile, CacheRead, Happened, Ended, Deleting, MessageHeld,
     Marking, Active, Loops
<1>8. CacheOf'
  BY Contents DEF RemoveFile, CacheOf, Happened, Ended, Deleting, MessageHeld,
     Marking, Active, Loops
<1>9. MarkedIsWritten'
  BY Contents DEF RemoveFile, MarkedIsWritten, Happened, Marked, Ended, Deleting,
     MessageHeld, Marking, Active, Loops
<1>10. InstalledIsWhole'
  BY Contents DEF RemoveFile, InstalledIsWhole, Happened, Ended, Deleting,
     MessageHeld, Marking, Active, Loops
<1>11. CacheMatchesFile'
  BY Contents DEF RemoveFile, CacheMatchesFile, Happened, Ended, Deleting,
     MessageHeld, Marking, Active, Loops
\* What the step does not touch.
<1>fits. PartFits'
  BY Contents DEF RemoveFile, PartFits
<1>12. MessageHeld' /\ WrittenFirst' /\ OneVersion' /\ StatusLength'
  BY DEF RemoveFile, MessageHeld, Marking, WrittenFirst, OneVersion, StatusLength,
     StatusFits
<1>13. StatusThere' /\ UnmarkedWhileFilling' /\ Cut'
  BY DEF RemoveFile, StatusThere, StatusFits, Marked, UnmarkedWhileFilling, Cut
<1> QED
  BY <1>fits, <1>1, <1>2, <1>3, <1>4, <1>5, <1>6, <1>7, <1>8, <1>9, <1>10, <1>11, <1>12,
     <1>13 DEF IInv

LEMMA RemovePartKeeps == IInv /\ RemovePart => IInv'
PROOF
<1> SUFFICES ASSUME IInv, RemovePart PROVE IInv'
  OBVIOUS
<1> USE DEF IInv, TypeOK, disk
<1>1. TypeOK'
  BY Contents DEF RemovePart, Deleting
<1>2. DeleteKnown'
  BY Contents DEF RemovePart, DeleteKnown, Active, Ended, Deleting, MessageHeld,
     Marking, Loops
<1>3. WrittenFirst'
  BY Contents DEF RemovePart, WrittenFirst, Marking, Ended, Deleting, MessageHeld,
     Active, Loops, DeleteKnown
<1>4. OneVersion'
  BY Contents DEF RemovePart, OneVersion, Ended, Deleting, MessageHeld, Marking,
     Active, Loops
<1>5. EmptyStatus'
  BY Contents DEF RemovePart, EmptyStatus, Happened, Ended, Deleting, MessageHeld,
     Marking, Active, Loops
<1>6. Checked'
  BY Contents DEF RemovePart, Checked, Happened, Ended, Deleting, MessageHeld,
     Marking, Active, Loops, DeleteKnown
<1>7. FileThere'
  BY Contents DEF RemovePart, FileThere, Ended, Deleting, MessageHeld, Marking,
     Active, Loops
<1>8. CacheLines'
  BY Contents DEF RemovePart, CacheLines, Happened, Ended, Deleting, MessageHeld,
     Marking, Active, Loops
<1>9. CacheRead'
  BY Contents DEF RemovePart, CacheRead, Happened, Ended, Deleting, MessageHeld,
     Marking, Active, Loops
<1>10. CacheOf'
  BY Contents DEF RemovePart, CacheOf, Happened, Ended, Deleting, MessageHeld,
     Marking, Active, Loops
<1>11. MarkedIsWritten'
  BY Contents DEF RemovePart, MarkedIsWritten, Happened, Marked, Ended, Deleting,
     MessageHeld, Marking, Active, Loops
<1>12. CacheMatchesFile'
  BY Contents DEF RemovePart, CacheMatchesFile, Happened, Ended, Deleting,
     MessageHeld, Marking, Active, Loops
\* What the step does not touch.
<1>13. MessageHeld' /\ StatusLength' /\ StatusThere' /\ UnmarkedWhileFilling'
  BY DEF RemovePart, MessageHeld, Marking, StatusLength, StatusFits, StatusThere,
     Marked, UnmarkedWhileFilling
<1>14. Cut' /\ InstalledIsWhole'
  BY DEF RemovePart, Cut, InstalledIsWhole, Happened
<1>fits. PartFits'
  BY Contents DEF RemovePart, PartFits
<1> QED
  BY <1>fits, <1>1, <1>2, <1>3, <1>4, <1>5, <1>6, <1>7, <1>8, <1>9, <1>10, <1>11, <1>12,
     <1>13, <1>14 DEF IInv

LEMMA RemoveCacheKeeps == IInv /\ RemoveCache => IInv'
PROOF
<1> SUFFICES ASSUME IInv, RemoveCache PROVE IInv'
  OBVIOUS
<1> USE DEF IInv, TypeOK, disk
<1>1. TypeOK'
  BY Contents DEF RemoveCache, Deleting
<1>2. DeleteKnown'
  BY Contents DEF RemoveCache, DeleteKnown, Active, Ended, Deleting, MessageHeld,
     Marking, Loops
<1>3. EmptyStatus'
  BY Contents DEF RemoveCache, EmptyStatus, Happened, Ended, Deleting, MessageHeld,
     Marking, Active, Loops
<1>4. FileThere'
  BY Contents DEF RemoveCache, FileThere, Ended, Deleting, MessageHeld, Marking,
     Active, Loops
<1>5. CacheLines'
  BY Contents DEF RemoveCache, CacheLines, Happened, Ended, Deleting, MessageHeld,
     Marking, Active, Loops
<1>6. CacheRead'
  BY Contents DEF RemoveCache, CacheRead, Happened, Ended, Deleting, MessageHeld,
     Marking, Active, Loops
<1>7. CacheOf'
  BY Contents DEF RemoveCache, CacheOf, Happened, Ended, Deleting, MessageHeld,
     Marking, Active, Loops
<1>8. MarkedIsWritten'
  BY Contents DEF RemoveCache, MarkedIsWritten, Happened, Marked, Ended, Deleting,
     MessageHeld, Marking, Active, Loops
<1>9. CacheMatchesFile'
  BY Contents DEF RemoveCache, CacheMatchesFile, Happened, Ended, Deleting,
     MessageHeld, Marking, Active, Loops
\* What the step does not touch.
<1>fits. PartFits'
  BY Contents DEF RemoveCache, PartFits
<1>10. MessageHeld' /\ WrittenFirst' /\ OneVersion' /\ StatusLength'
  BY DEF RemoveCache, MessageHeld, Marking, WrittenFirst, OneVersion, StatusLength,
     StatusFits
<1>11. StatusThere' /\ UnmarkedWhileFilling' /\ Checked' /\ Cut'
  BY DEF RemoveCache, StatusThere, StatusFits, Marked, UnmarkedWhileFilling, Checked,
     Happened, Cut
<1>12. InstalledIsWhole'
  BY DEF RemoveCache, InstalledIsWhole, Happened
<1> QED
  BY <1>fits, <1>1, <1>2, <1>3, <1>4, <1>5, <1>6, <1>7, <1>8, <1>9, <1>10, <1>11,
     <1>12 DEF IInv

LEMMA RemoveStatusKeeps == IInv /\ RemoveStatus => IInv'
PROOF
<1> SUFFICES ASSUME IInv, RemoveStatus PROVE IInv'
  OBVIOUS
<1> USE DEF IInv, TypeOK, disk
<1>a. /\ main = "removing info" /\ info' = Absent /\ main' = "prompt" /\ cache = Absent
      /\ \/ history' = history
         \/ /\ history' = history \cap {"cache_crash"} /\ ~Active
            /\ file = Absent /\ part = Absent /\ cache = Absent
      /\ UNCHANGED <<file, part, cache, known, loop, crashes>>
  BY DEF RemoveStatus, FileThere
<1>1. TypeOK'
  BY <1>a, Contents DEF Harms, Deleting
<1>2. DeleteKnown'
  BY <1>a, Contents DEF DeleteKnown, Active, Ended, Deleting, Loops
<1>3. WrittenFirst'
  BY <1>a, Contents DEF WrittenFirst, Marking, Ended, Deleting, Loops, Active
<1>4. OneVersion'
  BY <1>a, Contents DEF OneVersion, Ended, Deleting, Loops, Active
<1>5. StatusLength'
  BY <1>a, Contents DEF StatusLength, StatusFits, Ended, Deleting, Loops
<1>6. EmptyStatus'
  BY <1>a, Contents DEF EmptyStatus, Happened, Ended, Deleting, Loops
<1>7. StatusThere'
  BY <1>a, Contents DEF StatusThere, StatusFits, Marked, Ended, Deleting, Loops,
     DeleteKnown, Active
<1>8. UnmarkedWhileFilling'
  BY <1>a, Contents DEF UnmarkedWhileFilling, Ended, Deleting, Loops
<1>9. Checked'
  BY <1>a, Contents DEF Checked, Happened, Ended, Deleting, Loops, Active
<1>10. FileThere'
  BY <1>a, Contents DEF FileThere, Ended, Deleting, Loops
<1>11. CacheLines'
  BY <1>a, Contents DEF CacheLines, Happened, Ended, Deleting, Loops
<1>12. CacheRead'
  BY <1>a, Contents DEF CacheRead, Happened, Ended, Deleting, Loops
<1>13. CacheOf'
  BY <1>a, Contents DEF CacheOf, Happened, Ended, Deleting, Loops
<1>14. Cut'
  BY <1>a, Contents DEF Cut, Ended, Deleting, Loops
<1>15. MarkedIsWritten'
  BY <1>a, Contents DEF MarkedIsWritten, Happened, Marked, Ended, Deleting, Loops
<1>16. InstalledIsWhole'
  BY <1>a, Contents DEF InstalledIsWhole, Happened, Ended, Deleting, Loops
<1>17. CacheMatchesFile'
  BY <1>a, Contents DEF CacheMatchesFile, Happened, Ended, Deleting, Loops, Cut
\* What the step does not touch.
<1>18. MessageHeld'
  BY DEF RemoveStatus, MessageHeld, Marking
<1>fits. PartFits'
  BY Contents DEF RemoveStatus, PartFits
<1> QED
  BY <1>fits, <1>1, <1>2, <1>3, <1>4, <1>5, <1>6, <1>7, <1>8, <1>9, <1>10, <1>11, <1>12,
     <1>13, <1>14, <1>15, <1>16, <1>17, <1>18 DEF IInv

LEMMA ExitKeeps == IInv /\ Exit => IInv'
PROOF
<1> SUFFICES ASSUME IInv, Exit PROVE IInv'
  OBVIOUS
<1> USE DEF IInv, TypeOK, disk
<1>1. TypeOK'
  BY Contents DEF Exit, Idle, Ended, Deleting, MessageHeld, Marking, Active, Loops,
     Harms
<1>2. MessageHeld'
  BY Contents DEF Exit, Idle, MessageHeld, Marking, Ended, Deleting, Loops
<1>3. DeleteKnown'
  BY Contents DEF Exit, Idle, DeleteKnown, Active, Ended, Deleting, MessageHeld,
     Marking, Loops
<1>4. WrittenFirst'
  BY Contents DEF Exit, Idle, WrittenFirst, Marking, Ended, Deleting, MessageHeld,
     Active, Loops
<1>5. OneVersion'
  BY Contents DEF Exit, Idle, OneVersion, Ended, Deleting, MessageHeld, Marking,
     Active, Loops
<1>6. EmptyStatus'
  BY Contents DEF Exit, Idle, EmptyStatus, Happened, Ended, Deleting, MessageHeld,
     Marking, Active, Loops
<1>7. StatusThere'
  BY Contents DEF Exit, Idle, StatusThere, StatusFits, Marked, Ended, Deleting,
     MessageHeld, Marking, Active, Loops
<1>8. UnmarkedWhileFilling'
  BY Contents DEF Exit, Idle, UnmarkedWhileFilling, Ended, Deleting, MessageHeld,
     Marking, Active, Loops
<1>9. Checked'
  BY Contents DEF Exit, Idle, Checked, Happened, Ended, Deleting, MessageHeld,
     Marking, Active, Loops
<1>10. FileThere'
  BY Contents DEF Exit, Idle, FileThere, Ended, Deleting, MessageHeld, Marking,
     Active, Loops
<1>11. CacheLines'
  BY Contents DEF Exit, Idle, CacheLines, Happened, Ended, Deleting, MessageHeld,
     Marking, Active, Loops
<1>12. CacheRead'
  BY Contents DEF Exit, Idle, CacheRead, Happened, Ended, Deleting, MessageHeld,
     Marking, Active, Loops
<1>13. CacheOf'
  BY Contents DEF Exit, Idle, CacheOf, Happened, Ended, Deleting, MessageHeld,
     Marking, Active, Loops
<1>14. Cut'
  BY Contents DEF Exit, Idle, Cut, Ended, Deleting, MessageHeld, Marking, Active,
     Loops
<1>15. MarkedIsWritten'
  BY Contents DEF Exit, Idle, MarkedIsWritten, Happened, Marked, Ended, Deleting,
     MessageHeld, Marking, Active, Loops
<1>16. CacheMatchesFile'
  BY Contents DEF Exit, Idle, CacheMatchesFile, Happened, Ended, Deleting,
     MessageHeld, Marking, Active, Loops
<1>len. StatusLength'
  BY Contents DEF Exit, StatusLength, StatusFits, Ended, MessageHeld, Marking, Loops,
     LoopGoto, Idle
\* What the step does not touch.
<1>fits. PartFits'
  BY Contents DEF Exit, PartFits
<1>17. InstalledIsWhole'
  BY DEF Exit, Idle, InstalledIsWhole, Happened
<1> QED
  BY <1>fits, <1>len, <1>1, <1>2, <1>3, <1>4, <1>5, <1>6, <1>7, <1>8, <1>9, <1>10,
     <1>11, <1>12, <1>13, <1>14, <1>15, <1>16, <1>17 DEF IInv

LEMMA CrashKeeps == IInv /\ Crash => IInv'
PROOF
<1> SUFFICES ASSUME IInv, Crash PROVE IInv'
  OBVIOUS
<1> USE DEF IInv, TypeOK, disk
<1>a. /\ main' = "down" /\ loop' = Idle /\ known' = "none" /\ UNCHANGED disk
      /\ crashes' \in 0 .. MaxCrashes /\ history \subseteq history' /\ history' \subseteq Harms
      /\ main \in Deleting => "delete_crash" \in history'
      /\ main \in {"caching start", "caching list"} => "cache_crash" \in history'
      /\ loop.at = "filling" => "info_crash" \in history'
  <2>1. crashes' \in 0 .. MaxCrashes
    <3>1. crashes \in 0 .. MaxCrashes /\ crashes < MaxCrashes /\ crashes' = crashes + 1
      BY DEF Crash
    <3> QED
      BY <3>1, Bounds, OneMore
  <2> QED
    BY <2>1 DEF Crash, Record, Harms, Deleting
<1>1. TypeOK'
  BY <1>a, Contents DEF Idle, Ended, Loops
<1>2. MessageHeld'
  BY <1>a, Contents DEF MessageHeld, Marking, Ended, Deleting, Loops, Idle
<1>3. DeleteKnown'
  BY <1>a, Contents DEF DeleteKnown, Active, Ended, Deleting, Loops, Idle
<1>4. WrittenFirst'
  BY <1>a, Contents DEF WrittenFirst, Marking, Ended, Deleting, Loops, Idle
<1>5. OneVersion'
  BY <1>a, Contents DEF OneVersion, Ended, Deleting, Loops, Idle
<1>6. StatusLength'
  BY <1>a, Contents DEF StatusLength, StatusFits, Ended, Deleting, Loops, Idle
<1>7. EmptyStatus'
  BY <1>a, Contents DEF EmptyStatus, Happened, Ended, Deleting, Loops, Idle
<1>8. StatusThere'
  BY <1>a, Contents DEF StatusThere, StatusFits, Marked, Ended, Deleting, Loops, Idle
<1>9. UnmarkedWhileFilling'
  BY <1>a, Contents DEF UnmarkedWhileFilling, Ended, Deleting, Loops, Idle
<1>10. Checked'
  BY <1>a, Contents DEF Checked, Happened, Ended, Deleting, Loops, Idle
<1>11. FileThere'
  BY <1>a, Contents DEF FileThere, Ended, Deleting, Loops, Idle
<1>12. CacheLines'
  BY <1>a, Contents DEF CacheLines, Happened, Ended, Deleting, Loops, Idle
<1>13. CacheRead'
  BY <1>a, Contents DEF CacheRead, Happened, Ended, Deleting, Loops, Idle
<1>14. CacheOf'
  BY <1>a, Contents DEF CacheOf, Happened, Ended, Deleting, Loops, Idle
<1>15. Cut'
  BY <1>a, Contents DEF Cut, Ended, Deleting, Loops, Idle
<1>16. MarkedIsWritten'
  BY <1>a, Contents DEF MarkedIsWritten, Happened, Marked, Ended, Deleting, Loops,
     Idle
<1>17. InstalledIsWhole'
  BY <1>a, Contents DEF InstalledIsWhole, Happened, Ended, Deleting, Loops, Idle
<1>18. CacheMatchesFile'
  BY <1>a, Contents DEF CacheMatchesFile, Happened, Ended, Deleting, Loops, Idle
<1>fits. PartFits'
  BY Contents DEF Crash, PartFits
<1> QED
  BY <1>fits, <1>1, <1>2, <1>3, <1>4, <1>5, <1>6, <1>7, <1>8, <1>9, <1>10, <1>11, <1>12,
     <1>13, <1>14, <1>15, <1>16, <1>17, <1>18 DEF IInv

-----------------------------------------------------------------------------
LEMMA InitHolds == Init => IInv
PROOF
<1> SUFFICES ASSUME Init PROVE IInv
  OBVIOUS
<1> USE DEF Init
<1>1. TypeOK
  <2>1. loop \in Loops
    BY DEF Loops, Idle, Ended
  <2>2. crashes \in 0 .. MaxCrashes
    BY Bounds
  <2> QED
    BY <2>1, <2>2, Contents DEF TypeOK
<1>2. /\ MessageHeld /\ DeleteKnown /\ WrittenFirst /\ OneVersion /\ StatusLength
      /\ UnmarkedWhileFilling /\ Checked /\ StatusThere /\ PartFits
  BY DEF MessageHeld, DeleteKnown, WrittenFirst, OneVersion, StatusLength, StatusFits,
     PartFits, UnmarkedWhileFilling, Checked, StatusThere, Marking, Idle, Ended,
     Deleting
<1>3. EmptyStatus
  BY Contents DEF EmptyStatus
<1>4. FileThere /\ CacheLines /\ CacheRead /\ CacheOf /\ Cut
  BY DEF FileThere, CacheLines, CacheRead, CacheOf, Cut, Idle, Ended
<1>5. MarkedIsWritten /\ InstalledIsWhole /\ CacheMatchesFile
  BY DEF MarkedIsWritten, InstalledIsWhole, CacheMatchesFile, Marked
<1> QED
  BY <1>1, <1>2, <1>3, <1>4, <1>5 DEF IInv

LEMMA StutterKeeps == IInv /\ UNCHANGED vars => IInv'
PROOF
<1> SUFFICES ASSUME IInv, UNCHANGED vars PROVE IInv'
  OBVIOUS
<1> USE DEF IInv, vars, disk
<1>1. TypeOK'
  BY DEF TypeOK
<1>2. MessageHeld' /\ DeleteKnown' /\ WrittenFirst' /\ OneVersion' /\ PartFits'
  BY DEF MessageHeld, DeleteKnown, WrittenFirst, OneVersion, PartFits, Marking, Active
<1>3. StatusLength' /\ StatusThere' /\ EmptyStatus'
  BY DEF StatusLength, StatusThere, StatusFits, EmptyStatus, Marked, Happened
<1>6. UnmarkedWhileFilling' /\ Checked' /\ FileThere'
  BY DEF UnmarkedWhileFilling, Checked, FileThere, Happened
<1>4. CacheLines' /\ CacheRead' /\ CacheOf' /\ Cut'
  BY DEF CacheLines, CacheRead, CacheOf, Cut, Happened
<1>5. MarkedIsWritten' /\ InstalledIsWhole' /\ CacheMatchesFile'
  BY DEF MarkedIsWritten, InstalledIsWhole, CacheMatchesFile, Marked, Happened
<1> QED
  BY <1>1, <1>2, <1>3, <1>4, <1>5, <1>6

LEMMA StepKeeps == IInv /\ [Next]_vars => IInv'
PROOF
<1> SUFFICES ASSUME IInv, [Next]_vars PROVE IInv'
  OBVIOUS
<1>1. CASE \E v \in Versions : Request(v)
  BY <1>1, RequestKeeps
<1>2. CASE \E p \in Pieces : Receive(p)
  BY <1>2, ReceiveKeeps
<1>3. CASE LoopStep
  BY <1>3, WritePartKeeps, LoadNewKeeps, LoadOldKeeps, FillKeeps, MarkKeeps,
     PrepareKeeps, InstallKeeps, RemoveInfoKeeps DEF LoopStep
<1>4. CASE Serve
  BY <1>4, ServeKeeps
<1>5. CASE Start \/ DeleteCommand
  BY <1>5, StartKeeps, DeleteCommandKeeps
<1>6. CASE MainStep
  BY <1>6, RequestReturnsKeeps, ListNothingKeeps, ReadCacheKeeps, NewCacheKeeps,
     WriteLineKeeps, DeleteKeeps, RemoveFileKeeps, RemovePartKeeps, RemoveCacheKeeps,
     RemoveStatusKeeps DEF MainStep
<1>7. CASE Exit \/ Crash
  BY <1>7, ExitKeeps, CrashKeeps
<1>8. CASE UNCHANGED vars
  BY <1>8, StutterKeeps
<1> QED
  BY <1>1, <1>2, <1>3, <1>4, <1>5, <1>6, <1>7, <1>8 DEF Next

LEMMA Invariance == Spec => []IInv
PROOF
<1>1. Init => IInv
  BY InitHolds
<1>2. IInv /\ [Next]_vars => IInv'
  BY StepKeeps
<1> QED
  BY <1>1, <1>2, PTL DEF Spec

-----------------------------------------------------------------------------
(* The files, in every state.                                              *)

\* The four files and the two tasks keep their types: .info never grows past
\* the number of pieces, and .filecache never past its last hash.
THEOREM TypesHold == Spec => []TypeOK
PROOF
<1>1. IInv => TypeOK
  BY DEF IInv
<1> QED
  BY <1>1, Invariance, PTL

\* A piece that .info marks is in .part, whenever the process dies: the order
\* of write_piece_to_part (first .part, then .info) is enough.
THEOREM MarkedPiecesAreWritten == Spec => []MarkedIsWritten
PROOF
<1>1. IInv => MarkedIsWritten
  BY DEF IInv
<1> QED
  BY <1>1, Invariance, PTL

\* build_file puts a whole file of one version in its place, or none.
THEOREM InstalledFilesAreWhole == Spec => []InstalledIsWhole
PROOF
<1>1. IInv => InstalledIsWhole
  BY DEF IInv
<1> QED
  BY <1>1, Invariance, PTL

\* get_info_hashes finds the metadata of the file it stands next to.
THEOREM CachedMetadataMatches == Spec => []CacheMatchesFile
PROOF
<1>1. IInv => CacheMatchesFile
  BY DEF IInv
<1> QED
  BY <1>1, Invariance, PTL

-----------------------------------------------------------------------------
(* The files, from one state to the next.                                  *)

LEMMA FileUntouched ==
  Next => file' = file \/ Install \/ Serve \/ RemoveFile
BY DEF Next, LoopStep, MainStep, Request, RequestReturns, Receive, WritePart, LoadNew,
   LoadOld, Fill, Mark, Prepare, RemoveInfo, Start, DeleteCommand, ListNothing,
   ReadCache, NewCache, WriteLine, Delete, RemovePart, RemoveCache, RemoveStatus,
   Exit, Crash, disk

\* build_file looks for a file when it starts and renames over the path at its
\* end; in between only get_file can have made one, and that one is empty.
THEOREM FilesAreNotOverwritten == Spec => NoOverwrite
PROOF
<1> DEFINE A == file' = file \/ file \in {Absent, Empty} \/ main = "removing file"
<1>1. IInv /\ [Next]_vars => [A]_vars
  <2> SUFFICES ASSUME IInv, Next PROVE A
    OBVIOUS
  <2>1. CASE Install
    BY <2>1 DEF Install, IInv, Checked
  <2>2. CASE Serve \/ RemoveFile
    BY <2>2 DEF Serve, RemoveFile
  <2> QED
    BY <2>1, <2>2, FileUntouched
<1> QED
  BY <1>1, Invariance, PTL DEF Spec, NoOverwrite

LEMMA StatusUntouched ==
  Next => info' = info \/ LoadNew \/ Fill \/ Mark \/ Prepare \/ RemoveInfo \/ Delete
                       \/ RemoveStatus
BY DEF Next, LoopStep, MainStep, Request, RequestReturns, Receive, WritePart, LoadOld,
   Install, Serve, Start, DeleteCommand, ListNothing, ReadCache, NewCache, WriteLine,
   RemoveFile, RemovePart, RemoveCache, Exit, Crash, disk

\* get_info_status fills .info with zeros only while it is empty, and
\* write_piece_to_part sets one byte: no recorded piece is forgotten.
THEOREM MarksStay == Spec => MarksKept
PROOF
<1> DEFINE A == \A p \in Pieces : Marked(p) =>
                  Marked(p)' \/ loop.at = "tidying" \/ main = "removing info"
<1>1. IInv /\ [Next]_vars => [A]_vars
  <2> SUFFICES ASSUME IInv, Next, NEW p \in Pieces, Marked(p),
                      loop.at # "tidying", main # "removing info"
               PROVE  Marked(p)'
    OBVIOUS
  <2>1. info # Absent /\ info # <<>> /\ info \in Status
    BY Contents DEF Marked, IInv, TypeOK
  <2>2. CASE info' = info
    BY <2>2 DEF Marked
  <2>3. CASE LoadNew \/ RemoveInfo \/ RemoveStatus
    BY <2>1, <2>3 DEF LoadNew, RemoveInfo, RemoveStatus
  <2>4. CASE Fill
    BY <2>1, <2>4 DEF Fill, IInv, UnmarkedWhileFilling
  <2>5. CASE Mark
    <3>1. loop.piece \in Pieces /\ info' = SetByte(info, loop.piece)
      BY <2>1, <2>5, SomePieces DEF Mark, IInv, MessageHeld, Marking, Ended
    <3>2. /\ SetByte(info, loop.piece) \in Status
          /\ DOMAIN info \subseteq DOMAIN SetByte(info, loop.piece)
          /\ \A q \in DOMAIN info : info[q] = 1 => SetByte(info, loop.piece)[q] = 1
      BY <2>1, <3>1, ByteIsSet
    <3> QED
      BY <3>1, <3>2, Contents DEF Marked
  <2>6. CASE Prepare \/ Delete
    BY <2>1, <2>2, <2>6 DEF Prepare, Delete
  <2> QED
    BY <2>2, <2>3, <2>4, <2>5, <2>6, StatusUntouched
<1> QED
  BY <1>1, Invariance, PTL DEF Spec, MarksKept

LEMMA GoesThere ==
  ASSUME NEW at, loop \in Loops, LoopGoto(at)
  PROVE  loop'.at = at
PROOF
<1>1. Idle.at = "none" /\ [Idle EXCEPT !.at = at].at = at
  BY DEF Idle
<1>2. [loop EXCEPT !.at = at].at = at
  BY DEF Loops
<1>3. [loop EXCEPT !.at = at, !.next = "none", !.piece = 0].at = at
  BY DEF Loops
<1> QED
  BY <1>1, <1>2, <1>3 DEF LoopGoto

LEMMA PanicsInMessages ==
  ASSUME TypeOK, Next, loop'.at = "panicked"
  PROVE  loop.at = "panicked" \/ LoadOld \/ Fill
PROOF
<1>1. loop \in Loops
  BY DEF TypeOK
<1>2. CASE (\E v \in Versions : Request(v)) \/ (\E p \in Pieces : Receive(p))
  <2>1. CASE \E v \in Versions : Request(v)
    BY <2>1 DEF Request
  <2>2. ASSUME NEW p \in Pieces, Receive(p)
        PROVE  FALSE
    <3>1. loop'.at = "writing"
      BY <1>1, <2>2 DEF Receive, Loops
    <3> QED
      BY <3>1
  <2> QED
    BY <1>2, <2>1, <2>2
<1>3. CASE WritePart \/ Mark
  BY <1>1, <1>3 DEF WritePart, Mark, Loops
<1>4. CASE LoadNew \/ Prepare \/ Install \/ RemoveInfo
  <2>1. \E at \in {"filling", "installing", "ended", "tidying"} : LoopGoto(at)
    BY <1>4 DEF LoadNew, Prepare, Install, RemoveInfo
  <2> QED
    BY <1>1, <2>1, GoesThere
<1>5. CASE ReadCache \/ Exit \/ Crash
  <2>1. loop' = loop \/ loop' = Idle
    BY <1>5 DEF ReadCache, Exit, Crash
  <2> QED
    BY <2>1 DEF Idle
<1>6. CASE \/ Serve \/ Start \/ DeleteCommand
           \/ RequestReturns \/ ListNothing \/ NewCache \/ WriteLine
           \/ Delete \/ RemoveFile \/ RemovePart \/ RemoveCache \/ RemoveStatus
  BY <1>6 DEF Serve, Start, DeleteCommand, RequestReturns, ListNothing, NewCache,
     WriteLine, Delete, RemoveFile, RemovePart, RemoveCache, RemoveStatus
<1> QED
  BY <1>2, <1>3, <1>4, <1>5, <1>6 DEF Next, LoopStep, MainStep

LEMMA BreaksOnCache ==
  Next /\ main' = "broken" => main = "broken" \/ ReadCache
BY DEF Next, LoopStep, MainStep, Request, RequestReturns, Receive, WritePart, LoadNew,
   LoadOld, Fill, Mark, Prepare, Install, RemoveInfo, Serve, Start, DeleteCommand,
   ListNothing, NewCache, WriteLine, Delete, RemoveFile, RemovePart, RemoveCache,
   RemoveStatus, Exit, Crash

\* The unwraps of InfoHash::new fail only on what a crash or an overlapping
\* delete_file has left half-made, and the index into the status only on that
\* and on the .info of another file of the name.
THEOREM PanicsNeedHarm == Spec => PanicsOnlyAfterHarm
PROOF
<1> DEFINE A ==
      /\ loop'.at = "panicked" =>
           \/ loop.at = "panicked"
           \/ Happened({"info_crash", "delete_crash", "deleted_under", "other_version"})
      /\ main' = "broken" =>
           main = "broken" \/ Happened({"cache_crash", "delete_crash", "deleted_under"})
<1>1. IInv /\ [Next]_vars => [A]_vars
  <2> SUFFICES ASSUME IInv, Next PROVE A
    OBVIOUS
  <2>1. ASSUME loop'.at = "panicked", loop.at # "panicked"
        PROVE  Happened({"info_crash", "delete_crash", "deleted_under", "other_version"})
    <3>1. loop \in Loops /\ (LoadOld \/ Fill)
      BY <2>1, PanicsInMessages DEF IInv, TypeOK
    <3>2. loop.at \in {"loading", "filling"} /\ loop.next \in {"mark", "check", "build"}
          /\ (loop.next = "mark" => loop.piece \in PiecesOf(loop.v)) /\ loop.v \in Versions
      BY <3>1 DEF LoadOld, Fill, IInv, MessageHeld, Marking, Ended
    <3>3. CASE Fill
      <4> DEFINE zeros == [p \in PiecesOf(loop.v) |-> 0]
      <4>1. zeros \in Status /\ DOMAIN zeros = PiecesOf(loop.v) /\ AfterLoad(zeros)
        BY <3>2, <3>3, ZerosLack DEF Fill
      <4> HIDE DEF zeros
      <4> QED
        BY <2>1, <3>1, <3>2, <4>1, WaysOn
    <3>4. CASE LoadOld
      <4>1. info \in Status /\ AfterLoad(info) /\ loop.at = "loading"
        BY <3>4 DEF LoadOld, IInv, TypeOK
      <4>2. loop.next = "mark" /\ loop.piece \notin DOMAIN info
        BY <2>1, <3>1, <3>2, <4>1, WaysOn
      <4>3. info = <<>> \/ Happened({"deleted_under", "other_version"})
        BY <3>2, <3>4, <4>1, <4>2 DEF LoadOld, IInv, StatusLength, StatusFits, Ended,
           Happened
      <4>4. main \in Deleting => "deleted_under" \in history
        BY <4>1 DEF IInv, DeleteKnown, Active, Ended
      <4> QED
        BY <4>1, <4>3, <4>4 DEF IInv, EmptyStatus, Happened
    <3> QED
      BY <3>1, <3>3, <3>4
  <2>2. ASSUME main' = "broken", main # "broken"
        PROVE  Happened({"cache_crash", "delete_crash", "deleted_under"})
    <3>1. /\ main \in {"starting", "listing"} /\ cache # Absent /\ cache.lines = 0
      BY <2>2, BreaksOnCache DEF ReadCache, Listed
    <3>2. NumLines(cache.of) # 0
      BY LinesOfContent, Bounds
    <3> QED
      BY <3>1, <3>2 DEF IInv, CacheLines, Happened, Deleting
  <2> QED
    BY <2>1, <2>2
<1> QED
  BY <1>1, Invariance, PTL DEF Spec, PanicsOnlyAfterHarm

=============================================================================
