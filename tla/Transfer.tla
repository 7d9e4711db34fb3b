------------------------------ MODULE Transfer ------------------------------
(***************************************************************************)
(* One file on its way from its seeders to a copy: the seeder describes it *)
(* by its length, piece length and piece hashes (InfoHash::new); requests  *)
(* and pieces cross the wire as frames of bytes (message.rs); the          *)
(* requester checks, writes and marks the pieces, and at its next start    *)
(* describes the copy in turn.  Sizes are small but keep their limits: a   *)
(* u32 is Modulus values wide, a byte of a word Base values.  Byte k of    *)
(* the file is the number k, so that two bytes are never confused.  SHA-1  *)
(* is taken to have no collisions.  Each connection carries one exchange   *)
(* at a time; which connection takes a request is left open, as            *)
(* FileAssembler models the sharing out and the removal of connections.    *)
(***************************************************************************)
EXTENDS Integers, Sequences, SequencesExt, FiniteSets, FiniteSetsExt

CONSTANTS
  Base,       \* values of one byte of a word
  Lengths,    \* of the files
  Limits,     \* upper bounds of the first three classes of get_piece_length
  Sizes,      \* piece length of each of the four classes
  Seeders,    \* indices of the connections
  MaxChanges  \* bound on the seeders' files that change under the download

Modulus == Base * Base * Base * Base
Word32 == 0 .. Modulus - 1

ASSUME TransferAssumption ==
  /\ Base \in Nat \ {0, 1} /\ Lengths \subseteq Nat /\ MaxChanges \in Nat
  /\ Limits \in Seq(Nat) /\ Len(Limits) = 3
  /\ Sizes \in Seq(Word32) /\ Len(Sizes) = 4
  /\ \A k \in 1 .. 4 : Sizes[k] >= 12   \* a Cancel fits the limit of a piece
  /\ Seeders \subseteq Word32 /\ IsFiniteSet(Seeders) /\ Seeders # {}

Hole == 0       \* a byte of .part that was never written, or of a fresh buffer
Noise == -1     \* a byte that is not the file's
NoCall == <<>>

VARIABLES
  phase,    \* "describing", "moving", "redescribing", "done" or "failed"
  checked,  \* a debug build: overflow panics; in a release build it wraps
  source,   \* the file
  reader,   \* get_piece_hashes at work on the source or on the copy
  meta,     \* the InfoHash both ends use
  disk,     \* resources/files of each seeder
  listed,   \* the connections the requester still uses
  next,     \* index of the next piece of the first round of requests
  again,    \* messages in the resend channel
  call,     \* the exchange under way on each connection
  part,     \* the .part file
  marked,   \* the indices that are 1 in .info
  sending   \* does send_requests run

vars == <<phase, checked, source, reader, meta, disk, listed, next, again,
          call, part, marked, sending>>

-----------------------------------------------------------------------------
(* The arithmetic of pieces.                                               *)

PieceLength(length) ==
  Sizes[1 + Cardinality({k \in 1 .. 3 : length > Limits[k]})]

\* The indices of the pieces of one file fit a u32 (a file below 4 PiB).
ASSUME IndexAssumption == \A n \in Lengths : n <= Modulus * PieceLength(n)

NumPieces == Len(meta.pieces)
LastIndex == NumPieces - 1

\* A product of two u32 in a release build.
Times(a, b) == (a * b) % Modulus

\* Mutant: the remainder alone, zero where the file is a multiple.
ReadLengthRemainder(index) ==
  IF index = LastIndex THEN meta.file_length % meta.piece_length
                       ELSE meta.piece_length

\* Bytes of a piece as the seeder reads it; usize does not overflow here.
ReadLength(index) ==
  IF index = LastIndex THEN meta.file_length - meta.piece_length * LastIndex
                  ELSE meta.piece_length

\* seek and read_exact: the bytes, or an error if the file is too short.
Readable(content, offset, n) == offset + n <= Len(content)
Bytes(content, offset, n) == SubSeq(content, offset + 1, offset + n)

\* seek and write_all: bytes in front that nobody wrote are zero.
WriteAt(content, offset, piece) ==
  LET end == offset + Len(piece)
  IN  [k \in 1 .. Max({Len(content), end}) |->
         IF k > offset /\ k <= end THEN piece[k - offset]
         ELSE IF k <= Len(content) THEN content[k] ELSE Hole]

-----------------------------------------------------------------------------
(* message.rs: big-endian words, an identifier at byte 5, and a length in  *)
(* front that decode does not look at.                                     *)

Word(n) ==
  LET up == n \div Base
      upper == up \div Base
  IN  <<(upper \div Base) % Base, upper % Base, up % Base, n % Base>>
Value(b) == ((b[1] * Base + b[2]) * Base + b[3]) * Base + b[4]
Hash == [k \in 1 .. 20 |-> 1]

\* Mutant: index and begin change places.
EncodeSwapped(m) ==
  IF m.type = "piece"
    THEN Word(5 + Len(m.piece)) \o <<7>> \o Word(m.index) \o m.piece
    ELSE Word(17) \o <<IF m.type = "request" THEN 6 ELSE 8>> \o Word(m.seeder)
           \o Word(m.begin) \o Word(m.index) \o Word(m.length)
           \o (IF m.type = "request" THEN m.hash ELSE <<>>)

Encode(m) ==
  IF m.type = "piece"
    THEN Word(5 + Len(m.piece)) \o <<7>> \o Word(m.index) \o m.piece
    ELSE Word(IF m.type = "request" THEN 37 ELSE 17)
           \o <<IF m.type = "request" THEN 6 ELSE 8>> \o Word(m.seeder)
           \o Word(m.index) \o Word(m.begin) \o Word(m.length)
           \o (IF m.type = "request" THEN m.hash ELSE <<>>)

WordAt(frame, k) == Value(SubSeq(frame, k + 1, k + 4))
Decode(frame) ==
  CASE frame[5] = 6 ->
         [type |-> "request", seeder |-> WordAt(frame, 5), index |-> WordAt(frame, 9),
          begin |-> WordAt(frame, 13), length |-> WordAt(frame, 17),
          hash |-> SubSeq(frame, 22, 41)]
    [] frame[5] = 7 ->
         [type |-> "piece", index |-> WordAt(frame, 5),
          piece |-> SubSeq(frame, 10, Len(frame))]
    [] frame[5] = 8 ->
         [type |-> "cancel", seeder |-> WordAt(frame, 5), index |-> WordAt(frame, 9),
          begin |-> WordAt(frame, 13), length |-> WordAt(frame, 17)]

-----------------------------------------------------------------------------
(* get_piece_hashes.                                                       *)

\* The vector of one piece is kept from piece to piece and filled by reads
\* that may return fewer bytes than asked for.
Reading(content) ==
  [of |-> content, at |-> 0, got |-> 0, hashes |-> <<>>,
   buf |-> [k \in 1 .. PieceLength(Len(content)) |-> Hole]]

Init ==
  /\ \E n \in Lengths : source = [k \in 1 .. n |-> k]
  /\ reader = Reading(source)
  /\ phase = "describing" /\ checked \in BOOLEAN
  /\ meta = [file_length |-> 0, piece_length |-> 0, pieces |-> <<>>]
  /\ disk = [s \in Seeders |-> source]
  /\ listed = Seeders /\ next = 0 /\ again = {}
  /\ call = [s \in Seeders |-> NoCall]
  /\ part = <<>> /\ marked = {} /\ sending = TRUE

AtEnd == reader.at = Len(reader.of)
Full == reader.got = Len(reader.buf)
UnchangedButReader == UNCHANGED <<checked, source, disk, listed, next, again,
                                  call, part, marked, sending>>

ReadSome ==
  /\ phase \in {"describing", "redescribing"} /\ ~Full /\ ~AtEnd
  /\ \E n \in 1 .. Min({Len(reader.buf) - reader.got, Len(reader.of) - reader.at}) :
       reader' = [reader EXCEPT
                    !.at = @ + n, !.got = @ + n,
                    !.buf = [k \in DOMAIN @ |->
                       IF k > reader.got /\ k <= reader.got + n
                         THEN reader.of[reader.at + k - reader.got] ELSE @[k]]]
  /\ UNCHANGED <<phase, meta>> /\ UnchangedButReader

\* Mutant: what one read returned is taken for a whole piece.
HashPieceShort ==
  /\ phase \in {"describing", "redescribing"}
  /\ reader.got > 0
  /\ reader' = [reader EXCEPT !.hashes = Append(@, reader.buf), !.got = 0]
  /\ UNCHANGED <<phase, meta>> /\ UnchangedButReader

\* The whole vector is hashed, whatever part of it was read.
HashPiece ==
  /\ phase \in {"describing", "redescribing"}
  /\ reader.got > 0 /\ (Full \/ AtEnd)
  /\ reader' = [reader EXCEPT !.hashes = Append(@, reader.buf), !.got = 0]
  /\ UNCHANGED <<phase, meta>> /\ UnchangedButReader

Description == [file_length |-> Len(reader.of), piece_length |-> Len(reader.buf),
                pieces |-> reader.hashes]

Described ==
  /\ AtEnd /\ reader.got = 0
  /\ \/ phase = "describing" /\ phase' = "moving" /\ meta' = Description
     \/ phase = "redescribing" /\ phase' = "done" /\ UNCHANGED meta
  /\ UNCHANGED reader /\ UnchangedButReader

-----------------------------------------------------------------------------
(* The requester sends.                                                    *)

Idle(s) == s \in listed /\ call[s] = NoCall

Request(s, index, begin, length) ==
  [type |-> "request", seeder |-> s, index |-> index, begin |-> begin,
   length |-> length, hash |-> Hash]
Place(s, m) == call' = [call EXCEPT ![s] = [asked |-> m, at |-> "seeder", frame |-> Encode(m)]]

\* Mutant: the end of the piece is computed, not its begin.
OverflowsAtEnd(index) == checked /\ meta.piece_length * (index + 1) >= Modulus

Overflows(index) == checked /\ meta.piece_length * index >= Modulus

\* Mutant: one request too many.
SendFirstInclusive(s) ==
  /\ phase = "moving" /\ sending /\ next <= NumPieces /\ Idle(s)
  /\ ~Overflows(next)
  /\ Place(s, Request(s, next, Times(meta.piece_length, next), meta.piece_length))
  /\ next' = next + 1
  /\ UNCHANGED <<phase, checked, source, reader, meta, disk, listed, again, part,
                 marked, sending>>

SendFirst(s) ==
  /\ phase = "moving" /\ sending /\ next < NumPieces /\ Idle(s)
  /\ ~Overflows(next)
  /\ Place(s, Request(s, next, Times(meta.piece_length, next), meta.piece_length))
  /\ next' = next + 1
  /\ UNCHANGED <<phase, checked, source, reader, meta, disk, listed, again, part,
                 marked, sending>>

\* A corrupted piece is asked for afresh, a cancelled one as it was asked before.
SendAgain(s, m) ==
  /\ phase = "moving" /\ sending /\ next = NumPieces /\ Idle(s) /\ m \in again
  /\ IF m.type = "piece"
       THEN /\ ~Overflows(m.index)
            /\ Place(s, Request(s, m.index, Times(meta.piece_length, m.index),
                                meta.piece_length))
       ELSE Place(s, Request(s, m.index, m.begin, m.length))
  /\ again' = again \ {m}
  /\ UNCHANGED <<phase, checked, source, reader, meta, disk, listed, next, part,
                 marked, sending>>

\* In a debug build the product panics and the task that sends ends.
SendPanics ==
  /\ phase = "moving" /\ sending /\ next < NumPieces /\ Overflows(next)
  /\ sending' = FALSE
  /\ UNCHANGED <<phase, checked, source, reader, meta, disk, listed, next, again,
                 call, part, marked>>

-----------------------------------------------------------------------------
(* The seeder answers, and its files may change under it.                  *)

\* Forty-one bytes are read and decoded; a read that fails is a Cancel.  The
\* position of the last piece is computed in 32 bits as well.
Answer(s) ==
  /\ phase = "moving" /\ call[s] # NoCall /\ call[s].at = "seeder"
  /\ LET m == Decode(SubSeq(call[s].frame, 1, 41))
         offset == Times(meta.piece_length, m.index)
         n == ReadLength(m.index)
         reply == IF Readable(disk[s], offset, n)
                    THEN [type |-> "piece", index |-> m.index,
                          piece |-> Bytes(disk[s], offset, n)]
                    ELSE [type |-> "cancel", seeder |-> m.seeder, index |-> m.index,
                          begin |-> m.begin, length |-> m.length]
     IN  call' = [call EXCEPT ![s].at = "requester", ![s].frame = Encode(reply)]
  /\ UNCHANGED <<phase, checked, source, reader, meta, disk, listed, next, again,
                 part, marked, sending>>

Changed == {s \in Seeders : disk[s] # source}

\* The user edits a file, cuts it short or removes it (get_file then creates
\* an empty one) after its description was read.
Change(s) ==
  /\ phase = "moving" /\ source # <<>> /\ disk[s] = source
  /\ Cardinality(Changed) < MaxChanges
  /\ \E content \in {[source EXCEPT ![1] = Noise],
                      [source EXCEPT ![Len(source)] = Noise],
                      Front(source), <<>>} :
       disk' = [disk EXCEPT ![s] = content]
  /\ UNCHANGED <<phase, checked, source, reader, meta, listed, next, again, call,
                 part, marked, sending>>

-----------------------------------------------------------------------------
(* The requester receives.                                                 *)

\* read_to_end takes a frame of at most length + 9 bytes.
Limit(s) == call[s].asked.length + 9
Received(s) == Decode(call[s].frame)
Arrived(s) ==
  phase = "moving" /\ call[s] # NoCall /\ call[s].at = "requester"
    /\ Len(call[s].frame) <= Limit(s)

\* Mutant: no piece is compared.
VerifiesAnything(m) == m.index \in 0 .. LastIndex

\* Only a piece of full length is compared with its hash.
Verifies(m) ==
  Len(m.piece) = meta.piece_length => m.piece = meta.pieces[m.index + 1]

Accept(s) ==
  /\ Arrived(s) /\ Received(s).type = "piece" /\ Verifies(Received(s))
  /\ LET m == Received(s)
     IN  /\ part' = WriteAt(part, Times(m.index, meta.piece_length), m.piece)
         /\ marked' = marked \cup {m.index}
  /\ call' = [call EXCEPT ![s] = NoCall]
  /\ IF Cardinality(marked') = NumPieces
       THEN phase' = "redescribing" /\ reader' = Reading(part')
       ELSE UNCHANGED <<phase, reader>>
  /\ UNCHANGED <<checked, source, meta, disk, listed, next, again, sending>>

Reject(s) ==
  /\ Arrived(s) /\ Received(s).type = "piece" /\ ~Verifies(Received(s))
  /\ again' = again \cup {Received(s)}
  /\ call' = [call EXCEPT ![s] = NoCall]
  /\ UNCHANGED <<phase, checked, source, reader, meta, disk, listed, next, part,
                 marked, sending>>

Cancelled(s) ==
  /\ Arrived(s) /\ Received(s).type = "cancel"
  /\ listed' = listed \ {s}
  /\ IF listed' = {} THEN phase' = "failed" /\ UNCHANGED again
                     ELSE again' = again \cup {Received(s)} /\ UNCHANGED phase
  /\ call' = [call EXCEPT ![s] = NoCall]
  /\ UNCHANGED <<checked, source, reader, meta, disk, next, part, marked, sending>>

Describe == ReadSome \/ HashPiece \/ Described
Send == SendPanics \/ \E s \in Seeders : SendFirst(s) \/ \E m \in again : SendAgain(s, m)
Exchange(s) == Answer(s) \/ Accept(s) \/ Reject(s) \/ Cancelled(s)

Next ==
  \/ Describe
  \/ Send
  \/ \E s \in Seeders : Exchange(s) \/ Change(s)

Spec == Init /\ [][Next]_vars

\* Files are read to their end, and requests are sent and answered.
Fairness ==
  /\ WF_vars(Describe) /\ WF_vars(Send)
  /\ \A s \in Seeders : WF_vars(Exchange(s))

FairSpec == Spec /\ Fairness

-----------------------------------------------------------------------------
Requests == [type : {"request"}, seeder : Word32, index : Word32, begin : Word32,
             length : Word32, hash : {Hash}]

\* Every field keeps its type and its width (Message, InfoHash, Status).
TypeOK ==
  /\ phase \in {"describing", "moving", "redescribing", "done", "failed"}
  /\ checked \in BOOLEAN /\ sending \in BOOLEAN
  /\ reader.at \in 0 .. Len(reader.of) /\ reader.got \in 0 .. Len(reader.buf)
  /\ meta.piece_length \in Word32 /\ meta.file_length \in Lengths \cup {0}
  /\ Len(part) <= Len(source)
  /\ listed \subseteq Seeders /\ next \in 0 .. NumPieces
  /\ marked \subseteq 0 .. LastIndex
  /\ \A s \in Seeders : call[s] # NoCall => call[s].asked \in Requests
  /\ again = {} \/ next > 0

\* No piece begins at or behind the width of a u32 (up to 4 GiB).
Fits == meta.piece_length * LastIndex < Modulus

\* The pieces a list of hashes stands for: the last one is filled up with what
\* the vector still holds of the piece in front of it.
HashesOf(content) ==
  LET n == PieceLength(Len(content))
      Stale(k, j) == IF k = 1 THEN Hole ELSE content[(k - 2) * n + j]
  IN  [k \in 1 .. (Len(content) + n - 1) \div n |->
         [j \in 1 .. n |-> IF (k - 1) * n + j <= Len(content)
                             THEN content[(k - 1) * n + j] ELSE Stale(k, j)]]

\* get_piece_hashes gives the same hashes however the reads of the file are cut,
\* one for each piece (file_handler.rs:134-160).
DescriptionIsExact == phase # "describing" => meta.pieces = HashesOf(source)

\* What each end decodes is what the other encoded, for this exchange and no
\* other, and fits the 41 bytes and the limit its reader allows.
FramesFit ==
  \A s \in Seeders : call[s] # NoCall =>
    IF call[s].at = "seeder"
      THEN Len(call[s].frame) = 41 /\ Decode(call[s].frame) = call[s].asked
      ELSE /\ Len(call[s].frame) <= Limit(s)
           /\ Received(s).index = call[s].asked.index
           /\ Received(s).type = "piece" =>
                Len(Received(s).piece) = ReadLength(Received(s).index)

\* A piece marked in .info is at its place in .part and is the source's, whatever
\* became of the seeders' files: only a short last piece is not compared.
MarkedIsSource ==
  Fits => \A i \in marked :
    LET from == i * meta.piece_length
    IN  \/ Bytes(part, from, ReadLength(i)) = Bytes(source, from, ReadLength(i))
        \/ ReadLength(i) < meta.piece_length /\ Changed # {}

\* The copy is the source, and is advertised under the same info hash.
CopyIsSource ==
  phase = "done" /\ Fits /\ Changed = {} => part = source /\ Description = meta

\* A file that fits and is not empty is copied if no seeder's file changes.
Copyable == Changed = {} /\ source # <<>> /\ (phase = "describing" \/ Fits)
CopyEnds == <>(phase = "done" \/ ~Copyable)
=============================================================================
