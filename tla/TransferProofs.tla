--------------------------- MODULE TransferProofs ---------------------------
(***************************************************************************)
(* The transfer of one file, for files of any length (but the bound of     *)
(* IndexAssumption), any table of piece lengths, any base of a byte, any   *)
(* number of connections and of changed files.  TInv is the invariant:     *)
(* where the reader of get_piece_hashes is and what its vector holds       *)
(* (ReaderOK), what the phase says of the description and the copy         *)
(* (PhaseOK), that a frame is what was encoded and answers its own request *)
(* (Exchanging), and that what is marked is written (Copied).              *)
(***************************************************************************)
EXTENDS Transfer, FiniteSetTheorems, SequenceTheorems, TLAPS

Content == Seq(Int)

\* The length of a frame or file, two frames joined, the identifier, and what
\* is behind the first k bytes, as names of their own: the provers then do not
\* count bytes one by one.
Size(s) == Len(s)
Join(s, t) == s \o t
Id(f) == f[5]
Behind(s, k) == SubSeq(s, k + 1, Len(s))

\* The vector of the k-th piece when it is hashed: bytes behind the end of the
\* file are those of the piece in front.
Filled(content, k) ==
  LET n == PieceLength(Size(content))
  IN  [j \in 1 .. n |->
         IF (k - 1) * n + j <= Size(content) THEN content[(k - 1) * n + j]
         ELSE IF k = 1 THEN Hole ELSE content[(k - 2) * n + j]]

\* The reader is at a multiple of the piece length and what it has of the next
\* piece, or it has hashed a short last piece; its vector is that piece's so
\* far, and of the piece in front behind that.
Whole(at, got, hashes, n) == at = Size(hashes) * n + got
Ended(of, at, got, hashes, n) ==
  got = 0 /\ at = Size(of) /\ (Size(hashes) - 1) * n < at /\ at < Size(hashes) * n
Holds(of, got, hashes, n, buf) ==
  \A j \in 1 .. n :
    buf[j] = IF j <= got THEN of[Size(hashes) * n + j]
             ELSE IF Size(hashes) = 0 THEN Hole ELSE of[(Size(hashes) - 1) * n + j]
Reads(of, at, got, hashes, buf) ==
  LET n == PieceLength(Size(of))
  IN  /\ of \in Content /\ at \in Nat /\ got \in Nat
      /\ hashes \in Seq(Content) /\ buf \in Content
      /\ Size(buf) = n /\ at <= Size(of) /\ got <= n
      /\ Whole(at, got, hashes, n) \/ Ended(of, at, got, hashes, n)
      /\ \A k \in 1 .. Size(hashes) : hashes[k] = Filled(of, k)
      /\ Whole(at, got, hashes, n) => Holds(of, got, hashes, n, buf)
ReaderOK ==
  /\ reader = [of |-> reader.of, at |-> reader.at, got |-> reader.got,
                hashes |-> reader.hashes, buf |-> reader.buf]
  /\ Reads(reader.of, reader.at, reader.got, reader.hashes, reader.buf)

\* Both ends use the description of the source, once it is read; the copy is
\* described when every piece of it is marked.
PhaseOK ==
  /\ phase = "describing" =>
       /\ reader.of = source
       /\ meta = [file_length |-> 0, piece_length |-> 0, pieces |-> <<>>]
       /\ next = 0 /\ again = {} /\ part = <<>> /\ marked = {}
       /\ \A s \in Seeders : call[s] = NoCall
  /\ phase # "describing" =>
       meta = [file_length |-> Len(source),
               piece_length |-> PieceLength(Len(source)),
               pieces |-> HashesOf(source)]
  /\ phase \in {"redescribing", "done"} => reader.of = part /\ marked = 0 .. LastIndex
  /\ phase = "done" => AtEnd /\ reader.got = 0

\* What a connection carries: the request as it was made, then a Cancel of it or
\* the piece, from an unchanged file unless some file was changed.
CancelOf(asked) == [type |-> "cancel", seeder |-> asked.seeder, index |-> asked.index,
                    begin |-> asked.begin, length |-> asked.length]
PieceOf(i, piece) == [type |-> "piece", index |-> i, piece |-> piece]
FromSource(i, piece) ==
  Fits => \/ \A k \in 1 .. ReadLength(i) : piece[k] = source[i * meta.piece_length + k]
          \/ Changed # {}
Answered(asked, frame) ==
  \/ frame = Encode(CancelOf(asked))
  \/ \E p \in Content :
       /\ Size(p) = ReadLength(asked.index) /\ FromSource(asked.index, p)
       /\ frame = Encode(PieceOf(asked.index, p))
CallOK(s) ==
  LET c == call[s]
  IN  /\ c = [asked |-> c.asked, at |-> c.at, frame |-> c.frame]
      /\ c.asked \in Requests
      /\ c.asked.index \in 0 .. LastIndex /\ c.asked.length = meta.piece_length
      /\ \/ c.at = "seeder" /\ c.frame = Encode(c.asked)
         \/ c.at = "requester" /\ Answered(c.asked, c.frame)

\* What comes back can be asked for again.
AgainOK(m) ==
  /\ m.index \in 0 .. LastIndex
  /\ m.type # "piece" => m.begin \in Word32 /\ m.length = meta.piece_length

\* A marked piece is written to its end, and every byte of it is the source's.
Copied(i) ==
  /\ i * meta.piece_length + ReadLength(i) <= Size(part)
  /\ \/ \A k \in 1 .. ReadLength(i) :
          part[i * meta.piece_length + k] = source[i * meta.piece_length + k]
     \/ ReadLength(i) < meta.piece_length /\ Changed # {}

Typed ==
  /\ phase \in {"describing", "moving", "redescribing", "done", "failed"}
  /\ checked \in BOOLEAN /\ sending \in BOOLEAN
  /\ source \in Content /\ Size(source) \in Lengths
  /\ disk \in [Seeders -> Content]
  /\ listed \subseteq Seeders
  /\ next \in 0 .. NumPieces
  /\ DOMAIN call = Seeders
  /\ part \in Content /\ Size(part) <= Size(source)
  /\ marked \subseteq 0 .. LastIndex

\* The exchanges: there is none, and nothing to ask again, before a first request.
Exchanging ==
  /\ \A s \in Seeders : call[s] # NoCall => next > 0 /\ CallOK(s)
  /\ \A m \in again : next > 0 /\ AgainOK(m)

TInv == Typed /\ ReaderOK /\ PhaseOK /\ Exchanging /\ (Fits => \A i \in marked : Copied(i))

-----------------------------------------------------------------------------
(* Words and frames.                                                       *)

\* Division and remainder, as the u32 of the wire and of the products use them.
LEMMA Division ==
  ASSUME NEW a \in Nat, NEW b \in Nat \ {0}
  PROVE  /\ a \div b \in Nat /\ a % b \in 0 .. b - 1
         /\ a = (a \div b) * b + (a % b)
  OBVIOUS

\* What wraps at a power of two stays when it is below it.
LEMMA Remainder ==
  ASSUME NEW a \in Nat, NEW b \in Nat \ {0}
  PROVE  /\ a % b \in Nat /\ a % b < b /\ a % b <= a
         /\ a < b => a % b = a
  OBVIOUS

\* The sizes of the assumptions.
LEMMA ModulusType ==
  /\ Base \in Nat \ {0, 1} /\ Modulus \in Nat /\ Modulus >= 16
  BY TransferAssumption DEF Modulus

\* from_be_bytes undoes to_be_bytes.
LEMMA WordValue ==
  ASSUME NEW n \in Word32
  PROVE  Value(Word(n)) = n
<1> DEFINE q1 == n \div Base
           q2 == q1 \div Base
           q3 == q2 \div Base
<1>1. Base \in Nat \ {0} /\ n \in Nat /\ n < Base * Base * Base * Base
  BY TransferAssumption DEF Word32, Modulus
<1>2. q1 \in Nat /\ n = q1 * Base + (n % Base) /\ n % Base \in Nat
  BY <1>1
<1>3. q2 \in Nat /\ q1 = q2 * Base + (q1 % Base) /\ q1 % Base \in Nat
  BY <1>1, <1>2
<1>4. q3 \in Nat /\ q2 = q3 * Base + (q2 % Base) /\ q2 % Base \in Nat
  BY <1>1, <1>3
<1>5. q3 < Base
  <2> HIDE DEF q1, q2, q3
  <2>1. q1 < Base * Base * Base
    BY <1>1, <1>2
  <2>2. q2 < Base * Base
    BY <1>1, <1>2, <1>3, <2>1
  <2> QED
    BY <1>1, <1>2, <1>3, <1>4, <2>2
<1>6. q3 % Base = q3
  BY <1>1, <1>4, <1>5, Remainder
<1>7. Word(n) = <<q3 % Base, q2 % Base, q1 % Base, n % Base>>
  BY DEF Word
<1> HIDE DEF q1, q2, q3
<1> QED
  BY <1>1, <1>2, <1>3, <1>4, <1>6, <1>7 DEF Value

\* Every number is written as four bytes.
LEMMA WordType == \A n \in Int : Word(n) \in Content /\ Size(Word(n)) = 4
<1> SUFFICES ASSUME NEW n \in Int PROVE Word(n) \in Content /\ Len(Word(n)) = 4
  BY DEF Size
<1>1. \A k \in Int : k \div Base \in Int /\ k % Base \in Int
  BY TransferAssumption
<1>2. Word(n) = <<(((n \div Base) \div Base) \div Base) % Base,
                  ((n \div Base) \div Base) % Base, (n \div Base) % Base, n % Base>>
  BY DEF Word
<1> QED
  BY <1>1, <1>2 DEF Content

\* What is appended to a frame leaves what is in front of it.
LEMMA JoinType ==
  ASSUME NEW s \in Content, NEW t \in Content
  PROVE  /\ Join(s, t) \in Content
         /\ Size(s) \in Nat /\ Size(t) \in Nat /\ Size(Join(s, t)) = Size(s) + Size(t)
  BY ConcatProperties DEF Content, Join, Size

\* The identifier is in the front.
LEMMA JoinId ==
  ASSUME NEW s \in Content, NEW t \in Content, Size(s) >= 5
  PROVE  Id(Join(s, t)) = Id(s)
<1> USE DEF Content, Join, Size, Id
<1>1. 5 \in 1 .. Len(s)
  OBVIOUS
<1> QED
  BY <1>1, ConcatProperties

\* So is every word of the front.
LEMMA JoinWord ==
  ASSUME NEW s \in Content, NEW t \in Content, NEW k \in Nat, k + 4 <= Size(s)
  PROVE  WordAt(Join(s, t), k) = WordAt(s, k)
<1> USE DEF Content, Join, Size
<1>1. k + 1 \in 1 .. Len(s) /\ k + 4 \in 1 .. Len(s)
  OBVIOUS
<1>2. SubSeq(s \o t, k + 1, k + 4) = SubSeq(s, k + 1, k + 4)
  BY <1>1, SubSeqOfConcat1
<1> QED
  BY <1>2 DEF WordAt

\* Behind the front is what was appended.
LEMMA JoinBehind ==
  ASSUME NEW s \in Content, NEW t \in Content, Size(t) > 0
  PROVE  Behind(Join(s, t), Size(s)) = t
<1> USE DEF Content, Join, Size, Behind
<1>1. Len(s \o t) = Len(s) + Len(t) /\ Len(s) \in Nat /\ Len(t) \in Nat
  BY ConcatProperties
<1>2. SubSeq(s \o t, Len(s) + 1, Len(s) + Len(t))
        = SubSeq(t, Len(s) + 1 - Len(s), Len(s) + Len(t) - Len(s))
  BY <1>1, SubSeqOfConcat2
<1>3. SubSeq(t, 1, Len(t)) = t
  BY SubSeqFull
<1> QED
  BY <1>1, <1>2, <1>3

\* A word appended to a frame is read back where the frame ended.
LEMMA WordBehind ==
  ASSUME NEW s \in Content, NEW e \in Word32
  PROVE  /\ Word(e) \in Content /\ Size(Word(e)) = 4
         /\ Join(s, Word(e)) \in Content
         /\ Size(Join(s, Word(e))) = Size(s) + 4
         /\ WordAt(Join(s, Word(e)), Size(s)) = e
<1>1. Word(e) \in Content /\ Size(Word(e)) = 4
  BY ModulusType, WordType DEF Word32
<1>2. Join(s, Word(e)) \in Content /\ Size(s) \in Nat /\ Size(Join(s, Word(e))) = Size(s) + 4
  BY <1>1, JoinType
<1>3. WordAt(Join(s, Word(e)), Size(s)) = Value(Behind(Join(s, Word(e)), Size(s)))
  <2>1. SubSeq(Join(s, Word(e)), Size(s) + 1, Size(s) + 4) = Behind(Join(s, Word(e)), Size(s))
    BY <1>2 DEF Behind, Size
  <2> QED
    BY <2>1 DEF WordAt
<1>4. Behind(Join(s, Word(e)), Size(s)) = Word(e)
  BY <1>1, JoinBehind
<1> QED
  BY <1>1, <1>2, <1>3, <1>4, WordValue

\* One byte appended is the last.
LEMMA JoinLast ==
  ASSUME NEW s \in Content, NEW id \in Int
  PROVE  /\ Join(s, <<id>>) \in Content /\ Size(s) \in Nat
         /\ Size(Join(s, <<id>>)) = Size(s) + 1 /\ Join(s, <<id>>)[Size(s) + 1] = id
<1> USE DEF Content, Join, Size
<1>1. s \o <<id>> = Append(s, id)
  BY AppendIsConcat
<1>2. /\ Append(s, id) \in Seq(Int) /\ Len(s) \in Nat
      /\ Len(Append(s, id)) = Len(s) + 1 /\ Append(s, id)[Len(s) + 1] = id
  BY AppendProperties
<1> QED
  BY <1>1, <1>2, Zenon

\* The length in front and the identifier.
Start(n, id) == Join(Word(n), <<id>>)

\* A frame starts with five bytes, the last of them its identifier.
LEMMA StartFrame ==
  ASSUME NEW n \in Int, NEW id \in Int
  PROVE  Start(n, id) \in Content /\ Size(Start(n, id)) = 5 /\ Id(Start(n, id)) = id
<1>1. Word(n) \in Content /\ Size(Word(n)) = 4
  BY WordType
<1>2. /\ Start(n, id) \in Content /\ Size(Start(n, id)) = 4 + 1
      /\ Start(n, id)[4 + 1] = id
  BY <1>1, JoinLast, Zenon DEF Start
<1>3. 4 + 1 = 5
  OBVIOUS
<1> QED
  BY <1>2, <1>3, Zenon DEF Id

\* The identifier and one word behind it (a Piece).
Short(n, id, a) == Join(Start(n, id), Word(a))

\* Its index is read back.
LEMMA ShortFrame ==
  ASSUME NEW n \in Int, NEW id \in Int, NEW a \in Word32
  PROVE  /\ Short(n, id, a) \in Content /\ Size(Short(n, id, a)) = 9
         /\ Id(Short(n, id, a)) = id /\ WordAt(Short(n, id, a), 5) = a
<1>1. Start(n, id) \in Content /\ Size(Start(n, id)) = 5 /\ Id(Start(n, id)) = id
  BY StartFrame
<1>2. /\ Word(a) \in Content /\ Size(Word(a)) = 4
      /\ Join(Start(n, id), Word(a)) \in Content
      /\ Size(Join(Start(n, id), Word(a))) = 9
      /\ WordAt(Join(Start(n, id), Word(a)), 5) = a
  BY <1>1, WordBehind
<1>3. Id(Join(Start(n, id), Word(a))) = id
  BY <1>1, <1>2, JoinId
<1> QED
  BY <1>2, <1>3 DEF Short

\* One more word behind a frame that has the first k of them.
LEMMA OneMore ==
  ASSUME NEW f \in Content, Size(f) \in {9, 13, 17}, NEW e \in Word32,
         NEW g, g = Join(f, Word(e))
  PROVE  /\ g \in Content /\ Size(g) = Size(f) + 4 /\ Id(g) = Id(f)
         /\ WordAt(g, 5) = WordAt(f, 5)
         /\ Size(f) >= 13 => WordAt(g, 9) = WordAt(f, 9)
         /\ Size(f) >= 17 => WordAt(g, 13) = WordAt(f, 13)
         /\ WordAt(g, Size(f)) = e
<1>1. /\ Word(e) \in Content /\ g \in Content /\ Size(g) = Size(f) + 4
      /\ WordAt(g, Size(f)) = e
  BY WordBehind
<1>2. Id(g) = Id(f)
  BY <1>1, JoinId
<1>3. WordAt(g, 5) = WordAt(f, 5)
  BY <1>1, JoinWord
<1>4. ASSUME Size(f) >= 13 PROVE WordAt(g, 9) = WordAt(f, 9)
  BY <1>1, <1>4, JoinWord
<1>5. ASSUME Size(f) >= 17 PROVE WordAt(g, 13) = WordAt(f, 13)
  BY <1>1, <1>5, JoinWord
<1> QED
  BY <1>1, <1>2, <1>3, <1>4, <1>5

\* The identifier and four words behind it (a Request or a Cancel).
Long(n, id, a, b, c, d) ==
  Join(Join(Join(Short(n, id, a), Word(b)), Word(c)), Word(d))

\* Its four words are read back.
LEMMA LongFrame ==
  ASSUME NEW n \in Int, NEW id \in Int,
         NEW a \in Word32, NEW b \in Word32, NEW c \in Word32, NEW d \in Word32,
         NEW f, f = Long(n, id, a, b, c, d)
  PROVE  /\ f \in Content /\ Size(f) = 21 /\ Id(f) = id
         /\ WordAt(f, 5) = a /\ WordAt(f, 9) = b
         /\ WordAt(f, 13) = c /\ WordAt(f, 17) = d
<1> DEFINE f2 == Short(n, id, a)
           f3 == Join(f2, Word(b))
           f4 == Join(f3, Word(c))
           f5 == Join(f4, Word(d))
<1>1. f2 \in Content /\ Size(f2) = 9 /\ Id(f2) = id /\ WordAt(f2, 5) = a
  BY ShortFrame
<1> HIDE DEF f2
<1>2. /\ f3 \in Content /\ Size(f3) = 13 /\ Id(f3) = id
      /\ WordAt(f3, 5) = a /\ WordAt(f3, 9) = b
  BY <1>1, OneMore
<1> HIDE DEF f3
<1>3. /\ f4 \in Content /\ Size(f4) = 17 /\ Id(f4) = id
      /\ WordAt(f4, 5) = a /\ WordAt(f4, 9) = b /\ WordAt(f4, 13) = c
  BY <1>2, OneMore
<1> HIDE DEF f4
<1>4. /\ f5 \in Content /\ Size(f5) = 21 /\ Id(f5) = id
      /\ WordAt(f5, 5) = a /\ WordAt(f5, 9) = b /\ WordAt(f5, 13) = c
      /\ WordAt(f5, 17) = d
  BY <1>3, OneMore
<1> HIDE DEF f5
<1>5. f = f5
  BY DEF f5, f4, f3, f2, Long
<1> QED
  BY <1>4, <1>5

\* The shared secret of the file: twenty bytes.
LEMMA HashType == Hash \in Content /\ Size(Hash) = 20
<1>1. Hash \in [1 .. 20 -> Int] /\ DOMAIN Hash = 1 .. 20
  BY DEF Hash
<1>2. Hash \in Content
  BY <1>1, SeqDef DEF Content
<1>3. Len(Hash) \in Nat /\ DOMAIN Hash = 1 .. Len(Hash)
  BY <1>2, LenProperties DEF Content
<1> QED
  BY <1>1, <1>2, <1>3 DEF Size

\* Each message is decoded to what was encoded; the frame has the length that
\* its reader allows.
LEMMA RequestFrame ==
  ASSUME NEW a \in Word32, NEW b \in Word32, NEW c \in Word32, NEW d \in Word32,
         NEW m, m = [type |-> "request", seeder |-> a, index |-> b, begin |-> c,
                     length |-> d, hash |-> Hash]
  PROVE  Encode(m) \in Content /\ Size(Encode(m)) = 41 /\ Decode(Encode(m)) = m
<1> DEFINE f == Encode(m)
           g == Long(37, 6, a, b, c, d)
<1>1. /\ g \in Content /\ Size(g) = 21 /\ Id(g) = 6
      /\ WordAt(g, 5) = a /\ WordAt(g, 9) = b /\ WordAt(g, 13) = c /\ WordAt(g, 17) = d
  BY LongFrame
<1>2. f = Join(g, Hash)
  BY DEF Encode, Join, Start, Short, Long
<1> HIDE DEF f, g
<1>3. f \in Content /\ Size(f) = 41
  BY <1>1, <1>2, HashType, JoinType
<1>4. Id(f) = 6
  BY <1>1, <1>2, HashType, JoinId
<1>5. WordAt(f, 5) = a /\ WordAt(f, 9) = b /\ WordAt(f, 13) = c /\ WordAt(f, 17) = d
  BY <1>1, <1>2, HashType, JoinWord
<1>6. Behind(f, 21) = Hash
  BY <1>1, <1>2, HashType, JoinBehind
<1>7. SubSeq(f, 22, 41) = Hash
  <2>1. Len(f) = 41
    BY <1>3 DEF Size
  <2>2. Behind(f, 21) = SubSeq(f, 21 + 1, Len(f))
    BY DEF Behind
  <2> QED
    BY <1>6, <2>1, <2>2
<1>8. Decode(f) = m
  BY <1>4, <1>5, <1>7 DEF Decode, Id
<1> QED
  BY <1>3, <1>8 DEF f

\* A Cancel is decoded to what was encoded.
LEMMA CancelFrame ==
  ASSUME NEW a \in Word32, NEW b \in Word32, NEW c \in Word32, NEW d \in Word32,
         NEW m, m = [type |-> "cancel", seeder |-> a, index |-> b, begin |-> c, length |-> d]
  PROVE  Encode(m) \in Content /\ Size(Encode(m)) = 21 /\ Decode(Encode(m)) = m
<1> DEFINE f == Encode(m)
           g == Long(17, 8, a, b, c, d)
<1>1. /\ g \in Content /\ Size(g) = 21 /\ Id(g) = 8
      /\ WordAt(g, 5) = a /\ WordAt(g, 9) = b /\ WordAt(g, 13) = c /\ WordAt(g, 17) = d
  BY LongFrame
<1>2. f = g \o <<>>
  BY DEF Encode, Join, Start, Short, Long
<1> HIDE DEF f, g
<1>3. f = g
  BY <1>1, <1>2, ConcatEmptySeq DEF Content
<1>4. Decode(f) = m
  BY <1>1, <1>3 DEF Decode, Id
<1> QED
  BY <1>1, <1>3, <1>4 DEF f

\* A Piece is decoded to what was encoded, whatever its length.
LEMMA PieceFrame ==
  ASSUME NEW i \in Word32, NEW p \in Content, Size(p) > 0,
         NEW m, m = [type |-> "piece", index |-> i, piece |-> p]
  PROVE  Encode(m) \in Content /\ Size(Encode(m)) = 9 + Size(p) /\ Decode(Encode(m)) = m
<1> DEFINE f == Encode(m)
           g == Short(5 + Size(p), 7, i)
<1>1. f = Join(g, p)
  BY DEF Encode, Join, Start, Short, Size
<1>2. g \in Content /\ Size(g) = 9 /\ Id(g) = 7 /\ WordAt(g, 5) = i
  <2>1. 5 + Size(p) \in Int
    BY DEF Content, Size
  <2> QED
    BY <2>1, ShortFrame
<1> HIDE DEF f, g
<1>3. f \in Content /\ Size(f) = 9 + Size(p)
  BY <1>1, <1>2, JoinType
<1>4. Id(f) = 7
  BY <1>1, <1>2, JoinId
<1>5. WordAt(f, 5) = i
  BY <1>1, <1>2, JoinWord
<1>6. Behind(f, 9) = p
  BY <1>1, <1>2, JoinBehind
<1>7. Decode(f) = [type |-> "piece", index |-> WordAt(f, 5), piece |-> Behind(f, 9)]
  BY <1>4 DEF Decode, Id, Behind
<1>8. Decode(f) = m
  BY <1>5, <1>6, <1>7
<1> QED
  BY <1>3, <1>8 DEF f


-----------------------------------------------------------------------------
(* Piece lengths and positions.                                            *)

\* get_piece_length gives a u32 that a Cancel fits.
LEMMA PieceLengthType ==
  ASSUME NEW length \in Nat
  PROVE  PieceLength(length) \in Word32 /\ PieceLength(length) \in Nat
         /\ PieceLength(length) >= 12
<1> DEFINE above == {k \in 1 .. 3 : length > Limits[k]}
<1>1. Cardinality(1 .. 3) = 3 /\ IsFiniteSet(1 .. 3)
  <2>1. 1 \in Int /\ 3 \in Int
    OBVIOUS
  <2>2. IsFiniteSet(1 .. 3) /\ Cardinality(1 .. 3) = IF 1 > 3 THEN 0 ELSE 3 - 1 + 1
    BY <2>1, FS_Interval, Zenon
  <2> QED
    BY <2>2
<1>2. IsFiniteSet(above) /\ Cardinality(above) <= 3
  BY <1>1, FS_Subset
<1>3. Cardinality(above) \in Nat
  BY <1>2, FS_CardinalityType
<1> HIDE DEF above
<1>4. 1 + Cardinality(above) \in 1 .. 4
  BY <1>2, <1>3
<1>5. /\ Sizes[1 + Cardinality(above)] \in Word32
      /\ Sizes[1 + Cardinality(above)] >= 12
  <2>1. Sizes \in [1 .. 4 -> Word32]
    BY TransferAssumption, LenProperties
  <2> QED
    BY <1>4, <2>1, TransferAssumption
<1>6. PieceLength(length) = Sizes[1 + Cardinality(above)]
  BY DEF PieceLength, above
<1> QED
  BY <1>5, <1>6, ModulusType DEF Word32

\* The products that positions are made of.
LEMMA Products ==
  ASSUME NEW i \in Int, NEW j \in Int, NEW n \in Nat
  PROVE  /\ i * n \in Int /\ n * i = i * n /\ (i + 1) * n = i * n + n
         /\ (i - 1) * n = i * n - n
         /\ i >= 0 => i * n >= 0
         /\ i <= j => i * n <= j * n
         /\ i < j => i * n + n <= j * n
<1>1. i * n \in Int /\ n * i = i * n /\ (i + 1) * n = i * n + n /\ (i - 1) * n = i * n - n
  OBVIOUS
<1>2. i >= 0 => i * n >= 0
  OBVIOUS
<1>3. i <= j => i * n <= j * n
  OBVIOUS
<1>4. i < j => (i + 1) * n <= j * n
  OBVIOUS
<1> QED
  BY <1>1, <1>2, <1>3, <1>4

\* The number of pieces: enough for the file, and none is empty.
LEMMA CountBounds ==
  ASSUME NEW L \in Nat, NEW n \in Nat \ {0}, NEW K, K = (L + n - 1) \div n
  PROVE  /\ K \in Nat /\ L <= K * n
         /\ K > 0 => (K - 1) * n < L
         /\ K = 0 => L = 0
<1>1. /\ L + n - 1 \in Nat /\ K \in Nat
      /\ L + n - 1 = K * n + ((L + n - 1) % n)
      /\ (L + n - 1) % n \in 0 .. n - 1
  <2>1. L + n - 1 \in Nat
    OBVIOUS
  <2> QED
    BY <2>1, Division
<1> DEFINE r == (L + n - 1) % n
<1>2. L + n - 1 = K * n + r /\ r \in 0 .. n - 1
  BY <1>1
<1>3. K \in Nat
  BY <1>1
<1> HIDE DEF r
<1>4. (K - 1) * n = K * n - n /\ K * n \in Int
  BY <1>3
<1>5. K = 0 => K * n = 0
  OBVIOUS
<1> QED
  BY <1>2, <1>3, <1>4, <1>5

\* The number of pieces is the one that fits.
LEMMA CountUnique ==
  ASSUME NEW L \in Nat, NEW n \in Nat \ {0}, NEW K \in Nat,
         L <= K * n, (K - 1) * n < L \/ K * n = L
  PROVE  (L + n - 1) \div n = K
<1> DEFINE q == (L + n - 1) \div n
<1>1. q \in Nat /\ L <= q * n /\ (q > 0 => (q - 1) * n < L) /\ (q = 0 => L = 0)
  BY CountBounds
<1> HIDE DEF q
<1>2. /\ K * n \in Int /\ (K - 1) * n = K * n - n
      /\ q * n \in Int /\ (q - 1) * n = q * n - n
  BY <1>1, Products
<1>3. ~(q < K)
  <2> SUFFICES ASSUME q < K PROVE FALSE
    OBVIOUS
  <2>1. q * n + n <= K * n
    BY <1>1, Products
  <2> QED
    BY <1>1, <1>2, <2>1
<1>4. ~(K < q)
  <2> SUFFICES ASSUME K < q PROVE FALSE
    OBVIOUS
  <2>1. K * n + n <= q * n
    BY <1>1, Products
  <2> QED
    BY <1>1, <1>2, <2>1
<1> QED
  BY <1>1, <1>3, <1>4 DEF q

\* A byte of the file is in one of its pieces.
LEMMA ByteInPiece ==
  ASSUME NEW L \in Nat, NEW n \in Nat \ {0}, NEW K \in Nat, L <= K * n, NEW k \in 1 .. L
  PROVE  \E i \in 0 .. K - 1 : i * n < k /\ k <= i * n + n
<1> DEFINE i == (k - 1) \div n
<1>1. i \in Nat /\ k - 1 = i * n + ((k - 1) % n) /\ (k - 1) % n \in 0 .. n - 1
  <2>1. k - 1 \in Nat
    OBVIOUS
  <2> QED
    BY <2>1, Division
<1>2. i * n < k /\ k <= i * n + n
  BY <1>1
<1> HIDE DEF i
<1>3. i < K
  <2> SUFFICES ASSUME i >= K PROVE FALSE
    BY <1>1
  <2>1. K * n <= i * n /\ K * n \in Int /\ i * n \in Int
    BY <1>1, Products
  <2> QED
    BY <1>2, <2>1
<1>4. i \in 0 .. K - 1
  BY <1>1, <1>3
<1> QED
  BY <1>2, <1>4

-----------------------------------------------------------------------------
(* Files.                                                                  *)

\* A file as a function of its positions.
LEMMA SeqFun ==
  ASSUME NEW s \in Content
  PROVE  /\ Size(s) \in Nat /\ DOMAIN s = 1 .. Size(s)
         /\ \A k \in 1 .. Size(s) : s[k] \in Int
  BY LenProperties DEF Content, Size

\* A function of the first n positions as a sequence.
LEMMA FunSeq ==
  ASSUME NEW S, NEW n \in Nat, NEW f \in [1 .. n -> S]
  PROVE  f \in Seq(S) /\ Size(f) = n
<1>1. f \in Seq(S)
  BY SeqDef
<1>2. Len(f) \in Nat /\ DOMAIN f = 1 .. Len(f)
  BY <1>1, LenProperties
<1>3. DOMAIN f = 1 .. n
  OBVIOUS
<1> QED
  BY <1>1, <1>2, <1>3 DEF Size

\* Files of the same bytes are the same.
LEMMA SameBytes ==
  ASSUME NEW s \in Content, NEW t \in Content, Size(s) = Size(t),
         \A k \in 1 .. Size(s) : s[k] = t[k]
  PROVE  s = t
  BY SeqEqual DEF Content, Size

\* A part of a file.
LEMMA BytesType ==
  ASSUME NEW s \in Content, NEW o \in Nat, NEW n \in Nat, o + n <= Size(s)
  PROVE  /\ Bytes(s, o, n) \in Content /\ Size(Bytes(s, o, n)) = n
         /\ \A k \in 1 .. n : Bytes(s, o, n)[k] = s[o + k]
<1> USE DEF Content, Size, Bytes
<1>1. Len(s) \in Nat
  BY LenProperties
<1>2. \A k \in o + 1 .. o + n : s[k] \in Int
  BY SeqFun
<1>3. SubSeq(s, o + 1, o + n) \in Seq(Int) /\ Len(SubSeq(s, o + 1, o + n)) = n
  OBVIOUS
<1> QED
  OBVIOUS

\* The larger of two numbers.
LEMMA MaxOf ==
  ASSUME NEW a \in Int, NEW b \in Int
  PROVE  Max({a, b}) = IF a >= b THEN a ELSE b
<1> DEFINE m == IF a >= b THEN a ELSE b
<1>1. m \in {a, b} /\ \A y \in {a, b} : m >= y
  OBVIOUS
<1>2. \A x \in {a, b} : (\A y \in {a, b} : x >= y) => x = m
  OBVIOUS
<1> QED
  BY <1>1, <1>2 DEF Max

\* The smaller of two numbers.
LEMMA MinOf ==
  ASSUME NEW a \in Int, NEW b \in Int
  PROVE  Min({a, b}) = IF a <= b THEN a ELSE b
<1> DEFINE m == IF a <= b THEN a ELSE b
<1>1. m \in {a, b} /\ \A y \in {a, b} : m <= y
  OBVIOUS
<1>2. \A x \in {a, b} : (\A y \in {a, b} : x <= y) => x = m
  OBVIOUS
<1> QED
  BY <1>1, <1>2 DEF Min

\* What is written is there afterwards, and what is elsewhere stays.
LEMMA Written ==
  ASSUME NEW s \in Content, NEW o \in Nat, NEW p \in Content
  PROVE  /\ WriteAt(s, o, p) \in Content
         /\ Size(WriteAt(s, o, p)) = IF Size(s) >= o + Size(p) THEN Size(s) ELSE o + Size(p)
         /\ \A k \in 1 .. Size(p) : WriteAt(s, o, p)[o + k] = p[k]
         /\ \A k \in 1 .. Size(s) :
              k <= o \/ k > o + Size(p) => WriteAt(s, o, p)[k] = s[k]
<1> DEFINE w == WriteAt(s, o, p)
           n == IF Size(s) >= o + Size(p) THEN Size(s) ELSE o + Size(p)
<1>1. /\ Size(s) \in Nat /\ Size(p) \in Nat
      /\ \A k \in 1 .. Size(s) : s[k] \in Int
      /\ \A k \in 1 .. Size(p) : p[k] \in Int
  BY SeqFun
<1>2. n \in Nat /\ n >= Size(s) /\ n >= o + Size(p)
  BY <1>1
<1>3. Max({Len(s), o + Len(p)}) = n
  BY <1>1, MaxOf DEF Size
<1> HIDE DEF n
<1>4. w = [k \in 1 .. n |->
             IF k > o /\ k <= o + Size(p) THEN p[k - o]
             ELSE IF k <= Size(s) THEN s[k] ELSE 0]
  BY <1>3 DEF WriteAt, Hole, Size
<1> HIDE DEF w
<1>5. w \in [1 .. n -> Int]
  BY <1>1, <1>2, <1>4
<1>6. w \in Content /\ Size(w) = n
  BY <1>2, <1>5, FunSeq DEF Content
<1>7. \A k \in 1 .. Size(p) : w[o + k] = p[k]
  BY <1>1, <1>2, <1>4
<1>8. \A k \in 1 .. Size(s) : k <= o \/ k > o + Size(p) => w[k] = s[k]
  BY <1>1, <1>2, <1>4
<1> QED
  BY <1>6, <1>7, <1>8 DEF w, n

-----------------------------------------------------------------------------
(* get_piece_hashes.                                                       *)

\* Reading a file afresh.
LEMMA ReadsAfresh ==
  ASSUME NEW of \in Content, NEW r, r = Reading(of)
  PROVE  /\ r = [of |-> r.of, at |-> r.at, got |-> r.got, hashes |-> r.hashes,
                 buf |-> r.buf]
         /\ Reads(r.of, r.at, r.got, r.hashes, r.buf)
         /\ r.of = of /\ Size(r.buf) = PieceLength(Size(of))
<1> DEFINE n == PieceLength(Size(of))
           buf == [k \in 1 .. n |-> 0]
<1>1. Size(of) \in Nat
  BY SeqFun
<1>2. n \in Nat /\ n >= 12
  BY <1>1, PieceLengthType
<1>3. buf \in Content /\ Size(buf) = n
  <2> HIDE DEF n
  <2>1. buf \in [1 .. n -> Int]
    OBVIOUS
  <2> QED
    BY <1>2, <2>1, FunSeq DEF Content
<1>4. <<>> \in Seq(Content) /\ Size(<<>>) = 0
  BY DEF Size
<1>5. Whole(0, 0, <<>>, n)
  BY <1>2, <1>4 DEF Whole
<1>6. Holds(of, 0, <<>>, n, buf)
  <2> HIDE DEF n
  <2> SUFFICES ASSUME NEW j \in 1 .. n PROVE buf[j] = 0 /\ ~(j <= 0)
    BY <1>4 DEF Holds, Hole
  <2> QED
    BY <1>2
<1>7. Reads(of, 0, 0, <<>>, buf)
  <2> HIDE DEF n, buf
  <2>1. \A k \in 1 .. Size(<<>>) : <<>>[k] = Filled(of, k)
    BY <1>4
  <2>2. 0 \in Nat /\ 0 <= Size(of) /\ 0 <= n
    BY <1>1, <1>2
  <2> QED
    BY <1>3, <1>4, <1>5, <1>6, <2>1, <2>2 DEF Reads, n
<1>8. r = [of |-> of, at |-> 0, got |-> 0, hashes |-> <<>>, buf |-> buf]
  BY DEF Reading, Hole, Size
<1> HIDE DEF n, buf
<1> QED
  BY <1>3, <1>7, <1>8 DEF n

\* What a read adds to the vector.
LEMMA ReadsOn ==
  ASSUME NEW of, NEW at, NEW got, NEW hashes, NEW buf, Reads(of, at, got, hashes, buf),
         at # Size(of), NEW m \in Nat \ {0}, m <= Size(buf) - got, m <= Size(of) - at,
         NEW new, new = [k \in DOMAIN buf |->
           IF k > got /\ k <= got + m THEN of[at + k - got] ELSE buf[k]]
  PROVE  /\ Reads(of, at + m, got + m, hashes, new) /\ Size(new) = Size(buf)
<1> DEFINE n == PieceLength(Size(of))
           h == Size(hashes) * n
<1>1. /\ of \in Content /\ at \in Nat /\ got \in Nat
      /\ hashes \in Seq(Content) /\ buf \in Content
      /\ Size(buf) = n /\ at <= Size(of) /\ got <= n
      /\ \A k \in 1 .. Size(hashes) : hashes[k] = Filled(of, k)
  BY DEF Reads
<1>2. Whole(at, got, hashes, n) /\ Holds(of, got, hashes, n, buf)
  BY DEF Reads, Ended
<1>3. /\ Size(of) \in Nat /\ \A k \in 1 .. Size(of) : of[k] \in Int
      /\ Size(buf) \in Nat /\ DOMAIN buf = 1 .. Size(buf)
      /\ \A k \in 1 .. Size(buf) : buf[k] \in Int
  BY <1>1, SeqFun
<1>4. Size(hashes) \in Nat
  BY <1>1, LenProperties DEF Size
<1> HIDE DEF n
<1>5. h \in Nat
  BY <1>1, <1>3, <1>4, Products
<1>6. at = h + got
  BY <1>2 DEF Whole
<1> HIDE DEF h
<1>7. new \in [1 .. n -> Int]
  BY <1>1, <1>3
<1>8. new \in Content /\ Size(new) = n
  BY <1>1, <1>3, <1>7, FunSeq DEF Content
<1>9. Whole(at + m, got + m, hashes, n)
  BY <1>1, <1>5, <1>6 DEF Whole, h
<1>10. Holds(of, got + m, hashes, n, new)
  <2> SUFFICES ASSUME NEW j \in 1 .. n
               PROVE  new[j] = IF j <= got + m THEN of[h + j]
                               ELSE IF Size(hashes) = 0 THEN Hole
                               ELSE of[(Size(hashes) - 1) * n + j]
    BY DEF Holds, h
  <2>1. buf[j] = IF j <= got THEN of[h + j]
                 ELSE IF Size(hashes) = 0 THEN Hole
                 ELSE of[(Size(hashes) - 1) * n + j]
    BY <1>2 DEF Holds, h
  <2>2. new[j] = IF j > got /\ j <= got + m THEN of[at + j - got] ELSE buf[j]
    BY <1>1, <1>3
  <2>3. at + j - got = h + j
    BY <1>1, <1>5, <1>6, <1>3
  <2>4. j \in Int /\ got \in Int /\ m \in Int
    BY <1>1, <1>3
  <2> QED
    BY <2>1, <2>2, <2>3, <2>4
<1>11. at + m \in Nat /\ got + m \in Nat /\ at + m <= Size(of) /\ got + m <= n
  BY <1>1, <1>3
<1> QED
  BY <1>1, <1>8, <1>9, <1>10, <1>11 DEF Reads, n

\* A vector that is hashed is that of its piece, whatever it was filled by.
LEMMA ReadsHash ==
  ASSUME NEW of, NEW at, NEW got, NEW hashes, NEW buf, Reads(of, at, got, hashes, buf),
         got > 0, got = Size(buf) \/ at = Size(of),
         NEW more, more = Append(hashes, buf)
  PROVE  Reads(of, at, 0, more, buf)
<1> DEFINE n == PieceLength(Size(of))
           H == Size(hashes)
<1>1. /\ of \in Content /\ at \in Nat /\ got \in Nat
      /\ hashes \in Seq(Content) /\ buf \in Content
      /\ Size(buf) = n /\ at <= Size(of) /\ got <= n
      /\ \A k \in 1 .. H : hashes[k] = Filled(of, k)
  BY DEF Reads
<1>2. Whole(at, got, hashes, n) /\ Holds(of, got, hashes, n, buf)
  BY DEF Reads, Ended
<1>3. Size(of) \in Nat /\ Size(buf) \in Nat /\ DOMAIN buf = 1 .. Size(buf)
  BY <1>1, SeqFun
<1>4. H \in Nat
  BY <1>1, LenProperties DEF Size
<1>5. /\ more \in Seq(Content) /\ Size(more) = H + 1
      /\ \A k \in 1 .. H : more[k] = hashes[k]
      /\ more[H + 1] = buf
  BY <1>1, AppendProperties DEF Size
<1> HIDE DEF n, H
<1>6. /\ n \in Nat /\ H * n \in Nat /\ (H + 1) * n = H * n + n
      /\ (H - 1) * n = H * n - n
  BY <1>1, <1>3, <1>4, Products
<1>7. at = H * n + got
  BY <1>2 DEF Whole, H
<1>8. \A j \in 1 .. n :
        buf[j] = IF j <= got THEN of[H * n + j]
                 ELSE IF H = 0 THEN Hole ELSE of[(H - 1) * n + j]
  BY <1>2 DEF Holds, H
<1>9. buf = Filled(of, H + 1)
  <2> DEFINE f == Filled(of, H + 1)
  <2>1. n = PieceLength(Size(of))
    BY DEF n
  <2>2. /\ f = [j \in 1 .. n |-> f[j]]
        /\ \A j \in 1 .. n :
             f[j] = IF H * n + j <= Size(of) THEN of[H * n + j]
                    ELSE IF H = 0 THEN Hole ELSE of[(H - 1) * n + j]
    <3> DEFINE k == H + 1
    <3>1. k - 1 = H /\ k - 2 = H - 1 /\ (k = 1 <=> H = 0)
      BY <1>4
    <3>2. f = Filled(of, k)
      OBVIOUS
    <3> HIDE DEF k, f
    <3>3. f = [j \in 1 .. n |->
                 IF (k - 1) * n + j <= Size(of) THEN of[(k - 1) * n + j]
                 ELSE IF k = 1 THEN Hole ELSE of[(k - 2) * n + j]]
      BY <2>1, <3>2, Zenon DEF Filled
    <3>4. f = [j \in 1 .. n |->
                 IF H * n + j <= Size(of) THEN of[H * n + j]
                 ELSE IF H = 0 THEN Hole ELSE of[(H - 1) * n + j]]
      BY <3>1, <3>3, Zenon
    <3> QED
      BY <3>4, Zenon
  <2> HIDE DEF f
  <2>3. ASSUME NEW j \in 1 .. n PROVE buf[j] = f[j]
    <3>1. j <= got <=> H * n + j <= Size(of)
      BY <1>1, <1>3, <1>6, <1>7
    <3> QED
      BY <1>8, <2>2, <3>1
  <2>4. buf = [j \in DOMAIN buf |-> buf[j]]
    BY <1>1 DEF Content
  <2> QED
    BY <1>1, <1>3, <2>2, <2>3, <2>4 DEF f
<1>10. \A k \in 1 .. Size(more) : more[k] = Filled(of, k)
  <2> SUFFICES ASSUME NEW k \in 1 .. H + 1 PROVE more[k] = Filled(of, k)
    BY <1>5
  <2>1. k \in 1 .. H \/ k = H + 1
    BY <1>4
  <2> QED
    BY <1>1, <1>5, <1>9, <2>1 DEF H
<1>11. CASE at = (H + 1) * n
  <2>1. got = n
    BY <1>1, <1>3, <1>6, <1>7, <1>11
  <2>2. Whole(at, 0, more, n)
    BY <1>1, <1>5, <1>11 DEF Whole
  <2>3. Holds(of, 0, more, n, buf)
    <3> SUFFICES ASSUME NEW j \in 1 .. n PROVE buf[j] = of[H * n + j]
      <4>1. Size(more) # 0 /\ Size(more) - 1 = H /\ \A j \in 1 .. n : ~(j <= 0)
        BY <1>4, <1>5, <1>6
      <4> QED
        BY <4>1, Zenon DEF Holds
    <3>1. j <= got
      BY <2>1, <1>6
    <3> QED
      BY <1>8, <3>1
  <2>4. 0 \in Nat /\ 0 <= n
    BY <1>6
  <2> QED
    BY <1>1, <1>5, <1>10, <2>2, <2>3, <2>4, Zenon DEF Reads, n
<1>12. CASE at # (H + 1) * n
  <2>1. ~Whole(at, 0, more, n)
    <3>1. (H + 1) * n + 0 = (H + 1) * n
      BY <1>6
    <3> QED
      BY <1>5, <1>12, <3>1 DEF Whole
  <2>2. Ended(of, at, 0, more, n)
    <3>1. at = Size(of) /\ H * n < at /\ at < (H + 1) * n
      BY <1>1, <1>3, <1>6, <1>7, <1>12
    <3>2. Size(more) = H + 1 /\ Size(more) - 1 = H
      BY <1>4, <1>5
    <3> QED
      BY <3>1, <3>2, Zenon DEF Ended
  <2>3. 0 \in Nat /\ 0 <= n
    BY <1>6
  <2> QED
    BY <1>1, <1>5, <1>10, <2>1, <2>2, <2>3, Zenon DEF Reads, n
<1> QED
  BY <1>11, <1>12

\* At the end of the file every piece of it is hashed, and no other.
LEMMA ReadsAll ==
  ASSUME NEW of, NEW at, NEW hashes, NEW buf, Reads(of, at, 0, hashes, buf), at = Size(of)
  PROVE  hashes = HashesOf(of)
<1> DEFINE n == PieceLength(Size(of))
           H == Size(hashes)
<1>1. /\ of \in Content /\ hashes \in Seq(Content) /\ at \in Nat
      /\ \A k \in 1 .. H : hashes[k] = Filled(of, k)
      /\ Whole(at, 0, hashes, n) \/ Ended(of, at, 0, hashes, n)
  BY DEF Reads
<1>2. H \in Nat /\ hashes = [k \in 1 .. H |-> hashes[k]]
  BY <1>1, LenProperties DEF Size
<1>3. n \in Nat /\ n >= 12
  BY <1>1, PieceLengthType
<1> HIDE DEF n, H
<1>4. /\ H * n \in Nat /\ (H - 1) * n = H * n - n
  BY <1>2, <1>3, Products
<1>5. at = H * n \/ ((H - 1) * n < at /\ at < H * n)
  BY <1>1, <1>4 DEF Whole, Ended, H
<1>6. (at + n - 1) \div n = H
  <2>1. n \in Nat \ {0}
    BY <1>3
  <2>2. at <= H * n /\ ((H - 1) * n < at \/ H * n = at)
    BY <1>1, <1>4, <1>5
  <2> QED
    BY <1>1, <1>2, <2>1, <2>2, CountUnique
<1>7. HashesOf(of) = [k \in 1 .. H |-> Filled(of, k)]
  BY <1>6 DEF HashesOf, Filled, Size, n
<1> QED
  BY <1>1, <1>2, <1>7

-----------------------------------------------------------------------------
(* The pieces of the file under transfer.                                  *)

\* The description both ends use, once there is one.
MetaKnown ==
  /\ source \in Content /\ Size(source) \in Lengths
  /\ meta = [file_length |-> Len(source), piece_length |-> PieceLength(Len(source)),
             pieces |-> HashesOf(source)]

\* Its fields, and the number of its pieces.
LEMMA MetaFacts ==
  ASSUME MetaKnown
  PROVE  /\ Size(source) \in Nat /\ meta.file_length = Size(source)
         /\ meta.piece_length = PieceLength(Size(source))
         /\ meta.piece_length \in Word32 /\ meta.piece_length \in Nat
         /\ meta.piece_length >= 12
         /\ NumPieces \in Nat /\ LastIndex = NumPieces - 1
         /\ NumPieces = (Size(source) + meta.piece_length - 1) \div meta.piece_length
         /\ \A i \in 1 .. NumPieces : meta.pieces[i] = Filled(source, i)
<1> DEFINE L == Size(source)
           n == PieceLength(L)
           K == (L + n - 1) \div n
<1>1. L \in Nat
  BY SeqFun DEF MetaKnown
<1>2. n \in Word32 /\ n \in Nat /\ n >= 12
  BY <1>1, PieceLengthType
<1>3. meta.file_length = L /\ meta.piece_length = n /\ meta.pieces = HashesOf(source)
  BY DEF MetaKnown, Size
<1> HIDE DEF n, L
<1>4. K \in Nat
  <2>1. n \in Nat \ {0}
    BY <1>2
  <2> QED
    BY <1>1, <2>1, CountBounds
<1> HIDE DEF K
<1>5. HashesOf(source) = [k \in 1 .. K |-> Filled(source, k)]
  BY DEF HashesOf, Filled, Size, K, n, L
<1>6. Len(HashesOf(source)) = K
  <2> DEFINE f == [k \in 1 .. K |-> Filled(source, k)]
             S == {Filled(source, k) : k \in 1 .. K}
  <2>1. f \in [1 .. K -> S]
    OBVIOUS
  <2> HIDE DEF f, S
  <2>2. Size(f) = K
    BY <1>4, <2>1, FunSeq
  <2> QED
    BY <1>5, <2>2, Zenon DEF f, Size
<1>7. NumPieces = K
  BY <1>3, <1>6 DEF NumPieces
<1>8. \A i \in 1 .. NumPieces : meta.pieces[i] = Filled(source, i)
  BY <1>3, <1>5, <1>7
<1>9. K = (L + n - 1) \div n /\ n = PieceLength(L) /\ L = Size(source)
  BY DEF K, n, L
<1>10. LastIndex = NumPieces - 1
  BY DEF LastIndex
<1> QED
  BY <1>1, <1>2, <1>3, <1>4, <1>7, <1>8, <1>9, <1>10

\* The same of the next state.
LEMMA MetaFactsNext ==
  (MetaKnown => NumPieces \in Nat /\ LastIndex = NumPieces - 1)'
<1>1. MetaKnown => NumPieces \in Nat /\ LastIndex = NumPieces - 1
  BY MetaFacts
<1> QED
  BY <1>1, PTL

\* Where a piece of the file is, and how long it is.
LEMMA PieceFacts ==
  ASSUME MetaKnown, NEW i \in 0 .. LastIndex
  PROVE  /\ i \in Word32 /\ i \in Nat /\ NumPieces > 0
         /\ ReadLength(i) \in Nat /\ ReadLength(i) > 0
         /\ ReadLength(i) <= meta.piece_length
         /\ i * meta.piece_length \in Nat
         /\ i * meta.piece_length + ReadLength(i) <= Size(source)
         /\ \A j \in 0 .. LastIndex :
              i < j => i * meta.piece_length + meta.piece_length <= j * meta.piece_length
         /\ \A k \in 1 .. Size(source) :
              k <= i * meta.piece_length + meta.piece_length
                => k <= i * meta.piece_length + ReadLength(i)
<1> DEFINE L == Size(source)
           n == meta.piece_length
           K == NumPieces
<1>1. /\ L \in Nat /\ n \in Nat /\ n >= 12 /\ K \in Nat /\ LastIndex = K - 1
      /\ meta.file_length = L /\ K = (L + n - 1) \div n /\ n = PieceLength(L)
  BY MetaFacts
<1>2. L \in Lengths
  BY DEF MetaKnown
<1> HIDE DEF L, n, K
<1>3. i \in Nat /\ i <= K - 1 /\ K > 0
  BY <1>1
<1>4. L <= K * n /\ (K - 1) * n < L
  BY <1>1, <1>3, CountBounds
<1>5. /\ K * n \in Nat /\ (K - 1) * n = K * n - n /\ n * (K - 1) = (K - 1) * n
      /\ i * n \in Nat /\ (K - 1) * n \in Nat
  <2>1. K * n \in Nat /\ (K - 1) * n = K * n - n /\ n * (K - 1) = (K - 1) * n
    BY <1>1, Products
  <2>2. i * n \in Nat
    BY <1>1, <1>3, Products
  <2>3. (K - 1) * n >= 0
    BY <1>1, <1>3, Products
  <2> QED
    BY <2>1, <2>2, <2>3, <1>1
<1>6. i < K - 1 => i * n + n <= (K - 1) * n
  BY <1>1, <1>3, Products
<1>7. i \in Word32
  <2>1. L <= Modulus * n
    BY <1>1, <1>2, IndexAssumption
  <2>2. Modulus \in Nat /\ Modulus * n \in Nat
    BY <1>1, ModulusType
  <2>3. ~(i >= Modulus)
    <3> SUFFICES ASSUME i >= Modulus PROVE FALSE
      OBVIOUS
    <3>1. Modulus * n <= i * n
      BY <1>1, <1>3, <2>2, Products
    <3>2. i * n <= (K - 1) * n
      BY <1>1, <1>3, Products
    <3> QED
      BY <1>1, <1>4, <1>5, <2>1, <2>2, <3>1, <3>2
  <2> QED
    BY <1>3, <2>2, <2>3 DEF Word32
<1>8. ReadLength(i) = IF i = K - 1 THEN L - (K - 1) * n ELSE n
  BY <1>1, <1>5 DEF ReadLength, n, L, K
<1>9. CASE i = K - 1
  <2>1. i * n = (K - 1) * n
    BY <1>9
  <2>2. ReadLength(i) = L - (K - 1) * n
    BY <1>8, <1>9
  <2>3. /\ ReadLength(i) \in Nat /\ ReadLength(i) > 0 /\ ReadLength(i) <= n
        /\ i * n + ReadLength(i) = L
    BY <1>1, <1>4, <1>5, <2>1, <2>2
  <2>4. \A j \in 0 .. LastIndex : ~(i < j)
    BY <1>1, <1>9
  <2> QED
    BY <1>3, <1>5, <1>7, <2>3, <2>4 DEF L, n, K
<1>10. CASE i # K - 1
  <2>1. ReadLength(i) = n
    BY <1>8, <1>10
  <2>2. i * n + n <= L
    BY <1>1, <1>3, <1>4, <1>5, <1>6, <1>10
  <2>3. \A j \in 0 .. LastIndex : i < j => i * n + n <= j * n
    BY <1>1, <1>3, Products
  <2>4. n \in Nat /\ n > 0
    BY <1>1
  <2> QED
    BY <1>3, <1>5, <1>7, <2>1, <2>2, <2>3, <2>4 DEF L, n, K
<1> QED
  BY <1>9, <1>10

\* A piece of full length has the hash of the source's bytes.
LEMMA FullPiece ==
  ASSUME MetaKnown, NEW i \in 0 .. LastIndex, ReadLength(i) = meta.piece_length,
         NEW k \in 1 .. meta.piece_length
  PROVE  meta.pieces[i + 1][k] = source[i * meta.piece_length + k]
<1> DEFINE n == meta.piece_length
           j == i + 1
<1>1. n = PieceLength(Size(source)) /\ Size(source) \in Nat /\ n \in Nat
  BY MetaFacts
<1>2. i \in Nat /\ i * n \in Nat /\ i * n + n <= Size(source)
  BY PieceFacts
<1>3. meta.pieces[j] = Filled(source, j)
  BY MetaFacts, <1>2
<1>4. j - 1 = i
  BY <1>2
<1>5. i * n + k <= Size(source) /\ k \in 1 .. n
  BY <1>1, <1>2
<1> HIDE DEF n, j
<1>6. Filled(source, j)[k] =
        IF (j - 1) * n + k <= Size(source) THEN source[(j - 1) * n + k]
        ELSE IF j = 1 THEN Hole ELSE source[(j - 2) * n + k]
  BY <1>1, <1>5, Zenon DEF Filled
<1>7. meta.pieces[j][k] = source[i * n + k]
  BY <1>3, <1>4, <1>5, <1>6, Zenon
<1> QED
  BY <1>7 DEF n, j

\* A position that fits a u32 is not wrapped; one that does not is nearer to the
\* start of the file.
LEMMA Positions ==
  ASSUME MetaKnown, NEW i \in 0 .. LastIndex
  PROVE  /\ Times(i, meta.piece_length) \in Word32
         /\ Times(meta.piece_length, i) = Times(i, meta.piece_length)
         /\ Times(i, meta.piece_length) \in Nat
         /\ Times(i, meta.piece_length) <= i * meta.piece_length
         /\ Fits => Times(i, meta.piece_length) = i * meta.piece_length
<1> DEFINE n == meta.piece_length
<1>1. n \in Nat /\ LastIndex \in Int
  BY MetaFacts
<1>2. i \in Nat /\ i * n \in Nat
  BY PieceFacts
<1>3. Modulus \in Nat \ {0}
  BY ModulusType
<1> HIDE DEF n
<1>4. n * i = i * n /\ n * LastIndex = LastIndex * n /\ i * n <= LastIndex * n
      /\ LastIndex * n \in Int
  BY <1>1, <1>2, Products
<1>5. /\ (i * n) % Modulus \in Nat /\ (i * n) % Modulus < Modulus
      /\ (i * n) % Modulus <= i * n
      /\ i * n < Modulus => (i * n) % Modulus = i * n
  BY <1>2, <1>3, Remainder
<1>6. Fits => i * n < Modulus
  BY <1>2, <1>3, <1>4 DEF Fits, n
<1>7. (i * n) % Modulus \in Word32
  BY <1>3, <1>5 DEF Word32
<1> QED
  BY <1>4, <1>5, <1>6, <1>7 DEF Times, n

-----------------------------------------------------------------------------
(* The reader's steps.                                                     *)

\* A step of the reader within one description.
LEMMA ReadingStep ==
  ASSUME TInv, phase \in {"describing", "redescribing"},
         UNCHANGED <<phase, meta>>, UnchangedButReader,
         reader'.of = reader.of, ReaderOK'
  PROVE  TInv'
<1>1. Typed'
  BY DEF TInv, Typed, UnchangedButReader, NumPieces, LastIndex
<1>2. PhaseOK'
  BY DEF TInv, PhaseOK, UnchangedButReader, LastIndex, NumPieces
<1>3. Exchanging'
  <2>1. \A s \in Seeders : CallOK(s) => CallOK(s)'
    BY DEF UnchangedButReader, CallOK, Answered, FromSource, Fits, LastIndex, NumPieces,
       ReadLength, Changed
  <2>2. \A m : AgainOK(m) => AgainOK(m)'
    BY DEF AgainOK, LastIndex, NumPieces
  <2> QED
    BY <2>1, <2>2 DEF TInv, Exchanging, UnchangedButReader
<1>4. (Fits => \A i \in marked : Copied(i))'
  BY DEF TInv, Fits, Copied, LastIndex, NumPieces, ReadLength, Changed, UnchangedButReader
<1> QED
  BY <1>1, <1>2, <1>3, <1>4 DEF TInv

\* A read of any number of bytes keeps the invariant.
LEMMA ReadSomeKeeps ==
  ASSUME TInv, ReadSome
  PROVE  TInv'
<1>1. /\ phase \in {"describing", "redescribing"} /\ ~Full /\ ~AtEnd
      /\ UNCHANGED <<phase, meta>> /\ UnchangedButReader
  BY DEF ReadSome
<1>2. /\ reader = [of |-> reader.of, at |-> reader.at, got |-> reader.got,
                   hashes |-> reader.hashes, buf |-> reader.buf]
      /\ Reads(reader.of, reader.at, reader.got, reader.hashes, reader.buf)
  BY DEF TInv, ReaderOK
<1>3. /\ reader.at \in Nat /\ reader.got \in Nat
      /\ Size(reader.of) \in Nat /\ Size(reader.buf) \in Nat
      /\ reader.at # Size(reader.of)
  <2>1. reader.of \in Content /\ reader.buf \in Content /\ reader.at \in Nat /\ reader.got \in Nat
    BY <1>2 DEF Reads
  <2> QED
    BY <1>1, <2>1, SeqFun DEF AtEnd, Size
<1>4. PICK m \in 1 .. Min({Len(reader.buf) - reader.got, Len(reader.of) - reader.at}) :
        reader' = [reader EXCEPT
                     !.at = @ + m, !.got = @ + m,
                     !.buf = [k \in DOMAIN @ |->
                        IF k > reader.got /\ k <= reader.got + m
                          THEN reader.of[reader.at + k - reader.got] ELSE @[k]]]
  BY DEF ReadSome
<1>5. /\ m \in Nat \ {0} /\ m <= Size(reader.buf) - reader.got
      /\ m <= Size(reader.of) - reader.at
  <2> DEFINE a == Size(reader.buf) - reader.got
             b == Size(reader.of) - reader.at
  <2>1. a \in Int /\ b \in Int
    BY <1>3
  <2>2. m \in 1 .. Min({a, b})
    BY <1>4 DEF Size
  <2> HIDE DEF a, b
  <2>3. Min({a, b}) = IF a <= b THEN a ELSE b
    BY <2>1, MinOf
  <2>4. m \in Nat \ {0} /\ m <= a /\ m <= b
    BY <2>1, <2>2, <2>3
  <2> QED
    BY <2>4 DEF a, b
<1> DEFINE new == [k \in DOMAIN reader.buf |->
                     IF k > reader.got /\ k <= reader.got + m
                       THEN reader.of[reader.at + k - reader.got] ELSE reader.buf[k]]
<1>6. reader' = [of |-> reader.of, at |-> reader.at + m, got |-> reader.got + m,
                 hashes |-> reader.hashes, buf |-> new]
  BY <1>2, <1>4
<1>7. Reads(reader.of, reader.at + m, reader.got + m, reader.hashes, new)
  BY <1>2, <1>3, <1>5, ReadsOn
<1> HIDE DEF new
<1>8. ReaderOK' /\ reader'.of = reader.of
  BY <1>6, <1>7 DEF ReaderOK
<1> QED
  BY <1>1, <1>8, ReadingStep

\* So does hashing the vector.
LEMMA HashPieceKeeps ==
  ASSUME TInv, HashPiece
  PROVE  TInv'
<1>1. /\ phase \in {"describing", "redescribing"} /\ reader.got > 0 /\ (Full \/ AtEnd)
      /\ UNCHANGED <<phase, meta>> /\ UnchangedButReader
  BY DEF HashPiece
<1>2. /\ reader = [of |-> reader.of, at |-> reader.at, got |-> reader.got,
                   hashes |-> reader.hashes, buf |-> reader.buf]
      /\ Reads(reader.of, reader.at, reader.got, reader.hashes, reader.buf)
  BY DEF TInv, ReaderOK
<1>3. reader.got = Size(reader.buf) \/ reader.at = Size(reader.of)
  BY <1>1 DEF Full, AtEnd, Size
<1> DEFINE more == Append(reader.hashes, reader.buf)
<1>4. reader' = [of |-> reader.of, at |-> reader.at, got |-> 0,
                 hashes |-> more, buf |-> reader.buf]
  BY <1>2 DEF HashPiece
<1>5. Reads(reader.of, reader.at, 0, more, reader.buf)
  BY <1>1, <1>2, <1>3, ReadsHash
<1> HIDE DEF more
<1>6. ReaderOK' /\ reader'.of = reader.of
  BY <1>4, <1>5 DEF ReaderOK
<1> QED
  BY <1>1, <1>6, ReadingStep

\* At the end the reader holds the description of what it read.
LEMMA DescriptionOf ==
  ASSUME ReaderOK, AtEnd, reader.got = 0
  PROVE  Description = [file_length |-> Len(reader.of),
                        piece_length |-> PieceLength(Len(reader.of)),
                        pieces |-> HashesOf(reader.of)]
<1>1. Reads(reader.of, reader.at, 0, reader.hashes, reader.buf)
  BY DEF ReaderOK
<1>2. reader.hashes = HashesOf(reader.of)
  BY <1>1, ReadsAll DEF AtEnd, Size
<1>3. Len(reader.buf) = PieceLength(Len(reader.of))
  BY <1>1 DEF Reads, Size
<1> QED
  BY <1>2, <1>3 DEF Description

\* And the end of the file, where the description is made.
LEMMA DescribedKeeps ==
  ASSUME TInv, Described
  PROVE  TInv'
<1>1. AtEnd /\ reader.got = 0 /\ UNCHANGED reader /\ UnchangedButReader
  BY DEF Described
<1>2. ReaderOK /\ ReaderOK'
  BY <1>1 DEF TInv, ReaderOK
<1>3. CASE phase = "describing" /\ phase' = "moving" /\ meta' = Description
  <2>1. /\ reader.of = source /\ next = 0 /\ again = {} /\ part = <<>> /\ marked = {}
        /\ \A s \in Seeders : call[s] = NoCall
    BY <1>3 DEF TInv, PhaseOK
  <2>2. MetaKnown'
    <3>1. meta' = [file_length |-> Len(source), piece_length |-> PieceLength(Len(source)),
                   pieces |-> HashesOf(source)]
      BY <1>1, <1>2, <1>3, <2>1, DescriptionOf
    <3>2. source \in Content /\ Size(source) \in Lengths /\ source' = source
      BY <1>1 DEF TInv, Typed, UnchangedButReader
    <3> QED
      BY <3>1, <3>2 DEF MetaKnown
  <2>3. NumPieces' \in Nat /\ LastIndex' = NumPieces' - 1
    BY <2>2, MetaFactsNext
  <2>4. Typed'
    BY <1>1, <1>3, <2>1, <2>3 DEF TInv, Typed, UnchangedButReader
  <2>5. PhaseOK'
    BY <1>1, <1>3, <2>2 DEF PhaseOK, MetaKnown
  <2>6. Exchanging'
    BY <1>1, <2>1 DEF Exchanging, UnchangedButReader
  <2>7. (Fits => \A i \in marked : Copied(i))'
    BY <1>1, <2>1 DEF UnchangedButReader
  <2> QED
    BY <1>2, <2>4, <2>5, <2>6, <2>7 DEF TInv
<1>4. CASE phase = "redescribing" /\ phase' = "done" /\ UNCHANGED meta
  <2>1. PhaseOK'
    BY <1>1, <1>4 DEF TInv, PhaseOK, UnchangedButReader, LastIndex, NumPieces, AtEnd
  <2>2. Typed'
    BY <1>1, <1>4 DEF TInv, Typed, UnchangedButReader, LastIndex, NumPieces
  <2>3. Exchanging'
    <3>1. \A s \in Seeders : CallOK(s) => CallOK(s)'
      BY <1>1, <1>4 DEF UnchangedButReader, CallOK, Answered, FromSource, Fits, LastIndex,
         NumPieces, ReadLength, Changed
    <3>2. \A m : AgainOK(m) => AgainOK(m)'
      BY <1>4 DEF AgainOK, LastIndex, NumPieces
    <3> QED
      BY <1>1, <3>1, <3>2 DEF TInv, Exchanging, UnchangedButReader
  <2>4. (Fits => \A i \in marked : Copied(i))'
    BY <1>1, <1>4 DEF TInv, Fits, Copied, LastIndex, NumPieces, ReadLength, Changed,
       UnchangedButReader
  <2> QED
    BY <1>2, <2>1, <2>2, <2>3, <2>4 DEF TInv
<1> QED
  BY <1>3, <1>4 DEF Described

-----------------------------------------------------------------------------
(* What a connection carries is what was sent.                             *)

\* A request, and the Cancel of it, are read back by the other end.
LEMMA AskedFrame ==
  ASSUME NEW m \in Requests
  PROVE  /\ Encode(m) \in Content /\ Size(Encode(m)) = 41 /\ Decode(Encode(m)) = m
         /\ SubSeq(Encode(m), 1, 41) = Encode(m)
         /\ Encode(CancelOf(m)) \in Content /\ Size(Encode(CancelOf(m))) = 21
         /\ Decode(Encode(CancelOf(m))) = CancelOf(m)
<1>1. PICK a \in Word32, b \in Word32, c \in Word32, d \in Word32 :
        m = [type |-> "request", seeder |-> a, index |-> b, begin |-> c, length |-> d,
             hash |-> Hash]
  <2>1. /\ m.seeder \in Word32 /\ m.index \in Word32 /\ m.begin \in Word32
        /\ m.length \in Word32
        /\ m = [type |-> "request", seeder |-> m.seeder, index |-> m.index,
                begin |-> m.begin, length |-> m.length, hash |-> Hash]
    BY DEF Requests
  <2> QED
    BY <2>1
<1>2. Encode(m) \in Content /\ Size(Encode(m)) = 41 /\ Decode(Encode(m)) = m
  BY <1>1, RequestFrame
<1>3. CancelOf(m) = [type |-> "cancel", seeder |-> a, index |-> b, begin |-> c, length |-> d]
  BY <1>1 DEF CancelOf
<1>4. /\ Encode(CancelOf(m)) \in Content /\ Size(Encode(CancelOf(m))) = 21
      /\ Decode(Encode(CancelOf(m))) = CancelOf(m)
  BY <1>3, CancelFrame
<1>5. SubSeq(Encode(m), 1, 41) = Encode(m)
  <2> DEFINE f == Encode(m)
  <2>1. f \in Seq(Int) /\ Len(f) = 41
    BY <1>2 DEF Content, Size
  <2> HIDE DEF f
  <2>2. SubSeq(f, 1, Len(f)) = f
    BY <2>1, SubSeqFull
  <2> QED
    BY <2>1, <2>2, Zenon DEF f
<1> QED
  BY <1>2, <1>4, <1>5

\* What came back is the Cancel of what was asked or the piece of it.
LEMMA AnswerFrame ==
  ASSUME MetaKnown, NEW asked \in Requests, asked.index \in 0 .. LastIndex,
         asked.length = meta.piece_length, NEW frame, Answered(asked, frame)
  PROVE  LET m == Decode(frame)
         IN  /\ Size(frame) <= asked.length + 9
             /\ m.index = asked.index
             /\ \/ m = CancelOf(asked) /\ m.type = "cancel"
                \/ /\ m.type = "piece" /\ m = PieceOf(asked.index, m.piece)
                   /\ m.piece \in Content /\ Size(m.piece) = ReadLength(asked.index)
                   /\ FromSource(asked.index, m.piece)
<1>1. meta.piece_length \in Nat /\ meta.piece_length >= 12
  BY MetaFacts
<1>2. CASE frame = Encode(CancelOf(asked))
  <2>1. Size(frame) = 21 /\ Decode(frame) = CancelOf(asked)
    BY <1>2, AskedFrame
  <2>2. CancelOf(asked).type = "cancel" /\ CancelOf(asked).index = asked.index
    BY DEF CancelOf
  <2>3. Size(frame) <= asked.length + 9
    BY <1>1, <2>1
  <2> QED
    BY <2>1, <2>2, <2>3, Zenon
<1>3. ASSUME NEW p \in Content, Size(p) = ReadLength(asked.index),
             FromSource(asked.index, p), frame = Encode(PieceOf(asked.index, p))
      PROVE  /\ Size(frame) <= asked.length + 9
             /\ Decode(frame) = PieceOf(asked.index, p)
  <2>1. /\ asked.index \in Word32 /\ Size(p) > 0 /\ Size(p) \in Nat
        /\ Size(p) <= meta.piece_length
    BY <1>3, PieceFacts
  <2>2. PieceOf(asked.index, p) = [type |-> "piece", index |-> asked.index, piece |-> p]
    BY DEF PieceOf
  <2>3. Size(frame) = 9 + Size(p) /\ Decode(frame) = PieceOf(asked.index, p)
    BY <1>3, <2>1, <2>2, PieceFrame
  <2> QED
    BY <1>1, <2>1, <2>3
<1>4. ASSUME NEW p \in Content, Size(p) = ReadLength(asked.index),
             FromSource(asked.index, p), frame = Encode(PieceOf(asked.index, p))
      PROVE  LET m == Decode(frame)
             IN  /\ m.type = "piece" /\ m.index = asked.index
                 /\ m = PieceOf(asked.index, m.piece)
                 /\ m.piece \in Content /\ Size(m.piece) = ReadLength(asked.index)
                 /\ FromSource(asked.index, m.piece)
  <2>1. Decode(frame) = PieceOf(asked.index, p)
    BY <1>3, <1>4
  <2>2. /\ PieceOf(asked.index, p).type = "piece"
        /\ PieceOf(asked.index, p).index = asked.index
        /\ PieceOf(asked.index, p).piece = p
    BY DEF PieceOf
  <2> QED
    BY <1>4, <2>1, <2>2, Zenon
<1> QED
  BY <1>2, <1>3, <1>4, Zenon DEF Answered

-----------------------------------------------------------------------------
(* The steps of the transfer.                                              *)

\* Once the phase is behind describing the description is known.
LEMMA Known ==
  ASSUME TInv, phase # "describing"
  PROVE  MetaKnown
  BY DEF TInv, Typed, PhaseOK, MetaKnown

\* What a step leaves alone when the description and the copy stay.
LEMMA MovingStep ==
  ASSUME TInv, phase = "moving", phase' \in {"moving", "failed"},
         UNCHANGED <<checked, source, reader, meta, part, marked>>,
         Changed # {} => Changed' # {},
         disk' \in [Seeders -> Content], listed' \subseteq Seeders, sending' \in BOOLEAN,
         next' \in next .. NumPieces, DOMAIN call' = Seeders,
         \A s \in Seeders : \/ call'[s] = call[s] \/ call'[s] = NoCall
                            \/ next' > 0 /\ CallOK(s)',
         \A m \in again' : m \in again \/ (next' > 0 /\ AgainOK(m))
  PROVE  TInv'
<1>1. next \in Nat /\ NumPieces \in Nat
  BY Known, MetaFacts DEF TInv, Typed
<1>2. Typed'
  BY <1>1 DEF TInv, Typed, NumPieces, LastIndex
<1>3. ReaderOK'
  BY DEF TInv, ReaderOK
<1>4. PhaseOK'
  BY DEF TInv, PhaseOK
<1>5. Exchanging'
  <2>1. ASSUME NEW s \in Seeders, call'[s] # NoCall PROVE next' > 0 /\ CallOK(s)'
    <3>1. CASE call'[s] = call[s]
      <4>1. next > 0 /\ CallOK(s)
        BY <2>1, <3>1 DEF TInv, Exchanging
      <4>2. CallOK(s)'
        BY <3>1, <4>1 DEF CallOK, Answered, FromSource, Fits, LastIndex, NumPieces,
           ReadLength
      <4> QED
        BY <1>1, <4>1, <4>2
    <3> QED
      BY <2>1, <3>1
  <2>2. ASSUME NEW m \in again' PROVE next' > 0 /\ AgainOK(m)'
    <3>1. next' > 0 /\ AgainOK(m)
      BY <1>1 DEF TInv, Exchanging
    <3> QED
      BY <3>1 DEF AgainOK, LastIndex, NumPieces
  <2> QED
    BY <2>1, <2>2 DEF Exchanging
<1>6. (Fits => \A i \in marked : Copied(i))'
  BY DEF TInv, Fits, Copied, LastIndex, NumPieces, ReadLength
<1> QED
  BY <1>2, <1>3, <1>4, <1>5, <1>6 DEF TInv

\* A request that is placed is carried as it was made.
LEMMA Placed ==
  ASSUME NEW s \in Seeders, NEW m \in Requests, m.index \in 0 .. LastIndex,
         m.length = meta.piece_length, DOMAIN call = Seeders, Place(s, m), UNCHANGED meta
  PROVE  /\ DOMAIN call' = Seeders /\ CallOK(s)'
         /\ \A t \in Seeders : t = s \/ call'[t] = call[t]
<1>1. call' = [call EXCEPT ![s] = [asked |-> m, at |-> "seeder", frame |-> Encode(m)]]
  BY DEF Place
<1>2. /\ DOMAIN call' = Seeders
      /\ call'[s] = [asked |-> m, at |-> "seeder", frame |-> Encode(m)]
      /\ \A t \in Seeders : t = s \/ call'[t] = call[t]
  BY <1>1
<1>3. CallOK(s)'
  BY <1>2 DEF CallOK, LastIndex, NumPieces
<1> QED
  BY <1>2, <1>3

\* A request for a piece of the file fits its fields.
LEMMA RequestType ==
  ASSUME MetaKnown, NEW s \in Seeders, NEW i \in 0 .. LastIndex, NEW b \in Word32
  PROVE  /\ Request(s, i, b, meta.piece_length) \in Requests
         /\ Request(s, i, b, meta.piece_length).index = i
         /\ Request(s, i, b, meta.piece_length).length = meta.piece_length
<1>1. s \in Word32
  BY TransferAssumption
<1>2. i \in Word32
  BY PieceFacts
<1>3. meta.piece_length \in Word32
  BY MetaFacts
<1> QED
  BY <1>1, <1>2, <1>3 DEF Request, Requests

\* A first request keeps the invariant.
LEMMA SendFirstKeeps ==
  ASSUME TInv, NEW s \in Seeders, SendFirst(s)
  PROVE  TInv'
<1> DEFINE m == Request(s, next, Times(meta.piece_length, next), meta.piece_length)
<1>1. /\ phase = "moving" /\ next < NumPieces /\ Place(s, m) /\ next' = next + 1
      /\ UNCHANGED <<phase, checked, source, reader, meta, disk, listed, again, part,
                     marked, sending>>
  BY DEF SendFirst
<1>2. MetaKnown
  BY <1>1, Known
<1>3. next \in 0 .. LastIndex /\ next' \in next .. NumPieces /\ next' > 0
  BY <1>1, <1>2, MetaFacts DEF TInv, Typed
<1>4. Times(meta.piece_length, next) \in Word32
  BY <1>2, <1>3, Positions
<1>5. m \in Requests /\ m.index = next /\ m.length = meta.piece_length
  BY <1>2, <1>3, <1>4, RequestType
<1> HIDE DEF m
<1>6. DOMAIN call = Seeders
  BY DEF TInv, Typed
<1>7. /\ DOMAIN call' = Seeders /\ CallOK(s)'
      /\ \A t \in Seeders : t = s \/ call'[t] = call[t]
  BY <1>1, <1>3, <1>5, <1>6, Placed
<1>8. /\ disk' \in [Seeders -> Content] /\ listed' \subseteq Seeders /\ sending' \in BOOLEAN
      /\ Changed' = Changed
  BY <1>1 DEF TInv, Typed, Changed
<1> QED
  BY <1>1, <1>3, <1>7, <1>8, MovingStep

\* So does a request of a piece that was refused or cancelled.
LEMMA SendAgainKeeps ==
  ASSUME TInv, NEW s \in Seeders, NEW a \in again, SendAgain(s, a)
  PROVE  TInv'
<1>1. /\ phase = "moving" /\ again' = again \ {a}
      /\ UNCHANGED <<phase, checked, source, reader, meta, disk, listed, next, part,
                     marked, sending>>
  BY DEF SendAgain
<1>2. MetaKnown
  BY <1>1, Known
<1>3. next > 0 /\ AgainOK(a) /\ next \in 0 .. NumPieces /\ NumPieces \in Nat
  BY <1>2, MetaFacts DEF TInv, Typed, Exchanging
<1>4. a.index \in 0 .. LastIndex
  BY <1>3 DEF AgainOK
<1>5. PICK m \in Requests :
        m.index \in 0 .. LastIndex /\ m.length = meta.piece_length /\ Place(s, m)
  <2>1. CASE a.type = "piece"
    <3>1. Place(s, Request(s, a.index, Times(meta.piece_length, a.index), meta.piece_length))
      BY <2>1 DEF SendAgain
    <3>2. Times(meta.piece_length, a.index) \in Word32
      BY <1>2, <1>4, Positions
    <3> QED
      BY <1>2, <1>4, <3>1, <3>2, RequestType
  <2>2. CASE a.type # "piece"
    <3>1. Place(s, Request(s, a.index, a.begin, a.length))
      BY <2>2 DEF SendAgain
    <3>2. a.begin \in Word32 /\ a.length = meta.piece_length
      BY <1>3, <2>2 DEF AgainOK
    <3> QED
      BY <1>2, <1>4, <3>1, <3>2, RequestType
  <2> QED
    BY <2>1, <2>2
<1>6. DOMAIN call = Seeders
  BY DEF TInv, Typed
<1>7. /\ DOMAIN call' = Seeders /\ CallOK(s)'
      /\ \A t \in Seeders : t = s \/ call'[t] = call[t]
  BY <1>1, <1>5, <1>6, Placed
<1>8. /\ disk' \in [Seeders -> Content] /\ listed' \subseteq Seeders /\ sending' \in BOOLEAN
      /\ Changed' = Changed /\ next' > 0 /\ next' \in next .. NumPieces
  BY <1>1, <1>3 DEF TInv, Typed, Changed
<1> QED
  BY <1>1, <1>7, <1>8, MovingStep

\* And the end of the sending task.
LEMMA SendPanicsKeeps ==
  ASSUME TInv, SendPanics
  PROVE  TInv'
<1>1. /\ phase = "moving" /\ sending' = FALSE
      /\ UNCHANGED <<phase, checked, source, reader, meta, disk, listed, next, again,
                     call, part, marked>>
  BY DEF SendPanics
<1>2. next \in 0 .. NumPieces /\ NumPieces \in Nat
  BY <1>1, Known, MetaFacts DEF TInv, Typed
<1>3. /\ disk' \in [Seeders -> Content] /\ listed' \subseteq Seeders /\ sending' \in BOOLEAN
      /\ Changed' = Changed /\ DOMAIN call' = Seeders
  BY <1>1 DEF TInv, Typed, Changed
<1>4. next' \in next .. NumPieces
  BY <1>1, <1>2
<1> QED
  BY <1>1, <1>3, <1>4, MovingStep

\* The seeder's answer is the piece, if it can be read, of the file as it is.
LEMMA AnswerKeeps ==
  ASSUME TInv, NEW s \in Seeders, Answer(s)
  PROVE  TInv'
<1> DEFINE m == Decode(SubSeq(call[s].frame, 1, 41))
           offset == Times(meta.piece_length, m.index)
           n == ReadLength(m.index)
           reply == IF Readable(disk[s], offset, n)
                      THEN [type |-> "piece", index |-> m.index,
                            piece |-> Bytes(disk[s], offset, n)]
                      ELSE [type |-> "cancel", seeder |-> m.seeder, index |-> m.index,
                            begin |-> m.begin, length |-> m.length]
<1>1. /\ phase = "moving" /\ call[s] # NoCall /\ call[s].at = "seeder"
      /\ call' = [call EXCEPT ![s].at = "requester", ![s].frame = Encode(reply)]
      /\ UNCHANGED <<phase, checked, source, reader, meta, disk, listed, next, again,
                     part, marked, sending>>
  BY DEF Answer
<1>2. MetaKnown
  BY <1>1, Known
<1>3. next > 0 /\ CallOK(s) /\ next \in 0 .. NumPieces /\ NumPieces \in Nat
  BY <1>1, <1>2, MetaFacts DEF TInv, Typed, Exchanging
<1> DEFINE asked == call[s].asked
<1>4. /\ call[s] = [asked |-> asked, at |-> "seeder", frame |-> Encode(asked)]
      /\ asked \in Requests /\ asked.index \in 0 .. LastIndex
      /\ asked.length = meta.piece_length
  BY <1>1, <1>3 DEF CallOK
<1>5. m = asked
  <2>1. call[s].frame = Encode(asked)
    BY <1>4
  <2>2. SubSeq(Encode(asked), 1, 41) = Encode(asked) /\ Decode(Encode(asked)) = asked
    BY <1>4, AskedFrame
  <2> QED
    BY <2>1, <2>2, Zenon
<1> HIDE DEF m
<1>6. Answered(asked, Encode(reply))
  <2>1. CASE ~Readable(disk[s], offset, n)
    <3>1. reply = CancelOf(asked)
      BY <1>5, <2>1 DEF CancelOf
    <3> QED
      BY <3>1, Zenon DEF Answered
  <2>2. CASE Readable(disk[s], offset, n)
    <3> DEFINE p == Bytes(disk[s], offset, n)
    <3>1. /\ disk[s] \in Content /\ offset \in Nat /\ n \in Nat
          /\ Fits => offset = asked.index * meta.piece_length
          /\ n = ReadLength(asked.index)
      BY <1>2, <1>4, <1>5, PieceFacts, Positions DEF TInv, Typed
    <3> HIDE DEF n, offset
    <3>2. p \in Content /\ Size(p) = n /\ \A k \in 1 .. n : p[k] = disk[s][offset + k]
      BY <2>2, <3>1, BytesType DEF Readable, Size
    <3>3. disk[s] = source \/ Changed # {}
      BY DEF Changed
    <3> HIDE DEF p
    <3>4. FromSource(asked.index, p)
      BY <3>1, <3>2, <3>3 DEF FromSource
    <3>5. reply = PieceOf(asked.index, p)
      BY <1>5, <2>2 DEF PieceOf, p
    <3> QED
      BY <3>1, <3>2, <3>4, <3>5, Zenon DEF Answered
  <2> QED
    BY <2>1, <2>2
<1> DEFINE answer == Encode(reply)
<1> HIDE DEF reply, offset, n
<1>7. /\ DOMAIN call' = Seeders
      /\ call'[s] = [asked |-> asked, at |-> "requester", frame |-> answer]
      /\ \A t \in Seeders : t = s \/ call'[t] = call[t]
  <2>1. DOMAIN call = Seeders
    BY DEF TInv, Typed
  <2> HIDE DEF answer, asked
  <2>2. call' = [call EXCEPT ![s].at = "requester", ![s].frame = answer]
    BY <1>1 DEF answer
  <2>3. [call EXCEPT ![s].at = "requester", ![s].frame = answer]
          = [call EXCEPT ![s] = [[call[s] EXCEPT !.at = "requester"] EXCEPT !.frame = answer]]
    BY <2>1
  <2>4. [[call[s] EXCEPT !.at = "requester"] EXCEPT !.frame = answer]
          = [asked |-> asked, at |-> "requester", frame |-> answer]
    <3> DEFINE c == call[s]
               first == Encode(asked)
    <3>1. c = [asked |-> asked, at |-> "seeder", frame |-> first]
      BY <1>4
    <3> HIDE DEF c, first
    <3> DEFINE d == [c EXCEPT !.at = "requester"]
    <3>2. d = [asked |-> asked, at |-> "requester", frame |-> first]
      BY <3>1
    <3> HIDE DEF d
    <3>3. [d EXCEPT !.frame = answer] = [asked |-> asked, at |-> "requester", frame |-> answer]
      BY <3>2
    <3> QED
      BY <3>3, Zenon DEF c, d
  <2> QED
    BY <2>1, <2>2, <2>3, <2>4
<1> HIDE DEF answer, asked
<1>8. Answered(asked, answer)
  BY <1>6 DEF answer
<1>9. CallOK(s)'
  <2>1. (Answered(call[s].asked, call[s].frame))'
    <3>1. \A i : ReadLength(i)' = ReadLength(i)
      BY <1>1 DEF LastIndex, NumPieces, ReadLength
    <3>2. ASSUME NEW i, NEW p, FromSource(i, p) PROVE FromSource(i, p)'
      BY <1>1, <3>2 DEF FromSource, Fits, LastIndex, NumPieces, ReadLength, Changed
    <3>3. call'[s].asked = asked /\ call'[s].frame = answer
      BY <1>7
    <3> QED
      BY <1>8, <3>1, <3>2, <3>3 DEF Answered
  <2>2. /\ call'[s].asked = asked /\ call'[s].at = "requester"
        /\ call'[s] = [asked |-> call'[s].asked, at |-> call'[s].at,
                       frame |-> call'[s].frame]
    BY <1>7
  <2>3. LastIndex' = LastIndex
    BY <1>1 DEF LastIndex, NumPieces
  <2> QED
    BY <1>1, <1>4, <1>8, <2>1, <2>2, <2>3 DEF CallOK
<1>10. /\ disk' \in [Seeders -> Content] /\ listed' \subseteq Seeders /\ sending' \in BOOLEAN
       /\ Changed' = Changed /\ next' > 0 /\ next' \in next .. NumPieces
  BY <1>1, <1>3 DEF TInv, Typed, Changed
<1> QED
  BY <1>1, <1>7, <1>9, <1>10, MovingStep

\* A change of a seeder's file is counted by Changed.
LEMMA ChangeKeeps ==
  ASSUME TInv, NEW s \in Seeders, Change(s)
  PROVE  TInv'
<1>1. /\ phase = "moving" /\ source # <<>> /\ disk[s] = source
      /\ UNCHANGED <<phase, checked, source, reader, meta, listed, next, again, call,
                     part, marked, sending>>
  BY DEF Change
<1>2. PICK content \in {[source EXCEPT ![1] = Noise], [source EXCEPT ![Len(source)] = Noise],
                        Front(source), <<>>} :
        disk' = [disk EXCEPT ![s] = content]
  BY DEF Change
<1>3. source \in Content /\ disk \in [Seeders -> Content] /\ listed \subseteq Seeders
      /\ sending \in BOOLEAN /\ DOMAIN call = Seeders
  BY DEF TInv, Typed
<1>4. Len(source) \in Nat /\ Len(source) > 0
  BY <1>1, <1>3, EmptySeq, LenProperties DEF Content
<1>5. content \in Content
  <2>1. [source EXCEPT ![1] = Noise] \in Content
    BY <1>3, <1>4, ExceptSeq DEF Content, Noise
  <2>2. [source EXCEPT ![Len(source)] = Noise] \in Content
    BY <1>3, <1>4, ExceptSeq DEF Content, Noise
  <2>3. Front(source) \in Content
    <3>1. Front(source) = Bytes(source, 0, Len(source) - 1)
      BY <1>4 DEF Front, Bytes
    <3> QED
      BY <1>3, <1>4, <3>1, BytesType DEF Size
  <2>4. <<>> \in Content
    BY DEF Content
  <2> QED
    BY <1>2, <2>1, <2>2, <2>3, <2>4
<1>6. disk' \in [Seeders -> Content]
  BY <1>2, <1>3, <1>5
<1>7. Changed \subseteq Changed'
  <2> SUFFICES ASSUME NEW t \in Seeders, disk[t] # source PROVE disk'[t] # source'
    BY DEF Changed
  <2>1. t # s
    BY <1>1
  <2> QED
    BY <1>1, <1>2, <1>3, <2>1
<1>8. next \in 0 .. NumPieces /\ NumPieces \in Nat
  BY <1>1, Known, MetaFacts DEF TInv, Typed
<1>9. next' \in next .. NumPieces
  BY <1>1, <1>8
<1>10. Changed # {} => Changed' # {}
  BY <1>7
<1> QED
  BY <1>1, <1>3, <1>6, <1>9, <1>10, MovingStep

\* What the requester decodes is for the piece it asked for.
LEMMA ReceivedIs ==
  ASSUME TInv, NEW s \in Seeders, Arrived(s)
  PROVE  /\ phase = "moving" /\ MetaKnown /\ next > 0 /\ AgainOK(Received(s))
         /\ Received(s).index \in 0 .. LastIndex
         /\ Received(s).type = "piece" =>
              /\ Received(s).piece \in Content
              /\ Size(Received(s).piece) = ReadLength(Received(s).index)
              /\ FromSource(Received(s).index, Received(s).piece)
<1>1. phase = "moving" /\ call[s] # NoCall /\ call[s].at = "requester"
  BY DEF Arrived
<1>2. MetaKnown
  BY <1>1, Known
<1>3. next > 0 /\ CallOK(s)
  BY <1>1 DEF TInv, Exchanging
<1> DEFINE asked == call[s].asked
           frame == call[s].frame
           m == Decode(frame)
<1>4. /\ asked \in Requests /\ asked.index \in 0 .. LastIndex
      /\ asked.length = meta.piece_length /\ Answered(asked, frame)
  BY <1>1, <1>3 DEF CallOK
<1>5. asked.begin \in Word32
  BY <1>4 DEF Requests
<1>6. Received(s) = m
  BY DEF Received
<1> HIDE DEF asked, frame
<1>7. /\ m.index = asked.index
      /\ \/ m = CancelOf(asked) /\ m.type = "cancel"
         \/ /\ m.type = "piece" /\ m = PieceOf(asked.index, m.piece)
            /\ m.piece \in Content /\ Size(m.piece) = ReadLength(asked.index)
            /\ FromSource(asked.index, m.piece)
  BY <1>2, <1>4, AnswerFrame
<1> HIDE DEF m
<1>8. AgainOK(m)
  <2>1. CancelOf(asked).begin = asked.begin /\ CancelOf(asked).length = asked.length
    BY DEF CancelOf
  <2> QED
    BY <1>4, <1>5, <1>7, <2>1, Zenon DEF AgainOK
<1>9. m.type = "piece" =>
        /\ m.piece \in Content /\ Size(m.piece) = ReadLength(m.index)
        /\ FromSource(m.index, m.piece)
  BY <1>7
<1> QED
  BY <1>1, <1>2, <1>3, <1>4, <1>6, <1>7, <1>8, <1>9, Zenon

\* A piece that is refused is asked for again.
LEMMA RejectKeeps ==
  ASSUME TInv, NEW s \in Seeders, Reject(s)
  PROVE  TInv'
<1>1. /\ Arrived(s) /\ again' = again \cup {Received(s)}
      /\ call' = [call EXCEPT ![s] = NoCall]
      /\ UNCHANGED <<phase, checked, source, reader, meta, disk, listed, next, part,
                     marked, sending>>
  BY DEF Reject
<1>2. phase = "moving" /\ MetaKnown /\ next > 0 /\ AgainOK(Received(s))
  BY <1>1, ReceivedIs
<1>3. next \in 0 .. NumPieces /\ NumPieces \in Nat
  BY <1>2, MetaFacts DEF TInv, Typed
<1>4. next' \in next .. NumPieces /\ next' > 0
  BY <1>1, <1>2, <1>3
<1>5. /\ disk' \in [Seeders -> Content] /\ listed' \subseteq Seeders /\ sending' \in BOOLEAN
      /\ Changed' = Changed /\ DOMAIN call = Seeders
  BY <1>1 DEF TInv, Typed, Changed
<1>6. /\ DOMAIN call' = Seeders
      /\ \A t \in Seeders : call'[t] = call[t] \/ call'[t] = NoCall
  BY <1>1, <1>5
<1> QED
  BY <1>1, <1>2, <1>4, <1>5, <1>6, MovingStep

\* A Cancel takes the connection from the list.
LEMMA CancelledKeeps ==
  ASSUME TInv, NEW s \in Seeders, Cancelled(s)
  PROVE  TInv'
<1>1. /\ Arrived(s) /\ listed' = listed \ {s} /\ call' = [call EXCEPT ![s] = NoCall]
      /\ UNCHANGED <<checked, source, reader, meta, disk, next, part, marked, sending>>
  BY DEF Cancelled
<1>2. phase = "moving" /\ MetaKnown /\ next > 0 /\ AgainOK(Received(s))
  BY <1>1, ReceivedIs
<1>3. phase' \in {"moving", "failed"} /\ again' \subseteq again \cup {Received(s)}
  BY <1>2 DEF Cancelled
<1>4. next \in 0 .. NumPieces /\ NumPieces \in Nat
  BY <1>2, MetaFacts DEF TInv, Typed
<1>5. next' \in next .. NumPieces /\ next' > 0
  BY <1>1, <1>2, <1>4
<1>6. /\ disk' \in [Seeders -> Content] /\ listed' \subseteq Seeders /\ sending' \in BOOLEAN
      /\ Changed' = Changed /\ DOMAIN call = Seeders
  BY <1>1 DEF TInv, Typed, Changed
<1>7. /\ DOMAIN call' = Seeders
      /\ \A t \in Seeders : call'[t] = call[t] \/ call'[t] = NoCall
  BY <1>1, <1>6
<1> QED
  BY <1>1, <1>2, <1>3, <1>5, <1>6, <1>7, MovingStep

\* A piece that is written keeps every piece written before it, and is the
\* source's unless it is a short last piece of a changed file.
LEMMA AcceptCopies ==
  ASSUME TInv, NEW s \in Seeders, Accept(s), Fits, NEW j \in marked'
  PROVE  Copied(j)'
<1> DEFINE m == Received(s)
           i == m.index
           p == m.piece
           n == meta.piece_length
           o == Times(m.index, meta.piece_length)
<1>1. /\ Arrived(s) /\ m.type = "piece" /\ Verifies(m)
      /\ part' = WriteAt(part, o, p) /\ marked' = marked \cup {i}
      /\ UNCHANGED <<source, meta, disk>>
  BY DEF Accept
<1>2. /\ MetaKnown /\ i \in 0 .. LastIndex
      /\ p \in Content /\ Size(p) = ReadLength(i) /\ FromSource(i, p)
  BY <1>1, ReceivedIs
<1>3. part \in Content /\ marked \subseteq 0 .. LastIndex
  BY DEF TInv, Typed
<1>4. o = i * n /\ o \in Nat /\ n \in Nat
  BY <1>2, Positions, MetaFacts
<1>5. /\ ReadLength(i) \in Nat /\ ReadLength(i) <= n /\ i \in Nat
      /\ i * n \in Nat
      /\ \A k \in 0 .. LastIndex : i < k => i * n + n <= k * n
  BY <1>2, PieceFacts
<1>6. Verifies(m) => (Size(p) = n => p = meta.pieces[i + 1])
  BY DEF Verifies, Size
<1> HIDE DEF m, i, p, n, o
<1>7. /\ part' \in Content
      /\ Size(part') = IF Size(part) >= o + Size(p) THEN Size(part) ELSE o + Size(p)
      /\ \A k \in 1 .. Size(p) : part'[o + k] = p[k]
      /\ \A k \in 1 .. Size(part) : k <= o \/ k > o + Size(p) => part'[k] = part[k]
  BY <1>1, <1>2, <1>3, <1>4, Written
<1>8. Size(part) \in Nat /\ Size(part') \in Nat
  BY <1>3, <1>7, SeqFun
<1>9. /\ n' = n /\ Changed' = Changed /\ source' = source
      /\ \A k : ReadLength(k)' = ReadLength(k)
  BY <1>1 DEF n, Changed, ReadLength, LastIndex, NumPieces
<1>10. CASE j = i
  <2>1. i * n + ReadLength(i) <= Size(part')
    BY <1>2, <1>4, <1>5, <1>7, <1>8
  <2>2. CASE \A k \in 1 .. ReadLength(i) : p[k] = source[i * n + k]
    <3>1. \A k \in 1 .. ReadLength(i) : part'[i * n + k] = source[i * n + k]
      BY <1>2, <1>4, <1>7, <2>2
    <3> QED
      BY <1>9, <1>10, <2>1, <3>1 DEF Copied, n
  <2>3. CASE Changed # {} /\ ReadLength(i) < n
    BY <1>9, <1>10, <2>1, <2>3 DEF Copied, n
  <2>4. CASE Changed # {} /\ ReadLength(i) = n
    <3>1. p = meta.pieces[i + 1]
      BY <1>1, <1>2, <1>6, <2>4
    <3>2. \A k \in 1 .. n : meta.pieces[i + 1][k] = source[i * n + k]
      BY <1>2, <2>4, FullPiece DEF n
    <3> QED
      BY <2>2, <2>4, <3>1, <3>2, Zenon
  <2>5. (\A k \in 1 .. ReadLength(i) : p[k] = source[i * n + k]) \/ Changed # {}
    BY <1>2 DEF FromSource, n
  <2> QED
    BY <1>4, <1>5, <2>2, <2>3, <2>4, <2>5
<1>11. CASE j # i
  <2>1. j \in marked /\ Copied(j) /\ j \in 0 .. LastIndex
    BY <1>1, <1>3, <1>11 DEF TInv
  <2>2. /\ ReadLength(j) \in Nat /\ ReadLength(j) <= n /\ j \in Nat /\ j * n \in Nat
        /\ \A k \in 0 .. LastIndex : j < k => j * n + n <= k * n
    BY <1>2, <2>1, PieceFacts DEF n
  <2>3. j * n + ReadLength(j) <= Size(part)
    BY <2>1 DEF Copied, n
  <2>4. j * n + ReadLength(j) <= Size(part')
    BY <1>2, <1>4, <1>5, <1>7, <1>8, <2>2, <2>3
  <2>5. ASSUME NEW k \in 1 .. ReadLength(j) PROVE part'[j * n + k] = part[j * n + k]
    <3>1. j * n + k \in 1 .. Size(part)
      BY <1>8, <2>2, <2>3
    <3>2. j * n + k <= o \/ j * n + k > o + Size(p)
      <4>1. CASE j < i
        <5>1. j * n + n <= i * n
          BY <1>2, <2>2, <4>1
        <5> QED
          BY <1>4, <1>5, <2>2, <5>1
      <4>2. CASE i < j
        <5>1. i * n + n <= j * n
          BY <1>5, <2>1, <4>2
        <5> QED
          BY <1>2, <1>4, <1>5, <2>2, <5>1
      <4> QED
        BY <1>5, <1>11, <2>2, <4>1, <4>2
    <3> QED
      BY <1>7, <3>1, <3>2
  <2>6. \/ \A k \in 1 .. ReadLength(j) : part[j * n + k] = source[j * n + k]
        \/ ReadLength(j) < n /\ Changed # {}
    BY <2>1 DEF Copied, n
  <2>7. \/ \A k \in 1 .. ReadLength(j) : part'[j * n + k] = source[j * n + k]
        \/ ReadLength(j) < n /\ Changed # {}
    BY <2>5, <2>6, Zenon
  <2> QED
    BY <1>9, <2>4, <2>7 DEF Copied, n
<1> QED
  BY <1>10, <1>11

\* A piece that is accepted keeps the invariant; the last one starts the reader.
LEMMA AcceptKeeps ==
  ASSUME TInv, NEW s \in Seeders, Accept(s)
  PROVE  TInv'
<1> DEFINE m == Received(s)
           i == m.index
           p == m.piece
           o == Times(m.index, meta.piece_length)
<1>1. /\ Arrived(s) /\ m.type = "piece"
      /\ part' = WriteAt(part, o, p) /\ marked' = marked \cup {i}
      /\ call' = [call EXCEPT ![s] = NoCall]
      /\ UNCHANGED <<checked, source, meta, disk, listed, next, again, sending>>
  BY DEF Accept
<1>2. /\ \/ Cardinality(marked') = NumPieces /\ phase' = "redescribing"
            /\ reader' = Reading(part')
         \/ UNCHANGED <<phase, reader>>
  BY DEF Accept
<1>3. /\ phase = "moving" /\ MetaKnown /\ i \in 0 .. LastIndex
      /\ p \in Content /\ Size(p) = ReadLength(i)
  BY <1>1, ReceivedIs
<1>4. /\ part \in Content /\ marked \subseteq 0 .. LastIndex
      /\ DOMAIN call = Seeders /\ Size(part) <= Size(source)
  BY DEF TInv, Typed
<1>5. /\ o \in Nat /\ o <= i * meta.piece_length /\ meta.piece_length \in Nat
      /\ ReadLength(i) \in Nat /\ i * meta.piece_length \in Nat
      /\ i * meta.piece_length + ReadLength(i) <= Size(source)
      /\ Size(source) \in Nat /\ NumPieces \in Nat /\ LastIndex = NumPieces - 1
  BY <1>3, Positions, PieceFacts, MetaFacts
<1> HIDE DEF m, i, p, o
<1>6. /\ part' \in Content
      /\ Size(part') = IF Size(part) >= o + Size(p) THEN Size(part) ELSE o + Size(p)
  BY <1>1, <1>3, <1>4, <1>5, Written
<1>7. Size(part') <= Size(source)
  BY <1>3, <1>4, <1>5, <1>6
<1>8. marked' \subseteq 0 .. LastIndex
  BY <1>1, <1>3, <1>4
<1>9. /\ LastIndex' = LastIndex /\ NumPieces' = NumPieces
      /\ phase' \in {"moving", "redescribing"}
  BY <1>1, <1>2, <1>3 DEF LastIndex, NumPieces
<1>10. /\ DOMAIN call' = Seeders
       /\ \A t \in Seeders : call'[t] = call[t] \/ call'[t] = NoCall
  BY <1>1, <1>4
<1>11. Typed'
  BY <1>1, <1>6, <1>7, <1>8, <1>9, <1>10 DEF TInv, Typed
<1>12. ReaderOK' /\ (phase' = "redescribing" => reader'.of = part')
  <2>1. CASE reader' = Reading(part')
    BY <1>6, <2>1, ReadsAfresh DEF ReaderOK
  <2>2. CASE UNCHANGED <<phase, reader>>
    BY <1>3, <2>2 DEF TInv, ReaderOK
  <2> QED
    BY <1>2, <2>1, <2>2
<1>13. phase' = "redescribing" => marked' = 0 .. LastIndex
  <2> SUFFICES ASSUME phase' = "redescribing" PROVE marked' = 0 .. LastIndex
    OBVIOUS
  <2>1. Cardinality(marked') = NumPieces
    BY <1>2, <1>3
  <2>2. IsFiniteSet(0 .. LastIndex) /\ Cardinality(0 .. LastIndex) = NumPieces
    <3>1. 0 \in Int /\ LastIndex \in Int
      BY <1>5
    <3>2. /\ IsFiniteSet(0 .. LastIndex)
          /\ Cardinality(0 .. LastIndex)
               = IF 0 > LastIndex THEN 0 ELSE LastIndex - 0 + 1
      BY <3>1, FS_Interval, Zenon
    <3> QED
      BY <1>5, <3>2
  <2> QED
    BY <1>8, <2>1, <2>2, FS_Subset
<1>14. PhaseOK'
  BY <1>1, <1>3, <1>9, <1>12, <1>13 DEF PhaseOK, MetaKnown
<1>15. Exchanging'
  <2>1. ASSUME NEW t \in Seeders, call'[t] # NoCall PROVE next' > 0 /\ CallOK(t)'
    <3>1. call'[t] = call[t]
      BY <1>10, <2>1
    <3>2. next > 0 /\ CallOK(t)
      BY <2>1, <3>1 DEF TInv, Exchanging
    <3>3. CallOK(t)'
      BY <1>1, <3>1, <3>2 DEF CallOK, Answered, FromSource, Fits, LastIndex, NumPieces,
         ReadLength, Changed
    <3> QED
      BY <1>1, <3>2, <3>3
  <2>2. ASSUME NEW a \in again' PROVE next' > 0 /\ AgainOK(a)'
    BY <1>1, <2>2 DEF TInv, Exchanging, AgainOK, LastIndex, NumPieces
  <2> QED
    BY <2>1, <2>2 DEF Exchanging
<1>16. (Fits => \A j \in marked : Copied(j))'
  <2>1. Fits' => Fits
    BY <1>1 DEF Fits, LastIndex, NumPieces
  <2> QED
    BY <2>1, AcceptCopies
<1> QED
  BY <1>11, <1>12, <1>14, <1>15, <1>16 DEF TInv

-----------------------------------------------------------------------------
(* The invariant, and what follows from it.                                *)

\* The invariant holds at the start.
LEMMA InitHolds == Init => TInv
<1> SUFFICES ASSUME Init PROVE TInv
  OBVIOUS
<1>1. PICK L \in Lengths : source = [k \in 1 .. L |-> k]
  BY DEF Init
<1>2. source \in Content /\ Size(source) = L
  <2>1. L \in Nat
    BY TransferAssumption
  <2>2. source \in [1 .. L -> Int]
    BY <1>1, <2>1
  <2> QED
    BY <2>1, <2>2, FunSeq DEF Content
<1>3. /\ phase = "describing" /\ checked \in BOOLEAN /\ sending = TRUE
      /\ meta = [file_length |-> 0, piece_length |-> 0, pieces |-> <<>>]
      /\ disk = [s \in Seeders |-> source] /\ listed = Seeders /\ next = 0 /\ again = {}
      /\ call = [s \in Seeders |-> NoCall] /\ part = <<>> /\ marked = {}
      /\ reader = Reading(source)
  BY DEF Init
<1>4. NumPieces = 0
  BY <1>3 DEF NumPieces
<1>5. part \in Content /\ Size(part) = 0 /\ Size(source) \in Nat
  BY <1>2, <1>3, SeqFun DEF Content, Size
<1>6. Typed
  BY <1>2, <1>3, <1>4, <1>5 DEF Typed
<1>7. ReaderOK /\ reader.of = source
  BY <1>2, <1>3, ReadsAfresh DEF ReaderOK
<1>8. PhaseOK
  BY <1>3, <1>7 DEF PhaseOK
<1>9. Exchanging
  BY <1>3 DEF Exchanging
<1> QED
  BY <1>3, <1>6, <1>7, <1>8, <1>9 DEF TInv

\* Every step keeps it.
LEMMA NextHolds == TInv /\ [Next]_vars => TInv'
<1> SUFFICES ASSUME TInv, [Next]_vars PROVE TInv'
  OBVIOUS
<1>1. CASE Describe
  BY <1>1, ReadSomeKeeps, HashPieceKeeps, DescribedKeeps DEF Describe
<1>2. CASE Send
  BY <1>2, SendPanicsKeeps, SendFirstKeeps, SendAgainKeeps DEF Send
<1>3. ASSUME NEW s \in Seeders, Exchange(s) \/ Change(s) PROVE TInv'
  BY <1>3, AnswerKeeps, AcceptKeeps, RejectKeeps, CancelledKeeps, ChangeKeeps DEF Exchange
<1>4. CASE UNCHANGED vars
  <2>1. Typed'
    BY <1>4 DEF vars, TInv, Typed, NumPieces, LastIndex
  <2>2. ReaderOK'
    BY <1>4 DEF vars, TInv, ReaderOK
  <2>3. PhaseOK'
    BY <1>4 DEF vars, TInv, PhaseOK, AtEnd, NumPieces, LastIndex
  <2>4. Exchanging'
    <3>1. \A s \in Seeders : CallOK(s) => CallOK(s)'
      BY <1>4 DEF vars, CallOK, Answered, FromSource, Fits, LastIndex, NumPieces,
         ReadLength, Changed
    <3>2. \A m : AgainOK(m) => AgainOK(m)'
      BY <1>4 DEF vars, AgainOK, LastIndex, NumPieces
    <3> QED
      BY <1>4, <3>1, <3>2 DEF vars, TInv, Exchanging
  <2>5. (Fits => \A i \in marked : Copied(i))'
    BY <1>4 DEF vars, TInv, Fits, Copied, LastIndex, NumPieces, ReadLength, Changed
  <2> QED
    BY <2>1, <2>2, <2>3, <2>4, <2>5 DEF TInv
<1> QED
  BY <1>1, <1>2, <1>3, <1>4 DEF Next

\* TInv holds in every reachable state.
THEOREM TransferInvariance == Spec => []TInv
  BY InitHolds, NextHolds, PTL DEF Spec

\* TypeOK: every field keeps its type and its width, whatever is on the wire.
THEOREM FieldsHold == Spec => []TypeOK
<1>1. TInv => TypeOK
  <2> SUFFICES ASSUME TInv PROVE TypeOK
    OBVIOUS
  <2>1. reader.at \in 0 .. Len(reader.of) /\ reader.got \in 0 .. Len(reader.buf)
    <3>1. Reads(reader.of, reader.at, reader.got, reader.hashes, reader.buf)
      BY DEF TInv, ReaderOK
    <3>2. Size(reader.of) \in Nat /\ Size(reader.buf) \in Nat
      BY <3>1, SeqFun DEF Reads
    <3> QED
      BY <3>1, <3>2 DEF Reads, Size
  <2>2. meta.piece_length \in Word32 /\ meta.file_length \in Lengths \cup {0}
    <3>1. CASE phase = "describing"
      BY <3>1, ModulusType DEF TInv, PhaseOK, Word32
    <3>2. CASE phase # "describing"
      BY <3>2, Known, MetaFacts DEF MetaKnown
    <3> QED
      BY <3>1, <3>2
  <2>3. \A s \in Seeders : call[s] # NoCall => call[s].asked \in Requests
    BY DEF TInv, Exchanging, CallOK
  <2>4. again = {} \/ next > 0
    BY DEF TInv, Exchanging
  <2> QED
    BY <2>1, <2>2, <2>3, <2>4 DEF TInv, Typed, TypeOK, Size
<1> QED
  BY <1>1, TransferInvariance, PTL

\* DescriptionIsExact: however the reads of get_piece_hashes are cut, each piece of
\* the file has the one hash of its bytes, and there are no others.
THEOREM DescriptionsAreExact == Spec => []DescriptionIsExact
<1>1. TInv => DescriptionIsExact
  BY DEF TInv, PhaseOK, DescriptionIsExact
<1> QED
  BY <1>1, TransferInvariance, PTL

\* FramesFit: what each end decodes is what the other encoded, for the exchange
\* under way, within what its reader takes.
THEOREM FramesAreDecoded == Spec => []FramesFit
<1>1. TInv => FramesFit
  <2> SUFFICES ASSUME TInv, NEW s \in Seeders, call[s] # NoCall
               PROVE  IF call[s].at = "seeder"
                        THEN Len(call[s].frame) = 41 /\ Decode(call[s].frame) = call[s].asked
                        ELSE /\ Len(call[s].frame) <= Limit(s)
                             /\ Received(s).index = call[s].asked.index
                             /\ Received(s).type = "piece" =>
                                  Len(Received(s).piece) = ReadLength(Received(s).index)
    BY DEF FramesFit
  <2>1. CallOK(s) /\ MetaKnown
    BY Known DEF TInv, Exchanging, PhaseOK
  <2> DEFINE asked == call[s].asked
             frame == call[s].frame
             m == Decode(frame)
  <2>2. /\ asked \in Requests /\ asked.index \in 0 .. LastIndex
        /\ asked.length = meta.piece_length
        /\ \/ call[s].at = "seeder" /\ frame = Encode(asked)
           \/ call[s].at = "requester" /\ Answered(asked, frame)
    BY <2>1 DEF CallOK
  <2> HIDE DEF asked, frame
  <2>3. CASE call[s].at = "seeder"
    <3>1. frame = Encode(asked)
      BY <2>2, <2>3
    <3>2. Size(frame) = 41 /\ Decode(frame) = asked
      BY <2>2, <3>1, AskedFrame
    <3> QED
      BY <2>3, <3>2, Zenon DEF asked, frame, Size
  <2>4. CASE call[s].at # "seeder"
    <3>1. Answered(asked, frame)
      BY <2>2, <2>4
    <3>2. /\ Size(frame) <= asked.length + 9 /\ m.index = asked.index
          /\ \/ m.type = "cancel"
             \/ m.type = "piece" /\ Size(m.piece) = ReadLength(asked.index)
      BY <2>1, <2>2, <3>1, AnswerFrame
    <3> HIDE DEF m
    <3>3. m.type = "piece" => Size(m.piece) = ReadLength(m.index)
      BY <3>2
    <3>4. Received(s) = m /\ Limit(s) = asked.length + 9
      BY Zenon DEF Received, Limit, m, frame, asked
    <3> QED
      BY <2>4, <3>2, <3>3, <3>4, Zenon DEF asked, frame, Size
  <2> QED
    BY <2>3, <2>4
<1> QED
  BY <1>1, TransferInvariance, PTL

\* MarkedIsSource: what .info marks is in .part at its place and is the source's,
\* whatever becomes of the seeders' files, but for a short last piece.
THEOREM MarkedPiecesAreTheSource == Spec => []MarkedIsSource
<1>1. TInv => MarkedIsSource
  <2> SUFFICES ASSUME TInv, Fits, NEW i \in marked
               PROVE  LET from == i * meta.piece_length
                      IN  \/ Bytes(part, from, ReadLength(i)) = Bytes(source, from, ReadLength(i))
                          \/ ReadLength(i) < meta.piece_length /\ Changed # {}
    BY DEF MarkedIsSource
  <2>1. /\ i \in 0 .. LastIndex /\ Copied(i) /\ part \in Content
        /\ source \in Content
    BY DEF TInv, Typed
  <2>2. MetaKnown
    <3>1. CASE phase = "describing"
      BY <3>1 DEF TInv, PhaseOK
    <3> QED
      BY <3>1, Known
  <2> DEFINE from == i * meta.piece_length
             n == ReadLength(i)
  <2>3. from \in Nat /\ n \in Nat /\ from + n <= Size(source)
    BY <2>1, <2>2, PieceFacts
  <2>4. from + n <= Size(part)
    BY <2>1 DEF Copied
  <2>5. ASSUME \A k \in 1 .. n : part[from + k] = source[from + k]
        PROVE  Bytes(part, from, n) = Bytes(source, from, n)
    <3> HIDE DEF from, n
    <3>1. /\ Bytes(part, from, n) \in Content /\ Size(Bytes(part, from, n)) = n
          /\ \A k \in 1 .. n : Bytes(part, from, n)[k] = part[from + k]
      BY <2>1, <2>3, <2>4, BytesType
    <3>2. /\ Bytes(source, from, n) \in Content /\ Size(Bytes(source, from, n)) = n
          /\ \A k \in 1 .. n : Bytes(source, from, n)[k] = source[from + k]
      BY <2>1, <2>3, BytesType
    <3>3. \A k \in 1 .. n : Bytes(part, from, n)[k] = Bytes(source, from, n)[k]
      BY <2>5, <3>1, <3>2, Zenon
    <3> QED
      BY <3>1, <3>2, <3>3, SameBytes
  <2> QED
    BY <2>1, <2>5, Zenon DEF Copied
<1> QED
  BY <1>1, TransferInvariance, PTL

\* CopyIsSource: a finished copy of a file below 4 GiB is the source byte for byte
\* and is described as it, if no seeder's file changed.
THEOREM CopiesAreTheSource == Spec => []CopyIsSource
<1>1. TInv => CopyIsSource
  <2> SUFFICES ASSUME TInv, phase = "done", Fits, Changed = {}
               PROVE  part = source /\ Description = meta
    BY DEF CopyIsSource
  <2>1. /\ part \in Content /\ source \in Content /\ Size(part) <= Size(source)
        /\ reader.of = part /\ marked = 0 .. LastIndex /\ AtEnd /\ reader.got = 0
        /\ MetaKnown /\ ReaderOK
    BY Known DEF TInv, Typed, PhaseOK
  <2> DEFINE n == meta.piece_length
             K == NumPieces
             L == Size(source)
  <2>2. L \in Nat /\ n \in Nat /\ n >= 12 /\ K \in Nat /\ LastIndex = K - 1
        /\ K = (L + n - 1) \div n
    BY <2>1, MetaFacts
  <2>3. \A i \in 0 .. LastIndex :
          /\ i * n + ReadLength(i) <= Size(part)
          /\ \A k \in 1 .. ReadLength(i) : part[i * n + k] = source[i * n + k]
    BY <2>1 DEF TInv, Copied
  <2>4. \A i \in 0 .. LastIndex :
          /\ ReadLength(i) \in Nat /\ i * n \in Nat
          /\ \A k \in 1 .. L : k <= i * n + n => k <= i * n + ReadLength(i)
    BY <2>1, PieceFacts
  <2> HIDE DEF n, K, L
  <2>5. ASSUME NEW k \in 1 .. L PROVE k <= Size(part) /\ part[k] = source[k]
    <3>1. n \in Nat \ {0}
      BY <2>2
    <3>2. L <= K * n
      BY <2>2, <3>1, CountBounds
    <3>3. PICK i \in 0 .. K - 1 : i * n < k /\ k <= i * n + n
      BY <2>2, <3>1, <3>2, ByteInPiece
    <3>4. i \in 0 .. LastIndex
      BY <2>2, <3>3
    <3>5. i * n \in Nat /\ ReadLength(i) \in Nat /\ k <= i * n + ReadLength(i)
          /\ i * n + ReadLength(i) <= Size(part)
      BY <2>3, <2>4, <3>3, <3>4
    <3> DEFINE a == i * n
               j == k - a
    <3>6. j \in 1 .. ReadLength(i) /\ a + j = k
      BY <3>3, <3>5
    <3>7. part[a + j] = source[a + j]
      <4> HIDE DEF j
      <4> QED
        BY <2>3, <3>4, <3>6
    <3>8. Size(part) \in Nat
      BY <2>1, SeqFun
    <3>9. k <= Size(part)
      BY <3>5, <3>8
    <3> HIDE DEF a, j
    <3> QED
      BY <3>6, <3>7, <3>9
  <2>6. Size(part) = L
    <3>1. Size(part) \in Nat
      BY <2>1, SeqFun
    <3>2. L > 0 => L <= Size(part)
      BY <2>2, <2>5
    <3> QED
      BY <2>1, <2>2, <3>1, <3>2 DEF L
  <2>7. part = source
    <3>1. Size(part) = Size(source)
      BY <2>6 DEF L
    <3>2. \A k \in 1 .. Size(part) : part[k] = source[k]
      BY <2>5, <2>6
    <3> QED
      BY <2>1, <3>1, <3>2, SameBytes
  <2>8. Description = meta
    BY <2>1, <2>7, DescriptionOf DEF MetaKnown
  <2> QED
    BY <2>7, <2>8
<1> QED
  BY <1>1, TransferInvariance, PTL
=============================================================================
