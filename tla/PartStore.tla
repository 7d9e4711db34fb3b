------------------------------ MODULE PartStore ------------------------------
(***************************************************************************)
(* What a client keeps on disk under one file name: the file itself in     *)
(* resources/files, and .part, .info and .filecache in resources/cache.    *)
(* They are written by three tasks of one process: reassemble_loop of a    *)
(* download, the seeding loop that reads pieces, and the command loop that *)
(* lists and deletes.  No lock guards them, and the process may end        *)
(* between two system calls.  A path is looked up and the file it names is *)
(* written in one step: for an unlink in between the write is lost either  *)
(* way.  Two different files may have the same name (Versions); they may   *)
(* differ in length, but have pieces of the same size.                     *)
(***************************************************************************)
EXTENDS Integers, Sequences, SequencesExt, FiniteSets

CONSTANTS
  Versions,    \* the info hashes that share the name
  Sizes,       \* the number of pieces of each of them
  NumPieces,   \* bound on these numbers
  MaxCrashes,  \* bound on the crashes in a behaviour
  MaxHarms,    \* bound on the kinds of harm that come together
  Absent       \* where there is no file

Pieces == 1 .. NumPieces
Hole == "hole"   \* bytes that no piece was written to, or past the end
Content == [Pieces -> Versions \cup {Hole}]
Empty == [p \in Pieces |-> Hole]
PiecesOf(v) == 1 .. Sizes[v]
Whole(v) == [p \in Pieces |-> IF p \in PiecesOf(v) THEN v ELSE Hole]

\* The bytes of .info, and the lines of .filecache: none if it is empty, and
\* one for each hash after the header.
Status == UNION {[1 .. n -> {0, 1}] : n \in 0 .. NumPieces}
NumLines(content) ==
  CHOOSE n \in 1 .. 1 + NumPieces :
    /\ n = 1 \/ content[n - 1] # Hole
    /\ \A p \in n .. NumPieces : content[p] = Hole
Metadata == [of : Content, lines : 0 .. 1 + NumPieces]

ASSUME StoreAssumption ==
  /\ NumPieces \in Nat \ {0} /\ Sizes \in [Versions -> Pieces]
  /\ MaxCrashes \in Nat /\ MaxHarms \in Nat
  /\ Hole \notin Versions
  /\ Absent \notin Content \cup Status \cup Metadata

VARIABLES
  file, part, info, cache,  \* the four files
  known,     \* file_hashes: does the client advertise a file of the name
  main,      \* the command loop of main.rs, with TorrentClient::new
  loop,      \* reassemble_loop of the last request
  crashes,   \* how often the process has died
  history    \* what has happened that harms the files; in no line of the code

disk == <<file, part, info, cache>>
vars == <<disk, known, main, loop, crashes, history>>

Idle == [at |-> "none", next |-> "none", v |-> Absent, piece |-> 0, todo |-> {}]
Ended == {"none", "ended", "panicked"}
Deleting == {"removing file", "removing part", "removing cache", "removing info"}
Harms ==
  {"info_crash",     \* the process died between creating and filling .info
   "cache_crash",    \* ... between creating and filling .filecache
   "delete_crash",   \* ... between two of the removals of delete_file
   "deleted_under",  \* delete_file ran while a piece was being written
   "other_version",  \* .part or .info was that of another version at a request
   "replaced"}       \* build_file renamed over a file it had not seen

Happened(harms) == harms \cap history # {}
Record(harms) ==
  /\ Cardinality(history \cup harms) <= MaxHarms
  /\ history' = history \cup harms
Running == main \notin {"down", "broken"}
\* A loop that ends, or waits for its next message, forgets the last one.
LoopGoto(at) ==
  loop' = IF at \in Ended THEN [Idle EXCEPT !.at = at]
          ELSE IF at = "receiving" THEN [loop EXCEPT !.at = at, !.next = "none", !.piece = 0]
          ELSE [loop EXCEPT !.at = at]

\* The loop may still write a piece.
Active == loop.at \notin Ended /\ (loop.at = "receiving" => loop.todo # {})

Init ==
  /\ file \in {Absent} \cup {Whole(v) : v \in Versions}
  /\ part = Absent /\ info = Absent /\ cache = Absent /\ known = "none"
  /\ main = "down"
  /\ loop = Idle
  /\ crashes = 0
  /\ history = {}

-----------------------------------------------------------------------------
(* Wrong variants of the operators below, for showing that each property   *)
(* depends on the code: see the mutants of PROJECT.json.                   *)

\* One received piece is enough.
HasAnyPiece(status) == \E i \in DOMAIN status : status[i] = 1

\* The offset is that of the piece before.
WritePartShifted ==
  /\ loop.at = "writing"
  /\ LET old == IF part = Absent THEN Empty ELSE part
         p == IF loop.piece = 1 THEN 1 ELSE loop.piece - 1
     IN  part' = [old EXCEPT ![p] = loop.v]
  /\ loop' = [loop EXCEPT !.at = "loading", !.next = "mark"]
  /\ UNCHANGED <<file, info, cache, known, main, crashes, history>>

\* The byte after the one of the piece is set.
SetByteAfter(status, p) ==
  [i \in 1 .. (IF Len(status) > p + 1 THEN Len(status) ELSE p + 1) |->
     IF i = p + 1 THEN 1 ELSE IF i <= Len(status) THEN status[i] ELSE 0]

\* A new .info is used before it is filled.
LoadNewUnfilled ==
  /\ loop.at = "loading" /\ info = Absent
  /\ info' = <<>>
  /\ LoopGoto("loading")
  /\ UNCHANGED <<file, part, cache, known, main, crashes, history>>

\* .info is created anew although it exists.
LoadNewTruncates ==
  /\ loop.at = "loading"
  /\ info = Absent \/ loop.next = "mark"
  /\ info' = <<>>
  /\ LoopGoto("filling")
  /\ UNCHANGED <<file, part, cache, known, main, crashes, history>>

\* Nothing is looked up before the rename.
PrepareUnchecked ==
  /\ loop.at = "preparing"
  /\ part' = IF part = Absent THEN Empty ELSE part
  /\ info' = IF info = Absent THEN <<>> ELSE info
  /\ LoopGoto("installing")
  /\ UNCHANGED <<file, cache, known, main, crashes, history>>

\* delete_file forgets .filecache.
RemoveNoCache ==
  /\ main = "removing cache"
  /\ main' = "removing info"
  /\ UNCHANGED <<disk, known, loop, crashes, history>>

-----------------------------------------------------------------------------
(* Status, the bytes of .info.                                             *)

\* has_all_pieces: an empty status counts as complete.
HasAllPieces(status) == \A i \in DOMAIN status : status[i] = 1

\* Seek to a byte and write it; what is skipped reads as zero.
SetByte(status, p) ==
  [i \in 1 .. (IF Len(status) > p THEN Len(status) ELSE p) |->
     IF i = p THEN 1 ELSE IF i <= Len(status) THEN status[i] ELSE 0]

Marked(p) == info # Absent /\ p \in DOMAIN info /\ info[p] = 1

-----------------------------------------------------------------------------
(* A download.  file_request waits for the connections, not for this task. *)

\* Does what an earlier download left belong to another file of the name?
OtherVersion(v) ==
  \/ part # Absent /\ Range(part) \ {Hole, v} # {}
  \/ info # Absent /\ Len(info) \notin {0, Sizes[v]}

\* The connections of an earlier request are gone; its loop is left waiting.
\* What still is in the channel between them is dropped here: two loops that
\* write under one name are not modelled.
Request(v) ==
  /\ main = "prompt"
  /\ loop.at \in Ended \cup {"receiving"}
  /\ main' = "requesting"
  /\ loop' = [at |-> "receiving", next |-> "none", v |-> v, piece |-> 0,
              todo |-> PiecesOf(v)]
  /\ Record(IF OtherVersion(v) THEN {"other_version"} ELSE {})
  /\ UNCHANGED <<disk, known, crashes>>

\* All connections have ended: they failed, or the loop dropped their senders.
RequestReturns ==
  /\ main = "requesting"
  /\ main' = "prompt"
  /\ UNCHANGED <<disk, known, loop, crashes, history>>

\* Each piece is requested once, whatever .info says.
Receive(p) ==
  /\ loop.at = "receiving" /\ p \in loop.todo
  /\ loop' = [loop EXCEPT !.at = "writing", !.piece = p, !.todo = @ \ {p}]
  /\ UNCHANGED <<disk, known, main, crashes, history>>

WritePart ==
  /\ loop.at = "writing"
  /\ LET old == IF part = Absent THEN Empty ELSE part
     IN  part' = [old EXCEPT ![loop.piece] = loop.v]
  /\ loop' = [loop EXCEPT !.at = "loading", !.next = "mark"]
  /\ UNCHANGED <<file, info, cache, known, main, crashes, history>>

\* get_info_status, called by write_piece_to_part ("mark"), by the loop
\* ("check") and by build_file ("build").
LoadNew ==
  /\ loop.at = "loading" /\ info = Absent
  /\ info' = <<>>
  /\ LoopGoto("filling")
  /\ UNCHANGED <<file, part, cache, known, main, crashes, history>>

\* pieces_status is indexed; the loop breaks out, or receives again; and
\* build_file asks once more, after an await.
AfterLoad(status) ==
  LET complete == HasAllPieces(status)
  IN  CASE loop.next = "mark" ->
             IF loop.piece \in DOMAIN status THEN LoopGoto("marking")
                                             ELSE LoopGoto("panicked")
        [] loop.next = "check" ->
             IF complete THEN loop' = [loop EXCEPT !.at = "loading", !.next = "build"]
                         ELSE LoopGoto("receiving")
        [] loop.next = "build" ->
             IF complete THEN LoopGoto("preparing") ELSE LoopGoto("ended")

LoadOld ==
  /\ loop.at = "loading" /\ info # Absent
  /\ AfterLoad(info)
  /\ UNCHANGED <<disk, known, main, crashes, history>>

\* The zeros are lost with the file when it was removed in between.
Fill ==
  /\ loop.at = "filling"
  /\ LET zeros == [p \in PiecesOf(loop.v) |-> 0]
     IN  /\ info' = IF info = Absent THEN Absent ELSE zeros
         /\ AfterLoad(zeros)
  /\ UNCHANGED <<file, part, cache, known, main, crashes, history>>

Mark ==
  /\ loop.at = "marking"
  /\ info' = SetByte(IF info = Absent THEN <<>> ELSE info, loop.piece)
  /\ loop' = [loop EXCEPT !.at = "loading", !.next = "check"]
  /\ UNCHANGED <<file, part, cache, known, main, crashes, history>>

\* build_file looks up all three paths, then refuses to overwrite.
Prepare ==
  /\ loop.at = "preparing"
  /\ part' = IF part = Absent THEN Empty ELSE part
  /\ info' = IF info = Absent THEN <<>> ELSE info
  /\ LoopGoto(IF file = Absent THEN "installing" ELSE "ended")
  /\ UNCHANGED <<file, cache, known, main, crashes, history>>

Install ==
  /\ loop.at = "installing"
  /\ IF part = Absent
       THEN UNCHANGED <<file, part>> /\ LoopGoto("ended")
       ELSE file' = part /\ part' = Absent /\ LoopGoto("tidying")
  /\ history' = IF Absent \in {file, part} THEN history ELSE history \cup {"replaced"}
  /\ UNCHANGED <<info, cache, known, main, crashes>>

RemoveInfo ==
  /\ loop.at = "tidying"
  /\ info' = Absent
  /\ LoopGoto("ended")
  /\ UNCHANGED <<file, part, cache, known, main, crashes, history>>

LoopStep ==
  \/ WritePart \/ LoadNew \/ LoadOld \/ Fill \/ Mark
  \/ Prepare \/ Install \/ RemoveInfo

-----------------------------------------------------------------------------
(* A seeder answers a request for what it advertises: get_file creates the *)
(* file that it is about to read.                                          *)

Serve ==
  /\ Running /\ known # "none"
  /\ file = Absent
  /\ file' = Empty
  /\ UNCHANGED <<part, info, cache, known, main, loop, crashes, history>>

-----------------------------------------------------------------------------
(* Start-up and the command loop.  get_info_hashes makes the list for both *)
(* TorrentClient::new ("starting") and the command d ("listing").          *)

Listed == IF main = "starting" THEN "prompt" ELSE "chosen"

Start ==
  /\ main = "down"
  /\ main' = "starting"
  /\ UNCHANGED <<disk, known, loop, crashes, history>>

DeleteCommand ==
  /\ main = "prompt"
  /\ main' = "listing"
  /\ UNCHANGED <<disk, known, loop, crashes, history>>

ListNothing ==
  /\ main \in {"starting", "listing"} /\ file = Absent
  /\ main' = "prompt"
  /\ UNCHANGED <<disk, known, loop, crashes, history>>

\* An empty .filecache makes InfoHash::new panic; one that was cut later
\* is taken for that of a file with fewer pieces.
ReadCache ==
  /\ main \in {"starting", "listing"} /\ file # Absent
  /\ cache # Absent
  /\ IF cache.lines = 0
       THEN main' = "broken" /\ loop' = Idle /\ UNCHANGED known
       ELSE /\ main' = Listed
            /\ known' = IF main # "starting" THEN known
                        ELSE IF cache.lines = NumLines(cache.of) THEN "all" ELSE "cut"
            /\ UNCHANGED loop
  /\ UNCHANGED <<disk, crashes, history>>

NewCache ==
  /\ main \in {"starting", "listing"} /\ file # Absent
  /\ cache = Absent
  /\ cache' = [of |-> file, lines |-> 0]
  /\ main' = IF main = "starting" THEN "caching start" ELSE "caching list"
  /\ UNCHANGED <<file, part, info, known, loop, crashes, history>>

WriteLine ==
  /\ main \in {"caching start", "caching list"}
  /\ cache' = [cache EXCEPT !.lines = @ + 1]
  /\ IF cache'.lines < NumLines(cache.of)
       THEN UNCHANGED <<main, known>>
       ELSE IF main = "caching start"
              THEN main' = "prompt" /\ known' = "all"
              ELSE main' = "chosen" /\ UNCHANGED known
  /\ UNCHANGED <<file, part, info, loop, crashes, history>>

\* delete_file, called after the server has answered.  It looks up, and
\* creates, the three cache files first.
Delete ==
  /\ main = "chosen"
  /\ info' = IF info = Absent THEN <<>> ELSE info
  /\ part' = IF part = Absent THEN Empty ELSE part
  /\ cache' = IF cache = Absent THEN [of |-> Empty, lines |-> 0] ELSE cache
  /\ main' = IF file = Absent THEN "prompt" ELSE "removing file"
  /\ Record(IF Active THEN {"deleted_under"} ELSE {})
  /\ UNCHANGED <<file, known, loop, crashes>>

RemoveFile ==
  /\ main = "removing file"
  /\ file' = Absent
  /\ main' = "removing part"
  /\ UNCHANGED <<part, info, cache, known, loop, crashes, history>>

RemovePart ==
  /\ main = "removing part"
  /\ part' = Absent
  /\ main' = "removing cache"
  /\ UNCHANGED <<file, info, cache, known, loop, crashes, history>>

RemoveCache ==
  /\ main = "removing cache"
  /\ cache' = Absent
  /\ main' = "removing info"
  /\ UNCHANGED <<file, part, info, known, loop, crashes, history>>

\* With nothing left on disk, what has happened before does no more harm,
\* except that the client may go on advertising a cut list of hashes.
RemoveStatus ==
  /\ main = "removing info"
  /\ info' = Absent
  /\ main' = "prompt"
  /\ history' = IF Active \/ file # Absent \/ part # Absent \/ cache # Absent
                  THEN history ELSE history \cap {"cache_crash"}
  /\ UNCHANGED <<file, part, cache, known, loop, crashes>>

\* The command exit.  The runtime lets a task run to its next await, and the
\* loop has one at each message and one before build_file.
Exit ==
  /\ main = "prompt"
  /\ \/ loop.at \in Ended \cup {"receiving"}
     \/ loop.at = "loading" /\ loop.next = "build"
  /\ main' = "down" /\ loop' = Idle /\ known' = "none"
  /\ UNCHANGED <<disk, crashes, history>>

Crash ==
  /\ Running /\ crashes < MaxCrashes
  /\ crashes' = crashes + 1
  /\ main' = "down" /\ loop' = Idle /\ known' = "none"
  /\ Record((IF main \in Deleting THEN {"delete_crash"} ELSE {})
       \cup (IF main \in {"caching start", "caching list"} THEN {"cache_crash"} ELSE {})
       \cup (IF loop.at = "filling" THEN {"info_crash"} ELSE {}))
  /\ UNCHANGED disk

MainStep ==
  \/ RequestReturns \/ ListNothing \/ ReadCache \/ NewCache \/ WriteLine
  \/ Delete \/ RemoveFile \/ RemovePart \/ RemoveCache \/ RemoveStatus

Next ==
  \/ \E v \in Versions : Request(v)
  \/ \E p \in Pieces : Receive(p)
  \/ LoopStep
  \/ Serve
  \/ Start \/ DeleteCommand \/ MainStep
  \/ Exit \/ Crash

Spec == Init /\ [][Next]_vars

\* The tasks run, and each piece that was requested arrives.
Fairness ==
  /\ WF_vars(LoopStep)
  /\ WF_vars(MainStep)
  /\ \A p \in Pieces : WF_vars(Receive(p))

FairSpec == Spec /\ Fairness

-----------------------------------------------------------------------------
Loops ==
  [at : Ended \cup {"receiving", "writing", "loading", "filling", "marking",
                    "preparing", "installing", "tidying"},
   next : {"none", "mark", "check", "build"}, v : Versions \cup {Absent},
   piece : Pieces \cup {0}, todo : SUBSET Pieces]

TypeOK ==
  /\ file \in Content \cup {Absent}
  /\ part \in Content \cup {Absent}
  /\ info \in Status \cup {Absent}
  /\ cache \in Metadata \cup {Absent}
  /\ known \in {"none", "all", "cut"}
  /\ main \in {"down", "broken", "starting", "caching start", "prompt", "requesting",
               "listing", "caching list", "chosen"} \cup Deleting
  /\ loop \in Loops
  /\ crashes \in 0 .. MaxCrashes
  /\ history \subseteq Harms

\* Resumption: a piece that .info marks is in .part, whenever the process
\* dies, as long as there is a file to resume.  It fails only after delete_file
\* was cut short or ran into the writing of a piece.
MarkedIsWritten ==
  \/ file # Absent \/ main \in Deleting
  \/ Happened({"delete_crash", "deleted_under"})
  \/ \A p \in Pieces : Marked(p) => part # Absent /\ part[p] # Hole

\* What stands in resources/files is a whole file of one version, or the empty
\* one that get_file creates; crashes in write_piece_to_part and in build_file
\* change nothing about it.
InstalledIsWhole ==
  \/ Happened({"delete_crash", "deleted_under", "other_version"})
  \/ file \in {Absent, Empty} \cup {Whole(v) : v \in Versions}

\* build_file does not overwrite a file, although it looks first and renames
\* later: a file with content changes only when it is deleted.
NoOverwrite ==
  [][file' = file \/ file \in {Absent, Empty} \/ main = "removing file"]_vars

\* write_piece_to_part indexes the status it has read, and InfoHash::new
\* unwraps every line: neither fails unless a file was left half-made, or .info
\* is that of another version, which may be shorter.
PanicsOnlyAfterHarm ==
  [][/\ loop'.at = "panicked" =>
          \/ loop.at = "panicked"
          \/ Happened({"info_crash", "delete_crash", "deleted_under", "other_version"})
     /\ main' = "broken" =>
          main = "broken" \/ Happened({"cache_crash", "delete_crash", "deleted_under"})]_vars

\* The cached metadata is that of the file, and what the client advertises has
\* all the hashes.  .filecache is never compared with the file again.
CacheMatchesFile ==
  \/ Happened({"cache_crash", "delete_crash", "deleted_under", "replaced"})
  \/ main \in Deleting
  \/ /\ cache # Absent /\ file # Absent => cache.of = file
     /\ known # "cut"

\* A recorded piece stays recorded, through crashes and new requests, until
\* the file is built or deleted.
MarksKept ==
  [][\A p \in Pieces : Marked(p) =>
       Marked(p)' \/ loop.at = "tidying" \/ main = "removing info"]_vars

Restarted == loop.v # Absent /\ loop.todo = PiecesOf(loop.v)

\* With its pieces arriving, a download is built or refused, resumed after a
\* crash or not, unless the process ends, the user requests again (every piece
\* is to come) or deletes the status under it, or the status is that of another
\* version, which may be longer.
LoopEnds ==
  loop.at = "writing" ~>
    \/ loop.at \in Ended
    \/ main \in {"down", "broken"} \/ Restarted
    \/ Happened({"deleted_under", "other_version"})

\* The doc of is_file_complete: "Returns a bool whether all the pieces have
\* been received" (file_handler.rs:380).
CompleteIsReceived == loop.at = "preparing" => part = Whole(loop.v)
=============================================================================
