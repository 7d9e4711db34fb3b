------------------------------ MODULE Download ------------------------------
(***************************************************************************)
(* What one file download of BearTorrent promises, without tasks, channels *)
(* or connections: pieces are recorded one at a time, a piece that the     *)
(* client can verify is recorded only with the right content, and the file *)
(* is installed only once every piece is recorded and never over a file of *)
(* the same name.  FileAssembler implements it.                            *)
(***************************************************************************)
CONSTANTS Pieces,     \* the piece indices of the requested file
          Verifiable  \* the pieces whose SHA-1 the client can compare

VARIABLES data,    \* what the .part file holds at each piece
          have,    \* the pieces the .info file marks as received
          file,    \* what resources/files holds under the file's name
          status   \* "active", "complete" or "failed"

vars == <<data, have, file, status>>

Content == {"empty", "good", "bad"}

TypeOK ==
  /\ data \in [Pieces -> Content]
  /\ have \subseteq Pieces
  /\ file \in {"absent", "foreign", "built"}
  /\ status \in {"active", "complete", "failed"}

\* Every recorded piece that can be verified has the right content.
Verified == \A p \in have \cap Verifiable : data[p] = "good"

\* A download may resume what an earlier run of the program left on disk.
Init ==
  /\ data \in [Pieces -> Content]
  /\ have \in SUBSET Pieces
  /\ Verified
  /\ file \in {"absent", "foreign"}
  /\ status = "active"

Accept(p, d) ==
  /\ status = "active"
  /\ p \in Verifiable => d = "good"
  /\ data' = [data EXCEPT ![p] = d]
  /\ have' = have \cup {p}
  /\ UNCHANGED <<file, status>>

Complete ==
  /\ status = "active"
  /\ have = Pieces
  /\ file = "absent"
  /\ file' = "built"
  /\ status' = "complete"
  /\ UNCHANGED <<data, have>>

GiveUp ==
  /\ status = "active"
  /\ status' = "failed"
  /\ UNCHANGED <<data, have, file>>

Next ==
  \/ \E p \in Pieces, d \in {"good", "bad"} : Accept(p, d)
  \/ Complete
  \/ GiveUp

Spec == Init /\ [][Next]_vars
=============================================================================
