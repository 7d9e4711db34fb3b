------------------------------ MODULE MCTracker ------------------------------
(***************************************************************************)
(* Instances of Tracker: clients that all have the files when they start.  *)
(* A file has two pieces, so a request opens at most two connections.      *)
(***************************************************************************)
EXTENDS Tracker

CONSTANTS c1, c2, f1

MCHashesOf == [c \in Clients |-> Files]
MCNumPieces == [h \in Files |-> 2]
=============================================================================
