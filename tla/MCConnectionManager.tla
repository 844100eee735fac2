----------------------- MODULE MCConnectionManager -----------------------
(* Instances of ConnectionManager for TLC. *)
EXTENDS ConnectionManager, TLC

CONSTANTS w1, w2

\* The threads of tray events and background tasks are interchangeable.
WorkerSymmetry == Permutations(Workers)
=============================================================================
