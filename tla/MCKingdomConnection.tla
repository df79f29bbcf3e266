------------------------- MODULE MCKingdomConnection -------------------------
(***************************************************************************)
(* Small instances of KingdomConnection.  The safety instance has a direct *)
(* endpoint and one behind the read proxy, a poll and a read at once, two  *)
(* overlapping handshakes and two sockets, so that an old socket can close *)
(* after its successor has opened.  The recovery instance has one endpoint *)
(* and one socket, no observations, and an ordinary call beside the poll.  *)
(***************************************************************************)
EXTENDS KingdomConnection, TLC

\* Handshakes and sockets are only told apart by their own phases.
Interchangeable == Permutations(Handshakes) \cup Permutations(Socket)

=============================================================================
