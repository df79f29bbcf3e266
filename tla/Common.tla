------------------------------- MODULE Common -------------------------------
(***************************************************************************)
(* What the components of the browser app share: the absent value, and the *)
(* choice of the first of several entries that match.                      *)
(***************************************************************************)
EXTENDS Integers

CONSTANT None   \* no value

\* What Array.find comes to first, of the positions that match.
Earliest(matching) == CHOOSE i \in matching : \A j \in matching : i <= j
=============================================================================
