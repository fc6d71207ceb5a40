------------------------------- MODULE Loans -------------------------------
(***************************************************************************)
(* What every backend of the scratch layer promises its callers: a byte is *)
(* lent to at most one borrower at a time.  A backend implements this      *)
(* specification under the refinement mapping that sends each `Carve` (or  *)
(* each plain `&mut [u8]`) the caller still holds to the bytes it names.   *)
(*                                                                         *)
(* No byte counter and no cursor appears here: how a backend picks the     *)
(* bytes it lends is its own business.                                     *)
(***************************************************************************)

CONSTANTS
  Bytes,      (* the bytes, or equal-sized groups of bytes, of the region  *)
  Borrowers   (* the names under which the caller can hold a borrow        *)

VARIABLE loans   (* the bytes each borrower holds; {} when it holds none   *)

TypeOK == loans \in [Borrowers -> SUBSET Bytes]

Init == loans = [b \in Borrowers |-> {}]

(* b, which holds nothing, is lent bytes that nobody holds. *)
Lend(b) ==
  /\ loans[b] = {}
  /\ loans'[b] \subseteq Bytes
  /\ \A c \in Borrowers : loans[c] \cap loans'[b] = {}
  /\ loans' = [loans EXCEPT ![b] = loans'[b]]

(* b's borrow ends. *)
GiveBack(b) == loans' = [loans EXCEPT ![b] = {}]

Next == \E b \in Borrowers : Lend(b) \/ GiveBack(b)

Spec == Init /\ [][Next]_loans

-----------------------------------------------------------------------------

(* No byte is held twice. *)
Exclusive ==
  \A b, c \in Borrowers : b # c => loans[b] \cap loans[c] = {}
=============================================================================
