------------------------------- MODULE MCOptoe -------------------------------
(* Two callers of a driver with its real sizes, and requests that reach     *)
(* every kind of piece: lower half, page 0, pages above, trimmed, refused,  *)
(* with several transfers in a piece, and overrunning.                      *)
EXTENDS Optoe

\* One that starts inside a later page and goes on to the next: its first piece
\* is given the length 128 - 238 = -110.
MCMisaligned == {[op |-> "read", off |-> 238, len |-> 100]}

\* Reads and writes that start inside the first 128 bytes, or at a multiple
\* of 128: the pieces of these are computed right.
MCAligned == {
  [op |-> "write", off |-> 126,   len |-> 3],
  [op |-> "read",  off |-> 100,   len |-> 300],
  [op |-> "read",  off |-> 33024, len |-> 200]}

MCRequests == MCAligned \cup MCMisaligned

BothClasses == {ONE_ADDR, TWO_ADDR}
OnlyOne == {ONE_ADDR}
=============================================================================
