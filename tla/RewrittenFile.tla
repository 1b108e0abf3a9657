----------------------------- MODULE RewrittenFile -----------------------------
(***************************************************************************)
(* A file that its writer rewrites in place, as its readers meet it: it is *)
(* emptied, then filled in pieces. The collector (PcapFlows) writes its    *)
(* file like this, and the adapters (FlowCollection) read it while it does *)
(* so. The file is its two halves, each the number of the rewrite it is    *)
(* from, or Missing.                                                       *)
(***************************************************************************)
EXTENDS Integers

CONSTANT MaxWrites   \* bound: rewrites of the file

VARIABLES
  head, tail,   \* the halves
  writes        \* rewrites begun

vars == <<head, tail, writes>>

Missing == -1

\* What an earlier run of the writer left.
Init == head = 0 /\ tail = 0 /\ writes = 0

\* fopen(..., "wb") empties the file.
Truncate ==
  /\ writes < MaxWrites
  /\ tail # Missing
  /\ writes' = writes + 1
  /\ head' = Missing /\ tail' = Missing

\* Full buffers are written out as they fill.
WriteHead ==
  /\ head = Missing
  /\ head' = writes
  /\ UNCHANGED <<tail, writes>>

\* fclose writes out the rest, which is all of a short file.
WriteTail ==
  /\ tail = Missing
  /\ head' = writes /\ tail' = writes
  /\ UNCHANGED writes

Next == Truncate \/ WriteHead \/ WriteTail

Spec == Init /\ [][Next]_vars
=============================================================================
