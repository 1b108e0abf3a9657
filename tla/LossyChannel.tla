----------------------------- MODULE LossyChannel -----------------------------
(***************************************************************************)
(* What a channel of an adapter promises to who reads its messages, with   *)
(* no word on threads, flags and buffers. A channel is a set of lanes; in  *)
(* each, items are numbered as they are made, wait, and are delivered in   *)
(* batches. Items may be lost while they wait, but only the newest ones:   *)
(* never is an item lost while a newer one that already waited is kept.    *)
(*                                                                         *)
(* SampleChannel (a lane per column) and FlowCollection (one lane)         *)
(* implement this specification.                                           *)
(***************************************************************************)
EXTENDS Integers, Sequences

CONSTANT Lanes

VARIABLES
  lane,     \* lane[l]: what lane l has made, holds and has delivered
  broken,   \* the lanes that a data race has broken: they promise nothing
  repeats   \* the producer may put an item again that it has put before

vars == <<lane, broken, repeats>>

Init ==
  /\ lane = [l \in Lanes |-> [made |-> 0, waiting |-> <<>>, delivered |-> <<>>]]
  /\ broken = {}
  /\ repeats \in BOOLEAN

Oldest(seq, k) == SubSeq(seq, 1, k)

\* The next item joins those that wait, in place of the newest ones or behind
\* all of them.
Put(old, new) ==
  \E k \in 0..Len(old.waiting), n \in {old.made + 1} \cup (IF repeats THEN {old.made} ELSE {}) :
    new = [old EXCEPT !.made = n, !.waiting = Append(Oldest(@, k), n)]

Lose(old, new) ==
  \E k \in 0..Len(old.waiting) : new = [old EXCEPT !.waiting = Oldest(@, k)]

Deliver(old, new) ==
  \E k \in 0..Len(old.waiting) :
    new = [old EXCEPT !.waiting = SubSeq(@, k + 1, Len(@)),
                      !.delivered = Append(@, Oldest(old.waiting, k))]

LaneStep(old, new) == Put(old, new) \/ Lose(old, new) \/ Deliver(old, new)

\* A message is one delivery in each of its lanes: they may all step at once.
Next ==
  /\ lane' = [l \in Lanes |-> lane'[l]]
  /\ \A l \in Lanes \ broken' : lane'[l] = lane[l] \/ LaneStep(lane[l], lane'[l])
  /\ broken \subseteq broken' /\ broken' \subseteq Lanes
  /\ UNCHANGED repeats

Spec == Init /\ [][Next]_vars
=============================================================================
