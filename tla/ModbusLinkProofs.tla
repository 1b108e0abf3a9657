--------------------------- MODULE ModbusLinkProofs ---------------------------
(***************************************************************************)
(* Proofs about ModbusLink: its types; that threads whose calls do not     *)
(* overlap only ever accept the reply to their own request, and only with  *)
(* nothing left over before it; and that no reply is returned twice,       *)
(* whether calls overlap or not.                                           *)
(*                                                                         *)
(* Own answers rest on two facts. The stream stays framed: a head is       *)
(* followed by its own body, which either is there or is owed by the       *)
(* server. And a reply less than TidMod calls old carries the identifier   *)
(* that the counter had that many calls ago, so that no other call has it. *)
(* That nothing is left over rests on the order of the line: requests, the *)
(* reply the server owes and the pieces to read stand in the order of the  *)
(* calls. That no reply is returned twice needs neither: the number of a   *)
(* call is in one place at a time.                                         *)
(***************************************************************************)
EXTENDS ModbusLink, TLAPS

\* What the counter n says of a reply or request r once s calls have taken
\* their identifier from it.
KnownAt(r, s, n) ==
  /\ r.of <= s
  /\ s - r.of < TidMod => n = r.tid + (s - r.of) \/ n = r.tid + (s - r.of) - TidMod

\* Calls whose identifier has been taken from the counter.
Stamped(t) == IF pc[t] \in {"load", "store"} THEN calls - 1 ELSE calls

Known(t, r) == KnownAt(r, Stamped(t), tid)

BodyOf(r, c) == r.piece = "body" /\ r.of = c.of

Counted(t) ==
  /\ Stamped(t) >= 0
  /\ ~At(t, "idle") => call[t] = calls
  /\ At(t, "store") => loaded[t] = tid
  /\ pc[t] \in {"send", "head", "body", "check"} => stamp[t] = tid

AllKnown(t) ==
  /\ \A k \in 1..Len(tx) : Known(t, tx[k])
  /\ \A k \in 1..Len(rx) : Known(t, rx[k])
  /\ serving # NoReply => Known(t, serving)
  /\ pc[t] \in {"body", "check"} => Known(t, head[t]) /\ head[t] \in Cell

Framed(t) ==
  /\ \A k \in 1..Len(rx) : rx[k].piece = "head" =>
       IF k < Len(rx) THEN BodyOf(rx[k + 1], rx[k])
       ELSE serving # NoReply /\ serving.of = rx[k].of
  /\ At(t, "body") =>
       IF rx = <<>> THEN serving # NoReply /\ serving.of = head[t].of
       ELSE BodyOf(rx[1], head[t])

IInv(t) == Counted(t) /\ AllKnown(t) /\ Framed(t) /\ OwnAnswer

-----------------------------------------------------------------------------
(* Type correctness *)

\* A thread inside a call has a number, and has read a head where it says so.
CallsTyped ==
  \A t \in Threads :
    /\ ~At(t, "idle") => call[t] \in Calls
    /\ pc[t] \in {"body", "check"} => head[t] \in Cell

\* A stream cut from the front is a stream.
LEMMA CutStream ==
  ASSUME NEW S, NEW seq \in Seq(S), NEW k \in 1..Len(seq)
  PROVE  SubSeq(seq, k + 1, Len(seq)) \in Seq(S)
<1>1. \A i \in (k + 1)..Len(seq) : seq[i] \in S
  OBVIOUS
<1>2. SubSeq(seq, k + 1, Len(seq)) = [i \in 1..(Len(seq) - k) |-> seq[i + k]]
  OBVIOUS
<1>3. QED
  OBVIOUS

\* The counter stays an identifier.
LEMMA IncrementTyped == \A n \in Tids : Increment(n) \in Tids
  BY TidModAssumption DEF Tids, Increment

\* The types hold at the start.
LEMMA TypeInit == Init => TypeOK /\ CallsTyped
<1> SUFFICES ASSUME Init PROVE TypeOK /\ CallsTyped
  OBVIOUS
<1>1. crowded \in BOOLEAN
  BY DEF Init
<1>2. QED
  BY <1>1, TidModAssumption, MaxCallsAssumption DEF Init, TypeOK, CallsTyped, At, Tids, Calls

\* No step breaks the types.
LEMMA TypeStep == TypeOK /\ CallsTyped /\ [Next]_vars => TypeOK' /\ CallsTyped'
<1> SUFFICES ASSUME TypeOK, CallsTyped, [Next]_vars PROVE TypeOK' /\ CallsTyped'
  OBVIOUS
<1> USE DEF TypeOK, CallsTyped, At, Goto
<1>1. ASSUME NEW t \in Threads, Begin(t) PROVE TypeOK' /\ CallsTyped'
  <2>1. calls' \in 0..MaxCalls /\ calls' \in Calls /\ calls' = calls + 1
    BY <1>1, MaxCallsAssumption, MaxCrowdedAssumption DEF Begin, Calls
  <2>2. crowded' \in BOOLEAN
    BY <1>1 DEF Begin, Busy
  <2>3. QED
    BY <1>1, <2>1, <2>2 DEF Begin, shared
<1>2. ASSUME NEW t \in Threads, LoadTid(t) PROVE TypeOK' /\ CallsTyped'
  BY <1>2 DEF LoadTid, shared
<1>3. ASSUME NEW t \in Threads, StoreTid(t) PROVE TypeOK' /\ CallsTyped'
  BY <1>3, IncrementTyped DEF StoreTid
<1>4. ASSUME NEW t \in Threads, StampTid(t) PROVE TypeOK' /\ CallsTyped'
  BY <1>4 DEF StampTid, shared
<1>5. ASSUME NEW t \in Threads, Send(t) PROVE TypeOK' /\ CallsTyped'
  BY <1>5 DEF Send, Request
<1>6. ASSUME NEW t \in Threads, ReadHead(t) PROVE TypeOK' /\ CallsTyped'
  <2>1. rx[1] \in Cell /\ Tail(rx) \in Seq(Cell)
    BY <1>6 DEF ReadHead
  <2>2. QED
    BY <1>6, <2>1 DEF ReadHead
<1>7. ASSUME NEW t \in Threads, Misread(t) PROVE TypeOK' /\ CallsTyped'
  <2>1. rx' \in Seq(Cell)
    BY <1>7, CutStream DEF Misread
  <2>2. QED
    BY <1>7, <2>1 DEF Misread
<1>8. ASSUME NEW t \in Threads, ReadBody(t) PROVE TypeOK' /\ CallsTyped'
  BY <1>8 DEF ReadBody
<1>9. ASSUME NEW t \in Threads, ReadForeignBody(t) PROVE TypeOK' /\ CallsTyped'
  BY <1>9 DEF ReadForeignBody
<1>10. ASSUME NEW t \in Threads, ReadFails(t) PROVE TypeOK' /\ CallsTyped'
  BY <1>10 DEF ReadFails, shared
<1>11. ASSUME NEW t \in Threads, Check(t) PROVE TypeOK' /\ CallsTyped'
  BY <1>11 DEF Check, shared, Cell
<1>12. ASSUME ServeHead PROVE TypeOK' /\ CallsTyped'
  <2>1. tx[1] \in Request /\ Tail(tx) \in Seq(Request)
    BY <1>12 DEF ServeHead
  <2>2. [of |-> tx[1].of, tid |-> tx[1].tid, piece |-> "head"] \in Cell
    BY <2>1 DEF Request, Cell, Pieces
  <2>3. QED
    BY <1>12, <2>1, <2>2 DEF ServeHead
<1>13. ASSUME ServeBody PROVE TypeOK' /\ CallsTyped'
  <2>1. [of |-> serving.of, tid |-> serving.tid, piece |-> "body"] \in Cell
    BY <1>13 DEF ServeBody, Request, Cell, Pieces
  <2>2. QED
    BY <1>13, <2>1 DEF ServeBody
<1>14. ASSUME Drop PROVE TypeOK' /\ CallsTyped'
  BY <1>14 DEF Drop
<1>15. ASSUME NEW t \in Threads, SendFails(t) PROVE TypeOK' /\ CallsTyped'
  BY <1>15 DEF SendFails, shared
<1>16. CASE UNCHANGED vars
  BY <1>16 DEF vars
<1>17. QED
  BY <1>1, <1>2, <1>3, <1>4, <1>5, <1>6, <1>7, <1>8, <1>9, <1>10, <1>11, <1>12,
     <1>13, <1>14, <1>15, <1>16 DEF Next, Step, Server

\* Every variable keeps its type: no thread stores an identifier, a call number
\* or a piece of the stream that does not exist.
THEOREM TypeCorrect == Spec => []TypeOK
<1>1. Init => TypeOK /\ CallsTyped
  BY TypeInit
<1>2. TypeOK /\ CallsTyped /\ [Next]_vars => TypeOK' /\ CallsTyped'
  BY TypeStep
<1>3. QED
  BY <1>1, <1>2, PTL DEF Spec

-----------------------------------------------------------------------------
(* Own answers: the operators *)

\* What the counter says of an old reply stays true when it is incremented: the
\* reply is one call older.
LEMMA KnownNext ==
  ASSUME NEW r, r.tid \in Tids, r.of \in Nat, NEW s \in Nat, NEW n \in Tids, KnownAt(r, s, n)
  PROVE  KnownAt(r, s + 1, Increment(n))
<1> DEFINE d == s - r.of
<1>1. d \in Nat /\ r.tid \in 0..(TidMod - 1) /\ n \in 0..(TidMod - 1) /\ TidMod \in Nat
  BY TidModAssumption DEF KnownAt, Tids
<1>2. d < TidMod => n = r.tid + d \/ n = r.tid + d - TidMod
  BY DEF KnownAt
<1>3. d + 1 < TidMod =>
        \/ Increment(n) = r.tid + (d + 1)
        \/ Increment(n) = r.tid + (d + 1) - TidMod
  <2> HIDE DEF d
  <2>1. CASE n < TidMod - 1
    BY <1>1, <1>2, <2>1 DEF Increment
  <2>2. CASE n >= TidMod - 1
    BY <1>1, <1>2, <2>2 DEF Increment
  <2>3. QED
    BY <1>1, <2>1, <2>2
<1>4. (s + 1) - r.of = d + 1 /\ r.of <= s + 1
  BY <1>1
<1>5. QED
  BY <1>3, <1>4 DEF KnownAt

\* A request is known when it is made.
LEMMA KnownFresh ==
  ASSUME NEW r, NEW s \in Nat, NEW n \in Tids, r.of = s, r.tid = n
  PROVE  KnownAt(r, s, n)
  BY TidModAssumption DEF KnownAt, Tids

\* A known reply with the identifier of the last call is its own, or TidMod
\* calls old.
LEMMA KnownOwn ==
  ASSUME NEW r, r.of \in Nat, NEW s \in Nat, NEW n \in Tids, KnownAt(r, s, n), r.tid = n
  PROVE  r.of = s \/ s - r.of >= TidMod
  BY TidModAssumption DEF KnownAt, Tids

\* The elements that remain when the first is taken.
LEMMA TailElements ==
  ASSUME NEW S, NEW seq \in Seq(S), seq # <<>>
  PROVE  /\ Len(Tail(seq)) = Len(seq) - 1
         /\ \A k \in 1..Len(Tail(seq)) : k + 1 \in 1..Len(seq) /\ Tail(seq)[k] = seq[k + 1]
  OBVIOUS

\* The elements after one is added.
LEMMA AppendElements ==
  ASSUME NEW S, NEW seq \in Seq(S), NEW e
  PROVE  /\ Len(Append(seq, e)) = Len(seq) + 1
         /\ \A k \in 1..Len(Append(seq, e)) :
              Append(seq, e)[k] = IF k <= Len(seq) THEN seq[k] ELSE e
  OBVIOUS

\* The elements that remain after a cut.
LEMMA CutElements ==
  ASSUME NEW S, NEW seq \in Seq(S), NEW j \in 1..Len(seq)
  PROVE  /\ Len(SubSeq(seq, j + 1, Len(seq))) = Len(seq) - j
         /\ \A k \in 1..(Len(seq) - j) :
              k + j \in 1..Len(seq) /\ SubSeq(seq, j + 1, Len(seq))[k] = seq[k + j]
  OBVIOUS

-----------------------------------------------------------------------------
(* Own answers: the steps of the thread that calls, while the others do not, *)
(* and of the server                                                         *)

\* A step that takes no identifier leaves what is known.
LEMMA KnownFrame ==
  ASSUME NEW t, Stamped(t)' = Stamped(t), tid' = tid
  PROVE  \A r : Known(t, r) => KnownAt(r, Stamped(t)', tid')
  BY DEF Known

\* The steps before the request is sent: they touch neither stream.
LEMMA AskStep ==
  ASSUME NEW t \in Threads, TypeOK, CallsTyped, IInv(t),
         Begin(t) \/ LoadTid(t) \/ StoreTid(t) \/ StampTid(t)
  PROVE  IInv(t)'
<1>1. /\ UNCHANGED <<tx, rx, serving, head, results>>
      /\ pc[t] \in {"idle", "load", "store", "stamp"}
      /\ pc'[t] \in {"load", "store", "stamp", "send"}
  BY DEF Begin, LoadTid, StoreTid, StampTid, shared, At, Goto, TypeOK
<1>2. Counted(t)'
  BY DEF IInv, Counted, Stamped, Begin, LoadTid, StoreTid, StampTid, shared, At, Goto, TypeOK
<1>3. \A r : r.tid \in Tids /\ r.of \in Nat /\ Known(t, r) => KnownAt(r, Stamped(t)', tid')
  <2>1. CASE StoreTid(t)
    <3>1. tid' = Increment(tid) /\ Stamped(t) = calls - 1 /\ Stamped(t)' = calls
      BY <2>1 DEF StoreTid, IInv, Counted, Stamped, At, Goto, TypeOK
    <3>2. Stamped(t) \in Nat /\ Stamped(t)' = Stamped(t) + 1 /\ tid \in Tids
      BY <3>1, MaxCallsAssumption DEF IInv, Counted, TypeOK
    <3>3. QED
      BY <3>1, <3>2, KnownNext DEF Known
  <2>2. CASE ~StoreTid(t)
    <3>1. tid' = tid /\ Stamped(t)' = Stamped(t)
      BY <2>2 DEF Begin, LoadTid, StampTid, shared, Stamped, At, Goto, TypeOK
    <3>2. QED
      BY <3>1, KnownFrame
  <2>3. QED
    BY <2>1, <2>2
<1>4. AllKnown(t)'
  <2>1. \A r : r \in Request \/ r \in Cell \/ r = NoReply => r.tid \in Tids /\ r.of \in Nat
    BY MaxCallsAssumption, TidModAssumption DEF Request, Cell, Calls, NoReply, Tids
  <2>2. QED
    BY <1>1, <1>3, <2>1 DEF IInv, AllKnown, Known, TypeOK
<1>5. Framed(t)'
  BY <1>1 DEF IInv, Framed, At
<1>6. OwnAnswer'
  BY <1>1 DEF IInv, OwnAnswer
<1>7. QED
  BY <1>2, <1>4, <1>5, <1>6 DEF IInv

\* The request carries the identifier that was just given out.
LEMMA SendStep ==
  ASSUME NEW t \in Threads, TypeOK, CallsTyped, IInv(t), Send(t)
  PROVE  IInv(t)'
<1> DEFINE req == [of |-> call[t], tid |-> stamp[t]]
<1>1. /\ UNCHANGED <<tid, rx, serving, call, stamp, head, calls, results>>
      /\ tx' = Append(tx, req) /\ pc[t] = "send" /\ pc'[t] = "head"
  BY DEF Send, At, Goto, TypeOK
<1>2. Counted(t)' /\ Stamped(t)' = Stamped(t) /\ Stamped(t) = calls
  BY <1>1 DEF IInv, Counted, Stamped, At
<1>3. \A r : Known(t, r) => KnownAt(r, Stamped(t)', tid')
  BY <1>1, <1>2, KnownFrame
<1>4. Known(t, req)
  <2>1. req.of = Stamped(t) /\ req.tid = tid /\ Stamped(t) \in Nat /\ tid \in Tids
    BY <1>1, <1>2, MaxCallsAssumption DEF IInv, Counted, At, TypeOK
  <2>2. QED
    BY <2>1, KnownFresh DEF Known
<1>5. AllKnown(t)'
  <2>1. \A k \in 1..Len(tx') : Known(t, tx'[k])
    <3> SUFFICES ASSUME NEW k \in 1..Len(tx') PROVE Known(t, tx'[k])
      OBVIOUS
    <3>1. tx'[k] = (IF k <= Len(tx) THEN tx[k] ELSE req)
      BY <1>1, AppendElements DEF TypeOK
    <3>2. CASE k <= Len(tx)
      BY <3>1, <3>2 DEF IInv, AllKnown
    <3>3. CASE ~(k <= Len(tx))
      BY <3>1, <3>3, <1>4
    <3>4. QED
      BY <3>2, <3>3
  <2>2. QED
    BY <1>1, <1>3, <2>1 DEF IInv, AllKnown, Known
<1>6. Framed(t)'
  BY <1>1 DEF IInv, Framed, At
<1>7. OwnAnswer'
  BY <1>1 DEF IInv, OwnAnswer
<1>8. QED
  BY <1>2, <1>5, <1>6, <1>7 DEF IInv

\* What is left of the stream after its front is taken is known and framed.
LEMMA CutStep ==
  ASSUME NEW t, TypeOK, IInv(t),
         NEW j \in 1..Len(rx), rx' = SubSeq(rx, j + 1, Len(rx)),
         UNCHANGED <<tid, tx, serving, calls>>, Stamped(t)' = Stamped(t)
  PROVE  /\ \A k \in 1..Len(tx') : KnownAt(tx'[k], Stamped(t)', tid')
         /\ \A k \in 1..Len(rx') : KnownAt(rx'[k], Stamped(t)', tid')
         /\ serving' # NoReply => KnownAt(serving', Stamped(t)', tid')
         /\ \A k \in 1..Len(rx') : rx'[k].piece = "head" =>
              IF k < Len(rx') THEN BodyOf(rx'[k + 1], rx'[k])
              ELSE serving' # NoReply /\ serving'.of = rx'[k].of
<1>1. /\ Len(rx') = Len(rx) - j
      /\ \A k \in 1..Len(rx') : k + j \in 1..Len(rx) /\ rx'[k] = rx[k + j]
  BY CutElements DEF TypeOK
<1>2. \A r : Known(t, r) => KnownAt(r, Stamped(t)', tid')
  BY KnownFrame
<1>3. \A k \in 1..Len(rx') : Known(t, rx'[k])
  BY <1>1 DEF IInv, AllKnown
<1>4. Len(rx) \in Nat
  BY DEF TypeOK
<1>5. ASSUME NEW k \in 1..Len(rx'), rx'[k].piece = "head"
      PROVE  IF k < Len(rx') THEN BodyOf(rx'[k + 1], rx'[k])
             ELSE serving' # NoReply /\ serving'.of = rx'[k].of
  <2>1. k + j \in 1..Len(rx) /\ rx'[k] = rx[k + j] /\ rx[k + j].piece = "head"
    BY <1>1, <1>5
  <2>2. IF k + j < Len(rx) THEN BodyOf(rx[k + j + 1], rx[k + j])
        ELSE serving # NoReply /\ serving.of = rx[k + j].of
    BY <2>1 DEF IInv, Framed
  <2>3. CASE k < Len(rx')
    <3>1. k + 1 \in 1..Len(rx') /\ k + j < Len(rx)
      BY <1>1, <1>4, <2>3
    <3>2. rx'[k + 1] = rx[k + 1 + j]
      BY <1>1, <3>1
    <3>3. k + 1 + j = k + j + 1
      OBVIOUS
    <3>4. QED
      BY <2>1, <2>2, <2>3, <3>1, <3>2, <3>3
  <2>4. CASE ~(k < Len(rx'))
    <3>1. ~(k + j < Len(rx))
      BY <1>1, <1>4, <2>4
    <3>2. QED
      BY <2>1, <2>2, <2>4, <3>1
  <2>5. QED
    BY <2>3, <2>4
<1>6. \A k \in 1..Len(tx) : Known(t, tx[k])
  BY DEF IInv, AllKnown
<1>7. serving # NoReply => Known(t, serving)
  BY DEF IInv, AllKnown
<1>8. QED
  BY <1>2, <1>3, <1>5, <1>6, <1>7

\* Taking the first piece is a cut.
LEMMA TailIsCut ==
  ASSUME NEW S, NEW seq \in Seq(S), seq # <<>>
  PROVE  1 \in 1..Len(seq) /\ Tail(seq) = SubSeq(seq, 1 + 1, Len(seq))
  OBVIOUS

\* The reads: a head is only followed by its own body, so that a lone caller
\* never reads a piece of another reply after it.
LEMMA ReadStep ==
  ASSUME NEW t \in Threads, TypeOK, CallsTyped, IInv(t),
         ReadHead(t) \/ Misread(t) \/ ReadBody(t) \/ ReadForeignBody(t)
  PROVE  IInv(t)'
<1>1. ~ReadForeignBody(t)
  BY DEF ReadForeignBody, IInv, Framed, BodyOf, At
<1>2. /\ UNCHANGED <<tid, tx, serving, call, stamp, calls, results>>
      /\ pc[t] \in {"head", "body"} /\ rx # <<>>
  BY <1>1 DEF ReadHead, Misread, ReadBody, At
<1>3. /\ pc'[t] \in {"body", "idle", "check"}
      /\ pc[t] = "head" => pc'[t] \in {"body", "idle"}
  BY <1>1 DEF ReadHead, Misread, ReadBody, At, Goto, TypeOK
<1>4. Stamped(t)' = Stamped(t)
  BY <1>2, <1>3 DEF Stamped
<1>5. Counted(t)'
  BY <1>2, <1>3, <1>4 DEF IInv, Counted, At
<1>6. PICK j \in 1..Len(rx) : rx' = SubSeq(rx, j + 1, Len(rx))
  BY <1>1, <1>2, TailIsCut DEF ReadHead, Misread, ReadBody, TypeOK
<1>7. /\ \A k \in 1..Len(tx') : KnownAt(tx'[k], Stamped(t)', tid')
      /\ \A k \in 1..Len(rx') : KnownAt(rx'[k], Stamped(t)', tid')
      /\ serving' # NoReply => KnownAt(serving', Stamped(t)', tid')
      /\ \A k \in 1..Len(rx') : rx'[k].piece = "head" =>
           IF k < Len(rx') THEN BodyOf(rx'[k + 1], rx'[k])
           ELSE serving' # NoReply /\ serving'.of = rx'[k].of
  BY <1>2, <1>4, <1>6, CutStep
<1>8. pc'[t] \in {"body", "check"} => KnownAt(head'[t], Stamped(t)', tid') /\ head'[t] \in Cell
  <2>1. CASE ReadHead(t)
    <3>1. head'[t] = rx[1] /\ rx[1] \in Cell /\ 1 \in 1..Len(rx)
      BY <2>1 DEF ReadHead, TypeOK
    <3>2. Known(t, rx[1])
      BY <3>1 DEF IInv, AllKnown
    <3>3. QED
      BY <1>2, <1>4, <3>1, <3>2, KnownFrame
  <2>2. CASE ReadBody(t)
    <3>1. head' = head /\ pc[t] = "body"
      BY <2>2 DEF ReadBody, At
    <3>2. Known(t, head[t]) /\ head[t] \in Cell
      BY <3>1 DEF IInv, AllKnown
    <3>3. QED
      BY <1>2, <1>4, <3>1, <3>2, KnownFrame
  <2>3. CASE Misread(t)
    BY <2>3 DEF Misread, Goto, TypeOK
  <2>4. QED
    BY <1>1, <2>1, <2>2, <2>3
<1>9. AllKnown(t)'
  BY <1>7, <1>8 DEF AllKnown, Known
<1>10. Framed(t)'
  <2>1. ASSUME pc'[t] = "body"
        PROVE  IF rx' = <<>> THEN serving' # NoReply /\ serving'.of = head'[t].of
               ELSE BodyOf(rx'[1], head'[t])
    <3>1. ReadHead(t)
      BY <1>1, <2>1 DEF Misread, ReadBody, Goto, TypeOK
    <3>2. head'[t] = rx[1] /\ rx[1].piece = "head" /\ rx' = Tail(rx) /\ 1 \in 1..Len(rx)
      BY <3>1 DEF ReadHead, TypeOK
    <3>3. IF 1 < Len(rx) THEN BodyOf(rx[1 + 1], rx[1])
          ELSE serving # NoReply /\ serving.of = rx[1].of
      BY <3>2 DEF IInv, Framed
    <3>4. CASE 1 < Len(rx)
      <4>1. rx' # <<>> /\ rx'[1] = rx[1 + 1]
        <5>1. rx \in Seq(Cell) /\ rx # <<>> /\ Len(rx) \in Nat
          BY <3>2 DEF TypeOK
        <5>2. /\ Len(rx') = Len(rx) - 1
              /\ \A k \in 1..Len(rx') : rx'[k] = rx[k + 1]
          BY <3>2, <5>1, TailElements
        <5>3. 1 \in 1..Len(rx')
          BY <3>4, <5>1, <5>2
        <5>4. QED
          BY <5>2, <5>3
      <4>2. QED
        BY <3>2, <3>3, <3>4, <4>1
    <3>5. CASE ~(1 < Len(rx))
      <4>1. rx' = <<>>
        BY <3>2, <3>5 DEF TypeOK
      <4>2. QED
        BY <1>2, <3>2, <3>3, <3>5, <4>1
    <3>6. QED
      BY <3>4, <3>5
  <2>2. QED
    BY <1>7, <2>1 DEF Framed, At
<1>11. OwnAnswer'
  BY <1>2 DEF IInv, OwnAnswer
<1>12. QED
  BY <1>5, <1>9, <1>10, <1>11 DEF IInv

\* The returns: a reply that carries the identifier of the request is its own.
LEMMA ReturnStep ==
  ASSUME NEW t \in Threads, TypeOK, CallsTyped, IInv(t),
         SendFails(t) \/ ReadFails(t) \/ Check(t)
  PROVE  IInv(t)'
<1>1. /\ UNCHANGED <<tid, tx, rx, serving, call, stamp, head, calls>>
      /\ pc[t] \in {"send", "head", "body", "check"} /\ pc'[t] = "idle"
  BY DEF SendFails, ReadFails, Check, shared, At, Goto, TypeOK
<1>2. Stamped(t)' = Stamped(t) /\ Stamped(t) = calls
  BY <1>1 DEF Stamped
<1>3. Counted(t)'
  BY <1>1, <1>2 DEF IInv, Counted, At
<1>4. AllKnown(t)'
  <2>1. \A r : Known(t, r) => KnownAt(r, Stamped(t)', tid')
    BY <1>1, <1>2, KnownFrame
  <2>2. QED
    BY <1>1, <2>1 DEF IInv, AllKnown, Known
<1>5. Framed(t)'
  BY <1>1 DEF IInv, Framed, At
<1>6. OwnAnswer'
  <2>1. CASE results' = results
    BY <2>1 DEF IInv, OwnAnswer
  <2>2. CASE results' # results
    <3> DEFINE new == [call |-> call[t], answer |-> head[t].of]
    <3>1. Check(t) /\ results' = results \cup {new} /\ head[t].tid = stamp[t] /\ pc[t] = "check"
      BY <2>2 DEF SendFails, ReadFails, Check, At
    <3>2. /\ stamp[t] = tid /\ call[t] = calls
          /\ head[t] \in Cell /\ KnownAt(head[t], calls, tid)
      BY <1>2, <3>1 DEF IInv, Counted, AllKnown, Known, At
    <3>3. head[t].of \in Nat /\ head[t].of > 0 /\ calls \in Nat /\ tid \in Tids
      BY <3>2, MaxCallsAssumption DEF Cell, Calls, TypeOK
    <3>4. head[t].of = calls \/ calls - head[t].of >= TidMod
      BY <3>1, <3>2, <3>3, KnownOwn
    <3>5. new.answer = new.call \/ (new.answer > 0 /\ new.call - new.answer >= TidMod)
      BY <3>2, <3>3, <3>4
    <3>6. QED
      BY <3>1, <3>5 DEF IInv, OwnAnswer
  <2>3. QED
    BY <2>1, <2>2
<1>7. QED
  BY <1>3, <1>4, <1>5, <1>6 DEF IInv

\* The server sends nothing but heads, each with its body after it, of requests
\* it was sent.
LEMMA ServerStep ==
  ASSUME NEW t \in Threads, TypeOK, CallsTyped, IInv(t), Server
  PROVE  IInv(t)'
<1>1. UNCHANGED <<tid, pc, call, loaded, stamp, head, calls, results>>
  BY DEF Server, ServeHead, ServeBody, Drop
<1>2. Stamped(t)' = Stamped(t)
  BY <1>1 DEF Stamped
<1>3. Counted(t)'
  BY <1>1, <1>2 DEF IInv, Counted, At
<1>4. OwnAnswer'
  BY <1>1 DEF IInv, OwnAnswer
<1>5. \A r : Known(t, r) => KnownAt(r, Stamped(t)', tid')
  BY <1>1, <1>2, KnownFrame
<1>6. pc'[t] \in {"body", "check"} => KnownAt(head'[t], Stamped(t)', tid') /\ head'[t] \in Cell
  BY <1>1, <1>5 DEF IInv, AllKnown
<1>7. ASSUME tx # <<>>, tx' = Tail(tx)
      PROVE  Known(t, tx[1]) /\ \A k \in 1..Len(tx') : KnownAt(tx'[k], Stamped(t)', tid')
  <2>1. 1 \in 1..Len(tx) /\ \A k \in 1..Len(tx') : k + 1 \in 1..Len(tx) /\ tx'[k] = tx[k + 1]
    BY <1>7, TailElements DEF TypeOK
  <2>2. \A k \in 1..Len(tx) : Known(t, tx[k])
    BY DEF IInv, AllKnown
  <2>3. \A k \in 1..Len(tx') : Known(t, tx'[k])
    BY <2>1, <2>2
  <2>4. QED
    BY <1>5, <2>1, <2>2, <2>3
<1>8. ASSUME NEW new, rx' = Append(rx, new), Known(t, new)
      PROVE  \A k \in 1..Len(rx') : KnownAt(rx'[k], Stamped(t)', tid')
  <2> SUFFICES ASSUME NEW k \in 1..Len(rx') PROVE KnownAt(rx'[k], Stamped(t)', tid')
    OBVIOUS
  <2>1. rx'[k] = (IF k <= Len(rx) THEN rx[k] ELSE new)
    BY <1>8, AppendElements DEF TypeOK
  <2>2. Known(t, rx'[k])
    <3>1. CASE k <= Len(rx)
      BY <2>1, <3>1 DEF IInv, AllKnown
    <3>2. CASE ~(k <= Len(rx))
      BY <1>8, <2>1, <3>2
    <3>3. QED
      BY <3>1, <3>2
  <2>3. QED
    BY <1>5, <2>2
<1>9. CASE ServeHead
  <2> DEFINE new == [of |-> tx[1].of, tid |-> tx[1].tid, piece |-> "head"]
  <2>1. serving = NoReply /\ tx # <<>> /\ serving' = tx[1] /\ tx' = Tail(tx) /\ rx' = Append(rx, new)
    BY <1>9 DEF ServeHead
  <2>2. Known(t, tx[1]) /\ Known(t, new) /\ tx[1] \in Request /\ tx[1] # NoReply
    <3>1. Known(t, tx[1]) /\ tx[1] \in Request
      BY <1>7, <2>1 DEF TypeOK
    <3>2. tx[1] # NoReply
      BY <3>1, MaxCallsAssumption DEF Request, Calls, NoReply
    <3>3. QED
      BY <3>1, <3>2 DEF Known, KnownAt
  <2>3. AllKnown(t)'
    BY <1>5, <1>6, <1>7, <1>8, <2>1, <2>2 DEF AllKnown, Known
  <2>4. Framed(t)'
    <3>1. ASSUME NEW k \in 1..Len(rx'), rx'[k].piece = "head"
          PROVE  IF k < Len(rx') THEN BodyOf(rx'[k + 1], rx'[k])
                 ELSE serving' # NoReply /\ serving'.of = rx'[k].of
      <4>1. Len(rx') = Len(rx) + 1 /\ Len(rx) \in Nat
        BY <2>1, AppendElements DEF TypeOK
      <4>2. \A i \in 1..Len(rx') : rx'[i] = IF i <= Len(rx) THEN rx[i] ELSE new
        BY <2>1, AppendElements DEF TypeOK
      <4>3. CASE k <= Len(rx)
        <5>1. rx'[k] = rx[k] /\ k \in 1..Len(rx)
          BY <4>1, <4>2, <4>3
        <5>2. k < Len(rx) /\ BodyOf(rx[k + 1], rx[k])
          BY <2>1, <3>1, <5>1, <4>1 DEF IInv, Framed
        <5>3. rx'[k + 1] = rx[k + 1]
          BY <4>1, <4>2, <5>1, <5>2
        <5>4. QED
          BY <4>1, <5>1, <5>2, <5>3
      <4>4. CASE ~(k <= Len(rx))
        BY <2>1, <2>2, <4>1, <4>2, <4>4
      <4>5. QED
        BY <4>3, <4>4
    <3>2. ASSUME pc[t] = "body" PROVE rx' # <<>> /\ BodyOf(rx'[1], head'[t])
      <4>1. rx # <<>> /\ BodyOf(rx[1], head[t])
        BY <2>1, <3>2 DEF IInv, Framed, At
      <4>2. rx' # <<>> /\ rx'[1] = rx[1]
        BY <2>1, <4>1 DEF TypeOK
      <4>3. QED
        BY <1>1, <4>1, <4>2
    <3>3. QED
      BY <1>1, <3>1, <3>2 DEF Framed, At
  <2>5. QED
    BY <1>3, <1>4, <2>3, <2>4 DEF IInv
<1>10. CASE ServeBody
  <2> DEFINE new == [of |-> serving.of, tid |-> serving.tid, piece |-> "body"]
  <2>1. serving # NoReply /\ serving' = NoReply /\ tx' = tx /\ rx' = Append(rx, new)
    BY <1>10 DEF ServeBody
  <2>2. Known(t, new)
    BY <2>1 DEF IInv, AllKnown, Known, KnownAt
  <2>3. AllKnown(t)'
    <3>1. \A k \in 1..Len(tx') : KnownAt(tx'[k], Stamped(t)', tid')
      BY <1>5, <2>1 DEF IInv, AllKnown
    <3>2. QED
      BY <1>6, <1>8, <2>1, <2>2, <3>1 DEF AllKnown, Known
  <2>4. Framed(t)'
    <3>1. Len(rx') = Len(rx) + 1 /\ Len(rx) \in Nat
      BY <2>1, AppendElements DEF TypeOK
    <3>2. \A i \in 1..Len(rx') : rx'[i] = IF i <= Len(rx) THEN rx[i] ELSE new
      BY <2>1, AppendElements DEF TypeOK
    <3>3. ASSUME NEW k \in 1..Len(rx'), rx'[k].piece = "head"
          PROVE  k < Len(rx') /\ BodyOf(rx'[k + 1], rx'[k])
      <4>1. k <= Len(rx) /\ rx'[k] = rx[k] /\ k \in 1..Len(rx)
        BY <3>1, <3>2, <3>3
      <4>2. IF k < Len(rx) THEN BodyOf(rx[k + 1], rx[k]) ELSE serving.of = rx[k].of
        BY <3>3, <4>1 DEF IInv, Framed
      <4>3. CASE k < Len(rx)
        <5>1. rx'[k + 1] = rx[k + 1]
          BY <3>1, <3>2, <4>1, <4>3
        <5>2. QED
          BY <3>1, <4>1, <4>2, <4>3, <5>1
      <4>4. CASE ~(k < Len(rx))
        <5>1. rx'[k + 1] = new
          BY <3>1, <3>2, <4>1, <4>4
        <5>2. QED
          BY <3>1, <4>1, <4>2, <4>4, <5>1 DEF BodyOf
      <4>5. QED
        BY <4>3, <4>4
    <3>4. ASSUME pc[t] = "body" PROVE rx' # <<>> /\ BodyOf(rx'[1], head'[t])
      <4>1. CASE rx = <<>>
        <5>1. serving.of = head[t].of /\ rx' # <<>> /\ rx'[1] = new
          BY <2>1, <3>4, <4>1 DEF IInv, Framed, At
        <5>2. QED
          BY <1>1, <5>1 DEF BodyOf
      <4>2. CASE rx # <<>>
        <5>1. BodyOf(rx[1], head[t])
          BY <3>4, <4>2 DEF IInv, Framed, At
        <5>2. 1 \in 1..Len(rx) /\ 1 \in 1..Len(rx')
          BY <3>1, <4>2 DEF TypeOK
        <5>3. rx' # <<>> /\ rx'[1] = rx[1]
          BY <3>1, <3>2, <5>2
        <5>4. QED
          BY <1>1, <5>1, <5>3
      <4>3. QED
        BY <4>1, <4>2
    <3>5. QED
      BY <1>1, <3>3, <3>4 DEF Framed, At
  <2>5. QED
    BY <1>3, <1>4, <2>3, <2>4 DEF IInv
<1>11. CASE Drop
  <2>1. UNCHANGED <<rx, serving>> /\ tx # <<>> /\ tx' = Tail(tx)
    BY <1>11 DEF Drop
  <2>2. AllKnown(t)'
    <3>1. \A k \in 1..Len(rx') : KnownAt(rx'[k], Stamped(t)', tid')
      BY <1>5, <2>1 DEF IInv, AllKnown
    <3>2. serving' # NoReply => KnownAt(serving', Stamped(t)', tid')
      BY <1>5, <2>1 DEF IInv, AllKnown
    <3>3. QED
      BY <1>6, <1>7, <2>1, <3>1, <3>2 DEF AllKnown, Known
  <2>3. Framed(t)'
    BY <1>1, <2>1 DEF IInv, Framed, At
  <2>4. QED
    BY <1>3, <1>4, <2>2, <2>3 DEF IInv
<1>12. QED
  BY <1>9, <1>10, <1>11 DEF Server

-----------------------------------------------------------------------------
(* Own answers: threads that take turns *)

Alone(t) == \A u \in Threads \ {t} : At(u, "idle")

\* While calls do not overlap, at most one thread is in a call, and what holds
\* of a caller holds of it.
Serial == ~crowded => \A t \in Threads : Alone(t) => IInv(t)

InTurn == ~crowded => \A t, u \in Threads : t # u => At(t, "idle") \/ At(u, "idle")

\* A step of a thread leaves the others where they are, and keeps them out while
\* it is in a call.
LEMMA OthersWait ==
  ASSUME TypeOK, NEW t \in Threads, Begin(t) \/ Step(t), ~crowded'
  PROVE  /\ ~crowded
         /\ \A u \in Threads \ {t} : pc'[u] = pc[u]
         /\ Begin(t) => \A u \in Threads : At(u, "idle")
         /\ Step(t) => ~At(t, "idle")
  BY DEF TypeOK, Begin, Busy, Step, LoadTid, StoreTid, StampTid, Send, SendFails, ReadHead,
         Misread, ReadBody, ReadForeignBody, ReadFails, Check, At, Goto

\* The step of the caller that is alone keeps the invariant.
LEMMA CallerStep ==
  ASSUME NEW t \in Threads, TypeOK, CallsTyped, IInv(t), Begin(t) \/ Step(t)
  PROVE  IInv(t)'
  BY AskStep, SendStep, ReadStep, ReturnStep DEF Step

\* No step breaks the turns or what holds of the caller.
LEMMA SerialStep ==
  TypeOK /\ CallsTyped /\ InTurn /\ Serial /\ [Next]_vars => InTurn' /\ Serial'
<1> SUFFICES ASSUME TypeOK, CallsTyped, InTurn, Serial, [Next]_vars, ~crowded'
             PROVE  InTurn' /\ Serial'
  BY DEF InTurn, Serial
<1>1. ASSUME NEW t \in Threads, Begin(t) \/ Step(t) PROVE InTurn' /\ Serial'
  <2>1. /\ ~crowded
        /\ \A u \in Threads \ {t} : pc'[u] = pc[u]
        /\ Begin(t) => \A u \in Threads : At(u, "idle")
        /\ Step(t) => ~At(t, "idle")
    BY <1>1, OthersWait
  <2>2. \A u \in Threads \ {t} : At(u, "idle")
    BY <1>1, <2>1 DEF InTurn
  <2>3. \A u \in Threads \ {t} : At(u, "idle")'
    BY <2>1, <2>2 DEF At
  <2>4. IInv(t)'
    BY <1>1, <2>1, <2>2, CallerStep DEF Serial, Alone
  <2>5. ASSUME NEW u \in Threads, Alone(u)' PROVE IInv(u)'
    <3>1. CASE u = t
      BY <2>4, <3>1
    <3>2. CASE u # t
      <4>1. At(t, "idle")' /\ At(u, "idle")'
        BY <2>3, <2>5, <3>2 DEF Alone
      <4>2. QED
        BY <2>4, <4>1 DEF IInv, Counted, AllKnown, Framed, Stamped, Known, At
    <3>3. QED
      BY <3>1, <3>2
  <2>6. InTurn'
    BY <2>3 DEF InTurn
  <2>7. QED
    BY <2>5, <2>6 DEF Serial
<1>2. CASE Server
  <2>1. UNCHANGED <<pc, crowded>>
    BY <1>2 DEF Server, ServeHead, ServeBody, Drop
  <2>2. ASSUME NEW u \in Threads, Alone(u)' PROVE IInv(u)'
    <3>1. IInv(u)
      BY <2>1, <2>2 DEF Serial, Alone, At
    <3>2. QED
      BY <1>2, <3>1, ServerStep
  <2>3. InTurn'
    BY <2>1 DEF InTurn, At
  <2>4. QED
    BY <2>2, <2>3 DEF Serial
<1>3. CASE UNCHANGED vars
  BY <1>3 DEF vars, InTurn, Serial, Alone, IInv, Counted, AllKnown, Framed, OwnAnswer, Stamped, Known, At
<1>4. QED
  BY <1>1, <1>2, <1>3 DEF Next

\* As long as no two threads are in a call at once, a call that succeeds returns
\* the reply to its own request, or one that is at least TidMod calls old:
\* comparing the identifiers is enough, however late or lost the replies are.
THEOREM SerialCallsOwnAnswer == Spec => []SerialOwnAnswer
<1>1. Init => TypeOK /\ CallsTyped /\ InTurn /\ Serial /\ SerialOwnAnswer
  <2> SUFFICES ASSUME Init PROVE TypeOK /\ CallsTyped /\ InTurn /\ Serial /\ SerialOwnAnswer
    OBVIOUS
  <2>1. TypeOK /\ CallsTyped
    BY TypeInit
  <2>2. InTurn /\ Serial /\ SerialOwnAnswer
    BY DEF Init, InTurn, Serial, SerialOwnAnswer, IInv, Counted, AllKnown, Framed, OwnAnswer, Stamped, At
  <2>3. QED
    BY <2>1, <2>2
<1>2. TypeOK /\ CallsTyped /\ InTurn /\ Serial /\ SerialOwnAnswer /\ [Next]_vars
        => TypeOK' /\ CallsTyped' /\ InTurn' /\ Serial' /\ SerialOwnAnswer'
  <2> SUFFICES ASSUME TypeOK, CallsTyped, InTurn, Serial, SerialOwnAnswer, [Next]_vars
               PROVE  SerialOwnAnswer'
    BY TypeStep, SerialStep
  <2>1. ASSUME NEW t \in Threads, Begin(t) \/ Step(t), ~crowded' PROVE OwnAnswer'
    <3>1. ~crowded /\ Alone(t)
      BY <2>1, OthersWait DEF InTurn, Alone
    <3>2. IInv(t)'
      BY <2>1, <3>1, CallerStep DEF Serial
    <3>3. QED
      BY <3>2 DEF IInv
  <2>2. CASE Server \/ UNCHANGED vars
    BY <2>2 DEF Server, ServeHead, ServeBody, Drop, vars, SerialOwnAnswer, OwnAnswer
  <2>3. QED
    BY <2>1, <2>2 DEF Next, SerialOwnAnswer
<1>3. QED
  BY <1>1, <1>2, PTL DEF Spec

-----------------------------------------------------------------------------
(* One answer per reply, whether calls overlap or not: the number of a call  *)
(* goes from its caller to the requests, the heads that arrived, the head a  *)
(* thread holds and the results, and never is in two of these places.        *)

Askers == {t \in Threads : pc[t] \in {"load", "store", "stamp", "send"}}
Holders == {t \in Threads : pc[t] \in {"body", "check"}}
Heads == {k \in 1..Len(rx) : rx[k].piece = "head"}

Asking == {call[t] : t \in Askers}
Requested == {tx[k].of : k \in 1..Len(tx)}
Arriving == {rx[k].of : k \in Heads}
Held == {head[t].of : t \in Holders}
Answered == {r.answer : r \in results} \ {Mixed}

\* No number is in two places, and none is given out before its call begins.
Apart ==
  /\ \A c \in Asking : c <= calls /\ c \notin Requested \cup Arriving \cup Held \cup Answered
  /\ \A c \in Requested : c <= calls /\ c \notin Arriving \cup Held \cup Answered
  /\ \A c \in Arriving : c <= calls /\ c \notin Held \cup Answered
  /\ \A c \in Held : c <= calls /\ c \notin Answered
  /\ \A c \in Answered : c <= calls

\* Nor is it twice in the same place.
Single ==
  /\ \A t, u \in Askers : call[t] = call[u] => t = u
  /\ \A k, l \in 1..Len(tx) : tx[k].of = tx[l].of => k = l
  /\ \A k, l \in Heads : rx[k].of = rx[l].of => k = l
  /\ \A t, u \in Holders : head[t].of = head[u].of => t = u

Once == Apart /\ Single /\ AnswerOnce

\* The callers' numbers and the numbers of the heads they hold are of calls.
LEMMA NumbersAreCalls ==
  ASSUME TypeOK, CallsTyped
  PROVE  /\ Asking \cup Requested \cup Arriving \cup Held \cup Answered \subseteq Calls
         /\ Calls \subseteq Nat \ {0} /\ calls \in Nat
<1>1. Calls \subseteq Nat \ {0} /\ calls \in Nat
  BY MaxCallsAssumption DEF TypeOK, Calls
<1>2. Asking \subseteq Calls
  BY DEF Asking, Askers, CallsTyped, At
<1>3. Requested \subseteq Calls
  <2>1. \A k \in 1..Len(tx) : tx[k] \in Request
    BY DEF TypeOK
  <2>2. \A k \in 1..Len(tx) : tx[k].of \in Calls
    BY <2>1 DEF Request
  <2>3. QED
    BY <2>2 DEF Requested
<1>4. Arriving \subseteq Calls
  <2>1. \A k \in 1..Len(rx) : rx[k] \in Cell
    BY DEF TypeOK
  <2>2. \A k \in 1..Len(rx) : rx[k].of \in Calls
    BY <2>1 DEF Cell
  <2>3. QED
    BY <2>2 DEF Arriving, Heads
<1>5. Held \subseteq Calls
  BY DEF Held, Holders, CallsTyped, Cell
<1>6. Answered \subseteq Calls
  BY DEF Answered, TypeOK
<1>7. QED
  BY <1>1, <1>2, <1>3, <1>4, <1>5, <1>6

\* What is cut from the front of the stream leaves its heads where they are.
LEMMA CutHeads ==
  ASSUME TypeOK, Single, NEW j \in 1..Len(rx), rx' = SubSeq(rx, j + 1, Len(rx))
  PROVE  /\ Arriving' \subseteq Arriving
         /\ \A k, l \in Heads' : rx'[k].of = rx'[l].of => k = l
         /\ rx[1].piece = "head" => rx[1].of \notin Arriving'
<1>1. /\ Len(rx') = Len(rx) - j /\ Len(rx) \in Nat
      /\ \A k \in 1..Len(rx') : k + j \in 1..Len(rx) /\ rx'[k] = rx[k + j]
  BY CutElements DEF TypeOK
<1>2. \A k \in Heads' : k \in Nat /\ k >= 1 /\ k + j \in Heads /\ rx'[k] = rx[k + j]
  BY <1>1 DEF Heads
<1>3. \A k, l \in Heads : rx[k].of = rx[l].of => k = l
  BY DEF Single
<1>4. Arriving' \subseteq Arriving
  BY <1>2 DEF Arriving
<1>5. \A k, l \in Heads' : rx'[k].of = rx'[l].of => k = l
  <2> SUFFICES ASSUME NEW k \in Heads', NEW l \in Heads', rx'[k].of = rx'[l].of PROVE k = l
    OBVIOUS
  <2>1. k + j = l + j
    BY <1>2, <1>3
  <2>2. QED
    BY <1>2, <2>1
<1>6. ASSUME rx[1].piece = "head" PROVE rx[1].of \notin Arriving'
  <2>1. 1 \in Heads
    BY <1>1, <1>6 DEF Heads
  <2>2. ASSUME NEW k \in Heads' PROVE rx'[k].of # rx[1].of
    <3>1. k + j # 1 /\ k + j \in Heads
      BY <1>1, <1>2
    <3>2. rx[k + j].of # rx[1].of
      BY <1>3, <2>1, <3>1
    <3>3. QED
      BY <1>2, <3>2
  <2>3. QED
    BY <2>2 DEF Arriving
<1>7. QED
  BY <1>4, <1>5, <1>6

\* A request that leaves the queue leaves the others where they are.
LEMMA TakeRequest ==
  ASSUME TypeOK, Single, tx # <<>>, tx' = Tail(tx)
  PROVE  /\ tx[1].of \in Requested /\ Requested' \subseteq Requested \ {tx[1].of}
         /\ \A k, l \in 1..Len(tx') : tx'[k].of = tx'[l].of => k = l
<1>1. /\ Len(tx) \in Nat /\ 1 \in 1..Len(tx)
      /\ \A k \in 1..Len(tx') : k \in Nat /\ k >= 1 /\ k + 1 \in 1..Len(tx) /\ tx'[k] = tx[k + 1]
  BY TailElements DEF TypeOK
<1>2. \A k, l \in 1..Len(tx) : tx[k].of = tx[l].of => k = l
  BY DEF Single
<1>3. ASSUME NEW k \in 1..Len(tx') PROVE tx'[k].of \in Requested \ {tx[1].of}
  <2>1. k + 1 # 1 /\ k + 1 \in 1..Len(tx)
    BY <1>1
  <2>2. QED
    BY <1>1, <1>2, <2>1 DEF Requested
<1>4. \A k, l \in 1..Len(tx') : tx'[k].of = tx'[l].of => k = l
  <2> SUFFICES ASSUME NEW k \in 1..Len(tx'), NEW l \in 1..Len(tx'), tx'[k].of = tx'[l].of
               PROVE  k = l
    OBVIOUS
  <2>1. k + 1 = l + 1
    BY <1>1, <1>2
  <2>2. QED
    BY <1>1, <2>1
<1>5. tx[1].of \in Requested
  BY <1>1 DEF Requested
<1>6. Requested' \subseteq Requested \ {tx[1].of}
  <2>1. Requested' = {tx'[k].of : k \in 1..Len(tx')}
    BY DEF Requested
  <2>2. QED
    BY <1>3, <2>1
<1>7. QED
  BY <1>4, <1>5, <1>6

\* Each step of a thread moves at most its own number, and to the next place.
LEMMA CallerMoves ==
  ASSUME TypeOK, CallsTyped, Once, NEW t \in Threads, Begin(t) \/ Step(t)
  PROVE  Once'
<1> DEFINE c == call[t]
           h == head[t].of
<1>0. /\ Asking \cup Requested \cup Arriving \cup Held \cup Answered \subseteq Calls
      /\ Calls \subseteq Nat \ {0} /\ calls \in Nat
  BY NumbersAreCalls
<1>1. Apart /\ Single /\ AnswerOnce
  BY DEF Once
<1>2. CASE Begin(t)
  <2>1. /\ UNCHANGED <<tx, rx, head, results>> /\ calls' = calls + 1
        /\ t \notin Askers /\ Askers' = Askers \cup {t} /\ Holders' = Holders
        /\ call' = [call EXCEPT ![t] = calls + 1]
    BY <1>2 DEF Begin, shared, Askers, Holders, At, Goto, TypeOK
  <2>2. Asking' = Asking \cup {calls + 1}
    BY <2>1 DEF Asking, Askers, TypeOK
  <2>3. /\ Requested' = Requested /\ Arriving' = Arriving /\ Held' = Held /\ Answered' = Answered
        /\ Heads' = Heads
    BY <2>1 DEF Requested, Arriving, Heads, Held, Answered
  <2>4. \A d \in Asking \cup Requested \cup Arriving \cup Held \cup Answered : d <= calls /\ d \in Nat
    BY <1>0, <1>1 DEF Apart
  <2>5. Apart'
    BY <1>0, <1>1, <2>1, <2>2, <2>3, <2>4 DEF Apart
  <2>6. \A u \in Askers : call'[u] = call[u] /\ call[u] # calls + 1
    BY <1>0, <2>1, <2>4 DEF Asking, TypeOK, Askers
  <2>7. call'[t] = calls + 1
    BY <2>1 DEF TypeOK
  <2>8. Single'
    BY <1>1, <2>1, <2>3, <2>6, <2>7 DEF Single
  <2>9. QED
    BY <1>1, <2>1, <2>5, <2>8 DEF Once, AnswerOnce
<1>3. CASE LoadTid(t) \/ StoreTid(t) \/ StampTid(t)
  <2>1. /\ UNCHANGED <<tx, rx, call, head, calls, results>>
        /\ Askers' = Askers /\ Holders' = Holders
    BY <1>3 DEF LoadTid, StoreTid, StampTid, shared, Askers, Holders, At, Goto, TypeOK
  <2>2. QED
    BY <1>1, <2>1 DEF Once, Apart, Single, AnswerOnce, Asking, Requested, Arriving, Heads, Held, Answered
<1>4. CASE Send(t)
  <2>1. /\ UNCHANGED <<rx, call, head, calls, results>>
        /\ t \in Askers /\ Askers' = Askers \ {t} /\ Holders' = Holders
        /\ tx' = Append(tx, [of |-> c, tid |-> stamp[t]])
    BY <1>4 DEF Send, Askers, Holders, At, Goto, TypeOK
  <2>2. /\ Arriving' = Arriving /\ Held' = Held /\ Answered' = Answered /\ Heads' = Heads
    BY <2>1 DEF Arriving, Heads, Held, Answered
  <2>3. c \in Asking /\ Asking' \subseteq Asking \ {c}
    BY <1>1, <2>1 DEF Asking, Single
  <2>4. /\ Len(tx') = Len(tx) + 1 /\ Len(tx) \in Nat
        /\ \A k \in 1..Len(tx') : tx'[k] = IF k <= Len(tx) THEN tx[k] ELSE [of |-> c, tid |-> stamp[t]]
    BY <2>1, AppendElements DEF TypeOK
  <2>5. \A k \in 1..Len(tx') :
          tx'[k].of = IF k \in 1..Len(tx) THEN tx[k].of ELSE c
    BY <2>4
  <2>6. Requested' \subseteq Requested \cup {c}
    BY <2>5 DEF Requested
  <2>7. Apart'
    BY <1>1, <2>1, <2>2, <2>3, <2>6 DEF Apart
  <2>8. \A k \in 1..Len(tx) : tx[k].of # c
    BY <1>1, <2>3 DEF Apart, Requested
  <2>9. \A k, l \in 1..Len(tx') : tx'[k].of = tx'[l].of => k = l
    <3> SUFFICES ASSUME NEW k \in 1..Len(tx'), NEW l \in 1..Len(tx'), tx'[k].of = tx'[l].of
                 PROVE  k = l
      OBVIOUS
    <3>1. CASE k \in 1..Len(tx) \/ l \in 1..Len(tx)
      BY <1>1, <2>5, <2>8, <3>1 DEF Single
    <3>2. CASE k \notin 1..Len(tx) /\ l \notin 1..Len(tx)
      BY <2>4, <3>2
    <3>3. QED
      BY <3>1, <3>2
  <2>10. Single'
    BY <1>1, <2>1, <2>2, <2>9 DEF Single
  <2>11. QED
    BY <1>1, <2>1, <2>7, <2>10 DEF Once, AnswerOnce
<1>5. CASE ReadHead(t)
  <2>1. /\ UNCHANGED <<tx, call, calls, results>>
        /\ Askers' = Askers /\ t \notin Holders /\ Holders' = Holders \cup {t}
        /\ head' = [head EXCEPT ![t] = rx[1]]
        /\ rx # <<>> /\ rx' = Tail(rx) /\ rx[1].piece = "head"
    BY <1>5 DEF ReadHead, Askers, Holders, At, Goto, TypeOK
  <2>2. Asking' = Asking /\ Requested' = Requested /\ Answered' = Answered
    BY <2>1 DEF Asking, Requested, Answered
  <2>3. 1 \in 1..Len(rx) /\ rx' = SubSeq(rx, 1 + 1, Len(rx))
    BY <2>1, TailIsCut DEF TypeOK
  <2>4. /\ Arriving' \subseteq Arriving \ {rx[1].of}
        /\ \A k, l \in Heads' : rx'[k].of = rx'[l].of => k = l
    BY <1>1, <2>1, <2>3, CutHeads
  <2>5. rx[1].of \in Arriving
    BY <2>1, <2>3 DEF Arriving, Heads
  <2>6. /\ head'[t] = rx[1]
        /\ \A u \in Holders : head'[u] = head[u] /\ head[u].of \in Held
    BY <2>1 DEF TypeOK, Holders, Held
  <2>7. Held' \subseteq Held \cup {rx[1].of}
    BY <2>1, <2>6 DEF Held
  <2>8. rx[1].of \notin Held
    BY <1>1, <2>5 DEF Apart
  <2>9. Apart'
    BY <1>1, <2>1, <2>2, <2>4, <2>5, <2>7 DEF Apart
  <2>10. \A u, v \in Holders' : head'[u].of = head'[v].of => u = v
    <3>1. \A u \in Holders : head'[u].of = head[u].of /\ head'[u].of # rx[1].of
      BY <2>6, <2>8
    <3>2. \A u, v \in Holders : head[u].of = head[v].of => u = v
      BY <1>1 DEF Single
    <3>3. QED
      BY <2>1, <2>6, <3>1, <3>2
  <2>11. Single'
    <3>1. /\ \A u, v \in Askers' : call'[u] = call'[v] => u = v
          /\ \A k, l \in 1..Len(tx') : tx'[k].of = tx'[l].of => k = l
      BY <1>1, <2>1 DEF Single
    <3>2. QED
      BY <2>4, <2>10, <3>1 DEF Single
  <2>12. QED
    BY <1>1, <2>1, <2>9, <2>11 DEF Once, AnswerOnce
<1>6. CASE Misread(t) \/ ReadBody(t) \/ ReadForeignBody(t) \/ ReadFails(t)
  <2>1. /\ UNCHANGED <<tx, call, head, calls>>
        /\ Askers' = Askers /\ Holders' \subseteq Holders
    BY <1>6 DEF Misread, ReadBody, ReadForeignBody, ReadFails, shared, Askers, Holders, At, Goto, TypeOK
  <2>2. Answered' = Answered /\ AnswerOnce'
    <3>1. CASE results' = results
      BY <1>1, <3>1 DEF Answered, AnswerOnce
    <3>2. CASE results' # results
      <4>1. results' = results \cup {[call |-> c, answer |-> Mixed]}
        BY <1>6, <3>2 DEF Misread, ReadBody, ReadForeignBody, ReadFails
      <4>2. QED
        BY <1>1, <4>1 DEF Answered, AnswerOnce
    <3>3. QED
      BY <3>1, <3>2
  <2>3. /\ Arriving' \subseteq Arriving
        /\ \A k, l \in Heads' : rx'[k].of = rx'[l].of => k = l
    <3>1. CASE rx' = rx
      BY <1>1, <3>1 DEF Arriving, Heads, Single
    <3>2. CASE rx' # rx
      <4>1. \E j \in 1..Len(rx) : rx' = SubSeq(rx, j + 1, Len(rx))
        BY <1>6, <3>2, TailIsCut DEF Misread, ReadBody, ReadForeignBody, ReadFails, shared, TypeOK
      <4>2. QED
        BY <1>1, <4>1, CutHeads
    <3>3. QED
      BY <3>1, <3>2
  <2>4. Asking' = Asking /\ Requested' = Requested /\ Held' \subseteq Held
    BY <2>1 DEF Asking, Requested, Held
  <2>5. Apart'
    BY <1>1, <2>1, <2>2, <2>3, <2>4 DEF Apart
  <2>6. Single'
    BY <1>1, <2>1, <2>3 DEF Single
  <2>7. QED
    BY <2>2, <2>5, <2>6 DEF Once
<1>7. CASE Check(t)
  <2>1. /\ UNCHANGED <<tx, rx, call, head, calls>>
        /\ Askers' = Askers /\ t \in Holders /\ Holders' = Holders \ {t}
        /\ \/ results' = results
           \/ results' = results \cup {[call |-> c, answer |-> h]}
    BY <1>7 DEF Check, shared, Askers, Holders, At, Goto, TypeOK
  <2>2. Asking' = Asking /\ Requested' = Requested /\ Arriving' = Arriving /\ Heads' = Heads
    BY <2>1 DEF Asking, Requested, Arriving, Heads
  <2>3. h \in Held /\ Held' \subseteq Held \ {h}
    BY <1>1, <2>1 DEF Held, Single
  <2>4. Answered' \subseteq Answered \cup {h}
    BY <2>1 DEF Answered
  <2>5. Apart'
    BY <1>1, <2>1, <2>2, <2>3, <2>4 DEF Apart
  <2>6. Single'
    BY <1>1, <2>1, <2>2 DEF Single
  <2>7. AnswerOnce'
    <3>1. h \notin Answered
      BY <1>1, <2>3 DEF Apart
    <3>2. \A r \in results : r.answer # Mixed => r.answer # h
      BY <3>1 DEF Answered
    <3>3. QED
      BY <1>1, <2>1, <3>2 DEF AnswerOnce
  <2>8. QED
    BY <2>5, <2>6, <2>7 DEF Once
<1>8. CASE SendFails(t)
  <2>1. /\ UNCHANGED <<tx, rx, call, head, calls, results>>
        /\ Askers' = Askers \ {t} /\ Holders' = Holders
    BY <1>8 DEF SendFails, shared, Askers, Holders, At, Goto, TypeOK
  <2>2. Asking' \subseteq Asking
    BY <2>1 DEF Asking
  <2>3. /\ Requested' = Requested /\ Arriving' = Arriving /\ Held' = Held /\ Answered' = Answered
        /\ Heads' = Heads
    BY <2>1 DEF Requested, Arriving, Heads, Held, Answered
  <2>4. Apart'
    BY <1>1, <2>1, <2>2, <2>3 DEF Apart
  <2>5. Single'
    BY <1>1, <2>1, <2>3 DEF Single
  <2>6. QED
    BY <1>1, <2>1, <2>4, <2>5 DEF Once, AnswerOnce
<1>9. QED
  BY <1>2, <1>3, <1>4, <1>5, <1>6, <1>7, <1>8 DEF Step

\* The server moves a number from the requests to the heads, or loses it.
LEMMA ServerMoves ==
  ASSUME TypeOK, CallsTyped, Once, Server
  PROVE  Once'
<1>1. Apart /\ Single /\ AnswerOnce
  BY DEF Once
<1>2. /\ UNCHANGED <<pc, call, head, calls, results>>
      /\ Askers' = Askers /\ Holders' = Holders
      /\ Asking' = Asking /\ Held' = Held /\ Answered' = Answered
  BY DEF Server, ServeHead, ServeBody, Drop, Askers, Holders, Asking, Held, Answered
<1>3. AnswerOnce'
  BY <1>1, <1>2 DEF AnswerOnce
<1>4. ASSUME NEW new, rx' = Append(rx, new)
      PROVE  /\ Len(rx) \in Nat /\ Len(rx') = Len(rx) + 1
             /\ \A k \in 1..Len(rx') : rx'[k] = IF k \in 1..Len(rx) THEN rx[k] ELSE new
  <2>1. /\ Len(rx) \in Nat /\ Len(rx') = Len(rx) + 1
        /\ \A k \in 1..Len(rx') : rx'[k] = IF k <= Len(rx) THEN rx[k] ELSE new
    BY <1>4, AppendElements DEF TypeOK
  <2>2. QED
    BY <2>1
<1>5. CASE ServeHead
  <2> DEFINE new == [of |-> tx[1].of, tid |-> tx[1].tid, piece |-> "head"]
  <2>1. tx # <<>> /\ tx' = Tail(tx) /\ rx' = Append(rx, new)
    BY <1>5 DEF ServeHead
  <2>2. /\ tx[1].of \in Requested /\ Requested' \subseteq Requested \ {tx[1].of}
        /\ \A k, l \in 1..Len(tx') : tx'[k].of = tx'[l].of => k = l
    BY <1>1, <2>1, TakeRequest
  <2>3. \A k \in Heads' : \/ k \in Heads /\ rx'[k] = rx[k]
                          \/ k = Len(rx) + 1 /\ rx'[k].of = tx[1].of
    BY <1>4, <2>1 DEF Heads
  <2>4. Arriving' \subseteq Arriving \cup {tx[1].of}
    BY <2>3 DEF Arriving
  <2>5. Apart'
    BY <1>1, <1>2, <2>2, <2>4 DEF Apart
  <2>6. \A k \in Heads : rx[k].of # tx[1].of
    BY <1>1, <2>2 DEF Apart, Arriving
  <2>7. \A k, l \in Heads' : rx'[k].of = rx'[l].of => k = l
    BY <1>1, <2>3, <2>6 DEF Single
  <2>8. Single'
    BY <1>1, <1>2, <2>2, <2>7 DEF Single
  <2>9. QED
    BY <1>3, <2>5, <2>8 DEF Once
<1>6. CASE ServeBody
  <2> DEFINE new == [of |-> serving.of, tid |-> serving.tid, piece |-> "body"]
  <2>1. tx' = tx /\ rx' = Append(rx, new)
    BY <1>6 DEF ServeBody
  <2>2. Heads' = Heads /\ \A k \in Heads : rx'[k] = rx[k]
    BY <1>4, <2>1 DEF Heads
  <2>3. Requested' = Requested /\ Arriving' = Arriving
    BY <2>1, <2>2 DEF Requested, Arriving
  <2>4. Apart'
    BY <1>1, <1>2, <2>3 DEF Apart
  <2>5. Single'
    <3>1. \A k, l \in Heads' : rx'[k].of = rx'[l].of => k = l
      BY <1>1, <2>2 DEF Single
    <3>2. QED
      BY <1>1, <1>2, <2>1, <3>1 DEF Single
  <2>6. QED
    BY <1>3, <2>4, <2>5 DEF Once
<1>7. CASE Drop
  <2>1. rx' = rx /\ tx # <<>> /\ tx' = Tail(tx)
    BY <1>7 DEF Drop
  <2>2. /\ Requested' \subseteq Requested
        /\ \A k, l \in 1..Len(tx') : tx'[k].of = tx'[l].of => k = l
    BY <1>1, <2>1, TakeRequest
  <2>3. Arriving' = Arriving /\ Heads' = Heads
    BY <2>1 DEF Arriving, Heads
  <2>4. Apart'
    BY <1>1, <1>2, <2>2, <2>3 DEF Apart
  <2>5. Single'
    BY <1>1, <1>2, <2>1, <2>2, <2>3 DEF Single
  <2>6. QED
    BY <1>3, <2>4, <2>5 DEF Once
<1>8. QED
  BY <1>5, <1>6, <1>7 DEF Server

\* No reply is returned by two calls, however many threads share the connection
\* and however few identifiers there are: a reply is read once.
THEOREM ReadOnce == Spec => []AnswerOnce
<1>1. Init => TypeOK /\ CallsTyped /\ Once
  <2> SUFFICES ASSUME Init PROVE Once
    BY TypeInit
  <2>1. /\ Askers = {} /\ Holders = {} /\ Heads = {} /\ Len(tx) = 0 /\ results = {}
    BY DEF Init, Askers, Holders, Heads
  <2>2. QED
    BY <2>1 DEF Once, Apart, Single, AnswerOnce, Asking, Requested, Arriving, Held, Answered
<1>2. TypeOK /\ CallsTyped /\ Once /\ [Next]_vars => TypeOK' /\ CallsTyped' /\ Once'
  <2> SUFFICES ASSUME TypeOK, CallsTyped, Once, [Next]_vars PROVE Once'
    BY TypeStep
  <2>1. CASE UNCHANGED vars
    BY <2>1 DEF vars, Once, Apart, Single, AnswerOnce, Askers, Holders, Heads, Asking, Requested,
                Arriving, Held, Answered
  <2>2. QED
    BY <2>1, CallerMoves, ServerMoves DEF Next
<1>3. Once => AnswerOnce
  BY DEF Once
<1>4. QED
  BY <1>1, <1>2, <1>3, PTL DEF Spec

-----------------------------------------------------------------------------
(* The order of the line: what the server was asked, owes and has answered   *)
(* stands in the order of the calls as long as they do not overlap, so that  *)
(* who reads the newest reply has read the last one.                         *)

\* Where a piece of a reply stands: a body comes after its head.
Rank(r) == IF r.piece = "head" THEN 2 * r.of ELSE 2 * r.of + 1

Owes == serving # NoReply

Sorted ==
  /\ \A k, l \in 1..Len(rx) : k < l => Rank(rx[k]) < Rank(rx[l])
  /\ \A k, l \in 1..Len(tx) : k < l => tx[k].of < tx[l].of
  /\ Owes => \A k \in 1..Len(rx) : Rank(rx[k]) < 2 * serving.of + 1
  /\ Owes => \A l \in 1..Len(tx) : serving.of < tx[l].of
  /\ \A k \in 1..Len(rx), l \in 1..Len(tx) : rx[k].of < tx[l].of

\* All that is in the line is of the first n calls, or stands behind rank n.
UpTo(n) ==
  /\ \A k \in 1..Len(rx) : rx[k].of <= n
  /\ \A k \in 1..Len(tx) : tx[k].of <= n
  /\ Owes => serving.of <= n

Beyond(n) ==
  /\ \A k \in 1..Len(rx) : n < Rank(rx[k])
  /\ \A k \in 1..Len(tx) : n < 2 * tx[k].of
  /\ Owes => n < 2 * serving.of + 1

\* The last call whose request is in the line, or has been.
Newest(t) == IF pc[t] \in {"load", "store", "stamp", "send"} THEN calls - 1 ELSE calls

InLine(t) ==
  /\ Sorted
  /\ UpTo(Newest(t))
  /\ At(t, "body") => Beyond(2 * head[t].of)
  /\ At(t, "check") => Beyond(2 * head[t].of + 1)

\* The numbers in the line are natural numbers.
LEMMA LineTyped ==
  ASSUME TypeOK
  PROVE  /\ Len(rx) \in Nat /\ Len(tx) \in Nat /\ calls \in Nat
         /\ \A k \in 1..Len(rx) : rx[k].of \in Nat /\ rx[k].piece \in Pieces /\ Rank(rx[k]) \in Nat
         /\ \A k \in 1..Len(tx) : tx[k].of \in Nat
         /\ Owes => serving.of \in Nat
<1>1. Calls \subseteq Nat /\ calls \in Nat
  BY MaxCallsAssumption DEF TypeOK, Calls
<1>2. \A k \in 1..Len(rx) : rx[k] \in Cell
  BY DEF TypeOK
<1>3. \A k \in 1..Len(rx) : rx[k].of \in Nat /\ rx[k].piece \in Pieces
  BY <1>1, <1>2 DEF Cell
<1>4. \A k \in 1..Len(rx) : Rank(rx[k]) \in Nat
  BY <1>3 DEF Rank
<1>5. \A k \in 1..Len(tx) : tx[k] \in Request
  BY DEF TypeOK
<1>6. \A k \in 1..Len(tx) : tx[k].of \in Nat
  BY <1>1, <1>5 DEF Request
<1>7. Owes => serving.of \in Nat
  BY <1>1 DEF TypeOK, Owes, Request
<1>8. Len(rx) \in Nat /\ Len(tx) \in Nat
  BY DEF TypeOK
<1>9. QED
  BY <1>1, <1>3, <1>4, <1>6, <1>7, <1>8

\* A line that is cut at its front stays sorted, up to and beyond what it was.
LEMMA CutLine ==
  ASSUME TypeOK, Sorted, NEW j \in 1..Len(rx), rx' = SubSeq(rx, j + 1, Len(rx)),
         UNCHANGED <<tx, serving>>
  PROVE  /\ Sorted'
         /\ \A n \in Nat : UpTo(n) => UpTo(n)'
         /\ \A n \in Nat : n <= Rank(rx[1]) => Beyond(n)'
<1>1. /\ Len(rx) \in Nat /\ Len(tx) \in Nat
      /\ \A k \in 1..Len(rx) : rx[k].of \in Nat /\ Rank(rx[k]) \in Nat
      /\ \A k \in 1..Len(tx) : tx[k].of \in Nat
      /\ Owes => serving.of \in Nat
  BY LineTyped
<1>2. /\ Len(rx') = Len(rx) - j
      /\ \A k \in 1..Len(rx') : k + j \in 1..Len(rx) /\ rx'[k] = rx[k + j]
  BY CutElements DEF TypeOK
<1>3. Owes' = Owes
  BY DEF Owes
<1>4. \A k, l \in 1..Len(rx') : k < l => Rank(rx'[k]) < Rank(rx'[l])
  <2> SUFFICES ASSUME NEW k \in 1..Len(rx'), NEW l \in 1..Len(rx'), k < l
               PROVE  Rank(rx'[k]) < Rank(rx'[l])
    OBVIOUS
  <2>1. k + j < l + j /\ k + j \in 1..Len(rx) /\ l + j \in 1..Len(rx)
    BY <1>2
  <2>2. Rank(rx[k + j]) < Rank(rx[l + j])
    BY <2>1 DEF Sorted
  <2>3. QED
    BY <1>2, <2>2
<1>5. Sorted'
  BY <1>2, <1>3, <1>4 DEF Sorted
<1>6. \A n \in Nat : UpTo(n) => UpTo(n)'
  BY <1>2, <1>3 DEF UpTo
<1>7. \A n \in Nat : n <= Rank(rx[1]) => Beyond(n)'
  <2> SUFFICES ASSUME NEW n \in Nat, n <= Rank(rx[1]) PROVE Beyond(n)'
    OBVIOUS
  <2>1. 1 \in 1..Len(rx) /\ rx[1].of \in Nat /\ Rank(rx[1]) \in Nat
    BY <1>1
  <2>2. ASSUME NEW k \in 1..Len(rx') PROVE n < Rank(rx'[k])
    <3>1. k + j \in 1..Len(rx) /\ 1 < k + j
      BY <1>1, <1>2
    <3>2. Rank(rx[1]) < Rank(rx[k + j]) /\ Rank(rx[k + j]) \in Nat
      BY <1>1, <2>1, <3>1 DEF Sorted
    <3>3. QED
      BY <1>2, <2>1, <3>2
  <2>3. ASSUME NEW k \in 1..Len(tx) PROVE n < 2 * tx[k].of
    <3>1. rx[1].of < tx[k].of /\ tx[k].of \in Nat
      BY <1>1, <2>1 DEF Sorted
    <3>2. Rank(rx[1]) < 2 * tx[k].of
      <4>1. rx[1].of \in Nat /\ tx[k].of \in Nat /\ rx[1].of < tx[k].of
        BY <2>1, <3>1
      <4>2. 2 * rx[1].of < 2 * tx[k].of /\ 2 * rx[1].of + 1 < 2 * tx[k].of
        BY <4>1
      <4>3. Rank(rx[1]) = 2 * rx[1].of \/ Rank(rx[1]) = 2 * rx[1].of + 1
        BY DEF Rank
      <4>4. QED
        BY <4>2, <4>3
    <3>3. QED
      BY <2>1, <3>1, <3>2
  <2>4. Owes => n < 2 * serving.of + 1
    BY <1>1, <2>1 DEF Sorted
  <2>5. QED
    BY <1>3, <2>2, <2>3, <2>4 DEF Beyond
<1>8. QED
  BY <1>5, <1>6, <1>7

\* The steps of the caller before its request is in the line.
LEMMA AskInLine ==
  ASSUME NEW t \in Threads, TypeOK, IInv(t), InLine(t),
         Begin(t) \/ LoadTid(t) \/ StoreTid(t) \/ StampTid(t)
  PROVE  InLine(t)'
<1>1. /\ UNCHANGED <<tx, rx, serving>>
      /\ pc'[t] \in {"load", "store", "stamp", "send"}
  BY DEF Begin, LoadTid, StoreTid, StampTid, shared, At, Goto, TypeOK
<1>2. Newest(t)' = Newest(t)
  BY DEF Newest, Begin, LoadTid, StoreTid, StampTid, shared, At, Goto, TypeOK
<1>3. Sorted'
  BY <1>1 DEF InLine, Sorted, Owes
<1>4. UpTo(Newest(t))'
  BY <1>1, <1>2 DEF InLine, UpTo, Owes
<1>5. QED
  BY <1>1, <1>3, <1>4 DEF InLine, At

\* The request of the newest call goes to the end of the line.
LEMMA SendInLine ==
  ASSUME NEW t \in Threads, TypeOK, CallsTyped, IInv(t), InLine(t), Send(t)
  PROVE  InLine(t)'
<1> DEFINE req == [of |-> call[t], tid |-> stamp[t]]
<1>1. /\ UNCHANGED <<rx, serving, calls>>
      /\ tx' = Append(tx, req) /\ pc[t] = "send" /\ pc'[t] = "head"
  BY DEF Send, At, Goto, TypeOK
<1>2. /\ Len(rx) \in Nat /\ Len(tx) \in Nat /\ calls \in Nat
      /\ \A k \in 1..Len(rx) : rx[k].of \in Nat
      /\ \A k \in 1..Len(tx) : tx[k].of \in Nat
      /\ Owes => serving.of \in Nat
  BY LineTyped
<1>3. /\ Len(tx') = Len(tx) + 1
      /\ \A k \in 1..Len(tx') : tx'[k] = IF k <= Len(tx) THEN tx[k] ELSE req
  BY <1>1, AppendElements DEF TypeOK
<1>4. req.of = calls
  BY <1>1 DEF IInv, Counted, At
<1>5. UpTo(calls - 1)
  BY <1>1 DEF InLine, Newest
<1>6. \A k \in 1..Len(tx') :
        IF k \in 1..Len(tx) THEN tx'[k] = tx[k] /\ tx[k].of < calls
        ELSE k = Len(tx) + 1 /\ tx'[k].of = calls
  BY <1>2, <1>3, <1>4, <1>5 DEF UpTo
<1>7. /\ \A k \in 1..Len(rx) : rx[k].of < calls
      /\ Owes => serving.of < calls
  BY <1>2, <1>5 DEF UpTo
<1>8. Owes' = Owes
  BY <1>1 DEF Owes
<1>9. \A k, l \in 1..Len(tx') : k < l => tx'[k].of < tx'[l].of
  BY <1>2, <1>3, <1>6 DEF InLine, Sorted
<1>10. Sorted'
  <2>1. /\ \A k, l \in 1..Len(rx') : k < l => Rank(rx'[k]) < Rank(rx'[l])
        /\ Owes' => \A k \in 1..Len(rx') : Rank(rx'[k]) < 2 * serving'.of + 1
    BY <1>1, <1>8 DEF InLine, Sorted
  <2>2. Owes' => \A l \in 1..Len(tx') : serving'.of < tx'[l].of
    BY <1>1, <1>6, <1>7, <1>8 DEF InLine, Sorted
  <2>3. \A k \in 1..Len(rx'), l \in 1..Len(tx') : rx'[k].of < tx'[l].of
    BY <1>1, <1>6, <1>7 DEF InLine, Sorted
  <2>4. QED
    BY <1>9, <2>1, <2>2, <2>3 DEF Sorted
<1>11. UpTo(calls)'
  <2>1. \A k \in 1..Len(tx') : tx'[k].of <= calls
    BY <1>2, <1>6
  <2>2. QED
    BY <1>1, <1>2, <1>7, <1>8, <2>1 DEF UpTo
<1>12. Newest(t)' = calls'
  BY <1>1 DEF Newest
<1>13. QED
  BY <1>1, <1>10, <1>11, <1>12 DEF InLine, At

\* The reads: what a lone caller has read stands before all that is left.
LEMMA ReadInLine ==
  ASSUME NEW t \in Threads, TypeOK, CallsTyped, IInv(t), InLine(t),
         ReadHead(t) \/ Misread(t) \/ ReadBody(t)
  PROVE  InLine(t)'
<1>1. /\ UNCHANGED <<tx, serving, calls>>
      /\ pc[t] \in {"head", "body"} /\ pc'[t] \in {"body", "check", "idle"} /\ rx # <<>>
  BY DEF ReadHead, Misread, ReadBody, At, Goto, TypeOK
<1>2. PICK j \in 1..Len(rx) : rx' = SubSeq(rx, j + 1, Len(rx))
  BY <1>1, TailIsCut DEF ReadHead, Misread, ReadBody, TypeOK
<1>3. /\ Sorted'
      /\ \A n \in Nat : UpTo(n) => UpTo(n)'
      /\ \A n \in Nat : n <= Rank(rx[1]) => Beyond(n)'
  BY <1>1, <1>2, CutLine DEF InLine
<1>4. UpTo(calls)'
  <2>1. UpTo(calls) /\ calls \in Nat
    BY <1>1, LineTyped DEF InLine, Newest
  <2>2. PICK n \in Nat : n = calls
    BY <2>1
  <2>3. UpTo(n)'
    BY <1>3, <2>1, <2>2
  <2>4. QED
    BY <1>1, <2>2, <2>3 DEF UpTo
<1>5. Newest(t)' = calls /\ UpTo(Newest(t))'
  BY <1>1, <1>4 DEF Newest, UpTo
<1>6. 1 \in 1..Len(rx) /\ rx[1].of \in Nat /\ Rank(rx[1]) \in Nat
  BY <1>1, LineTyped DEF TypeOK
<1>7. At(t, "body")' => Beyond(2 * head[t].of)'
  <2> SUFFICES ASSUME At(t, "body")' PROVE Beyond(2 * head[t].of)'
    OBVIOUS
  <2>1. rx[1].piece = "head" /\ head'[t] = rx[1]
    BY DEF ReadHead, Misread, ReadBody, At, Goto, TypeOK
  <2>2. 2 * rx[1].of \in Nat /\ 2 * rx[1].of <= Rank(rx[1])
    BY <1>6, <2>1 DEF Rank
  <2>3. PICK n \in Nat : n = 2 * rx[1].of
    BY <2>2
  <2>4. Beyond(n)'
    BY <1>3, <2>2, <2>3
  <2>5. QED
    BY <2>1, <2>3, <2>4 DEF Beyond
<1>8. At(t, "check")' => Beyond(2 * head[t].of + 1)'
  <2> SUFFICES ASSUME At(t, "check")' PROVE Beyond(2 * head[t].of + 1)'
    OBVIOUS
  <2>1. rx[1].piece = "body" /\ rx[1].of = head[t].of /\ head' = head
    BY DEF ReadHead, Misread, ReadBody, At, Goto, TypeOK
  <2>2. 2 * head[t].of + 1 \in Nat /\ 2 * head[t].of + 1 <= Rank(rx[1])
    BY <1>6, <2>1 DEF Rank
  <2>3. QED
    BY <1>3, <2>1, <2>2
<1>9. QED
  BY <1>3, <1>5, <1>7, <1>8 DEF InLine

\* A return leaves the line as it is.
LEMMA ReturnInLine ==
  ASSUME NEW t \in Threads, TypeOK, InLine(t), SendFails(t) \/ ReadFails(t) \/ Check(t)
  PROVE  InLine(t)'
<1>1. /\ UNCHANGED <<tx, rx, serving, calls>>
      /\ pc[t] \in {"send", "head", "body", "check"} /\ pc'[t] = "idle"
  BY DEF SendFails, ReadFails, Check, shared, At, Goto, TypeOK
<1>2. Newest(t) \in {calls - 1, calls} /\ Newest(t)' = calls
  BY <1>1 DEF Newest
<1>3. UpTo(calls)
  <2>1. UpTo(calls - 1) \/ UpTo(calls)
    BY <1>2 DEF InLine
  <2>2. QED
    BY <2>1, LineTyped DEF UpTo
<1>4. Sorted' /\ UpTo(Newest(t))'
  BY <1>1, <1>2, <1>3 DEF InLine, Sorted, UpTo, Owes
<1>5. QED
  BY <1>1, <1>4 DEF InLine, At

\* The server takes from the front of the line and keeps its order.
LEMMA ServerInLine ==
  ASSUME NEW t \in Threads, TypeOK, CallsTyped, InLine(t), Server
  PROVE  InLine(t)'
<1>1. UNCHANGED <<pc, head, calls>> /\ Newest(t)' = Newest(t)
  BY DEF Server, ServeHead, ServeBody, Drop, Newest
<1>2. /\ Len(rx) \in Nat /\ Len(tx) \in Nat /\ calls \in Nat
      /\ \A k \in 1..Len(rx) : rx[k].of \in Nat /\ Rank(rx[k]) \in Nat
      /\ \A k \in 1..Len(tx) : tx[k].of \in Nat
      /\ Owes => serving.of \in Nat
  BY LineTyped
<1>3. Sorted /\ UpTo(Newest(t))
  BY DEF InLine
<1>4. ASSUME tx # <<>>, tx' = Tail(tx)
      PROVE  /\ 1 \in 1..Len(tx) /\ tx[1].of \in Nat
             /\ \A k \in 1..Len(tx') :
                  k + 1 \in 1..Len(tx) /\ tx'[k] = tx[k + 1] /\ tx[1].of < tx'[k].of /\ tx'[k].of \in Nat
             /\ \A k, l \in 1..Len(tx') : k < l => tx'[k].of < tx'[l].of
  <2>1. /\ 1 \in 1..Len(tx)
        /\ \A k \in 1..Len(tx') : k \in Nat /\ k >= 1 /\ k + 1 \in 1..Len(tx) /\ tx'[k] = tx[k + 1]
    BY <1>2, <1>4, TailElements DEF TypeOK
  <2>2. \A k \in 1..Len(tx') : tx[1].of < tx[k + 1].of
    <3> SUFFICES ASSUME NEW k \in 1..Len(tx') PROVE tx[1].of < tx[k + 1].of
      OBVIOUS
    <3>1. 1 < k + 1 /\ k + 1 \in 1..Len(tx)
      BY <2>1
    <3>2. QED
      BY <1>3, <2>1, <3>1 DEF Sorted
  <2>3. \A k, l \in 1..Len(tx') : k < l => tx'[k].of < tx'[l].of
    <3> SUFFICES ASSUME NEW k \in 1..Len(tx'), NEW l \in 1..Len(tx'), k < l
                 PROVE  tx'[k].of < tx'[l].of
      OBVIOUS
    <3>1. k + 1 < l + 1 /\ k + 1 \in 1..Len(tx) /\ l + 1 \in 1..Len(tx)
      BY <2>1
    <3>2. tx[k + 1].of < tx[l + 1].of
      BY <1>3, <3>1 DEF Sorted
    <3>3. QED
      BY <2>1, <3>2
  <2>4. QED
    BY <1>2, <2>1, <2>2, <2>3
<1>5. ASSUME NEW new, rx' = Append(rx, new)
      PROVE  \A k \in 1..Len(rx') :
               \/ k \in 1..Len(rx) /\ rx'[k] = rx[k]
               \/ k = Len(rx) + 1 /\ rx'[k] = new
  <2>1. /\ Len(rx') = Len(rx) + 1
        /\ \A k \in 1..Len(rx') : rx'[k] = IF k <= Len(rx) THEN rx[k] ELSE new
    BY <1>5, AppendElements DEF TypeOK
  <2>2. QED
    BY <1>2, <2>1
<1>6. Newest(t) \in Int
  BY <1>2 DEF Newest
<1>7. ASSUME NEW n \in Nat, Beyond(n) PROVE Beyond(n)'
  <2>1. CASE ServeHead
    <3> DEFINE new == [of |-> tx[1].of, tid |-> tx[1].tid, piece |-> "head"]
    <3>1. tx # <<>> /\ tx' = Tail(tx) /\ rx' = Append(rx, new) /\ serving' = tx[1]
      BY <2>1 DEF ServeHead
    <3>2. Rank(new) = 2 * tx[1].of /\ n < 2 * tx[1].of
      BY <1>4, <1>7, <3>1 DEF Rank, Beyond
    <3>3. \A k \in 1..Len(rx') : n < Rank(rx'[k])
      BY <1>5, <1>7, <3>1, <3>2 DEF Beyond
    <3>4. \A k \in 1..Len(tx') : n < 2 * tx'[k].of
      BY <1>4, <3>1, <3>2
    <3>5. n < 2 * serving'.of + 1
      BY <1>4, <3>1, <3>2
    <3>6. QED
      BY <3>3, <3>4, <3>5 DEF Beyond
  <2>2. CASE ServeBody
    <3> DEFINE new == [of |-> serving.of, tid |-> serving.tid, piece |-> "body"]
    <3>1. Owes /\ ~Owes' /\ tx' = tx /\ rx' = Append(rx, new)
      BY <2>2 DEF ServeBody, Owes
    <3>2. Rank(new) = 2 * serving.of + 1
      BY DEF Rank
    <3>3. \A k \in 1..Len(rx') : n < Rank(rx'[k])
      BY <1>5, <1>7, <3>1, <3>2 DEF Beyond
    <3>4. QED
      BY <1>7, <3>1, <3>3 DEF Beyond
  <2>3. CASE Drop
    <3>1. tx # <<>> /\ tx' = Tail(tx) /\ rx' = rx /\ serving' = serving
      BY <2>3 DEF Drop
    <3>2. \A k \in 1..Len(tx') : n < 2 * tx'[k].of
      BY <1>4, <1>7, <3>1 DEF Beyond
    <3>3. QED
      BY <1>7, <3>1, <3>2 DEF Beyond, Owes
  <2>4. QED
    BY <2>1, <2>2, <2>3 DEF Server
<1>8. Sorted' /\ UpTo(Newest(t))'
  <2>1. CASE ServeHead
    <3> DEFINE new == [of |-> tx[1].of, tid |-> tx[1].tid, piece |-> "head"]
    <3>1. ~Owes /\ tx # <<>> /\ tx' = Tail(tx) /\ rx' = Append(rx, new) /\ serving' = tx[1]
      BY <2>1 DEF ServeHead, Owes
    <3>2. Rank(new) = 2 * tx[1].of /\ new.of = tx[1].of /\ tx[1].of \in Nat
      BY <1>4, <3>1 DEF Rank
    <3>3. \A k \in 1..Len(rx) : rx[k].of < tx[1].of /\ Rank(rx[k]) < 2 * tx[1].of
      <4>1. \A k \in 1..Len(rx) : rx[k].of < tx[1].of
        BY <1>3, <1>4, <3>1 DEF Sorted
      <4>2. QED
        BY <1>2, <3>2, <4>1 DEF Rank
    <3>4. \A k, l \in 1..Len(rx') : k < l => Rank(rx'[k]) < Rank(rx'[l])
      <4> SUFFICES ASSUME NEW k \in 1..Len(rx'), NEW l \in 1..Len(rx'), k < l
                   PROVE  Rank(rx'[k]) < Rank(rx'[l])
        OBVIOUS
      <4>1. k \in 1..Len(rx) /\ rx'[k] = rx[k]
        BY <1>2, <1>5, <3>1
      <4>2. CASE l \in 1..Len(rx) /\ rx'[l] = rx[l]
        BY <1>3, <4>1, <4>2 DEF Sorted
      <4>3. CASE rx'[l] = new
        BY <3>2, <3>3, <4>1, <4>3
      <4>4. QED
        BY <1>5, <3>1, <4>2, <4>3
    <3>5. \A k \in 1..Len(rx') : Rank(rx'[k]) < 2 * serving'.of + 1
      BY <1>2, <1>5, <3>1, <3>2, <3>3
    <3>6. \A k \in 1..Len(rx'), l \in 1..Len(tx') : rx'[k].of < tx'[l].of
      <4>1. \A k \in 1..Len(rx') : rx'[k].of \in Nat /\ rx'[k].of <= tx[1].of
        BY <1>2, <1>5, <3>1, <3>2, <3>3
      <4>2. QED
        BY <1>4, <3>1, <3>2, <4>1
    <3>7. \A k, l \in 1..Len(tx') : k < l => tx'[k].of < tx'[l].of
      BY <1>4, <3>1
    <3>8. \A l \in 1..Len(tx') : serving'.of < tx'[l].of
      BY <1>4, <3>1
    <3>9. Sorted'
      BY <3>4, <3>5, <3>6, <3>7, <3>8 DEF Sorted
    <3>10. tx[1].of <= Newest(t)
      BY <1>3, <1>4, <3>1 DEF UpTo
    <3>11. \A k \in 1..Len(rx') : rx'[k].of <= Newest(t)
      BY <1>3, <1>5, <3>1, <3>2, <3>10 DEF UpTo
    <3>12. \A k \in 1..Len(tx') : tx'[k].of <= Newest(t)
      BY <1>3, <1>4, <3>1 DEF UpTo
    <3>13. QED
      BY <1>1, <3>1, <3>9, <3>10, <3>11, <3>12 DEF UpTo
  <2>2. CASE ServeBody
    <3> DEFINE new == [of |-> serving.of, tid |-> serving.tid, piece |-> "body"]
    <3>1. Owes /\ ~Owes' /\ tx' = tx /\ rx' = Append(rx, new)
      BY <2>2 DEF ServeBody, Owes
    <3>2. Rank(new) = 2 * serving.of + 1 /\ new.of = serving.of
      BY DEF Rank
    <3>3. \A k, l \in 1..Len(rx') : k < l => Rank(rx'[k]) < Rank(rx'[l])
      BY <1>2, <1>3, <1>5, <3>1, <3>2 DEF Sorted
    <3>4. \A k \in 1..Len(rx'), l \in 1..Len(tx') : rx'[k].of < tx'[l].of
      BY <1>3, <1>5, <3>1, <3>2 DEF Sorted
    <3>5. Sorted'
      BY <1>3, <3>1, <3>3, <3>4 DEF Sorted
    <3>6. \A k \in 1..Len(rx') : rx'[k].of <= Newest(t)
      BY <1>3, <1>5, <3>1, <3>2 DEF UpTo
    <3>7. QED
      BY <1>1, <1>3, <3>1, <3>5, <3>6 DEF UpTo
  <2>3. CASE Drop
    <3>1. tx # <<>> /\ tx' = Tail(tx) /\ rx' = rx /\ serving' = serving /\ Owes' = Owes
      BY <2>3 DEF Drop, Owes
    <3>2. \A k \in 1..Len(tx') : k + 1 \in 1..Len(tx) /\ tx'[k] = tx[k + 1]
      BY <1>4, <3>1
    <3>3. \A k, l \in 1..Len(tx') : k < l => tx'[k].of < tx'[l].of
      BY <1>4, <3>1
    <3>4. Sorted'
      BY <1>3, <3>1, <3>2, <3>3 DEF Sorted
    <3>5. UpTo(Newest(t))'
      BY <1>1, <1>3, <3>1, <3>2 DEF UpTo
    <3>6. QED
      BY <3>4, <3>5
  <2>4. QED
    BY <2>1, <2>2, <2>3 DEF Server
<1>9. ASSUME pc[t] \in {"body", "check"} PROVE head[t].of \in Nat
  BY <1>9, MaxCallsAssumption DEF CallsTyped, Cell, Calls
<1>10. QED
  BY <1>1, <1>7, <1>8, <1>9 DEF InLine, At

\* The step of a lone caller keeps the line.
LEMMA CallerInLine ==
  ASSUME NEW t \in Threads, TypeOK, CallsTyped, IInv(t), InLine(t), Begin(t) \/ Step(t)
  PROVE  InLine(t)'
<1>1. ~ReadForeignBody(t)
  BY DEF ReadForeignBody, IInv, Framed, BodyOf, At
<1>2. QED
  BY <1>1, AskInLine, SendInLine, ReadInLine, ReturnInLine DEF Step

Lined == ~crowded => \A t \in Threads : Alone(t) => InLine(t)

\* No step disturbs the line while calls do not overlap.
LEMMA LinedStep ==
  TypeOK /\ CallsTyped /\ InTurn /\ Serial /\ Lined /\ [Next]_vars => Lined'
<1> SUFFICES ASSUME TypeOK, CallsTyped, InTurn, Serial, Lined, [Next]_vars, ~crowded',
                    NEW u \in Threads, Alone(u)'
             PROVE  InLine(u)'
  BY DEF Lined
<1>1. ASSUME NEW t \in Threads, Begin(t) \/ Step(t) PROVE InLine(u)'
  <2>1. ~crowded /\ Alone(t) /\ \A v \in Threads \ {t} : pc'[v] = pc[v]
    BY <1>1, OthersWait DEF InTurn, Alone
  <2>2. InLine(t)'
    BY <1>1, <2>1, CallerInLine DEF Serial, Lined
  <2>3. CASE u = t
    BY <2>2, <2>3
  <2>4. CASE u # t
    <3>1. pc'[t] = "idle" /\ pc'[u] = "idle"
      BY <2>1, <2>4 DEF Alone, At
    <3>2. QED
      BY <2>2, <3>1 DEF InLine, Newest, At
  <2>5. QED
    BY <2>3, <2>4
<1>2. CASE Server
  <2>1. UNCHANGED <<pc, crowded>>
    BY <1>2 DEF Server, ServeHead, ServeBody, Drop
  <2>2. InLine(u)
    BY <2>1 DEF Lined, Alone, At
  <2>3. QED
    BY <1>2, <2>2, ServerInLine
<1>3. CASE UNCHANGED vars
  <2>1. InLine(u)
    BY <1>3 DEF vars, Lined, Alone, At
  <2>2. QED
    BY <1>3, <2>1 DEF vars, InLine, Sorted, UpTo, Beyond, Owes, Newest, At
<1>4. QED
  BY <1>1, <1>2, <1>3 DEF Next

\* A call that succeeds with the newest reply finds nothing else in the line.
LEMMA NothingLeft ==
  ASSUME TypeOK, CallsTyped, InTurn, Serial, Lined, ~crowded, Next,
         NEW r \in results' \ results, r.answer = r.call
  PROVE  tx = <<>> /\ rx = <<>> /\ serving = NoReply
<1>1. PICK t \in Threads : ReadForeignBody(t) \/ Check(t)
  BY DEF Next, Server, ServeHead, ServeBody, Drop, Begin, Step, LoadTid, StoreTid, StampTid, Send,
         SendFails, ReadHead, Misread, ReadBody, ReadFails
<1>2. IInv(t) /\ InLine(t)
  <2>1. Alone(t)
    BY <1>1 DEF InTurn, Alone, ReadForeignBody, Check, At
  <2>2. QED
    BY <2>1 DEF Serial, Lined
<1>3. Check(t)
  BY <1>1, <1>2 DEF ReadForeignBody, IInv, Framed, BodyOf, At
<1>4. pc[t] = "check" /\ r = [call |-> call[t], answer |-> head[t].of]
  BY <1>3 DEF Check, At
<1>5. head[t].of = calls
  BY <1>2, <1>4 DEF IInv, Counted, At
<1>6. UpTo(calls) /\ Beyond(2 * calls + 1)
  BY <1>2, <1>4, <1>5 DEF InLine, Newest, At
<1>7. /\ Len(rx) \in Nat /\ Len(tx) \in Nat /\ calls \in Nat
      /\ \A k \in 1..Len(rx) : rx[k].of \in Nat
      /\ \A k \in 1..Len(tx) : tx[k].of \in Nat
      /\ Owes => serving.of \in Nat
  BY LineTyped
<1>8. ASSUME NEW k \in 1..Len(tx) PROVE FALSE
  <2>1. tx[k].of <= calls /\ 2 * calls + 1 < 2 * tx[k].of
    BY <1>6 DEF UpTo, Beyond
  <2>2. QED
    BY <1>7, <2>1
<1>9. ASSUME NEW k \in 1..Len(rx) PROVE FALSE
  <2>1. rx[k].of <= calls /\ 2 * calls + 1 < Rank(rx[k])
    BY <1>6 DEF UpTo, Beyond
  <2>2. QED
    BY <1>7, <2>1 DEF Rank
<1>10. ~Owes
  <2>1. Owes => serving.of <= calls /\ 2 * calls + 1 < 2 * serving.of + 1
    BY <1>6 DEF UpTo, Beyond
  <2>2. QED
    BY <1>7, <2>1
<1>11. 1 \notin 1..Len(tx) /\ 1 \notin 1..Len(rx)
  BY <1>8, <1>9
<1>12. Len(tx) = 0 /\ Len(rx) = 0
  BY <1>7, <1>11
<1>13. tx = <<>> /\ rx = <<>>
  BY <1>12 DEF TypeOK
<1>14. QED
  BY <1>10, <1>13 DEF Owes

\* As long as calls do not overlap, a call succeeds with its own reply only when
\* no request waits, no reply is on its way and none is left to read: one late
\* reply makes the later calls fail (QueryRequest.cpp flushes nothing after an error).
THEOREM InSync == Spec => SuccessMeansInSync
<1> DEFINE Inv == TypeOK /\ CallsTyped /\ InTurn /\ Serial /\ Lined
           Success == ~crowded => \A r \in results' \ results :
                        r.answer = r.call => tx = <<>> /\ rx = <<>> /\ serving = NoReply
<1>1. Init => Inv
  <2> SUFFICES ASSUME Init PROVE Inv
    OBVIOUS
  <2>1. TypeOK /\ CallsTyped
    BY TypeInit
  <2>2. InTurn /\ Serial
    BY DEF Init, InTurn, Serial, IInv, Counted, AllKnown, Framed, OwnAnswer, Stamped, At
  <2>3. Lined
    BY DEF Init, Lined, InLine, Sorted, UpTo, Owes, Newest, At
  <2>4. QED
    BY <2>1, <2>2, <2>3
<1>2. Inv /\ [Next]_vars => Inv'
  BY TypeStep, SerialStep, LinedStep
<1>3. Inv /\ [Next]_vars => [Success]_vars
  BY NothingLeft
<1>4. QED
  BY <1>1, <1>2, <1>3, PTL DEF Spec, SuccessMeansInSync
=============================================================================
