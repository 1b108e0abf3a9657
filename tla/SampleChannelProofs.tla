------------------------- MODULE SampleChannelProofs -------------------------
(***************************************************************************)
(* Proofs about SampleChannel for every number of columns and rows.        *)
(*                                                                         *)
(* The inductive invariant says that a column whose push and clear never   *)
(* collided is a run of consecutive rows that ends with the last one       *)
(* pushed; that until its clear the copied column is the beginning of that *)
(* run, followed only by rows of the window; and that whatever left the    *)
(* column lies before the run. From it follow the order, the absence of    *)
(* gaps, the losses, and that the channel is a LossyChannel.               *)
(*                                                                         *)
(* Two more invariants rest on it: one that relates the columns to each    *)
(* other (whole rows), and one that relates each of them to the flag and   *)
(* to beginTime (the time of a message).                                   *)
(***************************************************************************)
EXTENDS SampleChannel, SequenceTheorems, TLAPS

\* The program counters: a column is only ever selected inside the loops over
\* the columns, and a row has begun wherever the sampler is inside one.
Counters ==
  /\ spc # "check" => row >= 1
  /\ spc # "push" => scol = 1
  /\ upc \notin {"copy", "clear"} => ucol = 1

\* The last row that left column i.
Base(i) == Pushed(i) - Len(datas[i])

BufferIsRun(i) ==
  /\ Len(datas[i]) <= Pushed(i)
  /\ \A k \in 1..Len(datas[i]) : datas[i][k] = Base(i) + k

CopyIsPrefix(i) ==
  InWindow(i) =>
    /\ Len(respData[i]) <= Len(datas[i])
    /\ \A k \in 1..Len(respData[i]) : respData[i][k] = datas[i][k]
    /\ \A k \in 1..Len(datas[i]) : k > Len(respData[i]) => datas[i][k] \in window[i]

CopyIsPast(i) ==
  InFlight(i) /\ ~InWindow(i) =>
    /\ Consecutive(respData[i])
    /\ \A k \in 1..Len(respData[i]) : respData[i][k] <= Base(i)

SentIsPast(i) ==
  \A n \in 1..Len(sent) : \A k \in 1..Len(sent[n].data[i]) :
    /\ sent[n].data[i][k] <= Base(i)
    /\ InFlight(i) => \A l \in 1..Len(respData[i]) :
         sent[n].data[i][k] < respData[i][l]

SentInOrder(i) ==
  \A m, n \in 1..Len(sent) : m < n =>
    \A k \in 1..Len(sent[m].data[i]), l \in 1..Len(sent[n].data[i]) :
      sent[m].data[i][k] < sent[n].data[i][l]

SentIsRun(i) == \A n \in 1..Len(sent) : Consecutive(sent[n].data[i])

Accounted(i) ==
  1..Pushed(i) \subseteq Published(i) \cup Pending(i) \cup RowsIn(datas[i]) \cup window[i]

ColumnInv(i) ==
  /\ BufferIsRun(i)
  /\ CopyIsPrefix(i)
  /\ CopyIsPast(i)
  /\ SentIsPast(i)
  /\ SentInOrder(i)
  /\ SentIsRun(i)
  /\ Accounted(i)

IInv ==
  /\ TypeOK
  /\ Counters
  /\ \A i \in Columns \ raced : ColumnInv(i)

-----------------------------------------------------------------------------
(* Type correctness *)

\* The data structures keep their shape: a column index never leaves the
\* columns, in either thread, and only numbers are ever pushed.
THEOREM TypeCorrect == Spec => []TypeOK
<1> USE NumIdsAssumption, TornAssumption DEF Columns
<1>1. Init => TypeOK
  BY DEF Init, TypeOK
<1>2. TypeOK /\ [Next]_vars => TypeOK'
  <2> SUFFICES ASSUME TypeOK, [Next]_vars PROVE TypeOK'
    OBVIOUS
  <2> USE DEF TypeOK, shared, history, response, sampler, uploader
  <2>1. CASE CheckClear
    BY <2>1 DEF CheckClear
  <2>2. CASE Stamp
    BY <2>2 DEF Stamp
  <2>3. CASE Unflag
    BY <2>3 DEF Unflag
  <2>4. CASE Push
    <3>1. window' \in [Columns -> SUBSET Nat]
      <4>1. window[scol] \cup {row} \in SUBSET Nat
        OBVIOUS
      <4>2. QED
        BY <2>4, <4>1 DEF Push
    <3>2. datas' \in [Columns -> Seq(Nat)]
      BY <2>4 DEF Push
    <3>3. scol' \in Columns /\ spc' \in {"push", "check"} /\ row' = row
      BY <2>4 DEF Push, PushDone, AfterColumn
    <3>4. overlapped' \in SUBSET Nat
      BY <2>4 DEF Push
    <3>5. UNCHANGED <<isClear, beginTime, response, uploader, alive, sent, raced>>
      BY <2>4 DEF Push
    <3>6. QED
      BY <3>1, <3>2, <3>3, <3>4, <3>5
  <2>5. CASE UploadBegin
    BY <2>5 DEF UploadBegin
  <2>6. CASE CopyColumn
    BY <2>6 DEF CopyColumn, PushDone, UploadColumnDone, AfterColumn, MarkOverlap
  <2>7. CASE ClearColumn
    BY <2>7 DEF ClearColumn, PushDone, UploadColumnDone, AfterColumn, MarkOverlap
  <2>8. CASE MarkClear
    BY <2>8 DEF MarkClear, MarkOverlap
  <2>9. CASE Publish
    <3>1. [begin |-> respBegin, data |-> respData] \in Message
      BY DEF Message
    <3>2. sent' \in Seq(Message)
      BY <2>9, <3>1 DEF Publish
    <3>3. /\ upc' = "wait"
          /\ UNCHANGED <<ucol, shared, response, sampler, alive, window, overlapped, raced>>
      BY <2>9 DEF Publish
    <3>4. QED
      BY <3>2, <3>3
  <2>10. CASE PublishThrows
    BY <2>10 DEF PublishThrows
  <2>11. CASE PushUndoesClear
    BY <2>11 DEF PushUndoesClear, PushDone, UploadColumnDone, AfterColumn
  <2>12. CASE TornBegin
    BY <2>12 DEF TornBegin
  <2>13. CASE RaceKills
    BY <2>13 DEF RaceKills
  <2>14. CASE UNCHANGED vars
    BY <2>14 DEF vars
  <2>15. QED
    BY <2>1, <2>2, <2>3, <2>4, <2>5, <2>6, <2>7, <2>8, <2>9, <2>10, <2>11,
       <2>12, <2>13, <2>14 DEF Next, SampleTask, UploadTask, Race
<1>3. QED
  BY <1>1, <1>2, PTL DEF Spec

-----------------------------------------------------------------------------
(* The inductive invariant *)

\* No step leaves a program counter inside a loop it has not entered.
LEMMA CountersStep == TypeOK /\ Counters /\ [Next]_vars => Counters'
<1> SUFFICES ASSUME TypeOK, Counters, [Next]_vars PROVE Counters'
  OBVIOUS
<1> USE NumIdsAssumption DEF Counters, TypeOK, Columns, shared, response,
        sampler, uploader, PushDone, UploadColumnDone, AfterColumn
<1>1. CASE SampleTask
  <2>1. UNCHANGED <<upc, ucol>>
    BY <1>1 DEF SampleTask, CheckClear, Stamp, Unflag, Push
  <2>2. CASE Push
    BY <2>1, <2>2 DEF Push
  <2>3. CASE CheckClear \/ Stamp \/ Unflag
    BY <2>1, <2>3 DEF CheckClear, Stamp, Unflag
  <2>4. QED
    BY <1>1, <2>2, <2>3 DEF SampleTask
<1>2. CASE UploadBegin \/ CopyColumn \/ ClearColumn \/ MarkClear
  BY <1>2 DEF UploadBegin, CopyColumn, ClearColumn, MarkClear
<1>3. CASE Publish \/ PublishThrows
  <2>1. UNCHANGED sampler /\ UNCHANGED ucol /\ upc' \in {"wait", "publish"} /\ ucol = 1
    BY <1>3 DEF Publish, PublishThrows
  <2>2. QED
    BY <2>1
<1>4. CASE Race
  BY <1>4 DEF Race, PushUndoesClear, TornBegin, RaceKills, PushMeets, StampMeetsRead
<1>5. CASE UNCHANGED vars
  BY <1>5 DEF vars
<1>6. QED
  BY <1>1, <1>2, <1>3, <1>4, <1>5 DEF Next, UploadTask

\* What ColumnInv(i) reads: a step that leaves this alone preserves it.
LEMMA Frame ==
  ASSUME NEW i \in Columns, ColumnInv(i),
         datas'[i] = datas[i], respData'[i] = respData[i], window'[i] = window[i],
         sent' = sent, Pushed(i)' = Pushed(i),
         InWindow(i)' <=> InWindow(i), InFlight(i)' <=> InFlight(i)
  PROVE  ColumnInv(i)'
<1>1. Base(i)' = Base(i)
  BY DEF Base
<1>2. BufferIsRun(i)'
  BY <1>1 DEF ColumnInv, BufferIsRun
<1>3. CopyIsPrefix(i)' /\ CopyIsPast(i)' /\ SentIsPast(i)'
  BY <1>1 DEF ColumnInv, CopyIsPrefix, CopyIsPast, SentIsPast, Consecutive
<1>4. SentInOrder(i)' /\ SentIsRun(i)'
  BY DEF ColumnInv, SentInOrder, SentIsRun
<1>5. Published(i)' = Published(i) /\ Pending(i)' = Pending(i)
  BY DEF Published, Pending
<1>6. Accounted(i)'
  BY <1>5 DEF ColumnInv, Accounted
<1>7. QED
  BY <1>2, <1>3, <1>4, <1>6 DEF ColumnInv

\* The row counter never runs behind the column being pushed.
LEMMA PushedNat ==
  ASSUME TypeOK, Counters, NEW i \in Columns
  PROVE  Pushed(i) \in Nat
BY DEF TypeOK, Counters, Pushed

\* The run of column i, counted from the last row that left it.
LEMMA BaseFacts ==
  ASSUME TypeOK, Counters, NEW i \in Columns
  PROVE  /\ datas[i] \in Seq(Nat) /\ Len(datas[i]) \in Nat
         /\ DOMAIN datas[i] = 1..Len(datas[i])
         /\ Base(i) \in Int
         /\ Base(i) + Len(datas[i]) = Pushed(i)
<1>1. datas[i] \in Seq(Nat)
  BY DEF TypeOK
<1>2. Len(datas[i]) \in Nat /\ DOMAIN datas[i] = 1..Len(datas[i])
  BY <1>1
<1>3. QED
  BY <1>1, <1>2, PushedNat DEF Base

\* A column of a published message is a sequence of row numbers.
LEMMA SentFacts ==
  ASSUME TypeOK, NEW i \in Columns, NEW n \in 1..Len(sent)
  PROVE  /\ sent[n].data[i] \in Seq(Nat)
         /\ Len(sent[n].data[i]) \in Nat
         /\ DOMAIN sent[n].data[i] = 1..Len(sent[n].data[i])
         /\ \A k \in 1..Len(sent[n].data[i]) : sent[n].data[i][k] \in Nat
<1>1. sent[n] \in Message
  BY DEF TypeOK
<1>2. sent[n].data[i] \in Seq(Nat)
  BY <1>1 DEF Message
<1>3. QED
  BY <1>2

\* An iteration of the push loop appends the current row to its column and
\* leaves the others alone.
LEMMA PushStep ==
  ASSUME TypeOK, Counters, Push, NEW i \in Columns, ColumnInv(i)
  PROVE  ColumnInv(i)'
<1>0. UNCHANGED <<respData, sent, upc, ucol>>
  BY DEF Push, response, uploader
<1>1. CASE i # scol
  <2>1. datas'[i] = datas[i] /\ window'[i] = window[i]
    BY <1>1 DEF Push, TypeOK
  <2>2. Pushed(i)' = Pushed(i)
    BY <1>1, NumIdsAssumption DEF Push, PushDone, AfterColumn, Pushed, TypeOK, Columns
  <2>3. respData' = respData /\ sent' = sent /\ upc' = upc /\ ucol' = ucol
    BY <1>0
  <2>4. QED
    BY <2>1, <2>2, <2>3, Frame DEF InWindow, InFlight
<1>2. CASE i = scol
  <2>1. /\ Pushed(i) = row - 1
        /\ Pushed(i)' = row
        /\ row \in Nat \ {0}
    BY <1>2, NumIdsAssumption DEF Push, PushDone, AfterColumn, Pushed, Counters, TypeOK, Columns
  <2>2. datas'[i] = Append(datas[i], row) /\ datas[i] \in Seq(Nat) /\ respData[i] \in Seq(Nat)
    BY <1>2 DEF Push, TypeOK
  <2>3. /\ Len(datas'[i]) = Len(datas[i]) + 1
        /\ \A k \in 1..Len(datas[i]) : datas'[i][k] = datas[i][k]
        /\ datas'[i][Len(datas[i]) + 1] = row
    BY <2>1, <2>2
  <2>4. /\ UNCHANGED <<respData, sent, upc, ucol>>
        /\ InWindow(i)' <=> InWindow(i)
        /\ InFlight(i)' <=> InFlight(i)
    BY <1>0 DEF InWindow, InFlight
  <2>5. window'[i] = IF InWindow(i) THEN window[i] \cup {row} ELSE window[i]
    BY <1>2 DEF Push, TypeOK
  <2>6. Base(i)' = Base(i) /\ Base(i) \in Int /\ Len(datas[i]) \in Nat /\ Len(respData[i]) \in Nat
    <3>1. Len(datas[i]) \in Nat /\ Len(respData[i]) \in Nat
      BY <2>2
    <3>2. Pushed(i)' - Len(datas'[i]) = Pushed(i) - Len(datas[i])
      BY <2>1, <2>3, <3>1
    <3>3. QED
      BY <2>1, <3>1, <3>2 DEF Base
  <2>7. BufferIsRun(i)'
    <3>1. /\ Len(datas[i]) <= row - 1
          /\ \A k \in 1..Len(datas[i]) : datas[i][k] = Base(i) + k
          /\ Base(i) + Len(datas[i]) + 1 = row
      BY <2>1, <2>6, BaseFacts DEF ColumnInv, BufferIsRun
    <3>2. \A k \in 1..Len(datas'[i]) : datas'[i][k] = Base(i) + k
      <4>1. TAKE k \in 1..Len(datas'[i])
      <4>2. k \in 1..Len(datas[i]) \/ k = Len(datas[i]) + 1
        BY <2>3, <2>6
      <4>3. QED
        BY <2>3, <3>1, <4>2, <2>6, <2>1
    <3>3. QED
      BY <2>1, <2>3, <2>6, <3>1, <3>2 DEF BufferIsRun
  <2>8. CopyIsPrefix(i)'
    <3>1. SUFFICES ASSUME InWindow(i)
                   PROVE  /\ Len(respData[i]) <= Len(datas'[i])
                          /\ \A k \in 1..Len(respData[i]) : respData[i][k] = datas'[i][k]
                          /\ \A k \in 1..Len(datas'[i]) :
                               k > Len(respData[i]) => datas'[i][k] \in window'[i]
      BY <2>4 DEF CopyIsPrefix
    <3>2. /\ Len(respData[i]) <= Len(datas[i])
          /\ \A k \in 1..Len(respData[i]) : respData[i][k] = datas[i][k]
          /\ \A k \in 1..Len(datas[i]) : k > Len(respData[i]) => datas[i][k] \in window[i]
      BY <3>1 DEF ColumnInv, CopyIsPrefix
    <3>3. window'[i] = window[i] \cup {row}
      BY <2>5, <3>1
    <3>4. Len(respData[i]) <= Len(datas'[i])
      BY <2>3, <2>6, <3>2
    <3>5. \A k \in 1..Len(respData[i]) : respData[i][k] = datas'[i][k]
      <4>1. TAKE k \in 1..Len(respData[i])
      <4>2. k \in 1..Len(datas[i])
        BY <2>6, <3>2
      <4>3. QED
        BY <2>3, <3>2, <4>2
    <3>6. \A k \in 1..Len(datas'[i]) : k > Len(respData[i]) => datas'[i][k] \in window'[i]
      <4>1. TAKE k \in 1..Len(datas'[i])
      <4>2. CASE k \in 1..Len(datas[i])
        BY <2>3, <3>2, <3>3, <4>2
      <4>3. CASE k = Len(datas[i]) + 1
        BY <2>3, <3>3, <4>3
      <4>4. QED
        BY <2>3, <2>6, <4>2, <4>3
    <3>7. QED
      BY <3>4, <3>5, <3>6
  <2>9. CopyIsPast(i)' /\ SentIsPast(i)'
    <3>1. respData' = respData /\ sent' = sent
      BY <2>4
    <3>2. CopyIsPast(i)'
      BY <2>4, <2>6, <3>1 DEF ColumnInv, CopyIsPast, Consecutive
    <3>3. SentIsPast(i)'
      BY <2>4, <2>6, <3>1 DEF ColumnInv, SentIsPast
    <3>4. QED
      BY <3>2, <3>3
  <2>10. SentInOrder(i)' /\ SentIsRun(i)'
    BY <2>4 DEF ColumnInv, SentInOrder, SentIsRun
  <2>11. Accounted(i)'
    <3>1. Published(i)' = Published(i) /\ Pending(i)' = Pending(i)
      BY <2>4 DEF Published, Pending
    <3>2. RowsIn(datas[i]) \subseteq RowsIn(datas[i])' /\ row \in RowsIn(datas[i])'
      <4>1. DOMAIN datas[i] = 1..Len(datas[i]) /\ DOMAIN datas'[i] = 1..(Len(datas[i]) + 1)
        BY <2>2
      <4>2. QED
        BY <2>3, <2>6, <4>1 DEF RowsIn
    <3>3. 1..Pushed(i)' \subseteq 1..Pushed(i) \cup {row}
      BY <2>1
    <3>4. window[i] \subseteq window'[i]
      BY <2>5
    <3>5. QED
      BY <3>1, <3>2, <3>3, <3>4 DEF ColumnInv, Accounted
  <2>12. QED
    BY <2>7, <2>8, <2>9, <2>10, <2>11 DEF ColumnInv
<1>3. QED
  BY <1>1, <1>2

\* Copying column i opens its window on a copy of the whole column; copying
\* another column does not concern it.
LEMMA CopyStep ==
  ASSUME TypeOK, Counters, CopyColumn, NEW i \in Columns, ColumnInv(i)
  PROVE  ColumnInv(i)'
<1>1. /\ UNCHANGED <<datas, window, sent, spc, scol, row>>
      /\ Pushed(i)' = Pushed(i)
      /\ Base(i)' = Base(i)
  BY DEF CopyColumn, shared, sampler, Pushed, Base
<1>2. CASE i # ucol
  <2>1. respData'[i] = respData[i]
    BY <1>2 DEF CopyColumn, TypeOK
  <2>2. (InWindow(i)' <=> InWindow(i)) /\ (InFlight(i)' <=> InFlight(i))
    BY <1>2, NumIdsAssumption
    DEF CopyColumn, UploadColumnDone, AfterColumn, InWindow, InFlight, TypeOK, Columns
  <2>3. QED
    BY <1>1, <2>1, <2>2, Frame
<1>3. CASE i = ucol
  <2>1. respData'[i] = datas[i] /\ datas[i] \in Seq(Nat)
    BY <1>3 DEF CopyColumn, TypeOK
  <2>2. InWindow(i)' /\ InFlight(i)' /\ ~InFlight(i)
    BY <1>3, NumIdsAssumption
    DEF CopyColumn, UploadColumnDone, AfterColumn, InWindow, InFlight, TypeOK, Columns
  <2>3. BufferIsRun(i)'
    BY <1>1 DEF ColumnInv, BufferIsRun
  <2>4. CopyIsPrefix(i)' /\ CopyIsPast(i)'
    BY <1>1, <2>1, <2>2 DEF CopyIsPrefix, CopyIsPast
  <2>5. SentIsPast(i)'
    <3>1. /\ Len(datas[i]) \in Nat
          /\ Base(i) \in Int
          /\ \A l \in 1..Len(datas[i]) : datas[i][l] = Base(i) + l
      BY <2>1, PushedNat DEF ColumnInv, BufferIsRun, Base
    <3>2. \A n \in 1..Len(sent) : \A k \in 1..Len(sent[n].data[i]) :
            sent[n].data[i][k] \in Nat /\ sent[n].data[i][k] <= Base(i)
      BY SentFacts DEF ColumnInv, SentIsPast
    <3>3. \A n \in 1..Len(sent) : \A k \in 1..Len(sent[n].data[i]) :
            \A l \in 1..Len(datas[i]) : sent[n].data[i][k] < datas[i][l]
      <4> TAKE n \in 1..Len(sent)
      <4> TAKE k \in 1..Len(sent[n].data[i])
      <4> TAKE l \in 1..Len(datas[i])
      <4>2. datas[i][l] = Base(i) + l /\ l \in Nat /\ l >= 1
        BY <3>1
      <4>3. sent[n].data[i][k] \in Nat /\ sent[n].data[i][k] <= Base(i)
        BY <3>2
      <4>4. QED
        BY <3>1, <4>2, <4>3
    <3>4. QED
      BY <1>1, <2>1, <3>2, <3>3 DEF SentIsPast
  <2>6. SentInOrder(i)' /\ SentIsRun(i)'
    BY <1>1 DEF ColumnInv, SentInOrder, SentIsRun
  <2>7. Accounted(i)'
    <3>1. Published(i)' = Published(i) /\ Pending(i) = {}
      BY <1>1, <2>2 DEF Published, Pending
    <3>2. QED
      BY <1>1, <3>1 DEF ColumnInv, Accounted
  <2>8. QED
    BY <2>3, <2>4, <2>5, <2>6, <2>7 DEF ColumnInv
<1>4. QED
  BY <1>2, <1>3

\* Clearing column i moves the whole run behind it: the copy becomes past, and
\* what was not copied is in the window.
LEMMA ClearStep ==
  ASSUME TypeOK, Counters, ClearColumn, NEW i \in Columns, ColumnInv(i)
  PROVE  ColumnInv(i)'
<1>1. /\ UNCHANGED <<respData, window, sent, spc, scol, row>>
      /\ Pushed(i)' = Pushed(i)
  BY DEF ClearColumn, response, sampler, Pushed
<1>2. CASE i # ucol
  <2>1. datas'[i] = datas[i]
    BY <1>2 DEF ClearColumn, TypeOK
  <2>2. (InWindow(i)' <=> InWindow(i)) /\ (InFlight(i)' <=> InFlight(i))
    BY <1>2, NumIdsAssumption
    DEF ClearColumn, UploadColumnDone, AfterColumn, InWindow, InFlight, TypeOK, Columns
  <2>3. QED
    BY <1>1, <2>1, <2>2, Frame
<1>3. CASE i = ucol
  <2>1. datas'[i] = <<>> /\ datas[i] \in Seq(Nat) /\ respData[i] \in Seq(Nat)
    BY <1>3 DEF ClearColumn, TypeOK
  <2>2. InWindow(i) /\ InFlight(i) /\ ~InWindow(i)' /\ InFlight(i)'
    BY <1>3, NumIdsAssumption
    DEF ClearColumn, UploadColumnDone, AfterColumn, InWindow, InFlight, TypeOK, Columns
  <2>3. /\ Pushed(i) \in Nat /\ Len(datas[i]) \in Nat /\ Len(respData[i]) \in Nat
        /\ Base(i) \in Int
        /\ Base(i) + Len(datas[i]) = Pushed(i)
        /\ Base(i)' = Pushed(i)
    BY <1>1, <2>1, PushedNat DEF Base
  <2>4. BufferIsRun(i)'
    BY <1>1, <2>1, <2>3 DEF BufferIsRun
  <2>5. CopyIsPrefix(i)'
    BY <2>2 DEF CopyIsPrefix
  <2>6. /\ Len(respData[i]) <= Len(datas[i])
        /\ \A k \in 1..Len(respData[i]) : respData[i][k] = Base(i) + k
    BY <2>2, <2>3 DEF ColumnInv, CopyIsPrefix, BufferIsRun
  <2>7. CopyIsPast(i)'
    <3>1. Consecutive(respData[i])
      <4>1. Base(i) \in Int /\ Len(respData[i]) \in Nat
        BY <2>3
      <4>2. ASSUME NEW k \in 1..(Len(respData[i]) - 1)
            PROVE  respData[i][k + 1] = respData[i][k] + 1
        <5>1. k \in 1..Len(respData[i]) /\ k + 1 \in 1..Len(respData[i])
          BY <4>1
        <5>2. respData[i][k] = Base(i) + k /\ respData[i][k + 1] = Base(i) + (k + 1)
          BY <2>6, <5>1
        <5>3. QED
          BY <4>1, <5>2
      <4>3. QED
        BY <4>2 DEF Consecutive
    <3>2. \A k \in 1..Len(respData[i]) : respData[i][k] <= Pushed(i)
      <4>1. TAKE k \in 1..Len(respData[i])
      <4>2. respData[i][k] = Base(i) + k
        BY <2>6
      <4>3. /\ Base(i) \in Int /\ Len(datas[i]) \in Nat /\ Len(respData[i]) \in Nat
            /\ Base(i) + Len(datas[i]) = Pushed(i)
            /\ Len(respData[i]) <= Len(datas[i])
        BY <2>3, <2>6
      <4>4. k \in Nat /\ k <= Len(datas[i])
        BY <4>3
      <4>5. QED
        BY <4>2, <4>3, <4>4
    <3>3. QED
      BY <1>1, <2>3, <3>1, <3>2 DEF CopyIsPast
  <2>8. SentIsPast(i)'
    <3>1. \A n \in 1..Len(sent) : \A k \in 1..Len(sent[n].data[i]) :
            /\ sent[n].data[i][k] \in Nat /\ sent[n].data[i][k] <= Base(i)
            /\ \A l \in 1..Len(respData[i]) : sent[n].data[i][k] < respData[i][l]
      BY <2>2, SentFacts DEF ColumnInv, SentIsPast
    <3>2. \A n \in 1..Len(sent) : \A k \in 1..Len(sent[n].data[i]) :
            sent[n].data[i][k] <= Pushed(i)
      <4>1. TAKE n \in 1..Len(sent)
      <4>2. TAKE k \in 1..Len(sent[n].data[i])
      <4>3. sent[n].data[i][k] \in Nat /\ sent[n].data[i][k] <= Base(i)
        BY <3>1
      <4>4. Base(i) \in Int /\ Pushed(i) \in Nat /\ Base(i) <= Pushed(i)
        BY <2>3
      <4>5. QED
        BY <4>3, <4>4
    <3>3. QED
      BY <1>1, <2>3, <3>1, <3>2 DEF SentIsPast
  <2>9. SentInOrder(i)' /\ SentIsRun(i)'
    BY <1>1 DEF ColumnInv, SentInOrder, SentIsRun
  <2>10. Accounted(i)'
    <3>1. Published(i)' = Published(i) /\ Pending(i)' = Pending(i)
      BY <1>1, <2>2 DEF Published, Pending
    <3>2. \A k \in 1..Len(datas[i]) : datas[i][k] \in RowsIn(respData[i]) \cup window[i]
      <4>1. DOMAIN respData[i] = 1..Len(respData[i])
        BY <2>1
      <4>2. TAKE k \in 1..Len(datas[i])
      <4>3. CASE k > Len(respData[i])
        BY <2>2, <4>3 DEF ColumnInv, CopyIsPrefix
      <4>4. CASE k <= Len(respData[i])
        <5>1. k \in 1..Len(respData[i])
          BY <2>3, <4>4
        <5>2. datas[i][k] = respData[i][k]
          BY <2>2, <5>1 DEF ColumnInv, CopyIsPrefix
        <5>3. QED
          BY <4>1, <5>1, <5>2 DEF RowsIn
      <4>5. QED
        BY <2>3, <4>3, <4>4
    <3>3. RowsIn(datas[i]) \subseteq Pending(i) \cup window[i]
      <4>1. Pending(i) = RowsIn(respData[i])
        BY <2>2 DEF Pending
      <4>2. QED
        BY <3>2, <4>1, BaseFacts DEF RowsIn
    <3>4. QED
      BY <1>1, <3>1, <3>3 DEF ColumnInv, Accounted
  <2>11. QED
    BY <2>4, <2>5, <2>7, <2>8, <2>9, <2>10 DEF ColumnInv
<1>4. QED
  BY <1>2, <1>3

\* Publishing turns the copy into the last message; a message without any
\* value leaves the history as it is.
LEMMA PublishStep ==
  ASSUME TypeOK, Counters, Publish, NEW i \in Columns, ColumnInv(i)
  PROVE  ColumnInv(i)'
<1>1. /\ UNCHANGED <<datas, respData, window>>
      /\ Pushed(i)' = Pushed(i)
      /\ Base(i)' = Base(i)
  BY DEF Publish, shared, response, sampler, Pushed, Base
<1>2. InFlight(i) /\ ~InWindow(i) /\ ~InFlight(i)' /\ ~InWindow(i)'
  BY DEF Publish, InFlight, InWindow
<1>3. /\ respData[i] \in Seq(Nat)
      /\ Len(respData[i]) \in Nat
      /\ DOMAIN respData[i] = 1..Len(respData[i])
  <2>1. respData[i] \in Seq(Nat)
    BY DEF TypeOK
  <2>2. QED
    BY <2>1
<1>4. BufferIsRun(i)' /\ CopyIsPrefix(i)' /\ CopyIsPast(i)'
  BY <1>1, <1>2 DEF ColumnInv, BufferIsRun, CopyIsPrefix, CopyIsPast
<1>5. Pending(i) = RowsIn(respData[i]) /\ Pending(i)' = {}
  BY <1>2 DEF Pending
<1>6. CASE sent' = sent /\ respData[i] = <<>>
  <2>1. SentIsPast(i)' /\ SentInOrder(i)' /\ SentIsRun(i)'
    <3>1. SentIsPast(i)'
      BY <1>1, <1>2, <1>6 DEF ColumnInv, SentIsPast
    <3>2. SentInOrder(i) /\ SentIsRun(i) /\ sent' = sent
      BY <1>6 DEF ColumnInv
    <3>3. SentInOrder(i)'
      BY <3>2, SMTT(30) DEF SentInOrder
    <3>4. SentIsRun(i)'
      BY <3>2, SMTT(30) DEF SentIsRun
    <3>5. QED
      BY <3>1, <3>3, <3>4
  <2>2. Published(i)' = Published(i) /\ Pending(i) = {}
    BY <1>5, <1>6 DEF Published, RowsIn
  <2>3. Accounted(i)'
    BY <1>1, <1>5, <2>2 DEF ColumnInv, Accounted
  <2>4. QED
    BY <1>4, <2>1, <2>3 DEF ColumnInv
<1>7. CASE sent' = Append(sent, [begin |-> respBegin, data |-> respData])
  <2> DEFINE last == Len(sent) + 1
  <2>1. /\ Len(sent) \in Nat
        /\ DOMAIN sent = 1..Len(sent)
        /\ Len(sent') = last
        /\ DOMAIN sent' = 1..last
        /\ \A n \in 1..Len(sent) : sent'[n] = sent[n]
        /\ sent'[last].data = respData
    <3>1. sent \in Seq(Message) /\ [begin |-> respBegin, data |-> respData] \in Message
      BY DEF TypeOK, Message
    <3>2. QED
      BY <1>7, <3>1
  <2>2. Consecutive(respData[i]) /\ \A k \in 1..Len(respData[i]) : respData[i][k] <= Base(i)
    BY <1>2 DEF ColumnInv, CopyIsPast
  <2>3. \A n \in 1..Len(sent) : \A k \in 1..Len(sent[n].data[i]) :
          /\ sent[n].data[i][k] <= Base(i)
          /\ \A l \in 1..Len(respData[i]) : sent[n].data[i][k] < respData[i][l]
    BY <1>2 DEF ColumnInv, SentIsPast
  <2>4. \A n \in 1..last : n \in 1..Len(sent) \/ n = last
    BY <2>1
  <2> HIDE DEF last
  <2>5. SentIsPast(i)'
    <3>1. \A n \in 1..last : \A k \in 1..Len(sent'[n].data[i]) : sent'[n].data[i][k] <= Base(i)
      BY <2>1, <2>2, <2>3, <2>4
    <3>2. QED
      BY <1>1, <1>2, <2>1, <3>1 DEF SentIsPast
  <2>6. SentInOrder(i)'
    <3>1. SUFFICES ASSUME NEW m \in 1..last, NEW n \in 1..last, m < n,
                          NEW k \in 1..Len(sent'[m].data[i]),
                          NEW l \in 1..Len(sent'[n].data[i])
                   PROVE  sent'[m].data[i][k] < sent'[n].data[i][l]
      BY <2>1 DEF SentInOrder
    <3>2. m \in 1..Len(sent)
      BY <2>1, <3>1 DEF last
    <3>3. CASE n = last
      BY <2>1, <2>3, <3>1, <3>2, <3>3
    <3>4. CASE n \in 1..Len(sent)
      BY <2>1, <3>1, <3>2, <3>4 DEF ColumnInv, SentInOrder
    <3>5. QED
      BY <2>4, <3>3, <3>4
  <2>7. SentIsRun(i)'
    <3>1. \A n \in 1..last : Consecutive(sent'[n].data[i])
      <4>1. \A n \in 1..Len(sent) : Consecutive(sent[n].data[i])
        BY DEF ColumnInv, SentIsRun
      <4>2. QED
        BY <2>1, <2>2, <2>4, <4>1 DEF Consecutive
    <3>2. QED
      BY <2>1, <3>1 DEF SentIsRun, Consecutive
  <2>8. Accounted(i)'
    <3>1. Published(i) \subseteq Published(i)'
      BY <2>1, <2>4 DEF Published, last
    <3>2. RowsIn(respData[i]) \subseteq Published(i)'
      BY <2>1 DEF Published, last
    <3>3. QED
      BY <1>1, <1>5, <3>1, <3>2 DEF ColumnInv, Accounted
  <2>9. QED
    BY <1>4, <2>5, <2>6, <2>7, <2>8 DEF ColumnInv
<1>8. QED
  BY <1>6, <1>7 DEF Publish

\* The steps that move no value: the loop heads, the flag and beginTime.
LEMMA QuietStep ==
  ASSUME TypeOK, Counters, NEW i \in Columns, ColumnInv(i),
         \/ CheckClear \/ Stamp \/ Unflag \/ UploadBegin \/ MarkClear
         \/ PublishThrows \/ TornBegin \/ RaceKills \/ UNCHANGED vars
  PROVE  ColumnInv(i)'
<1>1. UNCHANGED <<datas, respData, window, sent>>
  BY DEF CheckClear, Stamp, Unflag, UploadBegin, MarkClear, PublishThrows, TornBegin,
         RaceKills, vars, shared, response, history
<1>2. Pushed(i)' = Pushed(i)
  BY DEF CheckClear, Stamp, Unflag, UploadBegin, MarkClear, PublishThrows, TornBegin,
         RaceKills, vars, sampler, Pushed, Counters, TypeOK, Columns, StampMeetsRead
<1>3. (InWindow(i)' <=> InWindow(i)) /\ (InFlight(i)' <=> InFlight(i))
  BY DEF CheckClear, Stamp, Unflag, UploadBegin, MarkClear, PublishThrows, TornBegin,
         RaceKills, vars, uploader, InWindow, InFlight, Counters, TypeOK, Columns,
         StampMeetsRead
<1>4. QED
  BY <1>1, <1>2, <1>3, Frame

\* A collision of push and clear concerns only the column that leaves the claim.
LEMMA CollisionStep ==
  ASSUME TypeOK, Counters, PushUndoesClear, NEW i \in Columns, i \notin raced', ColumnInv(i)
  PROVE  ColumnInv(i)'
<1>1. i # scol /\ ucol = scol
  BY DEF PushUndoesClear, PushMeets
<1>2. datas'[i] = datas[i] /\ UNCHANGED <<respData, window, sent>>
  BY <1>1 DEF PushUndoesClear, response, TypeOK
<1>3. Pushed(i)' = Pushed(i)
  BY <1>1, NumIdsAssumption
  DEF PushUndoesClear, PushMeets, PushDone, AfterColumn, Pushed, TypeOK, Columns
<1>4. (InWindow(i)' <=> InWindow(i)) /\ (InFlight(i)' <=> InFlight(i))
  BY <1>1, NumIdsAssumption
  DEF PushUndoesClear, PushMeets, UploadColumnDone, AfterColumn, InWindow, InFlight,
      TypeOK, Columns
<1>5. QED
  BY <1>2, <1>3, <1>4, Frame

\* The empty columns of the constructor are runs of no rows.
LEMMA InitColumns == Init => \A i \in Columns : ColumnInv(i)
<1> SUFFICES ASSUME Init, NEW i \in Columns PROVE ColumnInv(i)
  OBVIOUS
<1>1. /\ datas[i] = <<>> /\ respData[i] = <<>> /\ sent = <<>>
      /\ Pushed(i) = 0 /\ ~InWindow(i) /\ ~InFlight(i)
  BY DEF Init, Pushed, InWindow, InFlight
<1>2. BufferIsRun(i) /\ CopyIsPrefix(i) /\ CopyIsPast(i)
  BY <1>1 DEF BufferIsRun, CopyIsPrefix, CopyIsPast
<1>3. SentIsPast(i) /\ SentInOrder(i) /\ SentIsRun(i)
  BY <1>1 DEF SentIsPast, SentInOrder, SentIsRun
<1>4. Accounted(i)
  BY <1>1 DEF Accounted
<1>5. QED
  BY <1>2, <1>3, <1>4 DEF ColumnInv

\* Every column that never raced is, at any time, an exact account of the rows
\* sampled: what is past, what is copied, what waits.
THEOREM Inductive == Spec => []IInv
<1>1. Init => IInv
  <2>1. Init => Counters
    BY DEF Init, Counters
  <2>2. Init => TypeOK
    BY NumIdsAssumption DEF Init, TypeOK, Columns
  <2>3. QED
    BY <2>1, <2>2, InitColumns DEF IInv
<1>2. IInv /\ TypeOK' /\ [Next]_vars => IInv'
  <2> SUFFICES ASSUME IInv, TypeOK', [Next]_vars PROVE IInv'
    OBVIOUS
  <2>1. TypeOK /\ Counters /\ Counters'
    BY CountersStep DEF IInv
  <2>2. raced \subseteq raced'
    BY DEF Next, SampleTask, UploadTask, Race, CheckClear, Stamp, Unflag, Push, UploadBegin,
           CopyColumn, ClearColumn, MarkClear, Publish, PublishThrows, PushUndoesClear,
           TornBegin, RaceKills, vars, history
  <2>3. ASSUME NEW i \in Columns, i \notin raced' PROVE ColumnInv(i)'
    <3>1. ColumnInv(i)
      BY <2>2, <2>3 DEF IInv
    <3>2. CASE Push
      BY <2>1, <3>1, <3>2, PushStep
    <3>3. CASE CopyColumn
      BY <2>1, <3>1, <3>3, CopyStep
    <3>4. CASE ClearColumn
      BY <2>1, <3>1, <3>4, ClearStep
    <3>5. CASE Publish
      BY <2>1, <3>1, <3>5, PublishStep
    <3>6. CASE PushUndoesClear
      BY <2>1, <2>3, <3>1, <3>6, CollisionStep
    <3>7. CASE \/ CheckClear \/ Stamp \/ Unflag \/ UploadBegin \/ MarkClear
               \/ PublishThrows \/ TornBegin \/ RaceKills \/ UNCHANGED vars
      BY <2>1, <3>1, <3>7, QuietStep
    <3>8. QED
      BY <3>2, <3>3, <3>4, <3>5, <3>6, <3>7 DEF Next, SampleTask, UploadTask, Race
  <2>4. QED
    BY <2>1, <2>3 DEF IInv, Columns
<1>3. QED
  BY <1>1, <1>2, TypeCorrect, PTL DEF Spec

-----------------------------------------------------------------------------
(* The properties of the runs, for every number of columns and rows *)

\* Only a value pushed between the copy and the clear of its column can be
\* lost (Sample.cpp 119-123).
THEOREM NoOtherLoss == Spec => []LossOnlyInWindow
<1>1. IInv => LossOnlyInWindow
  BY DEF IInv, ColumnInv, Accounted, LossOnlyInWindow
<1>2. QED
  BY <1>1, Inductive, PTL

\* A column that never raced publishes each value at most once and in the
\* order of sampling.
THEOREM InOrder == Spec => []PublishedInOrder
<1>1. IInv => PublishedInOrder
  <2> SUFFICES ASSUME IInv, NEW i \in Columns \ raced,
                      NEW m \in DOMAIN sent, NEW n \in DOMAIN sent, m < n,
                      NEW x \in RowsIn(sent[m].data[i]), NEW y \in RowsIn(sent[n].data[i])
               PROVE  x < y
    BY DEF PublishedInOrder
  <2>1. TypeOK /\ SentInOrder(i) /\ i \in Columns
    BY DEF IInv, ColumnInv
  <2>2. m \in 1..Len(sent) /\ n \in 1..Len(sent)
    BY <2>1 DEF TypeOK
  <2>3. PICK k \in 1..Len(sent[m].data[i]) : x = sent[m].data[i][k]
    BY <2>1, <2>2, SentFacts DEF RowsIn
  <2>4. PICK l \in 1..Len(sent[n].data[i]) : y = sent[n].data[i][l]
    BY <2>1, <2>2, SentFacts DEF RowsIn
  <2>5. QED
    BY <2>1, <2>2, <2>3, <2>4 DEF SentInOrder
<1>2. QED
  BY <1>1, Inductive, PTL

\* Within a message the values of a column that never raced are consecutive
\* rows.
THEOREM NoGap == Spec => []NoGapInMessage
<1>1. IInv => NoGapInMessage
  <2> SUFFICES ASSUME IInv PROVE NoGapInMessage
    OBVIOUS
  <2>1. DOMAIN sent = 1..Len(sent)
    BY DEF IInv, TypeOK
  <2>2. QED
    BY <2>1 DEF IInv, ColumnInv, SentIsRun, NoGapInMessage
<1>2. QED
  BY <1>1, Inductive, PTL

-----------------------------------------------------------------------------
(* Whole rows: between uploads every column has the rows that the others    *)
(* have, but for the row being pushed and the rows that met an upload.      *)

Current == IF spc = "push" THEN {row} ELSE {}

\* The rows of column i that the message in the making will carry.
Content(i) == IF upc = "copy" /\ ucol > i THEN RowsIn(respData[i]) ELSE RowsIn(datas[i])

ContentsAlike ==
  upc # "clear" =>
    \A i, j \in Columns : \A x \in Content(i) : x \in Content(j) \/ x \in overlapped \/ x \in Current

ClearedOverlapped ==
  upc = "clear" => \A i \in Columns : i < ucol => RowsIn(datas[i]) \subseteq overlapped

CopiesAlike ==
  upc \in {"clear", "flag", "publish"} =>
    \A i, j \in Columns : \A x \in RowsIn(respData[i]) : x \in RowsIn(respData[j]) \/ x \in overlapped

CurrentBegun ==
  spc = "push" /\ row \notin overlapped => \A j \in Columns : j < scol => row \in RowsIn(datas[j])

SentAlike ==
  \A n \in DOMAIN sent : \A i, j \in Columns :
    \A x \in RowsIn(sent[n].data[i]) : x \in RowsIn(sent[n].data[j]) \/ x \in overlapped

Whole == ContentsAlike /\ ClearedOverlapped /\ CopiesAlike /\ CurrentBegun /\ SentAlike

\* The rows of a column that a row is appended to.
LEMMA RowsAppended ==
  ASSUME NEW seq \in Seq(Nat), NEW r \in Nat
  PROVE  RowsIn(Append(seq, r)) = RowsIn(seq) \cup {r}
<1>1. /\ DOMAIN seq = 1..Len(seq) /\ Len(seq) \in Nat
      /\ DOMAIN Append(seq, r) = 1..(Len(seq) + 1)
      /\ \A k \in 1..Len(seq) : Append(seq, r)[k] = seq[k]
      /\ Append(seq, r)[Len(seq) + 1] = r
  OBVIOUS
<1>2. \A k \in 1..(Len(seq) + 1) : k \in 1..Len(seq) \/ k = Len(seq) + 1
  BY <1>1
<1>3. 1..Len(seq) \subseteq 1..(Len(seq) + 1) /\ Len(seq) + 1 \in 1..(Len(seq) + 1)
  BY <1>1
<1>4. RowsIn(Append(seq, r)) = {Append(seq, r)[k] : k \in 1..(Len(seq) + 1)}
  BY <1>1 DEF RowsIn
<1>5. RowsIn(seq) = {seq[k] : k \in 1..Len(seq)}
  BY <1>1 DEF RowsIn
<1>6. QED
  BY <1>1, <1>2, <1>3, <1>4, <1>5

\* What a push, a copy and a clear do to the rows of the columns.
LEMMA PushRows ==
  ASSUME TypeOK, Push
  PROVE  \A i \in Columns : RowsIn(datas'[i]) = IF i = scol THEN RowsIn(datas[i]) \cup {row}
                                                ELSE RowsIn(datas[i])
<1> SUFFICES ASSUME NEW i \in Columns
             PROVE  RowsIn(datas'[i]) = IF i = scol THEN RowsIn(datas[i]) \cup {row}
                                        ELSE RowsIn(datas[i])
  OBVIOUS
<1>1. datas[i] \in Seq(Nat) /\ row \in Nat
  BY DEF TypeOK
<1>2. datas'[i] = IF i = scol THEN Append(datas[i], row) ELSE datas[i]
  BY DEF Push, TypeOK
<1>3. QED
  BY <1>1, <1>2, RowsAppended

LEMMA CopyRows ==
  ASSUME TypeOK, CopyColumn
  PROVE  \A i \in Columns : RowsIn(respData'[i]) = IF i = ucol THEN RowsIn(datas[i])
                                                   ELSE RowsIn(respData[i])
<1>1. \A i \in Columns : respData'[i] = IF i = ucol THEN datas[i] ELSE respData[i]
  BY DEF CopyColumn, TypeOK
<1>2. QED
  BY <1>1

LEMMA ClearRows ==
  ASSUME TypeOK, ClearColumn
  PROVE  \A i \in Columns : RowsIn(datas'[i]) = IF i = ucol THEN {} ELSE RowsIn(datas[i])
<1>1. \A i \in Columns : datas'[i] = IF i = ucol THEN <<>> ELSE datas[i]
  BY DEF ClearColumn, TypeOK
<1>2. RowsIn(<<>>) = {}
  BY DEF RowsIn
<1>3. QED
  BY <1>1, <1>2

\* A row that met an upload stays marked.
LEMMA MarksStay == [Next]_vars => overlapped \subseteq overlapped'
  BY DEF Next, SampleTask, UploadTask, Race, CheckClear, Stamp, Unflag, Push, UploadBegin,
         CopyColumn, ClearColumn, MarkClear, Publish, PublishThrows, PushUndoesClear,
         TornBegin, RaceKills, vars, history, MarkOverlap

\* A push ends the current row in the last column, where it has been pushed
\* into every other, or where an upload has met it.
LEMMA PushWhole == TypeOK /\ Counters /\ Whole /\ Push => Whole'
<1> SUFFICES ASSUME TypeOK, Counters, Whole, Push PROVE Whole'
  OBVIOUS
<1>1. /\ spc = "push" /\ row' = row /\ UNCHANGED <<upc, ucol, respData, sent>>
      /\ overlapped' = IF Uploading THEN overlapped \cup {row} ELSE overlapped
  BY DEF Push, PushDone, uploader, response
<1>2. \A i \in Columns : RowsIn(datas'[i]) = IF i = scol THEN RowsIn(datas[i]) \cup {row}
                                             ELSE RowsIn(datas[i])
  BY PushRows
<1>3. \/ scol = NumIds /\ spc' = "check"
      \/ scol # NumIds /\ spc' = "push" /\ scol' = scol + 1
  BY <1>1 DEF Push, PushDone, AfterColumn
<1>4. row \notin overlapped => \A j \in Columns : j < scol => row \in RowsIn(datas[j])
  BY <1>1 DEF Whole, CurrentBegun
<1>5. scol \in Columns /\ NumIds \in Nat
  BY NumIdsAssumption DEF TypeOK
<1>6. ContentsAlike'
  <2> SUFFICES ASSUME upc # "clear", NEW i \in Columns, NEW j \in Columns, NEW x \in Content(i)'
               PROVE  x \in Content(j)' \/ x \in overlapped' \/ x \in Current'
    BY <1>1 DEF ContentsAlike
  <2>1. x \in Content(i) \/ x = row
    BY <1>1, <1>2 DEF Content
  <2>2. CASE x # row
    BY <1>1, <1>2, <2>1, <2>2 DEF Whole, ContentsAlike, Content, Current
  <2>3. CASE x = row /\ spc' = "push"
    BY <1>1, <2>3 DEF Current
  <2>4. CASE x = row /\ scol = NumIds /\ row \notin overlapped'
    <3>1. upc # "copy" /\ row \notin overlapped
      BY <1>1, <2>4 DEF Uploading
    <3>2. j < scol \/ j = scol
      BY <1>5, <2>4 DEF Columns
    <3>3. row \in RowsIn(datas'[j])
      BY <1>2, <1>4, <3>1, <3>2
    <3>4. QED
      BY <1>1, <2>4, <3>1, <3>3 DEF Content
  <2>5. QED
    BY <1>3, <2>2, <2>3, <2>4
<1>7. ClearedOverlapped'
  BY <1>1, <1>2 DEF Whole, ClearedOverlapped, Uploading
<1>8. CopiesAlike' /\ SentAlike'
  BY <1>1 DEF Whole, CopiesAlike, SentAlike
<1>9. CurrentBegun'
  <2> SUFFICES ASSUME spc' = "push", row \notin overlapped', NEW j \in Columns, j < scol'
               PROVE  row \in RowsIn(datas'[j])
    BY <1>1 DEF CurrentBegun
  <2>1. row \notin overlapped /\ (j < scol \/ j = scol)
    BY <1>1, <1>3, <1>5 DEF Columns
  <2>2. QED
    BY <1>2, <1>4, <2>1
<1>10. QED
  BY <1>6, <1>7, <1>8, <1>9 DEF Whole

\* A copy leaves the contents; the last one leaves no row half copied.
LEMMA CopyWhole == TypeOK /\ Counters /\ Whole /\ CopyColumn => Whole'
<1> SUFFICES ASSUME TypeOK, Counters, Whole, CopyColumn PROVE Whole'
  OBVIOUS
<1>1. /\ upc = "copy" /\ UNCHANGED <<datas, spc, scol, row, sent>>
      /\ overlapped' = overlapped \cup Current
  BY DEF CopyColumn, shared, sampler, MarkOverlap, Current
<1>2. \A i \in Columns : RowsIn(respData'[i]) = IF i = ucol THEN RowsIn(datas[i])
                                                ELSE RowsIn(respData[i])
  BY CopyRows
<1>3. \/ ucol = NumIds /\ upc' = "clear" /\ ucol' = 1
      \/ ucol # NumIds /\ upc' = "copy" /\ ucol' = ucol + 1
  BY <1>1 DEF CopyColumn, UploadColumnDone, AfterColumn
<1>4. ucol \in Columns /\ NumIds \in Nat
  BY NumIdsAssumption DEF TypeOK
<1>5. \A i, j \in Columns : \A x \in Content(i) : x \in Content(j) \/ x \in overlapped'
  BY <1>1 DEF Whole, ContentsAlike
<1>6. \A i \in Columns : IF i <= ucol THEN Content(i) = RowsIn(respData'[i])
                         ELSE Content(i) = RowsIn(datas[i])
  BY <1>1, <1>2, <1>4 DEF Content, Columns
<1>7. ContentsAlike' /\ CopiesAlike'
  <2>1. CASE ucol = NumIds
    <3>1. \A i \in Columns : Content(i) = RowsIn(respData'[i])
      BY <1>4, <1>6, <2>1 DEF Columns
    <3>2. QED
      BY <1>3, <1>5, <2>1, <3>1 DEF ContentsAlike, CopiesAlike
  <2>2. CASE ucol # NumIds
    <3>1. \A i \in Columns : Content(i)' = Content(i)
      BY <1>1, <1>3, <1>4, <1>6, <2>2 DEF Content, Columns
    <3>2. QED
      BY <1>3, <1>5, <2>2, <3>1 DEF ContentsAlike, CopiesAlike
  <2>3. QED
    BY <2>1, <2>2
<1>8. ClearedOverlapped'
  BY <1>3 DEF ClearedOverlapped, Columns
<1>9. CurrentBegun' /\ SentAlike'
  BY <1>1 DEF Whole, CurrentBegun, SentAlike
<1>10. QED
  BY <1>7, <1>8, <1>9 DEF Whole

\* A clear leaves nothing but rows that met the upload.
LEMMA ClearWhole == TypeOK /\ Counters /\ Whole /\ ClearColumn => Whole'
<1> SUFFICES ASSUME TypeOK, Counters, Whole, ClearColumn PROVE Whole'
  OBVIOUS
<1>1. /\ upc = "clear" /\ UNCHANGED <<respData, spc, scol, row, sent>>
      /\ overlapped' = overlapped \cup Current
  BY DEF ClearColumn, response, sampler, MarkOverlap, Current
<1>2. \A i \in Columns : RowsIn(datas'[i]) = IF i = ucol THEN {} ELSE RowsIn(datas[i])
  BY ClearRows
<1>3. \/ ucol = NumIds /\ upc' = "flag"
      \/ ucol # NumIds /\ upc' = "clear" /\ ucol' = ucol + 1
  BY <1>1 DEF ClearColumn, UploadColumnDone, AfterColumn
<1>4. ucol \in Columns /\ NumIds \in Nat
  BY NumIdsAssumption DEF TypeOK
<1>5. \A i \in Columns : i <= ucol => RowsIn(datas'[i]) \subseteq overlapped'
  <2> SUFFICES ASSUME NEW i \in Columns, i <= ucol PROVE RowsIn(datas'[i]) \subseteq overlapped'
    OBVIOUS
  <2>1. i = ucol \/ i < ucol
    BY <1>4 DEF Columns
  <2>2. QED
    BY <1>1, <1>2, <2>1 DEF Whole, ClearedOverlapped
<1>6. ContentsAlike'
  <2> SUFFICES ASSUME upc' # "clear" PROVE ContentsAlike'
    BY DEF ContentsAlike
  <2>1. upc' = "flag" /\ \A i \in Columns : RowsIn(datas'[i]) \subseteq overlapped'
    BY <1>3, <1>4, <1>5 DEF Columns
  <2>2. QED
    BY <2>1 DEF ContentsAlike, Content
<1>7. ClearedOverlapped'
  BY <1>3, <1>4, <1>5 DEF ClearedOverlapped, Columns
<1>8. CopiesAlike' /\ SentAlike'
  BY <1>1, <1>3 DEF Whole, CopiesAlike, SentAlike
<1>9. CurrentBegun'
  BY <1>1 DEF CurrentBegun, Current
<1>10. QED
  BY <1>6, <1>7, <1>8, <1>9 DEF Whole

\* A message is as whole as the copy it is made of.
LEMMA PublishWhole == TypeOK /\ Whole /\ Publish => Whole'
<1> SUFFICES ASSUME TypeOK, Whole, Publish PROVE Whole'
  OBVIOUS
<1>1. /\ upc = "publish" /\ upc' = "wait"
      /\ UNCHANGED <<datas, respData, spc, scol, row, overlapped>>
  BY DEF Publish, shared, response, sampler
<1>2. ContentsAlike' /\ ClearedOverlapped' /\ CopiesAlike' /\ CurrentBegun'
  BY <1>1 DEF Whole, ContentsAlike, Content, Current, ClearedOverlapped, CopiesAlike, CurrentBegun
<1>3. SentAlike'
  <2>1. CASE sent' = sent
    BY <1>1, <2>1 DEF Whole, SentAlike
  <2>2. CASE sent' # sent
    <3> DEFINE m == [begin |-> respBegin, data |-> respData]
    <3>1. sent' = Append(sent, m) /\ sent \in Seq(Message)
      BY <2>2 DEF Publish, TypeOK
    <3>2. \A n \in DOMAIN sent' : (n \in DOMAIN sent /\ sent'[n] = sent[n]) \/ sent'[n] = m
      BY <3>1
    <3>3. \A i, j \in Columns : \A x \in RowsIn(m.data[i]) : x \in RowsIn(m.data[j]) \/ x \in overlapped
      BY <1>1 DEF Whole, CopiesAlike
    <3> HIDE DEF m
    <3>4. QED
      BY <1>1, <3>2, <3>3 DEF Whole, SentAlike
  <2>3. QED
    BY <2>1, <2>2
<1>4. QED
  BY <1>2, <1>3 DEF Whole

\* The steps that move no value keep the rows whole.
LEMMA QuietWhole ==
  ASSUME TypeOK, Counters, Whole,
         \/ CheckClear \/ Stamp \/ Unflag \/ UploadBegin \/ MarkClear
         \/ PublishThrows \/ TornBegin \/ RaceKills \/ UNCHANGED vars
  PROVE  Whole'
<1>1. UNCHANGED <<datas, respData, sent>> /\ overlapped \subseteq overlapped'
  BY DEF CheckClear, Stamp, Unflag, UploadBegin, MarkClear, PublishThrows, TornBegin,
         RaceKills, vars, shared, response, history, MarkOverlap
<1>2. \/ UNCHANGED <<upc, ucol>>
      \/ upc = "wait" /\ upc' = "copy" /\ ucol = 1 /\ ucol' = 1
      \/ upc = "flag" /\ upc' = "publish"
  BY DEF CheckClear, Stamp, Unflag, UploadBegin, MarkClear, PublishThrows, TornBegin,
         RaceKills, vars, uploader, Counters, StampMeetsRead
<1>3. \/ UNCHANGED <<spc, scol, row>>
      \/ spc # "push" /\ (spc' = "push" => scol' = 1)
  BY DEF CheckClear, Stamp, Unflag, UploadBegin, MarkClear, PublishThrows, TornBegin,
         RaceKills, vars, sampler, Counters, StampMeetsRead
<1>4. Current \subseteq Current'
  BY <1>3 DEF Current
<1>5. \A i \in Columns : upc' # "clear" => Content(i)' = Content(i)
  BY <1>1, <1>2 DEF Content, Columns
<1>6. ContentsAlike'
  BY <1>1, <1>2, <1>4, <1>5 DEF Whole, ContentsAlike
<1>7. ClearedOverlapped' /\ CopiesAlike' /\ SentAlike'
  BY <1>1, <1>2 DEF Whole, ClearedOverlapped, CopiesAlike, SentAlike
<1>8. CurrentBegun'
  BY <1>1, <1>3 DEF Whole, CurrentBegun, Columns
<1>9. QED
  BY <1>6, <1>7, <1>8 DEF Whole

\* A message carries a row in every column or in none, but for rows that were
\* being pushed while an upload went on (Sample.cpp, the two loops over the
\* columns take no lock).
THEOREM WholeRows == Spec => []RowsWhole
<1> DEFINE WInv == raced = {} => Whole
<1>1. Init => WInv
  <2> SUFFICES ASSUME Init PROVE Whole
    OBVIOUS
  <2>1. RowsIn(<<>>) = {}
    BY DEF RowsIn
  <2>2. QED
    BY <2>1 DEF Init, Whole, ContentsAlike, Content, ClearedOverlapped, CopiesAlike, CurrentBegun,
                SentAlike
<1>2. TypeOK /\ Counters /\ WInv /\ [Next]_vars => WInv'
  <2> SUFFICES ASSUME TypeOK, Counters, WInv, [Next]_vars, raced' = {} PROVE Whole'
    OBVIOUS
  <2>1. ~PushUndoesClear
    BY DEF PushUndoesClear
  <2>2. raced = {}
    BY DEF Next, SampleTask, UploadTask, Race, CheckClear, Stamp, Unflag, Push, UploadBegin,
           CopyColumn, ClearColumn, MarkClear, Publish, PublishThrows, PushUndoesClear,
           TornBegin, RaceKills, vars, history
  <2>3. Whole
    BY <2>2
  <2>4. QED
    BY <2>1, <2>3, PushWhole, CopyWhole, ClearWhole, PublishWhole, QuietWhole
    DEF Next, SampleTask, UploadTask, Race
<1>3. WInv => RowsWhole
  BY DEF Whole, SentAlike, RowsWhole
<1>4. IInv => TypeOK /\ Counters
  BY DEF IInv
<1>5. QED
  BY <1>1, <1>2, <1>3, <1>4, Inductive, PTL DEF Spec

-----------------------------------------------------------------------------
(* The time of a message: where isClear is 1, every row that waits has met  *)
(* an upload; where it is 0, no row since beginTime is missing.             *)

\* Column i has been cleared, and isClear does not say so yet.
Cleared(i) == (upc = "clear" /\ ucol > i) \/ upc = "flag"

\* The rows that are not among the marked are exactly those since b.
Exact(b, rows, marked) ==
  b # Torn => \A x \in rows \ marked : b <= x /\ b..x \subseteq rows \cup marked

Flag ==
  /\ beginTime <= row
  /\ spc \in {"stamp", "unflag"} => isClear = 1
  /\ spc = "push" /\ isClear = 1 => row \in overlapped
  /\ spc = "unflag" => beginTime = row

ClearedMarked(i) == isClear = 1 \/ Cleared(i) => RowsIn(datas[i]) \subseteq overlapped
NoneBefore(i) == isClear = 0 => \A x \in RowsIn(datas[i]) \ overlapped : beginTime <= x
NoneMissing(i) ==
  isClear = 0 /\ ~Cleared(i) => beginTime..Pushed(i) \subseteq RowsIn(datas[i]) \cup overlapped
CopyExact(i) == InFlight(i) => Exact(respBegin, RowsIn(respData[i]), overlapped)
RestExact(i) == upc = "copy" /\ ~InFlight(i) => Exact(respBegin, RowsIn(datas[i]), overlapped)
SentExact(i) == \A n \in DOMAIN sent : Exact(sent[n].begin, RowsIn(sent[n].data[i]), overlapped)

TimeInv(i) ==
  ClearedMarked(i) /\ NoneBefore(i) /\ NoneMissing(i) /\ CopyExact(i) /\ RestExact(i) /\ SentExact(i)

\* A step at one column leaves the place of the others alone.
LEMMA PushOthers ==
  ASSUME TypeOK, Push, NEW i \in Columns, i # scol
  PROVE  datas'[i] = datas[i] /\ Pushed(i)' = Pushed(i)
<1>1. datas'[i] = datas[i]
  BY DEF Push, TypeOK
<1>2. Pushed(i)' = Pushed(i)
  BY NumIdsAssumption DEF Push, PushDone, AfterColumn, Pushed, TypeOK, Columns
<1>3. QED
  BY <1>1, <1>2

LEMMA CopyOthers ==
  ASSUME TypeOK, CopyColumn, NEW i \in Columns, i # ucol
  PROVE  respData'[i] = respData[i] /\ (InWindow(i)' <=> InWindow(i)) /\ (InFlight(i)' <=> InFlight(i))
<1>1. respData'[i] = respData[i]
  BY DEF CopyColumn, TypeOK
<1>2. (InWindow(i)' <=> InWindow(i)) /\ (InFlight(i)' <=> InFlight(i))
  BY NumIdsAssumption
  DEF CopyColumn, UploadColumnDone, AfterColumn, InWindow, InFlight, TypeOK, Columns
<1>3. QED
  BY <1>1, <1>2

LEMMA ClearOthers ==
  ASSUME TypeOK, ClearColumn, NEW i \in Columns, i # ucol
  PROVE  datas'[i] = datas[i] /\ (InWindow(i)' <=> InWindow(i)) /\ (InFlight(i)' <=> InFlight(i))
<1>1. datas'[i] = datas[i]
  BY DEF ClearColumn, TypeOK
<1>2. (InWindow(i)' <=> InWindow(i)) /\ (InFlight(i)' <=> InFlight(i))
  BY NumIdsAssumption
  DEF ClearColumn, UploadColumnDone, AfterColumn, InWindow, InFlight, TypeOK, Columns
<1>3. QED
  BY <1>1, <1>2

\* What is exact stays so when marked rows join, and when more rows are marked.
LEMMA ExactGrows ==
  ASSUME NEW b, NEW old, NEW new, NEW m, NEW more, Exact(b, old, m), m \subseteq more,
         old \subseteq new, \A x \in new : x \in old \/ x \in more
  PROVE  Exact(b, new, more)
  BY DEF Exact

\* No step breaks what the flag says of beginTime.
LEMMA FlagStep == TypeOK /\ Counters /\ Flag /\ [Next]_vars => Flag'
<1> SUFFICES ASSUME TypeOK, Counters, Flag, [Next]_vars PROVE Flag'
  OBVIOUS
<1> USE DEF Flag, shared, sampler, response, history
<1>1. CASE CheckClear
  BY <1>1 DEF CheckClear, TypeOK
<1>2. CASE Stamp
  BY <1>2 DEF Stamp, TypeOK
<1>3. CASE Unflag
  BY <1>3 DEF Unflag, TypeOK
<1>4. CASE Push
  BY <1>4 DEF Push, PushDone
<1>5. CASE UploadBegin
  BY <1>5 DEF UploadBegin
<1>6. CASE CopyColumn
  BY <1>6 DEF CopyColumn, MarkOverlap
<1>7. CASE ClearColumn
  BY <1>7 DEF ClearColumn, MarkOverlap
<1>8. CASE MarkClear
  BY <1>8 DEF MarkClear, MarkOverlap
<1>9. CASE Publish \/ PublishThrows \/ RaceKills
  BY <1>9 DEF Publish, PublishThrows, RaceKills
<1>10. CASE PushUndoesClear
  BY <1>10 DEF PushUndoesClear, PushMeets, PushDone
<1>11. CASE TornBegin
  BY <1>11 DEF TornBegin, StampMeetsRead, TypeOK
<1>12. CASE UNCHANGED vars
  BY <1>12 DEF vars
<1>13. QED
  BY <1>1, <1>2, <1>3, <1>4, <1>5, <1>6, <1>7, <1>8, <1>9, <1>10, <1>11, <1>12
  DEF Next, SampleTask, UploadTask, Race

\* The messages published stay exact when rows are marked.
LEMMA SentStays ==
  ASSUME NEW i, SentExact(i), sent' = sent, overlapped \subseteq overlapped'
  PROVE  SentExact(i)'
  BY ExactGrows DEF SentExact

\* What TimeInv(i) reads besides the marks: a step that leaves this alone
\* preserves it, even if it marks rows.
LEMMA TimeFrame ==
  ASSUME NEW i \in Columns, TimeInv(i), overlapped \subseteq overlapped',
         datas'[i] = datas[i], respData'[i] = respData[i], sent' = sent, Pushed(i)' = Pushed(i),
         isClear' = isClear, beginTime' = beginTime, respBegin' = respBegin,
         Cleared(i)' <=> Cleared(i), InFlight(i)' <=> InFlight(i), upc' = "copy" => upc = "copy"
  PROVE  TimeInv(i)'
<1>1. ClearedMarked(i)' /\ NoneBefore(i)' /\ NoneMissing(i)'
  BY DEF TimeInv, ClearedMarked, NoneBefore, NoneMissing
<1>2. CopyExact(i)' /\ RestExact(i)'
  BY ExactGrows DEF TimeInv, CopyExact, RestExact
<1>3. SentExact(i)'
  BY SentStays DEF TimeInv
<1>4. QED
  BY <1>1, <1>2, <1>3 DEF TimeInv

\* A push adds the row that comes next, and one that meets an upload marks it.
LEMMA PushTime ==
  ASSUME TypeOK, Counters, Flag, Push, NEW i \in Columns, TimeInv(i)
  PROVE  TimeInv(i)'
<1>1. /\ spc = "push" /\ UNCHANGED <<isClear, beginTime, respBegin, respData, sent, upc, ucol>>
      /\ overlapped' = IF Uploading THEN overlapped \cup {row} ELSE overlapped
  BY DEF Push, response, uploader
<1>2. (Cleared(i)' <=> Cleared(i)) /\ (InFlight(i)' <=> InFlight(i))
  BY <1>1 DEF Cleared, InFlight
<1>3. CASE i # scol
  BY <1>1, <1>2, <1>3, PushOthers, TimeFrame
<1>4. CASE i = scol
  <2>1. Pushed(i) = row - 1 /\ Pushed(i)' = row /\ row \in Nat /\ beginTime \in Nat
    BY <1>4, NumIdsAssumption DEF Push, PushDone, AfterColumn, Pushed, Counters, TypeOK, Columns
  <2>2. RowsIn(datas'[i]) = RowsIn(datas[i]) \cup {row}
    BY <1>4, PushRows
  <2>3. ClearedMarked(i)'
    <3>1. Cleared(i) => Uploading
      BY DEF Cleared, Uploading
    <3>2. QED
      BY <1>1, <1>2, <2>2, <3>1 DEF TimeInv, ClearedMarked, Flag
  <2>4. NoneBefore(i)'
    BY <1>1, <2>2 DEF TimeInv, NoneBefore, Flag
  <2>5. NoneMissing(i)'
    <3> SUFFICES ASSUME isClear = 0, ~Cleared(i), NEW x \in beginTime..row
                 PROVE  x \in RowsIn(datas'[i]) \cup overlapped'
      BY <1>1, <1>2, <2>1 DEF NoneMissing
    <3>1. x = row \/ x \in beginTime..Pushed(i)
      BY <2>1
    <3>2. QED
      BY <1>1, <2>2, <3>1 DEF TimeInv, NoneMissing
  <2>6. CopyExact(i)'
    BY <1>1, <1>2, ExactGrows DEF TimeInv, CopyExact
  <2>7. RestExact(i)'
    <3> SUFFICES ASSUME upc = "copy", ~InFlight(i)
                 PROVE  Exact(respBegin, RowsIn(datas'[i]), overlapped')
      BY <1>1, <1>2 DEF RestExact
    <3>1. Exact(respBegin, RowsIn(datas[i]), overlapped) /\ row \in overlapped'
      BY <1>1 DEF TimeInv, RestExact, Uploading
    <3>2. QED
      BY <1>1, <2>2, <3>1, ExactGrows
  <2>8. SentExact(i)'
    BY <1>1, SentStays DEF TimeInv
  <2>9. QED
    BY <2>3, <2>4, <2>5, <2>6, <2>7, <2>8 DEF TimeInv
<1>5. QED
  BY <1>3, <1>4

\* A column that is read for the message keeps the time that was read for it.
LEMMA BeginTimeRead ==
  ASSUME TypeOK, Counters, UploadBegin, NEW i \in Columns, ColumnInv(i), TimeInv(i)
  PROVE  TimeInv(i)'
<1>1. /\ upc = "wait" /\ upc' = "copy" /\ ucol' = 1 /\ respBegin' = beginTime
      /\ UNCHANGED <<datas, isClear, beginTime, respData, spc, scol, row, sent, overlapped>>
  BY DEF UploadBegin, shared, sampler, history, Counters
<1>2. ~Cleared(i) /\ ~Cleared(i)' /\ ~InFlight(i)' /\ Pushed(i)' = Pushed(i)
  BY <1>1 DEF Cleared, InFlight, Pushed, Columns
<1>3. Exact(beginTime, RowsIn(datas[i]), overlapped)
  <2>1. CASE isClear = 1
    BY <2>1 DEF TimeInv, ClearedMarked, Exact
  <2>2. CASE isClear = 0
    <3> SUFFICES ASSUME NEW x \in RowsIn(datas[i]) \ overlapped, NEW y \in beginTime..x
                 PROVE  y \in RowsIn(datas[i]) \cup overlapped
      <4>1. \A x \in RowsIn(datas[i]) \ overlapped : beginTime <= x
        BY <2>2 DEF TimeInv, NoneBefore
      <4>2. QED
        BY <4>1 DEF Exact
    <3>1. beginTime <= x
      BY <2>2 DEF TimeInv, NoneBefore
    <3>2. PICK k \in 1..Len(datas[i]) : x = datas[i][k]
      BY BaseFacts DEF RowsIn
    <3>3. x = Base(i) + k
      BY <3>2 DEF ColumnInv, BufferIsRun
    <3>4. x \in Int /\ Pushed(i) \in Int /\ x <= Pushed(i)
      BY <3>3, BaseFacts, PushedNat
    <3>5. y \in beginTime..Pushed(i)
      BY <3>4 DEF TypeOK
    <3>6. QED
      BY <1>2, <2>2, <3>1, <3>5 DEF TimeInv, NoneMissing
  <2>3. QED
    BY <2>1, <2>2 DEF TypeOK
<1>4. ClearedMarked(i)' /\ NoneBefore(i)' /\ NoneMissing(i)'
  BY <1>1, <1>2 DEF TimeInv, ClearedMarked, NoneBefore, NoneMissing
<1>5. CopyExact(i)' /\ RestExact(i)'
  BY <1>1, <1>2, <1>3 DEF CopyExact, RestExact
<1>6. SentExact(i)'
  BY <1>1, SentStays DEF TimeInv
<1>7. QED
  BY <1>4, <1>5, <1>6 DEF TimeInv

\* The copy is exact because the column is.
LEMMA CopyTime ==
  ASSUME TypeOK, Counters, CopyColumn, NEW i \in Columns, TimeInv(i)
  PROVE  TimeInv(i)'
<1>1. /\ upc = "copy" /\ UNCHANGED <<datas, isClear, beginTime, respBegin, spc, scol, row, sent>>
      /\ overlapped \subseteq overlapped'
  BY DEF CopyColumn, shared, sampler, MarkOverlap
<1>2. Pushed(i)' = Pushed(i)
  BY <1>1 DEF Pushed
<1>3. ~Cleared(i) /\ ~Cleared(i)'
  BY <1>1, NumIdsAssumption DEF Cleared, CopyColumn, UploadColumnDone, AfterColumn, Columns
<1>4. CASE i # ucol
  BY <1>1, <1>2, <1>3, <1>4, CopyOthers, TimeFrame
<1>5. CASE i = ucol
  <2>1. InFlight(i)' /\ ~InFlight(i)
    BY <1>5, NumIdsAssumption
    DEF CopyColumn, UploadColumnDone, AfterColumn, InFlight, TypeOK, Columns
  <2>2. RowsIn(respData'[i]) = RowsIn(datas[i])
    BY <1>5, CopyRows
  <2>3. ClearedMarked(i)' /\ NoneBefore(i)' /\ NoneMissing(i)'
    BY <1>1, <1>2, <1>3 DEF TimeInv, ClearedMarked, NoneBefore, NoneMissing
  <2>4. CopyExact(i)' /\ RestExact(i)'
    BY <1>1, <2>1, <2>2, ExactGrows DEF TimeInv, CopyExact, RestExact
  <2>5. SentExact(i)'
    BY <1>1, SentStays DEF TimeInv
  <2>6. QED
    BY <2>3, <2>4, <2>5 DEF TimeInv
<1>6. QED
  BY <1>4, <1>5

\* A column that the loop of the clears has not reached is not cleared by it.
LEMMA ClearedOthers ==
  ASSUME TypeOK, NEW i \in Columns, upc = "clear", i # ucol, UploadColumnDone("flag")
  PROVE  (Cleared(i)' <=> Cleared(i)) /\ upc' # "copy"
  BY NumIdsAssumption DEF Cleared, UploadColumnDone, AfterColumn, TypeOK, Columns

\* A cleared column has nothing that is not exact.
LEMMA ClearTime ==
  ASSUME TypeOK, Counters, ClearColumn, NEW i \in Columns, TimeInv(i)
  PROVE  TimeInv(i)'
<1>1. /\ upc = "clear" /\ UNCHANGED <<respData, isClear, beginTime, respBegin, spc, scol, row, sent>>
      /\ overlapped \subseteq overlapped' /\ UploadColumnDone("flag")
  BY DEF ClearColumn, response, sampler, MarkOverlap
<1>2. Pushed(i)' = Pushed(i)
  BY <1>1 DEF Pushed
<1>3. CASE i # ucol
  BY <1>1, <1>2, <1>3, ClearOthers, ClearedOthers, TimeFrame
<1>4. CASE i = ucol
  <2>1. Cleared(i)' /\ InFlight(i) /\ InFlight(i)' /\ upc' # "copy"
    BY <1>1, <1>4, NumIdsAssumption
    DEF UploadColumnDone, AfterColumn, Cleared, InFlight, TypeOK, Columns
  <2>2. RowsIn(datas'[i]) = {}
    BY <1>4, ClearRows
  <2>3. ClearedMarked(i)' /\ NoneBefore(i)' /\ NoneMissing(i)'
    BY <2>1, <2>2 DEF ClearedMarked, NoneBefore, NoneMissing
  <2>4. CopyExact(i)' /\ RestExact(i)'
    BY <1>1, <2>1, ExactGrows DEF TimeInv, CopyExact, RestExact
  <2>5. SentExact(i)'
    BY <1>1, SentStays DEF TimeInv
  <2>6. QED
    BY <2>3, <2>4, <2>5 DEF TimeInv
<1>5. QED
  BY <1>3, <1>4

\* What the flag marks is a column of rows that met the upload, and what it
\* unmarks has nothing before the new beginTime.
LEMMA FlagTime ==
  ASSUME TypeOK, Counters, Flag, NEW i \in Columns, TimeInv(i),
         Stamp \/ Unflag \/ TornBegin \/ MarkClear
  PROVE  TimeInv(i)'
<1>1. /\ UNCHANGED <<datas, respData, sent>> /\ overlapped \subseteq overlapped'
      /\ Pushed(i)' = Pushed(i)
      /\ beginTime \in Nat /\ isClear \in {0, 1}
  BY DEF Stamp, Unflag, TornBegin, MarkClear, MarkOverlap, shared, response, sampler, history,
         Pushed, Counters, Columns, StampMeetsRead, TypeOK
<1>2. RowsIn(datas[i]) \subseteq overlapped
  BY DEF Stamp, Unflag, TornBegin, MarkClear, StampMeetsRead, Flag, TimeInv, ClearedMarked, Cleared
<1>3. ClearedMarked(i)' /\ NoneBefore(i)'
  BY <1>1, <1>2 DEF ClearedMarked, NoneBefore
<1>4. NoneMissing(i)'
  <2>1. CASE Unflag
    <3>1. beginTime' = row /\ Pushed(i) = row - 1 /\ row \in Nat
      BY <2>1 DEF Unflag, Flag, Pushed, TypeOK
    <3>2. beginTime'..Pushed(i)' = {}
      BY <1>1, <3>1
    <3>3. QED
      BY <3>2 DEF NoneMissing
  <2>2. CASE Stamp \/ TornBegin \/ MarkClear
    <3>1. isClear' = 1
      BY <2>2 DEF Stamp, TornBegin, MarkClear, StampMeetsRead, Flag
    <3>2. QED
      BY <3>1 DEF NoneMissing
  <2>3. QED
    BY <2>1, <2>2
<1>5. CopyExact(i)' /\ RestExact(i)'
  <2>1. CASE TornBegin
    <3>1. respBegin' = Torn
      BY <2>1 DEF TornBegin
    <3>2. QED
      BY <3>1 DEF CopyExact, RestExact, Exact
  <2>2. CASE Stamp \/ Unflag \/ MarkClear
    <3>1. respBegin' = respBegin /\ (InFlight(i)' <=> InFlight(i)) /\ (upc' = "copy" => upc = "copy")
      BY <2>2 DEF Stamp, Unflag, MarkClear, response, uploader, InFlight
    <3>2. QED
      BY <1>1, <3>1, ExactGrows DEF TimeInv, CopyExact, RestExact
  <2>3. QED
    BY <2>1, <2>2
<1>6. SentExact(i)'
  BY <1>1, SentStays DEF TimeInv
<1>7. QED
  BY <1>3, <1>4, <1>5, <1>6 DEF TimeInv

\* A message is as exact as the copy it is made of.
LEMMA PublishTime ==
  ASSUME TypeOK, Publish, NEW i \in Columns, TimeInv(i)
  PROVE  TimeInv(i)'
<1>1. /\ upc = "publish" /\ upc' = "wait"
      /\ UNCHANGED <<datas, isClear, beginTime, respBegin, respData, spc, scol, row, overlapped>>
  BY DEF Publish, shared, response, sampler
<1>2. ~Cleared(i) /\ ~Cleared(i)' /\ InFlight(i) /\ ~InFlight(i)' /\ Pushed(i)' = Pushed(i)
  BY <1>1 DEF Cleared, InFlight, Pushed
<1>3. ClearedMarked(i)' /\ NoneBefore(i)' /\ NoneMissing(i)'
  BY <1>1, <1>2 DEF TimeInv, ClearedMarked, NoneBefore, NoneMissing
<1>4. CopyExact(i)' /\ RestExact(i)'
  BY <1>1, <1>2 DEF CopyExact, RestExact
<1>5. SentExact(i)'
  <2>1. CASE sent' = sent
    BY <1>1, <2>1 DEF TimeInv, SentExact
  <2>2. CASE sent' # sent
    <3> DEFINE m == [begin |-> respBegin, data |-> respData]
    <3>1. sent' = Append(sent, m) /\ sent \in Seq(Message)
      BY <2>2 DEF Publish, TypeOK
    <3>2. \A n \in DOMAIN sent' : (n \in DOMAIN sent /\ sent'[n] = sent[n]) \/ sent'[n] = m
      BY <3>1
    <3>3. Exact(m.begin, RowsIn(m.data[i]), overlapped)
      BY <1>2 DEF TimeInv, CopyExact
    <3> HIDE DEF m
    <3>4. QED
      BY <1>1, <3>2, <3>3 DEF TimeInv, SentExact
  <2>3. QED
    BY <2>1, <2>2
<1>6. QED
  BY <1>3, <1>4, <1>5 DEF TimeInv

\* The other steps do not touch the column.
LEMMA QuietTime ==
  ASSUME TypeOK, Counters, NEW i \in Columns, TimeInv(i),
         \/ CheckClear \/ PublishThrows \/ RaceKills \/ UNCHANGED vars
         \/ PushUndoesClear /\ i \notin raced'
  PROVE  TimeInv(i)'
<1>1. CASE CheckClear \/ PublishThrows \/ RaceKills \/ UNCHANGED vars
  <2>1. UNCHANGED <<datas, respData, sent, isClear, beginTime, respBegin, upc, ucol, overlapped>>
    BY <1>1 DEF CheckClear, PublishThrows, RaceKills, vars, shared, response, uploader, history
  <2>2. Pushed(i)' = Pushed(i)
    BY <1>1 DEF CheckClear, PublishThrows, RaceKills, vars, sampler, Pushed, Counters, TypeOK, Columns
  <2>3. (Cleared(i)' <=> Cleared(i)) /\ (InFlight(i)' <=> InFlight(i))
    BY <2>1 DEF Cleared, InFlight
  <2>4. QED
    BY <2>1, <2>2, <2>3, TimeFrame
<1>2. CASE PushUndoesClear /\ i \notin raced'
  <2>1. i # scol /\ ucol = scol /\ upc = "clear" /\ UploadColumnDone("flag")
    BY <1>2 DEF PushUndoesClear, PushMeets
  <2>2. /\ datas'[i] = datas[i] /\ overlapped \subseteq overlapped'
        /\ UNCHANGED <<respData, respBegin, sent, isClear, beginTime>>
    BY <1>2, <2>1 DEF PushUndoesClear, response, TypeOK
  <2>3. Pushed(i)' = Pushed(i)
    BY <1>2, <2>1, NumIdsAssumption
    DEF PushUndoesClear, PushMeets, PushDone, AfterColumn, Pushed, TypeOK, Columns
  <2>4. InFlight(i)' <=> InFlight(i)
    BY <2>1, NumIdsAssumption DEF UploadColumnDone, AfterColumn, InFlight, TypeOK, Columns
  <2>5. QED
    BY <2>1, <2>2, <2>3, <2>4, ClearedOthers, TimeFrame
<1>3. QED
  BY <1>1, <1>2

\* The beginTime of a message is the time of its first row, but for rows that
\* were being pushed while an upload went on, even when the mark of a clear is
\* overwritten by the reset of isClear (Sample.cpp 81-84 and 124).
THEOREM ExactBegin == Spec => []BeginTimeExact
<1> DEFINE TInv == Flag /\ \A i \in Columns \ raced : TimeInv(i)
<1>1. Init => TInv
  <2> SUFFICES ASSUME Init PROVE TInv
    OBVIOUS
  <2>1. RowsIn(<<>>) = {}
    BY DEF RowsIn
  <2>2. Flag
    BY DEF Init, Flag
  <2>3. ASSUME NEW i \in Columns PROVE TimeInv(i)
    BY <2>1 DEF Init, TimeInv, ClearedMarked, NoneBefore, NoneMissing, CopyExact, RestExact,
                SentExact, InFlight
  <2>4. QED
    BY <2>2, <2>3
<1>2. IInv /\ TInv /\ [Next]_vars => TInv'
  <2> SUFFICES ASSUME IInv, TInv, [Next]_vars PROVE TInv'
    OBVIOUS
  <2>1. TypeOK /\ Counters
    BY DEF IInv
  <2>2. Flag'
    BY <2>1, FlagStep
  <2>3. raced \subseteq raced'
    BY DEF Next, SampleTask, UploadTask, Race, CheckClear, Stamp, Unflag, Push, UploadBegin,
           CopyColumn, ClearColumn, MarkClear, Publish, PublishThrows, PushUndoesClear,
           TornBegin, RaceKills, vars, history
  <2>4. ASSUME NEW i \in Columns, i \notin raced' PROVE TimeInv(i)'
    <3>1. TimeInv(i) /\ ColumnInv(i)
      BY <2>3, <2>4 DEF IInv
    <3>2. CASE Push
      BY <2>1, <3>1, <3>2, PushTime
    <3>3. CASE UploadBegin
      BY <2>1, <3>1, <3>3, BeginTimeRead
    <3>4. CASE CopyColumn
      BY <2>1, <3>1, <3>4, CopyTime
    <3>5. CASE ClearColumn
      BY <2>1, <3>1, <3>5, ClearTime
    <3>6. CASE Stamp \/ Unflag \/ TornBegin \/ MarkClear
      BY <2>1, <3>1, <3>6, FlagTime
    <3>7. CASE Publish
      BY <2>1, <3>1, <3>7, PublishTime
    <3>8. CASE CheckClear \/ PublishThrows \/ RaceKills \/ UNCHANGED vars \/ PushUndoesClear
      BY <2>1, <2>4, <3>1, <3>8, QuietTime
    <3>9. QED
      BY <3>2, <3>3, <3>4, <3>5, <3>6, <3>7, <3>8 DEF Next, SampleTask, UploadTask, Race
  <2>5. \A i \in Columns \ raced' : TimeInv(i)'
    BY <2>4
  <2>6. QED
    BY <2>2, <2>5 DEF Columns
<1>3. TInv => BeginTimeExact
  BY DEF TimeInv, SentExact, Exact, BeginTimeExact
<1>4. QED
  BY <1>1, <1>2, <1>3, Inductive, PTL DEF Spec

-----------------------------------------------------------------------------
(* The refinement of LossyChannel *)

\* A concatenation is taken apart where it was put together.
LEMMA SplitAt ==
  ASSUME NEW a \in Seq(Nat), NEW b \in Seq(Nat)
  PROVE  /\ a \o b \in Seq(Nat) /\ Len(a \o b) = Len(a) + Len(b)
         /\ Len(a) \in 0..Len(a \o b)
         /\ SubSeq(a \o b, 1, Len(a)) = a
         /\ SubSeq(a \o b, Len(a) + 1, Len(a \o b)) = b
<1>1. /\ a \o b \in Seq(Nat) /\ Len(a \o b) = Len(a) + Len(b)
      /\ \A i \in 1..(Len(a) + Len(b)) : (a \o b)[i] = IF i <= Len(a) THEN a[i] ELSE b[i - Len(a)]
  BY ConcatProperties
<1>2. Len(a) \in Nat /\ Len(b) \in Nat
  OBVIOUS
<1>3. SubSeq(a \o b, 1, Len(a)) = a
  <2>1. \A i \in 1..Len(a) : (a \o b)[i] \in Nat
    BY <1>1, <1>2
  <2>2. /\ SubSeq(a \o b, 1, Len(a)) \in Seq(Nat) /\ Len(SubSeq(a \o b, 1, Len(a))) = Len(a)
        /\ \A i \in 1..Len(a) : SubSeq(a \o b, 1, Len(a))[i] = (a \o b)[i]
    BY <1>2, <2>1, SubSeqProperties
  <2>3. \A i \in 1..Len(a) : SubSeq(a \o b, 1, Len(a))[i] = a[i]
    BY <1>1, <1>2, <2>2
  <2>4. QED
    BY <2>2, <2>3, SeqEqual
<1>4. SubSeq(a \o b, Len(a) + 1, Len(a \o b)) = b
  <2> DEFINE rest == SubSeq(a \o b, Len(a) + 1, Len(a \o b))
  <2>1. \A i \in (Len(a) + 1)..(Len(a) + Len(b)) : (a \o b)[i] \in Nat
    BY <1>1, <1>2
  <2>2. /\ rest \in Seq(Nat) /\ Len(rest) = Len(b)
        /\ \A i \in 1..Len(b) : rest[i] = (a \o b)[Len(a) + i]
    BY <1>1, <1>2, <2>1, SubSeqProperties
  <2>3. \A i \in 1..Len(b) : rest[i] = b[i]
    BY <1>1, <1>2, <2>2
  <2>4. QED
    BY <2>2, <2>3, SeqEqual
<1>5. QED
  BY <1>1, <1>2, <1>3, <1>4

\* A copy that is the beginning of a column, with the rest, is the column.
LEMMA CopyAndRest ==
  ASSUME NEW c \in Seq(Nat), NEW d \in Seq(Nat), Len(c) <= Len(d),
         \A k \in 1..Len(c) : c[k] = d[k]
  PROVE  /\ SubSeq(d, 1, Len(c)) = c
         /\ c \o SubSeq(d, Len(c) + 1, Len(d)) = d
<1>1. /\ Len(c) \in Nat /\ Len(d) \in Nat
      /\ \A k \in 1..Len(c) : k \in 1..Len(d) /\ d[k] \in Nat
  OBVIOUS
<1>2. /\ SubSeq(d, 1, Len(c)) \in Seq(Nat) /\ Len(SubSeq(d, 1, Len(c))) = Len(c)
      /\ \A k \in 1..Len(c) : SubSeq(d, 1, Len(c))[k] = d[k]
  BY <1>1, SubSeqProperties
<1>3. SubSeq(d, 1, Len(c)) = c
  BY <1>2, SeqEqual
<1>4. SubSeq(d, 1, Len(c)) \o SubSeq(d, Len(c) + 1, Len(d)) = SubSeq(d, 1, Len(d))
  <2>1. 1 \in 1..(Len(d) + 1) /\ Len(c) \in (1 - 1)..Len(d) /\ Len(d) \in Len(c)..Len(d)
    BY <1>1
  <2>2. QED
    BY <2>1, ConcatAdjacentSubSeq
<1>5. SubSeq(d, 1, Len(d)) = d
  BY SubSeqFull
<1>6. QED
  BY <1>3, <1>4, <1>5

Delivered(i) == [n \in DOMAIN sent |-> sent[n].data[i]]
Lane(i) == [made |-> Pushed(i), waiting |-> Waiting(i), delivered |-> Delivered(i)]

\* The parts of a lane before and after a step.
LEMMA LaneTyped ==
  ASSUME NEW i \in Columns
  PROVE  /\ Lane(i).made = Pushed(i) /\ Lane(i).waiting = Waiting(i)
         /\ Lane(i).delivered = Delivered(i)
         /\ Lane(i)'.made = Pushed(i)' /\ Lane(i)'.waiting = Waiting(i)'
         /\ Lane(i)'.delivered = Delivered(i)'
         /\ Lane(i) \in [made : {Pushed(i), Pushed(i)'}, waiting : {Waiting(i), Waiting(i)'},
                         delivered : {Delivered(i), Delivered(i)'}]
         /\ Lane(i)' \in [made : {Pushed(i), Pushed(i)'}, waiting : {Waiting(i), Waiting(i)'},
                          delivered : {Delivered(i), Delivered(i)'}]
  BY DEF Lane

\* A lane that differs in some parts is the old one, with these parts.
LEMMA LaneDiffers ==
  ASSUME NEW i \in Columns
  PROVE  /\ Lane(i)'.delivered = Lane(i).delivered =>
              Lane(i)' = [Lane(i) EXCEPT !.made = Lane(i)'.made, !.waiting = Lane(i)'.waiting]
         /\ Lane(i)'.made = Lane(i).made /\ Lane(i)'.delivered = Lane(i).delivered =>
              Lane(i)' = [Lane(i) EXCEPT !.waiting = Lane(i)'.waiting]
         /\ Lane(i)'.made = Lane(i).made =>
              Lane(i)' = [Lane(i) EXCEPT !.waiting = Lane(i)'.waiting,
                                         !.delivered = Lane(i)'.delivered]
<1> DEFINE old == Lane(i)
           new == Lane(i)'
<1>1. PICK M, W, D : /\ old \in [made : M, waiting : W, delivered : D]
                     /\ new \in [made : M, waiting : W, delivered : D]
  BY LaneTyped
<1> HIDE DEF old, new
<1>2. /\ new.delivered = old.delivered =>
           new = [old EXCEPT !.made = new.made, !.waiting = new.waiting]
      /\ new.made = old.made /\ new.delivered = old.delivered =>
           new = [old EXCEPT !.waiting = new.waiting]
      /\ new.made = old.made =>
           new = [old EXCEPT !.waiting = new.waiting, !.delivered = new.delivered]
  BY <1>1
<1>3. QED
  BY <1>2 DEF old, new

\* What waits is the copy and the column, and the column alone while it still
\* begins with the copy.
Shown(i) == IF InFlight(i) /\ ~InWindow(i) THEN respData[i] \o datas[i] ELSE datas[i]

LEMMA WaitingShown ==
  ASSUME TypeOK, NEW i \in Columns, ColumnInv(i)
  PROVE  Waiting(i) = Shown(i)
<1>1. respData[i] \in Seq(Nat) /\ datas[i] \in Seq(Nat)
  BY DEF TypeOK
<1>2. CASE InWindow(i)
  <2>1. InFlight(i)
    BY <1>2 DEF InWindow, InFlight
  <2>2. respData[i] \o SubSeq(datas[i], Len(respData[i]) + 1, Len(datas[i])) = datas[i]
    BY <1>1, <1>2, CopyAndRest DEF ColumnInv, CopyIsPrefix
  <2>3. QED
    BY <1>2, <2>1, <2>2 DEF Waiting, Shown
<1>3. CASE ~InWindow(i)
  BY <1>3 DEF Waiting, Shown
<1>4. QED
  BY <1>2, <1>3

LEMMA WaitingShownNext ==
  ASSUME TypeOK', NEW i \in Columns, ColumnInv(i)'
  PROVE  Waiting(i)' = Shown(i)'
<1>1. respData'[i] \in Seq(Nat) /\ datas'[i] \in Seq(Nat)
  BY DEF TypeOK
<1>2. CASE InWindow(i)'
  <2>1. InFlight(i)'
    BY <1>2 DEF InWindow, InFlight
  <2>2. respData'[i] \o SubSeq(datas'[i], Len(respData'[i]) + 1, Len(datas'[i])) = datas'[i]
    BY <1>1, <1>2, CopyAndRest DEF ColumnInv, CopyIsPrefix
  <2>3. QED
    BY <1>2, <2>1, <2>2 DEF Waiting, Shown
<1>3. CASE ~InWindow(i)'
  BY <1>3 DEF Waiting, Shown
<1>4. QED
  BY <1>2, <1>3

\* A column that a step leaves alone is a lane that stays.
LEMMA LaneSame ==
  ASSUME NEW i \in Columns,
         datas'[i] = datas[i], respData'[i] = respData[i], sent' = sent, Pushed(i)' = Pushed(i),
         InWindow(i)' <=> InWindow(i), InFlight(i)' <=> InFlight(i)
  PROVE  Lane(i)' = Lane(i)
<1>1. Waiting(i)' = Waiting(i)
  BY DEF Waiting
<1>2. Delivered(i)' = Delivered(i)
  BY DEF Delivered
<1>3. QED
  BY <1>1, <1>2 DEF Lane

\* A row appended to the second of two sequences is appended to both.
LEMMA AppendBehind ==
  ASSUME NEW a \in Seq(Nat), NEW b \in Seq(Nat), NEW e \in Nat
  PROVE  a \o Append(b, e) = Append(a \o b, e)
<1>1. /\ Append(b, e) = b \o <<e>> /\ <<e>> \in Seq(Nat) /\ a \o b \in Seq(Nat)
  BY AppendIsConcat, ConcatProperties
<1>2. Append(a \o b, e) = (a \o b) \o <<e>>
  BY <1>1, AppendIsConcat
<1>3. a \o (b \o <<e>>) = (a \o b) \o <<e>>
  BY <1>1, ConcatAssociative
<1>4. QED
  BY <1>1, <1>2, <1>3

\* A push puts the row behind all that waits.
LEMMA PushPuts ==
  ASSUME TypeOK, TypeOK', Counters, Push, NEW i \in Columns, ColumnInv(i), ColumnInv(i)'
  PROVE  Lane(i)' = Lane(i) \/ Channel!Put(Lane(i), Lane(i)')
<1>0. /\ UNCHANGED <<respData, sent, upc, ucol>>
      /\ InWindow(i)' <=> InWindow(i)
      /\ InFlight(i)' <=> InFlight(i)
  BY DEF Push, response, uploader, InWindow, InFlight
<1>1. CASE i # scol
  BY <1>0, <1>1, PushOthers, LaneSame
<1>2. CASE i = scol
  <2>1. Pushed(i)' = Pushed(i) + 1 /\ Pushed(i)' = row /\ row \in Nat
    BY <1>2, NumIdsAssumption DEF Push, PushDone, AfterColumn, Pushed, Counters, TypeOK, Columns
  <2>2. datas'[i] = Append(datas[i], row) /\ datas[i] \in Seq(Nat) /\ respData[i] \in Seq(Nat)
    BY <1>2 DEF Push, TypeOK
  <2>3. Shown(i) \in Seq(Nat) /\ Shown(i)' = Append(Shown(i), row)
    <3>1. CASE InFlight(i) /\ ~InWindow(i)
      <4>1. respData[i] \o Append(datas[i], row) = Append(respData[i] \o datas[i], row)
        BY <2>1, <2>2, AppendBehind
      <4>2. QED
        BY <1>0, <2>2, <3>1, <4>1, ConcatProperties DEF Shown
    <3>2. CASE ~(InFlight(i) /\ ~InWindow(i))
      BY <1>0, <2>2, <3>2 DEF Shown
    <3>3. QED
      BY <3>1, <3>2
  <2>4. Waiting(i) = Shown(i) /\ Waiting(i)' = Shown(i)'
    BY WaitingShown, WaitingShownNext
  <2>5. /\ SubSeq(Waiting(i), 1, Len(Waiting(i))) = Waiting(i)
        /\ Len(Waiting(i)) \in 0..Len(Waiting(i))
    BY <2>3, <2>4, SubSeqFull
  <2>6. Delivered(i)' = Delivered(i)
    BY <1>0 DEF Delivered
  <2>7. Lane(i)' = [Lane(i) EXCEPT !.made = Lane(i)'.made, !.waiting = Lane(i)'.waiting]
    <3>1. Lane(i)'.delivered = Lane(i).delivered
      BY <2>6, LaneTyped
    <3>2. QED
      BY <3>1, LaneDiffers
  <2>8. /\ Lane(i)'.made = Lane(i).made + 1
        /\ Lane(i)'.waiting = Append(SubSeq(Lane(i).waiting, 1, Len(Waiting(i))), Lane(i)'.made)
    BY <2>1, <2>3, <2>4, <2>5, LaneTyped
  <2>9. Len(Waiting(i)) \in 0..Len(Lane(i).waiting)
    BY <2>5, LaneTyped
  <2> HIDE DEF Lane
  <2>10. Channel!Put(Lane(i), Lane(i)')
    BY <2>7, <2>8, <2>9 DEF Channel!Put, Channel!Oldest
  <2>11. QED
    BY <2>10
<1>3. QED
  BY <1>1, <1>2

\* A copy takes nothing away.
LEMMA CopyStays ==
  ASSUME TypeOK, TypeOK', Counters, CopyColumn, NEW i \in Columns, ColumnInv(i), ColumnInv(i)'
  PROVE  Lane(i)' = Lane(i)
<1>1. UNCHANGED <<datas, sent>> /\ Pushed(i)' = Pushed(i)
  BY DEF CopyColumn, shared, sampler, Pushed
<1>2. CASE i # ucol
  BY <1>1, <1>2, CopyOthers, LaneSame
<1>3. CASE i = ucol
  <2>1. InWindow(i)' /\ ~InFlight(i)
    BY <1>3, NumIdsAssumption
    DEF CopyColumn, UploadColumnDone, AfterColumn, InWindow, InFlight, TypeOK, Columns
  <2>2. Waiting(i)' = Waiting(i)
    BY <1>1, <2>1, WaitingShown, WaitingShownNext DEF Shown
  <2>3. Delivered(i)' = Delivered(i)
    BY <1>1 DEF Delivered
  <2>4. QED
    BY <1>1, <2>2, <2>3 DEF Lane
<1>4. QED
  BY <1>2, <1>3

\* A clear loses what was pushed since the copy.
LEMMA ClearLoses ==
  ASSUME TypeOK, TypeOK', Counters, ClearColumn, NEW i \in Columns, ColumnInv(i), ColumnInv(i)'
  PROVE  Lane(i)' = Lane(i) \/ Channel!Lose(Lane(i), Lane(i)')
<1>1. UNCHANGED <<respData, sent>> /\ Pushed(i)' = Pushed(i)
  BY DEF ClearColumn, response, sampler, Pushed
<1>2. CASE i # ucol
  BY <1>1, <1>2, ClearOthers, LaneSame
<1>3. CASE i = ucol
  <2>1. datas'[i] = <<>> /\ datas[i] \in Seq(Nat) /\ respData[i] \in Seq(Nat)
    BY <1>3 DEF ClearColumn, TypeOK
  <2>2. InWindow(i) /\ InFlight(i) /\ ~InWindow(i)' /\ InFlight(i)'
    BY <1>3, NumIdsAssumption
    DEF ClearColumn, UploadColumnDone, AfterColumn, InWindow, InFlight, TypeOK, Columns
  <2>3. Waiting(i) = datas[i] /\ Waiting(i)' = respData[i]
    <3>1. respData[i] \o <<>> = respData[i]
      BY <2>1
    <3>2. QED
      BY <1>1, <2>1, <2>2, <3>1, WaitingShown, WaitingShownNext DEF Shown
  <2>4. /\ SubSeq(datas[i], 1, Len(respData[i])) = respData[i]
        /\ Len(respData[i]) \in 0..Len(datas[i])
    <3>1. /\ Len(respData[i]) <= Len(datas[i])
          /\ \A k \in 1..Len(respData[i]) : respData[i][k] = datas[i][k]
      BY <2>2 DEF ColumnInv, CopyIsPrefix
    <3>2. Len(respData[i]) \in Nat /\ Len(datas[i]) \in Nat
      BY <2>1
    <3>3. QED
      BY <2>1, <3>1, <3>2, CopyAndRest
  <2>5. Delivered(i)' = Delivered(i)
    BY <1>1 DEF Delivered
  <2>6. Lane(i)'.made = Lane(i).made /\ Lane(i)'.delivered = Lane(i).delivered
    BY <1>1, <2>5, LaneTyped
  <2>7. Lane(i)' = [Lane(i) EXCEPT !.waiting = Lane(i)'.waiting]
    BY <2>6, LaneDiffers
  <2>8. /\ Lane(i)'.waiting = SubSeq(Lane(i).waiting, 1, Len(respData[i]))
        /\ Len(respData[i]) \in 0..Len(Lane(i).waiting)
    BY <2>3, <2>4, LaneTyped
  <2>9. QED
    BY <2>7, <2>8 DEF Channel!Lose, Channel!Oldest
<1>4. QED
  BY <1>2, <1>3

\* What is published is one more delivery of each column.
LEMMA DeliveredAppended ==
  ASSUME NEW seq \in Seq(Message), NEW m \in Message, NEW i \in Columns
  PROVE  [n \in DOMAIN Append(seq, m) |-> Append(seq, m)[n].data[i]]
           = Append([n \in DOMAIN seq |-> seq[n].data[i]], m.data[i])
<1> DEFINE more == Append(seq, m)
           was == [n \in DOMAIN seq |-> seq[n].data[i]]
           now == [n \in DOMAIN more |-> more[n].data[i]]
<1>0. \A x \in Message : x.data[i] \in Seq(Nat)
  BY DEF Message
<1>1. Len(seq) \in Nat /\ DOMAIN seq = 1..Len(seq) /\ \A n \in 1..Len(seq) : seq[n] \in Message
  OBVIOUS
<1>2. /\ DOMAIN more = 1..(Len(seq) + 1)
      /\ \A n \in 1..Len(seq) : more[n] = seq[n]
      /\ more[Len(seq) + 1] = m
  OBVIOUS
<1>3. was \in Seq(Seq(Nat)) /\ Len(was) = Len(seq)
  <2>1. \A n \in 1..Len(seq) : seq[n].data[i] \in Seq(Nat)
    BY <1>0, <1>1
  <2>2. was \in [1..Len(seq) -> Seq(Nat)]
    BY <1>1, <2>1
  <2>3. QED
    BY <1>1, <2>2
<1>4. /\ Append(was, m.data[i]) \in Seq(Seq(Nat)) /\ Len(Append(was, m.data[i])) = Len(seq) + 1
      /\ \A n \in 1..Len(seq) : Append(was, m.data[i])[n] = was[n]
      /\ Append(was, m.data[i])[Len(seq) + 1] = m.data[i]
  BY <1>0, <1>3
<1>5. now \in Seq(Seq(Nat)) /\ Len(now) = Len(seq) + 1
  <2>1. \A n \in 1..(Len(seq) + 1) : more[n].data[i] \in Seq(Nat)
    BY <1>0, <1>1, <1>2
  <2>2. now \in [1..(Len(seq) + 1) -> Seq(Nat)]
    BY <1>2, <2>1
  <2>3. QED
    BY <1>1, <2>2
<1>6. ASSUME NEW n \in 1..(Len(seq) + 1) PROVE now[n] = Append(was, m.data[i])[n]
  BY <1>1, <1>2, <1>4
<1>7. now = Append(was, m.data[i])
  BY <1>4, <1>5, <1>6, SeqEqual
<1>8. QED
  BY <1>7

\* Publishing delivers the copy; a message without any value is not recorded,
\* and has none of this column.
LEMMA PublishDelivers ==
  ASSUME TypeOK, TypeOK', Publish, NEW i \in Columns, ColumnInv(i), ColumnInv(i)'
  PROVE  Lane(i)' = Lane(i) \/ Channel!Deliver(Lane(i), Lane(i)')
<1>1. UNCHANGED <<datas, respData>> /\ Pushed(i)' = Pushed(i)
  BY DEF Publish, shared, response, sampler, Pushed
<1>2. InFlight(i) /\ ~InWindow(i) /\ ~InFlight(i)'
  BY DEF Publish, InFlight, InWindow
<1>3. datas[i] \in Seq(Nat) /\ respData[i] \in Seq(Nat)
  BY DEF TypeOK
<1>4. Waiting(i) = respData[i] \o datas[i] /\ Waiting(i)' = datas[i]
  BY <1>1, <1>2, WaitingShown, WaitingShownNext DEF Shown
<1>5. CASE sent' = sent /\ respData[i] = <<>>
  <2>1. Waiting(i)' = Waiting(i)
    BY <1>3, <1>4, <1>5
  <2>2. Delivered(i)' = Delivered(i)
    BY <1>5 DEF Delivered
  <2>3. QED
    BY <1>1, <2>1, <2>2 DEF Lane
<1>6. CASE sent' = Append(sent, [begin |-> respBegin, data |-> respData])
  <2>1. sent \in Seq(Message) /\ [begin |-> respBegin, data |-> respData] \in Message
    BY DEF TypeOK, Message
  <2>2. Delivered(i)' = Append(Delivered(i), respData[i])
    BY <1>6, <2>1, DeliveredAppended DEF Delivered
  <2>3. /\ SubSeq(Waiting(i), 1, Len(respData[i])) = respData[i]
        /\ SubSeq(Waiting(i), Len(respData[i]) + 1, Len(Waiting(i))) = datas[i]
        /\ Len(respData[i]) \in 0..Len(Waiting(i))
    <3> DEFINE both == respData[i] \o datas[i]
    <3>1. /\ SubSeq(both, 1, Len(respData[i])) = respData[i]
          /\ SubSeq(both, Len(respData[i]) + 1, Len(both)) = datas[i]
          /\ Len(respData[i]) \in 0..Len(both)
      BY <1>3, SplitAt
    <3>2. Waiting(i) = both
      BY <1>4
    <3> HIDE DEF both
    <3>3. QED
      BY <3>1, <3>2
  <2>4. Lane(i)' = [Lane(i) EXCEPT !.waiting = Lane(i)'.waiting, !.delivered = Lane(i)'.delivered]
    <3>1. Lane(i)'.made = Lane(i).made
      BY <1>1, LaneTyped
    <3>2. QED
      BY <3>1, LaneDiffers
  <2>5. /\ Lane(i)'.waiting = SubSeq(Lane(i).waiting, Len(respData[i]) + 1, Len(Lane(i).waiting))
        /\ Lane(i)'.delivered
             = Append(Lane(i).delivered, SubSeq(Lane(i).waiting, 1, Len(respData[i])))
        /\ Len(respData[i]) \in 0..Len(Lane(i).waiting)
    BY <1>4, <2>2, <2>3, LaneTyped
  <2>6. QED
    BY <2>4, <2>5 DEF Channel!Deliver, Channel!Oldest
<1>7. QED
  BY <1>5, <1>6 DEF Publish

\* The steps that move no value.
LEMMA QuietLane ==
  ASSUME TypeOK, Counters, NEW i \in Columns,
         \/ CheckClear \/ Stamp \/ Unflag \/ UploadBegin \/ MarkClear
         \/ PublishThrows \/ TornBegin \/ RaceKills \/ UNCHANGED vars
  PROVE  Lane(i)' = Lane(i)
<1>1. UNCHANGED <<datas, respData, sent>>
  BY DEF CheckClear, Stamp, Unflag, UploadBegin, MarkClear, PublishThrows, TornBegin,
         RaceKills, vars, shared, response, history
<1>2. Pushed(i)' = Pushed(i)
  BY DEF CheckClear, Stamp, Unflag, UploadBegin, MarkClear, PublishThrows, TornBegin,
         RaceKills, vars, sampler, Pushed, Counters, TypeOK, Columns, StampMeetsRead
<1>3. (InWindow(i)' <=> InWindow(i)) /\ (InFlight(i)' <=> InFlight(i))
  BY DEF CheckClear, Stamp, Unflag, UploadBegin, MarkClear, PublishThrows, TornBegin,
         RaceKills, vars, uploader, InWindow, InFlight, Counters, TypeOK, Columns,
         StampMeetsRead
<1>4. QED
  BY <1>1, <1>2, <1>3, LaneSame

\* A collision breaks its column, and no other column sees it.
LEMMA CollisionLane ==
  ASSUME TypeOK, PushUndoesClear, NEW i \in Columns, i \notin raced'
  PROVE  Lane(i)' = Lane(i)
<1>1. i # scol /\ ucol = scol
  BY DEF PushUndoesClear, PushMeets
<1>2. datas'[i] = datas[i] /\ UNCHANGED <<respData, sent>>
  BY <1>1 DEF PushUndoesClear, response, TypeOK
<1>3. Pushed(i)' = Pushed(i)
  BY <1>1, NumIdsAssumption
  DEF PushUndoesClear, PushMeets, PushDone, AfterColumn, Pushed, TypeOK, Columns
<1>4. (InWindow(i)' <=> InWindow(i)) /\ (InFlight(i)' <=> InFlight(i))
  BY <1>1, NumIdsAssumption
  DEF PushUndoesClear, PushMeets, UploadColumnDone, AfterColumn, InWindow, InFlight,
      TypeOK, Columns
<1>5. QED
  BY <1>2, <1>3, <1>4, LaneSame

\* The channel is a lossy channel with a lane for each column that never raced,
\* whatever the interleaving of its threads (Sample.cpp, SampleTask and UploadTask).
THEOREM IsLossyChannel == Spec => ImplementsChannel
<1>1. Init => Channel!Init
  <2> SUFFICES ASSUME Init PROVE Channel!Init
    OBVIOUS
  <2>1. ASSUME NEW i \in Columns PROVE Pushed(i) = 0 /\ Waiting(i) = <<>>
    BY DEF Init, Pushed, Waiting, InFlight
  <2>2. ASSUME NEW i \in Columns PROVE [n \in DOMAIN sent |-> sent[n].data[i]] = <<>>
    BY DEF Init
  <2>3. QED
    BY <2>1, <2>2 DEF Init, Channel!Init
<1>2. IInv /\ IInv' /\ [Next]_vars => [Channel!Next]_(Channel!vars)
  <2> SUFFICES ASSUME IInv, IInv', [Next]_vars PROVE Channel!Next
    OBVIOUS
  <2>1. TypeOK /\ Counters /\ TypeOK'
    BY DEF IInv
  <2>2. raced \subseteq raced' /\ raced' \subseteq Columns
    <3>1. raced' \subseteq Columns
      BY <2>1 DEF TypeOK
    <3>2. QED
      BY <3>1 DEF Next, SampleTask, UploadTask, Race, CheckClear, Stamp, Unflag, Push, UploadBegin,
             CopyColumn, ClearColumn, MarkClear, Publish, PublishThrows, PushUndoesClear,
             TornBegin, RaceKills, vars, history
  <2>3. ASSUME NEW i \in Columns, i \notin raced'
        PROVE  Lane(i)' = Lane(i) \/ Channel!LaneStep(Lane(i), Lane(i)')
    <3>1. ColumnInv(i) /\ ColumnInv(i)'
      BY <2>2, <2>3 DEF IInv, Columns
    <3>2. CASE Push
      BY <2>1, <3>1, <3>2, PushPuts DEF Channel!LaneStep
    <3>3. CASE CopyColumn
      BY <2>1, <3>1, <3>3, CopyStays
    <3>4. CASE ClearColumn
      BY <2>1, <3>1, <3>4, ClearLoses DEF Channel!LaneStep
    <3>5. CASE Publish
      BY <2>1, <3>1, <3>5, PublishDelivers DEF Channel!LaneStep
    <3>6. CASE PushUndoesClear
      BY <2>1, <2>3, <3>6, CollisionLane
    <3>7. CASE \/ CheckClear \/ Stamp \/ Unflag \/ UploadBegin \/ MarkClear
               \/ PublishThrows \/ TornBegin \/ RaceKills \/ UNCHANGED vars
      BY <2>1, <3>7, QuietLane
    <3>8. QED
      BY <3>2, <3>3, <3>4, <3>5, <3>6, <3>7 DEF Next, SampleTask, UploadTask, Race
  <2>4. QED
    BY <2>2, <2>3 DEF Channel!Next, Lane, Delivered, Columns
<1>3. QED
  BY Inductive, <1>1, <1>2, PTL DEF Spec, ImplementsChannel, Channel!Spec
=============================================================================
