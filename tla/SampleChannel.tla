---------------------------- MODULE SampleChannel ----------------------------
(***************************************************************************)
(* One sample channel of the Modbus adapter (ModBus/src/Sample.cpp): a     *)
(* thread that takes one row of values every sampleInterval and pushes one *)
(* value into each of the idNum columns, and a thread that every           *)
(* uploadInterval copies the columns, clears them and publishes the copy.  *)
(* The two threads share datas, isClear and beginTime and take no lock.    *)
(*                                                                         *)
(* A value is the number of the row it was sampled in, and time is counted *)
(* in rows: the clock reads r from the start of row r until row r + 1.     *)
(* The waits on terminateEvent always time out (no Sample object is ever   *)
(* destroyed), so a wait is the point before the next step of its thread.  *)
(***************************************************************************)
EXTENDS Integers, Sequences

CONSTANTS
  NumIds,   \* idNum: the number of ids of the channel, one column each
  MaxRow,   \* bound: rows sampled in a behaviour
  Torn      \* a beginTime copied while it was being assigned

ASSUME NumIdsAssumption == NumIds \in Nat \ {0}
ASSUME MaxRowAssumption == MaxRow \in Nat
ASSUME TornAssumption   == Torn \notin Nat

VARIABLES
  datas,      \* datas[i]: the values waiting in column i
  isClear,    \* 1 when the uploader has emptied the columns
  beginTime,  \* time the collection began, 0 for the empty string
  respBegin,  \* responseJson["beginTime"]
  respData,   \* responseJson["data"]: the copy of the columns
  spc,        \* program counter of SampleTask
  scol,       \* the column SampleTask is at
  row,        \* the row SampleTask is at
  upc,        \* program counter of UploadTask
  ucol,       \* the column UploadTask is at
  alive,      \* the process runs
  sent,       \* history: the messages published that carry a value
  window,     \* history: window[i], rows pushed to i between copy and clear
  overlapped, \* history: rows being pushed while an upload went on
  raced       \* history: columns whose push and clear collided

shared == <<datas, isClear, beginTime>>
history == <<sent, window, overlapped, raced>>
response == <<respBegin, respData>>
sampler == <<spc, scol, row>>
uploader == <<upc, ucol>>
vars == <<shared, response, sampler, uploader, alive, history>>

Columns == 1..NumIds
Rows == 1..MaxRow
RowsIn(seq) == {seq[k] : k \in DOMAIN seq}
Message == [begin: Nat \cup {Torn}, data: [Columns -> Seq(Nat)]]

TypeOK ==
  /\ datas \in [Columns -> Seq(Nat)]
  /\ isClear \in {0, 1}
  /\ beginTime \in Nat
  /\ respBegin \in Nat \cup {Torn}
  /\ respData \in [Columns -> Seq(Nat)]
  /\ spc \in {"check", "stamp", "unflag", "push"}
  /\ scol \in Columns
  /\ row \in Nat
  /\ upc \in {"wait", "copy", "clear", "flag", "publish"}
  /\ ucol \in Columns
  /\ alive \in BOOLEAN
  /\ sent \in Seq(Message)
  /\ window \in [Columns -> SUBSET Nat]
  /\ overlapped \in SUBSET Nat
  /\ raced \in SUBSET Columns

\* The constructor fills datas with one empty column per id and sets isClear.
Init ==
  /\ datas = [i \in Columns |-> <<>>]
  /\ isClear = 1
  /\ beginTime = 0
  /\ respBegin = 0
  /\ respData = [i \in Columns |-> <<>>]
  /\ spc = "check" /\ scol = 1 /\ row = 0
  /\ upc = "wait" /\ ucol = 1
  /\ alive = TRUE
  /\ sent = <<>>
  /\ window = [i \in Columns |-> {}]
  /\ overlapped = {}
  /\ raced = {}

-----------------------------------------------------------------------------
(* The loops over the columns, and how the two threads overlap. *)

\* Faulty variant: "<=" in the bound of the loops.
AfterColumnTooFar(col) == IF col > NumIds THEN 1 ELSE col + 1

AfterColumn(col) == IF col = NumIds THEN 1 ELSE col + 1

\* Faulty variant: the push loop ends after its first column.
PushDoneTooSoon ==
  /\ scol' = 1
  /\ spc' = "check"
  /\ row' = row

\* The sampler has pushed into its column, the uploader has done its own.
PushDone ==
  /\ scol' = AfterColumn(scol)
  /\ spc' = IF scol = NumIds THEN "check" ELSE spc
  /\ row' = row

UploadColumnDone(next) ==
  /\ ucol' = AfterColumn(ucol)
  /\ upc' = IF ucol = NumIds THEN next ELSE upc

Uploading == upc \in {"copy", "clear", "flag"}

\* A step of the upload finds a row between its test of isClear and its end.
MarkOverlap ==
  overlapped' = IF spc = "push" THEN overlapped \cup {row} ELSE overlapped

\* Column i stands between its copy and its clear.
InWindow(i) ==
  \/ upc = "copy" /\ ucol > i
  \/ upc = "clear" /\ ucol <= i

-----------------------------------------------------------------------------
(* Faulty variants of the definitions that follow, against which the *)
(* properties are tried.                                              *)

\* The flag is never reset.
UnflagForgets ==
  /\ alive
  /\ spc = "unflag"
  /\ spc' = "push" /\ UNCHANGED <<scol, row>>
  /\ UNCHANGED <<shared, response, uploader, alive, history>>

\* The sampler empties the columns on its side as well.
StampEmpties ==
  /\ alive
  /\ spc = "stamp"
  /\ beginTime' = row
  /\ datas' = [i \in Columns |-> <<>>]
  /\ spc' = "unflag" /\ UNCHANGED <<scol, row>>
  /\ UNCHANGED <<isClear, response, uploader, alive, history>>

\* The newest value is put in front.
PushInFront ==
  /\ alive
  /\ spc = "push"
  /\ datas' = [datas EXCEPT ![scol] = <<row>> \o @]
  /\ PushDone
  /\ window' = IF InWindow(scol)
               THEN [window EXCEPT ![scol] = @ \cup {row}]
               ELSE window
  /\ overlapped' = IF Uploading THEN overlapped \cup {row} ELSE overlapped
  /\ UNCHANGED <<isClear, beginTime, response, uploader, alive, sent, raced>>

\* The copy is appended to the previous response.
CopyColumnAppends ==
  /\ alive
  /\ upc = "copy"
  /\ respData' = [respData EXCEPT ![ucol] = @ \o datas[ucol]] /\ UNCHANGED respBegin
  /\ UploadColumnDone("clear")
  /\ MarkOverlap
  /\ UNCHANGED <<shared, sampler, alive, sent, window, raced>>

\* The last column is not cleared.
ClearColumnButLast ==
  /\ alive
  /\ upc = "clear"
  /\ datas' = IF ucol = NumIds THEN datas ELSE [datas EXCEPT ![ucol] = <<>>]
  /\ UploadColumnDone("flag")
  /\ MarkOverlap
  /\ UNCHANGED <<isClear, beginTime, response, sampler, alive, sent, window, raced>>

\* The loop starts over before it publishes.
MarkClearRestarts ==
  /\ alive
  /\ upc = "flag"
  /\ isClear' = 1
  /\ upc' = "wait" /\ UNCHANGED ucol
  /\ MarkOverlap
  /\ UNCHANGED <<datas, beginTime, response, sampler, alive, sent, window, raced>>

-----------------------------------------------------------------------------
(* SampleTask *)

\* The loop head: a new row begins and the flag is tested.
CheckClear ==
  /\ alive
  /\ spc = "check"
  /\ row < MaxRow
  /\ row' = row + 1
  /\ spc' = IF isClear = 1 THEN "stamp" ELSE "push"
  /\ UNCHANGED <<scol, shared, response, uploader, alive, history>>

Stamp ==
  /\ alive
  /\ spc = "stamp"
  /\ beginTime' = row
  /\ spc' = "unflag" /\ UNCHANGED <<scol, row>>
  /\ UNCHANGED <<datas, isClear, response, uploader, alive, history>>

Unflag ==
  /\ alive
  /\ spc = "unflag"
  /\ isClear' = 0
  /\ spc' = "push" /\ UNCHANGED <<scol, row>>
  /\ UNCHANGED <<datas, beginTime, response, uploader, alive, history>>

\* One iteration of the push loop; QuerySample fills only the local data.
Push ==
  /\ alive
  /\ spc = "push"
  /\ datas' = [datas EXCEPT ![scol] = Append(@, row)]
  /\ PushDone
  /\ window' = IF InWindow(scol)
               THEN [window EXCEPT ![scol] = @ \cup {row}]
               ELSE window
  /\ overlapped' = IF Uploading THEN overlapped \cup {row} ELSE overlapped
  /\ UNCHANGED <<isClear, beginTime, response, uploader, alive, sent, raced>>

-----------------------------------------------------------------------------
(* UploadTask *)

UploadBegin ==
  /\ alive
  /\ upc = "wait"
  /\ respBegin' = beginTime /\ UNCHANGED respData
  /\ upc' = "copy" /\ UNCHANGED ucol
  /\ UNCHANGED <<shared, sampler, alive, history>>

CopyColumn ==
  /\ alive
  /\ upc = "copy"
  /\ respData' = [respData EXCEPT ![ucol] = datas[ucol]] /\ UNCHANGED respBegin
  /\ UploadColumnDone("clear")
  /\ MarkOverlap
  /\ UNCHANGED <<shared, sampler, alive, sent, window, raced>>

ClearColumn ==
  /\ alive
  /\ upc = "clear"
  /\ datas' = [datas EXCEPT ![ucol] = <<>>]
  /\ UploadColumnDone("flag")
  /\ MarkOverlap
  /\ UNCHANGED <<isClear, beginTime, response, sampler, alive, sent, window, raced>>

MarkClear ==
  /\ alive
  /\ upc = "flag"
  /\ isClear' = 1
  /\ upc' = "publish" /\ UNCHANGED ucol
  /\ MarkOverlap
  /\ UNCHANGED <<datas, beginTime, response, sampler, alive, sent, window, raced>>

\* Messages that carry no value at all are not recorded in sent.
Publish ==
  /\ alive
  /\ upc = "publish"
  /\ upc' = "wait" /\ UNCHANGED ucol
  /\ sent' = IF \E i \in Columns : respData[i] # <<>>
             THEN Append(sent, [begin |-> respBegin, data |-> respData]) ELSE sent
  /\ UNCHANGED <<shared, response, sampler, alive, window, overlapped, raced>>

\* async_client::publish throws when the client is not connected, and nothing
\* in the thread catches it: std::terminate.
PublishThrows ==
  /\ alive
  /\ upc = "publish"
  /\ alive' = FALSE
  /\ UNCHANGED <<shared, response, sampler, uploader, history>>

-----------------------------------------------------------------------------
(* The data races: two conflicting accesses that may overlap. *)

PushMeets(step) ==
  spc = "push" /\ upc = step /\ ucol = scol

StampMeetsRead == spc = "stamp" /\ upc = "wait"

\* push_back stores its new end after clear stored the old begin: the column
\* keeps the values that were already copied.
PushUndoesClear ==
  /\ alive
  /\ PushMeets("clear")
  /\ datas' = [datas EXCEPT ![scol] = Append(@, row)]
  /\ PushDone
  /\ UploadColumnDone("flag")
  /\ raced' = raced \cup {scol}
  /\ overlapped' = overlapped \cup {row}
  /\ UNCHANGED <<isClear, beginTime, response, alive, sent, window>>

\* The string is copied while it is assigned.
TornBegin ==
  /\ alive
  /\ StampMeetsRead
  /\ beginTime' = row
  /\ spc' = "unflag" /\ UNCHANGED <<scol, row>>
  /\ respBegin' = Torn /\ UNCHANGED respData
  /\ upc' = "copy" /\ UNCHANGED ucol
  /\ UNCHANGED <<datas, isClear, alive, history>>

\* A reallocation or a swap frees the storage the other thread is using.
RaceKills ==
  /\ alive
  /\ PushMeets("copy") \/ PushMeets("clear") \/ StampMeetsRead
  /\ alive' = FALSE
  /\ UNCHANGED <<shared, response, sampler, uploader, history>>

-----------------------------------------------------------------------------
SampleTask == CheckClear \/ Stamp \/ Unflag \/ Push
UploadTask == UploadBegin \/ CopyColumn \/ ClearColumn \/ MarkClear \/ Publish \/ PublishThrows
Race == PushUndoesClear \/ TornBegin \/ RaceKills

Next == SampleTask \/ UploadTask \/ Race

Spec == Init /\ [][Next]_vars

\* Each loop goes on as long as the process runs: the waits have timeouts.
FairSpec == Spec /\ WF_vars(SampleTask) /\ WF_vars(UploadTask)

-----------------------------------------------------------------------------
(* Properties *)

\* The last row of which column i has received its value.
Pushed(i) ==
  IF spc = "check" \/ (spc = "push" /\ scol > i)
  THEN row ELSE row - 1

Published(i) == UNION {RowsIn(sent[n].data[i]) : n \in DOMAIN sent}

\* Column i has been copied into a response that is not published yet.
InFlight(i) ==
  \/ upc = "copy" /\ ucol > i
  \/ upc \in {"clear", "flag", "publish"}

Pending(i) == IF InFlight(i) THEN RowsIn(respData[i]) ELSE {}

Consecutive(seq) == \A k \in 1..(Len(seq) - 1) : seq[k + 1] = seq[k] + 1

\* Over all messages a column never repeats a value nor steps back in time,
\* whatever the interleaving of push, copy and clear, unless a push and a
\* clear of that very column collided.
PublishedInOrder ==
  \A i \in Columns \ raced : \A m, n \in DOMAIN sent : m < n =>
    \A x \in RowsIn(sent[m].data[i]), y \in RowsIn(sent[n].data[i]) : x < y

\* Within one message a column has no gap: a consumer that dates value k of a
\* column as k intervals after the first one is right about the distance.
NoGapInMessage ==
  \A i \in Columns \ raced : \A n \in DOMAIN sent : Consecutive(sent[n].data[i])

\* A value can only be lost by being pushed between the copy and the clear of
\* its column: every other one is in the column, on its way or published.
LossOnlyInWindow ==
  \A i \in Columns \ raced :
    1..Pushed(i) \subseteq Published(i) \cup Pending(i) \cup RowsIn(datas[i]) \cup window[i]

\* The beginTime of a message is the time of its first row, give or take rows
\* that were being pushed while an upload went on: no other value is older
\* than beginTime, and no row between beginTime and such a value is missing,
\* even when a clear is marked between the test and the reset of isClear.
BeginTimeExact ==
  \A i \in Columns \ raced : \A n \in DOMAIN sent :
    sent[n].begin # Torn =>
      \A x \in RowsIn(sent[n].data[i]) \ overlapped :
        /\ sent[n].begin <= x
        /\ sent[n].begin..x \subseteq RowsIn(sent[n].data[i]) \cup overlapped

\* A row that was not being pushed during an upload is whole: a message that
\* carries its value in one column carries it in every column.
RowsWhole ==
  raced = {} =>
    \A n \in DOMAIN sent : \A i, j \in Columns :
      RowsIn(sent[n].data[i]) \subseteq RowsIn(sent[n].data[j]) \cup overlapped

\* The process does not sit on a value: each pushed value is published in the
\* end, or was lost in the window, or the process died or the column raced.
EveryValueSettles ==
  \A i \in Columns, r \in Rows :
    (r <= Pushed(i)) ~>
      (r \in Published(i) \/ r \in window[i] \/ i \in raced \/ ~alive)
-----------------------------------------------------------------------------
(* The channel as its reader sees it *)

\* What waits in column i: the copy on its way, then what was pushed since.
\* Between its copy and its clear the column still begins with the copy.
Waiting(i) ==
  IF ~InFlight(i) THEN datas[i]
  ELSE respData[i] \o (IF InWindow(i)
                       THEN SubSeq(datas[i], Len(respData[i]) + 1, Len(datas[i]))
                       ELSE datas[i])

Channel == INSTANCE LossyChannel WITH
  Lanes <- Columns,
  lane <- [i \in Columns |-> [made |-> Pushed(i), waiting |-> Waiting(i),
                              delivered |-> [n \in DOMAIN sent |-> sent[n].data[i]]]],
  broken <- raced,
  repeats <- FALSE

\* The two threads implement a lossy channel: whatever their interleaving, a
\* column that never raced is a queue that is delivered from its front and
\* loses from its end, and each message is one delivery of every column.
ImplementsChannel == Channel!Spec
=============================================================================
